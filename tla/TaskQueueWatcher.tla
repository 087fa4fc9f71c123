-------------------------- MODULE TaskQueueWatcher --------------------------
(***************************************************************************)
(* Mernel::TaskQueueWatcher and BlockingExecutor around one TaskQueue.     *)
(* Producers add tasks; consumers run BlockingExecutor::execQueue(), which *)
(* executes tasks on the calling thread until the queue is empty; waiters  *)
(* block in the watcher's waitForState() until the queue has told it of    *)
(* the state they wait for; controllers stop and start the watcher or      *)
(* abort the executor; the owner constructs and destroys the watcher.  A   *)
(* thread may have several of these roles, one operation at a time.        *)
(*                                                                         *)
(* The watcher's own mutex is w_mutex here: the queue calls the watcher,   *)
(* which takes w_mutex, while it holds its m_mutex; waitForState() asks    *)
(* for the size of the queue, which takes m_mutex, while it holds w_mutex. *)
(***************************************************************************)
EXTENDS TaskQueue, Integers, FiniteSets

CONSTANTS Producer, Consumer, Waiter, Controller,  \* threads, by role
          Owner,                                   \* the thread that owns the watcher
          Watcher                                  \* the watcher as an event handler

ASSUME RoleAssumption ==
    /\ Thread = Producer \cup Consumer \cup Waiter \cup Controller \cup {Owner}
    /\ Owner \notin Producer \cup Consumer \cup Waiter \cup Controller
    /\ NoThread \notin Thread
    /\ Handler = {Watcher}

\* Finitely many tasks are ever added.
ASSUME TaskAssumption == IsFiniteSet(Task) /\ NoTask \notin Task

VARIABLES
    pc,              \* where each thread is
    m_isAborted,     \* BlockingExecutor: abort() was called
    result,          \* BlockingExecutor::execQueue's local, one for each thread
    w_mutex,         \* the owner of the watcher's mutex
    m_cv,            \* the threads blocked in the watcher's condition variable
    m_currentState,  \* the state the queue last told the watcher of
    m_running,       \* stop() and start()
    m_total,         \* the size of the queue when the watcher last asked
    m_current,       \* the tasks the watcher saw taken
    waitFor,         \* waitForState's parameters: the state and whether a timeout is given
    fresh,           \* history: the tasks not added yet, each is added once
    before,          \* history: how many tasks had been taken when the watcher registered
    heard            \* history: the watcher was told of a state

watcherVars == <<w_mutex, m_cv, m_currentState, m_running, m_total, m_current>>
vars == <<queueVars, pc, m_isAborted, result, watcherVars, waitFor, fresh, before, heard>>

State == {"Empty", "Ready"}

PC == {"out", "adding", "loop", "take", "taking", "run",
       "sizing", "check", "wait", "counting", "watching", "gone"}

DataOK ==
    /\ m_isAborted \in BOOLEAN
    /\ result \in [Consumer -> {"EmptyQueue", "Completed"}]
    /\ w_mutex \in Waiter \cup {NoThread}
    /\ m_cv \subseteq Waiter
    /\ m_currentState \in State
    /\ m_running \in BOOLEAN
    /\ m_total \in Nat /\ m_current \in Nat
    /\ waitFor \in [Waiter -> [state : State, timed : BOOLEAN]]
    /\ fresh \subseteq Task
    /\ before \in Nat
    /\ heard \in BOOLEAN

\* Every variable has its type.
TypeOK == QueueTypeOK /\ pc \in [Thread -> PC] /\ DataOK

Init ==
    /\ QueueInit
    /\ pc = [x \in Thread |-> "out"]
    /\ m_isAborted = FALSE
    /\ result = [x \in Consumer |-> "EmptyQueue"]
    /\ w_mutex = NoThread
    /\ m_cv = {}
    /\ m_currentState = "Empty"
    /\ m_running = TRUE
    /\ m_total = 0 /\ m_current = 0
    /\ waitFor = [x \in Waiter |-> [state |-> "Empty", timed |-> FALSE]]
    /\ fresh = Task
    /\ before = 0
    /\ heard = FALSE

Goto(x, label) == pc' = [pc EXCEPT ![x] = label]

\* How many tasks have been taken from the queue.
Taken == Cardinality(Task) - Cardinality(fresh) - Len(m_queue)

-----------------------------------------------------------------------------
(* Adding and executing tasks.                                             *)

\* A producer adds a task, or a task adds another one.
Add(x, t) ==
    /\ \/ x \in Producer /\ pc[x] = "out"
       \/ x \in Consumer /\ pc[x] = "run"
    /\ t \in fresh
    /\ fresh' = fresh \ {t}
    /\ AddTask(x, t)
    /\ Goto(x, "adding")
    /\ UNCHANGED <<m_isAborted, result, watcherVars, waitFor, before, heard>>

EndAdd(x) ==
    /\ pc[x] = "adding"
    /\ Unlock(x)
    /\ Goto(x, IF task[x] # NoTask THEN "run" ELSE "out")
    /\ UNCHANGED <<m_isAborted, result, watcherVars, waitFor, fresh, before, heard>>

Execute(x) ==
    /\ pc[x] = "out"
    /\ result' = [result EXCEPT ![x] = "EmptyQueue"]
    /\ Goto(x, "loop")
    /\ UNCHANGED <<queueVars, m_isAborted, watcherVars, waitFor, fresh, before, heard>>

Loop(x) ==
    /\ pc[x] = "loop"
    /\ Goto(x, IF m_isAborted THEN "out" ELSE "take")
    /\ UNCHANGED <<queueVars, m_isAborted, result, watcherVars, waitFor, fresh, before, heard>>

Take(x) ==
    /\ pc[x] = "take"
    /\ TakeFirst(x) \/ TakeFromEmpty(x)
    /\ Goto(x, "taking")
    /\ UNCHANGED <<m_isAborted, result, watcherVars, waitFor, fresh, before, heard>>

EndTake(x) ==
    /\ pc[x] = "taking"
    /\ Unlock(x)
    /\ Goto(x, IF task[x] # NoTask THEN "run" ELSE "out")
    /\ UNCHANGED <<m_isAborted, result, watcherVars, waitFor, fresh, before, heard>>

Finish(x) ==
    /\ pc[x] = "run"
    /\ TaskDone(x)
    /\ result' = [result EXCEPT ![x] = "Completed"]
    /\ Goto(x, "loop")
    /\ UNCHANGED <<m_isAborted, watcherVars, waitFor, fresh, before, heard>>

Abort(x) ==
    /\ pc[x] = "out"
    /\ m_isAborted' = TRUE
    /\ UNCHANGED <<queueVars, pc, result, watcherVars, waitFor, fresh, before, heard>>

-----------------------------------------------------------------------------
(* The watcher as a handler: on the thread that changes the queue.         *)

NotifyOne == IF m_cv = {} THEN m_cv' = m_cv
             ELSE \E y \in m_cv : m_cv' = m_cv \ {y}

HandleChangedState ==
    /\ w_mutex = NoThread
    /\ m_currentState' = dispatch.event
    /\ NotifyOne
    /\ heard' = TRUE
    /\ UNCHANGED <<w_mutex, m_running, m_total, m_current>>

HandleProgress ==
    /\ w_mutex = NoThread
    /\ m_current' = m_current + 1
    /\ UNCHANGED <<w_mutex, m_cv, m_currentState, m_running, m_total, heard>>

HandleEvent(x) ==
    /\ Deliver(x, Watcher)
    /\ IF dispatch.event = "Progress" THEN HandleProgress ELSE HandleChangedState
    /\ UNCHANGED <<pc, m_isAborted, result, waitFor, fresh, before>>

-----------------------------------------------------------------------------
(* waitForState.                                                           *)

Watching == pc[Owner] = "watching"

WaitForState(x, state, timed) ==
    /\ Watching
    /\ pc[x] = "out"
    /\ w_mutex = NoThread
    /\ w_mutex' = x
    /\ waitFor' = [waitFor EXCEPT ![x] = [state |-> state, timed |-> timed]]
    /\ Goto(x, "sizing")
    /\ UNCHANGED <<queueVars, m_isAborted, result, m_cv, m_currentState, m_running, m_total,
                   m_current, fresh, before, heard>>

\* m_total = m_queue.queueSize(), with the watcher's mutex held.
AskSize(x) ==
    /\ pc[x] = "sizing"
    /\ m_mutex = NoThread
    /\ m_total' = Len(m_queue)
    /\ Goto(x, "check")
    /\ UNCHANGED <<queueVars, m_isAborted, result, w_mutex, m_cv, m_currentState, m_running,
                   m_current, waitFor, fresh, before, heard>>

MayReturn(x) == ~m_running \/ m_currentState = waitFor[x].state

\* All that the predicate reads is guarded by the mutex, held until the thread blocks.
CheckState(x) ==
    /\ pc[x] = "check"
    /\ w_mutex' = NoThread
    /\ IF MayReturn(x)
       THEN Goto(x, "out") /\ UNCHANGED m_cv
       ELSE Goto(x, "wait") /\ m_cv' = m_cv \cup {x}
    /\ UNCHANGED <<queueVars, m_isAborted, result, m_currentState, m_running, m_total,
                   m_current, waitFor, fresh, before, heard>>

WakeUp(x) ==
    /\ pc[x] = "wait"
    /\ x \notin m_cv
    /\ w_mutex = NoThread
    /\ w_mutex' = x
    /\ Goto(x, "check")
    /\ UNCHANGED <<queueVars, m_isAborted, result, m_cv, m_currentState, m_running, m_total,
                   m_current, waitFor, fresh, before, heard>>

SpuriousWakeUp(x) ==
    /\ x \in m_cv
    /\ m_cv' = m_cv \ {x}
    /\ UNCHANGED <<queueVars, pc, m_isAborted, result, w_mutex, m_currentState, m_running,
                   m_total, m_current, waitFor, fresh, before, heard>>

\* wait_for gives up, whatever the state is: waitForState does not tell its caller.
TimeOut(x) ==
    /\ pc[x] = "wait"
    /\ waitFor[x].timed
    /\ w_mutex = NoThread
    /\ m_cv' = m_cv \ {x}
    /\ Goto(x, "out")
    /\ UNCHANGED <<queueVars, m_isAborted, result, w_mutex, m_currentState, m_running, m_total,
                   m_current, waitFor, fresh, before, heard>>

-----------------------------------------------------------------------------
(* stop, start, the constructor and the destructor.                        *)

StopSilently(x) ==  \* slip: notify_one is forgotten
    /\ Watching
    /\ pc[x] = "out"
    /\ w_mutex = NoThread
    /\ m_running' = FALSE
    /\ UNCHANGED <<queueVars, pc, m_isAborted, result, w_mutex, m_cv, m_currentState, m_total,
                   m_current, waitFor, fresh, before, heard>>

Stop(x) ==
    /\ Watching
    /\ pc[x] = "out"
    /\ w_mutex = NoThread
    /\ m_running' = FALSE
    /\ NotifyOne
    /\ UNCHANGED <<queueVars, pc, m_isAborted, result, w_mutex, m_currentState, m_total,
                   m_current, waitFor, fresh, before, heard>>

Restart(x) ==
    /\ Watching
    /\ pc[x] = "out"
    /\ w_mutex = NoThread
    /\ m_running' = TRUE
    /\ UNCHANGED <<queueVars, pc, m_isAborted, result, w_mutex, m_cv, m_currentState, m_total,
                   m_current, waitFor, fresh, before, heard>>

\* The constructor registers a watcher that takes the queue to be Empty ...
Construct ==
    /\ pc[Owner] = "out"
    /\ RegisterHandler(Watcher)
    /\ m_currentState' = "Empty"
    /\ m_running' = TRUE
    /\ m_total' = 0 /\ m_current' = 0
    /\ before' = Taken
    /\ heard' = FALSE
    /\ Goto(Owner, "counting")
    /\ UNCHANGED <<m_isAborted, result, w_mutex, m_cv, waitFor, fresh>>

\* ... and then asks for the size, without its mutex: it may be called already.
Count ==
    /\ pc[Owner] = "counting"
    /\ m_mutex = NoThread
    /\ m_total' = Len(m_queue)
    /\ Goto(Owner, "watching")
    /\ UNCHANGED <<queueVars, m_isAborted, result, w_mutex, m_cv, m_currentState, m_running,
                   m_current, waitFor, fresh, before, heard>>

\* The destructor; nobody may be inside waitForState() then.
Destroy ==
    /\ Watching
    /\ \A x \in Waiter : pc[x] \notin {"sizing", "check", "wait"}
    /\ UnregisterHandler(Watcher)
    /\ Goto(Owner, "out")
    /\ UNCHANGED <<m_isAborted, result, watcherVars, waitFor, fresh, before, heard>>

\* ~TaskQueue drops the tasks that are left; nobody uses the queue then.
DestroyQueue ==
    /\ \A x \in Thread : pc[x] = "out"
    /\ m_queue' = << >>
    /\ pc' = [x \in Thread |-> "gone"]
    /\ UNCHANGED <<m_readyState, m_eventProcessors, m_mutex, dispatch, task, m_isAborted, result,
                   watcherVars, waitFor, fresh, before, heard>>

-----------------------------------------------------------------------------
\* The steps of an operation a thread is inside of.
ThreadStep(x) ==
    \/ EndAdd(x) \/ HandleEvent(x)
    \/ x \in Consumer /\ (Loop(x) \/ Take(x) \/ EndTake(x) \/ Finish(x))
    \/ x \in Waiter /\ (AskSize(x) \/ CheckState(x) \/ WakeUp(x))

\* The operations a thread may begin, and what may happen at any time or never.
Choice ==
    \/ \E x \in Producer \cup Consumer, t \in Task : Add(x, t)
    \/ \E x \in Consumer : Execute(x)
    \/ \E x \in Waiter, state \in State, timed \in BOOLEAN : WaitForState(x, state, timed)
    \/ \E x \in Waiter : SpuriousWakeUp(x) \/ TimeOut(x)
    \/ \E x \in Controller : Abort(x) \/ Stop(x) \/ Restart(x)
    \/ Construct \/ Destroy \/ DestroyQueue

Next == Count \/ Choice \/ \E x \in Thread : ThreadStep(x)

Spec == Init /\ [][Next]_vars

\* A thread inside an operation goes on when it can; a mutex that is released again and
\* again is not kept from a thread that waits for it.
FairSpec == Spec /\ SF_vars(Count) /\ \A x \in Thread : SF_vars(ThreadStep(x))

-----------------------------------------------------------------------------
(* Properties.                                                             *)

\* Registered from the constructor to the destructor: the queue never calls a watcher
\* that is destroyed, since the destructor cannot return while the handler loop runs.
NoCallAfterDestroy ==
    Watcher \in dispatch.left => pc[Owner] \in {"counting", "watching"}

\* A queue that is not Ready has no tasks: who waits for Empty finds it empty.
EmptyIsEmpty == ~m_readyState => m_queue = << >>

\* Between the queue's operations the watcher knows the state the queue is in, unless
\* it was told of none since it was constructed: then it takes the queue to be Empty.
\* And that state agrees with the queue's tasks.
StateAgrees ==
    /\ EmptyIsEmpty
    /\ m_mutex = NoThread /\ Watcher \in m_eventProcessors /\ heard =>
          (m_currentState = "Ready" <=> m_readyState)

\* The progress of the watcher is the number of tasks taken since it registered, whoever
\* took them, but for the one that is being reported.
ProgressCounts ==
    Watcher \in m_eventProcessors =>
        Taken - before = m_current +
            (IF dispatch.event = "Progress" /\ Watcher \in dispatch.left THEN 1 ELSE 0)

\* A lone waiter never sleeps through the state it waits for, nor through stop().
LoneWaiterWakes ==
    \A x \in m_cv : Waiter = {x} => ~MayReturn(x)

\* Adding a task returns ("add task and return immediately").
AddReturns == \A x \in Producer : (pc[x] = "adding") ~> (pc[x] # "adding")

-----------------------------------------------------------------------------
(* What the safety properties rest on: their inductive invariant.          *)

\* The owner alone constructs, so the watcher is a handler exactly between the two ends of
\* its life; threads are inside waitForState() only then, and those in the condition
\* variable are there.
Lifetime ==
    /\ pc[Owner] \in {"out", "counting", "watching", "gone"}
    /\ Watcher \in m_eventProcessors <=> pc[Owner] \in {"counting", "watching"}
    /\ \A x \in Waiter : pc[x] \in {"sizing", "check", "wait"} => Watching
    /\ \A x \in m_cv : pc[x] = "wait"

\* The handler loop runs under the queue's mutex, over handlers that are registered, and
\* the state it tells them of is the one the queue is in.
Announced ==
    /\ m_mutex = NoThread => dispatch = NoDispatch
    /\ dispatch.left \subseteq m_eventProcessors
    /\ dispatch.event = "none" => dispatch.left = {}
    /\ dispatch.event = "Ready" => m_readyState
    /\ dispatch.event = "Empty" => ~m_readyState

\* What the watcher was told last is the state of the queue, but for what it is about to
\* be told.
Known ==
    Watcher \in m_eventProcessors /\ heard
      /\ ~(dispatch.event \in State /\ Watcher \in dispatch.left) =>
          (m_currentState = "Ready" <=> m_readyState)

\* No more tasks wait than were added.
TasksFit == Cardinality(fresh) + Len(m_queue) <= Cardinality(Task)

Inv ==
    /\ TypeOK /\ Lifetime /\ Announced /\ EmptyIsEmpty /\ Known
    /\ TasksFit /\ ProgressCounts /\ LoneWaiterWakes
=============================================================================
