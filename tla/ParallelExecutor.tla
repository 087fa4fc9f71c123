-------------------------- MODULE ParallelExecutor --------------------------
(***************************************************************************)
(* Mernel::ParallelExecutor: execQueue() registers the executor as a       *)
(* handler of a task queue, starts m_threads.size() workers that take      *)
(* tasks from the queue until they agree that it is finished, joins them   *)
(* and returns.  A worker that finds the queue empty retires: it counts    *)
(* itself out of m_activeThreads and waits on a condition variable until   *)
(* all have retired (then it leaves), or the queue turns Ready (then it    *)
(* works again), or abort() was called (then it leaves).                   *)
(*                                                                         *)
(* Three mutexes: the queue's m_mutex, m_activeThreadsMutex, m_execMutex.  *)
(* A step is what one thread does between two points where another thread  *)
(* can see the difference: taking or releasing a mutex, reading or writing *)
(* an atomic, entering or leaving a wait.                                  *)
(***************************************************************************)
EXTENDS TaskQueue, Integers, FiniteSets

CONSTANTS Worker,    \* the threads of m_threads
          Caller,    \* the threads that call execQueue(), and add tasks around it
          Producer,  \* other threads that add tasks at any time
          Aborter,   \* threads that call abort(), or the destructor, once
          Executor   \* the executor as an ITaskQueueEventHandler

\* The constructor asserts threadCount > 0; a thread has one role.
ASSUME ThreadAssumption ==
    /\ Thread = Worker \cup Caller \cup Producer \cup Aborter
    /\ IsFiniteSet(Worker) /\ Worker # {}
    /\ Worker \cap (Caller \cup Producer \cup Aborter) = {}
    /\ Caller \cap (Producer \cup Aborter) = {}
    /\ Producer \cap Aborter = {}
    /\ NoThread \notin Thread

ASSUME TaskAssumption == NoTask \notin Task

ASSUME HandlerAssumption == Handler = {Executor}

VARIABLES
    pc,                    \* where each thread is
    m_isReady,             \* the queue turned Ready since the last worker retired
    m_activeThreads,       \* the workers that have not retired
    m_activeThreadsMutex,  \* the owner of that mutex
    m_activeThreadsCV,     \* the threads blocked in the condition variable
    m_execMutex,           \* the owner of that mutex: the caller being served
    m_terminate,           \* abort() was called
    result,                \* execQueue's local, one for each caller
    fresh,                 \* history: the tasks not added yet, each is added once
    late                   \* history: the tasks added from outside during this call

execVars == <<m_isReady, m_activeThreads, m_activeThreadsMutex, m_activeThreadsCV,
              m_execMutex, m_terminate, result>>
vars == <<queueVars, pc, execVars, fresh, late>>

WorkerPC == {"unborn", "loop", "take", "taking", "run", "adding",
             "idle", "check", "block", "wait", "exited"}
OutsidePC == {"out", "adding"}
CallerPC == OutsidePC \cup {"register", "spawn", "join", "unregister", "leave"}
AborterPC == {"out", "notify", "lock", "aborted"}

PlacesOK ==
    /\ pc \in [Thread -> WorkerPC \cup CallerPC \cup AborterPC]
    /\ \A w \in Worker : pc[w] \in WorkerPC
    /\ \A c \in Caller : pc[c] \in CallerPC
    /\ \A p \in Producer : pc[p] \in OutsidePC
    /\ \A a \in Aborter : pc[a] \in AborterPC

FlagsOK == m_isReady \in BOOLEAN /\ m_terminate \in BOOLEAN

\* A size_t, which does not wrap below zero.
CountOK == m_activeThreads \in Nat

DataOK ==
    /\ m_activeThreadsMutex \in Worker \cup {NoThread}
    /\ m_activeThreadsCV \subseteq Worker
    /\ m_execMutex \in Caller \cup {NoThread}
    /\ result \in [Caller -> {"EmptyQueue", "Completed"}]
    /\ fresh \subseteq Task
    /\ late \subseteq Task

\* Every variable has its type, and every thread is at a place of its role.
TypeOK == QueueTypeOK /\ PlacesOK /\ FlagsOK /\ CountOK /\ DataOK

Init ==
    /\ QueueInit
    /\ pc = [x \in Thread |-> IF x \in Worker THEN "unborn" ELSE "out"]
    /\ m_isReady = FALSE
    /\ m_activeThreads = 0
    /\ m_activeThreadsMutex = NoThread
    /\ m_activeThreadsCV = {}
    /\ m_execMutex = NoThread
    /\ m_terminate = FALSE
    /\ result = [c \in Caller |-> "EmptyQueue"]
    /\ fresh = Task
    /\ late = {}

Goto(x, label) == pc' = [pc EXCEPT ![x] = label]

NotifyAll == m_activeThreadsCV' = {}

-----------------------------------------------------------------------------
(* Adding tasks.  A task may add tasks to the queue it runs from; callers  *)
(* that are not inside execQueue() and producers add them from outside.    *)

Add(x, t) ==
    /\ t \in fresh
    /\ fresh' = fresh \ {t}
    /\ AddTask(x, t)
    /\ Goto(x, "adding")
    /\ UNCHANGED execVars

TaskAdds(w, t) ==
    /\ pc[w] = "run"
    /\ Add(w, t)
    /\ UNCHANGED late

OutsiderAdds(x, t) ==
    /\ pc[x] = "out"
    /\ Add(x, t)
    /\ late' = IF m_execMutex = NoThread THEN late ELSE late \cup {t}

EndAdd(x) ==
    /\ pc[x] = "adding"
    /\ Unlock(x)
    /\ Goto(x, IF x \in Worker THEN "run" ELSE "out")
    /\ UNCHANGED <<execVars, fresh, late>>

\* handleChangedState, on the thread that changed the queue's state.
HandleChangedState ==
    /\ m_activeThreadsMutex = NoThread
    /\ m_isReady' = TRUE
    /\ NotifyAll
    /\ UNCHANGED <<m_activeThreads, m_activeThreadsMutex, m_execMutex, m_terminate, result>>

\* The queue calls the executor's handler; only Ready means anything to it.
HandleEvent(x) ==
    /\ Deliver(x, Executor)
    /\ IF dispatch.event = "Ready" THEN HandleChangedState ELSE UNCHANGED execVars
    /\ UNCHANGED <<pc, fresh, late>>

-----------------------------------------------------------------------------
(* The workers: threadFun.                                                 *)

LoopForever(w) ==  \* slip: m_terminate is not looked at
    /\ pc[w] = "loop"
    /\ Goto(w, "take")
    /\ UNCHANGED <<queueVars, execVars, fresh, late>>

Loop(w) ==
    /\ pc[w] = "loop"
    /\ Goto(w, IF m_terminate THEN "exited" ELSE "take")
    /\ UNCHANGED <<queueVars, execVars, fresh, late>>

Take(w) ==
    /\ pc[w] = "take"
    /\ TakeFirst(w) \/ TakeFromEmpty(w)
    /\ Goto(w, "taking")
    /\ UNCHANGED <<execVars, fresh, late>>

EndTake(w) ==
    /\ pc[w] = "taking"
    /\ Unlock(w)
    /\ Goto(w, IF task[w] = NoTask THEN "idle" ELSE "run")
    /\ UNCHANGED <<execVars, fresh, late>>

FinishAndRetire(w) ==  \* slip: the "else" is lost, a worker retires after one task
    /\ pc[w] = "run"
    /\ TaskDone(w)
    /\ result' = [result EXCEPT ![m_execMutex] = "Completed"]
    /\ Goto(w, "idle")
    /\ UNCHANGED <<m_isReady, m_activeThreads, m_activeThreadsMutex, m_activeThreadsCV,
                   m_execMutex, m_terminate, fresh, late>>

\* The task returns, and execOne with it; result is that of the caller served.
Finish(w) ==
    /\ pc[w] = "run"
    /\ TaskDone(w)
    /\ result' = [result EXCEPT ![m_execMutex] = "Completed"]
    /\ Goto(w, "loop")
    /\ UNCHANGED <<m_isReady, m_activeThreads, m_activeThreadsMutex, m_activeThreadsCV,
                   m_execMutex, m_terminate, fresh, late>>

RetireSilently(w) ==  \* slip: notify_all is forgotten
    /\ pc[w] = "idle"
    /\ m_activeThreadsMutex = NoThread
    /\ m_activeThreadsMutex' = w
    /\ m_activeThreads' = m_activeThreads - 1
    /\ m_isReady' = FALSE
    /\ Goto(w, "check")
    /\ UNCHANGED <<queueVars, m_activeThreadsCV, m_execMutex, m_terminate, result,
                   fresh, late>>

\* A worker that found nothing counts itself out and tells the others.
Retire(w) ==
    /\ pc[w] = "idle"
    /\ m_activeThreadsMutex = NoThread
    /\ m_activeThreadsMutex' = w
    /\ m_activeThreads' = m_activeThreads - 1
    /\ m_isReady' = FALSE
    /\ NotifyAll
    /\ Goto(w, "check")
    /\ UNCHANGED <<queueVars, m_execMutex, m_terminate, result, fresh, late>>

MayGoOnTooSoon ==  \* slip: the worker that asks does not count itself
    m_terminate \/ m_activeThreads <= 1 \/ m_isReady

\* The predicate of the wait.
MayGoOn == m_terminate \/ m_activeThreads = 0 \/ m_isReady

ResumeUncounted(w) ==  \* slip: m_activeThreads is not incremented
    /\ pc[w] = "check"
    /\ MayGoOn
    /\ m_activeThreadsMutex' = NoThread
    /\ Goto(w, IF m_isReady THEN "loop" ELSE "exited")
    /\ UNCHANGED <<queueVars, m_isReady, m_activeThreads, m_activeThreadsCV, m_execMutex,
                   m_terminate, result, fresh, late>>

\* The predicate holds: go back to work if there is any, otherwise leave.
Resume(w) ==
    /\ pc[w] = "check"
    /\ MayGoOn
    /\ m_activeThreadsMutex' = NoThread
    /\ IF m_isReady
       THEN /\ m_activeThreads' = m_activeThreads + 1
            /\ Goto(w, "loop")
       ELSE /\ UNCHANGED m_activeThreads
            /\ Goto(w, "exited")
    /\ UNCHANGED <<queueVars, m_isReady, m_activeThreadsCV, m_execMutex, m_terminate,
                   result, fresh, late>>

\* The predicate is false: the worker is going to block, still holding the mutex.
\* m_terminate may change from here on without the worker looking at it again.
DecideToWait(w) ==
    /\ pc[w] = "check"
    /\ ~MayGoOn
    /\ Goto(w, "block")
    /\ UNCHANGED <<queueVars, execVars, fresh, late>>

\* Release the mutex and block, in one step for those who hold the mutex.
Block(w) ==
    /\ pc[w] = "block"
    /\ m_activeThreadsMutex' = NoThread
    /\ m_activeThreadsCV' = m_activeThreadsCV \cup {w}
    /\ Goto(w, "wait")
    /\ UNCHANGED <<queueVars, m_isReady, m_activeThreads, m_execMutex, m_terminate,
                   result, fresh, late>>

\* A worker that was woken takes the mutex and looks at the predicate again.
WakeUp(w) ==
    /\ pc[w] = "wait"
    /\ w \notin m_activeThreadsCV
    /\ m_activeThreadsMutex = NoThread
    /\ m_activeThreadsMutex' = w
    /\ Goto(w, "check")
    /\ UNCHANGED <<queueVars, m_isReady, m_activeThreads, m_activeThreadsCV, m_execMutex,
                   m_terminate, result, fresh, late>>

SpuriousWakeUp(w) ==
    /\ w \in m_activeThreadsCV
    /\ m_activeThreadsCV' = m_activeThreadsCV \ {w}
    /\ UNCHANGED <<queueVars, pc, m_isReady, m_activeThreads, m_activeThreadsMutex,
                   m_execMutex, m_terminate, result, fresh, late>>

-----------------------------------------------------------------------------
(* The callers: execQueue.                                                 *)

EnterUncounted(c) ==  \* slip: m_activeThreads is left as the last call left it
    /\ pc[c] = "out"
    /\ m_execMutex = NoThread
    /\ m_execMutex' = c
    /\ result' = [result EXCEPT ![c] = "EmptyQueue"]
    /\ late' = {}
    /\ Goto(c, "register")
    /\ UNCHANGED <<queueVars, m_isReady, m_activeThreads, m_activeThreadsMutex,
                   m_activeThreadsCV, m_terminate, fresh>>

Enter(c) ==
    /\ pc[c] = "out"
    /\ m_execMutex = NoThread
    /\ m_execMutex' = c
    /\ m_activeThreads' = Cardinality(Worker)
    /\ result' = [result EXCEPT ![c] = "EmptyQueue"]
    /\ late' = {}
    /\ Goto(c, "register")
    /\ UNCHANGED <<queueVars, m_isReady, m_activeThreadsMutex, m_activeThreadsCV,
                   m_terminate, fresh>>

Register(c) ==
    /\ pc[c] = "register"
    /\ RegisterHandler(Executor)
    /\ Goto(c, "spawn")
    /\ UNCHANGED <<execVars, fresh, late>>

\* Start one more worker; those already started are at work meanwhile.
Spawn(c, w) ==
    /\ pc[c] = "spawn"
    /\ pc[w] = "unborn"
    /\ pc' = [pc EXCEPT ![w] = "loop",
                        ![c] = IF \A v \in Worker \ {w} : pc[v] # "unborn"
                               THEN "join" ELSE "spawn"]
    /\ UNCHANGED <<queueVars, execVars, fresh, late>>

\* All the joins are done; m_threads can be assigned new threads again.
Join(c) ==
    /\ pc[c] = "join"
    /\ \A w \in Worker : pc[w] = "exited"
    /\ pc' = [x \in Thread |-> IF x \in Worker THEN "unborn"
                               ELSE IF x = c THEN "unregister" ELSE pc[x]]
    /\ UNCHANGED <<queueVars, execVars, fresh, late>>

UnregisterForgotten(c) ==  \* slip: the handler stays registered
    /\ pc[c] = "unregister"
    /\ Goto(c, "leave")
    /\ UNCHANGED <<queueVars, execVars, fresh, late>>

Unregister(c) ==
    /\ pc[c] = "unregister"
    /\ UnregisterHandler(Executor)
    /\ Goto(c, "leave")
    /\ UNCHANGED <<execVars, fresh, late>>

\* return result: the lock of m_execMutex is destroyed.
Leave(c) ==
    /\ pc[c] = "leave"
    /\ m_execMutex' = NoThread
    /\ Goto(c, "out")
    /\ UNCHANGED <<queueVars, m_isReady, m_activeThreads, m_activeThreadsMutex,
                   m_activeThreadsCV, m_terminate, result, fresh, late>>

-----------------------------------------------------------------------------
(* abort(), which is also all the destructor does.                         *)

Terminate(a) ==
    /\ pc[a] = "out"
    /\ m_terminate' = TRUE
    /\ Goto(a, "notify")
    /\ UNCHANGED <<queueVars, m_isReady, m_activeThreads, m_activeThreadsMutex,
                   m_activeThreadsCV, m_execMutex, result, fresh, late>>

\* notify_all WITHOUT m_activeThreadsMutex.
AbortNotify(a) ==
    /\ pc[a] = "notify"
    /\ NotifyAll
    /\ Goto(a, "lock")
    /\ UNCHANGED <<queueVars, m_isReady, m_activeThreads, m_activeThreadsMutex,
                   m_execMutex, m_terminate, result, fresh, late>>

\* Wait for the call in progress: lock m_execMutex, and release it at once.
AbortLock(a) ==
    /\ pc[a] = "lock"
    /\ m_execMutex = NoThread
    /\ Goto(a, "aborted")
    /\ UNCHANGED <<queueVars, execVars, fresh, late>>

-----------------------------------------------------------------------------
WorkerStep(w) ==
    \/ Loop(w) \/ Take(w) \/ EndTake(w) \/ Finish(w) \/ EndAdd(w) \/ HandleEvent(w)
    \/ Retire(w) \/ Resume(w) \/ DecideToWait(w) \/ Block(w) \/ WakeUp(w)

CallerStep(c) ==
    \/ Register(c) \/ (\E w \in Worker : Spawn(c, w)) \/ Join(c) \/ Unregister(c)
    \/ Leave(c) \/ EndAdd(c) \/ HandleEvent(c)

ProducerStep(p) == EndAdd(p) \/ HandleEvent(p)

AborterStep(a) == AbortNotify(a) \/ AbortLock(a)

\* What a thread does because its program or its user decides so, at any time or never.
Choice ==
    \/ \E t \in Task, w \in Worker : TaskAdds(w, t)
    \/ \E t \in Task, x \in Caller \cup Producer : OutsiderAdds(x, t)
    \/ \E c \in Caller : Enter(c)
    \/ \E a \in Aborter : Terminate(a)
    \/ \E w \in Worker : SpuriousWakeUp(w)

Next ==
    \/ \E w \in Worker : WorkerStep(w)
    \/ \E c \in Caller : CallerStep(c)
    \/ \E p \in Producer : ProducerStep(p)
    \/ \E a \in Aborter : AborterStep(a)
    \/ Choice

Spec == Init /\ [][Next]_vars

\* A thread that can take its next step again and again takes it: threads are
\* scheduled fairly, tasks return, and a mutex that is released again and again is
\* not kept from a thread that waits for it.  Nothing is assumed of Choice.
Fairness ==
    /\ \A w \in Worker : SF_vars(WorkerStep(w))
    /\ \A c \in Caller : SF_vars(CallerStep(c))
    /\ \A p \in Producer : SF_vars(ProducerStep(p))
    /\ \A a \in Aborter : SF_vars(AborterStep(a))

FairSpec == Spec /\ Fairness

-----------------------------------------------------------------------------
(* Properties.                                                             *)

\* The worker w can still make or take work: it runs, or will look at the queue again.
AtWork(w) ==
    \/ pc[w] \in {"unborn", "loop", "take", "run", "adding"}
    \/ pc[w] = "taking" /\ task[w] # NoTask

\* The caller c is in execQueue() and has not joined its workers yet.
Serving(c) == pc[c] \in {"register", "spawn", "join"}

\* The tasks execQueue() owes its caller.
Owed == Queued \ late

\* While execQueue() serves a call that was not aborted and a task waits that it owes
\* (added before the call, or by a task it ran), some worker is still at work; so once
\* every worker has been joined no such task is left ("Block execution until all tasks
\* done").
NoTaskStranded ==
    /\ \A c \in Caller : Serving(c) /\ ~m_terminate /\ Owed # {} => \E w \in Worker : AtWork(w)
    /\ \A c \in Caller : pc[c] \in {"unregister", "leave"} /\ ~m_terminate => Owed = {}

\* m_activeThreads, which is only changed around the wait, counts the workers that
\* have not retired; after abort() also those that left their loop without retiring.
NotRetired == {w \in Worker : pc[w] \notin {"check", "block", "wait", "exited"}}
ActiveCount ==
    \A c \in Caller : Serving(c) =>
        /\ ~m_terminate => m_activeThreads = Cardinality(NotRetired)
        /\ m_activeThreads >= Cardinality(NotRetired)

\* Termination is detected correctly: unless aborted or fed from outside, a worker
\* leaves only when no other worker runs a task or is about to take one.
NoEarlyExit ==
    \A w \in Worker : pc[w] = "exited" /\ ~m_terminate /\ late = {} =>
        \A v \in Worker : ~AtWork(v)

\* The executor is a handler of the queue only inside execQueue(): the queue never
\* calls an executor that was destroyed after its last execQueue() returned.
NoDanglingHandler ==
    /\ m_execMutex = NoThread => m_eventProcessors = {}
    /\ Executor \in dispatch.left => m_execMutex # NoThread

\* No wakeup is lost among the workers and the queue: unless abort() was called, a
\* worker blocked in the condition variable is one whose predicate is false, so that
\* it is right to sleep.  (AbortsReturn shows what happens when abort() is called.)
NoLostWakeUp ==
    \A w \in m_activeThreadsCV : ~m_terminate => ~MayGoOn

-----------------------------------------------------------------------------
(* What the safety properties rest on: their inductive invariant.          *)

\* m_execMutex is held by the one caller inside execQueue(), and workers exist only
\* between its first spawn and its last join.
OneCall ==
    /\ \A c \in Caller :
          pc[c] \in {"register", "spawn", "join", "unregister", "leave"} <=> m_execMutex = c
    /\ \A w \in Worker : pc[w] # "unborn" =>
          m_execMutex \in Caller /\ pc[m_execMutex] \in {"spawn", "join"}

\* The handler loop runs under the queue's mutex, over handlers that are registered,
\* and the executor is registered by the caller it serves.
Registered ==
    /\ m_mutex = NoThread => dispatch.left = {}
    /\ dispatch.left \subseteq m_eventProcessors
    /\ m_eventProcessors # {} =>
          m_execMutex \in Caller /\ pc[m_execMutex] \in {"spawn", "join", "unregister"}

\* m_activeThreadsMutex is held from a worker's retirement, or its wakeup, to the moment
\* it blocks or leaves the wait; who is about to block has seen a false predicate that
\* only abort() can make true.
Monitor ==
    /\ \A w \in Worker : pc[w] \in {"check", "block"} <=> m_activeThreadsMutex = w
    /\ \A w \in m_activeThreadsCV : pc[w] = "wait"
    /\ \A w \in Worker : pc[w] = "block" /\ ~m_terminate => ~MayGoOn

\* A Ready that is being told was caused by a task of this call, if nothing came late.
ReadyFromTask ==
    dispatch.event = "Ready" /\ dispatch.left # {} /\ late = {} =>
        \E w \in Worker : m_mutex = w /\ pc[w] = "adding"

\* Once a worker has left, all are retired and nothing will call them back.
AllRetired ==
    \A w \in Worker : pc[w] = "exited" /\ ~m_terminate /\ late = {} =>
        NotRetired = {} /\ ~m_isReady

Inv ==
    /\ TypeOK /\ OneCall /\ Registered /\ Monitor
    /\ NoTaskStranded /\ NoLostWakeUp /\ ActiveCount

\* A worker has a task from the moment it takes it until the task is done.
TasksHeld ==
    \A w \in Worker :
        /\ pc[w] \in {"run", "adding"} => task[w] # NoTask
        /\ task[w] # NoTask => pc[w] \in {"taking", "run", "adding"}

\* No task is with two workers, or twice in the queue, or at two of these places: not
\* added yet, in the queue, with a worker.
EachOnce ==
    /\ \A v, w \in Worker : task[v] = task[w] /\ task[v] # NoTask => v = w
    /\ \A i, j \in DOMAIN m_queue : m_queue[i] = m_queue[j] => i = j
    /\ Queued \cap fresh = {}
    /\ \A w \in Worker : task[w] \notin Queued \cup fresh

\* m_terminate is never reset; once abort() has returned, workers only come and go.
AbortIsFinal ==
    \A a \in Aborter :
        /\ pc[a] # "out" => m_terminate
        /\ pc[a] = "aborted" => \A w \in Worker : pc[w] \in {"unborn", "loop", "exited"}

-----------------------------------------------------------------------------
\* The executor implements the abstract pool of tasks.
Pool == INSTANCE TaskPool WITH
    pending <- m_queue,
    executing <- {task[w] : w \in Worker} \ {NoTask},
    calling <- m_execMutex,
    Size <- Cardinality(Worker),
    aborting <- IF \E a \in Aborter : pc[a] = "aborted" THEN "done"
                ELSE IF m_terminate THEN "asked" ELSE "no"
ImplementsPool == Pool!Spec

\* Every call of execQueue() returns ("Block execution until all tasks done": no longer).
CallsReturn == \A c \in Caller : (m_execMutex = c) ~> (m_execMutex # c)

\* abort() returns.
AbortsReturn == \A a \in Aborter : (pc[a] = "notify") ~> (pc[a] = "aborted")

\* A Ready event is not lost on a worker that is about to retire: when execQueue() has
\* joined its workers, no operation on the queue is in progress and a task waits, its
\* Ready came after all the workers had retired, and is still recorded.
NoReadyLost ==
    \A c \in Caller : pc[c] = "unregister" /\ m_mutex = NoThread /\ ~m_terminate =>
        (Queued = {} \/ m_isReady)
=============================================================================
