----------------------------- MODULE TaskQueue -----------------------------
(***************************************************************************)
(* Mernel::TaskQueue: a list of tasks behind one mutex, and the set of     *)
(* event handlers it tells about its changes of state.                     *)
(*                                                                         *)
(* The queue has no thread of its own: every operation runs on the thread  *)
(* of the caller, here x.  The handlers are called in a loop while the     *)
(* mutex is HELD, so an operation is cut into the step that takes the      *)
(* mutex and changes the list, one step for each handler called, and the   *)
(* step that releases the mutex.  What a handler does in its step is for   *)
(* the modules that use the queue to say; they conjoin it to Deliver.      *)
(***************************************************************************)
EXTENDS Sequences

CONSTANTS Thread,    \* the threads that call the queue
          Task,      \* the tasks ever added
          Handler,   \* the objects that implement ITaskQueueEventHandler
          NoThread,  \* "nobody": the owner of a mutex that is free
          NoTask     \* the empty std::function

VARIABLES m_queue,            \* the tasks waiting, first to be taken first
          m_readyState,       \* the state last told to the handlers
          m_eventProcessors,  \* the handlers registered
          m_mutex,            \* the thread that holds the queue's mutex
          dispatch,           \* the handler loop of the thread that holds it
          task                \* execOne's local: the task a thread took

queueVars == <<m_queue, m_readyState, m_eventProcessors, m_mutex, dispatch, task>>

Event == {"none", "Ready", "Empty", "Progress"}

NoDispatch == [event |-> "none", left |-> {}]

\* Begin telling every registered handler of an event.
Announce(event) == dispatch' = [event |-> event, left |-> m_eventProcessors]

QueueTypeOK ==
    /\ m_queue \in Seq(Task)
    /\ m_readyState \in BOOLEAN
    /\ m_eventProcessors \subseteq Handler
    /\ m_mutex \in Thread \cup {NoThread}
    /\ dispatch \in [event : Event, left : SUBSET Handler]
    /\ task \in [Thread -> Task \cup {NoTask}]

QueueInit ==
    /\ m_queue = << >>
    /\ m_readyState = FALSE
    /\ m_eventProcessors = {}
    /\ m_mutex = NoThread
    /\ dispatch = NoDispatch
    /\ task = [x \in Thread |-> NoTask]

\* The tasks that wait in the queue.
Queued == {m_queue[i] : i \in DOMAIN m_queue}

-----------------------------------------------------------------------------
Lock(x) == /\ m_mutex = NoThread
           /\ m_mutex' = x

MarkReadyOnly(ready) ==  \* slip: the handlers are not told of Empty
    /\ m_readyState' = ready
    /\ IF ready /\ ~m_readyState THEN Announce("Ready") ELSE dispatch' = NoDispatch

\* The handlers hear of a CHANGE of state only.
MarkReady(ready) ==
    /\ m_readyState' = ready
    /\ IF m_readyState # ready
       THEN Announce(IF ready THEN "Ready" ELSE "Empty")
       ELSE dispatch' = NoDispatch

AddTaskQuietly(x, t) ==  \* slip: markReady is forgotten
    /\ Lock(x)
    /\ m_queue' = Append(m_queue, t)
    /\ dispatch' = NoDispatch
    /\ UNCHANGED <<m_readyState, m_eventProcessors, task>>

AddTask(x, t) ==
    /\ Lock(x)
    /\ m_queue' = Append(m_queue, t)
    /\ MarkReady(TRUE)
    /\ UNCHANGED <<m_eventProcessors, task>>

TakeNothingWithProgress(x) ==  \* slip: progress is reported for a task not taken
    /\ Lock(x)
    /\ m_queue = << >>
    /\ m_readyState' = FALSE
    /\ Announce("Progress")
    /\ UNCHANGED <<m_queue, m_eventProcessors, task>>

TakeFromEmpty(x) ==
    /\ Lock(x)
    /\ m_queue = << >>
    /\ MarkReady(FALSE)
    /\ UNCHANGED <<m_queue, m_eventProcessors, task>>

TakeFirst(x) ==
    /\ Lock(x)
    /\ m_queue # << >>
    /\ task' = [task EXCEPT ![x] = Head(m_queue)]
    /\ m_queue' = Tail(m_queue)
    /\ Announce("Progress")
    /\ UNCHANGED <<m_readyState, m_eventProcessors>>

\* The handler loop calls the handler h on thread x.
Deliver(x, h) ==
    /\ m_mutex = x
    /\ h \in dispatch.left
    /\ dispatch' = [dispatch EXCEPT !.left = @ \ {h}]
    /\ UNCHANGED <<m_queue, m_readyState, m_eventProcessors, m_mutex, task>>

\* The operation of x ends: its unique_lock is destroyed.
Unlock(x) ==
    /\ m_mutex = x
    /\ dispatch.left = {}
    /\ m_mutex' = NoThread
    /\ dispatch' = NoDispatch
    /\ UNCHANGED <<m_queue, m_readyState, m_eventProcessors, task>>

\* execOne's call of task() has returned.
TaskDone(x) ==
    /\ task' = [task EXCEPT ![x] = NoTask]
    /\ UNCHANGED <<m_queue, m_readyState, m_eventProcessors, m_mutex, dispatch>>

RegisterHandler(h) ==
    /\ m_mutex = NoThread
    /\ m_eventProcessors' = m_eventProcessors \cup {h}
    /\ UNCHANGED <<m_queue, m_readyState, m_mutex, dispatch, task>>

UnregisterUnlocked(h) ==  \* slip: the mutex is not taken
    /\ m_eventProcessors' = m_eventProcessors \ {h}
    /\ UNCHANGED <<m_queue, m_readyState, m_mutex, dispatch, task>>

UnregisterHandler(h) ==
    /\ m_mutex = NoThread
    /\ m_eventProcessors' = m_eventProcessors \ {h}
    /\ UNCHANGED <<m_queue, m_readyState, m_mutex, dispatch, task>>
=============================================================================
