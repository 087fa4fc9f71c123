----------------------- MODULE ParallelExecutorProofs -----------------------
(***************************************************************************)
(* Theorems about ParallelExecutor for any number of workers, callers,     *)
(* producers, aborters and tasks.                                          *)
(***************************************************************************)
EXTENDS ParallelExecutor, FiniteSetTheorems, TLAPS

\* The steps of the threads, one by one: what a proof by cases on Next goes through.
LEMMA StepCases ==
    ASSUME Next
    PROVE  \/ \E w \in Worker : \/ Loop(w) \/ Take(w) \/ EndTake(w) \/ Finish(w)
                                \/ Retire(w) \/ Resume(w) \/ DecideToWait(w) \/ Block(w)
                                \/ WakeUp(w) \/ SpuriousWakeUp(w)
           \/ \E w \in Worker, t \in Task : TaskAdds(w, t)
           \/ \E x \in Caller \cup Producer, t \in Task : OutsiderAdds(x, t)
           \/ \E x \in Thread : EndAdd(x) \/ HandleEvent(x)
           \/ \E c \in Caller : \/ Enter(c) \/ Register(c) \/ Join(c) \/ Unregister(c)
                                \/ Leave(c) \/ \E w \in Worker : Spawn(c, w)
           \/ \E a \in Aborter : Terminate(a) \/ AbortNotify(a) \/ AbortLock(a)
  BY ThreadAssumption DEF Next, Choice, WorkerStep, CallerStep, ProducerStep, AborterStep

-----------------------------------------------------------------------------
(* What the operations of the queue keep, whoever calls them.              *)

\* What the operations of the queue do to its variables keeps their types.
LEMMA MarkReadyType ==
    ASSUME QueueTypeOK, NEW ready \in BOOLEAN, MarkReady(ready)
    PROVE  /\ m_readyState' \in BOOLEAN
           /\ dispatch' \in [event : Event, left : SUBSET Handler]
<1>1. CASE m_readyState # ready
  <2>1. PICK e \in Event : dispatch' = [event |-> e, left |-> m_eventProcessors]
    BY <1>1 DEF MarkReady, Announce, Event
  <2> QED
    BY <2>1 DEF MarkReady, QueueTypeOK
<1>2. CASE m_readyState = ready
  BY <1>2 DEF MarkReady, NoDispatch, Event
<1> QED
  BY <1>1, <1>2

\* Adding a task.
LEMMA AddTaskType ==
    ASSUME QueueTypeOK, NEW x \in Thread, NEW t \in Task, AddTask(x, t)
    PROVE  QueueTypeOK'
<1>1. MarkReady(TRUE)
  BY DEF AddTask
<1>2. m_readyState' \in BOOLEAN /\ dispatch' \in [event : Event, left : SUBSET Handler]
  BY <1>1, MarkReadyType
<1> QED
  BY <1>2 DEF QueueTypeOK, AddTask, Lock

\* Taking the first task, and finding the queue empty.
LEMMA TakeType ==
    ASSUME QueueTypeOK, NEW x \in Thread, TakeFirst(x) \/ TakeFromEmpty(x)
    PROVE  QueueTypeOK'
<1>1. CASE TakeFromEmpty(x)
  <2>1. MarkReady(FALSE)
    BY <1>1 DEF TakeFromEmpty
  <2>2. m_readyState' \in BOOLEAN /\ dispatch' \in [event : Event, left : SUBSET Handler]
    BY <2>1, MarkReadyType
  <2> QED
    BY <1>1, <2>2 DEF QueueTypeOK, TakeFromEmpty, Lock
<1>2. CASE TakeFirst(x)
  <2>1. Head(m_queue) \in Task /\ Tail(m_queue) \in Seq(Task)
    BY <1>2 DEF QueueTypeOK, TakeFirst
  <2>2. dispatch' \in [event : Event, left : SUBSET Handler]
    BY <1>2 DEF QueueTypeOK, TakeFirst, Announce, Event
  <2> QED
    BY <1>2, <2>1, <2>2 DEF QueueTypeOK, TakeFirst, Lock
<1> QED
  BY <1>1, <1>2

\* Telling a handler.
LEMMA DeliverType ==
    ASSUME QueueTypeOK, NEW x \in Thread, NEW h \in Handler, Deliver(x, h)
    PROVE  QueueTypeOK'
  BY DEF QueueTypeOK, Deliver

\* Releasing the mutex.
LEMMA UnlockType ==
    ASSUME QueueTypeOK, NEW x \in Thread, Unlock(x)
    PROVE  QueueTypeOK'
  BY DEF QueueTypeOK, Unlock, NoDispatch, Event

\* What adding does to the set of the tasks that wait.
LEMMA QueuedAfterAdd ==
    ASSUME QueueTypeOK, NEW t \in Task, m_queue' = Append(m_queue, t)
    PROVE  Queued' = Queued \cup {t}
  BY DEF QueueTypeOK, Queued

\* Taking.
LEMMA QueuedAfterTake ==
    ASSUME QueueTypeOK, m_queue # << >>, m_queue' = Tail(m_queue)
    PROVE  Queued' \subseteq Queued
<1>1. /\ Len(m_queue) \in Nat /\ Len(m_queue') = Len(m_queue) - 1
      /\ DOMAIN m_queue = 1..Len(m_queue) /\ DOMAIN m_queue' = 1..Len(m_queue')
      /\ \A i \in 1..Len(m_queue') : m_queue'[i] = m_queue[i + 1]
  BY DEF QueueTypeOK
<1> QED
  BY <1>1 DEF Queued

-----------------------------------------------------------------------------
(* Type correctness.                                                       *)

\* The types hold when the program starts.
LEMMA InitTypeOK == Init => TypeOK
<1> SUFFICES ASSUME Init PROVE TypeOK
  OBVIOUS
<1>1. m_readyState \in BOOLEAN /\ m_isReady \in BOOLEAN /\ m_terminate \in BOOLEAN
  BY DEF Init, QueueInit
<1>2. dispatch \in [event : Event, left : SUBSET Handler]
  BY DEF Init, QueueInit, NoDispatch, Event
<1>3. QueueTypeOK
  BY <1>1, <1>2 DEF Init, QueueInit, QueueTypeOK
<1>4. PlacesOK
  BY ThreadAssumption DEF Init, PlacesOK, WorkerPC, CallerPC, OutsidePC, AborterPC
<1>5. CountOK /\ DataOK
  BY DEF Init, CountOK, DataOK
<1> QED
  BY <1>1, <1>3, <1>4, <1>5 DEF TypeOK, FlagsOK

\* A step of any thread keeps the types of the queue's variables...
LEMMA QueueTypeStep ==
    ASSUME TypeOK, [Next]_vars
    PROVE  QueueTypeOK'
<1> USE DEF TypeOK
<1>1. CASE UNCHANGED vars
  BY <1>1 DEF vars, queueVars, QueueTypeOK
<1>2. CASE Next
  <2>1. ASSUME NEW w \in Worker, Take(w) PROVE QueueTypeOK'
    BY <2>1, TakeType, ThreadAssumption DEF Take
  <2>2. ASSUME NEW x \in Thread, NEW t \in Task, Add(x, t) PROVE QueueTypeOK'
    BY <2>2, AddTaskType DEF Add
  <2>3. ASSUME NEW x \in Thread, Unlock(x) PROVE QueueTypeOK'
    BY <2>3, UnlockType
  <2>4. ASSUME NEW x \in Thread, HandleEvent(x) PROVE QueueTypeOK'
    BY <2>4, DeliverType, HandlerAssumption DEF HandleEvent
  <2>5. ASSUME NEW w \in Worker, TaskDone(w) PROVE QueueTypeOK'
    BY <2>5 DEF TaskDone, QueueTypeOK
  <2>6. ASSUME RegisterHandler(Executor) \/ UnregisterHandler(Executor) PROVE QueueTypeOK'
    BY <2>6, HandlerAssumption DEF RegisterHandler, UnregisterHandler, QueueTypeOK
  <2>7. ASSUME UNCHANGED queueVars PROVE QueueTypeOK'
    BY <2>7 DEF queueVars, QueueTypeOK
  <2> QED
    BY <1>2, <2>1, <2>2, <2>3, <2>4, <2>5, <2>6, <2>7, StepCases, ThreadAssumption, Zenon
    DEF Loop, EndTake, Finish, Retire, Resume, DecideToWait, Block, WakeUp, SpuriousWakeUp,
        TaskAdds, OutsiderAdds, EndAdd, Enter, Register, Join, Unregister, Leave, Spawn,
        Terminate, AbortNotify, AbortLock
<1> QED
  BY <1>1, <1>2

\* ... of the flags ...
LEMMA FlagsStep ==
    ASSUME FlagsOK, [Next]_vars
    PROVE  FlagsOK'
<1>1. CASE UNCHANGED vars
  BY <1>1 DEF vars, execVars, FlagsOK
<1>2. CASE Next
  <2>1. /\ m_isReady' = m_isReady \/ m_isReady' = TRUE \/ m_isReady' = FALSE
        /\ m_terminate' = m_terminate \/ m_terminate' = TRUE
    BY <1>2, StepCases, Zenon
    DEF Loop, Take, EndTake, Finish, Retire, Resume, DecideToWait, Block, WakeUp,
        SpuriousWakeUp, TaskAdds, OutsiderAdds, Add, EndAdd, HandleEvent,
        HandleChangedState, Enter, Register, Join, Unregister, Leave, Spawn,
        Terminate, AbortNotify, AbortLock, execVars
  <2> QED
    BY <2>1 DEF FlagsOK
<1> QED
  BY <1>1, <1>2

\* ... of the places ...
LEMMA GotoOK ==
    ASSUME PlacesOK, NEW x \in Thread, NEW l, Goto(x, l),
           x \in Worker => l \in WorkerPC,
           x \in Caller => l \in CallerPC,
           x \in Producer => l \in OutsidePC,
           x \in Aborter => l \in AborterPC
    PROVE  PlacesOK'
  BY ThreadAssumption DEF PlacesOK, Goto, WorkerPC, CallerPC, OutsidePC, AborterPC

LEMMA PlacesStep ==
    ASSUME PlacesOK, [Next]_vars
    PROVE  PlacesOK'
<1>1. CASE UNCHANGED vars
  BY <1>1 DEF vars, PlacesOK
<1>2. CASE Next
  <2>1. ASSUME NEW w \in Worker, NEW l \in WorkerPC, Goto(w, l) PROVE PlacesOK'
    BY <2>1, GotoOK, ThreadAssumption
  <2>2. ASSUME NEW c \in Caller, NEW l \in CallerPC, Goto(c, l) PROVE PlacesOK'
    BY <2>2, GotoOK, ThreadAssumption
  <2>3. ASSUME NEW a \in Aborter, NEW l \in AborterPC, Goto(a, l) PROVE PlacesOK'
    BY <2>3, GotoOK, ThreadAssumption
  <2>4. ASSUME UNCHANGED pc PROVE PlacesOK'
    BY <2>4 DEF PlacesOK
  <2>5. ASSUME NEW w \in Worker,
               \/ Loop(w) \/ Take(w) \/ EndTake(w) \/ Finish(w)
               \/ Retire(w) \/ Resume(w) \/ DecideToWait(w) \/ Block(w)
               \/ WakeUp(w) \/ SpuriousWakeUp(w) \/ \E t \in Task : TaskAdds(w, t)
        PROVE  PlacesOK'
    <3>1. (\E l \in WorkerPC : Goto(w, l)) \/ UNCHANGED pc
      BY <2>5
      DEF Loop, Take, EndTake, Finish, Retire, Resume, DecideToWait, Block, WakeUp,
          SpuriousWakeUp, TaskAdds, Add, WorkerPC
    <3> QED
      BY <2>1, <2>4, <3>1
  <2>6. ASSUME NEW c \in Caller,
               Enter(c) \/ Register(c) \/ Unregister(c) \/ Leave(c)
        PROVE  PlacesOK'
    <3>1. \E l \in CallerPC : Goto(c, l)
      BY <2>6 DEF Enter, Register, Unregister, Leave, CallerPC, OutsidePC
    <3> QED
      BY <2>2, <3>1
  <2>7. ASSUME NEW a \in Aborter, Terminate(a) \/ AbortNotify(a) \/ AbortLock(a)
        PROVE  PlacesOK'
    <3>1. \E l \in AborterPC : Goto(a, l)
      BY <2>7 DEF Terminate, AbortNotify, AbortLock, AborterPC
    <3> QED
      BY <2>3, <3>1
  <2>8. ASSUME NEW c \in Caller, NEW w \in Worker, Spawn(c, w) PROVE PlacesOK'
    BY <2>8, ThreadAssumption
    DEF Spawn, PlacesOK, WorkerPC, CallerPC, OutsidePC, AborterPC
  <2>9. ASSUME NEW c \in Caller, Join(c) PROVE PlacesOK'
    BY <2>9, ThreadAssumption
    DEF Join, PlacesOK, WorkerPC, CallerPC, OutsidePC, AborterPC
  <2>10. ASSUME NEW x \in Caller \cup Producer, NEW t \in Task, OutsiderAdds(x, t)
         PROVE  PlacesOK'
    BY <2>10, ThreadAssumption
    DEF OutsiderAdds, Add, Goto, PlacesOK, WorkerPC, CallerPC, OutsidePC, AborterPC
  <2>11. ASSUME NEW x \in Thread, EndAdd(x) PROVE PlacesOK'
    BY <2>11, ThreadAssumption
    DEF EndAdd, Goto, PlacesOK, WorkerPC, CallerPC, OutsidePC, AborterPC
  <2>12. ASSUME NEW x \in Thread, HandleEvent(x) PROVE PlacesOK'
    BY <2>12, <2>4 DEF HandleEvent
  <2> QED
    BY <1>2, <2>5, <2>6, <2>7, <2>8, <2>9, <2>10, <2>11, <2>12, StepCases
<1> QED
  BY <1>1, <1>2

\* ... and of everything else.
LEMMA DataStep ==
    ASSUME DataOK, PlacesOK, [Next]_vars
    PROVE  DataOK'
<1>1. CASE UNCHANGED vars
  BY <1>1 DEF vars, execVars, DataOK
<1>2. CASE Next
  <2>1. ASSUME NEW w \in Worker, \/ Loop(w) \/ Take(w) \/ EndTake(w) \/ Finish(w)
        PROVE  DataOK'
    BY <2>1 DEF Loop, Take, EndTake, Finish, DataOK, execVars
  <2>2. ASSUME NEW w \in Worker, \/ Retire(w) \/ Resume(w) \/ DecideToWait(w) \/ Block(w)
                                 \/ WakeUp(w) \/ SpuriousWakeUp(w)
        PROVE  DataOK'
    BY <2>2
    DEF Retire, Resume, DecideToWait, Block, WakeUp, SpuriousWakeUp, NotifyAll, DataOK, execVars
  <2>3. ASSUME NEW x \in Thread, NEW t \in Task, TaskAdds(x, t) \/ OutsiderAdds(x, t)
        PROVE  DataOK'
    BY <2>3 DEF TaskAdds, OutsiderAdds, Add, DataOK, execVars
  <2>4. ASSUME NEW x \in Thread, EndAdd(x) \/ HandleEvent(x) PROVE DataOK'
    BY <2>4 DEF EndAdd, HandleEvent, HandleChangedState, NotifyAll, DataOK, execVars
  <2>5. ASSUME NEW c \in Caller, \/ Enter(c) \/ Register(c) \/ Join(c) \/ Unregister(c)
                                 \/ Leave(c) \/ \E w \in Worker : Spawn(c, w)
        PROVE  DataOK'
    BY <2>5 DEF Enter, Register, Join, Unregister, Leave, Spawn, DataOK, execVars
  <2>6. ASSUME NEW a \in Aborter, Terminate(a) \/ AbortNotify(a) \/ AbortLock(a)
        PROVE  DataOK'
    BY <2>6 DEF Terminate, AbortNotify, AbortLock, NotifyAll, DataOK, execVars
  <2> QED
    BY <1>2, <2>1, <2>2, <2>3, <2>4, <2>5, <2>6, StepCases, ThreadAssumption
<1> QED
  BY <1>1, <1>2

-----------------------------------------------------------------------------
(* The inductive invariant.                                                *)

LEMMA InitInv == Init => Inv
<1> SUFFICES ASSUME Init PROVE Inv
  OBVIOUS
<1>1. TypeOK
  BY InitTypeOK
<1>2. OneCall
  BY ThreadAssumption DEF Init, OneCall
<1>3. Registered
  BY DEF Init, QueueInit, NoDispatch, Registered
<1>4. Monitor
  BY ThreadAssumption DEF Init, Monitor
<1>5. NoTaskStranded
  BY ThreadAssumption DEF Init, NoTaskStranded, Serving
<1>6. NoLostWakeUp
  BY DEF Init, NoLostWakeUp
<1>7. ActiveCount
  BY ThreadAssumption DEF Init, ActiveCount, Serving
<1> QED
  BY <1>1, <1>2, <1>3, <1>4, <1>5, <1>6, <1>7 DEF Inv

LEMMA OneCallStep ==
    ASSUME TypeOK, OneCall, [Next]_vars
    PROVE  OneCall'
<1>0. PlacesOK
  BY DEF TypeOK
<1>1. CASE UNCHANGED vars
  BY <1>1 DEF vars, execVars, OneCall
<1>2. CASE Next
  <2>1. ASSUME NEW w \in Worker,
               \/ Loop(w) \/ Take(w) \/ EndTake(w) \/ Finish(w)
               \/ Retire(w) \/ Resume(w) \/ DecideToWait(w) \/ Block(w)
               \/ WakeUp(w) \/ SpuriousWakeUp(w) \/ \E t \in Task : TaskAdds(w, t)
        PROVE  OneCall'
    <3>1. m_execMutex' = m_execMutex
      BY <2>1
      DEF Loop, Take, EndTake, Finish, Retire, Resume, DecideToWait, Block, WakeUp,
          SpuriousWakeUp, TaskAdds, Add, execVars
    <3>2. (pc[w] # "unborn" /\ \E l : Goto(w, l)) \/ UNCHANGED pc
      BY <2>1
      DEF Loop, Take, EndTake, Finish, Retire, Resume, DecideToWait, Block, WakeUp,
          SpuriousWakeUp, TaskAdds, Add
    <3> QED
      BY <1>0, <3>1, <3>2, ThreadAssumption DEF OneCall, Goto, PlacesOK
  <2>2. ASSUME NEW x \in Caller \cup Producer, NEW t \in Task, OutsiderAdds(x, t)
        PROVE  OneCall'
    BY <1>0, <2>2, ThreadAssumption DEF OutsiderAdds, Add, Goto, OneCall, PlacesOK, execVars
  <2>3. ASSUME NEW x \in Thread, EndAdd(x) PROVE OneCall'
    BY <1>0, <2>3, ThreadAssumption DEF EndAdd, Goto, OneCall, PlacesOK, execVars
  <2>4. ASSUME NEW x \in Thread, HandleEvent(x) PROVE OneCall'
    BY <2>4 DEF HandleEvent, HandleChangedState, OneCall, execVars
  <2>5. ASSUME NEW c \in Caller,
               Enter(c) \/ Register(c) \/ Unregister(c) \/ Leave(c)
        PROVE  OneCall'
    BY <1>0, <2>5, ThreadAssumption
    DEF Enter, Register, Unregister, Leave, Goto, OneCall, PlacesOK, execVars
  <2>6. ASSUME NEW c \in Caller, NEW w \in Worker, Spawn(c, w) PROVE OneCall'
    BY <1>0, <2>6, ThreadAssumption DEF Spawn, OneCall, PlacesOK, execVars
  <2>7. ASSUME NEW c \in Caller, Join(c) PROVE OneCall'
    BY <1>0, <2>7, ThreadAssumption DEF Join, OneCall, PlacesOK, execVars
  <2>8. ASSUME NEW a \in Aborter, Terminate(a) \/ AbortNotify(a) \/ AbortLock(a)
        PROVE  OneCall'
    BY <1>0, <2>8, ThreadAssumption
    DEF Terminate, AbortNotify, AbortLock, Goto, OneCall, PlacesOK, execVars
  <2> QED
    BY <1>2, <2>1, <2>2, <2>3, <2>4, <2>5, <2>6, <2>7, <2>8, StepCases
<1> QED
  BY <1>1, <1>2

\* What the queue's operations do to its mutex, its handler loop and its handlers.
LEMMA DispatchStep ==
    ASSUME QueueTypeOK, Registered, NEW x \in Thread,
           \/ \E t \in Task : AddTask(x, t)
           \/ TakeFirst(x) \/ TakeFromEmpty(x) \/ Unlock(x)
           \/ Deliver(x, Executor) \/ TaskDone(x) \/ UNCHANGED queueVars
    PROVE  /\ m_mutex' = NoThread => dispatch'.left = {}
           /\ dispatch'.left \subseteq m_eventProcessors'
           /\ m_eventProcessors' = m_eventProcessors
<1>1. ASSUME NEW ready, MarkReady(ready) PROVE dispatch'.left \subseteq m_eventProcessors
  BY <1>1 DEF MarkReady, Announce, NoDispatch
<1>2. CASE \E t \in Task : AddTask(x, t)
  BY <1>1, <1>2, ThreadAssumption DEF AddTask, Lock
<1>3. CASE TakeFromEmpty(x)
  BY <1>1, <1>3, ThreadAssumption DEF TakeFromEmpty, Lock
<1>4. CASE TakeFirst(x)
  BY <1>4, ThreadAssumption DEF TakeFirst, Lock, Announce
<1>5. CASE Unlock(x)
  BY <1>5 DEF Unlock, NoDispatch
<1>6. CASE Deliver(x, Executor)
  <2>1. dispatch'.left \subseteq dispatch.left
    BY <1>6 DEF Deliver, QueueTypeOK
  <2> QED
    BY <1>6, <2>1, ThreadAssumption DEF Deliver, Registered
<1>7. CASE TaskDone(x) \/ UNCHANGED queueVars
  BY <1>7 DEF TaskDone, queueVars, Registered
<1> QED
  BY <1>2, <1>3, <1>4, <1>5, <1>6, <1>7

LEMMA RegisteredStep ==
    ASSUME TypeOK, OneCall, Registered, [Next]_vars
    PROVE  Registered'
<1>0. PlacesOK /\ QueueTypeOK
  BY DEF TypeOK
<1>1. CASE UNCHANGED vars
  BY <1>1 DEF vars, queueVars, execVars, Registered
<1>2. CASE Next
  \* All that the queue's own operations leave to check is the place of the caller served.
  <2>0. ASSUME NEW x \in Thread,
               \/ \E t \in Task : AddTask(x, t)
               \/ TakeFirst(x) \/ TakeFromEmpty(x) \/ Unlock(x)
               \/ Deliver(x, Executor) \/ TaskDone(x) \/ UNCHANGED queueVars,
               m_execMutex' = m_execMutex,
               \A c \in Caller : m_execMutex = c /\ pc[c] \in {"spawn", "join", "unregister"}
                   => pc'[c] \in {"spawn", "join", "unregister"}
        PROVE  Registered'
    BY <1>0, <2>0, DispatchStep DEF Registered
  <2>1. ASSUME NEW w \in Worker,
               \/ Loop(w) \/ Take(w) \/ EndTake(w) \/ Finish(w)
               \/ Retire(w) \/ Resume(w) \/ DecideToWait(w) \/ Block(w)
               \/ WakeUp(w) \/ SpuriousWakeUp(w) \/ \E t \in Task : TaskAdds(w, t)
        PROVE  Registered'
    <3>1. m_execMutex' = m_execMutex
      BY <2>1
      DEF Loop, Take, EndTake, Finish, Retire, Resume, DecideToWait, Block, WakeUp,
          SpuriousWakeUp, TaskAdds, Add, execVars
    <3>2. (\E l : Goto(w, l)) \/ UNCHANGED pc
      BY <2>1
      DEF Loop, Take, EndTake, Finish, Retire, Resume, DecideToWait, Block, WakeUp,
          SpuriousWakeUp, TaskAdds, Add
    <3>3. \/ \E t \in Task : AddTask(w, t)
          \/ TakeFirst(w) \/ TakeFromEmpty(w) \/ Unlock(w) \/ TaskDone(w) \/ UNCHANGED queueVars
      BY <2>1
      DEF Loop, Take, EndTake, Finish, Retire, Resume, DecideToWait, Block, WakeUp,
          SpuriousWakeUp, TaskAdds, Add
    <3>4. \A c \in Caller : pc'[c] = pc[c]
      BY <1>0, <3>2, ThreadAssumption DEF Goto, PlacesOK
    <3> QED
      BY <2>0, <3>1, <3>3, <3>4, ThreadAssumption
  <2>2. ASSUME NEW x \in Caller \cup Producer, NEW t \in Task, OutsiderAdds(x, t)
        PROVE  Registered'
    <3>1. m_execMutex' = m_execMutex /\ AddTask(x, t)
      BY <2>2 DEF OutsiderAdds, Add, execVars
    <3>2. \A c \in Caller : pc[c] # "out" => pc'[c] = pc[c]
      BY <1>0, <2>2, ThreadAssumption DEF OutsiderAdds, Add, Goto, PlacesOK
    <3> QED
      BY <2>0, <3>1, <3>2, ThreadAssumption
  <2>3. ASSUME NEW x \in Thread, EndAdd(x) PROVE Registered'
    <3>1. m_execMutex' = m_execMutex /\ Unlock(x)
      BY <2>3 DEF EndAdd, execVars
    <3>2. \A c \in Caller : pc[c] # "adding" => pc'[c] = pc[c]
      BY <1>0, <2>3, ThreadAssumption DEF EndAdd, Goto, PlacesOK
    <3> QED
      BY <2>0, <3>1, <3>2
  <2>4. ASSUME NEW x \in Thread, HandleEvent(x) PROVE Registered'
    <3>1. m_execMutex' = m_execMutex /\ Deliver(x, Executor) /\ UNCHANGED pc
      BY <2>4 DEF HandleEvent, HandleChangedState, execVars
    <3> QED
      BY <2>0, <3>1
  <2>5. ASSUME NEW c \in Caller, Enter(c) PROVE Registered'
    BY <2>5, ThreadAssumption DEF Enter, Registered, queueVars
  <2>6. ASSUME NEW c \in Caller, Register(c) PROVE Registered'
    BY <1>0, <2>6, ThreadAssumption
    DEF Register, RegisterHandler, Goto, Registered, OneCall, PlacesOK, execVars
  <2>7. ASSUME NEW c \in Caller, Unregister(c) PROVE Registered'
    <3>1. m_eventProcessors' = {} /\ dispatch' = dispatch /\ m_mutex = NoThread
      BY <1>0, <2>7, HandlerAssumption DEF Unregister, UnregisterHandler, QueueTypeOK
    <3> QED
      BY <3>1 DEF Registered
  <2>8. ASSUME NEW c \in Caller, Leave(c) PROVE Registered'
    <3>1. m_eventProcessors = {} /\ UNCHANGED queueVars
      BY <2>8, ThreadAssumption DEF Leave, Registered, OneCall
    <3> QED
      BY <3>1 DEF Registered, queueVars
  <2>9. ASSUME NEW c \in Caller, NEW w \in Worker, Spawn(c, w) PROVE Registered'
    BY <1>0, <2>9, ThreadAssumption DEF Spawn, Registered, OneCall, PlacesOK, queueVars, execVars
  <2>10. ASSUME NEW c \in Caller, Join(c) PROVE Registered'
    BY <1>0, <2>10, ThreadAssumption DEF Join, Registered, OneCall, PlacesOK, queueVars, execVars
  <2>11. ASSUME NEW a \in Aborter, Terminate(a) \/ AbortNotify(a) \/ AbortLock(a)
         PROVE  Registered'
    <3>1. m_execMutex' = m_execMutex /\ UNCHANGED queueVars
      BY <2>11 DEF Terminate, AbortNotify, AbortLock, execVars
    <3>2. \A c \in Caller : pc'[c] = pc[c]
      BY <1>0, <2>11, ThreadAssumption
      DEF Terminate, AbortNotify, AbortLock, Goto, PlacesOK
    <3> QED
      BY <2>0, <3>1, <3>2, ThreadAssumption
  <2> QED
    BY <1>2, <2>1, <2>2, <2>3, <2>4, <2>5, <2>6, <2>7, <2>8, <2>9, <2>10, <2>11, StepCases
<1> QED
  BY <1>1, <1>2

\* The steps that do not touch the condition variable, its mutex or what it guards.
LEMMA MonitorFrame ==
    ASSUME DataOK, Monitor, NoLostWakeUp,
           UNCHANGED <<m_isReady, m_activeThreads, m_activeThreadsMutex, m_activeThreadsCV>>,
           m_terminate => m_terminate',
           \A w \in Worker : pc[w] \in {"check", "block", "wait"} \/ pc'[w] \in {"check", "block", "wait"}
               => pc'[w] = pc[w]
    PROVE  Monitor' /\ NoLostWakeUp'
<1>1. ASSUME ~m_terminate', ~MayGoOn PROVE ~m_terminate /\ ~MayGoOn'
  BY <1>1 DEF MayGoOn
<1>2. ~m_terminate' => ~m_terminate
  OBVIOUS
<1>3. Monitor'
  <2>1. \A w \in Worker : pc'[w] \in {"check", "block"} <=> m_activeThreadsMutex' = w
    BY DEF Monitor
  <2>2. \A w \in m_activeThreadsCV' : pc'[w] = "wait"
    BY DEF Monitor, DataOK
  <2>3. ASSUME NEW w \in Worker, pc'[w] = "block", ~m_terminate' PROVE ~MayGoOn'
    <3>1. pc[w] = "block"
      BY <2>3
    <3>2. ~MayGoOn
      BY <1>2, <2>3, <3>1 DEF Monitor
    <3> QED
      BY <1>1, <2>3, <3>2
  <2> QED
    BY <2>1, <2>2, <2>3 DEF Monitor
<1>4. NoLostWakeUp'
  BY <1>1, <1>2, Zenon DEF NoLostWakeUp
<1> QED
  BY <1>3, <1>4

LEMMA MonitorStep ==
    ASSUME TypeOK, OneCall, Monitor, NoLostWakeUp, [Next]_vars
    PROVE  Monitor' /\ NoLostWakeUp'
<1>0. PlacesOK /\ DataOK
  BY DEF TypeOK
<1>1. CASE UNCHANGED vars
  BY <1>0, <1>1, MonitorFrame DEF vars, execVars
<1>2. CASE Next
  <2>1. ASSUME NEW w \in Worker,
               \/ Loop(w) \/ Take(w) \/ EndTake(w) \/ Finish(w) \/ \E t \in Task : TaskAdds(w, t)
        PROVE  Monitor' /\ NoLostWakeUp'
    <3>1. UNCHANGED <<m_isReady, m_activeThreads, m_activeThreadsMutex, m_activeThreadsCV,
                      m_terminate>>
      BY <2>1 DEF Loop, Take, EndTake, Finish, TaskAdds, Add, execVars
    <3>2. \A v \in Worker : pc[v] \in {"check", "block", "wait"} \/ pc'[v] \in {"check", "block", "wait"}
               => pc'[v] = pc[v]
      BY <1>0, <2>1, ThreadAssumption
      DEF Loop, Take, EndTake, Finish, TaskAdds, Add, Goto, PlacesOK
    <3> QED
      BY <1>0, <3>1, <3>2, MonitorFrame
  <2>2. ASSUME NEW w \in Worker, Retire(w) PROVE Monitor' /\ NoLostWakeUp'
    BY <1>0, <2>2, ThreadAssumption
    DEF Retire, NotifyAll, Goto, Monitor, NoLostWakeUp, PlacesOK
  <2>3. ASSUME NEW w \in Worker, Resume(w) PROVE Monitor' /\ NoLostWakeUp'
    <3>1. m_activeThreadsMutex = w /\ m_activeThreadsMutex' = NoThread
          /\ m_isReady' = m_isReady /\ m_activeThreadsCV' = m_activeThreadsCV
          /\ m_terminate' = m_terminate
      BY <2>3, ThreadAssumption DEF Resume, Monitor
    <3>2. /\ \A v \in Worker : pc'[v] \notin {"check", "block"}
          /\ \A v \in m_activeThreadsCV : pc'[v] = "wait"
      BY <1>0, <2>3, <3>1, ThreadAssumption DEF Resume, Goto, Monitor, PlacesOK, DataOK
    <3>3. CASE m_isReady \/ m_terminate
      BY <1>0, <3>1, <3>2, <3>3, ThreadAssumption DEF Monitor, NoLostWakeUp, MayGoOn
    <3>4. CASE ~m_isReady
      BY <1>0, <2>3, <3>1, <3>2, <3>4, ThreadAssumption
      DEF Resume, Monitor, NoLostWakeUp, MayGoOn
    <3> QED
      BY <3>3, <3>4
  <2>4. ASSUME NEW w \in Worker, DecideToWait(w) PROVE Monitor' /\ NoLostWakeUp'
    BY <1>0, <2>4, ThreadAssumption
    DEF DecideToWait, Goto, Monitor, NoLostWakeUp, MayGoOn, PlacesOK, DataOK, execVars
  <2>5. ASSUME NEW w \in Worker, Block(w) PROVE Monitor' /\ NoLostWakeUp'
    <3>1. m_activeThreadsMutex = w /\ (~m_terminate => ~MayGoOn) /\ MayGoOn' = MayGoOn
      BY <2>5 DEF Block, Monitor, MayGoOn
    <3> QED
      BY <1>0, <2>5, <3>1, ThreadAssumption
      DEF Block, Goto, Monitor, NoLostWakeUp, PlacesOK, DataOK
  <2>6. ASSUME NEW w \in Worker, WakeUp(w) \/ SpuriousWakeUp(w)
        PROVE  Monitor' /\ NoLostWakeUp'
    BY <1>0, <2>6, ThreadAssumption
    DEF WakeUp, SpuriousWakeUp, Goto, Monitor, NoLostWakeUp, MayGoOn, PlacesOK, DataOK
  <2>7. ASSUME NEW x \in Caller \cup Producer, NEW t \in Task, OutsiderAdds(x, t)
        PROVE  Monitor' /\ NoLostWakeUp'
    BY <1>0, <2>7, ThreadAssumption, MonitorFrame
    DEF OutsiderAdds, Add, Goto, PlacesOK, execVars
  <2>8. ASSUME NEW x \in Thread, EndAdd(x) PROVE Monitor' /\ NoLostWakeUp'
    BY <1>0, <2>8, ThreadAssumption, MonitorFrame DEF EndAdd, Goto, PlacesOK, execVars
  <2>9. ASSUME NEW x \in Thread, HandleEvent(x) PROVE Monitor' /\ NoLostWakeUp'
    <3>1. CASE UNCHANGED execVars
      BY <1>0, <2>9, <3>1, MonitorFrame DEF HandleEvent, execVars
    <3>2. CASE HandleChangedState
      BY <1>0, <2>9, <3>2, ThreadAssumption
      DEF HandleEvent, HandleChangedState, NotifyAll, Monitor, NoLostWakeUp, DataOK
    <3> QED
      BY <2>9, <3>1, <3>2 DEF HandleEvent
  <2>10. ASSUME NEW c \in Caller, Enter(c) PROVE Monitor' /\ NoLostWakeUp'
    <3>1. \A w \in Worker : pc[w] = "unborn" /\ pc'[w] = "unborn"
      BY <1>0, <2>10, ThreadAssumption DEF Enter, Goto, OneCall, PlacesOK
    <3> QED
      BY <1>0, <2>10, <3>1 DEF Enter, Monitor, NoLostWakeUp, DataOK
  <2>11. ASSUME NEW c \in Caller,
                \/ Register(c) \/ Unregister(c) \/ Leave(c) \/ \E w \in Worker : Spawn(c, w)
         PROVE  Monitor' /\ NoLostWakeUp'
    <3>1. UNCHANGED <<m_isReady, m_activeThreads, m_activeThreadsMutex, m_activeThreadsCV,
                      m_terminate>>
      BY <2>11 DEF Register, Unregister, Leave, Spawn, execVars
    <3>2. \A v \in Worker : pc[v] \in {"check", "block", "wait"} \/ pc'[v] \in {"check", "block", "wait"}
               => pc'[v] = pc[v]
      BY <1>0, <2>11, ThreadAssumption
      DEF Register, Unregister, Leave, Spawn, Goto, PlacesOK
    <3> QED
      BY <1>0, <3>1, <3>2, MonitorFrame
  <2>12. ASSUME NEW c \in Caller, Join(c) PROVE Monitor' /\ NoLostWakeUp'
    BY <1>0, <2>12, ThreadAssumption, MonitorFrame DEF Join, PlacesOK, execVars
  <2>13. ASSUME NEW a \in Aborter, Terminate(a) \/ AbortLock(a)
         PROVE  Monitor' /\ NoLostWakeUp'
    BY <1>0, <2>13, ThreadAssumption, MonitorFrame
    DEF Terminate, AbortLock, Goto, PlacesOK, execVars
  <2>14. ASSUME NEW a \in Aborter, AbortNotify(a) PROVE Monitor' /\ NoLostWakeUp'
    BY <1>0, <2>14, ThreadAssumption
    DEF AbortNotify, NotifyAll, Goto, Monitor, NoLostWakeUp, MayGoOn, PlacesOK
  <2> QED
    BY <1>2, <2>1, <2>2, <2>3, <2>4, <2>5, <2>6, <2>7, <2>8, <2>9, <2>10, <2>11, <2>12,
       <2>13, <2>14, StepCases
<1> QED
  BY <1>1, <1>2

\* The steps that leave no more owed, end no abort, and keep every worker at work and the
\* place of the caller served.
LEMMA StrandedFrame ==
    ASSUME NoTaskStranded, Owed' \subseteq Owed, m_terminate => m_terminate',
           \A w \in Worker : AtWork(w) => AtWork(w)',
           \A c \in Caller : /\ Serving(c)' => Serving(c)
                             /\ pc'[c] \in {"unregister", "leave"} =>
                                   pc[c] \in {"unregister", "leave"}
    PROVE  NoTaskStranded'
  BY DEF NoTaskStranded

LEMMA StrandedStep ==
    ASSUME TypeOK, OneCall, NoTaskStranded, [Next]_vars
    PROVE  NoTaskStranded'
<1>0. PlacesOK /\ QueueTypeOK /\ DataOK
  BY DEF TypeOK
<1>1. CASE UNCHANGED vars
  BY <1>1, StrandedFrame DEF vars, queueVars, execVars, AtWork, Serving, Owed, Queued
<1>2. CASE Next
  <2>1. ASSUME NEW w \in Worker,
               \/ EndTake(w) \/ Finish(w) \/ Retire(w) \/ Resume(w) \/ DecideToWait(w)
               \/ Block(w) \/ WakeUp(w) \/ SpuriousWakeUp(w)
        PROVE  NoTaskStranded'
    <3>1. m_queue' = m_queue /\ late' = late /\ m_terminate' = m_terminate
      BY <2>1
      DEF EndTake, Unlock, Finish, TaskDone, Retire, Resume, DecideToWait, Block, WakeUp,
          SpuriousWakeUp, queueVars, execVars
    <3>2. \A v \in Worker : AtWork(v) => AtWork(v)'
      BY <1>0, <2>1, ThreadAssumption
      DEF EndTake, Unlock, Finish, TaskDone, Retire, Resume, DecideToWait, Block, WakeUp,
          SpuriousWakeUp, Goto, AtWork, PlacesOK, QueueTypeOK, queueVars
    <3>3. \A c \in Caller : pc'[c] = pc[c]
      BY <1>0, <2>1, ThreadAssumption
      DEF EndTake, Finish, Retire, Resume, DecideToWait, Block, WakeUp,
          SpuriousWakeUp, Goto, PlacesOK
    <3> QED
      BY <3>1, <3>2, <3>3, StrandedFrame DEF Owed, Queued, Serving
  \* A worker leaves its loop only when the executor is aborted.
  <2>2. ASSUME NEW w \in Worker, Loop(w) PROVE NoTaskStranded'
    <3>1. CASE m_terminate
      BY <2>2, <3>1 DEF Loop, NoTaskStranded, execVars
    <3>2. CASE ~m_terminate
      <4>1. \A v \in Worker : AtWork(v) => AtWork(v)'
        BY <1>0, <2>2, <3>2, ThreadAssumption DEF Loop, Goto, AtWork, PlacesOK, queueVars
      <4>2. \A c \in Caller : pc'[c] = pc[c]
        BY <1>0, <2>2, ThreadAssumption DEF Loop, Goto, PlacesOK
      <4> QED
        BY <2>2, <3>2, <4>1, <4>2, StrandedFrame
        DEF Loop, Owed, Queued, Serving, queueVars, execVars
    <3> QED
      BY <3>1, <3>2
  \* A worker that takes nothing has seen that nothing is owed.
  <2>3. ASSUME NEW w \in Worker, Take(w) PROVE NoTaskStranded'
    <3>1. \A c \in Caller : pc'[c] = pc[c]
      BY <1>0, <2>3, ThreadAssumption DEF Take, Goto, PlacesOK
    <3>2. CASE TakeFromEmpty(w)
      <4>1. Owed' = {}
        BY <1>0, <3>2 DEF TakeFromEmpty, Owed, Queued, QueueTypeOK
      <4> QED
        BY <4>1 DEF NoTaskStranded
    <3>3. CASE TakeFirst(w)
      <4>1. Queued' \subseteq Queued
        BY <1>0, <3>3, QueuedAfterTake DEF TakeFirst
      <4>2. Head(m_queue) # NoTask
        BY <1>0, <3>3, TaskAssumption DEF TakeFirst, QueueTypeOK
      <4>3. \A v \in Worker : AtWork(v) => AtWork(v)'
        BY <1>0, <2>3, <3>3, <4>2, ThreadAssumption
        DEF Take, TakeFirst, Goto, AtWork, PlacesOK, QueueTypeOK
      <4> QED
        BY <2>3, <3>1, <4>1, <4>3, StrandedFrame DEF Take, Owed, Serving, execVars
    <3> QED
      BY <2>3, <3>2, <3>3 DEF Take
  \* A task that adds a task is at work itself.
  <2>4. ASSUME NEW w \in Worker, NEW t \in Task, TaskAdds(w, t) PROVE NoTaskStranded'
    <3>1. AtWork(w)'
      BY <1>0, <2>4, ThreadAssumption DEF TaskAdds, Add, Goto, AtWork, PlacesOK
    <3>2. m_execMutex \in Caller /\ pc[m_execMutex] \in {"spawn", "join"}
      BY <2>4 DEF TaskAdds, OneCall
    <3>3. \A c \in Caller : pc'[c] = pc[c]
      BY <1>0, <2>4, ThreadAssumption DEF TaskAdds, Add, Goto, PlacesOK
    <3>4. \A c \in Caller : pc'[c] \notin {"unregister", "leave"}
      BY <3>2, <3>3 DEF OneCall
    <3> QED
      BY <3>1, <3>4 DEF NoTaskStranded
  \* What others add meanwhile is late.
  <2>5. ASSUME NEW x \in Caller \cup Producer, NEW t \in Task, OutsiderAdds(x, t)
        PROVE  NoTaskStranded'
    <3>1. Queued' = Queued \cup {t} /\ m_terminate' = m_terminate
      BY <1>0, <2>5, QueuedAfterAdd DEF OutsiderAdds, Add, AddTask, execVars
    <3>2. \A v \in Worker : AtWork(v) => AtWork(v)'
      BY <1>0, <2>5, ThreadAssumption
      DEF OutsiderAdds, Add, AddTask, Goto, AtWork, PlacesOK
    <3>3. \A c \in Caller : pc'[c] = pc[c] \/ pc'[c] = "adding"
      BY <1>0, <2>5, ThreadAssumption DEF OutsiderAdds, Add, Goto, PlacesOK
    <3>4. CASE m_execMutex = NoThread
      BY <3>3, <3>4, ThreadAssumption DEF OneCall, NoTaskStranded, Serving
    <3>5. CASE m_execMutex # NoThread
      <4>1. Owed' \subseteq Owed
        BY <2>5, <3>1, <3>5 DEF OutsiderAdds, Owed
      <4> QED
        BY <3>1, <3>2, <3>3, <4>1, StrandedFrame DEF Serving
    <3> QED
      BY <3>4, <3>5
  <2>6. ASSUME NEW x \in Thread, EndAdd(x) PROVE NoTaskStranded'
    <3>1. m_queue' = m_queue /\ late' = late /\ m_terminate' = m_terminate
      BY <2>6 DEF EndAdd, Unlock, execVars
    <3>2. \A v \in Worker : AtWork(v) => AtWork(v)'
      BY <1>0, <2>6, ThreadAssumption DEF EndAdd, Unlock, Goto, AtWork, PlacesOK
    <3>3. \A c \in Caller : pc'[c] = pc[c] \/ pc'[c] = "out"
      BY <1>0, <2>6, ThreadAssumption DEF EndAdd, Goto, PlacesOK
    <3> QED
      BY <3>1, <3>2, <3>3, StrandedFrame DEF Owed, Queued, Serving
  <2>7. ASSUME NEW x \in Thread, HandleEvent(x) PROVE NoTaskStranded'
    BY <2>7, StrandedFrame
    DEF HandleEvent, HandleChangedState, Deliver, AtWork, Serving, Owed, Queued, execVars
  \* When a call begins, every worker is still to be started.
  <2>8. ASSUME NEW c \in Caller, Enter(c) PROVE NoTaskStranded'
    <3>1. \A w \in Worker : AtWork(w)'
      BY <1>0, <2>8, ThreadAssumption DEF Enter, Goto, AtWork, OneCall, PlacesOK
    <3>2. \A d \in Caller : pc'[d] \notin {"unregister", "leave"}
      BY <1>0, <2>8, ThreadAssumption DEF Enter, Goto, OneCall, PlacesOK
    <3> QED
      BY <3>1, <3>2, ThreadAssumption DEF NoTaskStranded
  <2>9. ASSUME NEW c \in Caller, Register(c) \/ Unregister(c) \/ Leave(c)
        PROVE  NoTaskStranded'
    <3>1. m_queue' = m_queue /\ late' = late /\ m_terminate' = m_terminate /\ task' = task
      BY <2>9
      DEF Register, RegisterHandler, Unregister, UnregisterHandler, Leave, queueVars, execVars
    <3>2. \A v \in Worker : AtWork(v) => AtWork(v)'
      BY <1>0, <2>9, <3>1, ThreadAssumption
      DEF Register, Unregister, Leave, Goto, AtWork, PlacesOK
    <3>3. \A d \in Caller : /\ Serving(d)' => Serving(d)
                            /\ pc'[d] \in {"unregister", "leave"} =>
                                  pc[d] \in {"unregister", "leave"}
      BY <1>0, <2>9, ThreadAssumption DEF Register, Unregister, Leave, Goto, Serving, PlacesOK
    <3> QED
      BY <3>1, <3>2, <3>3, StrandedFrame DEF Owed, Queued
  <2>10. ASSUME NEW c \in Caller, NEW w \in Worker, Spawn(c, w) PROVE NoTaskStranded'
    BY <1>0, <2>10, ThreadAssumption, StrandedFrame
    DEF Spawn, AtWork, Serving, Owed, Queued, PlacesOK, queueVars, execVars
  \* No worker that was joined is at work.
  <2>11. ASSUME NEW c \in Caller, Join(c) PROVE NoTaskStranded'
    <3>1. \A w \in Worker : ~AtWork(w)
      BY <2>11 DEF Join, AtWork
    <3>2. m_queue' = m_queue /\ late' = late /\ m_terminate' = m_terminate
      BY <2>11 DEF Join, queueVars, execVars
    <3>3. ~m_terminate => Owed' = {}
      BY <2>11, <3>1, <3>2 DEF Join, NoTaskStranded, Serving, Owed, Queued
    <3> QED
      BY <3>2, <3>3 DEF NoTaskStranded
  <2>12. ASSUME NEW a \in Aborter, Terminate(a) PROVE NoTaskStranded'
    BY <2>12 DEF Terminate, NoTaskStranded
  <2>13. ASSUME NEW a \in Aborter, AbortNotify(a) \/ AbortLock(a) PROVE NoTaskStranded'
    BY <1>0, <2>13, ThreadAssumption, StrandedFrame
    DEF AbortNotify, AbortLock, Goto, AtWork, Serving, Owed, Queued, PlacesOK, queueVars, execVars
  <2> QED
    BY <1>2, <2>1, <2>2, <2>3, <2>4, <2>5, <2>6, <2>7, <2>8, <2>9, <2>10, <2>11, <2>12,
       <2>13, StepCases
<1> QED
  BY <1>1, <1>2

-----------------------------------------------------------------------------
(* Why a worker that leaves the executor's loop is right to leave:           *)
(* m_activeThreads counts the workers that have not retired, and a worker    *)
(* leaves when it is zero.                                                   *)

\* Sets of workers can be counted.
LEMMA WorkersFinite ==
    ASSUME NEW S \in SUBSET Worker
    PROVE  IsFiniteSet(S) /\ Cardinality(S) \in Nat
  BY ThreadAssumption, FS_Subset, FS_CardinalityType

LEMMA NotRetiredType == NotRetired \subseteq Worker /\ NotRetired' \subseteq Worker
  BY DEF NotRetired

\* The steps that change neither the count, nor who has retired, nor who is served.
LEMMA CountFrame ==
    ASSUME ActiveCount, NotRetired' = NotRetired, m_activeThreads' = m_activeThreads,
           m_terminate => m_terminate',
           \A c \in Caller : Serving(c)' => Serving(c)
    PROVE  ActiveCount'
<1>1. ~m_terminate' => ~m_terminate
  OBVIOUS
<1> QED
  BY <1>1 DEF ActiveCount

LEMMA ActiveCountStep ==
    ASSUME TypeOK, OneCall, Monitor, ActiveCount, [Next]_vars
    PROVE  ActiveCount'
<1>0. PlacesOK /\ CountOK /\ DataOK
  BY DEF TypeOK
<1>1. CASE UNCHANGED vars
  BY <1>1, CountFrame DEF vars, execVars, NotRetired, Serving
<1>2. CASE Next
  \* Steps inside or outside the wait.
  <2>1. ASSUME NEW w \in Worker,
               \/ Take(w) \/ EndTake(w) \/ Finish(w) \/ DecideToWait(w) \/ Block(w)
               \/ WakeUp(w) \/ SpuriousWakeUp(w) \/ \E t \in Task : TaskAdds(w, t)
        PROVE  ActiveCount'
    <3>1. m_activeThreads' = m_activeThreads /\ m_terminate' = m_terminate
      BY <2>1
      DEF Take, EndTake, Finish, DecideToWait, Block, WakeUp, SpuriousWakeUp, TaskAdds, Add,
          execVars
    <3>2. NotRetired' = NotRetired
      BY <1>0, <2>1, ThreadAssumption
      DEF Take, EndTake, Finish, DecideToWait, Block, WakeUp, SpuriousWakeUp, TaskAdds, Add,
          Goto, NotRetired, PlacesOK, Monitor
    <3>3. \A c \in Caller : pc'[c] = pc[c]
      BY <1>0, <2>1, ThreadAssumption
      DEF Take, EndTake, Finish, DecideToWait, Block, WakeUp, SpuriousWakeUp, TaskAdds, Add,
          Goto, PlacesOK
    <3> QED
      BY <3>1, <3>2, <3>3, CountFrame DEF Serving
  <2>2. ASSUME NEW w \in Worker, Retire(w) PROVE ActiveCount'
    <3>1. w \in NotRetired /\ NotRetired' = NotRetired \ {w}
      BY <1>0, <2>2, ThreadAssumption DEF Retire, Goto, NotRetired, PlacesOK
    <3>2. Cardinality(NotRetired') = Cardinality(NotRetired) - 1
      BY <3>1, NotRetiredType, WorkersFinite, FS_RemoveElement
    <3>3. /\ m_activeThreads' = m_activeThreads - 1 /\ m_terminate' = m_terminate
          /\ \A c \in Caller : Serving(c)' => Serving(c)
      BY <1>0, <2>2, ThreadAssumption DEF Retire, Goto, Serving, PlacesOK
    <3>4. /\ Cardinality(NotRetired) \in Nat /\ m_activeThreads \in Int
      BY <1>0, NotRetiredType, WorkersFinite DEF CountOK
    <3> QED
      BY <3>2, <3>3, <3>4 DEF ActiveCount
  <2>3. ASSUME NEW w \in Worker, Resume(w) PROVE ActiveCount'
    <3>1. /\ m_terminate' = m_terminate
          /\ \A c \in Caller : Serving(c)' => Serving(c)
      BY <1>0, <2>3, ThreadAssumption DEF Resume, Goto, Serving, PlacesOK
    <3>2. CASE m_isReady
      <4>1. w \notin NotRetired /\ NotRetired' = NotRetired \cup {w}
        BY <1>0, <2>3, <3>2, ThreadAssumption DEF Resume, Goto, NotRetired, PlacesOK
      <4>2. Cardinality(NotRetired') = Cardinality(NotRetired) + 1
        BY <4>1, NotRetiredType, WorkersFinite, FS_AddElement
      <4>3. m_activeThreads' = m_activeThreads + 1
        BY <2>3, <3>2 DEF Resume
      <4>4. /\ Cardinality(NotRetired) \in Nat /\ m_activeThreads \in Int
        BY <1>0, NotRetiredType, WorkersFinite DEF CountOK
      <4> QED
        BY <3>1, <4>2, <4>3, <4>4 DEF ActiveCount
    <3>3. CASE ~m_isReady
      <4>1. NotRetired' = NotRetired /\ m_activeThreads' = m_activeThreads
        BY <1>0, <2>3, <3>3, ThreadAssumption DEF Resume, Goto, NotRetired, PlacesOK
      <4> QED
        BY <3>1, <4>1, CountFrame
    <3> QED
      BY <3>2, <3>3
  \* A worker that leaves its loop does not count itself out: it was told to terminate.
  <2>4. ASSUME NEW w \in Worker, Loop(w) PROVE ActiveCount'
    <3>1. /\ m_activeThreads' = m_activeThreads /\ m_terminate' = m_terminate
          /\ \A c \in Caller : Serving(c)' => Serving(c)
      BY <1>0, <2>4, ThreadAssumption DEF Loop, Goto, Serving, PlacesOK, execVars
    <3>2. CASE m_terminate
      <4>1. w \in NotRetired /\ NotRetired' = NotRetired \ {w}
        BY <1>0, <2>4, <3>2, ThreadAssumption DEF Loop, Goto, NotRetired, PlacesOK
      <4>2. Cardinality(NotRetired') = Cardinality(NotRetired) - 1
        BY <4>1, NotRetiredType, WorkersFinite, FS_RemoveElement
      <4>3. /\ Cardinality(NotRetired) \in Nat /\ m_activeThreads \in Int
        BY <1>0, NotRetiredType, WorkersFinite DEF CountOK
      <4> QED
        BY <3>1, <3>2, <4>2, <4>3 DEF ActiveCount
    <3>3. CASE ~m_terminate
      <4>1. NotRetired' = NotRetired
        BY <1>0, <2>4, <3>3, ThreadAssumption DEF Loop, Goto, NotRetired, PlacesOK
      <4> QED
        BY <3>1, <4>1, CountFrame
    <3> QED
      BY <3>2, <3>3
  <2>5. ASSUME NEW x \in Thread,
               \/ EndAdd(x) \/ HandleEvent(x)
               \/ x \in Caller \cup Producer /\ \E t \in Task : OutsiderAdds(x, t)
        PROVE  ActiveCount'
    <3>1. m_activeThreads' = m_activeThreads /\ m_terminate' = m_terminate
      BY <2>5 DEF EndAdd, HandleEvent, HandleChangedState, OutsiderAdds, Add, execVars
    <3>2. NotRetired' = NotRetired
      BY <1>0, <2>5, ThreadAssumption
      DEF EndAdd, HandleEvent, OutsiderAdds, Add, Goto, NotRetired, PlacesOK
    <3>3. \A c \in Caller : Serving(c)' => Serving(c)
      BY <1>0, <2>5, ThreadAssumption
      DEF EndAdd, HandleEvent, OutsiderAdds, Add, Goto, Serving, PlacesOK
    <3> QED
      BY <3>1, <3>2, <3>3, CountFrame
  \* A call begins with every worker counted and none retired.
  <2>6. ASSUME NEW c \in Caller, Enter(c) PROVE ActiveCount'
    <3>1. NotRetired' = Worker
      BY <1>0, <2>6, ThreadAssumption DEF Enter, Goto, NotRetired, OneCall, PlacesOK
    <3>2. m_activeThreads' = Cardinality(Worker) /\ Cardinality(Worker) \in Nat
      BY <2>6, WorkersFinite DEF Enter
    <3> QED
      BY <3>1, <3>2 DEF ActiveCount
  <2>7. ASSUME NEW c \in Caller,
               \/ Register(c) \/ Unregister(c) \/ Leave(c) \/ \E w \in Worker : Spawn(c, w)
        PROVE  ActiveCount'
    <3>1. m_activeThreads' = m_activeThreads /\ m_terminate' = m_terminate
      BY <2>7 DEF Register, Unregister, Leave, Spawn, execVars
    <3>2. NotRetired' = NotRetired
      BY <1>0, <2>7, ThreadAssumption
      DEF Register, Unregister, Leave, Spawn, Goto, NotRetired, PlacesOK
    <3>3. \A d \in Caller : Serving(d)' => Serving(d)
      BY <1>0, <2>7, ThreadAssumption
      DEF Register, Unregister, Leave, Spawn, Goto, Serving, PlacesOK
    <3> QED
      BY <3>1, <3>2, <3>3, CountFrame
  <2>8. ASSUME NEW c \in Caller, Join(c) PROVE ActiveCount'
    <3>1. \A d \in Caller : ~Serving(d)'
      BY <1>0, <2>8, ThreadAssumption DEF Join, Serving, OneCall, PlacesOK
    <3> QED
      BY <3>1 DEF ActiveCount
  <2>9. ASSUME NEW a \in Aborter, Terminate(a) \/ AbortNotify(a) \/ AbortLock(a)
        PROVE  ActiveCount'
    <3>1. m_activeThreads' = m_activeThreads /\ (m_terminate => m_terminate')
      BY <2>9 DEF Terminate, AbortNotify, AbortLock, execVars
    <3>2. NotRetired' = NotRetired /\ \A c \in Caller : Serving(c)' => Serving(c)
      BY <1>0, <2>9, ThreadAssumption
      DEF Terminate, AbortNotify, AbortLock, Goto, NotRetired, Serving, PlacesOK
    <3> QED
      BY <3>1, <3>2, CountFrame
  <2> QED
    BY <1>2, <2>1, <2>2, <2>3, <2>4, <2>5, <2>6, <2>7, <2>8, <2>9, StepCases,
       ThreadAssumption
<1> QED
  BY <1>1, <1>2

\* A count that is changed is one of threads.
LEMMA CountStep ==
    ASSUME TypeOK, OneCall, ActiveCount', [Next]_vars
    PROVE  CountOK'
<1>0. PlacesOK /\ CountOK
  BY DEF TypeOK
<1>1. CASE \E w \in Worker : Retire(w) \/ Resume(w)
  <2>1. PICK w \in Worker : Retire(w) \/ Resume(w)
    BY <1>1
  <2>2. PICK c \in Caller : pc[c] \in {"spawn", "join"}
    BY <2>1 DEF Retire, Resume, OneCall
  <2>3. Serving(c)'
    BY <1>0, <2>1, <2>2, ThreadAssumption DEF Retire, Resume, Goto, Serving, PlacesOK
  <2>4. m_activeThreads' >= Cardinality(NotRetired') /\ m_activeThreads' \in Int
    <3>1. m_activeThreads' >= Cardinality(NotRetired')
      BY <2>3 DEF ActiveCount
    <3> QED
      BY <3>1, <1>0, <2>1 DEF Retire, Resume, CountOK
  <2>5. Cardinality(NotRetired') \in Nat
    BY WorkersFinite, NotRetiredType
  <2> QED
    BY <2>4, <2>5 DEF CountOK
<1>2. CASE \E c \in Caller : Enter(c)
  BY <1>2, WorkersFinite DEF Enter, CountOK
<1>3. CASE m_activeThreads' = m_activeThreads
  BY <1>0, <1>3 DEF CountOK
<1>4. CASE UNCHANGED vars
  BY <1>3, <1>4 DEF vars, execVars
<1>5. CASE Next
  <2>1. ASSUME NEW w \in Worker, \/ Loop(w) \/ Take(w) \/ EndTake(w) \/ Finish(w)
                                 \/ DecideToWait(w) \/ Block(w) \/ WakeUp(w) \/ SpuriousWakeUp(w)
        PROVE  CountOK'
    BY <1>3, <2>1
    DEF Loop, Take, EndTake, Finish, DecideToWait, Block, WakeUp, SpuriousWakeUp, execVars
  <2>2. ASSUME NEW x \in Thread, NEW t \in Task, TaskAdds(x, t) \/ OutsiderAdds(x, t)
        PROVE  CountOK'
    BY <1>3, <2>2 DEF TaskAdds, OutsiderAdds, Add, execVars
  <2>3. ASSUME NEW x \in Thread, EndAdd(x) \/ HandleEvent(x) PROVE CountOK'
    BY <1>3, <2>3 DEF EndAdd, HandleEvent, HandleChangedState, execVars
  <2>4. ASSUME NEW c \in Caller, \/ Register(c) \/ Join(c) \/ Unregister(c)
                                 \/ Leave(c) \/ \E w \in Worker : Spawn(c, w)
        PROVE  CountOK'
    BY <1>3, <2>4 DEF Register, Join, Unregister, Leave, Spawn, execVars
  <2>5. ASSUME NEW a \in Aborter, Terminate(a) \/ AbortNotify(a) \/ AbortLock(a)
        PROVE  CountOK'
    BY <1>3, <2>5 DEF Terminate, AbortNotify, AbortLock, execVars
  <2> QED
    BY <1>1, <1>2, <1>5, <2>1, <2>2, <2>3, <2>4, <2>5, StepCases, ThreadAssumption
<1> QED
  BY <1>4, <1>5

-----------------------------------------------------------------------------
\* Every step keeps the inductive invariant.
LEMMA InvStep ==
    ASSUME Inv, [Next]_vars
    PROVE  Inv'
<1>1. OneCall' /\ Registered' /\ Monitor' /\ NoLostWakeUp' /\ NoTaskStranded' /\ ActiveCount'
  BY OneCallStep, RegisteredStep, MonitorStep, StrandedStep, ActiveCountStep DEF Inv
<1>2. QueueTypeOK' /\ FlagsOK' /\ PlacesOK' /\ CountOK' /\ DataOK'
  BY <1>1, QueueTypeStep, FlagsStep, PlacesStep, CountStep, DataStep DEF Inv, TypeOK
<1> QED
  BY <1>1, <1>2 DEF Inv, TypeOK

\* The inductive invariant holds from the start and is kept by every step.
THEOREM Invariant == Spec => []Inv
<1>1. Inv /\ [Next]_vars => Inv'
  BY InvStep
<1> QED
  BY <1>1, InitInv, PTL DEF Spec

\* Every variable keeps its type, every thread stays at the places of its role, and
\* m_activeThreads never wraps below zero.
THEOREM TypeCorrect == Spec => []TypeOK
<1>1. Inv => TypeOK
  BY DEF Inv
<1> QED
  BY <1>1, Invariant, PTL

\* m_activeThreads counts the workers that have not retired, however many workers there
\* are and however they are woken.
THEOREM CountIsRight == Spec => []ActiveCount
<1>1. Inv => ActiveCount
  BY DEF Inv
<1> QED
  BY <1>1, Invariant, PTL

\* Unless it is aborted, execQueue() returns only when every task is done that was in the
\* queue when it was called or that one of the tasks added, however many workers it has.
THEOREM TasksAreDone == Spec => []NoTaskStranded
<1>1. Inv => NoTaskStranded
  BY DEF Inv
<1> QED
  BY <1>1, Invariant, PTL

\* Unless the executor is aborted, no worker sleeps through what it waits for.
THEOREM WakeUpsArrive == Spec => []NoLostWakeUp
<1>1. Inv => NoLostWakeUp
  BY DEF Inv
<1> QED
  BY <1>1, Invariant, PTL

\* The queue never holds, or is about to call, an executor outside execQueue().
THEOREM HandlerIsServing == Spec => []NoDanglingHandler
<1>1. Inv => NoDanglingHandler
  BY ThreadAssumption DEF Inv, Registered, NoDanglingHandler
<1> QED
  BY <1>1, Invariant, PTL

-----------------------------------------------------------------------------
(* Ready events, while nothing came late, come from tasks.                 *)

\* The steps that leave the handler loop, or end it, and whoever drives it.
LEMMA ReadyFrame ==
    ASSUME ReadyFromTask,
           dispatch'.left # {} /\ dispatch'.event = "Ready" =>
               /\ dispatch.left # {} /\ dispatch.event = "Ready" /\ m_mutex' = m_mutex,
           late' = {} => late = {},
           \A w \in Worker : pc[w] = "adding" /\ m_mutex' = m_mutex => pc'[w] = "adding"
    PROVE  ReadyFromTask'
  BY DEF ReadyFromTask

LEMMA EmptyIsNotReady ==
    ASSUME MarkReady(FALSE)
    PROVE  dispatch'.event # "Ready"
<1>1. Announce("Empty") \/ dispatch' = NoDispatch
  BY Zenon DEF MarkReady
<1> QED
  BY <1>1, SMT DEF Announce, NoDispatch

LEMMA ToldAreRegistered ==
    ASSUME NEW ready, MarkReady(ready)
    PROVE  dispatch'.left \subseteq m_eventProcessors
BY DEF MarkReady, Announce, NoDispatch

LEMMA ReadyStep ==
    ASSUME TypeOK, OneCall, Registered, ReadyFromTask, [Next]_vars
    PROVE  ReadyFromTask'
<1>0. PlacesOK /\ QueueTypeOK
  BY DEF TypeOK
<1>1. CASE UNCHANGED vars
  BY <1>1, ReadyFrame DEF vars, queueVars
<1>2. CASE Next
  <2>1. ASSUME NEW w \in Worker,
               \/ Loop(w) \/ Finish(w) \/ Retire(w) \/ Resume(w)
               \/ DecideToWait(w) \/ Block(w) \/ WakeUp(w) \/ SpuriousWakeUp(w)
        PROVE  ReadyFromTask'
    <3>1. dispatch' = dispatch /\ m_mutex' = m_mutex /\ late' = late
      BY <2>1
      DEF Loop, Finish, TaskDone, Retire, Resume, DecideToWait, Block, WakeUp,
          SpuriousWakeUp, queueVars
    <3>2. \A v \in Worker : pc[v] = "adding" => pc'[v] = "adding"
      BY <1>0, <2>1, ThreadAssumption
      DEF Loop, Finish, Retire, Resume, DecideToWait, Block, WakeUp, SpuriousWakeUp, Goto,
          PlacesOK
    <3> QED
      BY <3>1, <3>2, ReadyFrame
  <2>2. ASSUME NEW w \in Worker, Take(w) PROVE ReadyFromTask'
    <3>1. CASE TakeFirst(w)
      BY <3>1 DEF TakeFirst, Announce, ReadyFromTask
    <3>2. CASE TakeFromEmpty(w)
      BY <3>2, EmptyIsNotReady DEF TakeFromEmpty, ReadyFromTask
    <3> QED
      BY <2>2, <3>1, <3>2 DEF Take
  <2>3. ASSUME NEW w \in Worker, EndTake(w) PROVE ReadyFromTask'
    <3>1. dispatch' = NoDispatch
      BY <2>3 DEF EndTake, Unlock
    <3> QED
      BY <3>1 DEF ReadyFromTask, NoDispatch
  <2>11. ASSUME NEW x \in Thread, EndAdd(x) PROVE ReadyFromTask'
    <3>1. dispatch' = NoDispatch
      BY <2>11 DEF EndAdd, Unlock
    <3> QED
      BY <3>1 DEF ReadyFromTask, NoDispatch
  <2>4. ASSUME NEW w \in Worker, NEW t \in Task, TaskAdds(w, t) PROVE ReadyFromTask'
    <3>1. m_mutex' = w /\ pc'[w] = "adding"
      BY <1>0, <2>4, ThreadAssumption DEF TaskAdds, Add, AddTask, Lock, Goto, PlacesOK
    <3> QED
      BY <3>1 DEF ReadyFromTask
  \* An event that anybody hears is told during a call; what others add then is late.
  <2>5. ASSUME NEW x \in Caller \cup Producer, NEW t \in Task, OutsiderAdds(x, t)
        PROVE  ReadyFromTask'
    <3>1. dispatch'.left # {} => m_execMutex # NoThread
      <4>1. MarkReady(TRUE)
        BY <2>5 DEF OutsiderAdds, Add, AddTask
      <4>2. dispatch'.left \subseteq m_eventProcessors
        BY <4>1, ToldAreRegistered
      <4> QED
        BY <4>2, ThreadAssumption DEF Registered
    <3>2. m_execMutex # NoThread => late' # {}
      BY <2>5 DEF OutsiderAdds
    <3> QED
      BY <3>1, <3>2 DEF ReadyFromTask
  <2>6. ASSUME NEW x \in Thread, HandleEvent(x) PROVE ReadyFromTask'
    <3>1. dispatch'.left \subseteq dispatch.left /\ dispatch'.event = dispatch.event
      BY <1>0, <2>6 DEF HandleEvent, Deliver, QueueTypeOK
    <3>2. m_mutex' = m_mutex /\ late' = late /\ pc' = pc
      BY <2>6 DEF HandleEvent, Deliver
    <3> QED
      BY <3>1, <3>2, ReadyFrame
  <2>7. ASSUME NEW c \in Caller, Enter(c) PROVE ReadyFromTask'
    <3>1. dispatch' = dispatch /\ m_eventProcessors = {}
      BY <2>7, ThreadAssumption DEF Enter, Registered, queueVars
    <3> QED
      BY <3>1 DEF Registered, ReadyFromTask
  <2>8. ASSUME NEW c \in Caller,
               Register(c) \/ Unregister(c) \/ Leave(c) \/ \E w \in Worker : Spawn(c, w)
        PROVE  ReadyFromTask'
    <3>1. dispatch' = dispatch /\ m_mutex' = m_mutex /\ late' = late
      BY <2>8
      DEF Register, RegisterHandler, Unregister, UnregisterHandler, Leave, Spawn, queueVars
    <3>2. \A v \in Worker : pc[v] = "adding" => pc'[v] = "adding"
      BY <1>0, <2>8, ThreadAssumption
      DEF Register, Unregister, Leave, Spawn, Goto, PlacesOK
    <3> QED
      BY <3>1, <3>2, ReadyFrame
  <2>9. ASSUME NEW c \in Caller, Join(c) PROVE ReadyFromTask'
    BY <2>9, ReadyFrame DEF Join, queueVars
  <2>10. ASSUME NEW a \in Aborter, Terminate(a) \/ AbortNotify(a) \/ AbortLock(a)
         PROVE  ReadyFromTask'
    <3>1. dispatch' = dispatch /\ m_mutex' = m_mutex /\ late' = late
      BY <2>10 DEF Terminate, AbortNotify, AbortLock, queueVars
    <3>2. \A v \in Worker : pc[v] = "adding" => pc'[v] = "adding"
      BY <1>0, <2>10, ThreadAssumption DEF Terminate, AbortNotify, AbortLock, Goto, PlacesOK
    <3> QED
      BY <3>1, <3>2, ReadyFrame
  <2> QED
    BY <1>2, <2>1, <2>2, <2>3, <2>4, <2>5, <2>6, <2>7, <2>8, <2>9, <2>10, <2>11, StepCases
<1> QED
  BY <1>1, <1>2

-----------------------------------------------------------------------------
(* Once a worker has left, all have retired for good.                      *)

LEMMA RetiredFrame ==
    ASSUME AllRetired, NotRetired' \subseteq NotRetired, m_isReady' => m_isReady,
           m_terminate => m_terminate', late' = {} => late = {},
           \A w \in Worker : pc'[w] = "exited" => pc[w] = "exited"
    PROVE  AllRetired'
<1>1. ~m_terminate' => ~m_terminate
  OBVIOUS
<1> QED
  BY <1>1 DEF AllRetired

LEMMA AllRetiredStep ==
    ASSUME TypeOK, OneCall, Registered, Monitor, ActiveCount, ReadyFromTask, AllRetired,
           [Next]_vars
    PROVE  AllRetired'
<1>0. PlacesOK /\ DataOK
  BY DEF TypeOK
<1>1. CASE UNCHANGED vars
  BY <1>1, RetiredFrame DEF vars, execVars, NotRetired
<1>2. CASE Next
  <2>1. ASSUME NEW w \in Worker,
               \/ Take(w) \/ EndTake(w) \/ Finish(w) \/ Retire(w) \/ DecideToWait(w)
               \/ Block(w) \/ WakeUp(w) \/ SpuriousWakeUp(w) \/ \E t \in Task : TaskAdds(w, t)
        PROVE  AllRetired'
    <3>1. (m_isReady' => m_isReady) /\ m_terminate' = m_terminate /\ late' = late
      BY <2>1
      DEF Take, EndTake, Finish, Retire, DecideToWait, Block, WakeUp, SpuriousWakeUp,
          TaskAdds, Add, execVars
    <3>2. /\ NotRetired' \subseteq NotRetired
          /\ \A v \in Worker : pc'[v] = "exited" => pc[v] = "exited"
      BY <1>0, <2>1, ThreadAssumption
      DEF Take, EndTake, Finish, Retire, DecideToWait, Block, WakeUp, SpuriousWakeUp,
          TaskAdds, Add, Goto, NotRetired, PlacesOK, Monitor
    <3> QED
      BY <3>1, <3>2, RetiredFrame
  <2>2. ASSUME NEW w \in Worker, Loop(w) PROVE AllRetired'
    <3>1. CASE m_terminate
      BY <2>2, <3>1 DEF Loop, AllRetired, execVars
    <3>2. CASE ~m_terminate
      BY <1>0, <2>2, <3>2, ThreadAssumption, RetiredFrame
      DEF Loop, Goto, NotRetired, PlacesOK, execVars
    <3> QED
      BY <3>1, <3>2
  \* A worker goes back to work only for a Ready; otherwise it leaves, and the count was
  \* zero.
  <2>3. ASSUME NEW w \in Worker, Resume(w) PROVE AllRetired'
    <3>1. m_isReady' = m_isReady /\ m_terminate' = m_terminate /\ late' = late
      BY <2>3 DEF Resume
    <3>2. CASE m_isReady
      <4>1. \A v \in Worker : pc'[v] = "exited" => pc[v] = "exited"
        BY <1>0, <2>3, <3>2, ThreadAssumption DEF Resume, Goto, PlacesOK
      <4> QED
        BY <3>1, <3>2, <4>1 DEF AllRetired
    <3>3. CASE ~m_isReady /\ ~m_terminate
      <4>1. m_activeThreads = 0 /\ pc[w] = "check"
        BY <2>3, <3>3 DEF Resume, MayGoOn
      <4>2. PICK c \in Caller : Serving(c)
        BY <4>1 DEF OneCall, Serving
      <4>3. Cardinality(NotRetired) = 0
        BY <3>3, <4>1, <4>2 DEF ActiveCount
      <4>4. NotRetired = {}
        BY <4>3, NotRetiredType, WorkersFinite, FS_EmptySet
      <4>5. NotRetired' = {}
        BY <1>0, <2>3, <3>3, <4>4, ThreadAssumption DEF Resume, Goto, NotRetired, PlacesOK
      <4> QED
        BY <3>1, <3>3, <4>5 DEF AllRetired
    <3>4. CASE m_terminate
      BY <3>1, <3>4 DEF AllRetired
    <3> QED
      BY <3>2, <3>3, <3>4
  <2>4. ASSUME NEW x \in Caller \cup Producer, NEW t \in Task, OutsiderAdds(x, t)
        PROVE  AllRetired'
    <3>1. /\ m_isReady' = m_isReady /\ m_terminate' = m_terminate
          /\ NotRetired' \subseteq NotRetired
          /\ \A v \in Worker : pc'[v] = "exited" => pc[v] = "exited"
      BY <1>0, <2>4, ThreadAssumption
      DEF OutsiderAdds, Add, Goto, NotRetired, PlacesOK, execVars
    <3>2. late' = {} => late = {}
      BY <2>4 DEF OutsiderAdds
    <3> QED
      BY <3>1, <3>2, RetiredFrame
  <2>5. ASSUME NEW x \in Thread, EndAdd(x) PROVE AllRetired'
    BY <1>0, <2>5, ThreadAssumption, RetiredFrame
    DEF EndAdd, Goto, NotRetired, PlacesOK, execVars
  \* A Ready that could call a worker back comes from a task, or something is late.
  <2>6. ASSUME NEW x \in Thread, HandleEvent(x) PROVE AllRetired'
    <3>1. pc' = pc /\ m_terminate' = m_terminate /\ late' = late
      BY <2>6 DEF HandleEvent, HandleChangedState, execVars
    <3>2. CASE dispatch.event # "Ready"
      BY <2>6, <3>1, <3>2, RetiredFrame DEF HandleEvent, NotRetired, execVars
    <3>3. CASE dispatch.event = "Ready" /\ late = {}
      <4>1. PICK w \in Worker : pc[w] = "adding"
        BY <2>6, <3>3 DEF HandleEvent, Deliver, ReadyFromTask
      <4>2. NotRetired # {}
        BY <4>1 DEF NotRetired
      <4> QED
        BY <3>1, <3>3, <4>2 DEF AllRetired
    <3>4. CASE late # {}
      BY <3>1, <3>4 DEF AllRetired
    <3> QED
      BY <3>2, <3>3, <3>4
  <2>7. ASSUME NEW c \in Caller, Enter(c) PROVE AllRetired'
    BY <1>0, <2>7, ThreadAssumption DEF Enter, Goto, AllRetired, OneCall, PlacesOK
  <2>8. ASSUME NEW c \in Caller,
               Register(c) \/ Unregister(c) \/ Leave(c) \/ \E w \in Worker : Spawn(c, w)
        PROVE  AllRetired'
    <3>1. m_isReady' = m_isReady /\ m_terminate' = m_terminate /\ late' = late
      BY <2>8 DEF Register, Unregister, Leave, Spawn, execVars
    <3>2. /\ NotRetired' \subseteq NotRetired
          /\ \A v \in Worker : pc'[v] = "exited" => pc[v] = "exited"
      BY <1>0, <2>8, ThreadAssumption
      DEF Register, Unregister, Leave, Spawn, Goto, NotRetired, PlacesOK
    <3> QED
      BY <3>1, <3>2, RetiredFrame
  <2>9. ASSUME NEW c \in Caller, Join(c) PROVE AllRetired'
    BY <2>9, ThreadAssumption DEF Join, AllRetired
  <2>10. ASSUME NEW a \in Aborter, Terminate(a) \/ AbortNotify(a) \/ AbortLock(a)
         PROVE  AllRetired'
    <3>1. m_isReady' = m_isReady /\ (m_terminate => m_terminate') /\ late' = late
      BY <2>10 DEF Terminate, AbortNotify, AbortLock, execVars
    <3>2. /\ NotRetired' \subseteq NotRetired
          /\ \A v \in Worker : pc'[v] = "exited" => pc[v] = "exited"
      BY <1>0, <2>10, ThreadAssumption
      DEF Terminate, AbortNotify, AbortLock, Goto, NotRetired, PlacesOK
    <3> QED
      BY <3>1, <3>2, RetiredFrame
  <2> QED
    BY <1>2, <2>1, <2>2, <2>3, <2>4, <2>5, <2>6, <2>7, <2>8, <2>9, <2>10, StepCases
<1> QED
  BY <1>1, <1>2

\* Unless the executor is aborted or fed from outside, a worker leaves only when no worker
\* runs a task or is about to take one: no task can come any more.
THEOREM ExitIsRight == Spec => []NoEarlyExit
<1>1. Init => ReadyFromTask /\ AllRetired
  BY ThreadAssumption DEF Init, QueueInit, NoDispatch, ReadyFromTask, AllRetired
<1>2. Inv /\ ActiveCount /\ ReadyFromTask /\ AllRetired /\ [Next]_vars
        => ReadyFromTask' /\ AllRetired'
  BY ReadyStep, AllRetiredStep DEF Inv
<1>3. AllRetired => NoEarlyExit
  BY DEF AllRetired, NoEarlyExit, AtWork, NotRetired
<1> QED
  BY <1>1, <1>2, <1>3, Invariant, CountIsRight, PTL DEF Spec

-----------------------------------------------------------------------------
(* The executor implements the pool of tasks that TaskPool specifies: an     *)
(* initial state of the executor is one of the pool, and every step of a     *)
(* thread is a step of the pool or none.                                     *)

PoolInv == Inv /\ TasksHeld /\ EachOnce /\ AbortIsFinal

-----------------------------------------------------------------------------
(* The rest of the invariant.                                              *)

\* The steps of a worker that leave every task where it is.
LEMMA HeldFrame ==
    ASSUME TasksHeld, task' = task,
           \A w \in Worker : pc'[w] \in {"run", "adding"} => task[w] # NoTask,
           \A w \in Worker : pc[w] \in {"taking", "run", "adding"} /\ task[w] # NoTask
                                => pc'[w] \in {"taking", "run", "adding"}
    PROVE  TasksHeld'
  BY DEF TasksHeld

LEMMA TasksHeldStep ==
    ASSUME TypeOK, OneCall, TasksHeld, [Next]_vars
    PROVE  TasksHeld'
<1>0. PlacesOK /\ QueueTypeOK
  BY DEF TypeOK
<1>1. CASE UNCHANGED vars
  BY <1>1 DEF vars, queueVars, TasksHeld
<1>2. CASE Next
  <2>1. ASSUME NEW w \in Worker,
               \/ Loop(w) \/ EndTake(w) \/ Retire(w) \/ Resume(w) \/ DecideToWait(w)
               \/ Block(w) \/ WakeUp(w) \/ SpuriousWakeUp(w) \/ \E t \in Task : TaskAdds(w, t)
        PROVE  TasksHeld'
    <3>1. task' = task
      BY <2>1
      DEF Loop, EndTake, Retire, Resume, DecideToWait, Block, WakeUp, SpuriousWakeUp,
          TaskAdds, Add, AddTask, Unlock, queueVars
    <3> QED
      BY <1>0, <2>1, <3>1, ThreadAssumption, HeldFrame
      DEF Loop, EndTake, Retire, Resume, DecideToWait, Block, WakeUp, SpuriousWakeUp,
          TaskAdds, Add, Goto, PlacesOK, TasksHeld
  <2>2. ASSUME NEW w \in Worker, Take(w) PROVE TasksHeld'
    <3>1. \A v \in Worker \ {w} : task'[v] = task[v] /\ pc'[v] = pc[v]
      BY <1>0, <2>2, ThreadAssumption
      DEF Take, TakeFirst, TakeFromEmpty, Goto, PlacesOK, QueueTypeOK
    <3>2. pc'[w] = "taking"
      BY <1>0, <2>2, ThreadAssumption DEF Take, Goto, PlacesOK
    <3> QED
      BY <3>1, <3>2 DEF TasksHeld
  <2>3. ASSUME NEW w \in Worker, Finish(w) PROVE TasksHeld'
    <3>1. \A v \in Worker \ {w} : task'[v] = task[v] /\ pc'[v] = pc[v]
      BY <1>0, <2>3, ThreadAssumption DEF Finish, TaskDone, Goto, PlacesOK, QueueTypeOK
    <3>2. pc'[w] = "loop" /\ task'[w] = NoTask
      BY <1>0, <2>3, ThreadAssumption DEF Finish, TaskDone, Goto, PlacesOK, QueueTypeOK
    <3> QED
      BY <3>1, <3>2 DEF TasksHeld
  <2>4. ASSUME NEW x \in Caller \cup Producer, NEW t \in Task, OutsiderAdds(x, t)
        PROVE  TasksHeld'
    BY <1>0, <2>4, ThreadAssumption, HeldFrame
    DEF OutsiderAdds, Add, AddTask, Goto, PlacesOK, TasksHeld
  <2>5. ASSUME NEW x \in Thread, EndAdd(x) PROVE TasksHeld'
    <3>1. task' = task /\ \A w \in Worker : pc'[w] = pc[w] \/ (pc[w] = "adding" /\ pc'[w] = "run")
      BY <1>0, <2>5, ThreadAssumption DEF EndAdd, Unlock, Goto, PlacesOK
    <3> QED
      BY <3>1 DEF TasksHeld
  <2>6. ASSUME NEW x \in Thread, HandleEvent(x) PROVE TasksHeld'
    BY <2>6 DEF HandleEvent, Deliver, TasksHeld
  <2>7. ASSUME NEW c \in Caller, NEW w \in Worker, Spawn(c, w) PROVE TasksHeld'
    <3>1. task' = task /\ \A v \in Worker : pc'[v] = pc[v] \/ (pc[v] = "unborn" /\ pc'[v] = "loop")
      BY <1>0, <2>7, ThreadAssumption DEF Spawn, PlacesOK, queueVars
    <3> QED
      BY <3>1 DEF TasksHeld
  <2>8. ASSUME NEW c \in Caller, Join(c) PROVE TasksHeld'
    <3>1. task' = task /\ \A v \in Worker : pc[v] = "exited" /\ pc'[v] = "unborn"
      BY <1>0, <2>8, ThreadAssumption DEF Join, PlacesOK, queueVars
    <3> QED
      BY <3>1 DEF TasksHeld
  <2>9. ASSUME NEW c \in Caller, Enter(c) \/ Register(c) \/ Unregister(c) \/ Leave(c)
        PROVE  TasksHeld'
    <3>1. task' = task /\ \A v \in Worker : pc'[v] = pc[v]
      BY <1>0, <2>9, ThreadAssumption
      DEF Enter, Register, Unregister, Leave, RegisterHandler, UnregisterHandler, Goto,
          PlacesOK, queueVars
    <3> QED
      BY <3>1 DEF TasksHeld
  <2>10. ASSUME NEW a \in Aborter, Terminate(a) \/ AbortNotify(a) \/ AbortLock(a)
         PROVE  TasksHeld'
    <3>1. task' = task /\ \A v \in Worker : pc'[v] = pc[v]
      BY <1>0, <2>10, ThreadAssumption
      DEF Terminate, AbortNotify, AbortLock, Goto, PlacesOK, queueVars
    <3> QED
      BY <3>1 DEF TasksHeld
  <2> QED
    BY <1>2, <2>1, <2>2, <2>3, <2>4, <2>5, <2>6, <2>7, <2>8, <2>9, <2>10, StepCases
<1> QED
  BY <1>1, <1>2

\* Adding a task to the queue, and taking the first, keep the tasks apart.
LEMMA AddKeepsApart ==
    ASSUME TypeOK, EachOnce, NEW x \in Thread, NEW t \in Task, Add(x, t)
    PROVE  EachOnce'
<1>1. m_queue' = Append(m_queue, t) /\ fresh' = fresh \ {t} /\ task' = task /\ t \in fresh
  BY DEF Add, AddTask
<1>2. QueueTypeOK /\ fresh \subseteq Task
  BY DEF TypeOK, DataOK
<1>3. Queued' = Queued \cup {t}
  BY <1>1, <1>2, QueuedAfterAdd
<1>4. t \notin Queued /\ \A w \in Worker : task[w] # t
  BY <1>1 DEF EachOnce
<1>5. \A i, j \in DOMAIN m_queue' : m_queue'[i] = m_queue'[j] => i = j
  <2>1. /\ Len(m_queue) \in Nat /\ DOMAIN m_queue = 1..Len(m_queue)
        /\ DOMAIN m_queue' = 1..(Len(m_queue) + 1)
        /\ \A i \in 1..Len(m_queue) : m_queue'[i] = m_queue[i]
        /\ m_queue'[Len(m_queue) + 1] = t
    BY <1>1, <1>2 DEF QueueTypeOK
  <2>2. \A i \in 1..Len(m_queue) : m_queue'[i] # t
    BY <1>4, <2>1 DEF Queued
  <2>3. \A i \in DOMAIN m_queue' : i \in 1..Len(m_queue) \/ i = Len(m_queue) + 1
    BY <2>1
  <2>4. \A i, j \in 1..Len(m_queue) : m_queue[i] = m_queue[j] => i = j
    BY <2>1 DEF EachOnce
  <2> QED
    BY <2>1, <2>2, <2>3, <2>4
<1>6. Queued' \cap fresh' = {} /\ \A w \in Worker : task'[w] \notin Queued' \cup fresh'
  BY <1>1, <1>3, <1>4 DEF EachOnce
<1>7. \A v, w \in Worker : task'[v] = task'[w] /\ task'[v] # NoTask => v = w
  BY <1>1 DEF EachOnce
<1> QED
  BY <1>5, <1>6, <1>7 DEF EachOnce

LEMMA TakeKeepsApart ==
    ASSUME TypeOK, EachOnce, NEW w \in Worker, Take(w), m_queue # << >>
    PROVE  /\ EachOnce'
           /\ task' = [task EXCEPT ![w] = Head(m_queue)]
           /\ Head(m_queue) \in Task
<1>1. QueueTypeOK /\ fresh \subseteq Task
  BY DEF TypeOK, DataOK
<1>2. /\ m_queue' = Tail(m_queue) /\ fresh' = fresh
      /\ task' = [task EXCEPT ![w] = Head(m_queue)]
  BY DEF Take, TakeFirst, TakeFromEmpty
<1>3. /\ Len(m_queue) \in Nat \ {0} /\ Len(m_queue') = Len(m_queue) - 1
      /\ DOMAIN m_queue = 1..Len(m_queue) /\ DOMAIN m_queue' = 1..Len(m_queue')
      /\ \A i \in 1..Len(m_queue') : m_queue'[i] = m_queue[i + 1]
      /\ Head(m_queue) = m_queue[1] /\ m_queue[1] \in Task
  BY <1>1, <1>2 DEF QueueTypeOK
<1>4. Queued' \subseteq Queued /\ Head(m_queue) \in Queued /\ Head(m_queue) \notin Queued'
  <2>1. Head(m_queue) \in Queued
    BY <1>3 DEF Queued
  <2>2. ASSUME NEW i \in DOMAIN m_queue' PROVE m_queue'[i] # Head(m_queue)
    BY <1>3, <2>2 DEF EachOnce
  <2> QED
    BY <1>1, <1>2, <2>1, <2>2, QueuedAfterTake DEF Queued
<1>5. \A i, j \in DOMAIN m_queue' : m_queue'[i] = m_queue'[j] => i = j
  BY <1>3 DEF EachOnce
<1>6. task'[w] = Head(m_queue) /\ \A v \in Worker \ {w} : task'[v] = task[v]
  BY <1>1, <1>2, ThreadAssumption DEF QueueTypeOK
<1>7. \A v \in Worker : task[v] # Head(m_queue)
  BY <1>4 DEF EachOnce
<1>8. Queued' \cap fresh' = {} /\ \A v \in Worker : task'[v] \notin Queued' \cup fresh'
  BY <1>2, <1>4, <1>6 DEF EachOnce
<1>9. \A u, v \in Worker : task'[u] = task'[v] /\ task'[u] # NoTask => u = v
  BY <1>6, <1>7 DEF EachOnce
<1> QED
  BY <1>2, <1>3, <1>5, <1>8, <1>9 DEF EachOnce

LEMMA EachOnceStep ==
    ASSUME TypeOK, EachOnce, [Next]_vars
    PROVE  EachOnce'
<1>0. PlacesOK /\ QueueTypeOK /\ DataOK
  BY DEF TypeOK
<1>1. CASE m_queue' = m_queue /\ task' = task /\ fresh' = fresh
  BY <1>1 DEF EachOnce, Queued
<1>2. ASSUME NEW w \in Worker, Take(w) PROVE EachOnce'
  <2>1. CASE m_queue = << >>
    BY <1>1, <1>2, <2>1 DEF Take, TakeFirst, TakeFromEmpty
  <2> QED
    BY <1>2, <2>1, TakeKeepsApart
<1>3. ASSUME NEW w \in Worker, Finish(w) PROVE EachOnce'
  <2>1. m_queue' = m_queue /\ fresh' = fresh /\ Queued' = Queued
    BY <1>3 DEF Finish, TaskDone, Queued
  <2>2. task'[w] = NoTask /\ \A v \in Worker \ {w} : task'[v] = task[v]
    BY <1>0, <1>3, ThreadAssumption DEF Finish, TaskDone, QueueTypeOK
  <2>3. NoTask \notin Queued \cup fresh
    BY <1>0, TaskAssumption DEF QueueTypeOK, DataOK, Queued
  <2> QED
    BY <2>1, <2>2, <2>3 DEF EachOnce
<1>4. ASSUME NEW x \in Thread, NEW t \in Task, TaskAdds(x, t) \/ OutsiderAdds(x, t)
      PROVE  EachOnce'
  BY <1>4, AddKeepsApart DEF TaskAdds, OutsiderAdds
<1>5. CASE UNCHANGED vars
  BY <1>1, <1>5 DEF vars, queueVars
<1>6. CASE Next
  <2>1. ASSUME NEW w \in Worker,
               \/ Loop(w) \/ EndTake(w) \/ Retire(w) \/ Resume(w) \/ DecideToWait(w)
               \/ Block(w) \/ WakeUp(w) \/ SpuriousWakeUp(w)
        PROVE  EachOnce'
    BY <1>1, <2>1
    DEF Loop, EndTake, Retire, Resume, DecideToWait, Block, WakeUp, SpuriousWakeUp, Unlock,
        queueVars
  <2>2. ASSUME NEW x \in Thread, EndAdd(x) \/ HandleEvent(x) PROVE EachOnce'
    BY <1>1, <2>2 DEF EndAdd, HandleEvent, Unlock, Deliver
  <2>3. ASSUME NEW c \in Caller,
               \/ Enter(c) \/ Register(c) \/ Join(c) \/ Unregister(c) \/ Leave(c)
               \/ \E w \in Worker : Spawn(c, w)
        PROVE  EachOnce'
    BY <1>1, <2>3
    DEF Enter, Register, Join, Unregister, Leave, Spawn, RegisterHandler, UnregisterHandler,
        queueVars
  <2>4. ASSUME NEW a \in Aborter, Terminate(a) \/ AbortNotify(a) \/ AbortLock(a)
        PROVE  EachOnce'
    BY <1>1, <2>4 DEF Terminate, AbortNotify, AbortLock, queueVars
  <2> QED
    BY <1>2, <1>3, <1>4, <1>6, <2>1, <2>2, <2>3, <2>4, StepCases, ThreadAssumption
<1> QED
  BY <1>5, <1>6

\* A worker that meets m_terminate leaves; none is at work when abort() gets m_execMutex.
LEMMA AbortIsFinalStep ==
    ASSUME TypeOK, OneCall, TasksHeld, AbortIsFinal, [Next]_vars
    PROVE  AbortIsFinal'
<1>0. PlacesOK /\ FlagsOK
  BY DEF TypeOK
<1>1. CASE UNCHANGED vars
  BY <1>1 DEF vars, execVars, AbortIsFinal
<1>2. CASE Next
  <2>1. ASSUME NEW w \in Worker,
               \/ Loop(w) \/ Take(w) \/ EndTake(w) \/ Finish(w)
               \/ Retire(w) \/ Resume(w) \/ DecideToWait(w) \/ Block(w)
               \/ WakeUp(w) \/ SpuriousWakeUp(w) \/ \E t \in Task : TaskAdds(w, t)
        PROVE  AbortIsFinal'
    <3>1. m_terminate' = m_terminate /\ \A x \in Thread \ {w} : pc'[x] = pc[x]
      BY <1>0, <2>1
      DEF Loop, Take, EndTake, Finish, Retire, Resume, DecideToWait, Block, WakeUp,
          SpuriousWakeUp, TaskAdds, Add, Goto, PlacesOK, execVars
    <3>2. pc[w] \in {"unborn", "loop", "exited"} /\ m_terminate
             => pc'[w] \in {"unborn", "loop", "exited"}
      BY <1>0, <2>1, ThreadAssumption
      DEF Loop, Take, EndTake, Finish, Retire, Resume, DecideToWait, Block, WakeUp,
          SpuriousWakeUp, TaskAdds, Add, Goto, PlacesOK
    <3> QED
      BY <3>1, <3>2, ThreadAssumption DEF AbortIsFinal
  <2>2. ASSUME NEW x \in Thread \ (Worker \cup Aborter), NEW l,
               m_terminate' = m_terminate, Goto(x, l)
        PROVE  AbortIsFinal'
    BY <1>0, <2>2, ThreadAssumption DEF Goto, AbortIsFinal, PlacesOK
  <2>3. ASSUME NEW x \in Caller \cup Producer, NEW t \in Task, OutsiderAdds(x, t)
        PROVE  AbortIsFinal'
    BY <2>2, <2>3, ThreadAssumption DEF OutsiderAdds, Add, execVars
  <2>4. ASSUME NEW x \in Thread, EndAdd(x) PROVE AbortIsFinal'
    BY <1>0, <2>4, ThreadAssumption
    DEF EndAdd, Goto, AbortIsFinal, PlacesOK, AborterPC, execVars
  <2>5. ASSUME NEW x \in Thread, HandleEvent(x) PROVE AbortIsFinal'
    BY <2>5 DEF HandleEvent, HandleChangedState, AbortIsFinal, execVars
  <2>6. ASSUME NEW c \in Caller, Enter(c) \/ Register(c) \/ Unregister(c) \/ Leave(c)
        PROVE  AbortIsFinal'
    BY <2>2, <2>6, ThreadAssumption DEF Enter, Register, Unregister, Leave, execVars
  <2>7. ASSUME NEW c \in Caller, NEW w \in Worker, Spawn(c, w) PROVE AbortIsFinal'
    BY <1>0, <2>7, ThreadAssumption DEF Spawn, AbortIsFinal, PlacesOK, execVars
  <2>8. ASSUME NEW c \in Caller, Join(c) PROVE AbortIsFinal'
    BY <1>0, <2>8, ThreadAssumption DEF Join, AbortIsFinal, PlacesOK, execVars
  <2>9. ASSUME NEW a \in Aborter, Terminate(a) \/ AbortNotify(a) PROVE AbortIsFinal'
    BY <1>0, <2>9, ThreadAssumption
    DEF Terminate, AbortNotify, Goto, AbortIsFinal, PlacesOK
  <2>10. ASSUME NEW a \in Aborter, AbortLock(a) PROVE AbortIsFinal'
    <3>1. \A w \in Worker : pc[w] = "unborn"
      BY <2>10, ThreadAssumption DEF AbortLock, OneCall
    <3> QED
      BY <1>0, <2>10, <3>1, ThreadAssumption
      DEF AbortLock, Goto, AbortIsFinal, PlacesOK, execVars
  <2> QED
    BY <1>2, <2>1, <2>3, <2>4, <2>5, <2>6, <2>7, <2>8, <2>9, <2>10, StepCases
<1> QED
  BY <1>1, <1>2

\* The strengthened invariant holds from the start and is kept by every step.
LEMMA InitPoolInv == Init => PoolInv
<1> SUFFICES ASSUME Init PROVE PoolInv
  OBVIOUS
<1>1. Inv
  BY InitInv
<1>2. TasksHeld /\ AbortIsFinal
  BY ThreadAssumption DEF Init, QueueInit, TasksHeld, AbortIsFinal
<1>3. m_queue = << >> /\ Queued = {} /\ fresh = Task /\ \A w \in Worker : task[w] = NoTask
  BY ThreadAssumption DEF Init, QueueInit, Queued
<1>4. EachOnce
  BY <1>3, TaskAssumption DEF EachOnce
<1> QED
  BY <1>1, <1>2, <1>4 DEF PoolInv

LEMMA PoolInvStep ==
    ASSUME PoolInv, [Next]_vars
    PROVE  PoolInv'
<1>1. Inv'
  BY InvStep DEF PoolInv
<1> QED
  BY <1>1, TasksHeldStep, EachOnceStep, AbortIsFinalStep DEF PoolInv, Inv

-----------------------------------------------------------------------------
(* The mapping.                                                            *)

Executing == {task[w] : w \in Worker} \ {NoTask}

Aborting == IF \E a \in Aborter : pc[a] = "aborted" THEN "done"
            ELSE IF m_terminate THEN "asked" ELSE "no"

LEMMA InitIsPoolInit == Init => Pool!Init
<1> SUFFICES ASSUME Init PROVE Pool!Init
  OBVIOUS
<1>1. Executing = {}
  BY ThreadAssumption DEF Init, QueueInit, Executing
<1>2. Aborting = "no"
  BY ThreadAssumption DEF Init, Aborting
<1> QED
  BY <1>1, <1>2 DEF Init, QueueInit, Pool!Init, Executing, Aborting

\* A step that the pool does not see.
LEMMA Unseen ==
    ASSUME m_queue' = m_queue, Executing' = Executing, fresh' = fresh, late' = late,
           m_execMutex' = m_execMutex, result' = result, Aborting' = Aborting
    PROVE  UNCHANGED Pool!poolVars
  BY DEF Pool!poolVars, Executing, Aborting

\* What the pool sees of the aborters: nothing changes while they stay where they are.
LEMMA AbortingStays ==
    ASSUME PlacesOK, m_terminate' = m_terminate,
           \A a \in Aborter : pc'[a] = pc[a]
    PROVE  Aborting' = Aborting
  BY DEF Aborting

LEMMA ExecutingStays == ASSUME task' = task PROVE Executing' = Executing
  BY DEF Executing

LEMMA AddIsSubmit ==
    ASSUME PoolInv, NEW t \in Task,
           \/ \E w \in Worker : TaskAdds(w, t)
           \/ \E x \in Caller \cup Producer : OutsiderAdds(x, t)
    PROVE  Pool!SubmitInside(t) \/ Pool!SubmitOutside(t)
<1>0. PlacesOK /\ TasksHeld
  BY DEF PoolInv, Inv, TypeOK
<1>1. PICK x \in Worker \cup Caller \cup Producer :
          Add(x, t) /\ ((x \in Worker /\ TaskAdds(x, t)) \/ (x \notin Worker /\ OutsiderAdds(x, t)))
  BY ThreadAssumption DEF TaskAdds, OutsiderAdds
<1>2. /\ t \in fresh /\ fresh' = fresh \ {t} /\ m_queue' = Append(m_queue, t)
      /\ task' = task /\ m_terminate' = m_terminate /\ m_execMutex' = m_execMutex
      /\ result' = result /\ \A a \in Aborter : pc'[a] = pc[a]
  BY <1>0, <1>1, ThreadAssumption DEF Add, AddTask, Goto, PlacesOK, execVars
<1>3. Executing' = Executing /\ Aborting' = Aborting
  BY <1>0, <1>2, ExecutingStays, AbortingStays
<1>4. CASE x \in Worker
  <2>1. late' = late /\ Executing # {}
    BY <1>0, <1>1, <1>4, ThreadAssumption DEF TaskAdds, TasksHeld, Executing
  <2> QED
    BY <1>2, <1>3, <2>1 DEF Pool!SubmitInside, Executing, Aborting
<1>5. CASE x \notin Worker
  <2>1. late' = IF m_execMutex = NoThread THEN late ELSE late \cup {t}
    BY <1>1, <1>5 DEF OutsiderAdds
  <2> QED
    BY <1>2, <1>3, <2>1 DEF Pool!SubmitOutside, Executing, Aborting
<1> QED
  BY <1>4, <1>5

\* The pool counts as the executor does.
LEMMA SameCardinality == \A S : Pool!Cardinality(S) = Cardinality(S)
  BY DEF Pool!Cardinality, Cardinality, Pool!IsFiniteSet, IsFiniteSet

\* A worker that takes a task has none, so the others execute less than Size tasks.
LEMMA RoomForOne ==
    ASSUME NEW w \in Worker, task[w] = NoTask
    PROVE  Cardinality(Executing) < Cardinality(Worker)
<1> DEFINE Others == Worker \ {w}
           Held == {task[v] : v \in Others}
<1>1. IsFiniteSet(Others) /\ Cardinality(Others) = Cardinality(Worker) - 1
      /\ Cardinality(Worker) \in Nat
  BY ThreadAssumption, FS_RemoveElement, FS_CardinalityType
<1>2. [v \in Others |-> task[v]] \in Surjection(Others, Held)
  BY DEF Surjection
<1>3. IsFiniteSet(Held) /\ Cardinality(Held) <= Cardinality(Others)
  BY ONLY <1>1, <1>2, FS_Surjection
<1>4. Executing \in SUBSET Held
  BY DEF Executing
<1>5. Cardinality(Executing) <= Cardinality(Held) /\ Cardinality(Executing) \in Nat
      /\ Cardinality(Held) \in Nat /\ Cardinality(Others) \in Nat
  BY <1>1, <1>3, <1>4, FS_Subset, FS_CardinalityType
<1> QED
  BY <1>1, <1>3, <1>5

LEMMA TakeIsStart ==
    ASSUME PoolInv, NEW w \in Worker, Take(w)
    PROVE  Pool!Start \/ UNCHANGED Pool!poolVars
<1>0. /\ TypeOK /\ PlacesOK /\ QueueTypeOK /\ OneCall /\ TasksHeld /\ EachOnce /\ AbortIsFinal
  BY DEF PoolInv, Inv, TypeOK
<1>1. /\ pc[w] = "take" /\ task[w] = NoTask
      /\ fresh' = fresh /\ late' = late /\ m_execMutex' = m_execMutex /\ result' = result
      /\ m_terminate' = m_terminate /\ \A a \in Aborter : pc'[a] = pc[a]
  BY <1>0, ThreadAssumption DEF Take, TasksHeld, Goto, PlacesOK, execVars
<1>2. Aborting' = Aborting
  BY <1>0, <1>1, AbortingStays
<1>3. CASE m_queue = << >>
  <2>1. m_queue' = m_queue /\ task' = task
    BY <1>3 DEF Take, TakeFirst, TakeFromEmpty
  <2> QED
    BY <1>1, <1>2, <2>1, ExecutingStays, Unseen
<1>4. CASE m_queue # << >>
  <2>1. task' = [task EXCEPT ![w] = Head(m_queue)] /\ Head(m_queue) \in Task
    BY <1>0, <1>4, TakeKeepsApart
  <2>2. m_queue' = Tail(m_queue)
    BY <1>4 DEF Take, TakeFirst, TakeFromEmpty
  <2>3. task'[w] = Head(m_queue) /\ \A v \in Worker \ {w} : task'[v] = task[v]
    BY <1>0, <2>1, ThreadAssumption DEF QueueTypeOK
  <2>4. Executing' = Executing \cup {Head(m_queue)}
    BY <1>1, <2>1, <2>3, TaskAssumption DEF Executing
  <2>5. Aborting # "done"
    BY <1>0, <1>1 DEF AbortIsFinal, Aborting
  <2>6. m_execMutex # NoThread
    BY <1>0, <1>1, ThreadAssumption DEF OneCall
  <2>7. Pool!Cardinality(Executing) < Cardinality(Worker)
    BY <1>1, RoomForOne, SameCardinality
  <2>8. /\ fresh' = fresh /\ late' = late /\ m_execMutex' = m_execMutex /\ result' = result
        /\ Aborting' = Aborting
    BY <1>1, <1>2
  <2> QED
    BY <1>4, <2>2, <2>4, <2>5, <2>6, <2>7, <2>8 DEF Pool!Start, Executing, Aborting
<1> QED
  BY <1>3, <1>4

LEMMA FinishIsFinish ==
    ASSUME PoolInv, NEW w \in Worker, Finish(w)
    PROVE  \E t \in Task : Pool!Finish(t)
<1>0. PlacesOK /\ QueueTypeOK /\ TasksHeld /\ EachOnce
  BY DEF PoolInv, Inv, TypeOK
<1>1. /\ pc[w] = "run" /\ task[w] # NoTask
      /\ m_queue' = m_queue /\ fresh' = fresh /\ late' = late /\ m_execMutex' = m_execMutex
      /\ result' = [result EXCEPT ![m_execMutex] = "Completed"]
      /\ m_terminate' = m_terminate /\ \A a \in Aborter : pc'[a] = pc[a]
  BY <1>0, ThreadAssumption DEF Finish, TaskDone, TasksHeld, Goto, PlacesOK
<1>2. Aborting' = Aborting
  BY <1>0, <1>1, AbortingStays
<1>3. task'[w] = NoTask /\ \A v \in Worker \ {w} : task'[v] = task[v] /\ task[v] # task[w]
  BY <1>0, <1>1, ThreadAssumption DEF Finish, TaskDone, QueueTypeOK, EachOnce
<1>4. task[w] \in Executing /\ Executing' = Executing \ {task[w]}
  BY <1>1, <1>3 DEF Executing
<1>5. task[w] \in Task
  BY <1>0, <1>1, ThreadAssumption DEF QueueTypeOK
<1>6. PICK t \in Task : t = task[w]
  BY <1>5
<1>7. Pool!Finish(t)
  BY <1>1, <1>2, <1>4, <1>6 DEF Pool!Finish, Executing, Aborting
<1> QED
  BY <1>7

LEMMA EnterIsCall ==
    ASSUME PoolInv, NEW c \in Caller, Enter(c)
    PROVE  Pool!Call(c)
<1>1. PlacesOK
  BY DEF PoolInv, Inv, TypeOK
<1>2. /\ task' = task /\ m_terminate' = m_terminate /\ \A a \in Aborter : pc'[a] = pc[a]
  BY <1>1, ThreadAssumption DEF Enter, Goto, PlacesOK, queueVars
<1>3. Executing' = Executing /\ Aborting' = Aborting
  BY <1>1, <1>2, ExecutingStays, AbortingStays
<1> QED
  BY <1>3 DEF Enter, queueVars, Pool!Call, Executing, Aborting

\* The call returns when no task is left that it owes, and no worker either.
LEMMA LeaveIsReturn ==
    ASSUME PoolInv, NEW c \in Caller, Leave(c)
    PROVE  Pool!Return
<1>0. PlacesOK /\ OneCall /\ TasksHeld /\ NoTaskStranded /\ FlagsOK
  BY DEF PoolInv, Inv, TypeOK
<1>1. /\ pc[c] = "leave" /\ m_execMutex' = NoThread
      /\ m_queue' = m_queue /\ task' = task /\ fresh' = fresh /\ late' = late
      /\ result' = result /\ m_terminate' = m_terminate
      /\ \A a \in Aborter : pc'[a] = pc[a]
  BY <1>0, ThreadAssumption DEF Leave, Goto, PlacesOK, queueVars
<1>2. Executing' = Executing /\ Aborting' = Aborting
  BY <1>0, <1>1, ExecutingStays, AbortingStays
<1>3. m_execMutex = c /\ c # NoThread
  BY <1>0, <1>1, ThreadAssumption DEF OneCall
<1>4. Executing = {}
  BY <1>0, <1>1, <1>3 DEF OneCall, TasksHeld, Executing
<1>5. Aborting = "no" => Queued \subseteq late
  BY <1>0, <1>1 DEF Aborting, NoTaskStranded, Owed
<1>6. Pool!Waiting = Queued
  BY DEF Pool!Waiting, Queued
<1> QED
  BY <1>1, <1>2, <1>3, <1>4, <1>5, <1>6 DEF Pool!Return, Executing, Aborting

LEMMA AbortIsAbort ==
    ASSUME PoolInv, NEW a \in Aborter, Terminate(a) \/ AbortNotify(a) \/ AbortLock(a)
    PROVE  Pool!Abort \/ Pool!AbortDone \/ UNCHANGED Pool!poolVars
<1>0. PlacesOK /\ FlagsOK /\ AbortIsFinal
  BY DEF PoolInv, Inv, TypeOK
<1>1. /\ m_queue' = m_queue /\ task' = task /\ fresh' = fresh /\ late' = late
      /\ result' = result /\ m_execMutex' = m_execMutex
  BY DEF Terminate, AbortNotify, AbortLock, queueVars, execVars
<1>2. Executing' = Executing
  BY <1>1, ExecutingStays
<1>3. CASE Terminate(a)
  <2>1. /\ m_terminate' = TRUE
        /\ \A b \in Aborter : pc'[b] = "aborted" <=> pc[b] = "aborted"
    BY <1>0, <1>3, ThreadAssumption DEF Terminate, Goto, PlacesOK
  <2>2. Aborting' = Aborting \/ (Aborting = "no" /\ Aborting' = "asked")
    BY <1>0, <2>1 DEF Aborting, FlagsOK, AbortIsFinal
  <2>3. CASE Aborting' = Aborting
    BY <1>1, <1>2, <2>3, Unseen
  <2>4. CASE Aborting = "no" /\ Aborting' = "asked"
    BY <1>1, <1>2, <2>4 DEF Pool!Abort, Executing, Aborting
  <2> QED
    BY <2>2, <2>3, <2>4
<1>4. CASE AbortNotify(a)
  <2>1. /\ m_terminate' = m_terminate
        /\ \A b \in Aborter : pc'[b] = "aborted" <=> pc[b] = "aborted"
    BY <1>0, <1>4, ThreadAssumption DEF AbortNotify, Goto, PlacesOK
  <2>2. Aborting' = Aborting
    BY <2>1 DEF Aborting
  <2> QED
    BY <1>1, <1>2, <2>2, Unseen
<1>5. CASE AbortLock(a)
  <2>1. /\ m_execMutex = NoThread /\ m_terminate /\ pc'[a] = "aborted"
    BY <1>0, <1>5, ThreadAssumption DEF AbortLock, Goto, PlacesOK, AbortIsFinal
  <2>2. Aborting' = "done" /\ Aborting \in {"asked", "done"}
    BY <2>1 DEF Aborting
  <2>3. CASE Aborting = "done"
    BY <1>1, <1>2, <2>2, <2>3, Unseen
  <2>4. CASE Aborting = "asked"
    BY <1>1, <1>2, <2>1, <2>2, <2>4 DEF Pool!AbortDone, Executing, Aborting
  <2> QED
    BY <2>2, <2>3, <2>4
<1> QED
  BY <1>3, <1>4, <1>5

\* Every step of a thread is a step of the pool, or the pool does not see it.
LEMMA StepIsPoolStep ==
    ASSUME PoolInv, [Next]_vars
    PROVE  [Pool!Next]_(Pool!poolVars)
<1>0. PlacesOK
  BY DEF PoolInv, Inv, TypeOK
<1>1. ASSUME m_queue' = m_queue, task' = task, fresh' = fresh, late' = late,
             m_execMutex' = m_execMutex, result' = result, m_terminate' = m_terminate,
             \A a \in Aborter : pc'[a] = pc[a]
      PROVE  UNCHANGED Pool!poolVars
  BY <1>0, <1>1, ExecutingStays, AbortingStays, Unseen
<1>2. CASE UNCHANGED vars
  BY <1>1, <1>2 DEF vars, queueVars, execVars
<1>3. CASE Next
  <2>1. ASSUME NEW w \in Worker,
               \/ Loop(w) \/ EndTake(w) \/ Retire(w) \/ Resume(w) \/ DecideToWait(w)
               \/ Block(w) \/ WakeUp(w) \/ SpuriousWakeUp(w)
        PROVE  UNCHANGED Pool!poolVars
    <3>1. \A a \in Aborter : pc'[a] = pc[a]
      BY <1>0, <2>1, ThreadAssumption
      DEF Loop, EndTake, Retire, Resume, DecideToWait, Block, WakeUp, SpuriousWakeUp, Goto,
          PlacesOK
    <3> QED
      BY <1>1, <2>1, <3>1
      DEF Loop, EndTake, Retire, Resume, DecideToWait, Block, WakeUp, SpuriousWakeUp, Unlock,
          queueVars, execVars
  <2>2. ASSUME NEW x \in Thread, EndAdd(x) \/ HandleEvent(x)
        PROVE  UNCHANGED Pool!poolVars
    <3>1. \A a \in Aborter : pc'[a] = pc[a]
      BY <1>0, <2>2, ThreadAssumption DEF EndAdd, HandleEvent, Goto, PlacesOK, AborterPC
    <3> QED
      BY <1>1, <2>2, <3>1
      DEF EndAdd, HandleEvent, HandleChangedState, Unlock, Deliver, execVars
  <2>3. ASSUME NEW c \in Caller,
               Register(c) \/ Join(c) \/ Unregister(c) \/ \E w \in Worker : Spawn(c, w)
        PROVE  UNCHANGED Pool!poolVars
    <3>1. \A a \in Aborter : pc'[a] = pc[a]
      BY <1>0, <2>3, ThreadAssumption DEF Register, Join, Unregister, Spawn, Goto, PlacesOK
    <3> QED
      BY <1>1, <2>3, <3>1
      DEF Register, Join, Unregister, Spawn, RegisterHandler, UnregisterHandler, queueVars,
          execVars
  <2>4. ASSUME NEW w \in Worker, NEW t \in Task, TaskAdds(w, t)
        PROVE  [Pool!Next]_(Pool!poolVars)
    BY <2>4, AddIsSubmit DEF Pool!Next
  <2>5. ASSUME NEW x \in Caller \cup Producer, NEW t \in Task, OutsiderAdds(x, t)
        PROVE  [Pool!Next]_(Pool!poolVars)
    BY <2>5, AddIsSubmit DEF Pool!Next
  <2>6. ASSUME NEW w \in Worker, Take(w) PROVE [Pool!Next]_(Pool!poolVars)
    BY <2>6, TakeIsStart DEF Pool!Next
  <2>7. ASSUME NEW w \in Worker, Finish(w) PROVE [Pool!Next]_(Pool!poolVars)
    BY <2>7, FinishIsFinish DEF Pool!Next
  <2>8. ASSUME NEW c \in Caller, Enter(c) \/ Leave(c) PROVE [Pool!Next]_(Pool!poolVars)
    BY <2>8, EnterIsCall, LeaveIsReturn DEF Pool!Next
  <2>9. ASSUME NEW a \in Aborter, Terminate(a) \/ AbortNotify(a) \/ AbortLock(a)
        PROVE  [Pool!Next]_(Pool!poolVars)
    BY <2>9, AbortIsAbort DEF Pool!Next
  <2> QED
    BY <1>3, <2>1, <2>2, <2>3, <2>4, <2>5, <2>6, <2>7, <2>8, <2>9, StepCases
<1> QED
  BY <1>2, <1>3

\* For any number of workers, callers, producers, aborters and tasks, the executor is a
\* pool of tasks: tasks start in order, once, inside a call, at most one for each worker;
\* a call returns when no task runs and, unless aborted, none is left but those added from
\* outside meanwhile; none starts once abort() has returned.
THEOREM ExecutorIsPool == Spec => ImplementsPool
<1>1. Init => Pool!Init
  BY InitIsPoolInit
<1>2. PoolInv /\ [Next]_vars => PoolInv'
  BY PoolInvStep
<1>3. PoolInv /\ [Next]_vars => [Pool!Next]_(Pool!poolVars)
  BY StepIsPoolStep
<1> QED
  BY <1>1, <1>2, <1>3, InitPoolInv, PTL DEF Spec, ImplementsPool, Pool!Spec
=============================================================================
