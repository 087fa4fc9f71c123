----------------------- MODULE TaskQueueWatcherProofs -----------------------
(***************************************************************************)
(* Theorems about TaskQueueWatcher for any number of producers, consumers, *)
(* waiters, controllers and tasks, in any mix of roles.                    *)
(***************************************************************************)
EXTENDS TaskQueueWatcher, FiniteSetTheorems, TLAPS

LEMMA Roles ==
    /\ Owner \in Thread /\ Watcher \in Handler
    /\ Producer \subseteq Thread /\ Consumer \subseteq Thread
    /\ Waiter \subseteq Thread /\ Controller \subseteq Thread
    /\ Owner \notin Producer \cup Consumer \cup Waiter \cup Controller
    /\ NoThread \notin Thread
  BY RoleAssumption

\* The steps, one by one: what a proof by cases on Next goes through.
LEMMA StepCases ==
    ASSUME Next
    PROVE  \/ \E x \in Producer \cup Consumer, t \in Task : Add(x, t)
           \/ \E x \in Thread : EndAdd(x) \/ HandleEvent(x)
           \/ \E x \in Consumer : Execute(x) \/ Loop(x) \/ Take(x) \/ EndTake(x) \/ Finish(x)
           \/ \E x \in Waiter : \/ \E state \in State, timed \in BOOLEAN :
                                       WaitForState(x, state, timed)
                                \/ AskSize(x) \/ CheckState(x) \/ WakeUp(x)
                                \/ SpuriousWakeUp(x) \/ TimeOut(x)
           \/ \E x \in Controller : Abort(x) \/ Stop(x) \/ Restart(x)
           \/ Construct \/ Count \/ Destroy \/ DestroyQueue
  BY DEF Next, Choice, ThreadStep

-----------------------------------------------------------------------------
(* What the operations of the queue keep, whoever calls them.              *)

\* What the operations of the queue do to its variables keeps their types.
LEMMA MarkReadyType ==
    ASSUME QueueTypeOK, NEW ready \in BOOLEAN, MarkReady(ready)
    PROVE  /\ m_readyState' \in BOOLEAN
           /\ dispatch' \in [event : Event, left : SUBSET Handler]
<1>1. CASE m_readyState # ready
  <2>1. PICK e \in Event : dispatch' = [event |-> e, left |-> m_eventProcessors]
    BY <1>1 DEF MarkReady, Announce, Event
  <2> QED
    BY <2>1 DEF MarkReady, QueueTypeOK
<1>2. CASE m_readyState = ready
  BY <1>2 DEF MarkReady, NoDispatch, Event
<1> QED
  BY <1>1, <1>2

\* Adding a task.
LEMMA AddTaskType ==
    ASSUME QueueTypeOK, NEW x \in Thread, NEW t \in Task, AddTask(x, t)
    PROVE  QueueTypeOK'
<1>1. MarkReady(TRUE)
  BY DEF AddTask
<1>2. m_readyState' \in BOOLEAN /\ dispatch' \in [event : Event, left : SUBSET Handler]
  BY <1>1, MarkReadyType
<1> QED
  BY <1>2 DEF QueueTypeOK, AddTask, Lock

\* Taking the first task, and finding the queue empty.
LEMMA TakeType ==
    ASSUME QueueTypeOK, NEW x \in Thread, TakeFirst(x) \/ TakeFromEmpty(x)
    PROVE  QueueTypeOK'
<1>1. CASE TakeFromEmpty(x)
  <2>1. MarkReady(FALSE)
    BY <1>1 DEF TakeFromEmpty
  <2>2. m_readyState' \in BOOLEAN /\ dispatch' \in [event : Event, left : SUBSET Handler]
    BY <2>1, MarkReadyType
  <2> QED
    BY <1>1, <2>2 DEF QueueTypeOK, TakeFromEmpty, Lock
<1>2. CASE TakeFirst(x)
  <2>1. Head(m_queue) \in Task /\ Tail(m_queue) \in Seq(Task)
    BY <1>2 DEF QueueTypeOK, TakeFirst
  <2>2. dispatch' \in [event : Event, left : SUBSET Handler]
    BY <1>2 DEF QueueTypeOK, TakeFirst, Announce, Event
  <2> QED
    BY <1>2, <2>1, <2>2 DEF QueueTypeOK, TakeFirst, Lock
<1> QED
  BY <1>1, <1>2

\* Telling a handler.
LEMMA DeliverType ==
    ASSUME QueueTypeOK, NEW x \in Thread, NEW h \in Handler, Deliver(x, h)
    PROVE  QueueTypeOK'
  BY DEF QueueTypeOK, Deliver

\* Releasing the mutex.
LEMMA UnlockType ==
    ASSUME QueueTypeOK, NEW x \in Thread, Unlock(x)
    PROVE  QueueTypeOK'
  BY DEF QueueTypeOK, Unlock, NoDispatch, Event

-----------------------------------------------------------------------------
(* Type correctness.                                                       *)

LEMMA QueueStep ==
    ASSUME TypeOK, Next
    PROVE  QueueTypeOK'
<1>0. QueueTypeOK
  BY DEF TypeOK
<1>1. ASSUME NEW x \in Thread, NEW t \in Task, Add(x, t) PROVE QueueTypeOK'
  BY <1>0, <1>1, AddTaskType DEF Add
<1>2. ASSUME NEW x \in Thread, Unlock(x) PROVE QueueTypeOK'
  BY <1>0, <1>2, UnlockType
<1>3. ASSUME NEW x \in Thread, HandleEvent(x) PROVE QueueTypeOK'
  BY <1>0, <1>3, DeliverType, Roles DEF HandleEvent
<1>4. ASSUME NEW x \in Thread, Take(x) PROVE QueueTypeOK'
  BY <1>0, <1>4, TakeType DEF Take
<1>5. ASSUME NEW x \in Thread, TaskDone(x) PROVE QueueTypeOK'
  BY <1>0, <1>5 DEF TaskDone, QueueTypeOK
<1>6. ASSUME RegisterHandler(Watcher) \/ UnregisterHandler(Watcher) PROVE QueueTypeOK'
  BY <1>0, <1>6, Roles DEF RegisterHandler, UnregisterHandler, QueueTypeOK
<1>7. ASSUME UNCHANGED queueVars PROVE QueueTypeOK'
  BY <1>0, <1>7 DEF queueVars, QueueTypeOK
<1>8. ASSUME DestroyQueue PROVE QueueTypeOK'
  BY <1>0, <1>8 DEF DestroyQueue, QueueTypeOK
<1> QED
  BY <1>1, <1>2, <1>3, <1>4, <1>5, <1>6, <1>7, <1>8, StepCases, Roles, Zenon
  DEF EndAdd, Execute, Loop, EndTake, Finish, WaitForState, AskSize, CheckState, WakeUp,
      SpuriousWakeUp, TimeOut, Abort, Stop, Restart, Construct, Count, Destroy

LEMMA PlacesStep ==
    ASSUME pc \in [Thread -> PC], Next
    PROVE  pc' \in [Thread -> PC]
<1>1. ASSUME NEW x \in Thread, NEW l \in PC, Goto(x, l) PROVE pc' \in [Thread -> PC]
  BY <1>1 DEF Goto
<1>2. ASSUME UNCHANGED pc PROVE pc' \in [Thread -> PC]
  BY <1>2
<1>3. CASE DestroyQueue
  BY <1>3 DEF DestroyQueue, PC
<1>4. CASE ~DestroyQueue
  <2>1. (\E x \in Thread, l \in PC : Goto(x, l)) \/ UNCHANGED pc
    BY <1>4, StepCases, Roles
    DEF Add, EndAdd, HandleEvent, Execute, Loop, Take, EndTake, Finish, WaitForState, AskSize,
        CheckState, WakeUp, SpuriousWakeUp, TimeOut, Abort, Stop, Restart, Construct, Count,
        Destroy, PC
  <2> QED
    BY <1>1, <1>2, <2>1
<1> QED
  BY <1>3, <1>4

\* How many tasks were taken is a natural number.
LEMMA TakenIsNat ==
    ASSUME TypeOK, TasksFit
    PROVE  Taken \in Nat
<1>1. IsFiniteSet(fresh) /\ Cardinality(Task) \in Nat
  BY TaskAssumption, FS_Subset, FS_CardinalityType DEF TypeOK, DataOK
<1>2. Cardinality(fresh) \in Nat /\ Len(m_queue) \in Nat
  BY <1>1, FS_CardinalityType DEF TypeOK, DataOK, QueueTypeOK
<1> QED
  BY <1>1, <1>2 DEF Taken, TasksFit

LEMMA DataStep ==
    ASSUME TypeOK, Announced, TasksFit, Next
    PROVE  DataOK'
<1>0. DataOK /\ Len(m_queue) \in Nat
  BY DEF TypeOK, QueueTypeOK
<1>1. ASSUME NEW x \in Thread, NEW t \in Task, Add(x, t) PROVE DataOK'
  BY <1>0, <1>1 DEF Add, DataOK, watcherVars
<1>2. ASSUME NEW x \in Thread, EndAdd(x) PROVE DataOK'
  BY <1>0, <1>2 DEF EndAdd, DataOK, watcherVars
<1>3. ASSUME NEW x \in Thread, HandleEvent(x) PROVE DataOK'
  <2>1. dispatch.event # "Progress" => dispatch.event \in State
    BY <1>3 DEF HandleEvent, Deliver, Announced, TypeOK, QueueTypeOK, Event, State
  <2>2. CASE HandleProgress
    BY <1>0, <1>3, <2>2 DEF HandleEvent, HandleProgress, DataOK
  <2>3. CASE dispatch.event # "Progress" /\ HandleChangedState
    <3>1. m_cv' \subseteq m_cv
      BY <2>3 DEF HandleChangedState, NotifyOne
    <3> QED
      BY <1>0, <1>3, <2>1, <2>3, <3>1 DEF HandleEvent, HandleChangedState, DataOK
  <2> QED
    BY <1>3, <2>2, <2>3 DEF HandleEvent
<1>4. ASSUME NEW x \in Consumer,
             Execute(x) \/ Loop(x) \/ Take(x) \/ EndTake(x) \/ Finish(x)
      PROVE  DataOK'
  BY <1>0, <1>4 DEF Execute, Loop, Take, EndTake, Finish, DataOK, watcherVars
<1>5. ASSUME NEW x \in Waiter, NEW state \in State, NEW timed \in BOOLEAN,
             WaitForState(x, state, timed)
      PROVE  DataOK'
  BY <1>0, <1>5 DEF WaitForState, DataOK
<1>6. ASSUME NEW x \in Waiter,
             AskSize(x) \/ CheckState(x) \/ WakeUp(x) \/ SpuriousWakeUp(x) \/ TimeOut(x)
      PROVE  DataOK'
  BY <1>0, <1>6 DEF AskSize, CheckState, WakeUp, SpuriousWakeUp, TimeOut, DataOK
<1>7. ASSUME NEW x \in Controller, Abort(x) \/ Stop(x) \/ Restart(x) PROVE DataOK'
  BY <1>0, <1>7 DEF Abort, Stop, Restart, NotifyOne, DataOK, watcherVars
<1>8. ASSUME Construct PROVE DataOK'
  BY <1>0, <1>8, TakenIsNat DEF Construct, DataOK, State
<1>9. ASSUME Count \/ Destroy \/ DestroyQueue PROVE DataOK'
  BY <1>0, <1>9 DEF Count, Destroy, DestroyQueue, DataOK, watcherVars
<1> QED
  BY <1>1, <1>2, <1>3, <1>4, <1>5, <1>6, <1>7, <1>8, <1>9, StepCases, Roles

LEMMA TypeStep ==
    ASSUME TypeOK, Announced, TasksFit, Next
    PROVE  TypeOK'
<1>1. QueueTypeOK' /\ pc' \in [Thread -> PC] /\ DataOK'
  BY QueueStep, PlacesStep, DataStep DEF TypeOK
<1> QED
  BY <1>1 DEF TypeOK
-----------------------------------------------------------------------------
(* The life of the watcher.                                                *)

\* Where the threads go: what a step does to the places that Lifetime speaks of.
LEMMA GotoElsewhere ==
    ASSUME Lifetime, pc \in [Thread -> PC], NEW x \in Thread, x # Owner, NEW l,
           Goto(x, l),
           l \in {"sizing", "check", "wait"} => Watching,
           m_eventProcessors' = m_eventProcessors,
           \A y \in m_cv' : IF y = x THEN l = "wait" ELSE y \in m_cv
    PROVE  Lifetime'
  BY Roles DEF Lifetime, Goto, Watching

LEMMA LifetimeStep ==
    ASSUME TypeOK, Lifetime, Next
    PROVE  Lifetime'
<1>0. pc \in [Thread -> PC] /\ m_eventProcessors \subseteq Handler /\ m_cv \subseteq Waiter
  BY DEF TypeOK, QueueTypeOK, DataOK
<1>1. ASSUME NEW x \in Producer \cup Consumer, NEW t \in Task, Add(x, t) PROVE Lifetime'
  <2>1. pc[x] # "wait" /\ m_cv' = m_cv /\ Goto(x, "adding")
        /\ m_eventProcessors' = m_eventProcessors
    BY <1>1 DEF Add, AddTask, watcherVars
  <2> QED
    BY <1>0, <2>1, GotoElsewhere, Roles DEF Lifetime
<1>2. ASSUME NEW x \in Thread, EndAdd(x) PROVE Lifetime'
  <2>1. PICK l \in {"run", "out"} : Goto(x, l)
    BY <1>2 DEF EndAdd
  <2>2. /\ pc[x] = "adding" /\ m_cv' = m_cv
        /\ m_eventProcessors' = m_eventProcessors
    BY <1>2 DEF EndAdd, Unlock, watcherVars
  <2> QED
    BY <1>0, <2>1, <2>2, GotoElsewhere, Roles DEF Lifetime
<1>3. ASSUME NEW x \in Consumer,
             Execute(x) \/ Loop(x) \/ Take(x) \/ EndTake(x) \/ Finish(x)
      PROVE  Lifetime'
  <2>1. PICK l \in {"loop", "out", "take", "taking", "run"} : Goto(x, l)
    BY <1>3 DEF Execute, Loop, Take, EndTake, Finish
  <2>2. /\ pc[x] # "wait" /\ m_cv' = m_cv
        /\ m_eventProcessors' = m_eventProcessors
    BY <1>3
    DEF Execute, Loop, Take, TakeFirst, TakeFromEmpty, EndTake, Unlock, Finish, TaskDone,
        watcherVars, queueVars
  <2> QED
    BY <1>0, <2>1, <2>2, GotoElsewhere, Roles DEF Lifetime
<1>4. ASSUME NEW x \in Waiter,
             \/ \E state \in State, timed \in BOOLEAN : WaitForState(x, state, timed)
             \/ AskSize(x) \/ CheckState(x) \/ WakeUp(x) \/ TimeOut(x)
      PROVE  Lifetime'
  <2>1. PICK l \in {"sizing", "check", "wait", "out"} :
               Goto(x, l) /\ \A y \in m_cv' : IF y = x THEN l = "wait" ELSE y \in m_cv
    BY <1>4 DEF WaitForState, AskSize, CheckState, WakeUp, TimeOut, Lifetime
  <2>2. Watching /\ m_eventProcessors' = m_eventProcessors
    BY <1>4 DEF WaitForState, AskSize, CheckState, WakeUp, TimeOut, Lifetime, queueVars
  <2> QED
    BY <1>0, <2>1, <2>2, GotoElsewhere, Roles
<1>5. ASSUME NEW x \in Thread,
             \/ HandleEvent(x)
             \/ x \in Waiter /\ SpuriousWakeUp(x)
             \/ x \in Controller /\ (Abort(x) \/ Stop(x) \/ Restart(x))
      PROVE  Lifetime'
  <2>1. NotifyOne => m_cv' \subseteq m_cv
    BY DEF NotifyOne
  <2>2. UNCHANGED <<pc, m_eventProcessors>> /\ m_cv' \subseteq m_cv
    BY <1>5, <2>1
    DEF HandleEvent, Deliver, HandleProgress, HandleChangedState, SpuriousWakeUp, Abort, Stop,
        Restart, watcherVars, queueVars
  <2> QED
    BY <2>2 DEF Lifetime, Watching
<1>6. ASSUME Construct PROVE Lifetime'
  BY <1>0, <1>6, Roles DEF Construct, RegisterHandler, Goto, Lifetime, Watching
<1>7. ASSUME Count PROVE Lifetime'
  BY <1>0, <1>7, Roles DEF Count, Goto, Lifetime, Watching, queueVars
<1>8. ASSUME Destroy PROVE Lifetime'
  BY <1>0, <1>8, Roles DEF Destroy, UnregisterHandler, Goto, Lifetime, Watching, watcherVars
<1>9. ASSUME DestroyQueue PROVE Lifetime'
  BY <1>0, <1>9, Roles DEF DestroyQueue, Lifetime, Watching, watcherVars
<1>10. ASSUME NEW x \in Waiter,
              \/ \E state \in State, timed \in BOOLEAN : WaitForState(x, state, timed)
              \/ AskSize(x) \/ CheckState(x) \/ WakeUp(x)
              \/ SpuriousWakeUp(x) \/ TimeOut(x)
       PROVE  Lifetime'
  BY <1>4, <1>5, <1>10, Roles
<1>11. ASSUME NEW x \in Controller, Abort(x) \/ Stop(x) \/ Restart(x) PROVE Lifetime'
  BY <1>5, <1>11, Roles
<1> QED
  BY <1>1, <1>2, <1>3, <1>5, <1>6, <1>7, <1>8, <1>9, <1>10, <1>11, StepCases
-----------------------------------------------------------------------------
(* What the queue tells, and what the watcher knows.                       *)

\* Every step is one of the queue's operations, or leaves the queue alone.
LEMMA QueueCases ==
    ASSUME Next
    PROVE  \/ \E x \in Thread, t \in Task : AddTask(x, t)
           \/ \E x \in Thread : TakeFirst(x) \/ TakeFromEmpty(x) \/ Unlock(x) \/ TaskDone(x)
           \/ \E x \in Thread : HandleEvent(x)
           \/ Construct \/ Destroy \/ DestroyQueue
           \/ UNCHANGED queueVars
  BY StepCases, Roles
  DEF Add, EndAdd, Execute, Loop, Take, EndTake, Finish, WaitForState, AskSize, CheckState,
      WakeUp, SpuriousWakeUp, TimeOut, Abort, Stop, Restart, Count

LEMMA MarkReadyAnnounces ==
    ASSUME QueueTypeOK, NEW ready \in BOOLEAN, MarkReady(ready)
    PROVE  /\ m_readyState' <=> ready
           /\ dispatch'.left \subseteq m_eventProcessors
           /\ dispatch'.event = "none" => dispatch'.left = {}
           /\ dispatch'.event = "Ready" => ready
           /\ dispatch'.event = "Empty" => ~ready
           /\ dispatch'.event # "Progress"
           /\ (m_readyState <=> ready) => dispatch' = NoDispatch
           /\ ~(m_readyState <=> ready) =>
                 dispatch'.event \in State /\ dispatch'.left = m_eventProcessors
<1>1. CASE m_readyState # ready
  <2>1. dispatch' = [event |-> IF ready THEN "Ready" ELSE "Empty", left |-> m_eventProcessors]
    BY <1>1 DEF MarkReady, Announce
  <2> QED
    BY <1>1, <2>1 DEF MarkReady, State, QueueTypeOK
<1>2. CASE m_readyState = ready
  BY <1>2 DEF MarkReady, NoDispatch
<1> QED
  BY <1>1, <1>2

LEMMA AnnouncedStep ==
    ASSUME TypeOK, Announced, EmptyIsEmpty, Next
    PROVE  Announced' /\ EmptyIsEmpty'
<1>0. QueueTypeOK /\ NoThread \notin Thread
  BY Roles DEF TypeOK
<1>1. ASSUME NEW x \in Thread, NEW t \in Task, AddTask(x, t) PROVE Announced' /\ EmptyIsEmpty'
  <2>1. MarkReady(TRUE) /\ m_mutex' = x /\ m_eventProcessors' = m_eventProcessors
    BY <1>1 DEF AddTask, Lock
  <2> QED
    BY <1>0, <2>1, MarkReadyAnnounces DEF Announced, EmptyIsEmpty
<1>2. ASSUME NEW x \in Thread, TakeFromEmpty(x) PROVE Announced' /\ EmptyIsEmpty'
  <2>1. /\ MarkReady(FALSE) /\ m_mutex' = x /\ m_eventProcessors' = m_eventProcessors
        /\ m_queue' = << >>
    BY <1>2 DEF TakeFromEmpty, Lock
  <2> QED
    BY <1>0, <2>1, MarkReadyAnnounces DEF Announced, EmptyIsEmpty
<1>3. ASSUME NEW x \in Thread, TakeFirst(x) PROVE Announced' /\ EmptyIsEmpty'
  BY <1>0, <1>3 DEF TakeFirst, Lock, Announce, Announced, EmptyIsEmpty
<1>4. ASSUME NEW x \in Thread, Unlock(x) PROVE Announced' /\ EmptyIsEmpty'
  BY <1>0, <1>4 DEF Unlock, NoDispatch, Announced, EmptyIsEmpty
<1>5. ASSUME NEW x \in Thread, HandleEvent(x) PROVE Announced' /\ EmptyIsEmpty'
  <2>1. dispatch'.left \subseteq dispatch.left /\ dispatch'.event = dispatch.event
    BY <1>0, <1>5 DEF HandleEvent, Deliver, QueueTypeOK
  <2> QED
    BY <1>0, <1>5, <2>1 DEF HandleEvent, Deliver, Announced, EmptyIsEmpty
<1>6. ASSUME Construct PROVE Announced' /\ EmptyIsEmpty'
  BY <1>6 DEF Construct, RegisterHandler, NoDispatch, Announced, EmptyIsEmpty
<1>7. ASSUME Destroy PROVE Announced' /\ EmptyIsEmpty'
  BY <1>7 DEF Destroy, UnregisterHandler, NoDispatch, Announced, EmptyIsEmpty
<1>8. ASSUME DestroyQueue PROVE Announced' /\ EmptyIsEmpty'
  BY <1>8 DEF DestroyQueue, Announced, EmptyIsEmpty
<1>9. ASSUME NEW x \in Thread, TaskDone(x) PROVE Announced' /\ EmptyIsEmpty'
  BY <1>9 DEF TaskDone, Announced, EmptyIsEmpty
<1>10. ASSUME UNCHANGED queueVars PROVE Announced' /\ EmptyIsEmpty'
  BY <1>10 DEF queueVars, Announced, EmptyIsEmpty
<1> QED
  BY <1>1, <1>2, <1>3, <1>4, <1>5, <1>6, <1>7, <1>8, <1>9, <1>10, QueueCases, Zenon

\* Only the watcher's handler and its constructor change what the watcher knows.
LEMMA OnlyTold ==
    ASSUME Next, \A x \in Thread : ~HandleEvent(x), ~Construct
    PROVE  UNCHANGED <<m_currentState, heard, m_current, before>>
  BY StepCases, Roles
  DEF Add, EndAdd, Execute, Loop, Take, EndTake, Finish, WaitForState, AskSize, CheckState,
      WakeUp, SpuriousWakeUp, TimeOut, Abort, Stop, Restart, Count, Destroy, DestroyQueue,
      watcherVars

LEMMA KnownStep ==
    ASSUME TypeOK, Announced, Known, Next
    PROVE  Known'
<1>0. QueueTypeOK
  BY DEF TypeOK
<1>1. ASSUME NEW x \in Thread, HandleEvent(x) PROVE Known'
  <2>1. dispatch' = [dispatch EXCEPT !.left = @ \ {Watcher}] /\ Watcher \in dispatch.left
        /\ UNCHANGED <<m_readyState, m_eventProcessors>>
    BY <1>1 DEF HandleEvent, Deliver
  <2>2. dispatch'.event = dispatch.event
    BY <1>0, <2>1 DEF QueueTypeOK
  <2>3. CASE dispatch.event = "Progress"
    BY <1>1, <2>1, <2>2, <2>3 DEF HandleEvent, HandleProgress, Known, State
  <2>4. CASE dispatch.event # "Progress"
    <3>1. dispatch.event \in State /\ m_currentState' = dispatch.event
      BY <1>0, <1>1, <2>1, <2>4
      DEF HandleEvent, HandleChangedState, Announced, QueueTypeOK, Event, State
    <3> QED
      BY <2>1, <3>1 DEF Announced, Known, State
  <2> QED
    BY <2>3, <2>4
<1>2. ASSUME Construct PROVE Known'
  BY <1>2 DEF Construct, Known
<1>3. CASE (\A x \in Thread : ~HandleEvent(x)) /\ ~Construct
  <2>0. UNCHANGED <<m_currentState, heard>>
    BY <1>3, OnlyTold
  <2>1. ASSUME NEW ready \in BOOLEAN, MarkReady(ready), m_mutex = NoThread,
               m_eventProcessors' = m_eventProcessors
        PROVE  Known'
    BY <1>0, <2>0, <2>1, MarkReadyAnnounces DEF Announced, NoDispatch, Known, State
  <2>2. ASSUME NEW x \in Thread, NEW t \in Task, AddTask(x, t) PROVE Known'
    BY <2>1, <2>2 DEF AddTask, Lock
  <2>3. ASSUME NEW x \in Thread, TakeFromEmpty(x) PROVE Known'
    BY <2>1, <2>3 DEF TakeFromEmpty, Lock
  <2>4. ASSUME NEW x \in Thread, TakeFirst(x) PROVE Known'
    BY <2>0, <2>4 DEF TakeFirst, Lock, Announced, NoDispatch, Known
  <2>5. ASSUME NEW x \in Thread, Unlock(x) PROVE Known'
    BY <2>0, <2>5 DEF Unlock, Known
  <2>6. ASSUME NEW x \in Thread, TaskDone(x) PROVE Known'
    BY <2>0, <2>6 DEF TaskDone, Known
  <2>7. ASSUME Destroy PROVE Known'
    BY <2>0, <2>7 DEF Destroy, UnregisterHandler, Known
  <2>8. ASSUME DestroyQueue PROVE Known'
    BY <2>0, <2>8 DEF DestroyQueue, Known
  <2>9. ASSUME UNCHANGED queueVars PROVE Known'
    BY <2>0, <2>9 DEF queueVars, Known
  <2> QED
    BY <1>3, <2>2, <2>3, <2>4, <2>5, <2>6, <2>7, <2>8, <2>9, QueueCases
<1> QED
  BY <1>1, <1>2, <1>3
-----------------------------------------------------------------------------
(* Counting.                                                               *)

LEMMA FreshFinite ==
    ASSUME TypeOK
    PROVE  /\ Cardinality(Task) \in Nat /\ Len(m_queue) \in Nat
           /\ IsFiniteSet(fresh) /\ Cardinality(fresh) \in Nat
<1>1. IsFiniteSet(fresh)
  BY TaskAssumption, FS_Subset DEF TypeOK, DataOK
<1> QED
  BY <1>1, TaskAssumption, FS_CardinalityType DEF TypeOK, QueueTypeOK

\* Who adds a task takes it from those not added yet; nobody else does.
LEMMA FreshStep ==
    ASSUME Next
    PROVE  \/ \E x \in Thread, t \in fresh : AddTask(x, t) /\ fresh' = fresh \ {t}
           \/ /\ fresh' = fresh
              /\ \/ \E x \in Thread : TakeFirst(x)
                 \/ DestroyQueue
                 \/ m_queue' = m_queue
  BY StepCases, Roles
  DEF Add, EndAdd, HandleEvent, Deliver, Execute, Loop, Take, TakeFromEmpty, EndTake, Unlock,
      Finish, TaskDone, WaitForState, AskSize, CheckState, WakeUp, SpuriousWakeUp, TimeOut,
      Abort, Stop, Restart, Construct, RegisterHandler, Count, Destroy, UnregisterHandler,
      DestroyQueue, queueVars

\* A step takes a task when it is a TakeFirst, and otherwise none; the end of the queue
\* counts as taking what is left.
LEMMA TakenStep ==
    ASSUME TypeOK, TasksFit, Next
    PROVE  /\ TasksFit'
           /\ \/ Taken' = Taken
              \/ DestroyQueue
              \/ Taken' = Taken + 1 /\ \E x \in Thread : TakeFirst(x)
<1>0. QueueTypeOK
  BY DEF TypeOK
<1>1. ASSUME NEW x \in Thread, NEW t \in fresh, AddTask(x, t), fresh' = fresh \ {t}
      PROVE  TasksFit' /\ Taken' = Taken
  <2>1. Cardinality(fresh') = Cardinality(fresh) - 1
    BY <1>1, FreshFinite, FS_RemoveElement
  <2>2. Len(m_queue') = Len(m_queue) + 1
    BY <1>0, <1>1 DEF AddTask, QueueTypeOK, TypeOK, DataOK
  <2> QED
    BY <2>1, <2>2, FreshFinite DEF TasksFit, Taken
<1>2. ASSUME NEW x \in Thread, TakeFirst(x), fresh' = fresh
      PROVE  TasksFit' /\ Taken' = Taken + 1
  <2>1. Len(m_queue') = Len(m_queue) - 1
    BY <1>0, <1>2 DEF TakeFirst, QueueTypeOK
  <2> QED
    BY <1>2, <2>1, FreshFinite DEF TasksFit, Taken
<1>3. ASSUME DestroyQueue, fresh' = fresh PROVE TasksFit'
  <2>1. Len(m_queue') = 0
    BY <1>3 DEF DestroyQueue
  <2> QED
    BY <1>3, <2>1, FreshFinite DEF TasksFit
<1>4. ASSUME m_queue' = m_queue, fresh' = fresh PROVE TasksFit' /\ Taken' = Taken
  BY <1>4 DEF TasksFit, Taken
<1> QED
  BY <1>1, <1>2, <1>3, <1>4, FreshStep

\* What a handler loop is about to report to the watcher.
Reporting == dispatch.event = "Progress" /\ Watcher \in dispatch.left

LEMMA ReportingStep ==
    ASSUME TypeOK, Announced, Next, \A x \in Thread : ~HandleEvent(x)
    PROVE  \/ \E x \in Thread : TakeFirst(x)
           \/ Reporting' <=> Reporting
<1>0. QueueTypeOK
  BY DEF TypeOK
<1>1. ASSUME NEW ready \in BOOLEAN, MarkReady(ready), m_mutex = NoThread
      PROVE  ~Reporting /\ ~Reporting'
  BY <1>0, <1>1, MarkReadyAnnounces DEF Announced, NoDispatch, Reporting
<1>2. ASSUME NEW x \in Thread, NEW t \in Task, AddTask(x, t) PROVE Reporting' <=> Reporting
  BY <1>1, <1>2 DEF AddTask, Lock
<1>3. ASSUME NEW x \in Thread, TakeFromEmpty(x) PROVE Reporting' <=> Reporting
  BY <1>1, <1>3 DEF TakeFromEmpty, Lock
<1>4. ASSUME NEW x \in Thread, Unlock(x) PROVE Reporting' <=> Reporting
  BY <1>4 DEF Unlock, NoDispatch, Reporting
<1>5. ASSUME UNCHANGED dispatch PROVE Reporting' <=> Reporting
  BY <1>5 DEF Reporting
<1>6. (\E x \in Thread : TaskDone(x)) \/ Construct \/ Destroy \/ DestroyQueue
        \/ UNCHANGED queueVars => UNCHANGED dispatch
  BY DEF TaskDone, Construct, RegisterHandler, Destroy, UnregisterHandler, DestroyQueue, queueVars
<1> QED
  BY <1>2, <1>3, <1>4, <1>5, <1>6, QueueCases

LEMMA ProgressStep ==
    ASSUME TypeOK, Lifetime, Announced, TasksFit, ProgressCounts, Next
    PROVE  ProgressCounts'
<1>0. /\ QueueTypeOK /\ Taken \in Nat /\ m_current \in Nat /\ before \in Nat
      /\ (Watcher \in m_eventProcessors =>
             Taken - before = m_current + IF Reporting THEN 1 ELSE 0)
  BY TakenIsNat DEF TypeOK, DataOK, ProgressCounts, Reporting
<1>1. ASSUME NEW x \in Thread, HandleEvent(x) PROVE ProgressCounts'
  <2>1. /\ dispatch' = [dispatch EXCEPT !.left = @ \ {Watcher}] /\ Watcher \in dispatch.left
        /\ UNCHANGED <<m_eventProcessors, m_queue, fresh, before>>
    BY <1>1 DEF HandleEvent, Deliver
  <2>2. ~Reporting' /\ Taken' = Taken
    BY <1>0, <2>1 DEF QueueTypeOK, Reporting, Taken
  <2>3. m_current' = m_current + IF Reporting THEN 1 ELSE 0
    BY <1>0, <1>1, <2>1 DEF HandleEvent, HandleProgress, HandleChangedState, Reporting
  <2> QED
    BY <1>0, <2>1, <2>2, <2>3 DEF ProgressCounts, Reporting
<1>2. ASSUME Construct PROVE ProgressCounts'
  <2>1. Taken' = Taken /\ before' = Taken /\ m_current' = 0
    BY <1>2 DEF Construct, RegisterHandler, Taken
  <2>2. ~Reporting'
    BY <1>2 DEF Construct, RegisterHandler, Announced, NoDispatch, Reporting
  <2> QED
    BY <1>0, <2>1, <2>2 DEF ProgressCounts, Reporting
<1>3. ASSUME DestroyQueue PROVE ProgressCounts'
  <2>1. Watcher \notin m_eventProcessors'
    BY <1>3, Roles DEF DestroyQueue, Lifetime
  <2> QED
    BY <2>1 DEF ProgressCounts
<1>4. CASE (\A x \in Thread : ~HandleEvent(x)) /\ ~Construct /\ ~DestroyQueue
  <2>1. UNCHANGED <<m_current, before>>
    BY <1>4, OnlyTold
  <2>2. Watcher \in m_eventProcessors' => Watcher \in m_eventProcessors
    BY <1>4, QueueCases, Roles
    DEF AddTask, TakeFirst, TakeFromEmpty, Unlock, TaskDone, Destroy, UnregisterHandler, queueVars
  <2>3. ASSUME NEW x \in Thread, TakeFirst(x) PROVE ProgressCounts'
    <3>1. ~Reporting /\ (Reporting' <=> Watcher \in m_eventProcessors)
      BY <1>0, <2>3 DEF TakeFirst, Lock, Announce, Announced, NoDispatch, Reporting
    <3>2. Taken' = Taken + 1
      <4>1. Len(m_queue') = Len(m_queue) - 1
        BY <1>0, <2>3 DEF TakeFirst, QueueTypeOK
      <4>2. \A t \in fresh, y \in Thread : AddTask(y, t) => Len(m_queue') = Len(m_queue) + 1
        BY <1>0 DEF AddTask, QueueTypeOK, TypeOK, DataOK
      <4>3. fresh' = fresh
        BY <4>1, <4>2, FreshFinite, FreshStep
      <4> QED
        BY <4>1, <4>3, FreshFinite DEF Taken
    <3>3. Watcher \in m_eventProcessors' => Taken - before = m_current /\ Reporting'
      BY <1>0, <2>2, <3>1
    <3>4. Watcher \in m_eventProcessors' => Taken' - before' = m_current' + 1 /\ Reporting'
      BY <1>0, <2>1, <3>2, <3>3
    <3> QED
      BY <3>4 DEF ProgressCounts, Reporting
  <2>4. CASE \A x \in Thread : ~TakeFirst(x)
    <3>1. Taken' = Taken /\ (Reporting' <=> Reporting)
      BY <1>4, <2>4, TakenStep, ReportingStep
    <3> QED
      BY <1>0, <2>1, <2>2, <3>1 DEF ProgressCounts, Reporting
  <2> QED
    BY <2>3, <2>4
<1> QED
  BY <1>1, <1>2, <1>3, <1>4
-----------------------------------------------------------------------------
(* Waiting.                                                                *)

\* The steps that do not touch what a waiter in the condition variable waits for.
LEMMA WaitFrame ==
    ASSUME LoneWaiterWakes, m_cv' \subseteq m_cv,
           UNCHANGED <<m_currentState, m_running>>,
           \A x \in m_cv : waitFor'[x] = waitFor[x]
    PROVE  LoneWaiterWakes'
  BY DEF LoneWaiterWakes, MayReturn

LEMMA WaitStep ==
    ASSUME TypeOK, Lifetime, LoneWaiterWakes, Next
    PROVE  LoneWaiterWakes'
<1>0. /\ waitFor \in [Waiter -> [state : State, timed : BOOLEAN]]
      /\ m_cv \subseteq Waiter /\ m_running \in BOOLEAN
  BY DEF TypeOK, DataOK
\* notify_one wakes the only waiter there is.
<1>1. ASSUME NotifyOne PROVE LoneWaiterWakes'
  <2>1. \A x : Waiter = {x} => m_cv' = {}
    BY <1>0, <1>1 DEF NotifyOne
  <2> QED
    BY <2>1 DEF LoneWaiterWakes
<1>2. ASSUME NEW x \in Producer \cup Consumer, NEW t \in Task, Add(x, t) PROVE LoneWaiterWakes'
  BY <1>2, WaitFrame DEF Add, watcherVars
<1>3. ASSUME NEW x \in Thread, EndAdd(x) PROVE LoneWaiterWakes'
  BY <1>3, WaitFrame DEF EndAdd, watcherVars
<1>4. ASSUME NEW x \in Thread, HandleEvent(x) PROVE LoneWaiterWakes'
  <2>1. CASE HandleProgress
    BY <1>4, <2>1, WaitFrame DEF HandleEvent, HandleProgress
  <2>2. CASE HandleChangedState
    BY <1>1, <2>2 DEF HandleChangedState
  <2> QED
    BY <1>4, <2>1, <2>2 DEF HandleEvent
<1>5. ASSUME NEW x \in Consumer,
             Execute(x) \/ Loop(x) \/ Take(x) \/ EndTake(x) \/ Finish(x)
      PROVE  LoneWaiterWakes'
  BY <1>5, WaitFrame DEF Execute, Loop, Take, EndTake, Finish, watcherVars
<1>6. ASSUME NEW x \in Waiter, NEW state \in State, NEW timed \in BOOLEAN,
             WaitForState(x, state, timed)
      PROVE  LoneWaiterWakes'
  <2>1. \A y \in m_cv : waitFor'[y] = waitFor[y]
    BY <1>0, <1>6 DEF WaitForState, Lifetime
  <2> QED
    BY <1>6, <2>1, WaitFrame DEF WaitForState
\* Who blocks has just found that it may not return.
<1>7. ASSUME NEW x \in Waiter, CheckState(x) PROVE LoneWaiterWakes'
  BY <1>7 DEF CheckState, LoneWaiterWakes, MayReturn
<1>8. ASSUME NEW x \in Waiter, AskSize(x) \/ WakeUp(x) \/ SpuriousWakeUp(x) \/ TimeOut(x)
      PROVE  LoneWaiterWakes'
  BY <1>8, WaitFrame DEF AskSize, WakeUp, SpuriousWakeUp, TimeOut
<1>9. ASSUME NEW x \in Controller, Abort(x) \/ Stop(x) PROVE LoneWaiterWakes'
  BY <1>1, <1>9, WaitFrame DEF Abort, Stop, watcherVars
<1>10. ASSUME NEW x \in Controller, Restart(x) PROVE LoneWaiterWakes'
  BY <1>10 DEF Restart, LoneWaiterWakes, MayReturn
\* Nobody waits for a watcher that is not constructed yet.
<1>11. ASSUME Construct PROVE LoneWaiterWakes'
  <2>1. m_cv' = {}
    BY <1>0, <1>11 DEF Construct, Lifetime, Watching
  <2> QED
    BY <2>1 DEF LoneWaiterWakes
<1>12. ASSUME Count \/ Destroy \/ DestroyQueue PROVE LoneWaiterWakes'
  BY <1>12, WaitFrame DEF Count, Destroy, DestroyQueue, watcherVars
<1>13. ASSUME NEW x \in Waiter,
              \/ \E state \in State, timed \in BOOLEAN : WaitForState(x, state, timed)
              \/ AskSize(x) \/ CheckState(x) \/ WakeUp(x)
              \/ SpuriousWakeUp(x) \/ TimeOut(x)
       PROVE  LoneWaiterWakes'
  BY <1>6, <1>7, <1>8, <1>13
<1> QED
  BY <1>2, <1>3, <1>4, <1>5, <1>9, <1>10, <1>11, <1>12, <1>13, StepCases

-----------------------------------------------------------------------------
(* The inductive invariant.                                                *)

LEMMA InitInv == Init => Inv
<1> SUFFICES ASSUME Init PROVE Inv
  OBVIOUS
<1>1. TypeOK
  <2>1. QueueTypeOK
    <3>1. m_readyState \in BOOLEAN /\ dispatch \in [event : Event, left : SUBSET Handler]
      BY DEF Init, QueueInit, NoDispatch, Event
    <3> QED
      BY <3>1 DEF Init, QueueInit, QueueTypeOK
  <2>2. DataOK
    <3>1. m_isAborted \in BOOLEAN /\ m_running \in BOOLEAN /\ heard \in BOOLEAN
      BY DEF Init
    <3> QED
      BY <3>1 DEF Init, DataOK, State
  <2> QED
    BY <2>1, <2>2 DEF Init, TypeOK, PC
<1>2. Lifetime /\ LoneWaiterWakes
  BY Roles DEF Init, QueueInit, Lifetime, LoneWaiterWakes
<1>3. Announced /\ EmptyIsEmpty /\ Known /\ ProgressCounts
  BY DEF Init, QueueInit, NoDispatch, Announced, EmptyIsEmpty, Known, ProgressCounts
<1>4. TasksFit
  <2>1. fresh = Task /\ Len(m_queue) = 0
    BY DEF Init, QueueInit
  <2> QED
    BY <1>1, <2>1, FreshFinite DEF TasksFit
<1> QED
  BY <1>1, <1>2, <1>3, <1>4 DEF Inv

LEMMA InvStep == Inv /\ [Next]_vars => Inv'
<1> SUFFICES ASSUME Inv, [Next]_vars PROVE Inv'
  OBVIOUS
<1>1. CASE UNCHANGED vars
  BY <1>1
  DEF vars, queueVars, watcherVars, Inv, TypeOK, QueueTypeOK, DataOK, Lifetime, Watching,
      Announced, EmptyIsEmpty, Known, TasksFit, ProgressCounts, Taken, LoneWaiterWakes, MayReturn
<1>2. CASE Next
  <2>1. TypeOK' /\ Lifetime'
    BY <1>2, TypeStep, LifetimeStep DEF Inv
  <2>2. Announced' /\ EmptyIsEmpty' /\ Known'
    BY <1>2, AnnouncedStep, KnownStep DEF Inv
  <2>3. TasksFit' /\ ProgressCounts' /\ LoneWaiterWakes'
    BY <1>2, TakenStep, ProgressStep, WaitStep DEF Inv
  <2> QED
    BY <2>1, <2>2, <2>3 DEF Inv
<1> QED
  BY <1>1, <1>2

\* The inductive invariant of the queue, the watcher and the blocking executor holds from
\* the start and is kept by every step.
THEOREM WatcherInvariant == Spec => []Inv
  BY InitInv, InvStep, PTL DEF Spec

\* Every variable keeps its type.
THEOREM WatcherTypes == Spec => []TypeOK
<1>1. Inv => TypeOK
  BY DEF Inv
<1> QED
  BY <1>1, WatcherInvariant, PTL

\* However many threads there are, the queue never calls a watcher that was destroyed.
THEOREM CallsFindTheWatcher == Spec => []NoCallAfterDestroy
<1>1. Inv => NoCallAfterDestroy
  BY DEF Inv, Lifetime, Announced, NoCallAfterDestroy
<1> QED
  BY <1>1, WatcherInvariant, PTL

\* A queue that is not Ready is empty, and between its operations the watcher knows in
\* which state it is, once it was told of one.
THEOREM WatcherKnows == Spec => []StateAgrees
<1>1. Inv => StateAgrees
  BY DEF Inv, Announced, NoDispatch, Known, State, StateAgrees
<1> QED
  BY <1>1, WatcherInvariant, PTL

\* The progress of the watcher is the number of tasks taken since it was registered, for
\* any number of threads that take them.
THEOREM WatcherCounts == Spec => []ProgressCounts
<1>1. Inv => ProgressCounts
  BY DEF Inv
<1> QED
  BY <1>1, WatcherInvariant, PTL

\* The only waiter of a watcher does not sleep while it may return.
THEOREM WaiterIsWoken == Spec => []LoneWaiterWakes
<1>1. Inv => LoneWaiterWakes
  BY DEF Inv
<1> QED
  BY <1>1, WatcherInvariant, PTL
=============================================================================
