----------------------------- MODULE TaskPool -----------------------------
(***************************************************************************)
(* What an executor of a task queue promises, with no threads, no locks    *)
(* and no condition variable: tasks are submitted at any time, started in  *)
(* the order they were submitted, each once and only while some caller is  *)
(* inside execQueue(), at most Size at a time.  The call returns only when *)
(* nothing runs, and, unless the executor was aborted, when every task is  *)
(* done that was there when the call began or that a task added: the only  *)
(* tasks it may leave are the LATE ones, added by another thread meanwhile.*)
(* Once an abort has returned no task starts any more.                     *)
(***************************************************************************)
EXTENDS Integers, Sequences, FiniteSets

CONSTANTS Task, Caller, NoThread, Size

VARIABLES pending,    \* the tasks submitted and not started, oldest first
          executing,  \* the tasks being executed
          fresh,      \* the tasks nobody has submitted yet
          late,       \* the tasks submitted from outside during this call
          calling,    \* the caller inside execQueue()
          result,     \* what the last call of each caller returns
          aborting    \* "no", "asked" when abort() is called, "done" once it returned

poolVars == <<pending, executing, fresh, late, calling, result, aborting>>

Init ==
    /\ pending = << >>
    /\ executing = {}
    /\ fresh = Task
    /\ late = {}
    /\ calling = NoThread
    /\ result = [c \in Caller |-> "EmptyQueue"]
    /\ aborting = "no"

Waiting == {pending[i] : i \in DOMAIN pending}

\* A thread outside the pool submits t: during a call the task is late.
SubmitOutside(t) ==
    /\ t \in fresh
    /\ fresh' = fresh \ {t}
    /\ pending' = Append(pending, t)
    /\ late' = IF calling = NoThread THEN late ELSE late \cup {t}
    /\ UNCHANGED <<executing, calling, result, aborting>>

\* A task that is being executed submits t: not late.
SubmitInside(t) ==
    /\ executing # {}
    /\ t \in fresh
    /\ fresh' = fresh \ {t}
    /\ pending' = Append(pending, t)
    /\ UNCHANGED <<executing, late, calling, result, aborting>>

Call(c) ==
    /\ calling = NoThread
    /\ calling' = c
    /\ late' = {}
    /\ result' = [result EXCEPT ![c] = "EmptyQueue"]
    /\ UNCHANGED <<pending, executing, fresh, aborting>>

Start ==
    /\ calling # NoThread
    /\ aborting # "done"
    /\ Cardinality(executing) < Size
    /\ pending # << >>
    /\ executing' = executing \cup {Head(pending)}
    /\ pending' = Tail(pending)
    /\ UNCHANGED <<fresh, late, calling, result, aborting>>

Finish(t) ==
    /\ t \in executing
    /\ executing' = executing \ {t}
    /\ result' = [result EXCEPT ![calling] = "Completed"]
    /\ UNCHANGED <<pending, fresh, late, calling, aborting>>

Return ==
    /\ calling # NoThread
    /\ executing = {}
    /\ aborting = "no" => Waiting \subseteq late
    /\ calling' = NoThread
    /\ UNCHANGED <<pending, executing, fresh, late, result, aborting>>

Abort ==
    /\ aborting = "no"
    /\ aborting' = "asked"
    /\ UNCHANGED <<pending, executing, fresh, late, calling, result>>

AbortDone ==
    /\ aborting = "asked"
    /\ calling = NoThread
    /\ aborting' = "done"
    /\ UNCHANGED <<pending, executing, fresh, late, calling, result>>

Next ==
    \/ \E t \in Task : SubmitOutside(t) \/ SubmitInside(t) \/ Finish(t)
    \/ \E c \in Caller : Call(c)
    \/ Start \/ Return \/ Abort \/ AbortDone

Spec == Init /\ [][Next]_poolVars
=============================================================================
