------------------------- MODULE MCTaskQueueWatcher -------------------------
(* Instances of TaskQueueWatcher for TLC. *)
EXTENDS TaskQueueWatcher, TLC

\* Tasks are interchangeable.
TaskSymmetry == Permutations(Task)
=============================================================================
