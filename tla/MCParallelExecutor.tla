------------------------- MODULE MCParallelExecutor -------------------------
(* Instances of ParallelExecutor for TLC. *)
EXTENDS ParallelExecutor, TLC

\* Workers are interchangeable, and so are tasks: sound for invariants and action
\* properties, not for liveness, whose configurations do not use it.
Symmetric == Permutations(Worker) \cup Permutations(Task)
=============================================================================
