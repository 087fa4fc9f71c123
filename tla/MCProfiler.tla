----------------------------- MODULE MCProfiler -----------------------------
(* Keys are symmetric; contexts are not: one of them is the global one. *)
EXTENDS Profiler, TLC

Symmetric == Permutations(Key)
=============================================================================
