----------------------------- MODULE MCContexts ------------------------------
(* Threads and contexts are interchangeable.                                *)
EXTENDS Contexts, TLC

Symmetry == Permutations(Thread) \cup Permutations(Context)
=============================================================================
