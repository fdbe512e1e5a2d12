------------------------------- MODULE MCThunk -------------------------------
(* Thunk on a few interchangeable threads and an array that grows twice.   *)
EXTENDS Thunk, TLC

Symmetry == Permutations(Thread)
=============================================================================
