---------------------------- MODULE MCEffectSlots ----------------------------
(* EffectSlots on two threads and two slots, which either may take first.   *)
EXTENDS EffectSlots, TLC

(* What follows once the array was used while it grew is left to the proofs. *)
Whole == ~torn

Symmetry == Permutations(Thread) \cup Permutations(Slot) \cup Permutations(Name)
=============================================================================
