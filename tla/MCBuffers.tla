------------------------------- MODULE MCBuffers -------------------------------
(* Buffers on two threads, three blocks, two names and one source.  A name   *)
(* passes to another block while the first is being deleted or queued, and   *)
(* to a third while the alGenBuffers that made that one fails.               *)
EXTENDS Buffers, TLC

Symmetry == Permutations(Thread) \cup Permutations(Block) \cup Permutations(Name)

(* Blocks of IMA4, as alBufferSamplesSOFT and as alBufferData keep them. *)
Loads ==
  {[type |-> "IMA4", stored |-> "Byte", channels |-> 1, units |-> 1, storesrc |-> FALSE],
   [type |-> "IMA4", stored |-> StoredAs["IMA4"], channels |-> 2, units |-> 2, storesrc |-> TRUE]}

(* Only the second is long enough for these. *)
Loops == {<<65, 130>>}
=============================================================================
