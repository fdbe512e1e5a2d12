------------------------------ MODULE MCSources ------------------------------
(* Sources with one buffer of two frames, whose loop section is its first   *)
(* frame, and one that was never filled.                                    *)
EXTENDS Sources, TLC

CONSTANTS full, empty

MCSize == [b \in Buffer |-> IF b = full THEN 2 ELSE 0]
MCLoopStart == [b \in Buffer |-> 0]
MCLoopEnd == [b \in Buffer |-> IF b = full THEN 1 ELSE 0]

MCBatches == {<<full>>, <<empty>>, <<NoBuffer>>, <<full, NoBuffer>>}
Symmetry == Permutations(Source) \cup Permutations(Thread)
PlainBatches == {<<full>>}
=============================================================================
