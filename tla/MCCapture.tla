------------------------------ MODULE MCCapture ------------------------------
(* Blocks of one and of two frames, of two kinds, for a ring buffer whose   *)
(* positions wrap in the middle of a block.                                 *)
EXTENDS Capture

CONSTANTS a, b

MCBlock == {<<a>>, <<b, a>>}
=============================================================================
