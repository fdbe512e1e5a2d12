----------------------------- MODULE BoundedFifo -----------------------------
(***************************************************************************)
(* What a ring buffer promises: a first-in first-out queue of at most      *)
(* Capacity frames.  A block that does not fit keeps its first frames.     *)
(***************************************************************************)
EXTENDS Integers, Sequences

CONSTANTS Capacity, Block      \* Block: the sequences of frames put in at once

VARIABLE contents

Init == contents = <<>>

Put(block) ==
  LET room == Capacity - Len(contents)
      kept == IF Len(block) <= room THEN Len(block) ELSE room
  IN contents' = contents \o SubSeq(block, 1, kept)

Take(n) ==
  /\ n <= Len(contents)
  /\ contents' = SubSeq(contents, n + 1, Len(contents))

Next == (\E block \in Block : Put(block)) \/ (\E n \in 1 .. Capacity : Take(n))

Spec == Init /\ [][Next]_contents
=============================================================================
