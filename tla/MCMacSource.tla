----------------------------- MODULE MCMacSource -----------------------------
(* One thread uses a source, another one deletes it; a plain buffer, a       *)
(* converted one and AL_NONE.                                                *)
EXTENDS MacSource

CONSTANTS t1, t2

MCAsks == [t \in Thread |-> IF t = t1 THEN {"any", "set"} ELSE {"delete"}]
=============================================================================
