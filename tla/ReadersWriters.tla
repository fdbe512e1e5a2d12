--------------------------- MODULE ReadersWriters ---------------------------
(***************************************************************************)
(* What a reader-writer lock promises its users, whatever it is built      *)
(* from: the threads inside a read section, the threads inside a write     *)
(* section, and when one more may enter.  RWLock shows that the spin lock  *)
(* of Alc/helpers.c keeps this promise; Thunk uses the promise.            *)
(***************************************************************************)
EXTENDS FiniteSets

CONSTANT Thread            (* the threads that use the lock *)

VARIABLES readers,         (* threads between ReadLock and ReadUnlock   *)
          writers          (* threads between WriteLock and WriteUnlock *)

lockVars == <<readers, writers>>

TypeOK == readers \subseteq Thread /\ writers \subseteq Thread

Init == readers = {} /\ writers = {}

BeginRead(t) ==
  /\ t \notin readers
  /\ writers = {}
  /\ readers' = readers \cup {t}
  /\ UNCHANGED writers

EndRead(t) ==
  /\ t \in readers
  /\ readers' = readers \ {t}
  /\ UNCHANGED writers

BeginWrite(t) ==
  /\ readers = {} /\ writers = {}
  /\ writers' = {t}
  /\ UNCHANGED readers

EndWrite(t) ==
  /\ t \in writers
  /\ writers' = {}
  /\ UNCHANGED readers

Next == \E t \in Thread : BeginRead(t) \/ EndRead(t) \/ BeginWrite(t) \/ EndWrite(t)

Spec == Init /\ [][Next]_lockVars
=============================================================================
