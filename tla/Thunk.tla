-------------------------------- MODULE Thunk --------------------------------
(***************************************************************************)
(* The name allocator of OpenAL-Soft/OpenAL32/alThunk.c.  Buffers,         *)
(* sources, effects, filters and effect slots of every device take their   *)
(* names from one array of flags: name n is taken while ThunkArray[n-1] is *)
(* set.  The array is scanned by any number of threads under the read lock *)
(* and doubled under the write lock.                                       *)
(*                                                                         *)
(* The lock is the reader-writer lock RWLock is shown to implement.        *)
(***************************************************************************)
EXTENDS Integers, FiniteSets

CONSTANTS Thread,          (* the threads that create and delete objects *)
          MaxSize          (* bound: realloc fails beyond this many entries *)

ASSUME MaxSizeAssumption == MaxSize \in Nat /\ MaxSize >= 1

VARIABLES readers, writers,   \* ThunkLock
          ThunkArraySize,
          taken,              \* the indices i with ThunkArray[i] = AL_TRUE
          pc, i,              \* each call's place, and its local index
          live,               \* how many objects carry each name
          raced               \* history: a thread has grown the array although
                              \* it had scanned a smaller one

vars == <<readers, writers, ThunkArraySize, taken, pc, i, live, raced>>

Name == 1 .. MaxSize
ThunkLock == INSTANCE ReadersWriters

Places == {"idle", "scan", "found", "full", "grow", "grown", "free", "freed"}

TypeOK ==
  /\ ThunkLock!TypeOK
  /\ ThunkArraySize \in Name
  /\ taken \subseteq 0 .. ThunkArraySize - 1
  /\ pc \in [Thread -> Places]
  /\ i \in [Thread -> 0 .. MaxSize]
  /\ live \in [Name -> Nat]
  /\ raced \in BOOLEAN

Init ==
  /\ ThunkLock!Init
  /\ ThunkArraySize = 1 /\ taken = {}
  /\ pc = [t \in Thread |-> "idle"]
  /\ i = [t \in Thread |-> 0]
  /\ live = [n \in Name |-> 0]
  /\ raced = FALSE

Go(t, from, to) == pc[t] = from /\ pc' = [pc EXCEPT ![t] = to]

-----------------------------------------------------------------------------
(* Faulty variants of the operators below: bugs the properties must notice. *)
NotDoubled(size) == size
Unmarked(k) == UNCHANGED taken
OffByOne(k) == k + 2
EnterAnyway(t) == writers' = {t} /\ UNCHANGED readers

Doubled(size) == 2 * size
Mark(k) == taken' = taken \cup {k}
NameOf(k) == k + 1
EnterWrite(t) == ThunkLock!BeginWrite(t)

(* NewThunkEntry *)

New(t) ==
  /\ Go(t, "idle", "scan")
  /\ ThunkLock!BeginRead(t)
  /\ i' = [i EXCEPT ![t] = 0]
  /\ UNCHANGED <<ThunkArraySize, taken, live, raced>>

(* One ExchangeInt of the scan: an entry that was clear is now the caller's. *)
Scan(t) ==
  /\ i[t] < ThunkArraySize
  /\ \/ /\ i[t] \in taken
        /\ Go(t, "scan", "scan")
        /\ i' = [i EXCEPT ![t] = @ + 1]
        /\ UNCHANGED taken
     \/ /\ i[t] \notin taken
        /\ Go(t, "scan", "found")
        /\ Mark(i[t])
        /\ UNCHANGED i
  /\ UNCHANGED <<readers, writers, ThunkArraySize, live, raced>>

Return(t) == live' = [live EXCEPT ![NameOf(i[t])] = @ + 1]

Found(t) ==
  /\ Go(t, "found", "idle")
  /\ ThunkLock!EndRead(t)
  /\ Return(t)
  /\ UNCHANGED <<ThunkArraySize, taken, i, raced>>

(* Every entry was taken: leave the read section, and come back to grow. *)
Full(t) ==
  /\ i[t] = ThunkArraySize
  /\ Go(t, "scan", "full")
  /\ ThunkLock!EndRead(t)
  /\ UNCHANGED <<ThunkArraySize, taken, i, live, raced>>

EnterGrow(t) ==
  /\ Go(t, "full", "grow")
  /\ EnterWrite(t)
  /\ UNCHANGED <<ThunkArraySize, taken, i, live, raced>>

(* The array doubles, and the entry the scan ended at is set.  It is the    *)
(* first new entry only if nobody grew the array in between.                *)
Grow(t) ==
  /\ Go(t, "grow", "grown")
  /\ 2 * ThunkArraySize <= MaxSize
  /\ ThunkArraySize' = Doubled(ThunkArraySize)
  /\ Mark(i[t])
  /\ raced' = (raced \/ i[t] # ThunkArraySize)
  /\ UNCHANGED <<readers, writers, i, live>>

GrowFails(t) ==
  /\ Go(t, "grow", "idle")
  /\ ThunkLock!EndWrite(t)
  /\ UNCHANGED <<ThunkArraySize, taken, i, live, raced>>

Grown(t) ==
  /\ Go(t, "grown", "idle")
  /\ ThunkLock!EndWrite(t)
  /\ Return(t)
  /\ UNCHANGED <<ThunkArraySize, taken, i, raced>>

-----------------------------------------------------------------------------
(* FreeThunkEntry: its caller has already taken the object off its map *)

Free(t) ==
  /\ Go(t, "idle", "free")
  /\ ThunkLock!BeginRead(t)
  /\ \E n \in Name :
       /\ live[n] > 0
       /\ live' = [live EXCEPT ![n] = @ - 1]
       /\ i' = [i EXCEPT ![t] = n - 1]
  /\ UNCHANGED <<ThunkArraySize, taken, raced>>

Clear(t) ==
  /\ Go(t, "free", "freed")
  /\ taken' = IF i[t] + 1 <= ThunkArraySize THEN taken \ {i[t]} ELSE taken
  /\ UNCHANGED <<readers, writers, ThunkArraySize, i, live, raced>>

Freed(t) ==
  /\ Go(t, "freed", "idle")
  /\ ThunkLock!EndRead(t)
  /\ UNCHANGED <<ThunkArraySize, taken, i, live, raced>>

-----------------------------------------------------------------------------
Next ==
  \E t \in Thread :
    \/ New(t) \/ Scan(t) \/ Found(t) \/ Full(t)
    \/ EnterGrow(t) \/ Grow(t) \/ GrowFails(t) \/ Grown(t)
    \/ Free(t) \/ Clear(t) \/ Freed(t)

Spec == Init /\ [][Next]_vars

-----------------------------------------------------------------------------
(* The names that calls in progress hold: about to be handed out, or handed *)
(* back and not yet cleared.                                                *)
Holders(n) == {t \in Thread : pc[t] \in {"found", "grown", "free"} /\ i[t] + 1 = n}

(* No two objects have one name, as alGenBuffers, alGenSources and the rest *)
(* promise: "Names are guaranteed to be unique within a class".             *)
NamesUnique == \A n \in Name : live[n] <= 1

(* Names can only collide after two threads found the array full together   *)
(* and the second grew it with the index it scanned before the first did.   *)
UniqueUnlessRaced == ~raced => NamesUnique

(* The index a scan leaves behind stays inside the array however often      *)
(* others grow it before it is written, and so does every name handed out.  *)
IndexInBounds ==
  /\ \A n \in Name : live[n] > 0 \/ Holders(n) # {} => n <= ThunkArraySize
  /\ \A t \in Thread : pc[t] \in {"full", "grow"} => i[t] <= ThunkArraySize

(* The array is moved and extended only while no scan or clear reads it.    *)
ArrayMovesUnread == [][ThunkArraySize' # ThunkArraySize => readers = {}]_vars
=============================================================================
