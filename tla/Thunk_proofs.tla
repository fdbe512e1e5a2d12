----------------------------- MODULE Thunk_proofs -----------------------------
(***************************************************************************)
(* Proofs about the name allocator and about the lock it runs under.       *)
(*                                                                         *)
(* The allocator, for any number of threads and any size of the array, uses*)
(* the abstract lock ReadersWriters; the second half proves that the spin  *)
(* lock of RWLock implements it for any finite set of callers.             *)
(*                                                                         *)
(* The allocator's inductive invariant adds to the type invariant who is   *)
(* in the lock (LockInv), where the local indices stand (BoundsInv) and,   *)
(* until the array has been grown with a stale index, that every name is   *)
(* in one place only (UniqueInv).                                          *)
(***************************************************************************)
EXTENDS Thunk, RWLock, FiniteSetTheorems, TLAPS

InRead == {"scan", "found", "free", "freed"}
InWrite == {"grow", "grown"}
Hold == {"found", "grown", "free"}

(* A thread's place says whether it is in the read or the write section.    *)
LockInv ==
  /\ \A t \in Thread : pc[t] \in InRead <=> t \in readers
  /\ \A t \in Thread : pc[t] \in InWrite <=> t \in writers
  /\ readers = {} \/ writers = {}
  /\ \A t, u \in writers : t = u

BoundsInv ==
  /\ \A n \in Name : live[n] > 0 => n <= ThunkArraySize
  /\ \A t \in Thread : pc[t] \in Hold => i[t] < ThunkArraySize
  /\ \A t \in Thread : pc[t] \in {"full", "grow"} => i[t] <= ThunkArraySize

(* The names of objects and the names threads hold are all taken, and no    *)
(* two of them are the same.                                                *)
Separate ==
  /\ \A n \in Name : live[n] <= 1
  /\ \A n \in Name : live[n] > 0 => n - 1 \in taken
  /\ \A t \in Thread : pc[t] \in Hold => i[t] \in taken
  /\ \A t \in Thread, n \in Name : pc[t] \in Hold /\ live[n] > 0 => i[t] # n - 1
  /\ \A t, u \in Thread : pc[t] \in Hold /\ pc[u] \in Hold /\ i[t] = i[u] => t = u

UniqueInv == ~raced => Separate

IInv == TypeOK /\ LockInv /\ BoundsInv /\ UniqueInv

-----------------------------------------------------------------------------
(* The invariant holds before the first call (ThunkInit).                   *)
LEMMA InitIInv == Init => IInv
<1> SUFFICES ASSUME Init PROVE IInv
  OBVIOUS
<1> USE MaxSizeAssumption DEF Init, ThunkLock!Init, Name
<1>1. TypeOK
  <2>1. raced \in BOOLEAN
    OBVIOUS
  <2>2. pc \in [Thread -> Places] /\ i \in [Thread -> 0 .. MaxSize] /\ live \in [Name -> Nat]
    BY DEF Places
  <2> QED
    BY <2>1, <2>2 DEF TypeOK, ThunkLock!TypeOK
<1>2. LockInv
  BY DEF LockInv, InRead, InWrite
<1>3. BoundsInv
  BY DEF BoundsInv, Hold
<1>4. UniqueInv
  BY DEF UniqueInv, Separate, Hold
<1> QED
  BY <1>1, <1>2, <1>3, <1>4 DEF IInv

(* Every step of NewThunkEntry and FreeThunkEntry keeps the variables in    *)
(* their types: no index leaves the array.                                  *)
LEMMA TypeStep == IInv /\ [Next]_vars => TypeOK'
<1> SUFFICES ASSUME IInv, [Next]_vars PROVE TypeOK'
  OBVIOUS
<1> USE MaxSizeAssumption DEF IInv, TypeOK, ThunkLock!TypeOK, Name, Places, Go
<1>1. ASSUME NEW t \in Thread, New(t) PROVE TypeOK'
  BY <1>1 DEF New, ThunkLock!BeginRead
<1>2. ASSUME NEW t \in Thread, Scan(t) PROVE TypeOK'
  <2>1. CASE i[t] \in taken
    <3>1. i[t] + 1 \in 0 .. MaxSize
      BY <1>2 DEF Scan
    <3>2. i' \in [Thread -> 0 .. MaxSize]
      BY <1>2, <2>1, <3>1 DEF Scan
    <3> QED
      BY <1>2, <2>1, <3>2 DEF Scan
  <2>2. CASE i[t] \notin taken
    <3>1. i[t] \in 0 .. ThunkArraySize - 1
      BY <1>2 DEF Scan
    <3>2. taken' \subseteq 0 .. ThunkArraySize' - 1
      BY <1>2, <2>2, <3>1 DEF Scan, Mark
    <3> QED
      BY <1>2, <2>2, <3>2 DEF Scan
  <2> QED
    BY <2>1, <2>2
<1>3. ASSUME NEW t \in Thread, Found(t) PROVE TypeOK'
  <2>1. live' \in [Name -> Nat]
    <3>1. live' = [live EXCEPT ![i[t] + 1] = live[i[t] + 1] + 1] /\ i[t] + 1 \in Name
      BY <1>3 DEF Found, Return, NameOf, BoundsInv, Hold
    <3> QED
      BY <3>1
  <2> QED
    BY <1>3, <2>1, Zenon DEF Found, ThunkLock!EndRead
<1>4. ASSUME NEW t \in Thread, Full(t) PROVE TypeOK'
  BY <1>4 DEF Full, ThunkLock!EndRead
<1>5. ASSUME NEW t \in Thread, EnterGrow(t) PROVE TypeOK'
  BY <1>5 DEF EnterGrow, EnterWrite, ThunkLock!BeginWrite
<1>6. ASSUME NEW t \in Thread, Grow(t) PROVE TypeOK'
  <2>1. ThunkArraySize' \in Name /\ taken' \subseteq 0 .. ThunkArraySize' - 1
    <3>1. ThunkArraySize' = 2 * ThunkArraySize /\ 2 * ThunkArraySize <= MaxSize
      BY <1>6 DEF Grow, Doubled
    <3>2. i[t] \in 0 .. 2 * ThunkArraySize - 1
      BY <1>6 DEF Grow, BoundsInv
    <3>3. taken' = taken \cup {i[t]}
      BY <1>6 DEF Grow, Mark
    <3>4. 2 * ThunkArraySize \in 1 .. MaxSize
      BY <3>1
    <3>5. \A k \in taken \cup {i[t]} : k \in 0 .. 2 * ThunkArraySize - 1
      BY <3>2
    <3> QED
      BY <3>1, <3>3, <3>4, <3>5
  <2>2. raced' \in BOOLEAN
    BY <1>6 DEF Grow
  <2> QED
    BY <1>6, <2>1, <2>2 DEF Grow
<1>7. ASSUME NEW t \in Thread, GrowFails(t) PROVE TypeOK'
  BY <1>7 DEF GrowFails, ThunkLock!EndWrite
<1>8. ASSUME NEW t \in Thread, Grown(t) PROVE TypeOK'
  <2>1. live' \in [Name -> Nat]
    <3>1. live' = [live EXCEPT ![i[t] + 1] = live[i[t] + 1] + 1] /\ i[t] + 1 \in Name
      BY <1>8 DEF Grown, Return, NameOf, BoundsInv, Hold
    <3> QED
      BY <3>1
  <2> QED
    BY <1>8, <2>1 DEF Grown, ThunkLock!EndWrite
<1>9. ASSUME NEW t \in Thread, Free(t) PROVE TypeOK'
  BY <1>9 DEF Free, ThunkLock!BeginRead
<1>10. ASSUME NEW t \in Thread, Clear(t) PROVE TypeOK'
  BY <1>10 DEF Clear
<1>11. ASSUME NEW t \in Thread, Freed(t) PROVE TypeOK'
  BY <1>11 DEF Freed, ThunkLock!EndRead
<1>12. CASE UNCHANGED vars
  BY <1>12 DEF vars
<1> QED
  BY <1>1, <1>2, <1>3, <1>4, <1>5, <1>6, <1>7, <1>8, <1>9, <1>10, <1>11, <1>12 DEF Next

(* The places of the threads and the sections of the lock move together.    *)
LEMMA LockStep == IInv /\ [Next]_vars => LockInv'
<1> SUFFICES ASSUME IInv, [Next]_vars PROVE LockInv'
  OBVIOUS
<1> USE DEF IInv, TypeOK, ThunkLock!TypeOK, LockInv, InRead, InWrite, Places, Go
<1>1. ASSUME NEW t \in Thread, New(t) PROVE LockInv'
  BY <1>1 DEF New, ThunkLock!BeginRead
<1>2. ASSUME NEW t \in Thread, Scan(t) PROVE LockInv'
  BY <1>2 DEF Scan
<1>3. ASSUME NEW t \in Thread, Found(t) PROVE LockInv'
  BY <1>3 DEF Found, ThunkLock!EndRead
<1>4. ASSUME NEW t \in Thread, Full(t) PROVE LockInv'
  BY <1>4 DEF Full, ThunkLock!EndRead
<1>5. ASSUME NEW t \in Thread, EnterGrow(t) PROVE LockInv'
  BY <1>5 DEF EnterGrow, EnterWrite, ThunkLock!BeginWrite
<1>6. ASSUME NEW t \in Thread, Grow(t) PROVE LockInv'
  BY <1>6 DEF Grow
<1>7. ASSUME NEW t \in Thread, GrowFails(t) PROVE LockInv'
  BY <1>7 DEF GrowFails, ThunkLock!EndWrite
<1>8. ASSUME NEW t \in Thread, Grown(t) PROVE LockInv'
  BY <1>8 DEF Grown, ThunkLock!EndWrite
<1>9. ASSUME NEW t \in Thread, Free(t) PROVE LockInv'
  BY <1>9 DEF Free, ThunkLock!BeginRead
<1>10. ASSUME NEW t \in Thread, Clear(t) PROVE LockInv'
  BY <1>10 DEF Clear
<1>11. ASSUME NEW t \in Thread, Freed(t) PROVE LockInv'
  BY <1>11 DEF Freed, ThunkLock!EndRead
<1>12. CASE UNCHANGED vars
  BY <1>12 DEF vars
<1> QED
  BY <1>1, <1>2, <1>3, <1>4, <1>5, <1>6, <1>7, <1>8, <1>9, <1>10, <1>11, <1>12 DEF Next

(* The array never shrinks, so an index that was in it stays in it.         *)
LEMMA BoundsStep == IInv /\ [Next]_vars => BoundsInv'
<1> SUFFICES ASSUME IInv, [Next]_vars PROVE BoundsInv'
  OBVIOUS
<1> USE MaxSizeAssumption DEF IInv, TypeOK, BoundsInv, Hold, Name, Places, Go
<1>1. ASSUME NEW t \in Thread, New(t) PROVE BoundsInv'
  BY <1>1 DEF New
<1>2. ASSUME NEW t \in Thread, Scan(t) PROVE BoundsInv'
  BY <1>2 DEF Scan
<1>3. ASSUME NEW t \in Thread, Found(t) PROVE BoundsInv'
  BY <1>3 DEF Found, Return, NameOf
<1>4. ASSUME NEW t \in Thread, Full(t) PROVE BoundsInv'
  BY <1>4 DEF Full
<1>5. ASSUME NEW t \in Thread, EnterGrow(t) PROVE BoundsInv'
  BY <1>5 DEF EnterGrow
<1>6. ASSUME NEW t \in Thread, Grow(t) PROVE BoundsInv'
  BY <1>6 DEF Grow, Doubled
<1>7. ASSUME NEW t \in Thread, GrowFails(t) PROVE BoundsInv'
  BY <1>7 DEF GrowFails
<1>8. ASSUME NEW t \in Thread, Grown(t) PROVE BoundsInv'
  BY <1>8 DEF Grown, Return, NameOf
<1>9. ASSUME NEW t \in Thread, Free(t) PROVE BoundsInv'
  BY <1>9 DEF Free
<1>10. ASSUME NEW t \in Thread, Clear(t) PROVE BoundsInv'
  BY <1>10 DEF Clear
<1>11. ASSUME NEW t \in Thread, Freed(t) PROVE BoundsInv'
  BY <1>11 DEF Freed
<1>12. CASE UNCHANGED vars
  BY <1>12 DEF vars
<1> QED
  BY <1>1, <1>2, <1>3, <1>4, <1>5, <1>6, <1>7, <1>8, <1>9, <1>10, <1>11, <1>12 DEF Next

(* Without a stale growth every name stays in one place: a scan takes an    *)
(* index nobody has, a growth takes the first new one, and a name that is   *)
(* handed back is off its object's map before it is cleared.                *)
LEMMA UniqueStep == IInv /\ [Next]_vars => UniqueInv'
<1> SUFFICES ASSUME IInv, [Next]_vars, ~raced' PROVE Separate'
  BY DEF UniqueInv
<1> USE MaxSizeAssumption DEF IInv, TypeOK, BoundsInv, UniqueInv, Separate, Hold, Name, Places, Go
<1>1. ASSUME NEW t \in Thread, New(t) PROVE Separate'
  BY <1>1 DEF New
<1>2. ASSUME NEW t \in Thread, Scan(t) PROVE Separate'
  BY <1>2 DEF Scan, Mark
<1>3. ASSUME NEW t \in Thread, Found(t) PROVE Separate'
  BY <1>3 DEF Found, Return, NameOf
<1>4. ASSUME NEW t \in Thread, Full(t) PROVE Separate'
  BY <1>4 DEF Full
<1>5. ASSUME NEW t \in Thread, EnterGrow(t) PROVE Separate'
  BY <1>5 DEF EnterGrow
<1>6. ASSUME NEW t \in Thread, Grow(t) PROVE Separate'
  <2>1. ~raced /\ i[t] = ThunkArraySize
    BY <1>6 DEF Grow
  <2>2. i[t] \notin taken /\ taken' = taken \cup {i[t]}
    BY <1>6, <2>1 DEF Grow, Mark
  <2>3. /\ pc' = [pc EXCEPT ![t] = "grown"] /\ pc[t] = "grow"
        /\ i' = i /\ live' = live
    BY <1>6 DEF Grow
  <2>4. \A n \in Name : live'[n] > 0 => n - 1 \in taken' /\ i[t] # n - 1
    BY <2>1, <2>2, <2>3
  <2>5. \A u \in Thread : pc'[u] \in Hold => u = t \/ (pc[u] \in Hold /\ i[u] \in taken)
    BY <2>1, <2>3
  <2> QED
    BY <2>1, <2>2, <2>3, <2>4, <2>5
<1>7. ASSUME NEW t \in Thread, GrowFails(t) PROVE Separate'
  BY <1>7 DEF GrowFails
<1>8. ASSUME NEW t \in Thread, Grown(t) PROVE Separate'
  BY <1>8 DEF Grown, Return, NameOf
<1>9. ASSUME NEW t \in Thread, Free(t) PROVE Separate'
  BY <1>9 DEF Free
<1>10. ASSUME NEW t \in Thread, Clear(t) PROVE Separate'
  BY <1>10 DEF Clear
<1>11. ASSUME NEW t \in Thread, Freed(t) PROVE Separate'
  BY <1>11 DEF Freed
<1>12. CASE UNCHANGED vars
  BY <1>12 DEF vars
<1> QED
  BY <1>1, <1>2, <1>3, <1>4, <1>5, <1>6, <1>7, <1>8, <1>9, <1>10, <1>11, <1>12 DEF Next

(* The strengthened invariant is an invariant of the allocator.             *)
THEOREM Inductive == Spec => []IInv
<1>1. IInv /\ [Next]_vars => IInv'
  BY TypeStep, LockStep, BoundsStep, UniqueStep DEF IInv
<1> QED
  BY InitIInv, <1>1, PTL DEF Spec

(* Type correctness of NewThunkEntry and FreeThunkEntry.                    *)
THEOREM TypeCorrect == Spec => []TypeOK
<1>1. IInv => TypeOK
  BY DEF IInv
<1> QED
  BY Inductive, <1>1, PTL

(* NewThunkEntry hands out no name twice, unless a thread has grown the     *)
(* array at an index it scanned before another thread grew it.              *)
THEOREM Uniqueness == Spec => []UniqueUnlessRaced
<1>1. IInv => UniqueUnlessRaced
  BY DEF IInv, UniqueInv, Separate, UniqueUnlessRaced, NamesUnique
<1> QED
  BY Inductive, <1>1, PTL

(* Even after such a race no index and no name lies outside the array.      *)
THEOREM InBounds == Spec => []IndexInBounds
<1>1. IInv => IndexInBounds
  BY MaxSizeAssumption DEF IInv, TypeOK, BoundsInv, IndexInBounds, Holders, Hold, Name
<1> QED
  BY Inductive, <1>1, PTL

(* realloc runs only while nobody scans the array or clears an entry.       *)
THEOREM MovesUnread == Spec => ArrayMovesUnread
<1>1. IInv /\ [Next]_vars => [ThunkArraySize' # ThunkArraySize => readers = {}]_vars
  <2> SUFFICES ASSUME IInv, Next, ThunkArraySize' # ThunkArraySize PROVE readers = {}
    BY DEF vars
  <2>1. PICK t \in Thread : Grow(t)
    BY DEF Next, New, Scan, Found, Full, EnterGrow, GrowFails, Grown, Free, Clear, Freed
  <2>2. t \in writers
    BY <2>1 DEF Grow, Go, IInv, LockInv, InWrite
  <2> QED
    BY <2>2 DEF IInv, LockInv
<1> QED
  BY Inductive, <1>1, PTL DEF Spec, ArrayMovesUnread

-----------------------------------------------------------------------------
(***************************************************************************)
(* The spin lock.  MutualExclusion says nothing of the words and the       *)
(* counters; the inductive invariant adds, for each of them, which places  *)
(* of the callers it stands for:                                           *)
(*   CountInv   read_count and write_count count readers and writers;      *)
(*   EntryInv   read_entry_lock admits one reader at a time;               *)
(*   WordInv    write_lock is held by the readers together or one writer;  *)
(*   OwnInv     read_lock is held by an entering reader or by the writers  *)
(*              together, across the hand-over between them.               *)
(***************************************************************************)
ReadCounted == {"r_write", "r_unlock", "r_exit", "reading"}
WriteCounted == {"w_read", "w_write", "writing", "w_count"}
Entering == {"r_lock", "r_count", "r_write", "r_unlock", "r_exit"}
Inside == {"r_unlock", "r_exit", "reading", "r_release"}
HasReadLock == {"r_count", "r_write", "r_unlock"}

CountInv ==
  /\ read_count = Cardinality(At(ReadCounted))
  /\ write_count = Cardinality(At(WriteCounted))

EntryInv ==
  /\ \A t \in Caller : place[t] \in Entering => read_entry_lock
  /\ \A t, u \in Caller : place[t] \in Entering /\ place[u] \in Entering => t = u

WordInv ==
  /\ \A t \in Caller : place[t] \in Inside \cup {"writing"} => write_lock
  /\ \A t, u \in Caller : place[t] = "writing" /\ place[u] \in Inside \cup {"writing"} => t = u
  /\ \A t, u \in Caller : place[t] = "r_release" /\ place[u] \in Inside => t = u
  /\ \A t, u \in Caller : place[t] = "r_write" /\ place[u] \in ReadCounted => t = u

(* Some writer counts and none waits for read_lock, or it is being released.*)
WritersOwn ==
  \/ /\ \E t \in Caller : place[t] \in WriteCounted
     /\ \A t \in Caller : place[t] # "w_read"
  \/ \E t \in Caller : place[t] = "w_release"

OwnInv ==
  /\ \A t \in Caller : place[t] \in HasReadLock => read_lock
  /\ WritersOwn => read_lock /\ \A t \in Caller : place[t] \notin HasReadLock
  /\ \A t, u \in Caller : place[t] = "w_read" /\ place[u] = "w_read" => t = u
  /\ \A t, u \in Caller : place[t] = "w_release" /\ place[u] = "w_release" => t = u
  /\ \A t, u \in Caller : place[t] = "w_release" /\ place[u] \in WriteCounted
       => \E v \in Caller : place[v] = "w_read"

LockIInv == LockTypeOK /\ CountInv /\ EntryInv /\ WordInv /\ OwnInv

-----------------------------------------------------------------------------
(* The size of a finite set tells whether it was empty before one element   *)
(* came in, and whether an element that leaves was its only one.            *)
LEMMA Enter ==
  ASSUME NEW S, IsFiniteSet(S), NEW x, x \notin S
  PROVE  /\ Cardinality(S \cup {x}) = Cardinality(S) + 1
         /\ Cardinality(S) + 1 = 1 <=> S = {}
  BY FS_AddElement, FS_CardinalityType, FS_EmptySet

LEMMA Depart ==
  ASSUME NEW S, IsFiniteSet(S), NEW x \in S
  PROVE  /\ Cardinality(S \ {x}) = Cardinality(S) - 1
         /\ Cardinality(S) - 1 = 0 <=> S = {x}
         /\ Cardinality(S) > 0
<1>1. /\ IsFiniteSet(S \ {x}) /\ Cardinality(S \ {x}) = Cardinality(S) - 1
  BY FS_RemoveElement
<1>2. Cardinality(S \ {x}) = 0 <=> S \ {x} = {}
  BY <1>1, FS_EmptySet
<1>3. Cardinality(S) > 0
  BY FS_EmptySet, FS_CardinalityType
<1> QED
  BY <1>1, <1>2, <1>3

(* What the counters tell the thread that changes them: whether any other   *)
(* reader, or writer, is counted.                                           *)
LEMMA Alone ==
  ASSUME LockTypeOK, CountInv, NEW t \in Caller
  PROVE  /\ place[t] \notin ReadCounted =>
              (read_count + 1 = 1 <=> \A u \in Caller : place[u] \notin ReadCounted)
         /\ place[t] \in ReadCounted =>
              (read_count - 1 = 0 <=> \A u \in Caller : place[u] \in ReadCounted => u = t)
         /\ place[t] \notin WriteCounted =>
              (write_count + 1 = 1 <=> \A u \in Caller : place[u] \notin WriteCounted)
         /\ place[t] \in WriteCounted =>
              (write_count - 1 = 0 <=> \A u \in Caller : place[u] \in WriteCounted => u = t)
         /\ place[t] \in ReadCounted => read_count > 0
         /\ place[t] \in WriteCounted => write_count > 0
<1>1. IsFiniteSet(At(ReadCounted)) /\ IsFiniteSet(At(WriteCounted))
  BY CallerAssumption, FS_Subset DEF At
<1>2. ASSUME place[t] \notin ReadCounted
      PROVE read_count + 1 = 1 <=> \A u \in Caller : place[u] \notin ReadCounted
  BY <1>1, <1>2, Enter DEF CountInv, At
<1>3. ASSUME place[t] \in ReadCounted
      PROVE /\ read_count - 1 = 0 <=> \A u \in Caller : place[u] \in ReadCounted => u = t
            /\ read_count > 0
  <2>1. t \in At(ReadCounted)
    BY <1>3 DEF At
  <2>2. (read_count - 1 = 0 <=> At(ReadCounted) = {t}) /\ read_count > 0
    BY <1>1, <2>1, Depart DEF CountInv
  <2> QED
    BY <2>1, <2>2 DEF At
<1>4. ASSUME place[t] \notin WriteCounted
      PROVE write_count + 1 = 1 <=> \A u \in Caller : place[u] \notin WriteCounted
  BY <1>1, <1>4, Enter DEF CountInv, At
<1>5. ASSUME place[t] \in WriteCounted
      PROVE /\ write_count - 1 = 0 <=> \A u \in Caller : place[u] \in WriteCounted => u = t
            /\ write_count > 0
  <2>1. t \in At(WriteCounted)
    BY <1>5 DEF At
  <2>2. (write_count - 1 = 0 <=> At(WriteCounted) = {t}) /\ write_count > 0
    BY <1>1, <2>1, Depart DEF CountInv
  <2> QED
    BY <2>1, <2>2 DEF At
<1> QED
  BY <1>2, <1>3, <1>4, <1>5

-----------------------------------------------------------------------------
(* The invariant holds after RWLockInit.                                    *)
LEMMA LockInitIInv == LockInit => LockIInv
<1> SUFFICES ASSUME LockInit PROVE LockIInv
  OBVIOUS
<1>1. LockTypeOK
  BY DEF LockInit, LockTypeOK, LockPlaces
<1>2. CountInv
  <2>1. At(ReadCounted) = {} /\ At(WriteCounted) = {}
    BY DEF LockInit, At, ReadCounted, WriteCounted
  <2> QED
    BY <2>1, FS_EmptySet DEF CountInv, LockInit
<1>3. EntryInv /\ WordInv /\ OwnInv
  BY DEF LockInit, EntryInv, WordInv, OwnInv, WritersOwn, Entering, Inside, HasReadLock,
     ReadCounted, WriteCounted
<1> QED
  BY <1>1, <1>2, <1>3 DEF LockIInv

(* Every step keeps the variables in their types: the counters never go     *)
(* below zero.                                                              *)
LEMMA LockTypeStep == LockIInv /\ [LockNext]_lockVars => LockTypeOK'
<1> SUFFICES ASSUME LockIInv, [LockNext]_lockVars PROVE LockTypeOK'
  OBVIOUS
<1> USE DEF LockIInv, LockTypeOK, LockPlaces, ReaderPlaces, WriterPlaces, Move
<1>1. ASSUME NEW t \in Caller, ReadEntry(t) PROVE LockTypeOK'
  BY <1>1 DEF ReadEntry, Lock
<1>2. ASSUME NEW t \in Caller, ReadTakeReadLock(t) PROVE LockTypeOK'
  BY <1>2 DEF ReadTakeReadLock, Lock
<1>3. ASSUME NEW t \in Caller, ReadCount(t) PROVE LockTypeOK'
  BY <1>3 DEF ReadCount, IncrementRef, FirstReader
<1>4. ASSUME NEW t \in Caller, ReadTakeWriteLock(t) PROVE LockTypeOK'
  BY <1>4 DEF ReadTakeWriteLock, Lock
<1>5. ASSUME NEW t \in Caller, ReadDropReadLock(t) PROVE LockTypeOK'
  BY <1>5 DEF ReadDropReadLock, Unlock
<1>6. ASSUME NEW t \in Caller, ReadExit(t) PROVE LockTypeOK'
  BY <1>6 DEF ReadExit, Unlock
<1>7. ASSUME NEW t \in Caller, ReadUncount(t) PROVE LockTypeOK'
  BY <1>7, Alone DEF ReadCounted, ReadUncount, DecrementRef, LastReader
<1>8. ASSUME NEW t \in Caller, ReadDropWriteLock(t) PROVE LockTypeOK'
  BY <1>8 DEF ReadDropWriteLock, Unlock
<1>9. ASSUME NEW t \in Caller, WriteCount(t) PROVE LockTypeOK'
  BY <1>9 DEF WriteCount, IncrementRef, FirstWriter
<1>10. ASSUME NEW t \in Caller, WriteTakeReadLock(t) PROVE LockTypeOK'
  BY <1>10 DEF WriteTakeReadLock, Lock
<1>11. ASSUME NEW t \in Caller, WriteTakeWriteLock(t) PROVE LockTypeOK'
  BY <1>11 DEF WriteTakeWriteLock, Lock
<1>12. ASSUME NEW t \in Caller, WriteDropWriteLock(t) PROVE LockTypeOK'
  BY <1>12 DEF WriteDropWriteLock, Unlock
<1>13. ASSUME NEW t \in Caller, WriteUncount(t) PROVE LockTypeOK'
  BY <1>13, Alone DEF WriteCounted, WriteUncount, DecrementRef, LastWriter
<1>14. ASSUME NEW t \in Caller, WriteDropReadLock(t) PROVE LockTypeOK'
  BY <1>14 DEF WriteDropReadLock, Unlock
<1>15. CASE UNCHANGED lockVars
  BY <1>15 DEF lockVars
<1> QED
  BY <1>1, <1>2, <1>3, <1>4, <1>5, <1>6, <1>7, <1>8, <1>9, <1>10, <1>11, <1>12, <1>13, <1>14, <1>15 DEF LockNext, Continue

(* The readers and the writers that have counted themselves are as many as  *)
(* the counters say.                                                        *)
LEMMA CountStep == LockIInv /\ [LockNext]_lockVars => CountInv'
<1> SUFFICES ASSUME LockIInv, [LockNext]_lockVars PROVE CountInv'
  OBVIOUS
<1> USE DEF LockIInv, LockTypeOK, CountInv, At, ReadCounted, WriteCounted, LockPlaces, Move
<1>a. IsFiniteSet(At(ReadCounted)) /\ IsFiniteSet(At(WriteCounted))
  BY CallerAssumption, FS_Subset
<1>1. ASSUME NEW t \in Caller, ReadCount(t) PROVE CountInv'
  <2>1. t \notin At(ReadCounted)
    BY <1>1 DEF ReadCount
  <2>2. At(ReadCounted)' = At(ReadCounted) \cup {t} /\ At(WriteCounted)' = At(WriteCounted)
    BY <1>1 DEF ReadCount
  <2> QED
    BY <1>a, <1>1, <2>1, <2>2, Enter DEF ReadCount, IncrementRef
<1>2. ASSUME NEW t \in Caller, ReadUncount(t) PROVE CountInv'
  <2>1. t \in At(ReadCounted)
    BY <1>2 DEF ReadUncount
  <2>2. At(ReadCounted)' = At(ReadCounted) \ {t} /\ At(WriteCounted)' = At(WriteCounted)
    BY <1>2 DEF ReadUncount
  <2>3. Cardinality(At(ReadCounted) \ {t}) = Cardinality(At(ReadCounted)) - 1
    <3> HIDE DEF At
    <3> QED
      BY <1>a, <2>1, Depart
  <2> QED
    BY <1>2, <2>2, <2>3 DEF ReadUncount, DecrementRef
<1>3. ASSUME NEW t \in Caller, WriteCount(t) PROVE CountInv'
  <2>1. t \notin At(WriteCounted)
    BY <1>3 DEF WriteCount
  <2>2. At(WriteCounted)' = At(WriteCounted) \cup {t} /\ At(ReadCounted)' = At(ReadCounted)
    BY <1>3 DEF WriteCount
  <2> QED
    BY <1>a, <1>3, <2>1, <2>2, Enter DEF WriteCount, IncrementRef
<1>4. ASSUME NEW t \in Caller, WriteUncount(t) PROVE CountInv'
  <2>1. t \in At(WriteCounted)
    BY <1>4 DEF WriteUncount
  <2>2. At(WriteCounted)' = At(WriteCounted) \ {t} /\ At(ReadCounted)' = At(ReadCounted)
    BY <1>4 DEF WriteUncount
  <2>3. Cardinality(At(WriteCounted) \ {t}) = Cardinality(At(WriteCounted)) - 1
    <3> HIDE DEF At
    <3> QED
      BY <1>a, <2>1, Depart
  <2> QED
    BY <1>4, <2>2, <2>3 DEF WriteUncount, DecrementRef
(* The other steps move a thread between places that count alike.           *)
<1>5. ASSUME NEW t \in Caller,
             \/ ReadEntry(t) \/ ReadTakeReadLock(t) \/ ReadTakeWriteLock(t)
             \/ ReadDropReadLock(t) \/ ReadExit(t) \/ ReadDropWriteLock(t)
             \/ WriteTakeReadLock(t) \/ WriteTakeWriteLock(t)
             \/ WriteDropWriteLock(t) \/ WriteDropReadLock(t)
      PROVE CountInv'
  <2>1. At(ReadCounted)' = At(ReadCounted)
    BY <1>5 DEF ReadEntry, ReadTakeReadLock, ReadTakeWriteLock, ReadDropReadLock, ReadExit,
       ReadDropWriteLock, WriteTakeReadLock, WriteTakeWriteLock, WriteDropWriteLock,
       WriteDropReadLock
  <2>2. At(WriteCounted)' = At(WriteCounted)
    BY <1>5 DEF ReadEntry, ReadTakeReadLock, ReadTakeWriteLock, ReadDropReadLock, ReadExit,
       ReadDropWriteLock, WriteTakeReadLock, WriteTakeWriteLock, WriteDropWriteLock,
       WriteDropReadLock
  <2>3. read_count' = read_count /\ write_count' = write_count
    BY <1>5 DEF ReadEntry, ReadTakeReadLock, ReadTakeWriteLock, ReadDropReadLock, ReadExit,
       ReadDropWriteLock, WriteTakeReadLock, WriteTakeWriteLock, WriteDropWriteLock,
       WriteDropReadLock
  <2> QED
    BY <2>1, <2>2, <2>3
<1>6. CASE UNCHANGED lockVars
  BY <1>6 DEF lockVars
<1> QED
  BY <1>1, <1>2, <1>3, <1>4, <1>5, <1>6 DEF LockNext, Continue

(* One reader at a time is between its entry and the end of ReadLock.       *)
LEMMA EntryStep == LockIInv /\ [LockNext]_lockVars => EntryInv'
<1> SUFFICES ASSUME LockIInv, [LockNext]_lockVars PROVE EntryInv'
  OBVIOUS
<1> USE DEF LockIInv, LockTypeOK, EntryInv, Entering, LockPlaces, Move
<1>1. ASSUME NEW t \in Caller, ReadEntry(t) PROVE EntryInv'
  BY <1>1 DEF ReadEntry, Lock
<1>2. ASSUME NEW t \in Caller, ReadTakeReadLock(t) PROVE EntryInv'
  BY <1>2 DEF ReadTakeReadLock, Lock
<1>3. ASSUME NEW t \in Caller, ReadCount(t) PROVE EntryInv'
  BY <1>3 DEF ReadCount, IncrementRef, FirstReader
<1>4. ASSUME NEW t \in Caller, ReadTakeWriteLock(t) PROVE EntryInv'
  BY <1>4 DEF ReadTakeWriteLock, Lock
<1>5. ASSUME NEW t \in Caller, ReadDropReadLock(t) PROVE EntryInv'
  BY <1>5 DEF ReadDropReadLock, Unlock
<1>6. ASSUME NEW t \in Caller, ReadExit(t) PROVE EntryInv'
  BY <1>6 DEF ReadExit, Unlock
<1>7. ASSUME NEW t \in Caller, ReadUncount(t) PROVE EntryInv'
  BY <1>7 DEF ReadUncount, DecrementRef, LastReader
<1>8. ASSUME NEW t \in Caller, ReadDropWriteLock(t) PROVE EntryInv'
  BY <1>8 DEF ReadDropWriteLock, Unlock
<1>9. ASSUME NEW t \in Caller, WriteCount(t) PROVE EntryInv'
  BY <1>9 DEF WriteCount, IncrementRef, FirstWriter
<1>10. ASSUME NEW t \in Caller, WriteTakeReadLock(t) PROVE EntryInv'
  BY <1>10 DEF WriteTakeReadLock, Lock
<1>11. ASSUME NEW t \in Caller, WriteTakeWriteLock(t) PROVE EntryInv'
  BY <1>11 DEF WriteTakeWriteLock, Lock
<1>12. ASSUME NEW t \in Caller, WriteDropWriteLock(t) PROVE EntryInv'
  BY <1>12 DEF WriteDropWriteLock, Unlock
<1>13. ASSUME NEW t \in Caller, WriteUncount(t) PROVE EntryInv'
  BY <1>13 DEF WriteUncount, DecrementRef, LastWriter
<1>14. ASSUME NEW t \in Caller, WriteDropReadLock(t) PROVE EntryInv'
  BY <1>14 DEF WriteDropReadLock, Unlock
<1>15. CASE UNCHANGED lockVars
  BY <1>15 DEF lockVars
<1> QED
  BY <1>1, <1>2, <1>3, <1>4, <1>5, <1>6, <1>7, <1>8, <1>9, <1>10, <1>11, <1>12, <1>13, <1>14, <1>15 DEF LockNext, Continue

(* write_lock belongs to one writer, or to the readers from the first one   *)
(* that takes it to the last one that is done.                              *)
LEMMA WordStep == LockIInv /\ [LockNext]_lockVars => WordInv'
<1> SUFFICES ASSUME LockIInv, [LockNext]_lockVars PROVE WordInv'
  OBVIOUS
<1> USE DEF LockIInv, LockTypeOK, EntryInv, WordInv, Entering, Inside, ReadCounted, LockPlaces, Move
<1>1. ASSUME NEW t \in Caller, ReadEntry(t) PROVE WordInv'
  BY <1>1 DEF ReadEntry, Lock
<1>2. ASSUME NEW t \in Caller, ReadTakeReadLock(t) PROVE WordInv'
  BY <1>2 DEF ReadTakeReadLock, Lock
<1>3. ASSUME NEW t \in Caller, ReadCount(t) PROVE WordInv'
  BY <1>3, Alone DEF ReadCount, IncrementRef, FirstReader
<1>4. ASSUME NEW t \in Caller, ReadTakeWriteLock(t) PROVE WordInv'
  BY <1>4 DEF ReadTakeWriteLock, Lock
<1>5. ASSUME NEW t \in Caller, ReadDropReadLock(t) PROVE WordInv'
  BY <1>5 DEF ReadDropReadLock, Unlock
<1>6. ASSUME NEW t \in Caller, ReadExit(t) PROVE WordInv'
  BY <1>6 DEF ReadExit, Unlock
<1>7. ASSUME NEW t \in Caller, ReadUncount(t) PROVE WordInv'
  BY <1>7, Alone DEF ReadUncount, DecrementRef, LastReader
<1>8. ASSUME NEW t \in Caller, ReadDropWriteLock(t) PROVE WordInv'
  BY <1>8 DEF ReadDropWriteLock, Unlock
<1>9. ASSUME NEW t \in Caller, WriteCount(t) PROVE WordInv'
  BY <1>9, Alone DEF WriteCount, IncrementRef, FirstWriter
<1>10. ASSUME NEW t \in Caller, WriteTakeReadLock(t) PROVE WordInv'
  BY <1>10 DEF WriteTakeReadLock, Lock
<1>11. ASSUME NEW t \in Caller, WriteTakeWriteLock(t) PROVE WordInv'
  BY <1>11 DEF WriteTakeWriteLock, Lock
<1>12. ASSUME NEW t \in Caller, WriteDropWriteLock(t) PROVE WordInv'
  BY <1>12 DEF WriteDropWriteLock, Unlock
<1>13. ASSUME NEW t \in Caller, WriteUncount(t) PROVE WordInv'
  BY <1>13, Alone DEF WriteUncount, DecrementRef, LastWriter
<1>14. ASSUME NEW t \in Caller, WriteDropReadLock(t) PROVE WordInv'
  BY <1>14 DEF WriteDropReadLock, Unlock
<1>15. CASE UNCHANGED lockVars
  BY <1>15 DEF lockVars
<1> QED
  BY <1>1, <1>2, <1>3, <1>4, <1>5, <1>6, <1>7, <1>8, <1>9, <1>10, <1>11, <1>12, <1>13, <1>14, <1>15 DEF LockNext, Continue

(* read_lock belongs to the reader that enters, or to the writers from the  *)
(* first one that takes it to the last one's release.                       *)
LEMMA OwnStep == LockIInv /\ [LockNext]_lockVars => OwnInv'
<1> SUFFICES ASSUME LockIInv, [LockNext]_lockVars PROVE OwnInv'
  OBVIOUS
<1> USE DEF LockIInv, LockTypeOK, EntryInv, OwnInv, WritersOwn, Entering, HasReadLock, WriteCounted, LockPlaces, Move
<1>1. ASSUME NEW t \in Caller, ReadEntry(t) PROVE OwnInv'
  BY <1>1 DEF ReadEntry, Lock
<1>2. ASSUME NEW t \in Caller, ReadTakeReadLock(t) PROVE OwnInv'
  BY <1>2 DEF ReadTakeReadLock, Lock
<1>3. ASSUME NEW t \in Caller, ReadCount(t) PROVE OwnInv'
  BY <1>3, Alone DEF ReadCount, IncrementRef, FirstReader
<1>4. ASSUME NEW t \in Caller, ReadTakeWriteLock(t) PROVE OwnInv'
  BY <1>4 DEF ReadTakeWriteLock, Lock
<1>5. ASSUME NEW t \in Caller, ReadDropReadLock(t) PROVE OwnInv'
  BY <1>5 DEF ReadDropReadLock, Unlock
<1>6. ASSUME NEW t \in Caller, ReadExit(t) PROVE OwnInv'
  BY <1>6 DEF ReadExit, Unlock
<1>7. ASSUME NEW t \in Caller, ReadUncount(t) PROVE OwnInv'
  BY <1>7, Alone DEF ReadUncount, DecrementRef, LastReader
<1>8. ASSUME NEW t \in Caller, ReadDropWriteLock(t) PROVE OwnInv'
  BY <1>8 DEF ReadDropWriteLock, Unlock
<1>9. ASSUME NEW t \in Caller, WriteCount(t) PROVE OwnInv'
  BY <1>9, Alone DEF WriteCount, IncrementRef, FirstWriter
<1>10. ASSUME NEW t \in Caller, WriteTakeReadLock(t) PROVE OwnInv'
  BY <1>10 DEF WriteTakeReadLock, Lock
<1>11. ASSUME NEW t \in Caller, WriteTakeWriteLock(t) PROVE OwnInv'
  BY <1>11 DEF WriteTakeWriteLock, Lock
<1>12. ASSUME NEW t \in Caller, WriteDropWriteLock(t) PROVE OwnInv'
  BY <1>12 DEF WriteDropWriteLock, Unlock
<1>13. ASSUME NEW t \in Caller, WriteUncount(t) PROVE OwnInv'
  BY <1>13, Alone DEF WriteUncount, DecrementRef, LastWriter
<1>14. ASSUME NEW t \in Caller, WriteDropReadLock(t) PROVE OwnInv'
  BY <1>14 DEF WriteDropReadLock, Unlock
<1>15. CASE UNCHANGED lockVars
  BY <1>15 DEF lockVars
<1> QED
  BY <1>1, <1>2, <1>3, <1>4, <1>5, <1>6, <1>7, <1>8, <1>9, <1>10, <1>11, <1>12, <1>13, <1>14, <1>15 DEF LockNext, Continue

-----------------------------------------------------------------------------
(* The strengthened invariant is an invariant of the lock.                  *)
THEOREM LockInductive == LockSpec => []LockIInv
<1>1. LockIInv /\ [LockNext]_lockVars => LockIInv'
  BY LockTypeStep, CountStep, EntryStep, WordStep, OwnStep DEF LockIInv
<1> QED
  BY LockInitIInv, <1>1, PTL DEF LockSpec

(* Type correctness of the lock: no counter goes below zero.                *)
THEOREM LockTypeCorrect == LockSpec => []LockTypeOK
<1>1. LockIInv => LockTypeOK
  BY DEF LockIInv
<1> QED
  BY LockInductive, <1>1, PTL

(* What is under the lock is never read while it is written, nor written by *)
(* two threads, however many threads there are.                             *)
THEOREM Exclusion == LockSpec => []MutualExclusion
<1>1. LockIInv => MutualExclusion
  BY DEF LockIInv, WordInv, Inside, MutualExclusion, Readers, Writers, At
<1> QED
  BY LockInductive, <1>1, PTL

(* Every step of ReadLock, ReadUnlock, WriteLock and WriteUnlock is a step  *)
(* of the abstract reader-writer lock, or changes nothing its users see.    *)
LEMMA StepImplements == LockIInv /\ LockIInv' /\ [LockNext]_lockVars => [Abstract!Next]_Abstract!lockVars
<1> SUFFICES ASSUME LockIInv, [LockNext]_lockVars PROVE [Abstract!Next]_Abstract!lockVars
  OBVIOUS
<1> USE DEF LockIInv, LockTypeOK, Readers, Writers, At, LockPlaces, Move
<1> DEFINE Same == Readers' = Readers /\ Writers' = Writers
<1>0. ASSUME Same PROVE [Abstract!Next]_Abstract!lockVars
  BY <1>0 DEF Abstract!lockVars
<1>1. ASSUME NEW t \in Caller,
             \/ ReadEntry(t) \/ ReadTakeReadLock(t) \/ ReadDropReadLock(t) \/ ReadExit(t)
             \/ ReadDropWriteLock(t) \/ WriteCount(t) \/ WriteTakeReadLock(t)
             \/ WriteUncount(t) \/ WriteDropReadLock(t)
      PROVE Same
  BY <1>1 DEF ReadEntry, ReadTakeReadLock, ReadDropReadLock, ReadExit, ReadDropWriteLock,
     WriteCount, WriteTakeReadLock, WriteUncount, WriteDropReadLock
<1>2. ASSUME NEW t \in Caller, ReadCount(t) PROVE Same \/ Abstract!BeginRead(t)
  <2>1. CASE FirstReader(read_count')
    BY <1>2, <2>1 DEF ReadCount
  <2>2. CASE ~FirstReader(read_count')
    <3>1. place[t] = "r_count" /\ place' = [place EXCEPT ![t] = "r_unlock"]
      BY <1>2, <2>2 DEF ReadCount
    <3>2. PICK u \in Caller : place[u] \in ReadCounted
      BY <1>2, <2>2, <3>1, Alone DEF ReadCount, FirstReader, IncrementRef, ReadCounted
    <3>3. place[u] \in Inside
      BY <3>1, <3>2 DEF EntryInv, Entering, ReadCounted, Inside
    <3>4. Writers = {}
      BY <3>3 DEF WordInv, Inside
    <3>5. t \notin Readers /\ Readers' = Readers \cup {t} /\ Writers' = Writers
      BY <3>1
    <3> QED
      BY <3>4, <3>5 DEF Abstract!BeginRead
  <2> QED
    BY <2>1, <2>2
<1>3. ASSUME NEW t \in Caller, ReadTakeWriteLock(t) PROVE Abstract!BeginRead(t)
  <2>1. Writers = {}
    BY <1>3 DEF ReadTakeWriteLock, Lock, WordInv
  <2>2. t \notin Readers /\ Readers' = Readers \cup {t} /\ Writers' = Writers
    BY <1>3 DEF ReadTakeWriteLock
  <2> QED
    BY <2>1, <2>2 DEF Abstract!BeginRead
<1>4. ASSUME NEW t \in Caller, ReadUncount(t) PROVE Abstract!EndRead(t)
  <2>1. t \in Readers /\ Readers' = Readers \ {t} /\ Writers' = Writers
    BY <1>4 DEF ReadUncount
  <2> QED
    BY <2>1 DEF Abstract!EndRead
<1>5. ASSUME NEW t \in Caller, WriteTakeWriteLock(t) PROVE Abstract!BeginWrite(t)
  <2>1. Readers = {} /\ Writers = {}
    BY <1>5 DEF WriteTakeWriteLock, Lock, WordInv, Inside
  <2>2. Readers' = Readers /\ Writers' = Writers \cup {t}
    BY <1>5 DEF WriteTakeWriteLock
  <2> QED
    BY <2>1, <2>2 DEF Abstract!BeginWrite
<1>6. ASSUME NEW t \in Caller, WriteDropWriteLock(t) PROVE Abstract!EndWrite(t)
  <2>1. t \in Writers /\ Readers' = Readers /\ Writers' = Writers \ {t}
    BY <1>6 DEF WriteDropWriteLock
  <2>2. Writers \subseteq {t}
    BY <2>1 DEF WordInv
  <2> QED
    BY <2>1, <2>2 DEF Abstract!EndWrite
<1>7. CASE UNCHANGED lockVars
  BY <1>7, <1>0 DEF lockVars
<1> QED
  BY <1>0, <1>1, <1>2, <1>3, <1>4, <1>5, <1>6, <1>7 DEF LockNext, Continue, Abstract!Next

(* The spin lock of helpers.c implements the reader-writer lock that        *)
(* alThunk.c and the maps of names rely on.                                 *)
THEOREM Implements == LockSpec => ImplementsReadersWriters
<1>1. LockInit => Abstract!Init
  BY DEF LockInit, Abstract!Init, Readers, Writers, At
<1> QED
  BY LockInductive, <1>1, StepImplements, PTL DEF LockSpec, ImplementsReadersWriters, Abstract!Spec

(* While the writers hold read_lock, no reader gets in before a writer.     *)
THEOREM Preference == LockSpec => WriterPreference
<1>1. LockIInv /\ [LockNext]_lockVars => [WritersBlockReaders => Readers' \subseteq Readers]_lockVars
  <2> SUFFICES ASSUME LockIInv, LockNext, WritersBlockReaders PROVE Readers' \subseteq Readers
    BY DEF lockVars
  <2>1. \A t \in Caller : place[t] \notin HasReadLock
    BY DEF LockIInv, OwnInv, WritersOwn, WritersBlockReaders, WriteCounted, At
  <2>2. \A t \in Caller : ~ReadCount(t) /\ ~ReadTakeWriteLock(t)
    BY <2>1 DEF ReadCount, ReadTakeWriteLock, Move, HasReadLock
  <2>3. PICK t \in Caller : ReadEntry(t) \/ WriteCount(t) \/ Continue(t)
    BY DEF LockNext
  <2> QED
    BY <2>2, <2>3 DEF LockIInv, LockTypeOK, LockPlaces, Readers, At, Move, Continue, ReadEntry,
       ReadTakeReadLock, ReadDropReadLock, ReadExit, ReadUncount, ReadDropWriteLock,
       WriteCount, WriteTakeReadLock, WriteTakeWriteLock, WriteDropWriteLock, WriteUncount,
       WriteDropReadLock
<1> QED
  BY LockInductive, <1>1, PTL DEF LockSpec, WriterPreference
=============================================================================
