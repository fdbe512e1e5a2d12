---------------------------- MODULE UIntMap_proofs ----------------------------
(***************************************************************************)
(* Proofs about the map of names, for any threads, keys, values and limit: *)
(* it keeps its types, stays sorted, and implements KeyedMap.  The         *)
(* inductive invariant adds to the type invariant who holds the lock       *)
(* (LockInv), that the array is sorted (Sorted) and how far each search    *)
(* has come (SearchInv).                                                   *)
(***************************************************************************)
EXTENDS UIntMap, FiniteSetTheorems, Functions, TLAPS

(* A call in progress is in the section its operation asks for, and a       *)
(* thread without one has no call noted.                                    *)
LockInv ==
  /\ \A t \in Thread : pc[t] # "idle" =>
       /\ call[t] \in Call
       /\ IF Reading(call[t]) THEN t \in readers ELSE t \in writers
  /\ readers = {} \/ writers = {}
  /\ \A t, u \in writers : t = u
  /\ \A t \in Thread : pc[t] = "idle" => call[t] = NoCall

(* The keys rise strictly.                                                  *)
Sorted == \A i, j \in 0 .. size - 1 : i < j => array[i].key < array[j].key

(* What lies below low is smaller than the key, what lies above high larger.*)
Searching(t) ==
  /\ high[t] < size
  /\ IF size = 0 THEN low[t] = 0 ELSE low[t] <= high[t]
  /\ \A i \in 0 .. size - 1 :
       /\ i < low[t] => array[i].key < key(t)
       /\ i > high[t] => array[i].key > key(t)

SearchInv == \A t \in Thread : pc[t] = "search" => Searching(t)

IInv == TypeOK /\ LockInv /\ Sorted /\ SearchInv

-----------------------------------------------------------------------------
(* Keys are numbers.                                                        *)
LEMMA KeysAreNumbers ==
  ASSUME TypeOK
  PROVE  size \in Nat /\ \A i \in 0 .. size - 1 : array[i] \in Entry /\ array[i].key \in Nat
BY KeyAssumption DEF TypeOK, Entry

(* The middle of an interval of two or more is at least its start and below *)
(* its end.                                                                 *)
LEMMA MidBetween ==
  ASSUME NEW l \in Nat, NEW h \in Int, l < h
  PROVE  Mid(l, h) \in Nat /\ l <= Mid(l, h) /\ Mid(l, h) < h
BY DEF Mid

(* Where an ended search leaves an insertion: all keys before the place are *)
(* smaller, all keys from it on larger, or the key itself is there.         *)
LEMMA PositionFits ==
  ASSUME TypeOK, Sorted, NEW t \in Thread, Searching(t), low[t] >= high[t], key(t) \in Key
  PROVE  /\ Position(t) \in 0 .. size
         /\ \A i \in 0 .. size - 1 : i < Position(t) => array[i].key < key(t)
         /\ \A i \in 0 .. size - 1 : i > Position(t) => array[i].key > key(t)
         /\ Occupied(t) => Position(t) \in 0 .. size - 1 /\ array[Position(t)].key = key(t)
         /\ ~Occupied(t) => \A i \in 0 .. size - 1 : i >= Position(t) => array[i].key > key(t)
<1> USE KeyAssumption DEF TypeOK, Entry
<1>1. CASE size = 0
  BY <1>1 DEF Position, Occupied, Searching
<1>2. CASE size > 0
  <2>1. low[t] = high[t] /\ low[t] \in 0 .. size - 1
    BY <1>2 DEF Searching
  <2>2. array[low[t]].key \in Nat /\ key(t) \in Nat
    BY <2>1
  <2>3. CASE array[low[t]].key < key(t)
    <3>1. Position(t) = low[t] + 1
      BY <1>2, <2>3 DEF Position
    <3>2. \A i \in 0 .. size - 1 : i < low[t] + 1 => array[i].key < key(t)
      BY <2>1, <2>3 DEF Searching
    <3>3. \A i \in 0 .. size - 1 : i >= low[t] + 1 => array[i].key > key(t)
      BY <2>1 DEF Searching
    <3> QED
      BY <2>1, <2>2, <3>1, <3>2, <3>3 DEF Occupied
  <2>4. CASE array[low[t]].key >= key(t)
    <3>1. Position(t) = low[t]
      BY <2>2, <2>4 DEF Position
    <3>2. \A i \in 0 .. size - 1 : i > low[t] => array[i].key > key(t)
      BY <2>1 DEF Searching
    <3>3. ~Occupied(t) => array[low[t]].key > key(t)
      BY <2>1, <2>2, <2>4, <3>1 DEF Occupied
    <3> QED
      BY <2>1, <2>2, <3>1, <3>2, <3>3 DEF Occupied, Searching
  <2> QED
    BY <2>2, <2>3, <2>4
<1> QED
  BY <1>1, <1>2

(* The same for the calls that look for an entry: it is at low or nowhere.  *)
LEMMA HitOrMiss ==
  ASSUME TypeOK, Sorted, NEW t \in Thread, Searching(t), low[t] >= high[t], key(t) \in Key
  PROVE  /\ Hit(t) => low[t] \in 0 .. size - 1 /\ array[low[t]].key = key(t)
         /\ ~Hit(t) => \A i \in 0 .. size - 1 : array[i].key # key(t)
<1> USE KeyAssumption DEF TypeOK, Entry
<1>1. size > 0 => low[t] = high[t] /\ low[t] \in 0 .. size - 1
  BY DEF Searching
<1>2. \A i \in 0 .. size - 1 : array[i].key \in Nat
  OBVIOUS
<1>3. ASSUME ~Hit(t), NEW i \in 0 .. size - 1 PROVE array[i].key # key(t)
  <2>1. low[t] = high[t] /\ array[low[t]].key # key(t)
    BY <1>1, <1>3 DEF Hit
  <2>2. i < low[t] \/ i = low[t] \/ i > low[t]
    OBVIOUS
  <2> QED
    BY <1>2, <2>1, <2>2 DEF Searching
<1> QED
  BY <1>1, <1>3 DEF Hit

-----------------------------------------------------------------------------
(* A sorted array stays sorted when the memory behind a place opens for a   *)
(* key that fits there, and when it closes.                                 *)
LEMMA OpenedSorted ==
  ASSUME TypeOK, Sorted, NEW e \in Entry, NEW pos \in 0 .. size,
         \A i \in 0 .. size - 1 : i < pos => array[i].key < e.key,
         \A i \in 0 .. size - 1 : i >= pos => array[i].key > e.key
  PROVE  /\ Opened(pos, e) \in [0 .. size -> Entry]
         /\ \A i, j \in 0 .. size : i < j => Opened(pos, e)[i].key < Opened(pos, e)[j].key
<1> USE KeyAssumption DEF TypeOK, Entry
<1>1. \A i \in 0 .. size - 1 : array[i] \in Entry /\ array[i].key \in Nat
  OBVIOUS
<1>2. e.key \in Nat
  OBVIOUS
<1>3. \A i \in 0 .. size :
        Opened(pos, e)[i] = IF i < pos THEN array[i] ELSE IF i = pos THEN e ELSE array[i - 1]
  BY DEF Opened
<1>4. Opened(pos, e) \in [0 .. size -> Entry]
  BY <1>1 DEF Opened
<1>5. ASSUME NEW i \in 0 .. size, NEW j \in 0 .. size, i < j
      PROVE  Opened(pos, e)[i].key < Opened(pos, e)[j].key
  <2>1. CASE j < pos
    <3>1. i \in 0 .. size - 1 /\ j \in 0 .. size - 1 /\ i < pos
      BY <1>5, <2>1
    <3> QED
      BY <1>3, <1>5, <2>1, <3>1 DEF Sorted
  <2>2. CASE j = pos
    BY <1>3, <1>5, <2>2
  <2>3. CASE i = pos
    BY <1>3, <1>5, <2>3
  <2>4. CASE i < pos /\ j > pos
    <3>1. array[i].key < e.key /\ e.key < array[j - 1].key
      BY <1>5, <2>4
    <3> QED
      BY <1>1, <1>2, <1>3, <1>5, <2>4, <3>1
  <2>5. CASE i > pos
    <3>1. i - 1 \in 0 .. size - 1 /\ j - 1 \in 0 .. size - 1 /\ i - 1 < j - 1
      BY <1>5, <2>5
    <3> QED
      BY <1>3, <1>5, <2>5, <3>1 DEF Sorted
  <2> QED
    BY <1>5, <2>1, <2>2, <2>3, <2>4, <2>5
<1> QED
  BY <1>4, <1>5

LEMMA ClosedSorted ==
  ASSUME TypeOK, Sorted, NEW pos \in 0 .. size - 1
  PROVE  /\ Closed(pos) \in [0 .. size - 2 -> Entry]
         /\ \A i, j \in 0 .. size - 2 : i < j => Closed(pos)[i].key < Closed(pos)[j].key
<1> USE DEF TypeOK
<1>1. \A i \in 0 .. size - 2 : Closed(pos)[i] = IF i < pos THEN array[i] ELSE array[i + 1]
  BY DEF Closed
<1>2. Closed(pos) \in [0 .. size - 2 -> Entry]
  BY DEF Closed
<1>3. ASSUME NEW i \in 0 .. size - 2, NEW j \in 0 .. size - 2, i < j
      PROVE  Closed(pos)[i].key < Closed(pos)[j].key
  <2>1. /\ i \in 0 .. size - 1 /\ j \in 0 .. size - 1
        /\ i + 1 \in 0 .. size - 1 /\ j + 1 \in 0 .. size - 1
        /\ i < j + 1 /\ i + 1 < j + 1
    BY <1>3
  <2>2. /\ array[i].key < array[j].key /\ array[i].key < array[j + 1].key
        /\ array[i + 1].key < array[j + 1].key
    BY <1>3, <2>1 DEF Sorted
  <2>3. i < pos \/ ~(j < pos)
    BY <1>3
  <2> QED
    BY <1>1, <2>2, <2>3
<1> QED
  BY <1>2, <1>3

-----------------------------------------------------------------------------
(* The invariant holds after InitUIntMap.                                   *)
LEMMA InitIInv == Init => IInv
<1> SUFFICES ASSUME Init PROVE IInv
  OBVIOUS
<1>1. TypeOK
  BY DEF Init, TypeOK, Lock!Init, Lock!TypeOK
<1>2. LockInv /\ Sorted /\ SearchInv
  BY DEF Init, Lock!Init, LockInv, Sorted, SearchInv
<1> QED
  BY <1>1, <1>2 DEF IInv

(* While one call is in the write section no other search is under way.     *)
LEMMA WriterAlone ==
  ASSUME LockInv, NEW t \in Thread, pc[t] = "search", call[t].op # "lookup"
  PROVE  \A u \in Thread : pc[u] = "search" => u = t
<1> SUFFICES ASSUME NEW u \in Thread, pc[u] = "search" PROVE u = t
  OBVIOUS
<1>1. t \in writers /\ readers = {}
  BY DEF LockInv, Reading
<1>2. u \in writers
  BY <1>1 DEF LockInv
<1> QED
  BY <1>1, <1>2 DEF LockInv

(* The arguments of a call in progress.                                     *)
LEMMA CallFacts ==
  ASSUME LockInv, NEW t \in Thread, pc[t] # "idle"
  PROVE  /\ call[t] \in Call /\ key(t) \in Key
         /\ Op(t) \in {"insert", "remove", "pop", "lookup"}
         /\ Op(t) = "insert" => New(t) \in Entry /\ New(t).key = key(t)
BY DEF LockInv, Call, Op, key, New, Entry

-----------------------------------------------------------------------------
(* Beginning a call.                                                        *)
LEMMA BeginStep ==
  ASSUME IInv, NEW t \in Thread, NEW c \in Call, Begin(t, c)
  PROVE  IInv'
<1> USE DEF IInv, Begin, Go, content
<1>1. /\ pc[t] = "idle" /\ pc' = [pc EXCEPT ![t] = "search"]
      /\ call' = [call EXCEPT ![t] = c]
      /\ IF Reading(c) THEN readers' = readers \cup {t} /\ writers = {} /\ writers' = writers
                       ELSE writers' = {t} /\ readers = {} /\ writers = {} /\ readers' = readers
  BY DEF Lock!BeginRead, Lock!BeginWrite
<1>2. TypeOK'
  BY <1>1 DEF TypeOK, Lock!TypeOK
<1>3. LockInv'
  <2>1. \A u \in Thread \ {t} : pc'[u] = pc[u] /\ call'[u] = call[u]
    BY DEF TypeOK
  <2>2. pc'[t] = "search" /\ call'[t] = c
    BY DEF TypeOK
  <2>3. \A u \in Thread : pc'[u] # "idle" =>
          /\ call'[u] \in Call
          /\ IF Reading(call'[u]) THEN u \in readers' ELSE u \in writers'
    BY <1>1, <2>1, <2>2 DEF LockInv
  <2>4. \A u \in Thread : pc'[u] = "idle" => call'[u] = NoCall
    BY <2>1, <2>2 DEF LockInv
  <2> QED
    BY <1>1, <2>3, <2>4 DEF LockInv
<1>4. Sorted'
  BY DEF Sorted
<1>5. SearchInv'
  <2>1. \A u \in Thread \ {t} : pc'[u] = pc[u] /\ call'[u] = call[u]
                                /\ low'[u] = low[u] /\ high'[u] = high[u]
    BY DEF TypeOK
  <2>2. low'[t] = 0 /\ high'[t] = size - 1
    BY DEF TypeOK
  <2>3. Searching(t)'
    BY <2>2 DEF Searching, TypeOK
  <2>4. ASSUME NEW u \in Thread \ {t}, pc[u] = "search" PROVE Searching(u)'
    BY <2>1, <2>4 DEF SearchInv, Searching, key
  <2> QED
    BY <2>1, <2>3, <2>4 DEF SearchInv
<1> QED
  BY <1>2, <1>3, <1>4, <1>5

(* A turn of the search loop: one half of the interval is left, and the     *)
(* other half is on the right side of the key.                              *)
LEMMA HalveStep ==
  ASSUME IInv, NEW t \in Thread, Halve(t)
  PROVE  IInv' /\ low[t] \in Nat
<1> USE KeyAssumption DEF IInv
<1>1. low[t] \in Nat /\ high[t] \in Int /\ pc[t] = "search" /\ low[t] < high[t]
  BY DEF Halve, Go, TypeOK
<1>2. PICK m \in Nat : m = Mid(low[t], high[t]) /\ low[t] <= m /\ m < high[t]
  BY <1>1, MidBetween
<1>11. \/ array[m].key < key(t) /\ low' = [low EXCEPT ![t] = m + 1] /\ high' = high
       \/ ~(array[m].key < key(t)) /\ high' = [high EXCEPT ![t] = m] /\ low' = low
  BY <1>2 DEF Halve, Past
<1>12. /\ array' = array /\ size' = size /\ maxsize' = maxsize /\ call' = call
       /\ readers' = readers /\ writers' = writers /\ answer' = answer /\ pc' = pc
  BY DEF Halve, Go, lock, content, TypeOK
<1>3. size > 0 /\ m \in 0 .. size - 1 /\ array[m].key \in Nat /\ Searching(t)
  <2>1. Searching(t)
    BY <1>1 DEF SearchInv
  <2>2. size \in Nat /\ m < size
    BY <1>1, <1>2, <2>1 DEF Searching, TypeOK
  <2> QED
    BY <1>2, <2>1, <2>2, KeysAreNumbers
<1>4. key(t) \in Nat
  BY <1>1, CallFacts
<1>5. TypeOK'
  <2>1. low' \in [Thread -> Nat] /\ high' \in [Thread -> Int]
    BY <1>2, <1>11 DEF TypeOK
  <2> QED
    BY <1>12, <2>1 DEF TypeOK, Lock!TypeOK
<1>6. LockInv'
  BY <1>1, <1>12 DEF LockInv, Op
<1>7. Sorted'
  BY <1>12 DEF Sorted
<1>8. Searching(t)'
  <2>1. CASE array[m].key < key(t)
    <3>1. low'[t] = m + 1 /\ high' = high /\ array' = array /\ size' = size /\ call' = call
      BY <1>11, <1>12, <2>1 DEF TypeOK
    <3>2. \A i \in 0 .. size - 1 : i < m + 1 => array[i].key < key(t)
      <4> SUFFICES ASSUME NEW i \in 0 .. size - 1, i < m + 1 PROVE array[i].key < key(t)
        OBVIOUS
      <4>1. array[i].key \in Nat /\ (i = m \/ array[i].key < array[m].key)
        BY <1>3, KeysAreNumbers DEF Sorted
      <4> QED
        BY <1>3, <1>4, <2>1, <4>1
    <3> QED
      BY <1>1, <1>2, <1>3, <1>12, <3>1, <3>2 DEF Searching, key
  <2>2. CASE ~(array[m].key < key(t))
    <3>1. high'[t] = m /\ low' = low /\ array' = array /\ size' = size /\ call' = call
      BY <1>11, <1>12, <2>2 DEF TypeOK
    <3>2. \A i \in 0 .. size - 1 : i > m => array[i].key > key(t)
      <4> SUFFICES ASSUME NEW i \in 0 .. size - 1, i > m PROVE array[i].key > key(t)
        OBVIOUS
      <4>1. array[i].key \in Nat /\ array[i].key > array[m].key
        BY <1>3, KeysAreNumbers DEF Sorted
      <4> QED
        BY <1>3, <1>4, <2>2, <4>1
    <3>3. \A i \in 0 .. size - 1 : i < low[t] => array[i].key < key(t)
      BY <1>3 DEF Searching
    <3>4. high'[t] = m /\ low'[t] = low[t] /\ m < size /\ low[t] <= m
      BY <1>2, <1>3, <3>1, KeysAreNumbers
    <3> QED
      BY <1>3, <1>12, <3>2, <3>3, <3>4 DEF Searching, key
  <2> QED
    BY <2>1, <2>2
<1>9. ASSUME NEW u \in Thread \ {t}, pc[u] = "search" PROVE Searching(u)'
  <2>1. low'[u] = low[u] /\ high'[u] = high[u]
    BY <1>11 DEF TypeOK
  <2> QED
    BY <1>9, <1>12, <2>1 DEF SearchInv, Searching, key
<1>10. SearchInv'
  BY <1>8, <1>9, <1>12 DEF SearchInv
<1> QED
  BY <1>1, <1>5, <1>6, <1>7, <1>10

(* A call that goes on to return and leaves the array alone.                *)
LEMMA ReadStep ==
  ASSUME IInv, NEW t \in Thread, Go(t, "search", "leave"),
         UNCHANGED <<lock, content, call, search>>
  PROVE  LockInv' /\ Sorted' /\ SearchInv'
<1> USE DEF IInv
<1>1. /\ pc[t] = "search" /\ pc' = [pc EXCEPT ![t] = "leave"] /\ call' = call
      /\ readers' = readers /\ writers' = writers
      /\ array' = array /\ size' = size /\ maxsize' = maxsize /\ low' = low /\ high' = high
  BY DEF Go, lock, content, search
<1>2. \A u \in Thread : /\ pc'[u] = "search" => pc[u] = "search"
                        /\ (pc'[u] = "idle") <=> (pc[u] = "idle")
  BY <1>1 DEF TypeOK
<1>3. LockInv'
  BY <1>1, <1>2 DEF LockInv
<1>4. Sorted'
  BY <1>1 DEF Sorted
<1>5. SearchInv'
  BY <1>1, <1>2 DEF SearchInv, Searching, key
<1> QED
  BY <1>3, <1>4, <1>5

(* A call that ends its search and may change the array: nobody else is in. *)
LEMMA WriteStep ==
  ASSUME IInv, NEW t \in Thread, EndSearch(t), call[t].op # "lookup",
         UNCHANGED <<lock, call>>
  PROVE  LockInv' /\ SearchInv'
<1> USE DEF IInv
<1>1. /\ pc[t] = "search" /\ pc' = [pc EXCEPT ![t] = "leave"] /\ call' = call
      /\ readers' = readers /\ writers' = writers
  BY DEF EndSearch, Go, lock
<1>2. \A u \in Thread : /\ pc'[u] # "search"
                        /\ (pc'[u] = "idle") <=> (pc[u] = "idle")
  BY <1>1, WriterAlone DEF TypeOK
<1>3. LockInv'
  BY <1>1, <1>2 DEF LockInv
<1>4. SearchInv'
  BY <1>2 DEF SearchInv
<1> QED
  BY <1>3, <1>4

(* What a call at the end of its search may rely on.                        *)
LEMMA EndFacts ==
  ASSUME IInv, NEW t \in Thread, EndSearch(t)
  PROVE  /\ pc[t] = "search" /\ pc' = [pc EXCEPT ![t] = "leave"] /\ low[t] >= high[t]
         /\ Searching(t) /\ key(t) \in Key /\ Go(t, "search", "leave") /\ ~Full(t)
BY CallFacts DEF IInv, EndSearch, Go, SearchInv

LEMMA OverwriteStep == ASSUME IInv, NEW t \in Thread, Overwrite(t) PROVE IInv'
<1> USE DEF IInv
<1>1. EndSearch(t) /\ Op(t) = "insert" /\ Occupied(t) /\ UNCHANGED <<lock, call>>
  BY DEF Overwrite
<1>2. Position(t) \in 0 .. size - 1 /\ array[Position(t)].key = key(t)
  BY <1>1, EndFacts, PositionFits
<1>3. New(t) \in Entry /\ New(t).key = key(t)
  BY <1>1, EndFacts, CallFacts
<1>4. /\ array' = [array EXCEPT ![Position(t)] = New(t)] /\ size' = size /\ maxsize' = maxsize
      /\ answer' = [answer EXCEPT ![t] = "entered"]
  BY DEF Overwrite, Answer
<1>5. TypeOK'
  BY <1>1, <1>2, <1>3, <1>4, EndFacts, SMTT(30)
  DEF Overwrite, TypeOK, Lock!TypeOK, lock, search
<1>6. Sorted'
  <2>1. \A i \in 0 .. size - 1 : array'[i].key = array[i].key
    BY <1>2, <1>3, <1>4 DEF TypeOK
  <2> QED
    BY <1>4, <2>1 DEF Sorted
<1> QED
  BY <1>1, <1>5, <1>6, WriteStep DEF Op

LEMMA InsertStep == ASSUME IInv, NEW t \in Thread, Insert(t) PROVE IInv'
<1> USE DEF IInv
<1>1. EndSearch(t) /\ Op(t) = "insert" /\ ~Occupied(t) /\ UNCHANGED <<lock, call, search>>
  BY DEF Insert
<1>2. /\ Position(t) \in 0 .. size
      /\ \A i \in 0 .. size - 1 : i < Position(t) => array[i].key < key(t)
      /\ \A i \in 0 .. size - 1 : i >= Position(t) => array[i].key > key(t)
  BY <1>1, EndFacts, PositionFits
<1>3. New(t) \in Entry /\ New(t).key = key(t)
  BY <1>1, EndFacts, CallFacts
<1>4. /\ array' = Opened(Position(t), New(t)) /\ size' = size + 1
      /\ maxsize' = IF size = maxsize THEN Larger ELSE maxsize
      /\ answer' = [answer EXCEPT ![t] = "entered"]
  BY DEF Insert, Answer
<1>5. /\ array' \in [0 .. size -> Entry]
      /\ \A i, j \in 0 .. size : i < j => array'[i].key < array'[j].key
  BY <1>2, <1>3, <1>4, OpenedSorted
<1>6. maxsize' \in Nat /\ size' \in Nat /\ size' <= maxsize' /\ size' - 1 = size
  BY <1>4 DEF Larger, TypeOK, Sorted
<1>7. TypeOK'
  <2>1. array' \in [0 .. size' - 1 -> Entry]
    BY <1>5, <1>6
  <2> QED
    BY <1>1, <1>4, <1>6, <2>1, EndFacts DEF TypeOK, Lock!TypeOK, lock, search
<1>8. Sorted'
  BY <1>5, <1>6 DEF Sorted
<1> QED
  BY <1>1, <1>7, <1>8, WriteStep DEF Op

LEMMA RemoveStep == ASSUME IInv, NEW t \in Thread, Remove(t) PROVE IInv'
<1> USE DEF IInv
<1>1. /\ EndSearch(t) /\ Op(t) \in {"remove", "pop"} /\ Hit(t)
      /\ UNCHANGED <<lock, maxsize, call, search>>
  BY DEF Remove
<1>2. low[t] \in 0 .. size - 1
  BY <1>1, EndFacts, HitOrMiss
<1>3. /\ array' = Closed(low[t]) /\ size' = size - 1
      /\ answer' = [answer EXCEPT ![t] = IF Op(t) = "pop" THEN array[low[t]].value ELSE NoValue]
  BY DEF Remove, Answer
<1>4. /\ array' \in [0 .. size - 2 -> Entry]
      /\ \A i, j \in 0 .. size - 2 : i < j => array'[i].key < array'[j].key
  BY <1>2, <1>3, ClosedSorted
<1>5. /\ size - 1 \in Nat /\ size - 1 - 1 = size - 2 /\ array[low[t]].value \in Value
      /\ maxsize \in Nat /\ size - 1 <= maxsize
  BY <1>2 DEF TypeOK, Entry
<1>6. TypeOK'
  BY <1>1, <1>3, <1>4, <1>5, EndFacts DEF TypeOK, Lock!TypeOK, lock, search
<1>7. Sorted'
  BY <1>1, <1>3, <1>4, <1>5 DEF Sorted, TypeOK
<1> QED
  BY <1>1, <1>6, <1>7, WriteStep DEF Op

LEMMA LeaveStep == ASSUME IInv, NEW t \in Thread, Leave(t) PROVE IInv'
<1> USE DEF IInv
<1>1. /\ pc[t] = "leave" /\ pc' = [pc EXCEPT ![t] = "idle"]
      /\ call' = [call EXCEPT ![t] = NoCall]
      /\ low' = [low EXCEPT ![t] = 0] /\ high' = [high EXCEPT ![t] = 0]
      /\ answer' = [answer EXCEPT ![t] = NoValue]
      /\ array' = array /\ size' = size /\ maxsize' = maxsize
      /\ \/ readers' = readers \ {t} /\ writers' = writers
         \/ writers' = {} /\ readers' = readers /\ t \in writers
  BY DEF Leave, Go, Answer, Lock!EndRead, Lock!EndWrite, content
<1>2. TypeOK'
  BY <1>1 DEF TypeOK, Lock!TypeOK
<1>3. \A u \in Thread : pc'[u] # "idle" =>
        u # t /\ pc'[u] = pc[u] /\ call'[u] = call[u] /\ low'[u] = low[u] /\ high'[u] = high[u]
  BY <1>1 DEF TypeOK
<1>4. LockInv'
  <2>1. \A u \in Thread : pc'[u] # "idle" =>
          /\ call'[u] \in Call
          /\ IF Reading(call'[u]) THEN u \in readers' ELSE u \in writers'
    BY <1>1, <1>3 DEF LockInv
  <2>2. readers' = {} \/ writers' = {}
    BY <1>1 DEF LockInv
  <2>3. \A u \in Thread : pc'[u] = "idle" => call'[u] = NoCall
    BY <1>1 DEF LockInv, TypeOK
  <2> QED
    BY <1>1, <2>1, <2>2, <2>3 DEF LockInv
<1>5. Sorted' /\ SearchInv'
  BY <1>1, <1>3 DEF Sorted, SearchInv, Searching, key
<1> QED
  BY <1>2, <1>4, <1>5

LEMMA RefuseFullStep == ASSUME IInv, NEW t \in Thread, RefuseFull(t) PROVE IInv'
<1>1. Go(t, "search", "leave") /\ UNCHANGED <<lock, content, call, search>>
      /\ answer' = [answer EXCEPT ![t] = "refused"]
  BY DEF RefuseFull, Answer
<1>2. TypeOK'
  BY <1>1 DEF IInv, TypeOK, Lock!TypeOK, Go, lock, content, search
<1> QED
  BY <1>1, <1>2, ReadStep DEF IInv

LEMMA ResetStep == ASSUME IInv, NEW t \in Thread, Reset(t) PROVE IInv'
<1> USE DEF IInv
<1>1. /\ readers = {} /\ writers = {} /\ readers' = readers /\ writers' = writers
      /\ array' = [i \in {} |-> NoValue] /\ size' = 0 /\ maxsize' = 0
      /\ pc' = pc /\ call' = call /\ low' = low /\ high' = high /\ answer' = answer
  BY DEF Reset, lock, search
<1>2. TypeOK'
  BY <1>1 DEF TypeOK, Lock!TypeOK
<1>3. \A u \in Thread : pc[u] = "idle"
  BY <1>1 DEF LockInv, TypeOK
<1>4. LockInv' /\ Sorted' /\ SearchInv'
  BY <1>1, <1>3 DEF LockInv, Sorted, SearchInv
<1> QED
  BY <1>2, <1>4

-----------------------------------------------------------------------------
(* Every step keeps the invariant.                                          *)
LEMMA InductiveStep == IInv /\ [Next]_vars => IInv'
<1> SUFFICES ASSUME IInv, [Next]_vars PROVE IInv'
  OBVIOUS
<1>1. ASSUME NEW t \in Thread, NEW c \in Call, Begin(t, c) PROVE IInv'
  BY <1>1, BeginStep
<1>2. ASSUME NEW t \in Thread, RefuseFull(t) PROVE IInv'
  BY <1>2, RefuseFullStep
<1>3. ASSUME NEW t \in Thread, Halve(t) PROVE IInv'
  BY <1>3, HalveStep
<1>4. ASSUME NEW t \in Thread, Overwrite(t) PROVE IInv'
  BY <1>4, OverwriteStep
<1>5. ASSUME NEW t \in Thread, Insert(t) PROVE IInv'
  BY <1>5, InsertStep
<1>6. ASSUME NEW t \in Thread, RefuseGrow(t) PROVE IInv'
  <2>1. EndSearch(t) /\ UNCHANGED <<lock, content, call, search>>
        /\ answer' = [answer EXCEPT ![t] = "refused"]
    BY <1>6 DEF RefuseGrow, Answer
  <2>2. TypeOK'
    BY <2>1, EndFacts DEF IInv, TypeOK, Lock!TypeOK, lock, content, search
  <2> QED
    BY <2>1, <2>2, EndFacts, ReadStep DEF IInv
<1>7. ASSUME NEW t \in Thread, Miss(t) PROVE IInv'
  <2>1. EndSearch(t) /\ UNCHANGED <<lock, content, call, search>>
        /\ answer' = [answer EXCEPT ![t] = NoValue]
    BY <1>7 DEF Miss, Answer
  <2>2. TypeOK'
    BY <2>1, EndFacts DEF IInv, TypeOK, Lock!TypeOK, lock, content, search
  <2> QED
    BY <2>1, <2>2, EndFacts, ReadStep DEF IInv
<1>8. ASSUME NEW t \in Thread, Remove(t) PROVE IInv'
  BY <1>8, RemoveStep
<1>9. ASSUME NEW t \in Thread, Lookup(t) PROVE IInv'
  <2>1. EndSearch(t) /\ UNCHANGED <<lock, content, call, search>> /\ Hit(t)
        /\ answer' = [answer EXCEPT ![t] = array[low[t]].value]
    BY <1>9 DEF Lookup, Answer
  <2>2. array[low[t]].value \in Value
    BY <2>1, EndFacts, HitOrMiss, KeysAreNumbers DEF IInv, Entry
  <2>3. TypeOK'
    BY <2>1, <2>2, EndFacts DEF IInv, TypeOK, Lock!TypeOK, lock, content, search
  <2> QED
    BY <2>1, <2>3, EndFacts, ReadStep DEF IInv
<1>10. ASSUME NEW t \in Thread, Leave(t) PROVE IInv'
  BY <1>10, LeaveStep
<1>11. ASSUME NEW t \in Thread, Reset(t) PROVE IInv'
  BY <1>11, ResetStep
<1>12. CASE UNCHANGED vars
  BY <1>12 DEF vars, IInv, TypeOK, Lock!TypeOK, LockInv, Sorted, SearchInv, Searching, Op, key
<1> QED
  BY <1>1, <1>2, <1>3, <1>4, <1>5, <1>6, <1>7, <1>8, <1>9, <1>10, <1>11, <1>12 DEF Next, Step

LEMMA Invariant == Spec => []IInv
  BY InitIInv, InductiveStep, PTL DEF Spec

(* The array, its size and every local of a search keep their types: the    *)
(* search never leaves the array.                                           *)
THEOREM TypeCorrect == Spec => []TypeOK
<1>1. IInv => TypeOK
  BY DEF IInv
<1> QED
  BY <1>1, Invariant, PTL

(* The array is sorted without duplicates at any time.                      *)
THEOREM StaysSorted == Spec => []Sorted
<1>1. IInv => Sorted
  BY DEF IInv
<1> QED
  BY <1>1, Invariant, PTL

-----------------------------------------------------------------------------
(* An array without duplicate keys, read as a function: its domain, its     *)
(* values, its size, and that nothing else reads the same.                  *)
Distinct(a, n) == \A i, j \in 0 .. n - 1 : a[i].key = a[j].key => i = j
Keys(a, n) == {a[i].key : i \in 0 .. n - 1}

LEMMA MapAt ==
  ASSUME NEW a, NEW n \in Nat, Distinct(a, n), NEW i \in 0 .. n - 1
  PROVE  a[i].key \in Keys(a, n) /\ MapOf(a, n)[a[i].key] = a[i].value
<1> DEFINE c == CHOOSE j \in 0 .. n - 1 : a[j].key = a[i].key
<1>1. c \in 0 .. n - 1 /\ a[c].key = a[i].key
  OBVIOUS
<1>2. c = i
  BY <1>1 DEF Distinct
<1>3. a[i].key \in Keys(a, n)
  BY DEF Keys
<1>4. MapOf(a, n)[a[i].key] = a[c].value
  BY <1>3 DEF MapOf, Keys
<1> QED
  BY <1>2, <1>3, <1>4

LEMMA MapIs ==
  ASSUME NEW a, NEW n \in Nat, Distinct(a, n), NEW f,
         f = [k \in Keys(a, n) |-> f[k]],
         \A i \in 0 .. n - 1 : f[a[i].key] = a[i].value
  PROVE  MapOf(a, n) = f
<1>1. ASSUME NEW k \in Keys(a, n) PROVE MapOf(a, n)[k] = f[k]
  <2>1. PICK i \in 0 .. n - 1 : k = a[i].key
    BY <1>1 DEF Keys
  <2> QED
    BY <2>1, MapAt
<1>2. MapOf(a, n) = [k \in Keys(a, n) |-> MapOf(a, n)[k]]
  BY DEF MapOf, Keys
<1> QED
  BY <1>1, <1>2

LEMMA MapSize ==
  ASSUME NEW a, NEW n \in Nat, Distinct(a, n)
  PROVE  DOMAIN MapOf(a, n) = Keys(a, n) /\ Cardinality(Keys(a, n)) = n
<1>1. DOMAIN MapOf(a, n) = Keys(a, n)
  BY DEF MapOf, Keys
<1>2. IsFiniteSet(0 .. n - 1) /\ Cardinality(0 .. n - 1) = n
  BY FS_Interval
<1>3. ExistsBijection(0 .. n - 1, Keys(a, n))
  <2> DEFINE f == [i \in 0 .. n - 1 |-> a[i].key]
  <2>1. f \in Injection(0 .. n - 1, Keys(a, n))
    BY DEF Injection, IsInjective, Distinct, Keys
  <2>2. f \in Surjection(0 .. n - 1, Keys(a, n))
    BY DEF Surjection, Keys
  <2> QED
    BY <2>1, <2>2 DEF ExistsBijection, Bijection
<1> QED
  BY <1>1, <1>2, <1>3, FS_Bijection

(* A sorted array has no duplicates.                                        *)
LEMMA SortedDistinct == TypeOK /\ Sorted => Distinct(array, size)
<1> SUFFICES ASSUME TypeOK, Sorted, NEW i \in 0 .. size - 1, NEW j \in 0 .. size - 1,
                    array[i].key = array[j].key
             PROVE  i = j
  BY DEF Distinct
<1>1. array[i].key \in Nat /\ array[j].key \in Nat /\ size \in Nat
  BY KeysAreNumbers
<1>2. ~(i < j) /\ ~(j < i)
  BY <1>1 DEF Sorted
<1> QED
  BY <1>1, <1>2

-----------------------------------------------------------------------------
(* The steps that enter and drop an entry do to the map what they promise.  *)
LEMMA OverwriteMaps ==
  ASSUME IInv, IInv', NEW t \in Thread, Overwrite(t)
  PROVE  map' = Map!Entered(map, key(t), call[t].value) /\ key(t) \in DOMAIN map
<1> DEFINE p == Position(t)
<1> DEFINE f == Map!Entered(map, key(t), call[t].value)
<1>1. /\ p \in 0 .. size - 1 /\ array[p].key = key(t) /\ New(t) \in Entry
      /\ New(t).key = key(t) /\ New(t).value = call[t].value
      /\ array' = [array EXCEPT ![p] = New(t)] /\ size' = size
      /\ size \in Nat /\ Distinct(array, size) /\ Distinct(array, size)'
  <2>1. EndSearch(t) /\ Occupied(t) /\ Op(t) = "insert"
    BY DEF Overwrite
  <2>2. p \in 0 .. size - 1 /\ array[p].key = key(t)
    BY <2>1, EndFacts, PositionFits DEF IInv
  <2>3. New(t) \in Entry /\ New(t).key = key(t) /\ New(t).value = call[t].value
    BY <2>1, EndFacts, CallFacts DEF IInv, New
  <2>4. Distinct(array, size) /\ Distinct(array, size)'
    BY SortedDistinct, PTL DEF IInv
  <2> QED
    BY <2>2, <2>3, <2>4, KeysAreNumbers DEF Overwrite, IInv
<1> HIDE DEF p
<1>2. /\ \A i \in 0 .. size - 1 : array'[i].key = array[i].key
      /\ \A i \in 0 .. size - 1 : i # p => array'[i] = array[i]
      /\ array'[p] = New(t)
  BY <1>1 DEF IInv, TypeOK
<1>3. DOMAIN map = Keys(array, size) /\ Keys(array', size) = Keys(array, size)
      /\ key(t) \in Keys(array, size)
  BY <1>1, <1>2, MapSize DEF map, Keys
<1>4. f = [k \in Keys(array', size) |-> f[k]]
  BY <1>3 DEF Map!Entered
<1>5. ASSUME NEW i \in 0 .. size - 1 PROVE f[array'[i].key] = array'[i].value
  <2>1. array[i].key \in Keys(array, size) /\ map[array[i].key] = array[i].value
    BY <1>1, MapAt DEF map
  <2>2. array[i].key = key(t) => i = p
    BY <1>1 DEF Distinct
  <2> QED
    BY <1>1, <1>2, <1>3, <2>1, <2>2 DEF Map!Entered
<1> HIDE DEF f
<1>6. Distinct(array', size)
  BY <1>1 DEF Distinct
<1>7. MapOf(array', size) = f
  <2>1. size \in Nat
    BY <1>1
  <2> QED
    BY <1>4, <1>5, <1>6, <2>1, MapIs
<1> QED
  BY <1>1, <1>3, <1>7 DEF map, f

LEMMA InsertMaps ==
  ASSUME IInv, IInv', NEW t \in Thread, Insert(t)
  PROVE  map' = Map!Entered(map, key(t), call[t].value)
<1> DEFINE p == Position(t)
<1> DEFINE f == Map!Entered(map, key(t), call[t].value)
<1>1. /\ EndSearch(t) /\ ~Occupied(t) /\ Op(t) = "insert"
      /\ array' = Opened(p, New(t)) /\ size' = size + 1
  BY DEF Insert
<1>2. /\ p \in 0 .. size
      /\ \A i \in 0 .. size - 1 : i < p => array[i].key < key(t)
      /\ \A i \in 0 .. size - 1 : i >= p => array[i].key > key(t)
  BY <1>1, EndFacts, PositionFits DEF IInv
<1>3. New(t).key = key(t) /\ New(t).value = call[t].value
  BY <1>1, EndFacts, CallFacts DEF IInv, New
<1>4. /\ size \in Nat /\ size + 1 \in Nat /\ key(t) \in Nat
      /\ \A i \in 0 .. size - 1 : array[i].key \in Nat
  <2>1. key(t) \in Nat
    BY <1>1, EndFacts, KeyAssumption
  <2> QED
    BY <2>1, KeysAreNumbers DEF IInv
<1>5. Distinct(array, size) /\ Distinct(array', size + 1)
  <2>1. Distinct(array, size) /\ Distinct(array, size)'
    BY SortedDistinct, PTL DEF IInv
  <2> QED
    BY <1>1, <2>1 DEF Distinct
<1> HIDE DEF p
<1>6. \A i \in 0 .. size :
        array'[i] = IF i < p THEN array[i] ELSE IF i = p THEN New(t) ELSE array[i - 1]
  BY <1>1 DEF Opened
<1>7. DOMAIN map = Keys(array, size) /\ \A i \in 0 .. size - 1 : array[i].key # key(t)
  <2>1. \A i \in 0 .. size - 1 : array[i].key # key(t)
    <3> SUFFICES ASSUME NEW i \in 0 .. size - 1 PROVE array[i].key # key(t)
      OBVIOUS
    <3> QED
      BY <1>2, <1>4
  <2> QED
    BY <1>4, <1>5, <2>1, MapSize DEF map
<1>8. Keys(array', size + 1) = Keys(array, size) \cup {key(t)}
  <2>1. ASSUME NEW i \in 0 .. size
        PROVE  array'[i].key \in Keys(array, size) \cup {key(t)}
    <3>1. CASE i < p
      BY <1>2, <1>4, <1>6, <3>1 DEF Keys
    <3>2. CASE i = p
      BY <1>3, <1>6, <3>2
    <3>3. CASE i > p
      <4>1. i - 1 \in 0 .. size - 1 /\ array'[i] = array[i - 1]
        BY <1>2, <1>4, <1>6, <3>3
      <4> QED
        BY <4>1 DEF Keys
    <3> QED
      BY <1>2, <3>1, <3>2, <3>3
  <2>2. ASSUME NEW i \in 0 .. size - 1 PROVE \E j \in 0 .. size : array'[j] = array[i]
    <3>1. CASE i < p
      BY <1>4, <1>6, <3>1
    <3>2. CASE i >= p
      <4>1. i + 1 \in 0 .. size /\ ~(i + 1 < p) /\ i + 1 # p /\ i + 1 - 1 = i
        BY <1>2, <1>4, <3>2
      <4> QED
        BY <1>6, <4>1
    <3> QED
      BY <1>2, <3>1, <3>2
  <2>3. array'[p].key = key(t)
    BY <1>2, <1>3, <1>4, <1>6
  <2>4. \A k : k \in Keys(array', size + 1) <=> \E i \in 0 .. size : k = array'[i].key
    BY <1>4 DEF Keys
  <2>5. \A k \in Keys(array, size) \cup {key(t)} : \E i \in 0 .. size : array'[i].key = k
    BY <1>2, <2>2, <2>3 DEF Keys
  <2> QED
    BY <2>1, <2>4, <2>5
<1>9. f = [k \in Keys(array', size + 1) |-> f[k]]
  BY <1>7, <1>8 DEF Map!Entered
<1>10. ASSUME NEW i \in 0 .. size PROVE f[array'[i].key] = array'[i].value
  <2>1. \A j \in 0 .. size - 1 : f[array[j].key] = array[j].value
    <3> SUFFICES ASSUME NEW j \in 0 .. size - 1 PROVE f[array[j].key] = array[j].value
      OBVIOUS
    <3>1. array[j].key \in Keys(array, size) /\ map[array[j].key] = array[j].value
      BY <1>4, <1>5, MapAt DEF map
    <3> QED
      BY <1>7, <3>1 DEF Map!Entered
  <2>2. f[key(t)] = call[t].value
    BY DEF Map!Entered
  <2>3. CASE i < p
    BY <1>2, <1>4, <1>6, <2>1, <2>3
  <2>4. CASE i = p
    BY <1>3, <1>6, <2>2, <2>4
  <2>5. CASE i > p
    <3>1. i - 1 \in 0 .. size - 1 /\ array'[i] = array[i - 1]
      BY <1>2, <1>4, <1>6, <2>5
    <3> QED
      BY <2>1, <3>1
  <2> QED
    BY <1>2, <2>3, <2>4, <2>5
<1> HIDE DEF f
<1>11. MapOf(array', size + 1) = f
  <2>1. size + 1 - 1 = size
    BY <1>4
  <2> QED
    BY <1>4, <1>5, <1>9, <1>10, <2>1, MapIs
<1> QED
  BY <1>1, <1>11 DEF map, f

LEMMA RemoveMaps ==
  ASSUME IInv, IInv', NEW t \in Thread, Remove(t)
  PROVE  /\ map' = Map!Without(map, key(t))
         /\ Map!Found(map, key(t)) = array[low[t]].value
<1> DEFINE p == low[t]
<1> DEFINE f == Map!Without(map, key(t))
<1>1. EndSearch(t) /\ Hit(t) /\ array' = Closed(p) /\ size' = size - 1
  BY DEF Remove
<1>2. p \in 0 .. size - 1 /\ array[p].key = key(t) /\ size \in Nat
  BY <1>1, EndFacts, HitOrMiss, KeysAreNumbers DEF IInv
<1>3. Distinct(array, size) /\ Distinct(array', size - 1)
  <2>1. Distinct(array, size) /\ Distinct(array, size)'
    BY SortedDistinct, PTL DEF IInv
  <2> QED
    BY <1>1, <2>1 DEF Distinct
<1>4. DOMAIN map = Keys(array, size) /\ key(t) \in Keys(array, size)
      /\ map[key(t)] = array[p].value
  BY <1>2, <1>3, MapSize, MapAt DEF map
<1> HIDE DEF p
<1>5. size - 1 \in Nat /\ size - 1 - 1 = size - 2
  BY <1>2
<1>6. \A i \in 0 .. size - 2 : array'[i] = IF i < p THEN array[i] ELSE array[i + 1]
  BY <1>1 DEF Closed
<1>7. \A i \in 0 .. size - 1 : array[i].key = key(t) <=> i = p
  BY <1>2, <1>3 DEF Distinct
<1>8. ASSUME NEW i \in 0 .. size - 2
      PROVE  \E j \in 0 .. size - 1 : j # p /\ array'[i] = array[j]
  <2>1. CASE i < p
    BY <1>2, <1>6, <2>1
  <2>2. CASE i >= p
    BY <1>2, <1>6, <2>2
  <2> QED
    BY <1>2, <2>1, <2>2
<1>9. ASSUME NEW j \in 0 .. size - 1, j # p
      PROVE  \E i \in 0 .. size - 2 : array'[i] = array[j]
  <2>1. CASE j < p
    BY <1>2, <1>6, <2>1
  <2>2. CASE j > p
    <3>1. j - 1 \in 0 .. size - 2 /\ ~(j - 1 < p) /\ j - 1 + 1 = j
      BY <1>2, <2>2
    <3> QED
      BY <1>6, <3>1
  <2> QED
    BY <1>2, <1>9, <2>1, <2>2
<1>10. Keys(array', size - 1) = Keys(array, size) \ {key(t)}
  BY <1>5, <1>7, <1>8, <1>9 DEF Keys
<1>11. f = [k \in Keys(array', size - 1) |-> f[k]]
  BY <1>4, <1>10 DEF Map!Without
<1>12. ASSUME NEW i \in 0 .. size - 2 PROVE f[array'[i].key] = array'[i].value
  <2>1. PICK j \in 0 .. size - 1 : j # p /\ array'[i] = array[j]
    BY <1>8
  <2>2. array[j].key \in Keys(array, size) /\ map[array[j].key] = array[j].value
    BY <1>2, <1>3, MapAt DEF map
  <2> QED
    BY <1>4, <1>7, <2>1, <2>2 DEF Map!Without
<1> HIDE DEF f
<1>13. MapOf(array', size - 1) = f
  BY <1>3, <1>5, <1>11, <1>12, MapIs
<1> QED
  BY <1>1, <1>4, <1>13 DEF map, f, p, Map!Found

(* KeyedMap counts entries with the operator of the standard module.        *)
LEMMA SameCardinality == \A S : Map!Cardinality(S) = Cardinality(S)
  BY DEF Cardinality, Map!Cardinality

(* A step from the search to the return is the one act of its call.         *)
LEMMA ActsOnce ==
  ASSUME IInv, NEW t \in Thread, Go(t, "search", "leave")
  PROVE  t \notin acted /\ acted' = acted \cup {t}
BY DEF IInv, TypeOK, acted, Go

(* The map has an entry for a key exactly if the array holds one.           *)
LEMMA MapFacts ==
  ASSUME IInv
  PROVE  /\ Map!Cardinality(DOMAIN map) = size
         /\ \A k : k \in DOMAIN map <=> \E i \in 0 .. size - 1 : array[i].key = k
         /\ \A i \in 0 .. size - 1 : map[array[i].key] = array[i].value
<1>1. size \in Nat /\ Distinct(array, size)
  BY SortedDistinct, KeysAreNumbers DEF IInv
<1>2. DOMAIN map = Keys(array, size) /\ Cardinality(Keys(array, size)) = size
  BY <1>1, MapSize DEF map
<1>3. \A i \in 0 .. size - 1 : map[array[i].key] = array[i].value
  BY <1>1, MapAt DEF map
<1> QED
  BY <1>2, <1>3, SameCardinality DEF Keys

(* A call starts; a call that has acted returns.                            *)
LEMMA StartMaps ==
  ASSUME IInv, NEW t \in Thread, NEW c \in Call, Begin(t, c)
  PROVE  Map!Start(t, c)
<1>1. pc[t] = "idle" /\ call[t] = NoCall /\ call' = [call EXCEPT ![t] = c] /\ answer' = answer
      /\ array' = array /\ size' = size
  BY DEF Begin, Go, content, IInv, LockInv
<1>2. acted' = acted
  BY DEF Begin, Go, IInv, TypeOK, acted
<1> QED
  BY <1>1, <1>2 DEF Map!Start, Map!NoCall, NoCall, map

LEMMA ReturnMaps ==
  ASSUME IInv, NEW t \in Thread, Leave(t)
  PROVE  Map!Return(t)
<1>1. pc[t] = "leave" /\ call' = [call EXCEPT ![t] = NoCall]
      /\ answer' = [answer EXCEPT ![t] = NoValue] /\ array' = array /\ size' = size
  BY DEF Leave, Go, Answer, content
<1>2. t \in acted /\ acted' = acted \ {t}
  BY DEF Leave, Go, IInv, TypeOK, acted
<1> QED
  BY <1>1, <1>2 DEF Map!Return, Map!NoCall, NoCall, map

(* A search that has ended has the value the map holds for its key.         *)
LEMMA HitMaps ==
  ASSUME IInv, NEW t \in Thread, EndSearch(t)
  PROVE  Map!Found(map, key(t)) = IF Hit(t) THEN array[low[t]].value ELSE NoValue
<1>1. /\ Hit(t) => low[t] \in 0 .. size - 1 /\ array[low[t]].key = key(t)
      /\ ~Hit(t) => \A i \in 0 .. size - 1 : array[i].key # key(t)
  BY EndFacts, HitOrMiss DEF IInv
<1> QED
  BY <1>1, MapFacts DEF Map!Found

(* A lookup, a removal and a pop act for their own key, found or not.       *)
LEMMA MissMaps ==
  ASSUME IInv, NEW t \in Thread, Miss(t)
  PROVE  Map!Remove(t) \/ Map!Pop(t) \/ Map!Lookup(t)
<1>1. EndSearch(t) /\ ~Hit(t) /\ Answer(t, NoValue) /\ Op(t) \in {"remove", "pop", "lookup"}
      /\ call' = call /\ array' = array /\ size' = size
  BY DEF Miss, content
<1>2. t \notin acted /\ acted' = acted \cup {t}
  BY <1>1, EndFacts, ActsOnce
<1>3. key(t) \notin DOMAIN map /\ Map!Found(map, key(t)) = NoValue
  <2>1. \A i \in 0 .. size - 1 : array[i].key # key(t)
    BY <1>1, EndFacts, HitOrMiss DEF IInv
  <2> QED
    BY <2>1, MapFacts DEF Map!Found
<1>4. map' = map /\ Map!Without(map, key(t)) = map
  <2>1. map = [k \in DOMAIN map |-> map[k]]
    BY DEF map, MapOf
  <2> QED
    BY <1>1, <1>3, <2>1 DEF map, Map!Without
<1> QED
  BY <1>1, <1>2, <1>3, <1>4
  DEF Map!Remove, Map!Pop, Map!Lookup, Map!Act, Answer, key, Op

LEMMA RemoveKeyMaps ==
  ASSUME IInv, IInv', NEW t \in Thread, Remove(t)
  PROVE  Map!Remove(t) \/ Map!Pop(t)
<1>1. EndSearch(t) /\ Op(t) \in {"remove", "pop"} /\ call' = call
      /\ Answer(t, IF Op(t) = "pop" THEN array[low[t]].value ELSE NoValue)
  BY DEF Remove
<1>2. t \notin acted /\ acted' = acted \cup {t}
  BY <1>1, EndFacts, ActsOnce
<1>3. map' = Map!Without(map, key(t)) /\ Map!Found(map, key(t)) = array[low[t]].value
  BY RemoveMaps
<1> QED
  BY <1>1, <1>2, <1>3 DEF Map!Remove, Map!Pop, Map!Act, Answer, key, Op

LEMMA LookupMaps ==
  ASSUME IInv, NEW t \in Thread, Lookup(t)
  PROVE  Map!Lookup(t)
<1>1. EndSearch(t) /\ Hit(t) /\ Answer(t, array[low[t]].value) /\ Op(t) = "lookup"
      /\ call' = call /\ array' = array /\ size' = size
  BY DEF Lookup, content
<1>2. t \notin acted /\ acted' = acted \cup {t}
  BY <1>1, EndFacts, ActsOnce
<1>3. Map!Found(map, key(t)) = array[low[t]].value /\ map' = map
  BY <1>1, HitMaps DEF map
<1> QED
  BY <1>1, <1>2, <1>3 DEF Map!Lookup, Map!Act, Answer, key, Op

(* An entry is made while the map is below its limit, under the call's key. *)
LEMMA EnterMaps ==
  ASSUME IInv, IInv', NEW t \in Thread, Overwrite(t) \/ Insert(t)
  PROVE  Map!Insert(t)
<1>1. EndSearch(t) /\ Op(t) = "insert" /\ Answer(t, "entered") /\ call' = call
  BY DEF Overwrite, Insert
<1>2. t \notin acted /\ acted' = acted \cup {t}
  BY <1>1, EndFacts, ActsOnce
<1>3. Map!Cardinality(DOMAIN map) # limit
  BY <1>1, MapFacts DEF EndSearch, Full
<1>4. map' = Map!Entered(map, key(t), call[t].value)
  BY OverwriteMaps, InsertMaps
<1> QED
  BY <1>1, <1>2, <1>3, <1>4 DEF Map!Insert, Map!Act, Answer, key, Op

(* An entry is refused when the map is full, or when it would be a new one. *)
LEMMA RefuseMaps ==
  ASSUME IInv, NEW t \in Thread, RefuseFull(t) \/ RefuseGrow(t)
  PROVE  Map!Refuse(t)
<1>1. Go(t, "search", "leave") /\ Op(t) = "insert" /\ Answer(t, "refused") /\ call' = call
      /\ array' = array /\ size' = size
  BY DEF RefuseFull, RefuseGrow, EndSearch, content, Full
<1>2. t \notin acted /\ acted' = acted \cup {t}
  BY <1>1, ActsOnce
<1>3. Map!Cardinality(DOMAIN map) = limit \/ key(t) \notin DOMAIN map
  <2>1. CASE RefuseFull(t)
    BY <2>1, MapFacts DEF RefuseFull, Full
  <2>2. CASE RefuseGrow(t)
    <3>1. EndSearch(t) /\ ~Occupied(t)
      BY <2>2 DEF RefuseGrow
    <3>2. key(t) \in Key /\ Position(t) \in 0 .. size
          /\ (\A i \in 0 .. size - 1 : i < Position(t) => array[i].key < key(t))
          /\ (\A i \in 0 .. size - 1 : i >= Position(t) => array[i].key > key(t))
      BY <3>1, EndFacts, PositionFits DEF IInv
    <3>3. ASSUME NEW i \in 0 .. size - 1 PROVE array[i].key # key(t)
      BY <3>2, KeysAreNumbers, KeyAssumption DEF IInv
    <3> QED
      BY <3>3, MapFacts
  <2> QED
    BY <2>1, <2>2
<1>4. map' = map
  BY <1>1 DEF map
<1> QED
  BY <1>1, <1>2, <1>3, <1>4 DEF Map!Refuse, Map!Act, Answer, key, Op

-----------------------------------------------------------------------------
(* Every step of the map is a step of KeyedMap or changes nothing it shows. *)
LEMMA StepImplements == IInv /\ IInv' /\ [Next]_vars => [Map!Next]_Map!mapVars
<1> SUFFICES ASSUME IInv, IInv', [Next]_vars PROVE [Map!Next]_Map!mapVars
  OBVIOUS
<1>1. ASSUME NEW t \in Thread, NEW c \in Call, Begin(t, c) PROVE Map!Next
  <2>1. c \in Map!Call
    BY DEF Call, Map!Call
  <2> QED
    BY <1>1, <2>1, StartMaps DEF Map!Next
<1>2. ASSUME NEW t \in Thread, RefuseFull(t) \/ RefuseGrow(t) PROVE Map!Next
  BY <1>2, RefuseMaps DEF Map!Next
<1>3. ASSUME NEW t \in Thread, Halve(t) PROVE UNCHANGED Map!mapVars
  <2>1. array' = array /\ size' = size /\ call' = call /\ answer' = answer /\ pc' = pc
    BY <1>3 DEF Halve, Go, content, IInv, TypeOK
  <2> QED
    BY <2>1 DEF Map!mapVars, map, acted
<1>4. ASSUME NEW t \in Thread, Overwrite(t) \/ Insert(t) PROVE Map!Next
  BY <1>4, EnterMaps DEF Map!Next
<1>5. ASSUME NEW t \in Thread, Miss(t) PROVE Map!Next
  BY <1>5, MissMaps DEF Map!Next
<1>6. ASSUME NEW t \in Thread, Remove(t) PROVE Map!Next
  BY <1>6, RemoveKeyMaps DEF Map!Next
<1>7. ASSUME NEW t \in Thread, Lookup(t) PROVE Map!Next
  BY <1>7, LookupMaps DEF Map!Next
<1>8. ASSUME NEW t \in Thread, Leave(t) PROVE Map!Next
  BY <1>8, ReturnMaps DEF Map!Next
<1>9. ASSUME NEW t \in Thread, Reset(t) PROVE Map!Next
  <2>1. array' = [i \in {} |-> NoValue] /\ size' = 0 /\ answer' = answer /\ call' = call
        /\ pc' = pc
    BY <1>9 DEF Reset
  <2>2. map' = Map!Nothing
    BY <2>1 DEF map, MapOf, Map!Nothing
  <2> QED
    BY <2>1, <2>2 DEF Map!Reset, Map!Next, acted
<1>10. CASE UNCHANGED vars
  BY <1>10 DEF vars, Map!mapVars, map, acted
<1> QED
  BY <1>1, <1>2, <1>3, <1>4, <1>5, <1>6, <1>7, <1>8, <1>9, <1>10 DEF Next, Step

(* The sorted array is a linearizable map: every call does what its         *)
(* operation says, for its own key and at one instant between its start and *)
(* its return, whatever other threads do.                                   *)
THEOREM Implements == Spec => ImplementsMap
<1>1. Init => Map!Init
  <2>1. Init => map = Map!Nothing /\ acted = {}
    BY DEF Init, map, MapOf, Map!Nothing, acted
  <2> QED
    BY <2>1 DEF Init, Map!Init, Map!NoCall, NoCall
<1>2. IInv /\ IInv' /\ [Next]_vars => [Map!Next]_Map!mapVars
  BY StepImplements
<1> QED
  BY <1>1, <1>2, Invariant, PTL DEF Spec, ImplementsMap, Map!Spec
=============================================================================
