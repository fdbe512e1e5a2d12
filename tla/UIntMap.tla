------------------------------- MODULE UIntMap -------------------------------
(***************************************************************************)
(* UIntMap of Alc/helpers.c: the map from names to buffers, sources,       *)
(* effects, filters and effect slots.  An array sorted by key, searched by *)
(* halving, extended and closed up by memmove, grown by realloc, under the *)
(* reader-writer lock of the same file.                                    *)
(*                                                                         *)
(* A call takes one step per turn of the search loop and one for what it   *)
(* does with the result.  UIntMap implements KeyedMap.                     *)
(***************************************************************************)
EXTENDS Integers, FiniteSets

CONSTANTS Thread, Key, Value, NoValue, limit

ASSUME KeyAssumption == Key \subseteq Nat /\ IsFiniteSet(Key)
ASSUME LimitAssumption == limit \in Nat \cup {-1}
ASSUME ValueAssumption == NoValue \notin Value /\ {"entered", "refused"} \cap Value = {}

VARIABLES readers, writers,    \* lock
          array, size, maxsize,
          pc, call,            \* each call's place, and its arguments
          low, high,           \* locals of the search
          answer               \* what the call is to return

lock == <<readers, writers>>
content == <<array, size, maxsize>>
search == <<low, high>>
vars == <<readers, writers, array, size, maxsize, pc, call, low, high, answer>>

Lock == INSTANCE ReadersWriters

Entry == [key : Key, value : Value]
Call == [op : {"insert"}, key : Key, value : Value]
          \cup [op : {"remove", "pop", "lookup"}, key : Key]
NoCall == [op |-> "none"]

TypeOK ==
  /\ Lock!TypeOK
  /\ size \in Nat /\ maxsize \in Nat /\ size <= maxsize
  /\ array \in [0 .. size - 1 -> Entry]
  /\ pc \in [Thread -> {"idle", "search", "leave"}]
  /\ call \in [Thread -> Call \cup {NoCall}]
  /\ low \in [Thread -> Nat] /\ high \in [Thread -> Int]
  /\ answer \in [Thread -> Value \cup {NoValue, "entered", "refused"}]

(* InitUIntMap *)
Init ==
  /\ Lock!Init
  /\ array = [i \in {} |-> NoValue] /\ size = 0 /\ maxsize = 0
  /\ pc = [t \in Thread |-> "idle"] /\ call = [t \in Thread |-> NoCall]
  /\ low = [t \in Thread |-> 0] /\ high = [t \in Thread |-> 0]
  /\ answer = [t \in Thread |-> NoValue]

Go(t, from, to) == pc[t] = from /\ pc' = [pc EXCEPT ![t] = to]
Answer(t, a) == answer' = [answer EXCEPT ![t] = a]
Op(t) == call[t].op
key(t) == call[t].key

-----------------------------------------------------------------------------
(* Faulty variants of the operators below: bugs the properties must notice. *)
NotPast(mid) == mid
NotLarger == maxsize
NotLast(t) == size > 0 /\ low[t] < size - 1 /\ array[low[t]].key = key(t)

Mid(l, h) == l + (h - l) \div 2
Past(mid) == mid + 1

(* Where a new key goes: after the entry the search ended at, if smaller.   *)
Position(t) ==
  IF size > 0 /\ array[low[t]].key < key(t) THEN low[t] + 1 ELSE low[t]

(* memmove and the two assignments that follow it; memmove and size--.      *)
Opened(pos, e) ==
  [i \in 0 .. size |-> IF i < pos THEN array[i] ELSE IF i = pos THEN e ELSE array[i - 1]]
Closed(pos) == [i \in 0 .. size - 2 |-> IF i < pos THEN array[i] ELSE array[i + 1]]

(* realloc: four entries, then twice as many each time *)
Larger == IF maxsize = 0 THEN 4 ELSE 2 * maxsize

-----------------------------------------------------------------------------
Reading(c) == c.op = "lookup"

(* A call enters the lock it needs and sets out to search the whole array. *)
Begin(t, c) ==
  /\ Go(t, "idle", "search")
  /\ IF Reading(c) THEN Lock!BeginRead(t) ELSE Lock!BeginWrite(t)
  /\ call' = [call EXCEPT ![t] = c]
  /\ low' = [low EXCEPT ![t] = 0]
  /\ high' = [high EXCEPT ![t] = size - 1]
  /\ UNCHANGED <<content, answer>>

(* InsertUIntMapEntry, in its write section, tests the limit before it      *)
(* searches.                                                                *)
Full(t) == Op(t) = "insert" /\ size = limit

RefuseFull(t) ==
  /\ Full(t)
  /\ Go(t, "search", "leave")
  /\ Answer(t, "refused")
  /\ UNCHANGED <<lock, content, call, search>>

Halve(t) ==
  LET mid == Mid(low[t], high[t]) IN
  /\ ~Full(t) /\ Go(t, "search", "search")
  /\ low[t] < high[t]
  /\ IF array[mid].key < key(t)
     THEN low' = [low EXCEPT ![t] = Past(mid)] /\ UNCHANGED high
     ELSE high' = [high EXCEPT ![t] = mid] /\ UNCHANGED low
  /\ UNCHANGED <<lock, content, call, answer>>

EndSearch(t) == ~Full(t) /\ low[t] >= high[t] /\ Go(t, "search", "leave")

-----------------------------------------------------------------------------
(* InsertUIntMapEntry *)

Occupied(t) == Position(t) # size /\ array[Position(t)].key = key(t)
New(t) == [key |-> key(t), value |-> call[t].value]

Overwrite(t) ==
  /\ Op(t) = "insert" /\ EndSearch(t)
  /\ Occupied(t)
  /\ array' = [array EXCEPT ![Position(t)] = New(t)]
  /\ Answer(t, "entered")
  /\ UNCHANGED <<lock, size, maxsize, call, search>>

Insert(t) ==
  /\ Op(t) = "insert" /\ EndSearch(t)
  /\ ~Occupied(t)
  /\ maxsize' = IF size = maxsize THEN Larger ELSE maxsize
  /\ array' = Opened(Position(t), New(t))
  /\ size' = size + 1
  /\ Answer(t, "entered")
  /\ UNCHANGED <<lock, call, search>>

RefuseGrow(t) ==
  /\ Op(t) = "insert" /\ EndSearch(t)
  /\ ~Occupied(t) /\ size = maxsize
  /\ Answer(t, "refused")
  /\ UNCHANGED <<lock, content, call, search>>

-----------------------------------------------------------------------------
(* RemoveUIntMapKey, which returns nothing, PopUIntMapValue and             *)
(* LookupUIntMapKey, which return NULL for a key without an entry           *)

Hit(t) == size > 0 /\ array[low[t]].key = key(t)

Miss(t) ==
  /\ Op(t) \in {"remove", "pop", "lookup"} /\ EndSearch(t)
  /\ ~Hit(t)
  /\ Answer(t, NoValue)
  /\ UNCHANGED <<lock, content, call, search>>

Remove(t) ==
  /\ Op(t) \in {"remove", "pop"} /\ EndSearch(t)
  /\ Hit(t)
  /\ array' = Closed(low[t]) /\ size' = size - 1
  /\ Answer(t, IF Op(t) = "pop" THEN array[low[t]].value ELSE NoValue)
  /\ UNCHANGED <<lock, maxsize, call, search>>

Lookup(t) ==
  /\ Op(t) = "lookup" /\ EndSearch(t)
  /\ Hit(t)
  /\ Answer(t, array[low[t]].value)
  /\ UNCHANGED <<lock, content, call, search>>

(* Unlock and return. *)
Leave(t) ==
  /\ Go(t, "leave", "idle")
  /\ IF Reading(call[t]) THEN Lock!EndRead(t) ELSE Lock!EndWrite(t)
  /\ call' = [call EXCEPT ![t] = NoCall]
  /\ low' = [low EXCEPT ![t] = 0] /\ high' = [high EXCEPT ![t] = 0]
  /\ Answer(t, NoValue)
  /\ UNCHANGED content

(* ResetUIntMap, one write section *)
Reset(t) ==
  /\ pc[t] = "idle" /\ readers = {} /\ writers = {}
  /\ array' = [i \in {} |-> NoValue] /\ size' = 0 /\ maxsize' = 0
  /\ UNCHANGED <<lock, pc, call, search, answer>>

-----------------------------------------------------------------------------
Step(t) ==
  \/ RefuseFull(t) \/ Halve(t) \/ Overwrite(t) \/ Insert(t) \/ RefuseGrow(t)
  \/ Miss(t) \/ Remove(t) \/ Lookup(t) \/ Leave(t)

Next ==
  \E t \in Thread :
    \/ Step(t) \/ Reset(t)
    \/ \E c \in Call : Begin(t, c)

Spec == Init /\ [][Next]_vars

(* A thread that holds the lock goes on; nobody has to start a call.        *)
FairSpec == Spec /\ \A t \in Thread : WF_vars(Step(t))

-----------------------------------------------------------------------------
(* Every search ends: the interval shrinks at each turn, also when it is    *)
(* down to two entries.                                                     *)
SearchEnds == \A t \in Thread : pc[t] = "search" ~> pc[t] = "idle"

MapOf(a, n) ==
  [k \in {a[i].key : i \in 0 .. n - 1} |-> a[CHOOSE i \in 0 .. n - 1 : a[i].key = k].value]
map == MapOf(array, size)
acted == {t \in Thread : pc[t] = "leave"}

(* The array is a map: every call does what its operation says, for its own *)
(* key, at one instant after it starts and before it returns.  It finds the *)
(* entry of its key whenever there is one, whatever entries other threads   *)
(* put around it; a search that misses, a change under another key, and a   *)
(* call that acts twice or not at all would each be visible.                *)
Map == INSTANCE KeyedMap
ImplementsMap == Map!Spec
=============================================================================
