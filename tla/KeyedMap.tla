------------------------------ MODULE KeyedMap ------------------------------
(***************************************************************************)
(* What a UIntMap of Alc/helpers.c promises its callers: a function from   *)
(* keys to values.  A call starts, acts on the map once, for its own key   *)
(* and as its operation says, and returns what it found at that instant;   *)
(* it cannot return before it has acted.  A lookup of a key without an     *)
(* entry finds NoValue, and only such a lookup does.  A call that enters   *)
(* a value may be refused, and then changes nothing.                       *)
(***************************************************************************)
EXTENDS Integers, FiniteSets

CONSTANTS Thread,          (* the callers *)
          Key,             (* names of objects *)
          Value,           (* the objects *)
          NoValue,         (* NULL, the answer for a key without an entry *)
          limit            (* entries refused beyond this many; -1: never *)

VARIABLES map,             (* the entries: a function on some of the keys  *)
          call,            (* each thread's call in progress, or NoCall    *)
          acted,           (* the threads whose call has acted on the map  *)
          answer           (* what those calls are to return               *)

mapVars == <<map, call, acted, answer>>

Call == [op : {"insert"}, key : Key, value : Value]
          \cup [op : {"remove", "pop", "lookup"}, key : Key]
NoCall == [op |-> "none"]

Nothing == [k \in {} |-> NoValue]

Init ==
  /\ map = Nothing
  /\ call = [t \in Thread |-> NoCall] /\ acted = {}
  /\ answer = [t \in Thread |-> NoValue]

Entered(m, k, v) == [l \in DOMAIN m \cup {k} |-> IF l = k THEN v ELSE m[l]]
Without(m, k) == [l \in DOMAIN m \ {k} |-> m[l]]
Found(m, k) == IF k \in DOMAIN m THEN m[k] ELSE NoValue

Start(t, c) ==
  /\ call[t] = NoCall
  /\ call' = [call EXCEPT ![t] = c]
  /\ UNCHANGED <<map, acted, answer>>

(* The one instant at which a call of t acts on the map. *)
Act(t, op, a) ==
  /\ call[t].op = op /\ t \notin acted
  /\ acted' = acted \cup {t}
  /\ answer' = [answer EXCEPT ![t] = a]
  /\ UNCHANGED call

(* A new entry, or a new value for an old one. *)
Insert(t) ==
  /\ Act(t, "insert", "entered")
  /\ Cardinality(DOMAIN map) # limit
  /\ map' = Entered(map, call[t].key, call[t].value)

(* Full, even for a key that has an entry; or no memory for a new entry. *)
Refuse(t) ==
  /\ Act(t, "insert", "refused")
  /\ Cardinality(DOMAIN map) = limit \/ call[t].key \notin DOMAIN map
  /\ UNCHANGED map

Remove(t) ==
  /\ Act(t, "remove", NoValue)
  /\ map' = Without(map, call[t].key)

Pop(t) ==
  /\ Act(t, "pop", Found(map, call[t].key))
  /\ map' = Without(map, call[t].key)

Lookup(t) ==
  /\ Act(t, "lookup", Found(map, call[t].key))
  /\ UNCHANGED map

Return(t) ==
  /\ t \in acted
  /\ acted' = acted \ {t}
  /\ call' = [call EXCEPT ![t] = NoCall]
  /\ answer' = [answer EXCEPT ![t] = NoValue]
  /\ UNCHANGED map

Reset == map' = Nothing /\ UNCHANGED <<call, acted, answer>>

Next ==
  \/ Reset
  \/ \E t \in Thread :
       \/ \E c \in Call : Start(t, c)
       \/ Insert(t) \/ Refuse(t) \/ Remove(t) \/ Pop(t) \/ Lookup(t)
       \/ Return(t)

Spec == Init /\ [][Next]_mapVars
=============================================================================
