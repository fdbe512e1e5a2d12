-------------------------- MODULE EffectSlots_proofs --------------------------
(***************************************************************************)
(* Proofs about effect slots, for any threads, any slots and names, any    *)
(* finite set of sources and any number of sends: the count of a slot is   *)
(* exact; the array of active slots is long enough and what it holds is in *)
(* memory, until it is used while it grows without the lock; and what sends*)
(* point to is in memory, until one takes a slot under a name a deletion   *)
(* has already tested.                                                     *)
(***************************************************************************)
EXTENDS EffectSlots, FiniteSetTheorems, TLAPS

Growing == {"room", "size", "realloc", "store"}   \* in ResizeEffectSlotArray
Making == Growing \cup {"append", "gen", "name", "undo"}
Removing == {"remove", "purge", "free"}            \* past the tests of the deletion

(* A slot that is not in the map is in arg.                                 *)
WithSlot(t) ==
  pc[t] \in {"append", "name", "undo", "purge", "free"} \/ (pc[t] \in Growing /\ Locked(t))

MixerOK ==
  /\ mixer \in [at : {"out", "sources", "slots"}, defer : BOOLEAN, update : BOOLEAN,
                todo : SUBSET Source]
  /\ mixer.at = "out" \/ holder = "mixer"

(* What the locals of each place are, and who has the lock.                 *)
ArgOK == DOMAIN arg = Thread

Place(t) ==
  /\ pc[t] = "attach" => /\ arg[t] \in Sends \X (Slot \cup {None})
                         /\ arg[t][1][1] \in sources \cup inited
  /\ pc[t] = "init" => arg[t] \in Source
  /\ pc[t] \in {"unlist", "release"} => arg[t] \in inited \ sources /\ todo[t] \subseteq Send
  /\ pc[t] \in Removing \cup {"check"} => todo[t] \subseteq Name
  /\ pc[t] \notin Making \cup {"check"} => done[t] = {}
  /\ pc[t] \in Growing /\ ~Locked(t) => done[t] = {}
  /\ pc[t] = "gen" \/ (pc[t] \in Growing /\ ~Locked(t)) => want[t] # 0
  /\ Locked(t) => pc[t] \in Growing \cup {"append", "attach"}
  /\ pc[t] \in {"append", "attach"} => Locked(t)

PlaceInv == \A t \in Thread : Place(t)

(* A slot has one name, or none and one thread that makes or removes it.    *)
SlotInv ==
  /\ \A n, m \in Name : n # m /\ EffectSlotMap[n] # None => EffectSlotMap[n] # EffectSlotMap[m]
  /\ \A t \in Thread :
       WithSlot(t) => arg[t] \in allocated /\ \A n \in Name : EffectSlotMap[n] # arg[t]
  /\ \A t, u \in Thread : t # u /\ WithSlot(t) /\ WithSlot(u) => arg[t] # arg[u]

(* It is listed before it is named and freed when it is off the list.       *)
ListInv ==
  ~torn =>
    /\ ActiveEffectSlots \subseteq allocated
    /\ \A n \in Name : EffectSlotMap[n] \in ActiveEffectSlots \cup {None}
    /\ \A t \in Thread : /\ pc[t] = "name" => arg[t] \in ActiveEffectSlots
                         /\ pc[t] = "free" => arg[t] \notin ActiveEffectSlots

(* The array only grows, and a thread that appends has room for its slot.   *)
Room1(t) ==
  /\ pc[t] = "append" => Cardinality(ActiveEffectSlots) + 1 <= MaxActiveEffectSlots
  /\ pc[t] \in {"realloc", "store"} /\ Locked(t) =>
       Cardinality(ActiveEffectSlots) + 1 <= newcount[t]
  /\ pc[t] = "store" => MaxActiveEffectSlots <= newcount[t]

RoomInv ==
  /\ MaxActiveEffectSlots \in Nat
  /\ ~torn =>
       /\ IsFiniteSet(ActiveEffectSlots)
       /\ Cardinality(ActiveEffectSlots) <= MaxActiveEffectSlots
       /\ \A t \in Thread : Room1(t)
       /\ \A t, u \in Thread : pc[t] = "store" /\ pc[u] = "store" => t = u

Pointing(x) == {c \in Sends : send[c] = x}

RefsInv == \A x \in Slot : ref[x] = Cardinality(Pointing(x))

SafeInv == ~raced => \A c \in Sends : send[c] = None \/ Safe(send[c])

(* A source whose Params are not up to date says so, and a source that was  *)
(* never in the map has no sends.                                           *)
ParamsInv ==
  /\ \A s \in sources : ~NeedsUpdate[s] =>
       \A i \in 0 .. NumAuxSends - 1 : params[<<s, i>>] = send[<<s, i>>]
  /\ \A s \in Source \ (sources \cup inited) : \A i \in Send :
       send[<<s, i>>] = None /\ params[<<s, i>>] = None

IInv ==
  /\ TypeOK /\ MixerOK /\ ArgOK /\ PlaceInv /\ SlotInv /\ ListInv /\ RoomInv
  /\ RefsInv /\ SafeInv /\ ParamsInv

-----------------------------------------------------------------------------
(* The steps of Next, sorted: those of a call at its place, the update of   *)
(* the device's parameters, and the rest, which only the mixer and the      *)
(* playing sources notice.                                                  *)

ResizeStep(t) == Room(t) \/ Size(t) \/ Realloc(t) \/ Store(t) \/ ReallocFails(t)

GenStep(t) ==
  \/ \E n \in Counts : Gen(t, n)
  \/ \E x \in Slot : GenSlot(t, x)
  \/ \E n \in Name : GenName(t, n)
  \/ GenAppend(t) \/ GenRefused(t) \/ GenUndo(t) \/ GenNoMemory(t)

DeleteStep(t) ==
  \/ \E N \in SUBSET Name : Delete(t, N)
  \/ \E n \in Name : Check(t, n) \/ CheckFails(t, n) \/ Remove(t, n)
  \/ AllChecked(t) \/ Purge(t) \/ Free(t)

SourceStep(t) ==
  \/ \E s \in Source, i \in Send, x \in Slot \cup {None} : Attach(t, s, i, x)
  \/ AttachStore(t)
  \/ \E s \in Source : GenSource(t, s) \/ DeleteSource(t, s)
  \/ InitSourceParams(t) \/ Unlist(t)
  \/ \E i \in Send : Release(t, i)

CallStep(t) == ResizeStep(t) \/ GenStep(t) \/ DeleteStep(t) \/ SourceStep(t)

Rest ==
  /\ \/ Mixer \/ (\E n \in Name : SetEffect(n)) \/ (\E s \in Source : Play(s)) \/ Defer
     \/ Process \/ UNCHANGED vars
  /\ UNCHANGED <<ActiveEffectSlots, MaxActiveEffectSlots, slotVars, callVars, sources, inited,
                 send, ref, raced, NumAuxSends>>
  /\ torn => torn'
  /\ \A t \in Thread : Locked(t)' <=> Locked(t)

LEMMA Steps ==
  ASSUME IInv, [Next]_vars
  PROVE  \/ \E t \in Thread : CallStep(t)
         \/ \E n \in 0 .. MAX_SENDS : UpdateDeviceParams(n)
         \/ Rest
<1> USE ThreadAssumption
    DEF slotVars, callVars, sourceVars, sendVars, flags, sizes, listVars, Locked, Unlocked
<1>1. CASE Mixer
  <2>1. CASE MixBegin
    BY <1>1, <2>1 DEF Rest, MixBegin
  <2>2. CASE MixSlots
    BY <1>1, <2>2 DEF Rest, MixSlots, UseList
  <2>3. CASE MixEnd
    <3>1. holder = "mixer"
      BY <2>3 DEF MixEnd, IInv, MixerOK
    <3> QED
      BY <1>1, <2>3, <3>1 DEF Rest, MixEnd
  <2>4. ASSUME NEW s \in Source, MixSource(s)
        PROVE  Rest
    BY <1>1, <2>4 DEF Rest, MixSource
  <2> QED
    BY <1>1, <2>1, <2>2, <2>3, <2>4 DEF Mixer
<1>2. CASE (\E n \in Name : SetEffect(n)) \/ (\E s \in Source : Play(s)) \/ Defer \/ Process
  BY <1>2 DEF Rest, SetEffect, Play, Defer, Process
<1>3. CASE UNCHANGED vars
  BY <1>3 DEF Rest, vars
<1> QED
  BY <1>1, <1>2, <1>3 DEF Next, Call, CallStep, ResizeStep, GenStep, DeleteStep, SourceStep

(* A step of a call leaves the other calls where they are.                  *)
Kept(u) ==
  /\ UNCHANGED <<pc[u], arg[u], todo[u], done[u], want[u], newcount[u]>>
  /\ Locked(u)' <=> Locked(u)

LEMMA Others ==
  ASSUME IInv, NEW t \in Thread, CallStep(t), NEW u \in Thread \ {t}
  PROVE  Kept(u)
<1> USE ThreadAssumption DEF IInv, TypeOK, ArgOK, Go, Kept, Locked, Unlocked, sizes
<1>1. CASE ResizeStep(t)
  BY <1>1 DEF ResizeStep, Room, Size, Realloc, Store, ReallocFails
<1>2. CASE GenStep(t)
  <2>1. ASSUME NEW x \in Slot, GenSlot(t, x)
        PROVE  Kept(u)
    BY <2>1 DEF GenSlot
  <2>2. CASE GenAppend(t)
    <3>1. holder = t
      BY <2>2 DEF GenAppend, PlaceInv, Place
    <3> QED
      BY <2>2, <3>1 DEF GenAppend
  <2>3. CASE GenUndo(t) \/ GenNoMemory(t) \/ GenRefused(t)
    BY <2>3 DEF GenUndo, GenNoMemory, GenRefused, Undo
  <2>4. ASSUME NEW n, Gen(t, n) \/ GenName(t, n)
        PROVE  Kept(u)
    BY <2>4 DEF Gen, GenName
  <2> QED
    BY <1>2, <2>1, <2>2, <2>3, <2>4 DEF GenStep
<1>3. CASE DeleteStep(t)
  <2>1. ASSUME NEW N, Delete(t, N)
        PROVE  Kept(u)
    BY <2>1 DEF Delete
  <2>2. ASSUME NEW n, Check(t, n) \/ CheckFails(t, n)
        PROVE  Kept(u)
    BY <2>2 DEF Check, CheckFails
  <2>3. ASSUME NEW n, Remove(t, n)
        PROVE  Kept(u)
    BY <2>3 DEF Remove
  <2>4. CASE AllChecked(t) \/ Purge(t) \/ Free(t)
    BY <2>4 DEF AllChecked, Purge, Free
  <2> QED
    BY <1>3, <2>1, <2>2, <2>3, <2>4 DEF DeleteStep
<1>4. CASE SourceStep(t)
  <2>1. ASSUME NEW s \in Source, NEW i \in Send, NEW x \in Slot \cup {None}, Attach(t, s, i, x)
        PROVE  Kept(u)
    BY <2>1 DEF Attach
  <2>2. CASE AttachStore(t)
    <3>1. holder = t
      BY <2>2 DEF AttachStore, PlaceInv, Place
    <3> QED
      BY <2>2, <3>1 DEF AttachStore
  <2>3. ASSUME NEW s \in Source, GenSource(t, s) \/ DeleteSource(t, s)
        PROVE  Kept(u)
    BY <2>3 DEF GenSource, DeleteSource
  <2>4. CASE InitSourceParams(t) \/ Unlist(t)
    BY <2>4 DEF InitSourceParams, Unlist
  <2>5. ASSUME NEW i \in Send, Release(t, i)
        PROVE  Kept(u)
    BY <2>5 DEF Release
  <2> QED
    BY <1>4, <2>1, <2>2, <2>3, <2>4, <2>5 DEF SourceStep
<1> QED
  BY <1>1, <1>2, <1>3, <1>4 DEF CallStep

LEMMA SendsFinite == IsFiniteSet(Sends)
<1>1. IsFiniteSet(Send)
  <2> DEFINE m == MAX_SENDS - 1
  <2>1. m \in Int
    BY SendAssumption
  <2> HIDE DEF m
  <2>2. IsFiniteSet(0 .. m)
    BY <2>1, FS_Interval
  <2> QED
    BY <2>2 DEF Send, m
<1> QED
  BY <1>1, SendAssumption, FS_Product DEF Sends

-----------------------------------------------------------------------------
(* The invariant, conjunct by conjunct.                                     *)

LEMMA ArgStep ==
  ASSUME IInv, [Next]_vars
  PROVE  ArgOK'
<1> USE DEF IInv, ArgOK
<1>1. CASE \/ UNCHANGED arg
           \/ \E t \in Thread : \E a : arg' = [arg EXCEPT ![t] = a]
  BY <1>1
<1>2. ASSUME NEW t \in Thread, ResizeStep(t) \/ GenStep(t) \/ DeleteStep(t)
      PROVE  UNCHANGED arg \/ \E a : arg' = [arg EXCEPT ![t] = a]
  BY <1>2 DEF ResizeStep, Room, Size, Realloc, Store, ReallocFails, GenStep, Gen, GenSlot,
              GenAppend, GenName, GenRefused, GenUndo, GenNoMemory, DeleteStep, Delete, Check, CheckFails,
              AllChecked, Remove, Purge, Free
<1>3. ASSUME NEW t \in Thread, SourceStep(t)
      PROVE  UNCHANGED arg \/ \E a : arg' = [arg EXCEPT ![t] = a]
  <2>1. ASSUME NEW s \in Source, NEW i \in Send, NEW x \in Slot \cup {None}, Attach(t, s, i, x)
        PROVE  \E a : arg' = [arg EXCEPT ![t] = a]
    BY <2>1 DEF Attach
  <2>2. ASSUME NEW i \in Send, Release(t, i)
        PROVE  UNCHANGED arg \/ \E a : arg' = [arg EXCEPT ![t] = a]
    BY <2>2 DEF Release
  <2> QED
    BY <1>3, <2>1, <2>2 DEF SourceStep, AttachStore, GenSource, DeleteSource, InitSourceParams,
                            Unlist
<1> QED
  BY <1>1, <1>2, <1>3, Steps DEF CallStep, Rest, UpdateDeviceParams, callVars

LEMMA PlaceStep ==
  ASSUME IInv, [Next]_vars
  PROVE  PlaceInv'
<1> USE DEF IInv, TypeOK, ArgOK, PlaceInv
<1>1. ASSUME NEW t \in Thread, CallStep(t), Place(t)',
             sources \cup inited \subseteq sources' \cup inited',
             inited \ sources \subseteq inited' \ sources'
      PROVE  PlaceInv'
  <2>1. ASSUME NEW u \in Thread \ {t}
        PROVE  Place(u)'
    <3>1. Place(u) /\ Kept(u)
      BY <1>1, Others
    <3> QED
      BY <1>1, <3>1 DEF Place, Kept
  <2> QED
    BY <1>1, <2>1
<1> DEFINE Same == UNCHANGED <<sources, inited>>
<1> USE SlotAssumption, ThreadAssumption DEF Place, Growing, Making, Removing, Go, Locked, Unlocked
<1>2. ASSUME NEW t \in Thread, ResizeStep(t)
      PROVE  Place(t)' /\ Same
  <2> USE DEF sourceVars, Asked, Resized
  <2>1. CASE Room(t)
    BY <2>1 DEF Room, sizes
  <2>2. CASE Size(t)
    BY <2>2 DEF Size
  <2>3. CASE Realloc(t)
    BY <2>3 DEF Realloc, sizes
  <2>4. CASE Store(t)
    BY <2>4 DEF Store
  <2>5. CASE ReallocFails(t)
    BY <2>5 DEF ReallocFails
  <2> QED
    BY <1>2, <2>1, <2>2, <2>3, <2>4, <2>5 DEF ResizeStep
<1>3. ASSUME NEW t \in Thread, GenStep(t)
      PROVE  Place(t)' /\ Same
  <2> USE DEF sourceVars
  <2>1. ASSUME NEW n \in Counts, Gen(t, n)
        PROVE  Place(t)' /\ Same
    BY <2>1 DEF Gen
  <2>2. ASSUME NEW x \in Slot, GenSlot(t, x)
        PROVE  Place(t)' /\ Same
    BY <2>2 DEF GenSlot
  <2>3. CASE GenAppend(t)
    BY <2>3 DEF GenAppend, sizes
  <2>4. ASSUME NEW n \in Name, GenName(t, n)
        PROVE  Place(t)' /\ Same
    BY <2>4 DEF GenName, sizes
  <2>5. CASE GenRefused(t)
    BY <2>5 DEF GenRefused
  <2>6. CASE GenUndo(t) \/ GenNoMemory(t)
    BY <2>6 DEF GenUndo, GenNoMemory, Undo
  <2> QED
    BY <1>3, <2>1, <2>2, <2>3, <2>4, <2>5, <2>6 DEF GenStep
<1>4. ASSUME NEW t \in Thread, DeleteStep(t)
      PROVE  Place(t)' /\ Same
  <2> USE DEF sourceVars
  <2>1. ASSUME NEW N \in SUBSET Name, Delete(t, N)
        PROVE  Place(t)' /\ Same
    BY <2>1 DEF Delete
  <2>2. ASSUME NEW n \in Name, Check(t, n) \/ CheckFails(t, n)
        PROVE  Place(t)' /\ Same
    BY <2>2 DEF Check, CheckFails
  <2>3. CASE AllChecked(t)
    BY <2>3 DEF AllChecked
  <2>4. ASSUME NEW n \in Name, Remove(t, n)
        PROVE  Place(t)' /\ Same
    BY <2>4 DEF Remove
  <2>5. CASE Purge(t) \/ Free(t)
    BY <2>5 DEF Purge, Free
  <2> QED
    BY <1>4, <2>1, <2>2, <2>3, <2>4, <2>5 DEF DeleteStep
<1>5. ASSUME NEW t \in Thread, SourceStep(t)
      PROVE  /\ Place(t)' /\ sources \cup inited \subseteq sources' \cup inited'
             /\ inited \ sources \subseteq inited' \ sources'
  <2> DEFINE Grown == /\ sources \cup inited \subseteq sources' \cup inited'
                      /\ inited \ sources \subseteq inited' \ sources'
  <2>1. ASSUME NEW s \in Source, NEW i \in Send, NEW x \in Slot \cup {None}, Attach(t, s, i, x)
        PROVE  Place(t)' /\ Grown
    <3> DEFINE a == <<<<s, i>>, x>>
    <3>1. a \in Sends \X (Slot \cup {None}) /\ a[1][1] = s
      BY DEF Sends
    <3> HIDE DEF a
    <3>2. /\ pc' = [pc EXCEPT ![t] = "attach"] /\ arg' = [arg EXCEPT ![t] = a]
          /\ pc[t] = "idle" /\ s \in sources /\ holder' = t
          /\ UNCHANGED <<todo, done, sources, inited>>
      BY <2>1 DEF Attach, sourceVars, a
    <3> QED
      BY <3>1, <3>2
  <2>2. CASE AttachStore(t)
    BY <2>2 DEF AttachStore, sourceVars
  <2>3. ASSUME NEW s \in Source, GenSource(t, s)
        PROVE  Place(t)' /\ Grown
    BY <2>3 DEF GenSource
  <2>4. ASSUME NEW s \in Source, DeleteSource(t, s)
        PROVE  Place(t)' /\ Grown
    BY <2>4 DEF DeleteSource
  <2>5. CASE InitSourceParams(t)
    BY <2>5 DEF InitSourceParams
  <2>6. CASE Unlist(t)
    BY <2>6 DEF Unlist
  <2>7. ASSUME NEW i \in Send, Release(t, i)
        PROVE  Place(t)' /\ Grown
    BY <2>7 DEF Release, sourceVars
  <2> QED
    BY <1>5, <2>1, <2>2, <2>3, <2>4, <2>5, <2>6, <2>7 DEF SourceStep
<1>6. CASE Rest \/ \E n \in 0 .. MAX_SENDS : UpdateDeviceParams(n)
  BY <1>6 DEF Rest, UpdateDeviceParams, callVars, sizes, sourceVars
<1>7. ASSUME NEW t \in Thread, CallStep(t)
      PROVE  /\ Place(t)' /\ sources \cup inited \subseteq sources' \cup inited'
             /\ inited \ sources \subseteq inited' \ sources'
  <2> HIDE DEF Place
  <2> QED
    BY <1>2, <1>3, <1>4, <1>5, <1>7 DEF CallStep
<1> QED
  <2> HIDE DEF Place, PlaceInv
  <2> QED
    BY <1>1, <1>6, <1>7, Steps

LEMMA MixerStep ==
  ASSUME IInv, [Next]_vars
  PROVE  MixerOK'
<1> USE DEF IInv, MixerOK, TypeOK
<1>1. CASE Mixer
  <2>1. CASE MixBegin
    <3>1. (~DeferUpdates /\ UpdateSources) \in BOOLEAN
      OBVIOUS
    <3> QED
      BY <2>1, <3>1, Zenon DEF MixBegin
  <2>2. CASE MixEnd
    BY <2>2 DEF MixEnd, Idle
  <2>3. CASE MixSlots
    BY <2>3 DEF MixSlots
  <2>4. ASSUME NEW s, MixSource(s)
        PROVE  MixerOK'
    BY <2>4 DEF MixSource
  <2> QED
    BY <1>1, <2>1, <2>2, <2>3, <2>4 DEF Mixer
<1>2. CASE UNCHANGED mixer /\ (holder = "mixer" => holder' = "mixer")
  BY <1>2
<1>3. CASE Rest
  <2>1. CASE (\E n \in Name : SetEffect(n)) \/ (\E s \in Source : Play(s)) \/ Defer \/ Process
    BY <1>2, <2>1 DEF SetEffect, Play, Defer, Process
  <2> QED
    BY <1>1, <1>2, <1>3, <2>1 DEF Rest, vars
<1>4. ASSUME NEW t \in Thread, CallStep(t)
      PROVE  UNCHANGED mixer /\ (holder = "mixer" => holder' = "mixer")
  <2> USE ThreadAssumption DEF Unlocked, Locked
  <2>1. CASE ResizeStep(t)
    BY <2>1 DEF ResizeStep, Room, Size, Realloc, Store, ReallocFails
  <2>2. CASE GenStep(t)
    <3>1. CASE GenAppend(t)
      <4>1. holder = t
        BY <3>1 DEF GenAppend, PlaceInv, Place, Go
      <4> QED
        BY <3>1, <4>1 DEF GenAppend
    <3> QED
      BY <2>2, <3>1 DEF GenStep, Gen, GenSlot, GenName, GenRefused, GenUndo, GenNoMemory
  <2>3. CASE DeleteStep(t)
    BY <2>3 DEF DeleteStep, Delete, Check, CheckFails, AllChecked, Remove, Purge, Free
  <2>4. CASE SourceStep(t)
    <3>1. CASE AttachStore(t)
      <4>1. holder = t
        BY <3>1 DEF AttachStore, PlaceInv, Place, Go
      <4> QED
        BY <3>1, <4>1 DEF AttachStore
    <3> QED
      BY <2>4, <3>1 DEF SourceStep, Attach, GenSource, DeleteSource, InitSourceParams, Unlist,
                        Release
  <2> QED
    BY <1>4, <2>1, <2>2, <2>3, <2>4 DEF CallStep
<1>5. ASSUME NEW n, UpdateDeviceParams(n)
      PROVE  MixerOK'
  BY <1>2, <1>5 DEF UpdateDeviceParams
<1> QED
  BY <1>2, <1>3, <1>4, <1>5, Steps

-----------------------------------------------------------------------------
(* Room in the array of active slots.                                       *)

LEMMA RoomStep ==
  ASSUME IInv, [Next]_vars
  PROVE  RoomInv'
<1> USE ThreadAssumption DEF IInv, TypeOK, Go, Locked, Unlocked
<1> DEFINE card == Cardinality(ActiveEffectSlots)
           Same == UNCHANGED <<ActiveEffectSlots, MaxActiveEffectSlots>> /\ (torn => torn')
<1>1. /\ ~torn => card \in Nat
      /\ IsFiniteSet(ActiveEffectSlots') => card' \in Nat
  BY FS_CardinalityType DEF RoomInv
<1>2. ASSUME NEW t \in Thread, CallStep(t), Same, ~torn' => Room1(t)',
             pc'[t] = "store" /\ ~torn' => \A u \in Thread : pc[u] # "store"
      PROVE  RoomInv'
  <2>1. ASSUME ~torn', NEW u \in Thread
        PROVE  Room1(u)'
    <3>1. CASE u # t
      <4>1. Room1(u) /\ Kept(u)
        BY <1>2, <2>1, <3>1, Others DEF RoomInv
      <4> QED
        BY <1>2, <4>1 DEF Room1, Kept
    <3> QED
      BY <1>2, <2>1, <3>1
  <2>2. ASSUME ~torn', NEW u \in Thread, NEW v \in Thread, pc'[u] = "store", pc'[v] = "store"
        PROVE  u = v
    <3>1. \A w \in Thread \ {t} : pc'[w] = pc[w]
      BY <1>2, Others DEF Kept
    <3> QED
      BY <1>2, <2>2, <3>1 DEF RoomInv
  <2> QED
    BY <1>2, <2>1, <2>2 DEF RoomInv
<1>3. ASSUME NEW t \in Thread, CallStep(t), ~torn',
             IsFiniteSet(ActiveEffectSlots'), card' <= MaxActiveEffectSlots',
             MaxActiveEffectSlots' \in Nat, torn => torn',
             pc'[t] \notin {"realloc", "store"}, Room1(t)',
             \A u \in Thread \ {t} : Room1(u)'
      PROVE  RoomInv'
  <2>1. \A w \in Thread \ {t} : pc'[w] = pc[w]
    BY <1>3, Others DEF Kept
  <2> QED
    BY <1>3, <2>1 DEF RoomInv
<1>4. ASSUME NEW t \in Thread, ResizeStep(t)
      PROVE  RoomInv'
  <2>1. CASE Room(t)
    <3>1. Same
      BY <2>1 DEF Room, listVars
    <3>2. pc'[t] # "store" /\ pc'[t] # "realloc"
      BY <2>1 DEF Room, Resized
    <3>3. ASSUME ~torn', pc'[t] = "append"
          PROVE  card + 1 <= MaxActiveEffectSlots
      BY <1>1, <2>1, <3>1, <3>3 DEF Room, Resized, Asked, Fits, RoomInv
    <3> QED
      BY <1>2, <1>4, <3>1, <3>2, <3>3 DEF CallStep, Room1
  <2>2. CASE Size(t)
    <3>1. Same /\ pc'[t] = "realloc"
      BY <2>2 DEF Size, listVars
    <3>2. ASSUME ~torn'
          PROVE  card + 1 <= newcount'[t]
      BY <1>1, <2>2, <3>1, <3>2 DEF Size, Doubled, RoomInv
    <3> QED
      BY <1>2, <1>4, <3>1, <3>2 DEF CallStep, Room1
  <2>3. CASE Realloc(t)
    <3>1. Same /\ pc'[t] = "store" /\ pc[t] = "realloc" /\ UNCHANGED <<holder, newcount>>
      BY <2>3 DEF Realloc, sizes
    <3>2. ASSUME ~torn'
          PROVE  ~(newcount[t] < MaxActiveEffectSlots) /\ \A u \in Thread : pc[u] # "store"
      BY <2>3, <3>2 DEF Realloc, Moving
    <3>3. ~torn' => MaxActiveEffectSlots <= newcount[t]
      BY <3>2 DEF RoomInv
    <3>4. ~torn' => Room1(t)'
      BY <3>1, <3>3 DEF Room1, RoomInv
    <3> QED
      BY <1>2, <1>4, <3>1, <3>2, <3>4 DEF CallStep
  <2>4. CASE Store(t)
    <3>1. /\ MaxActiveEffectSlots' = newcount[t] /\ newcount[t] \in Nat
          /\ torn' = torn /\ UNCHANGED holder /\ pc[t] = "store" /\ pc'[t] = Resized(t)
          /\ ~torn => UNCHANGED ActiveEffectSlots
      BY <2>4 DEF Store
    <3>2. CASE ~torn'
      <4>1. /\ ~torn /\ UNCHANGED ActiveEffectSlots
            /\ MaxActiveEffectSlots <= newcount[t] /\ MaxActiveEffectSlots \in Nat
            /\ Locked(t) => card + 1 <= newcount[t]
        BY <3>1, <3>2 DEF RoomInv, Room1
      <4>2. Room1(t)'
        BY <3>1, <4>1 DEF Room1, Resized
      <4>3. ASSUME NEW u \in Thread \ {t}
            PROVE  Room1(u)'
        <5>1. Kept(u) /\ Room1(u) /\ pc[u] # "store"
          BY <1>4, <3>1, <4>1, Others DEF CallStep, RoomInv
        <5> QED
          BY <1>1, <3>1, <4>1, <5>1 DEF Kept, Room1
      <4>4. card' <= MaxActiveEffectSlots' /\ IsFiniteSet(ActiveEffectSlots')
        BY <1>1, <3>1, <4>1 DEF RoomInv
      <4> QED
        BY <1>3, <1>4, <3>1, <3>2, <4>1, <4>2, <4>3, <4>4 DEF CallStep, Resized
    <3> QED
      BY <3>1, <3>2 DEF RoomInv
  <2>5. CASE ReallocFails(t)
    <3>1. Same /\ pc'[t] \in {"undo", "idle"}
      BY <2>5 DEF ReallocFails, listVars
    <3> QED
      BY <1>2, <1>4, <3>1 DEF CallStep, Room1
  <2> QED
    BY <1>4, <2>1, <2>2, <2>3, <2>4, <2>5 DEF ResizeStep
<1>5. ASSUME NEW t \in Thread, NEW x, CallStep(t), Drop(x), Unlocked,
             pc'[t] \in {"idle", "check", "free"}
      PROVE  RoomInv'
  <2>1. UNCHANGED MaxActiveEffectSlots /\ (torn => torn')
    BY <1>5 DEF Drop, UseList
  <2>2. CASE ~torn'
    <3>1. ~torn /\ IsFiniteSet(ActiveEffectSlots) /\ card <= MaxActiveEffectSlots
      BY <2>1, <2>2 DEF RoomInv
    <3>2. IsFiniteSet(ActiveEffectSlots') /\ card' <= card
      <4>1. card \in Nat
        BY <1>1, <3>1
      <4>2. /\ IsFiniteSet(ActiveEffectSlots \ {x})
            /\ Cardinality(ActiveEffectSlots \ {x}) \in {card, card - 1}
        BY <3>1, FS_RemoveElement, Zenon
      <4>3. ActiveEffectSlots' = ActiveEffectSlots \ {x}
        BY <1>5 DEF Drop
      <4> HIDE DEF IInv
      <4> QED
        BY <4>1, <4>2, <4>3
    <3>3. Room1(t)'
      BY <1>5 DEF Room1
    <3>4. ASSUME NEW u \in Thread \ {t}
          PROVE  Room1(u)'
      <4>1. Kept(u) /\ Room1(u) /\ ~Locked(u) /\ pc[u] # "append"
        BY <1>5, <3>1, Others DEF RoomInv, PlaceInv, Place
      <4> QED
        BY <2>1, <4>1 DEF Kept, Room1
    <3>5. card' <= MaxActiveEffectSlots' /\ MaxActiveEffectSlots' \in Nat
      BY <1>1, <2>1, <3>1, <3>2 DEF RoomInv
    <3> QED
      BY <1>3, <1>5, <2>1, <2>2, <3>2, <3>3, <3>4, <3>5
  <2> QED
    BY <2>1, <2>2 DEF RoomInv
<1>6. ASSUME NEW t \in Thread, GenStep(t)
      PROVE  RoomInv'
  <2>1. CASE GenAppend(t)
    <3>1. /\ ActiveEffectSlots' = ActiveEffectSlots \cup {arg[t]} /\ holder = t
          /\ UNCHANGED MaxActiveEffectSlots /\ (torn => torn')
          /\ pc[t] = "append" /\ pc'[t] = "name"
      BY <2>1 DEF GenAppend, UseList, PlaceInv, Place
    <3>2. CASE ~torn'
      <4>1. /\ ~torn /\ IsFiniteSet(ActiveEffectSlots)
            /\ card + 1 <= MaxActiveEffectSlots /\ MaxActiveEffectSlots \in Nat
        BY <3>1, <3>2 DEF RoomInv, Room1
      <4>2. IsFiniteSet(ActiveEffectSlots') /\ card' <= card + 1
        <5>1. card \in Nat
          BY <1>1, <4>1
        <5>2. /\ IsFiniteSet(ActiveEffectSlots \cup {arg[t]})
              /\ Cardinality(ActiveEffectSlots \cup {arg[t]}) \in {card, card + 1}
          BY <4>1, FS_AddElement, Zenon
        <5> HIDE DEF IInv
        <5> QED
          BY <3>1, <5>1, <5>2
      <4>3. Room1(t)'
        BY <3>1 DEF Room1
      <4>4. ASSUME NEW u \in Thread \ {t}
            PROVE  Room1(u)'
        <5>1. Kept(u) /\ Room1(u) /\ ~Locked(u) /\ pc[u] # "append"
          BY <1>6, <3>1, <4>1, Others DEF RoomInv, PlaceInv, Place, CallStep
        <5> QED
          BY <3>1, <5>1 DEF Kept, Room1
      <4>5. card' <= MaxActiveEffectSlots' /\ MaxActiveEffectSlots' \in Nat
        BY <1>1, <3>1, <4>1, <4>2
      <4> QED
        BY <1>3, <1>6, <3>1, <3>2, <4>2, <4>3, <4>4, <4>5 DEF CallStep
    <3> QED
      BY <3>1, <3>2 DEF RoomInv
  <2>2. CASE GenUndo(t)
    <3>1. pc'[t] \in {"idle", "check"}
      BY <2>2 DEF GenUndo, Undo
    <3> QED
      BY <1>5, <1>6, <2>2, <3>1 DEF GenUndo, CallStep
  <2>3. ASSUME Same, pc'[t] \notin {"append", "realloc", "store"}
        PROVE  RoomInv'
    BY <1>2, <1>6, <2>3 DEF CallStep, Room1
  <2>4. CASE GenNoMemory(t) \/ GenRefused(t)
    BY <2>3, <2>4 DEF GenNoMemory, GenRefused, Undo, listVars
  <2>5. ASSUME NEW n, Gen(t, n) \/ GenName(t, n)
        PROVE  RoomInv'
    BY <2>3, <2>5 DEF Gen, GenName, listVars
  <2>6. ASSUME NEW x, GenSlot(t, x)
        PROVE  RoomInv'
    BY <2>3, <2>6 DEF GenSlot, listVars
  <2> QED
    BY <1>6, <2>1, <2>2, <2>4, <2>5, <2>6 DEF GenStep
<1>7. ASSUME NEW t \in Thread, DeleteStep(t) \/ SourceStep(t)
      PROVE  RoomInv'
  <2>1. ASSUME Same, pc'[t] \notin {"append", "realloc", "store"}
        PROVE  RoomInv'
    BY <1>2, <1>7, <2>1 DEF CallStep, Room1
  <2>2. ASSUME NEW n, Check(t, n) \/ CheckFails(t, n) \/ Remove(t, n)
        PROVE  RoomInv'
    BY <2>1, <2>2 DEF Check, CheckFails, Remove, listVars
  <2>3. CASE Purge(t)
    BY <1>5, <1>7, <2>3 DEF Purge, CallStep
  <2>4. CASE AllChecked(t) \/ Free(t) \/ \E N \in SUBSET Name : Delete(t, N)
    BY <2>1, <2>4 DEF AllChecked, Free, Delete, listVars
  <2>5. CASE SourceStep(t)
    <3>1. Same
      BY <2>5 DEF SourceStep, Attach, AttachStore, GenSource, DeleteSource, InitSourceParams,
                  Unlist, Release, listVars
    <3>2. pc'[t] \in {"attach", "idle", "init", "unlist", "release"}
      BY <2>5 DEF SourceStep, Attach, AttachStore, GenSource, DeleteSource, InitSourceParams,
                  Unlist, Release
    <3> QED
      BY <2>1, <3>1, <3>2
  <2> QED
    BY <1>7, <2>2, <2>3, <2>4, <2>5 DEF DeleteStep
<1>8. CASE Rest \/ \E n \in 0 .. MAX_SENDS : UpdateDeviceParams(n)
  <2>1. Same /\ UNCHANGED <<pc, newcount>> /\ \A t \in Thread : Locked(t)' <=> Locked(t)
    BY <1>8 DEF Rest, UpdateDeviceParams, callVars, sizes, listVars
  <2> QED
    BY <2>1 DEF RoomInv, Room1
<1> QED
  BY <1>4, <1>6, <1>7, <1>8, Steps DEF CallStep

-----------------------------------------------------------------------------
(* The variables stay in their types.                                       *)

LEMMA TypeStep ==
  ASSUME IInv, [Next]_vars
  PROVE  TypeOK'
<1> USE DEF IInv, TypeOK, MixerOK, Go, Send, Locked
<1>1. torn' \/ Cardinality(ActiveEffectSlots)' <= MaxActiveEffectSlots'
  BY RoomStep DEF RoomInv
<1>2. mixer'.at \in {"out", "sources", "slots"} /\ mixer'.todo \subseteq Source
  BY MixerStep
<1>3. ASSUME NEW t \in Thread, ResizeStep(t)
      PROVE  TypeOK'
  <2> USE DEF sourceVars, sendVars, flags, slotVars, sizes
  <2>1. CASE Room(t)
    BY <1>1, <1>2, <2>1 DEF Room, Resized, listVars
  <2>2. CASE Size(t)
    <3>1. Doubled \in Nat
      BY <2>2 DEF Doubled, RoomInv
    <3> QED
      BY <1>1, <1>2, <2>2, <3>1 DEF Size, listVars
  <2>3. CASE Realloc(t)
    BY <1>1, <1>2, <2>3 DEF Realloc
  <2>4. CASE Store(t)
    BY <1>1, <1>2, <2>4 DEF Store, Resized
  <2>5. CASE ReallocFails(t)
    BY <1>1, <1>2, <2>5 DEF ReallocFails, listVars
  <2> QED
    BY <1>3, <2>1, <2>2, <2>3, <2>4, <2>5 DEF ResizeStep
<1>4. ASSUME NEW t \in Thread, GenStep(t)
      PROVE  TypeOK'
  <2> USE DEF sourceVars, sendVars, flags, sizes
  <2>1. ASSUME NEW n \in Counts, Gen(t, n)
        PROVE  TypeOK'
    <3>1. n \in Nat
      BY SlotAssumption
    <3> QED
      BY <1>1, <1>2, <2>1, <3>1 DEF Gen, listVars, slotVars
  <2>2. ASSUME NEW x \in Slot, GenSlot(t, x)
        PROVE  TypeOK'
    <3>1. want[t] \in Nat \ {0}
      BY <2>2 DEF GenSlot, PlaceInv, Place
    <3>2. want' \in [Thread -> Nat]
      <4>1. want[t] - 1 \in Nat
        BY <3>1
      <4>2. want' = [want EXCEPT ![t] = want[t] - 1]
        BY <2>2 DEF GenSlot
      <4> QED
        BY <4>1, <4>2
    <3>3. EffectSlotMap' \in [Name -> allocated' \cup {None}]
      BY <2>2 DEF GenSlot
    <3> QED
      BY <1>1, <1>2, <2>2, <3>2, <3>3 DEF GenSlot, listVars
  <2>3. CASE GenAppend(t)
    BY <1>1, <1>2, <2>3 DEF GenAppend, UseList, Moving, slotVars
  <2>4. ASSUME NEW n \in Name, GenName(t, n)
        PROVE  TypeOK'
    <3>1. arg[t] \in allocated
      BY <2>4 DEF GenName, SlotInv, WithSlot
    <3> QED
      BY <1>1, <1>2, <2>4, <3>1 DEF GenName, listVars
  <2>5. CASE GenRefused(t)
    BY <1>1, <1>2, <2>5 DEF GenRefused, slotVars, listVars
  <2>6. ASSUME NEW at \in {"undo", "gen"}, Undo(t, at)
        PROVE  /\ pc' \in [Thread -> {"idle", "room", "size", "realloc", "store", "append", "gen",
                                      "name", "undo", "check", "remove", "purge", "free", "attach",
                                      "init", "unlist", "release"}]
               /\ todo' \in [Thread -> SUBSET (Name \cup Send)]
               /\ done' \in [Thread -> SUBSET Name] /\ want' \in [Thread -> Nat]
               /\ newcount' = newcount
    BY <2>6 DEF Undo
  <2>7. CASE GenUndo(t)
    <3>1. \A n \in Name : EffectSlotMap[n] # arg[t]
      BY <2>7 DEF GenUndo, Undo, SlotInv, WithSlot
    <3> QED
      BY <1>1, <1>2, <2>6, <2>7, <3>1 DEF GenUndo, Drop, UseList, Moving
  <2>8. CASE GenNoMemory(t)
    BY <1>1, <1>2, <2>6, <2>8 DEF GenNoMemory, slotVars, listVars
  <2> QED
    BY <1>4, <2>1, <2>2, <2>3, <2>4, <2>5, <2>7, <2>8 DEF GenStep
<1>5. ASSUME NEW t \in Thread, DeleteStep(t)
      PROVE  TypeOK'
  <2> USE DEF sourceVars, sendVars, flags, sizes
  <2>1. ASSUME NEW N \in SUBSET Name, Delete(t, N)
        PROVE  TypeOK'
    BY <1>1, <1>2, <2>1 DEF Delete, slotVars, listVars
  <2>2. ASSUME NEW n \in Name, Check(t, n) \/ CheckFails(t, n)
        PROVE  TypeOK'
    BY <1>1, <1>2, <2>2 DEF Check, CheckFails, slotVars, listVars
  <2>3. CASE AllChecked(t)
    BY <1>1, <1>2, <2>3 DEF AllChecked, slotVars, listVars
  <2>4. ASSUME NEW n \in Name, Remove(t, n)
        PROVE  TypeOK'
    <3>1. todo' \in [Thread -> SUBSET (Name \cup Send)]
      BY <2>4 DEF Remove
    <3>2. EffectSlotMap' \in [Name -> allocated \cup {None}]
      BY <2>4 DEF Remove
    <3> QED
      BY <1>1, <1>2, <2>4, <3>1, <3>2 DEF Remove, listVars
  <2>5. CASE Purge(t)
    BY <1>1, <1>2, <2>5 DEF Purge, Drop, UseList, Moving, slotVars
  <2>6. CASE Free(t)
    <3>1. \A n \in Name : EffectSlotMap[n] # arg[t]
      BY <2>6 DEF Free, SlotInv, WithSlot
    <3> QED
      BY <1>1, <1>2, <2>6, <3>1 DEF Free, listVars
  <2> QED
    BY <1>5, <2>1, <2>2, <2>3, <2>4, <2>5, <2>6 DEF DeleteStep
<1>6. ASSUME NEW t \in Thread, SourceStep(t)
      PROVE  TypeOK'
  <2> USE DEF slotVars, listVars, sizes
  <2>1. ASSUME NEW s \in Source, NEW i \in Send, NEW x \in Slot \cup {None}, Attach(t, s, i, x)
        PROVE  TypeOK'
    BY <1>1, <1>2, <2>1 DEF Attach, sourceVars, sendVars, flags
  <2>2. CASE AttachStore(t)
    <3>1. arg[t][1] \in Sends /\ arg[t][2] \in Slot \cup {None} /\ arg[t][1][1] \in Source
      BY <2>2 DEF AttachStore, PlaceInv, Place, Sends
    <3>2. ref' \in [Slot -> Int]
      BY <2>2 DEF AttachStore, Refs
    <3>3. send' \in [Sends -> Slot \cup {None}] /\ NeedsUpdate' \in [Source -> BOOLEAN]
      BY <2>2, <3>1 DEF AttachStore, Touch
    <3>4. raced' \in BOOLEAN
      BY <2>2 DEF AttachStore
    <3> QED
      BY <1>1, <1>2, <2>2, <3>2, <3>3, <3>4 DEF AttachStore, sourceVars, flags
  <2>3. ASSUME NEW s \in Source, GenSource(t, s)
        PROVE  TypeOK'
    BY <1>1, <1>2, <2>3 DEF GenSource, sendVars, flags
  <2>4. ASSUME NEW s \in Source, DeleteSource(t, s)
        PROVE  TypeOK'
    BY <1>1, <1>2, <2>4 DEF DeleteSource, sendVars, flags
  <2>5. CASE InitSourceParams(t)
    BY <1>1, <1>2, <2>5 DEF InitSourceParams, Touch, PlaceInv, Place, flags
  <2>6. CASE Unlist(t)
    BY <1>1, <1>2, <2>6 DEF Unlist, sendVars, flags
  <2>7. ASSUME NEW i \in Send, Release(t, i)
        PROVE  TypeOK'
    <3>1. ref' \in [Slot -> Int]
      BY <2>7 DEF Release, Refs
    <3>2. send' \in [Sends -> Slot \cup {None}]
      BY <2>7 DEF Release
    <3> QED
      BY <1>1, <1>2, <2>7, <3>1, <3>2 DEF Release, sourceVars, flags
  <2> QED
    BY <1>6, <2>1, <2>2, <2>3, <2>4, <2>5, <2>6, <2>7 DEF SourceStep
<1>7. CASE Rest
  <2>1. params' \in [Sends -> Slot \cup {None}] /\ NeedsUpdate' \in [Source -> BOOLEAN]
    <3>1. \A S : Copy(S) \in [Sends -> Slot \cup {None}]
      BY DEF Copy
    <3>2. \A S : Updated(S) => NeedsUpdate' \in [Source -> BOOLEAN]
      BY DEF Updated
    <3>3. ASSUME NEW s \in Source, MixSource(s)
          PROVE  params' \in [Sends -> Slot \cup {None}] /\ NeedsUpdate' \in [Source -> BOOLEAN]
      BY <3>1, <3>2, <3>3 DEF MixSource
    <3>4. CASE Defer
      BY <3>1, <3>2, <3>4 DEF Defer
    <3>5. CASE UNCHANGED <<params, NeedsUpdate>>
      BY <3>5
    <3> QED
      BY <1>7, <3>3, <3>4, <3>5 DEF Rest, Mixer, MixBegin, MixSlots, MixEnd, SetEffect, Play,
                                    Process, sendVars, vars
  <2>2. playing' \subseteq Source /\ DeferUpdates' \in BOOLEAN /\ UpdateSources' \in BOOLEAN
    BY <1>7 DEF Rest, Mixer, MixBegin, MixSource, MixSlots, MixEnd, SetEffect, Play, Defer,
                Process, sourceVars, flags, vars
  <2>3. holder' \in Thread \cup {None, "mixer"}
    BY <1>7 DEF Rest, Mixer, MixBegin, MixSource, MixSlots, MixEnd, SetEffect, Play, Defer,
                Process, vars
  <2>4. torn' \in BOOLEAN
    BY <1>7 DEF Rest, Mixer, MixBegin, MixSource, MixSlots, MixEnd, SetEffect, Play, Defer,
                Process, vars, listVars, UseList, Moving
  <2> QED
    BY <1>1, <1>2, <1>7, <2>1, <2>2, <2>3, <2>4 DEF Rest, slotVars, callVars, sizes
<1>8. ASSUME NEW n \in 0 .. MAX_SENDS, UpdateDeviceParams(n)
      PROVE  TypeOK'
  <2>1. send' \in [Sends -> Slot \cup {None}] /\ params' \in [Sends -> Slot \cup {None}]
    BY <1>8 DEF UpdateDeviceParams
  <2>2. NeedsUpdate' \in [Source -> BOOLEAN]
    BY <1>8 DEF UpdateDeviceParams, Updated
  <2>3. ref' \in [Slot -> Int]
    <3> DEFINE lost(x) == {c \in Lost : send[c] = x}
    <3>1. ASSUME NEW x
          PROVE  Cardinality(lost(x)) \in Int
      BY SendsFinite, FS_Subset, FS_CardinalityType DEF Lost
    <3>2. ref' = [x \in Slot |-> ref[x] - Cardinality(lost(x))]
      BY <1>8 DEF UpdateDeviceParams
    <3> HIDE DEF lost
    <3> QED
      BY <3>1, <3>2
  <2> QED
    BY <1>1, <1>2, <1>8, <2>1, <2>2, <2>3
       DEF UpdateDeviceParams, slotVars, sourceVars, callVars, sizes, listVars
<1> QED
  BY <1>3, <1>4, <1>5, <1>6, <1>7, <1>8, Steps DEF CallStep

-----------------------------------------------------------------------------
(* Slots, their names and the array.                                        *)

LEMMA SlotStep ==
  ASSUME IInv, [Next]_vars
  PROVE  SlotInv'
<1> USE DEF IInv, TypeOK, ArgOK
<1>1. ASSUME NEW t \in Thread, CallStep(t), UNCHANGED slotVars,
             WithSlot(t)' => WithSlot(t) /\ arg'[t] = arg[t]
      PROVE  SlotInv'
  <2>1. \A u \in Thread : WithSlot(u)' => WithSlot(u) /\ arg'[u] = arg[u]
    BY <1>1, Others DEF Kept, WithSlot
  <2> HIDE DEF TypeOK, ArgOK, WithSlot
  <2> QED
    BY <1>1, <2>1 DEF SlotInv, slotVars
<1>2. ASSUME NEW t \in Thread, CallStep(t)
      PROVE  \A u \in Thread \ {t} : (WithSlot(u)' <=> WithSlot(u)) /\ arg'[u] = arg[u]
  BY <1>2, Others DEF Kept, WithSlot
<1> USE SlotAssumption, ThreadAssumption DEF Growing, Go
<1>3. ASSUME NEW t \in Thread, ResizeStep(t)
      PROVE  SlotInv'
  <2>1. UNCHANGED slotVars
    BY <1>3 DEF ResizeStep, Room, Size, Realloc, Store, ReallocFails
  <2>2. WithSlot(t)' => WithSlot(t) /\ arg'[t] = arg[t]
    BY <1>3 DEF ResizeStep, Room, Size, Realloc, Store, ReallocFails, WithSlot, Locked, Resized
  <2> QED
    BY <1>1, <1>3, <2>1, <2>2 DEF CallStep
<1>4. ASSUME NEW t \in Thread, GenStep(t)
      PROVE  SlotInv'
  <2>1. ASSUME NEW n \in Counts, Gen(t, n)
        PROVE  SlotInv'
    <3>1. ~WithSlot(t)'
      BY <2>1 DEF Gen, WithSlot, Locked, PlaceInv, Place, Making
    <3> QED
      BY <1>1, <1>4, <2>1, <3>1 DEF CallStep, Gen
  <2>2. ASSUME NEW x \in Slot, GenSlot(t, x)
        PROVE  SlotInv'
    <3>1. x \notin allocated /\ allocated' = allocated \cup {x} /\ arg'[t] = x
          /\ UNCHANGED EffectSlotMap
      BY <2>2 DEF GenSlot
    <3>2. \A n \in Name : EffectSlotMap[n] # x
      BY <3>1
    <3> HIDE DEF TypeOK
    <3> QED
      BY <1>2, <1>4, <3>1, <3>2 DEF SlotInv, CallStep
  <2>3. CASE GenAppend(t)
    BY <1>1, <1>4, <2>3 DEF GenAppend, CallStep, WithSlot
  <2>4. ASSUME NEW n \in Name, GenName(t, n)
        PROVE  SlotInv'
    <3>1. /\ WithSlot(t) /\ EffectSlotMap[n] = None /\ UNCHANGED allocated
          /\ EffectSlotMap' = [EffectSlotMap EXCEPT ![n] = arg[t]]
      BY <2>4 DEF GenName, WithSlot
    <3>2. ~WithSlot(t)'
      BY <2>4 DEF GenName, WithSlot
    <3>3. \A m \in Name : EffectSlotMap'[m] = IF m = n THEN arg[t] ELSE EffectSlotMap[m]
      BY <3>1
    <3> QED
      BY <1>2, <1>4, <3>1, <3>2, <3>3 DEF SlotInv, CallStep
  <2>5. CASE GenRefused(t)
    BY <1>1, <1>4, <2>5 DEF GenRefused, CallStep, WithSlot
  <2>6. CASE GenUndo(t)
    <3>1. WithSlot(t) /\ allocated' = allocated \ {arg[t]} /\ UNCHANGED EffectSlotMap
      BY <2>6 DEF GenUndo, Undo, WithSlot
    <3>2. ~WithSlot(t)'
      BY <2>6 DEF GenUndo, Undo, WithSlot
    <3> HIDE DEF TypeOK, ArgOK
    <3> QED
      BY <1>2, <1>4, <3>1, <3>2 DEF SlotInv, CallStep
  <2>7. CASE GenNoMemory(t)
    BY <1>1, <1>4, <2>7 DEF GenNoMemory, Undo, CallStep, WithSlot
  <2> QED
    BY <1>4, <2>1, <2>2, <2>3, <2>4, <2>5, <2>6, <2>7 DEF GenStep
<1>5. ASSUME NEW t \in Thread, DeleteStep(t)
      PROVE  SlotInv'
  <2>1. ASSUME UNCHANGED slotVars, WithSlot(t)' => WithSlot(t) /\ arg'[t] = arg[t]
        PROVE  SlotInv'
    BY <1>1, <1>5, <2>1 DEF CallStep
  <2>2. ASSUME NEW N \in SUBSET Name, Delete(t, N)
        PROVE  SlotInv'
    BY <2>1, <2>2 DEF Delete, WithSlot
  <2>3. ASSUME NEW n \in Name, Check(t, n) \/ CheckFails(t, n)
        PROVE  SlotInv'
    BY <2>1, <2>3 DEF Check, CheckFails, WithSlot
  <2>4. CASE AllChecked(t)
    BY <2>1, <2>4 DEF AllChecked, WithSlot
  <2>5. ASSUME NEW n \in Name, Remove(t, n)
        PROVE  SlotInv'
    <3>1. CASE EffectSlotMap[n] = None
      <4>1. ~WithSlot(t)' /\ UNCHANGED slotVars
        BY <2>5, <3>1 DEF Remove, WithSlot, slotVars
      <4> QED
        BY <2>1, <4>1
    <3>2. CASE EffectSlotMap[n] # None
      <4>1. /\ EffectSlotMap' = [EffectSlotMap EXCEPT ![n] = None]
            /\ arg'[t] = EffectSlotMap[n] /\ UNCHANGED allocated
        BY <2>5, <3>2 DEF Remove
      <4>2. \A m \in Name : EffectSlotMap'[m] = IF m = n THEN None ELSE EffectSlotMap[m]
        BY <4>1
      <4>3. /\ EffectSlotMap[n] \in allocated
            /\ \A u \in Thread \ {t} : WithSlot(u) => arg[u] # EffectSlotMap[n]
        BY <3>2 DEF SlotInv
      <4>4. \A m \in Name \ {n} : EffectSlotMap[m] # EffectSlotMap[n]
        BY <3>2 DEF SlotInv
      <4>5. \A u \in Thread \ {t} : (WithSlot(u)' <=> WithSlot(u)) /\ arg'[u] = arg[u]
        BY <1>2, <1>5 DEF CallStep
      <4>6. SlotInv
        OBVIOUS
      <4>7. None \notin allocated
        OBVIOUS
      <4> HIDE DEF IInv, TypeOK, ArgOK
      <4>8. \A m, k \in Name : m # k /\ EffectSlotMap'[m] # None =>
                                 EffectSlotMap'[m] # EffectSlotMap'[k]
        BY <4>2, <4>6 DEF SlotInv
      <4>9. \A u \in Thread : WithSlot(u)' =>
              arg'[u] \in allocated' /\ \A m \in Name : EffectSlotMap'[m] # arg'[u]
        <5>1. ASSUME NEW u \in Thread \ {t}, WithSlot(u)
              PROVE  arg[u] \in allocated /\ arg[u] # None
                     /\ \A m \in Name : EffectSlotMap[m] # arg[u]
          BY <5>1, <4>6, <4>7 DEF SlotInv
        <5> QED
          BY <3>2, <4>1, <4>2, <4>3, <4>4, <4>5, <5>1
      <4> QED
        BY <4>1, <4>3, <4>5, <4>6, <4>8, <4>9 DEF SlotInv
    <3> QED
      BY <3>1, <3>2
  <2>6. CASE Purge(t)
    BY <2>1, <2>6 DEF Purge, WithSlot
  <2>7. CASE Free(t)
    <3>1. WithSlot(t) /\ allocated' = allocated \ {arg[t]} /\ UNCHANGED EffectSlotMap
      BY <2>7 DEF Free, WithSlot
    <3>2. ~WithSlot(t)'
      BY <2>7 DEF Free, WithSlot
    <3> HIDE DEF TypeOK, ArgOK
    <3> QED
      BY <1>2, <1>5, <3>1, <3>2 DEF SlotInv, CallStep
  <2> QED
    BY <1>5, <2>2, <2>3, <2>4, <2>5, <2>6, <2>7 DEF DeleteStep
<1>6. ASSUME NEW t \in Thread, SourceStep(t)
      PROVE  SlotInv'
  <2>1. UNCHANGED slotVars
    BY <1>6 DEF SourceStep, Attach, AttachStore, GenSource, DeleteSource, InitSourceParams, Unlist,
                Release
  <2>2. pc'[t] \in {"attach", "idle", "init", "unlist", "release"}
    BY <1>6 DEF SourceStep, Attach, AttachStore, GenSource, DeleteSource, InitSourceParams, Unlist,
                Release
  <2> QED
    BY <1>1, <1>6, <2>1, <2>2 DEF WithSlot, CallStep
<1>7. CASE Rest \/ \E n \in 0 .. MAX_SENDS : UpdateDeviceParams(n)
  <2>1. UNCHANGED <<slotVars, pc, arg>> /\ \A t \in Thread : Locked(t)' <=> Locked(t)
    BY <1>7 DEF Rest, UpdateDeviceParams, callVars, Locked
  <2>2. \A t \in Thread : WithSlot(t)' <=> WithSlot(t)
    BY <2>1 DEF WithSlot
  <2> HIDE DEF TypeOK, ArgOK
  <2> QED
    BY <2>1, <2>2 DEF SlotInv, slotVars
<1> QED
  BY <1>3, <1>4, <1>5, <1>6, <1>7, Steps DEF CallStep

LEMMA ListStep ==
  ASSUME IInv, [Next]_vars
  PROVE  ListInv'
<1> USE DEF IInv, TypeOK, ArgOK
<1>1. ASSUME NEW t \in Thread, CallStep(t), torn => torn',
             UNCHANGED <<ActiveEffectSlots, slotVars>>, pc'[t] \notin {"name", "free"}
      PROVE  ListInv'
  <2>1. \A u \in Thread \ {t} : pc'[u] = pc[u] /\ arg'[u] = arg[u]
    BY <1>1, Others DEF Kept
  <2> HIDE DEF TypeOK, ArgOK
  <2> QED
    BY <1>1, <2>1 DEF ListInv, slotVars
<1> USE SlotAssumption DEF Go
<1>2. ASSUME NEW t \in Thread, CallStep(t)
      PROVE  \A u \in Thread \ {t} : pc'[u] = pc[u] /\ arg'[u] = arg[u]
  BY <1>2, Others DEF Kept
<1>3. ASSUME NEW t \in Thread, ResizeStep(t)
      PROVE  ListInv'
  <2>1. (torn => torn') /\ pc'[t] \notin {"name", "free"} /\ UNCHANGED slotVars
        /\ (~torn' => UNCHANGED ActiveEffectSlots)
    BY <1>3 DEF ResizeStep, Room, Size, Realloc, Store, ReallocFails, Resized, listVars
  <2> QED
    BY <1>1, <1>3, <2>1 DEF CallStep, ListInv
<1>4. ASSUME NEW t \in Thread, GenStep(t)
      PROVE  ListInv'
  <2>1. ASSUME torn => torn', UNCHANGED <<ActiveEffectSlots, slotVars>>,
               pc'[t] \notin {"name", "free"}
        PROVE  ListInv'
    BY <1>1, <1>4, <2>1 DEF CallStep
  <2>2. ASSUME NEW n \in Counts, Gen(t, n)
        PROVE  ListInv'
    BY <2>1, <2>2 DEF Gen, listVars
  <2>3. ASSUME NEW x \in Slot, GenSlot(t, x)
        PROVE  ListInv'
    <3>1. /\ allocated' = allocated \cup {x} /\ pc'[t] = "room"
          /\ UNCHANGED <<EffectSlotMap, ActiveEffectSlots, torn>>
      BY <2>3 DEF GenSlot, listVars
    <3> HIDE DEF TypeOK, ArgOK
    <3> QED
      BY <1>2, <1>4, <3>1 DEF ListInv, CallStep
  <2>4. CASE GenAppend(t)
    <3>1. /\ ActiveEffectSlots' = ActiveEffectSlots \cup {arg[t]} /\ pc'[t] = "name"
          /\ UNCHANGED <<EffectSlotMap, allocated>> /\ (torn => torn') /\ arg'[t] = arg[t]
          /\ WithSlot(t)
      BY <2>4 DEF GenAppend, slotVars, UseList, WithSlot
    <3>2. arg[t] \in allocated
      BY <3>1 DEF SlotInv
    <3>3. \A u \in Thread \ {t} : pc[u] = "free" => arg[u] # arg[t]
      BY <3>1 DEF SlotInv, WithSlot
    <3> HIDE DEF TypeOK, ArgOK
    <3> QED
      BY <1>2, <1>4, <3>1, <3>2, <3>3 DEF ListInv, CallStep
  <2>5. ASSUME NEW n \in Name, GenName(t, n)
        PROVE  ListInv'
    <3>1. /\ EffectSlotMap' = [EffectSlotMap EXCEPT ![n] = arg[t]] /\ pc[t] = "name"
          /\ pc'[t] \notin {"name", "free"} /\ UNCHANGED <<allocated, ActiveEffectSlots, torn>>
      BY <2>5 DEF GenName, listVars
    <3>2. \A m \in Name : EffectSlotMap'[m] = IF m = n THEN arg[t] ELSE EffectSlotMap[m]
      BY <3>1
    <3> HIDE DEF TypeOK, ArgOK
    <3> QED
      BY <1>2, <1>4, <3>1, <3>2 DEF ListInv, CallStep
  <2>6. CASE GenRefused(t) \/ GenNoMemory(t)
    BY <2>1, <2>6 DEF GenRefused, GenNoMemory, Undo, listVars
  <2>7. CASE GenUndo(t)
    <3>1. /\ ActiveEffectSlots' = ActiveEffectSlots \ {arg[t]} /\ allocated' = allocated \ {arg[t]}
          /\ pc'[t] \notin {"name", "free"} /\ UNCHANGED EffectSlotMap /\ (torn => torn')
          /\ WithSlot(t)
      BY <2>7 DEF GenUndo, Undo, Drop, UseList, WithSlot
    <3>2. /\ \A n \in Name : EffectSlotMap[n] # arg[t]
          /\ \A u \in Thread \ {t} : pc[u] = "name" => arg[u] # arg[t]
      BY <3>1 DEF SlotInv, WithSlot
    <3> HIDE DEF TypeOK, ArgOK
    <3> QED
      BY <1>2, <1>4, <3>1, <3>2 DEF ListInv, CallStep
  <2> QED
    BY <1>4, <2>2, <2>3, <2>4, <2>5, <2>6, <2>7 DEF GenStep
<1>5. ASSUME NEW t \in Thread, DeleteStep(t)
      PROVE  ListInv'
  <2>1. ASSUME torn => torn', UNCHANGED <<ActiveEffectSlots, slotVars>>,
               pc'[t] \notin {"name", "free"}
        PROVE  ListInv'
    BY <1>1, <1>5, <2>1 DEF CallStep
  <2>2. ASSUME NEW N \in SUBSET Name, Delete(t, N)
        PROVE  ListInv'
    BY <2>1, <2>2 DEF Delete, listVars
  <2>3. ASSUME NEW n \in Name, Check(t, n) \/ CheckFails(t, n)
        PROVE  ListInv'
    BY <2>1, <2>3 DEF Check, CheckFails, listVars
  <2>4. CASE AllChecked(t)
    BY <2>1, <2>4 DEF AllChecked, listVars
  <2>5. ASSUME NEW n \in Name, Remove(t, n)
        PROVE  ListInv'
    <3>1. /\ EffectSlotMap' \in {EffectSlotMap, [EffectSlotMap EXCEPT ![n] = None]}
          /\ pc'[t] \notin {"name", "free"} /\ UNCHANGED <<allocated, ActiveEffectSlots, torn>>
      BY <2>5 DEF Remove, listVars
    <3>2. \A m \in Name : EffectSlotMap'[m] \in {EffectSlotMap[m], None}
      BY <3>1
    <3> HIDE DEF TypeOK, ArgOK
    <3> QED
      BY <1>2, <1>5, <3>1, <3>2 DEF ListInv, CallStep
  <2>6. CASE Purge(t)
    <3>1. /\ ActiveEffectSlots' = ActiveEffectSlots \ {arg[t]} /\ arg'[t] = arg[t]
          /\ pc'[t] # "name" /\ UNCHANGED <<EffectSlotMap, allocated>> /\ (torn => torn')
          /\ WithSlot(t)
      BY <2>6 DEF Purge, Drop, UseList, WithSlot, slotVars
    <3>2. /\ \A n \in Name : EffectSlotMap[n] # arg[t]
          /\ \A u \in Thread \ {t} : pc[u] = "name" => arg[u] # arg[t]
      BY <3>1 DEF SlotInv, WithSlot
    <3> HIDE DEF TypeOK, ArgOK
    <3> QED
      BY <1>2, <1>5, <3>1, <3>2 DEF ListInv, CallStep
  <2>7. CASE Free(t)
    <3>1. /\ allocated' = allocated \ {arg[t]} /\ pc[t] = "free"
          /\ pc'[t] \notin {"name", "free"} /\ UNCHANGED <<EffectSlotMap, ActiveEffectSlots, torn>>
      BY <2>7 DEF Free, listVars
    <3> HIDE DEF TypeOK, ArgOK
    <3> QED
      BY <1>2, <1>5, <3>1 DEF ListInv, CallStep
  <2> QED
    BY <1>5, <2>2, <2>3, <2>4, <2>5, <2>6, <2>7 DEF DeleteStep
<1>6. ASSUME NEW t \in Thread, SourceStep(t)
      PROVE  ListInv'
  <2>1. UNCHANGED <<listVars, slotVars>>
    BY <1>6 DEF SourceStep, Attach, AttachStore, GenSource, DeleteSource, InitSourceParams, Unlist,
                Release
  <2>2. pc'[t] \in {"attach", "idle", "init", "unlist", "release"}
    BY <1>6 DEF SourceStep, Attach, AttachStore, GenSource, DeleteSource, InitSourceParams, Unlist,
                Release
  <2> QED
    BY <1>1, <1>6, <2>1, <2>2 DEF listVars, CallStep
<1>7. CASE Rest \/ \E n \in 0 .. MAX_SENDS : UpdateDeviceParams(n)
  <2>1. UNCHANGED <<slotVars, pc, arg, ActiveEffectSlots>> /\ (torn => torn')
    BY <1>7 DEF Rest, UpdateDeviceParams, callVars, listVars
  <2> HIDE DEF TypeOK, ArgOK
  <2> QED
    BY <2>1 DEF ListInv, slotVars
<1> QED
  BY <1>3, <1>4, <1>5, <1>6, <1>7, Steps DEF CallStep

-----------------------------------------------------------------------------
(* The counts, the sends and the parameters.                                *)

(* One send changes: the counts of the two slots follow.                    *)
LEMMA SendChanges ==
  ASSUME IInv, NEW c \in Sends, NEW x,
         ref' = Refs(c, x), send' = [send EXCEPT ![c] = x]
  PROVE  RefsInv'
<1> USE DEF IInv, TypeOK
<1>1. ASSUME NEW y \in Slot
      PROVE  ref'[y] = Cardinality(Pointing(y)')
  <2>1. /\ IsFiniteSet(Pointing(y)) /\ Cardinality(Pointing(y)) \in Nat
        /\ ref[y] = Cardinality(Pointing(y)) /\ (c \in Pointing(y) <=> y = send[c])
    BY SendsFinite, FS_Subset, FS_CardinalityType DEF Pointing, RefsInv
  <2>2. ref'[y] = ref[y] - (IF y = send[c] THEN 1 ELSE 0) + (IF y = x THEN 1 ELSE 0)
    BY DEF Refs
  <2>3. CASE y = x
    <3>1. Pointing(y)' = Pointing(y) \cup {c}
      BY <2>3 DEF Pointing
    <3>2. Cardinality(Pointing(y) \cup {c}) = IF y = send[c] THEN ref[y] ELSE ref[y] + 1
      BY <2>1, FS_AddElement, ZenonT(30)
    <3> QED
      BY <2>1, <2>2, <2>3, <3>1, <3>2
  <2>4. CASE y # x
    <3>1. Pointing(y)' = Pointing(y) \ {c}
      BY <2>4 DEF Pointing
    <3> HIDE DEF IInv, TypeOK
    <3>2. Cardinality(Pointing(y) \ {c})
          = IF c \in Pointing(y) THEN Cardinality(Pointing(y)) - 1 ELSE Cardinality(Pointing(y))
      BY <2>1, FS_RemoveElement, Zenon
    <3> QED
      BY <2>1, <2>2, <2>4, <3>1, <3>2
  <2> QED
    BY <2>3, <2>4
<1> QED
  BY <1>1 DEF RefsInv

LEMMA RefsStep ==
  ASSUME IInv, [Next]_vars
  PROVE  RefsInv'
<1> USE DEF IInv, TypeOK
<1>1. CASE UNCHANGED <<send, ref>>
  BY <1>1 DEF RefsInv, Pointing
<1>2. ASSUME NEW t \in Thread, AttachStore(t)
      PROVE  RefsInv'
  <2>1. arg[t][1] \in Sends
    BY <1>2 DEF AttachStore, PlaceInv, Place, Go
  <2> QED
    BY <1>2, <2>1, SendChanges DEF AttachStore
<1>3. ASSUME NEW t \in Thread, NEW i \in Send, Release(t, i)
      PROVE  RefsInv'
  <2>1. <<arg[t], i>> \in Sends
    BY <1>3 DEF Release, PlaceInv, Place, Go, Sends
  <2> QED
    BY <1>3, <2>1, SendChanges DEF Release
<1>4. ASSUME NEW n \in 0 .. MAX_SENDS, UpdateDeviceParams(n)
      PROVE  RefsInv'
  <2>1. ASSUME NEW x \in Slot
        PROVE  ref'[x] = Cardinality(Pointing(x)')
    <3>1. /\ IsFiniteSet(Pointing(x)) /\ Cardinality(Pointing(x)) \in Nat
          /\ ref[x] = Cardinality(Pointing(x))
      BY SendsFinite, FS_Subset, FS_CardinalityType DEF Pointing, RefsInv
    <3>2. {c \in Lost : send[c] = x} = Pointing(x) \cap Lost
      BY DEF Pointing, Lost
    <3>3. Pointing(x)' = Pointing(x) \ Lost
      BY <1>4, SlotAssumption DEF UpdateDeviceParams, Pointing
    <3>4. ref'[x] = ref[x] - Cardinality(Pointing(x) \cap Lost)
      BY <1>4, <3>2 DEF UpdateDeviceParams
    <3>5. Cardinality(Pointing(x) \ Lost)
          = Cardinality(Pointing(x)) - Cardinality(Pointing(x) \cap Lost)
      BY <3>1, FS_Difference
    <3> QED
      BY <3>1, <3>3, <3>4, <3>5
  <2> QED
    BY <2>1 DEF RefsInv
<1>5. ASSUME NEW t \in Thread, ResizeStep(t) \/ GenStep(t) \/ DeleteStep(t)
      PROVE  RefsInv'
  BY <1>1, <1>5 DEF ResizeStep, Room, Size, Realloc, Store, ReallocFails, GenStep, Gen, GenSlot,
                    GenAppend, GenName, GenRefused, GenUndo, GenNoMemory, DeleteStep, Delete, Check,
                    CheckFails, AllChecked, Remove, Purge, Free, sendVars
<1>6. ASSUME NEW t \in Thread, SourceStep(t)
      PROVE  RefsInv'
  BY <1>1, <1>2, <1>3, <1>6 DEF SourceStep, Attach, GenSource, DeleteSource, InitSourceParams,
                                Unlist, sendVars
<1> QED
  BY <1>1, <1>4, <1>5, <1>6, Steps DEF Rest, CallStep

(* The names that the deletion of u has tested.                             *)
TestedBy(u) ==
  {n \in Name : \/ pc[u] = "check" /\ n \in done[u]
                \/ pc[u] \in Removing /\ n \in todo[u]}

(* A slot becomes unsafe only when its count was tested and was zero.       *)
LEMMA SafeStep ==
  ASSUME IInv, [Next]_vars
  PROVE  SafeInv'
<1> USE SlotAssumption DEF IInv, TypeOK, Go
<1>1. \A n \in Name : n \in Tested <=> \E u \in Thread : n \in TestedBy(u)
  BY Zenon DEF Tested, TestedBy, Removing
<1>2. \A n \in Name : n \in Tested' <=> \E u \in Thread : n \in TestedBy(u)'
  BY Zenon DEF Tested, TestedBy, Removing
<1>3. ASSUME NEW t \in Thread, CallStep(t), TestedBy(t)' \subseteq TestedBy(t)
      PROVE  \A n \in Name : n \in Tested' => n \in Tested
  <2>1. \A u \in Thread \ {t} : TestedBy(u)' = TestedBy(u)
    BY <1>3, Others DEF Kept, TestedBy
  <2> QED
    BY <1>1, <1>2, <1>3, <2>1
<1>4. ASSUME \A n \in Name : n \in Tested' => n \in Tested,
             \A n \in Name \ Tested :
               EffectSlotMap[n] \in Slot => EffectSlotMap'[n] = EffectSlotMap[n]
      PROVE  \A x \in Slot : Safe(x) => Safe(x)'
  BY <1>4 DEF Safe
<1>5. ASSUME \A x \in Slot : Safe(x) => Safe(x)',
             raced => raced', \A c \in Sends : send'[c] \in {send[c], None}
      PROVE  SafeInv'
  BY <1>5 DEF SafeInv
<1>6. ASSUME NEW t \in Thread, CallStep(t), TestedBy(t)' \subseteq TestedBy(t),
             UNCHANGED <<EffectSlotMap, send, raced>>
      PROVE  SafeInv'
  BY <1>3, <1>4, <1>5, <1>6
<1>7. ASSUME NEW t \in Thread, ResizeStep(t)
      PROVE  SafeInv'
  <2>1. UNCHANGED <<EffectSlotMap, send, raced>>
    BY <1>7 DEF ResizeStep, Room, Size, Realloc, Store, ReallocFails, slotVars, sendVars
  <2>2. pc'[t] \notin Removing \cup {"check"}
    BY <1>7 DEF ResizeStep, Room, Size, Realloc, Store, ReallocFails, Resized, Removing
  <2> QED
    BY <1>6, <1>7, <2>1, <2>2 DEF CallStep, TestedBy
<1>8. ASSUME NEW t \in Thread, GenStep(t)
      PROVE  SafeInv'
  <2>1. TestedBy(t)' = {}
    <3>1. \/ pc'[t] \notin Removing \cup {"check"}
          \/ /\ pc'[t] = "check"
             /\ done'[t] = {}
      BY <1>8 DEF GenStep, Gen, GenSlot, GenAppend, GenName, GenRefused, GenUndo, GenNoMemory, Undo,
                  Removing
    <3> QED
      BY <3>1 DEF TestedBy, Removing
  <2>2. ASSUME NEW n \in Name, GenName(t, n)
        PROVE  SafeInv'
    <3>1. \A m \in Name : EffectSlotMap[m] \in Slot => EffectSlotMap'[m] = EffectSlotMap[m]
      BY <2>2 DEF GenName
    <3>2. UNCHANGED <<send, raced>>
      BY <2>2 DEF GenName, sendVars
    <3>3. \A m \in Name : m \in Tested' => m \in Tested
      BY <1>3, <1>8, <2>1 DEF CallStep
    <3> QED
      BY <1>4, <1>5, <3>1, <3>2, <3>3
  <2>3. CASE UNCHANGED <<EffectSlotMap, send, raced>>
    BY <1>6, <1>8, <2>1, <2>3 DEF CallStep
  <2> QED
    BY <1>8, <2>2, <2>3 DEF GenStep, Gen, GenSlot, GenAppend, GenRefused, GenUndo, GenNoMemory,
                            slotVars, sendVars
<1>9. ASSUME NEW t \in Thread, DeleteStep(t)
      PROVE  SafeInv'
  <2>1. ASSUME TestedBy(t)' \subseteq TestedBy(t), UNCHANGED <<EffectSlotMap, send, raced>>
        PROVE  SafeInv'
    BY <1>6, <1>9, <2>1 DEF CallStep
  <2>2. ASSUME NEW N \in SUBSET Name, Delete(t, N)
        PROVE  SafeInv'
    <3>1. pc'[t] = "check" /\ done'[t] = {}
      BY <2>2 DEF Delete, PlaceInv, Place, Making, Growing
    <3> QED
      BY <2>1, <2>2, <3>1 DEF Delete, TestedBy, Removing, slotVars, sendVars
  <2>3. ASSUME NEW n \in Name, Check(t, n)
        PROVE  SafeInv'
    <3> DEFINE y == EffectSlotMap[n]
    <3>1. y \in Slot /\ ref[y] = 0
      BY <2>3 DEF Check, Unused
    <3>2. \A c \in Sends : send[c] # y
      <4>1. IsFiniteSet(Pointing(y)) /\ Cardinality(Pointing(y)) = 0
        BY <3>1, SendsFinite, FS_Subset DEF RefsInv, Pointing
      <4> HIDE DEF y, IInv, TypeOK
      <4>2. Pointing(y) = {}
        BY <4>1, FS_EmptySet
      <4> QED
        BY <4>2 DEF Pointing
    <3>3. UNCHANGED <<EffectSlotMap, send, raced>> /\ TestedBy(t)' \subseteq TestedBy(t) \cup {n}
      BY <2>3 DEF Check, TestedBy, Removing, slotVars, sendVars
    <3>4. \A m \in Name \ {n} : m \in Tested' => m \in Tested
      <4>1. \A u \in Thread \ {t} : TestedBy(u)' = TestedBy(u)
        BY <1>9, Others DEF Kept, TestedBy, CallStep
      <4> QED
        BY <1>1, <1>2, <3>3, <4>1
    <3>5. ASSUME NEW x \in Slot, x # y, Safe(x)
          PROVE  Safe(x)'
      BY <3>3, <3>4, <3>5 DEF Safe
    <3> QED
      BY <3>2, <3>3, <3>5 DEF SafeInv
  <2>4. ASSUME NEW n \in Name, CheckFails(t, n)
        PROVE  SafeInv'
    BY <2>1, <2>4 DEF CheckFails, TestedBy, Removing, slotVars, sendVars
  <2>5. CASE AllChecked(t)
    BY <2>1, <2>5 DEF AllChecked, TestedBy, Removing, slotVars, sendVars
  <2>6. ASSUME NEW n \in Name, Remove(t, n)
        PROVE  SafeInv'
    <3>1. n \in Tested /\ TestedBy(t)' \subseteq TestedBy(t)
      <4>1. pc[t] = "remove" /\ n \in todo[t] /\ todo'[t] \subseteq todo[t]
            /\ pc'[t] \in {"purge", "remove", "idle"}
        BY <2>6 DEF Remove
      <4>2. n \in TestedBy(t) /\ TestedBy(t)' \subseteq TestedBy(t)
        BY <4>1 DEF TestedBy, Removing
      <4> QED
        BY <1>1, <4>2
    <3>2. \A m \in Name \ Tested : EffectSlotMap'[m] = EffectSlotMap[m]
      BY <2>6, <3>1 DEF Remove
    <3>3. \A m \in Name : m \in Tested' => m \in Tested
      BY <1>3, <1>9, <3>1 DEF CallStep
    <3>4. UNCHANGED <<send, raced>>
      BY <2>6 DEF Remove, sendVars
    <3> QED
      BY <1>4, <1>5, <3>2, <3>3, <3>4
  <2>7. CASE Purge(t) \/ Free(t)
    BY <2>1, <2>7 DEF Purge, Free, TestedBy, Removing, slotVars, sendVars
  <2> QED
    BY <1>9, <2>2, <2>3, <2>4, <2>5, <2>6, <2>7 DEF DeleteStep
<1>10. ASSUME NEW t \in Thread, SourceStep(t)
      PROVE  SafeInv'
  <2>1. TestedBy(t)' = {} /\ UNCHANGED EffectSlotMap
    <3>1. pc'[t] \in {"attach", "idle", "init", "unlist", "release"} /\ UNCHANGED slotVars
      BY <1>10 DEF SourceStep, Attach, AttachStore, GenSource, DeleteSource, InitSourceParams,
                   Unlist, Release
    <3> QED
      BY <3>1 DEF TestedBy, Removing, slotVars
  <2>2. \A x \in Slot : Safe(x) => Safe(x)'
    <3>1. \A n \in Name : n \in Tested' => n \in Tested
      BY <1>3, <1>10, <2>1 DEF CallStep
    <3> QED
      BY <1>4, <2>1, <3>1
  <2>3. CASE AttachStore(t)
    <3> SUFFICES ASSUME ~raced', NEW c \in Sends, send'[c] # None
                 PROVE  send'[c] \in Slot /\ Safe(send'[c])
      BY <2>2 DEF SafeInv
    <3> DEFINE d == arg[t][1]
               x == arg[t][2]
    <3>1. d \in Sends /\ x \in Slot \cup {None}
      BY <2>3 DEF AttachStore, PlaceInv, Place
    <3>2. send' = [send EXCEPT ![d] = x] /\ ~raced /\ (x # None => Safe(x))
      BY <2>3 DEF AttachStore
    <3> HIDE DEF d, x
    <3> QED
      BY <3>1, <3>2 DEF SafeInv
  <2>4. ASSUME NEW i \in Send, Release(t, i)
        PROVE  SafeInv'
    <3>1. (raced => raced') /\ \A c \in Sends : send'[c] \in {send[c], None}
      BY <2>4 DEF Release
    <3> QED
      BY <1>5, <2>2, <3>1
  <2>5. CASE UNCHANGED <<send, raced>>
    BY <1>5, <2>2, <2>5
  <2> QED
    BY <1>10, <2>3, <2>4, <2>5 DEF SourceStep, Attach, GenSource, DeleteSource, InitSourceParams,
                                   Unlist, sendVars
<1>11. CASE Rest \/ \E n \in 0 .. MAX_SENDS : UpdateDeviceParams(n)
  <2>1. UNCHANGED <<EffectSlotMap, pc, todo, done, raced>>
    BY <1>11 DEF Rest, UpdateDeviceParams, slotVars, callVars
  <2>2. \A x \in Slot : Safe(x) => Safe(x)'
    BY <2>1 DEF Safe, Tested
  <2>3. \A c \in Sends : send'[c] \in {send[c], None}
    BY <1>11 DEF Rest, UpdateDeviceParams
  <2> QED
    BY <1>5, <2>1, <2>2, <2>3
<1> QED
  BY <1>7, <1>8, <1>9, <1>10, <1>11, Steps DEF CallStep

LEMMA CopyIs ==
  ASSUME NumAuxSends \in 0 .. MAX_SENDS, NEW S, NEW s \in Source, NEW i \in Send
  PROVE  Copy(S)[<<s, i>>] = IF s \in S /\ i < NumAuxSends THEN send[<<s, i>>] ELSE params[<<s, i>>]
BY DEF Copy, Sends

LEMMA ParamsStep ==
  ASSUME IInv, [Next]_vars
  PROVE  ParamsInv'
<1> USE DEF IInv, TypeOK, ParamsInv, Go
<1>0. /\ NumAuxSends \in 0 .. MAX_SENDS /\ MAX_SENDS \in Nat
      /\ \A i \in 0 .. NumAuxSends - 1 : i \in Send
      /\ \A s \in Source, i \in Send : <<s, i>> \in Sends
  BY SendAssumption DEF Send, Sends
<1>1. CASE UNCHANGED <<sources, inited, NeedsUpdate, NumAuxSends, params, send>>
  BY <1>1
<1>2. ASSUME NEW t \in Thread, ResizeStep(t) \/ GenStep(t) \/ DeleteStep(t)
      PROVE  ParamsInv'
  BY <1>1, <1>2 DEF ResizeStep, Room, Size, Realloc, Store, ReallocFails, GenStep, Gen, GenSlot,
                    GenAppend, GenName, GenRefused, GenUndo, GenNoMemory, DeleteStep, Delete, Check,
                    CheckFails, AllChecked, Remove, Purge, Free, sendVars, sourceVars, flags
<1>3. ASSUME NEW t \in Thread, SourceStep(t)
      PROVE  ParamsInv'
  <2>1. ASSUME NEW s \in Source, NEW i \in Send, NEW x \in Slot \cup {None}, Attach(t, s, i, x)
        PROVE  ParamsInv'
    BY <1>1, <2>1 DEF Attach, sourceVars, sendVars, flags
  <2>2. CASE AttachStore(t)
    <3> DEFINE c == arg[t][1]
               x == arg[t][2]
    <3>1. c \in Sends /\ c[1] \in sources \cup inited /\ c[1] \in Source
      BY <2>2 DEF AttachStore, PlaceInv, Place, Go
    <3>2. /\ send' = [send EXCEPT ![c] = x] /\ NeedsUpdate' = [NeedsUpdate EXCEPT ![c[1]] = TRUE]
          /\ UNCHANGED <<sources, inited, NumAuxSends, params>>
      BY <2>2 DEF AttachStore, Touch, sourceVars, flags
    <3> HIDE DEF c, x
    <3>3. \A s \in Source, i \in Send : s # c[1] => send'[<<s, i>>] = send[<<s, i>>]
      BY <1>0, <3>1, <3>2
    <3> QED
      BY <1>0, <3>1, <3>2, <3>3
  <2>3. ASSUME NEW s \in Source, GenSource(t, s)
        PROVE  ParamsInv'
    BY <1>0, <2>3 DEF GenSource, sendVars, flags
  <2>4. ASSUME NEW s \in Source, DeleteSource(t, s)
        PROVE  ParamsInv'
    BY <2>4 DEF DeleteSource, sendVars, flags
  <2>5. CASE InitSourceParams(t)
    BY <2>5 DEF InitSourceParams, Touch, PlaceInv, Place, flags
  <2>6. CASE Unlist(t)
    BY <1>1, <2>6 DEF Unlist, sendVars, flags
  <2>7. ASSUME NEW j \in Send, Release(t, j)
        PROVE  ParamsInv'
    <3> DEFINE r == arg[t]
               c == <<r, j>>
    <3>1. r \in inited \ sources /\ c \in Sends
      BY <1>0, <2>7 DEF Release, PlaceInv, Place
    <3>2. /\ send' = [send EXCEPT ![c] = None]
          /\ UNCHANGED <<sources, inited, NumAuxSends, params, NeedsUpdate>>
      BY <2>7 DEF Release, sourceVars, flags
    <3> HIDE DEF r
    <3>3. \A s \in Source, i \in Send : s # r => send'[<<s, i>>] = send[<<s, i>>]
      BY <1>0, <3>1, <3>2
    <3> QED
      BY <1>0, <3>1, <3>2, <3>3
  <2> QED
    BY <1>3, <2>1, <2>2, <2>3, <2>4, <2>5, <2>6, <2>7 DEF SourceStep
<1>4. ASSUME NEW S, params' = Copy(S), Updated(S), UNCHANGED <<sources, inited, send, NumAuxSends>>
      PROVE  ParamsInv'
  <2>1. \A s \in Source, i \in Send :
          params'[<<s, i>>] = IF s \in S /\ i < NumAuxSends THEN send[<<s, i>>] ELSE params[<<s, i>>]
    BY <1>0, <1>4 DEF Copy
  <2>2. \A s \in Source : NeedsUpdate'[s] <=> s \notin S /\ NeedsUpdate[s]
    BY <1>4 DEF Updated
  <2> QED
    BY <1>0, <1>4, <2>1, <2>2
<1>5. CASE Rest
  <2>1. ASSUME NEW s \in Source, MixSource(s)
        PROVE  ParamsInv'
    <3>1. CASE Due(s)
      BY <1>4, <1>5, <2>1, <3>1 DEF MixSource, Rest
    <3>2. CASE ~Due(s)
      <4>1. params' = params /\ \A r \in Source : NeedsUpdate'[r] <=> NeedsUpdate[r]
        BY <2>1, <3>2 DEF MixSource, Updated
      <4> QED
        BY <1>5, <4>1 DEF Rest
    <3> QED
      BY <3>1, <3>2
  <2>2. CASE Defer
    BY <1>4, <1>5, <2>2 DEF Defer, Rest
  <2>3. CASE UNCHANGED <<params, NeedsUpdate>>
    BY <1>1, <1>5, <2>3 DEF Rest
  <2> QED
    BY <1>5, <2>1, <2>2, <2>3 DEF Rest, Mixer, MixBegin, MixSlots, MixEnd, SetEffect,
                                  Play, Process, sendVars, vars
<1>6. ASSUME NEW n \in 0 .. MAX_SENDS, UpdateDeviceParams(n)
      PROVE  ParamsInv'
  <2>1. NumAuxSends' = n /\ UNCHANGED <<sources, inited>>
    BY <1>6 DEF UpdateDeviceParams, sourceVars
  <2>2. ASSUME NEW s \in Source, NEW i \in Send
        PROVE  /\ params'[<<s, i>>] = IF s \in sources /\ i < n THEN send[<<s, i>>]
                                      ELSE params[<<s, i>>]
               /\ send'[<<s, i>>] = IF s \in sources /\ i >= n THEN None ELSE send[<<s, i>>]
    BY <1>0, <1>6, <2>1 DEF UpdateDeviceParams, Lost
  <2>3. ASSUME NEW s \in sources, NEW i \in 0 .. NumAuxSends' - 1
        PROVE  params'[<<s, i>>] = send'[<<s, i>>]
    <3>1. s \in Source /\ i \in Send /\ i < n
      BY <1>0, <2>1 DEF Send
    <3> QED
      BY <1>0, <2>2, <3>1 DEF Send
  <2>4. ASSUME NEW s \in Source \ (sources \cup inited), NEW i \in Send
        PROVE  send'[<<s, i>>] = None /\ params'[<<s, i>>] = None
    BY <2>2
  <2> QED
    BY <2>1, <2>3, <2>4
<1> QED
  BY <1>2, <1>3, <1>5, <1>6, Steps DEF CallStep

-----------------------------------------------------------------------------
LEMMA InitInv == Init => IInv
<1> SUFFICES ASSUME Init
             PROVE  IInv
  OBVIOUS
<1> USE SlotAssumption, ThreadAssumption DEF Init
<1>1. RoomInv
  BY FS_EmptySet DEF RoomInv, Room1
<1>2. TypeOK
  <2>1. Cardinality(ActiveEffectSlots) <= MaxActiveEffectSlots
    BY <1>1 DEF RoomInv
  <2>2. NumAuxSends \in 0 .. MAX_SENDS
    BY SendAssumption
  <2>3. mixer.at \in {"out", "sources", "slots"} /\ mixer.todo \subseteq Source
    BY DEF Idle
  <2>4. /\ ref \in [Slot -> Int] /\ NeedsUpdate \in [Source -> BOOLEAN]
        /\ send \in [Sends -> Slot \cup {None}] /\ params \in [Sends -> Slot \cup {None}]
        /\ EffectSlotMap \in [Name -> allocated \cup {None}]
    OBVIOUS
  <2>5. /\ pc \in [Thread -> {"idle"}] /\ want \in [Thread -> Nat] /\ newcount \in [Thread -> Nat]
        /\ todo \in [Thread -> SUBSET (Name \cup Send)] /\ done \in [Thread -> SUBSET Name]
    OBVIOUS
  <2>6. pc \in [Thread -> {"idle", "room", "size", "realloc", "store", "append", "gen", "name",
                           "undo", "check", "remove", "purge", "free", "attach", "init",
                           "unlist", "release"}]
    BY <2>5
  <2>7. /\ allocated \subseteq Slot \ fresh
        /\ sources \subseteq Source /\ inited \subseteq Source /\ playing \subseteq Source
        /\ DeferUpdates \in BOOLEAN /\ UpdateSources \in BOOLEAN
        /\ raced \in BOOLEAN /\ torn \in BOOLEAN
        /\ holder \in Thread \cup {None, "mixer"}
    OBVIOUS
  <2> HIDE DEF Init
  <2> QED
    BY <2>1, <2>2, <2>3, <2>4, <2>5, <2>6, <2>7 DEF TypeOK
<1>3. MixerOK /\ ArgOK
  BY DEF MixerOK, Idle, ArgOK
<1>4. PlaceInv /\ SlotInv /\ ListInv
  BY DEF PlaceInv, Place, SlotInv, ListInv, Growing, Making, Removing, WithSlot, Locked
<1>5. RefsInv
  <2>1. \A x \in Slot : Pointing(x) = {}
    BY DEF Pointing
  <2> QED
    BY <2>1, FS_EmptySet DEF RefsInv
<1>6. SafeInv /\ ParamsInv
  BY DEF SafeInv, ParamsInv, Sends
<1> QED
  BY <1>1, <1>2, <1>3, <1>4, <1>5, <1>6 DEF IInv

LEMMA Invariant == Spec => []IInv
<1>1. IInv /\ [Next]_vars => IInv'
  BY TypeStep, MixerStep, ArgStep, PlaceStep, SlotStep, ListStep, RoomStep, RefsStep, SafeStep,
     ParamsStep
     DEF IInv
<1> QED
  BY InitInv, <1>1, PTL DEF Spec

-----------------------------------------------------------------------------
(* The variables stay in their types.  In particular the array of active    *)
(* slots is never longer than ResizeEffectSlotArray made it, while calls    *)
(* that create slots make room, with the lock and without it, in steps that *)
(* interleave, until the array is used between a call's realloc and its     *)
(* stores or is given a size that has become too small (torn).              *)
THEOREM TypeCorrect == Spec => []TypeOK
<1>1. IInv => TypeOK
  BY DEF IInv
<1> QED
  BY Invariant, <1>1, PTL

(* The count of a slot is the number of sends that point to it.             *)
THEOREM Exact == Spec => []RefsExact
<1>1. IInv => RefsExact
  BY DEF IInv, TypeOK, RefsInv, RefsExact, Pointing
<1> QED
  BY Invariant, <1>1, PTL

(* Until the array is torn, a named slot is on the mixer's list, and what   *)
(* is on the list is in memory.  What a send points to is in memory, torn   *)
(* or not, though names are given again at once and a deletion removes what *)
(* its name stands for then, until a send takes a slot under a name that a  *)
(* deletion still going on has already tested (raced).                      *)
THEOREM Live == Spec => []SlotsLive
<1>1. IInv => SlotsLive
  BY SlotAssumption DEF IInv, TypeOK, ListInv, SafeInv, Safe, SlotsLive
<1> QED
  BY Invariant, <1>1, PTL

(* The mixer writes a source in the map to slots that are in memory, with   *)
(* the sends it was last updated with.                                      *)
THEOREM MixesLive == Spec => MixesLiveSlots
<1>1. IInv /\ [Next]_vars =>
        [\A s \in sources : MixSource(s) /\ ~mixer.defer /\ ~raced =>
           \A i \in 0 .. NumAuxSends - 1 : params'[<<s, i>>] \in allocated \cup {None}]_vars
  <2> SUFFICES ASSUME IInv, NEW s \in sources, MixSource(s), ~mixer.defer, ~raced,
                      NEW i \in 0 .. NumAuxSends - 1
               PROVE  params'[<<s, i>>] \in allocated \cup {None}
    OBVIOUS
  <2>1. s \in Source /\ i \in Send /\ i < NumAuxSends /\ NumAuxSends \in 0 .. MAX_SENDS
    BY SendAssumption DEF IInv, TypeOK, Send
  <2>2. send[<<s, i>>] \in allocated \cup {None}
    BY <2>1, SlotAssumption DEF IInv, TypeOK, SafeInv, Safe, Sends
  <2>3. params'[<<s, i>>] = send[<<s, i>>]
    <3>1. CASE Due(s)
      BY <2>1, <3>1, CopyIs DEF MixSource
    <3>2. CASE ~Due(s)
      BY <3>2 DEF MixSource, Due, IInv, ParamsInv
    <3> QED
      BY <3>1, <3>2
  <2> QED
    BY <2>2, <2>3
<1> QED
  BY Invariant, <1>1, PTL DEF Spec, MixesLiveSlots
=============================================================================
