----------------------------- MODULE EffectSlots -----------------------------
(***************************************************************************)
(* Auxiliary effect slots of a context (OpenAL32/alAuxEffectSlot.c), the   *)
(* sends of sources that feed them (alSource.c), and the mixer, which      *)
(* writes to the slots that ALsource_Update copied into a source's Params. *)
(*                                                                         *)
(* A slot is counted by the sends that point to it and may be deleted at   *)
(* zero.  The count is tested without the lock sends are changed under, and*)
(* by a name that may stand for another slot when it is removed.  The array*)
(* of active slots grows in steps, with the lock of the context and without*)
(* it.  Blocks of memory are never used twice in this model, so that a     *)
(* freed slot stays recognisable; names are.                               *)
(***************************************************************************)
EXTENDS Integers, FiniteSets

CONSTANTS Thread, Slot, Name, Source,
          None,                    (* NULL *)
          MAX_SENDS,
          Counts                   (* bound: numbers of slots a call asks for *)

ASSUME SlotAssumption == None \notin Slot /\ Counts \subseteq Nat \ {0}
ASSUME ThreadAssumption == None \notin Thread \cup {"mixer"} /\ "mixer" \notin Thread
ASSUME SendAssumption == IsFiniteSet(Source) /\ MAX_SENDS \in Nat

VARIABLES allocated,               \* slots in memory
          EffectSlotMap,           \* the slot each name stands for, or None
          ActiveEffectSlots, MaxActiveEffectSlots,
          ref,                     \* of each slot
          fresh,                   \* history: blocks not handed out yet
          sources, inited,         \* sources in SourceMap; InitSourceParams done
          send, params,            \* Send[i].Slot and Params.Send[i].Slot
          NeedsUpdate, playing,    \* of the sources
          NumAuxSends, DeferUpdates, UpdateSources,
          holder,                  \* who is in LockContext
          mixer,                   \* the mixer's place and the sources it has to mix
          pc, arg, todo, done,     \* each call's place and locals
          want, newcount,          \* slots still to make; the size to grow to
          raced,                   \* history: a send took a slot after a deletion
                                   \* still going on had tested its name
          torn                     \* history: the array was used while it grew, or
                                   \* grew to a size that had become too small

listVars == <<ActiveEffectSlots, MaxActiveEffectSlots, torn>>
slotVars == <<allocated, EffectSlotMap, fresh>>
sourceVars == <<sources, inited, playing>>
sendVars == <<send, ref, NeedsUpdate>>
flags == <<NumAuxSends, DeferUpdates, UpdateSources>>
sizes == <<want, newcount>>
callVars == <<pc, arg, todo, done, sizes>>
vars == <<listVars, slotVars, sourceVars, sendVars, params, flags, holder, mixer, callVars, raced>>

Send == 0 .. MAX_SENDS - 1
Sends == Source \X Send
Idle == [at |-> "out", defer |-> FALSE, update |-> FALSE, todo |-> {}]

TypeOK ==
  /\ allocated \subseteq Slot \ fresh
  /\ EffectSlotMap \in [Name -> allocated \cup {None}]
  /\ torn \/ Cardinality(ActiveEffectSlots) <= MaxActiveEffectSlots
  /\ ref \in [Slot -> Int]
  /\ sources \subseteq Source /\ inited \subseteq Source /\ playing \subseteq Source
  /\ send \in [Sends -> Slot \cup {None}] /\ params \in [Sends -> Slot \cup {None}]
  /\ NeedsUpdate \in [Source -> BOOLEAN]
  /\ NumAuxSends \in 0 .. MAX_SENDS /\ DeferUpdates \in BOOLEAN /\ UpdateSources \in BOOLEAN
  /\ holder \in Thread \cup {None, "mixer"}
  /\ mixer.at \in {"out", "sources", "slots"} /\ mixer.todo \subseteq Source
  /\ pc \in [Thread -> {"idle", "room", "size", "realloc", "store", "append", "gen", "name",
                        "undo", "check", "remove", "purge", "free", "attach", "init",
                        "unlist", "release"}]
  /\ todo \in [Thread -> SUBSET (Name \cup Send)] /\ done \in [Thread -> SUBSET Name]
  /\ want \in [Thread -> Nat] /\ newcount \in [Thread -> Nat]
  /\ raced \in BOOLEAN /\ torn \in BOOLEAN

Init ==
  /\ allocated = {} /\ EffectSlotMap = [n \in Name |-> None] /\ fresh = Slot
  /\ ActiveEffectSlots = {} /\ MaxActiveEffectSlots = 0
  /\ ref = [x \in Slot |-> 0]
  /\ sources = {} /\ inited = {} /\ playing = {}
  /\ send = [c \in Sends |-> None] /\ params = [c \in Sends |-> None]
  /\ NeedsUpdate = [s \in Source |-> FALSE]
  /\ NumAuxSends = MAX_SENDS /\ DeferUpdates = FALSE /\ UpdateSources = FALSE
  /\ holder = None /\ mixer = Idle
  /\ pc = [t \in Thread |-> "idle"] /\ arg = [t \in Thread |-> None]
  /\ todo = [t \in Thread |-> {}] /\ done = [t \in Thread |-> {}]
  /\ want = [t \in Thread |-> 0] /\ newcount = [t \in Thread |-> 0]
  /\ raced = FALSE /\ torn = FALSE

Go(t, from, to) == pc[t] = from /\ pc' = [pc EXCEPT ![t] = to]
-----------------------------------------------------------------------------
(* Faulty variants of the operators below: bugs the properties must notice. *)
CheckNothing(n) == EffectSlotMap[n] # None
RefsKept(c, x) == [y \in Slot |-> ref[y] + IF y = x THEN 1 ELSE 0]
TouchNothing(s) == UNCHANGED NeedsUpdate
NoRoom == MaxActiveEffectSlots

Unlocked == holder = None

Unused(n) == EffectSlotMap[n] # None /\ ref[EffectSlotMap[n]] = 0

(* The names a deletion that goes on has tested, and the slots no such      *)
(* deletion can free.                                                       *)
Tested ==
  {n \in Name : \E u \in Thread :
     \/ pc[u] = "check" /\ n \in done[u]
     \/ pc[u] \in {"remove", "purge", "free"} /\ n \in todo[u]}
Safe(x) == \E n \in Name \ Tested : EffectSlotMap[n] = x

(* ResizeEffectSlotArray doubles once, however many entries are asked for.  *)
Doubled == IF MaxActiveEffectSlots = 0 THEN 1 ELSE 2 * MaxActiveEffectSlots
Fits(n) == n <= MaxActiveEffectSlots - Cardinality(ActiveEffectSlots)

(* The array is used: wrongly if a thread that has moved it has not told.   *)
Moving == \E u \in Thread : pc[u] = "store"
UseList == torn' = (torn \/ Moving)

(* RemoveEffectSlotArray *)
Drop(x) ==
  /\ ActiveEffectSlots' = ActiveEffectSlots \ {x}
  /\ UseList
  /\ UNCHANGED MaxActiveEffectSlots

(* One send is changed: the old slot loses a reference, the new one gains it.*)
Refs(c, x) ==
  [y \in Slot |-> ref[y] - (IF y = send[c] THEN 1 ELSE 0) + (IF y = x THEN 1 ELSE 0)]

Touch(s) == NeedsUpdate' = [NeedsUpdate EXCEPT ![s] = TRUE]

(* ALsource_Update of the sources in S *)
Copy(S) ==
  [c \in Sends |-> IF c[1] \in S /\ c[2] < NumAuxSends THEN send[c] ELSE params[c]]

-----------------------------------------------------------------------------
(* alGenAuxiliaryEffectSlots: room for all of them without the lock; then   *)
(* each is made, put on the list under the lock, and named.                 *)
Gen(t, n) ==
  /\ Go(t, "idle", "room")
  /\ want' = [want EXCEPT ![t] = n]
  /\ UNCHANGED <<listVars, slotVars, sourceVars, sendVars, params, flags, holder, mixer, arg,
                 todo, done, newcount, raced>>

(* ResizeEffectSlotArray, with the lock for one more or without it for all: *)
(* its test, the new size, realloc, and the two stores as one step, which   *)
(* leave anything of what was on the list when it was used meanwhile.       *)
Locked(t) == holder = t
Asked(t) == IF Locked(t) THEN 1 ELSE want[t]
Resized(t) == IF Locked(t) THEN "append" ELSE "gen"

Room(t) ==
  /\ Go(t, "room", IF Fits(Asked(t)) THEN Resized(t) ELSE "size")
  /\ UNCHANGED <<listVars, slotVars, sourceVars, sendVars, params, flags, holder, mixer, arg,
                 todo, done, sizes, raced>>

Size(t) ==
  /\ Go(t, "size", "realloc")
  /\ newcount' = [newcount EXCEPT ![t] = Doubled]
  /\ UNCHANGED <<listVars, slotVars, sourceVars, sendVars, params, flags, holder, mixer, arg,
                 todo, done, want, raced>>

Realloc(t) ==
  /\ Go(t, "realloc", "store")
  /\ torn' = (torn \/ Moving \/ newcount[t] < MaxActiveEffectSlots \/ mixer.at = "slots")
  /\ UNCHANGED <<ActiveEffectSlots, MaxActiveEffectSlots, slotVars, sourceVars, sendVars, params,
                 flags, holder, mixer, arg, todo, done, sizes, raced>>

Store(t) ==
  /\ Go(t, "store", Resized(t))
  /\ IF torn THEN ActiveEffectSlots' \in SUBSET (Slot \ fresh) ELSE UNCHANGED ActiveEffectSlots
  /\ MaxActiveEffectSlots' = newcount[t]
  /\ newcount' = [newcount EXCEPT ![t] = 0]
  /\ UNCHANGED <<torn, slotVars, sourceVars, sendVars, params, flags, holder, mixer, arg, todo,
                 done, want, raced>>

(* Without the lock nothing was made yet; with it the slot is taken back.   *)
ReallocFails(t) ==
  /\ Go(t, "realloc", IF Locked(t) THEN "undo" ELSE "idle")
  /\ holder' = IF Locked(t) THEN None ELSE holder
  /\ newcount' = [newcount EXCEPT ![t] = 0]
  /\ want' = [want EXCEPT ![t] = 0]
  /\ UNCHANGED <<listVars, slotVars, sourceVars, sendVars, params, flags, mixer, arg, todo, done,
                 raced>>

GenSlot(t, x) ==
  /\ Go(t, "gen", "room")
  /\ Unlocked /\ holder' = t
  /\ x \in fresh
  /\ fresh' = fresh \ {x}
  /\ allocated' = allocated \cup {x}
  /\ arg' = [arg EXCEPT ![t] = x]
  /\ want' = [want EXCEPT ![t] = @ - 1]
  /\ UNCHANGED <<listVars, EffectSlotMap, sourceVars, sendVars, params, flags, mixer, todo, done,
                 newcount, raced>>

GenAppend(t) ==
  /\ Go(t, "append", "name")
  /\ holder' = None
  /\ ActiveEffectSlots' = ActiveEffectSlots \cup {arg[t]}
  /\ UseList
  /\ UNCHANGED <<MaxActiveEffectSlots, slotVars, sourceVars, sendVars, params, flags, mixer, arg,
                 todo, done, sizes, raced>>

GenName(t, n) ==
  /\ Go(t, "name", IF want[t] = 0 THEN "idle" ELSE "gen")
  /\ EffectSlotMap[n] = None
  /\ EffectSlotMap' = [EffectSlotMap EXCEPT ![n] = arg[t]]
  /\ done' = [done EXCEPT ![t] = IF want[t] = 0 THEN {} ELSE @ \cup {n}]
  /\ arg' = [arg EXCEPT ![t] = None]
  /\ UNCHANGED <<listVars, allocated, fresh, sourceVars, sendVars, params, flags, holder, mixer,
                 todo, sizes, raced>>

(* No name, or no entry: the slot is taken back.                            *)
GenRefused(t) ==
  /\ Go(t, "name", "undo")
  /\ want' = [want EXCEPT ![t] = 0]
  /\ UNCHANGED <<listVars, slotVars, sourceVars, sendVars, params, flags, holder, mixer, arg, todo,
                 done, newcount, raced>>

(* The names given so far go through alDeleteAuxiliaryEffectSlots.          *)
Undo(t, from) ==
  /\ Go(t, from, IF done[t] = {} THEN "idle" ELSE "check")
  /\ todo' = [todo EXCEPT ![t] = done[t]]
  /\ done' = [done EXCEPT ![t] = {}]
  /\ want' = [want EXCEPT ![t] = 0]
  /\ UNCHANGED newcount

GenUndo(t) ==
  /\ Undo(t, "undo")
  /\ Unlocked
  /\ Drop(arg[t])
  /\ allocated' = allocated \ {arg[t]}
  /\ arg' = [arg EXCEPT ![t] = None]
  /\ UNCHANGED <<EffectSlotMap, fresh, sourceVars, sendVars, params, flags, holder, mixer, raced>>

GenNoMemory(t) ==
  /\ Undo(t, "gen")
  /\ UNCHANGED <<listVars, slotVars, sourceVars, sendVars, params, flags, holder, mixer, arg,
                 raced>>

-----------------------------------------------------------------------------
(* alDeleteAuxiliaryEffectSlots: tests every name, then removes each; one   *)
(* that was given more than once is tested and removed again.               *)
Delete(t, N) ==
  /\ N # {}
  /\ Go(t, "idle", "check")
  /\ todo' = [todo EXCEPT ![t] = N]
  /\ UNCHANGED <<listVars, slotVars, sourceVars, sendVars, params, flags, holder, mixer, arg, done,
                 sizes, raced>>

Check(t, n) ==
  /\ pc[t] = "check" /\ n \in todo[t]
  /\ Unused(n)
  /\ done' = [done EXCEPT ![t] = @ \cup {n}]
  /\ UNCHANGED <<listVars, slotVars, sourceVars, sendVars, params, flags, holder, mixer, pc, arg,
                 todo, sizes, raced>>

CheckFails(t, n) ==
  /\ n \in todo[t]
  /\ ~Unused(n)
  /\ Go(t, "check", "idle")
  /\ todo' = [todo EXCEPT ![t] = {}] /\ done' = [done EXCEPT ![t] = {}]
  /\ UNCHANGED <<listVars, slotVars, sourceVars, sendVars, params, flags, holder, mixer, arg, sizes,
                 raced>>

AllChecked(t) ==
  /\ Go(t, "check", "remove")
  /\ todo[t] = done[t]
  /\ done' = [done EXCEPT ![t] = {}]
  /\ UNCHANGED <<listVars, slotVars, sourceVars, sendVars, params, flags, holder, mixer, arg, todo,
                 sizes, raced>>

(* The slot the name stands for now, which need not be the one tested; the  *)
(* name is free again at once.                                              *)
Remove(t, n) ==
  /\ n \in todo[t]
  /\ todo' \in {todo, [todo EXCEPT ![t] = @ \ {n}]}
  /\ IF EffectSlotMap[n] # None
     THEN /\ Go(t, "remove", "purge")
          /\ EffectSlotMap' = [EffectSlotMap EXCEPT ![n] = None]
          /\ arg' = [arg EXCEPT ![t] = EffectSlotMap[n]]
     ELSE /\ Go(t, "remove", IF todo'[t] = {} THEN "idle" ELSE "remove")
          /\ UNCHANGED <<EffectSlotMap, arg>>
  /\ UNCHANGED <<listVars, allocated, fresh, sourceVars, sendVars, params, flags, holder, mixer,
                 done, sizes, raced>>

Purge(t) ==
  /\ Go(t, "purge", "free")
  /\ Unlocked
  /\ Drop(arg[t])
  /\ UNCHANGED <<slotVars, sourceVars, sendVars, params, flags, holder, mixer, arg, todo, done,
                 sizes, raced>>

Free(t) ==
  /\ Go(t, "free", IF todo[t] = {} THEN "idle" ELSE "remove")
  /\ allocated' = allocated \ {arg[t]}
  /\ arg' = [arg EXCEPT ![t] = None]
  /\ UNCHANGED <<listVars, EffectSlotMap, fresh, sourceVars, sendVars, params, flags, holder, mixer,
                 todo, done, sizes, raced>>

-----------------------------------------------------------------------------
(* alSource3i(AL_AUXILIARY_SEND_FILTER): under the lock from the lookups to *)
(* the change of the references.  Deletion does not wait for this lock.     *)
Attach(t, s, i, x) ==
  /\ Go(t, "idle", "attach")
  /\ Unlocked /\ holder' = t
  /\ s \in sources /\ i < NumAuxSends
  /\ x = None \/ \E n \in Name : EffectSlotMap[n] = x
  /\ arg' = [arg EXCEPT ![t] = <<<<s, i>>, x>>]
  /\ UNCHANGED <<listVars, slotVars, sourceVars, sendVars, params, flags, mixer, todo, done, sizes,
                 raced>>

AttachStore(t) ==
  LET c == arg[t][1]
      x == arg[t][2] IN
  /\ Go(t, "attach", "idle")
  /\ holder' = None
  /\ send' = [send EXCEPT ![c] = x]
  /\ ref' = Refs(c, x)
  /\ Touch(c[1])
  /\ raced' = (raced \/ (x # None /\ ~Safe(x)))
  /\ arg' = [arg EXCEPT ![t] = None]
  /\ UNCHANGED <<listVars, slotVars, sourceVars, params, flags, mixer, todo, done, sizes>>

(* InitializeEffect, and AL_EFFECTSLOT_AUXILIARY_SEND_AUTO: every source is *)
(* to be updated.                                                           *)
SetEffect(n) ==
  /\ Unlocked /\ EffectSlotMap[n] # None
  /\ UpdateSources' = TRUE
  /\ UNCHANGED <<listVars, slotVars, sourceVars, sendVars, params, NumAuxSends, DeferUpdates,
                 holder, mixer, callVars, raced>>

-----------------------------------------------------------------------------
(* alGenSources: the source is in the map before InitSourceParams.          *)
GenSource(t, s) ==
  /\ s \notin sources \cup inited
  /\ Go(t, "idle", "init")
  /\ sources' = sources \cup {s}
  /\ arg' = [arg EXCEPT ![t] = s]
  /\ UNCHANGED <<listVars, slotVars, inited, playing, sendVars, params, flags, holder, mixer,
                 todo, done, sizes, raced>>

InitSourceParams(t) ==
  /\ Go(t, "init", "idle")
  /\ inited' = inited \cup {arg[t]}
  /\ Touch(arg[t])
  /\ arg' = [arg EXCEPT ![t] = None]
  /\ UNCHANGED <<listVars, slotVars, sources, playing, send, ref, params, flags, holder, mixer,
                 todo, done, sizes, raced>>

(* alSourcePlay and alSourceStop, and the end of the source's sound. *)
Play(s) ==
  /\ Unlocked /\ s \in sources \cap inited
  /\ playing' \in {playing \cup {s}, playing \ {s}}
  /\ UNCHANGED <<listVars, slotVars, sources, inited, sendVars, params, flags, holder, mixer,
                 callVars, raced>>

(* alDeleteSources: off the map, off the list, and then, without the lock,  *)
(* one reference per send.                                                  *)
DeleteSource(t, s) ==
  /\ s \in sources \cap inited
  /\ Go(t, "idle", "unlist")
  /\ sources' = sources \ {s}
  /\ arg' = [arg EXCEPT ![t] = s]
  /\ todo' = [todo EXCEPT ![t] = Send]
  /\ UNCHANGED <<listVars, slotVars, inited, playing, sendVars, params, flags, holder, mixer,
                 done, sizes, raced>>

Unlist(t) ==
  /\ Go(t, "unlist", "release")
  /\ Unlocked
  /\ playing' = playing \ {arg[t]}
  /\ UNCHANGED <<listVars, slotVars, sources, inited, sendVars, params, flags, holder, mixer,
                 arg, todo, done, sizes, raced>>

Release(t, i) ==
  LET c == <<arg[t], i>> IN
  /\ i \in todo[t]
  /\ IF todo[t] = {i}
     THEN Go(t, "release", "idle") /\ arg' = [arg EXCEPT ![t] = None]
     ELSE Go(t, "release", "release") /\ UNCHANGED arg
  /\ todo' = [todo EXCEPT ![t] = @ \ {i}]
  /\ ref' = Refs(c, None)
  /\ send' = [send EXCEPT ![c] = None]
  /\ UNCHANGED <<listVars, slotVars, sourceVars, NeedsUpdate, params, flags, holder, mixer,
                 done, sizes, raced>>

-----------------------------------------------------------------------------
(* alDeferUpdatesSOFT brings the playing sources up to date first.          *)
Needing(flag) == {s \in playing : NeedsUpdate[s] \/ flag}

Updated(S) == NeedsUpdate' = [s \in Source |-> s \notin S /\ NeedsUpdate[s]]

Defer ==
  /\ Unlocked /\ ~DeferUpdates
  /\ DeferUpdates' = TRUE /\ UpdateSources' = FALSE
  /\ params' = Copy(Needing(UpdateSources))
  /\ Updated(Needing(UpdateSources))
  /\ UNCHANGED <<listVars, slotVars, sourceVars, send, ref, NumAuxSends, holder, mixer,
                 callVars, raced>>

(* alProcessUpdatesSOFT: the flag is cleared without the lock. *)
Process ==
  /\ DeferUpdates
  /\ DeferUpdates' = FALSE
  /\ UNCHANGED <<listVars, slotVars, sourceVars, sendVars, params, NumAuxSends, UpdateSources,
                 holder, mixer, callVars, raced>>

(* UpdateDeviceParams, called by alcCreateContext with playback stopped:    *)
(* sends the device no longer has are cleared, and all sources updated.     *)
Lost == {c \in Sends : c[1] \in sources /\ c[2] >= NumAuxSends'}

UpdateDeviceParams(n) ==
  /\ Unlocked
  /\ sources \subseteq inited
  /\ NumAuxSends' = n
  /\ UpdateSources' = FALSE
  /\ ref' = [x \in Slot |-> ref[x] - Cardinality({c \in Lost : send[c] = x})]
  /\ send' = [c \in Sends |-> IF c \in Lost THEN None ELSE send[c]]
  /\ params' = [c \in Sends |-> IF c[1] \in sources /\ c[2] < n THEN send[c] ELSE params[c]]
  /\ Updated(sources)
  /\ UNCHANGED <<listVars, slotVars, sourceVars, DeferUpdates, holder, mixer, callVars, raced>>

-----------------------------------------------------------------------------
(* aluMixData: under the lock, the playing sources and then the slots.      *)
MixBegin ==
  /\ Unlocked /\ holder' = "mixer"
  /\ mixer' = [at |-> "sources", defer |-> DeferUpdates,
               update |-> ~DeferUpdates /\ UpdateSources, todo |-> playing]
  /\ UpdateSources' = (DeferUpdates /\ UpdateSources)
  /\ UNCHANGED <<listVars, slotVars, sourceVars, sendVars, params, NumAuxSends, DeferUpdates,
                 callVars, raced>>

(* ALsource_Update if it is due, then MixSource. *)
Due(s) == ~mixer.defer /\ (NeedsUpdate[s] \/ mixer.update)

MixSource(s) ==
  /\ mixer.at = "sources" /\ s \in mixer.todo
  /\ mixer' = [mixer EXCEPT !.todo = @ \ {s}]
  /\ params' = IF Due(s) THEN Copy({s}) ELSE params
  /\ Updated(IF Due(s) THEN {s} ELSE {})
  /\ UNCHANGED <<listVars, slotVars, sourceVars, send, ref, flags, holder, callVars, raced>>

(* The slots on the list, each in turn, until MixEnd. *)
MixSlots ==
  /\ mixer.at = "sources" /\ mixer.todo = {}
  /\ mixer' = [mixer EXCEPT !.at = "slots"]
  /\ UseList
  /\ UNCHANGED <<ActiveEffectSlots, MaxActiveEffectSlots, slotVars, sourceVars, sendVars, params,
                 flags, holder, callVars, raced>>

MixEnd ==
  /\ mixer.at = "slots"
  /\ mixer' = Idle /\ holder' = None
  /\ UNCHANGED <<listVars, slotVars, sourceVars, sendVars, params, flags, callVars, raced>>

-----------------------------------------------------------------------------
Mixer ==
  \/ MixBegin \/ MixSlots \/ MixEnd
  \/ \E s \in Source : MixSource(s)

Call ==
  \/ \E t \in Thread :
       \/ \E n \in Counts : Gen(t, n)
       \/ Room(t) \/ Size(t) \/ Realloc(t) \/ Store(t) \/ ReallocFails(t)
       \/ \E x \in Slot : GenSlot(t, x)
       \/ \E n \in Name : GenName(t, n) \/ Check(t, n) \/ CheckFails(t, n) \/ Remove(t, n)
       \/ GenAppend(t) \/ GenRefused(t) \/ GenUndo(t) \/ GenNoMemory(t)
       \/ \E N \in SUBSET Name : Delete(t, N)
       \/ AllChecked(t) \/ Purge(t) \/ Free(t)
       \/ \E s \in Source, i \in Send, x \in Slot \cup {None} : Attach(t, s, i, x)
       \/ AttachStore(t)
       \/ \E s \in Source : GenSource(t, s) \/ DeleteSource(t, s)
       \/ InitSourceParams(t) \/ Unlist(t)
       \/ \E i \in Send : Release(t, i)
  \/ \E n \in Name : SetEffect(n)
  \/ \E s \in Source : Play(s)
  \/ \E n \in 0 .. MAX_SENDS : UpdateDeviceParams(n)
  \/ Defer \/ Process

Next == Mixer \/ Call

Spec == Init /\ [][Next]_vars

-----------------------------------------------------------------------------
(* The count of a slot is the number of sends that point to it, whether the *)
(* source is in the map, being deleted, or has lost sends to its device.    *)
RefsExact == \A x \in allocated : ref[x] = Cardinality({c \in Sends : send[c] = x})

(* The mixer processes every slot with a name, and none that was freed: a   *)
(* slot is on the list before it is named, and off it before it is freed;   *)
(* not once the array was used while it grew without the lock (torn).  A    *)
(* send points to a slot in memory, unless a send took a slot when a        *)
(* deletion still going on had already tested the name it stands under,     *)
(* though it may have stood for another slot then (raced).                  *)
SlotsLive ==
  /\ ~torn => \A n \in Name : EffectSlotMap[n] \in ActiveEffectSlots \cup {None}
  /\ ~torn => ActiveEffectSlots \subseteq allocated
  /\ ~raced => \A c \in Sends : send[c] \in allocated \cup {None}

(* When the mixer writes a source to the slots of its sends, they are in    *)
(* memory, although a slot is freed as soon as no Send points to it and     *)
(* Params are brought up to date later.  Not so while updates are deferred, *)
(* and for a source off the map but still on the list when a device gets    *)
(* back sends it had lost: UpdateDeviceParams only updates what is on the   *)
(* map.                                                                     *)
MixesLiveSlots ==
  [][\A s \in sources : MixSource(s) /\ ~mixer.defer /\ ~raced =>
       \A i \in 0 .. NumAuxSends - 1 : params'[<<s, i>>] \in allocated \cup {None}]_vars
=============================================================================
