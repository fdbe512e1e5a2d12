------------------------------ MODULE Contexts -------------------------------
(***************************************************************************)
(* The devices and contexts of OpenAL-Soft (Alc/ALc.c): their reference    *)
(* counts, the global and the thread-local current context, the device     *)
(* list and its lock, and the mixer threads that walk the context lists    *)
(* under their device's mutex.                                             *)
(*                                                                         *)
(* A thread's call takes one step for each access to what other threads    *)
(* use without the lock it holds: unlinking, the mixer barrier, every      *)
(* DecRef.  A DecRef that reaches zero frees in the same step.             *)
(***************************************************************************)
EXTENDS Integers, FiniteSets

CONSTANTS
  Thread,                  (* application threads                              *)
  Device, Context,         (* blocks of memory; none is used twice             *)
  Null

ASSUME NullAssumption == Null \notin Device \cup Context \cup Thread
ASSUME MemoryAssumption == Device \cap Context = {}
ASSUME FiniteAssumption == IsFiniteSet(Thread) /\ IsFiniteSet(Context)

VARIABLES
  open,                    \* the devices on g_pDeviceList
  head, next,              \* ContextList of a device, next of a context
  device,                  \* the device of a context
  born,                    \* the contexts and devices allocated so far
  ref, dref,               \* reference counts of contexts and of devices; 0 when freed
  GlobalContext, LocalContext,
  ListLock, Mutex,         \* who holds the list lock and each device's mutex
  running, Connected,      \* DEVICE_RUNNING, and not disconnected
  mixer,                   \* where each device's mixer thread is: a context or Null
  pc, ctx, dev             \* each thread's place, and the objects its call is about

vars == <<open, head, next, device, born, ref, dref, GlobalContext, LocalContext,
          ListLock, Mutex, running, Connected, mixer, pc, ctx, dev>>

lists == <<open, head, next, device, born>>
current == <<GlobalContext, LocalContext>>
playback == <<running, Connected, mixer>>
local == <<pc, ctx, dev>>

Mixing == "mixer"          \* the mixer thread as the holder of its mutex

ASSUME MixingAssumption == Mixing \notin Thread \cup {Null}

Place == {"idle", "read", "lock", "ref", "locked", "wild", "device",
          "create", "update", "link", "failed",
          "destroy", "close", "barrier", "local", "global", "own", "stop", "last"}

TypeOK ==
  /\ open \subseteq Device /\ born \subseteq Device \cup Context
  /\ head \in [Device -> Context \cup {Null}]
  /\ next \in [Context -> Context \cup {Null}]
  /\ device \in [Context -> Device \cup {Null}]
  /\ ref \in [Context -> Nat] /\ dref \in [Device -> Nat]
  /\ GlobalContext \in Context \cup {Null}
  /\ LocalContext \in [Thread -> Context \cup {Null}]
  /\ ListLock \in Thread \cup {Null}
  /\ Mutex \in [Device -> Thread \cup {Mixing, Null}]
  /\ running \in [Device -> BOOLEAN] /\ Connected \in [Device -> BOOLEAN]
  /\ mixer \in [Device -> Context \cup {Null}]
  /\ pc \in [Thread -> Place]
  /\ ctx \in [Thread -> Context \cup {Null}] /\ dev \in [Thread -> Device \cup {Null}]

Init ==
  /\ open = {} /\ born = {}
  /\ head = [d \in Device |-> Null] /\ next = [c \in Context |-> Null]
  /\ device = [c \in Context |-> Null]
  /\ ref = [c \in Context |-> 0] /\ dref = [d \in Device |-> 0]
  /\ GlobalContext = Null /\ LocalContext = [t \in Thread |-> Null]
  /\ ListLock = Null /\ Mutex = [d \in Device |-> Null]
  /\ running = [d \in Device |-> FALSE] /\ Connected = [d \in Device |-> FALSE]
  /\ mixer = [d \in Device |-> Null]
  /\ pc = [t \in Thread |-> "idle"]
  /\ ctx = [t \in Thread |-> Null] /\ dev = [t \in Thread |-> Null]

-----------------------------------------------------------------------------
Go(t, place) == pc' = [pc EXCEPT ![t] = place]
Aim(t, c, d) == ctx' = [ctx EXCEPT ![t] = c] /\ dev' = [dev EXCEPT ![t] = d]
Done(t) == Go(t, "idle") /\ Aim(t, Null, Null)

(* Faulty variants of the operators below: bugs the properties must notice. *)
QuietAnyway(d) == TRUE
CurrentAnyway(t) == TRUE
EmptyAnyway(d) == TRUE

LockLists(t) == ListLock = Null /\ ListLock' = t
UnlockLists(t) == ListLock = t /\ ListLock' = Null

(* IncRef on gained and DecRef on lost, Null standing for neither.  When the*)
(* count reaches zero FreeContext drops the context's hold on its device.   *)
Moved(gained, lost) ==
  [c \in Context |-> ref[c] + (IF c = gained THEN 1 ELSE 0) - (IF c = lost THEN 1 ELSE 0)]
Freed(lost) == lost # Null /\ Moved(Null, lost)[lost] = 0

CountRefs(gained, lost) ==
  /\ ref' = Moved(gained, lost)
  /\ dref' = IF Freed(lost) /\ gained # lost THEN [dref EXCEPT ![device[lost]] = @ - 1] ELSE dref

(* A device without contexts stops playing.                                 *)
Empty(d) == head[d] = Null

(* The contexts one meets following the list of d, and alcIsContext: those  *)
(* that are in every set that has the head and, with a context, the next.   *)
Follows(d, S) ==
  head[d] \in S \cup {Null} /\ \A c \in S : next[c] \in S \cup {Null}

InList(d) == {c \in Context : \A S \in SUBSET Context : Follows(d, S) => c \in S}

IsContext(c) == \E d \in open : c \in InList(d)

-----------------------------------------------------------------------------
(* alcOpenDevice; VerifyDevice for a call that holds its device by a        *)
(* reference only, and the ALCdevice_DecRef at its end.                     *)

OpenDevice(t, d) ==
  /\ pc[t] = "idle" /\ ListLock = Null /\ d \notin born
  /\ born' = born \cup {d} /\ open' = open \cup {d}
  /\ dref' = [dref EXCEPT ![d] = 1]
  /\ Connected' = [Connected EXCEPT ![d] = TRUE]
  /\ UNCHANGED <<head, next, device, ref, current, ListLock, Mutex, running, mixer, local>>

VerifyDevice(t, d) ==
  /\ pc[t] = "idle" /\ ListLock = Null /\ d \in open
  /\ dref' = [dref EXCEPT ![d] = @ + 1]
  /\ Go(t, "device") /\ Aim(t, Null, d)
  /\ UNCHANGED <<lists, ref, current, ListLock, Mutex, playback>>

DeviceDecRef(t) ==
  /\ pc[t] = "device"
  /\ dref' = [dref EXCEPT ![dev[t]] = @ - 1]
  /\ Done(t)
  /\ UNCHANGED <<lists, ref, current, ListLock, Mutex, playback>>

-----------------------------------------------------------------------------
(* alcCreateContext, with the list lock from the first step to CreateLink   *)

CreateContext(t, d) ==
  /\ pc[t] = "idle" /\ LockLists(t) /\ d \in open /\ Connected[d]
  /\ dref' = [dref EXCEPT ![d] = @ + 1]
  /\ Go(t, "create") /\ Aim(t, Null, d)
  /\ UNCHANGED <<lists, ref, current, Mutex, playback>>

(* ALCdevice_StopPlayback waits for the mixer thread to end.                *)
Joined(d) == Mutex[d] # Mixing

(* UpdateDeviceParams: new attributes stop a running device ...             *)
StopForAttributes(t) ==
  /\ pc[t] = "create"
  /\ \/ UNCHANGED running
     \/ Joined(dev[t]) /\ running' = [running EXCEPT ![dev[t]] = FALSE]
  /\ Go(t, "update")
  /\ UNCHANGED <<lists, ref, dref, current, ListLock, Mutex, Connected, mixer, ctx, dev>>

(* ... and a stopped one is reset and started, under its mutex.             *)
Restart(t) ==
  /\ pc[t] = "update" /\ (running[dev[t]] \/ Mutex[dev[t]] = Null)
  /\ running' = [running EXCEPT ![dev[t]] = TRUE]
  /\ Go(t, "link")
  /\ UNCHANGED <<lists, ref, dref, current, ListLock, Mutex, Connected, mixer, ctx, dev>>

RestartFails(t) ==
  /\ pc[t] = "update" /\ ~running[dev[t]] /\ Mutex[dev[t]] = Null
  /\ UnlockLists(t)
  /\ Go(t, "failed")
  /\ UNCHANGED <<lists, ref, dref, current, Mutex, playback, ctx, dev>>

(* aluHandleDisconnect, after the list lock was released.                   *)
HandleDisconnect(t) ==
  /\ pc[t] = "failed" /\ Mutex[dev[t]] = Null
  /\ Connected' = [Connected EXCEPT ![dev[t]] = FALSE]
  /\ Go(t, "device")
  /\ UNCHANGED <<lists, ref, dref, current, ListLock, Mutex, running, mixer, ctx, dev>>

(* InitContext: a context keeps its device alive.                           *)
InitContext(d) == dref' = [dref EXCEPT ![d] = @ + 1]

CreateLink(t, c) ==
  /\ pc[t] = "link" /\ c \notin born
  /\ born' = born \cup {c}
  /\ ref' = [ref EXCEPT ![c] = 1]
  /\ device' = [device EXCEPT ![c] = dev[t]]
  /\ InitContext(dev[t])
  /\ next' = [next EXCEPT ![c] = head[dev[t]]]
  /\ head' = [head EXCEPT ![dev[t]] = c]
  /\ UnlockLists(t)
  /\ Go(t, "device")
  /\ UNCHANGED <<open, current, Mutex, playback, ctx, dev>>

(* No memory: a device without contexts is stopped again.                   *)
CreateFails(t) ==
  /\ pc[t] = "link"
  /\ IF Empty(dev[t])
     THEN Joined(dev[t]) /\ running' = [running EXCEPT ![dev[t]] = FALSE]
     ELSE UNCHANGED running
  /\ UnlockLists(t)
  /\ Go(t, "device")
  /\ UNCHANGED <<lists, ref, dref, current, Mutex, Connected, mixer, ctx, dev>>

-----------------------------------------------------------------------------
(* alcMakeContextCurrent, alcSetThreadContext (c may be Null), and the end  *)
(* of a thread that has a context of its own (ReleaseThreadCtx).            *)

MakeContextCurrent(t, c) ==
  /\ pc[t] = "idle" /\ ListLock = Null /\ (c = Null \/ IsContext(c))
  /\ LET old == {GlobalContext, LocalContext[t]} \ {Null}
         Holds(x) == (IF x = GlobalContext THEN 1 ELSE 0) + (IF x = LocalContext[t] THEN 1 ELSE 0)
         now == [x \in Context |-> ref[x] + (IF x = c THEN 1 ELSE 0) - Holds(x)]
     IN /\ ref' = now
        /\ dref' = [d \in Device |-> dref[d] - Cardinality({x \in old : now[x] = 0 /\ device[x] = d})]
  /\ GlobalContext' = c
  /\ LocalContext' = [LocalContext EXCEPT ![t] = Null]
  /\ UNCHANGED <<lists, ListLock, Mutex, playback, local>>

SetThreadContext(t, c) ==
  /\ pc[t] = "idle" /\ LocalContext[t] # c
  /\ ListLock = Null /\ (c = Null \/ IsContext(c))
  /\ CountRefs(c, LocalContext[t])
  /\ LocalContext' = [LocalContext EXCEPT ![t] = c]
  /\ UNCHANGED <<lists, GlobalContext, ListLock, Mutex, playback, local>>

ReleaseThreadCtx(t) ==
  /\ pc[t] = "idle" /\ LocalContext[t] # Null
  /\ CountRefs(Null, LocalContext[t])
  /\ LocalContext' = [LocalContext EXCEPT ![t] = Null]
  /\ UNCHANGED <<lists, GlobalContext, ListLock, Mutex, playback, local>>

-----------------------------------------------------------------------------
(* An AL call: GetContextRef or GetLockedContext, then DecRef or            *)
(* UnlockContext.  A thread's own context needs no list lock.               *)

GetLocal(t) ==
  /\ pc[t] = "idle" /\ LocalContext[t] # Null
  /\ CountRefs(LocalContext[t], Null)
  /\ Aim(t, LocalContext[t], device[LocalContext[t]])
  /\ Go(t, "ref") \/ Go(t, "lock")
  /\ UNCHANGED <<lists, current, ListLock, Mutex, playback>>

ReadGlobal(t) ==
  /\ pc[t] = "idle" /\ LocalContext[t] = Null /\ GlobalContext # Null
  /\ LockLists(t)
  /\ Aim(t, GlobalContext, device[GlobalContext])
  /\ Go(t, "read")
  /\ UNCHANGED <<lists, ref, dref, current, Mutex, playback>>

(* The reference is taken after the read: the memory may be gone by then.   *)
IncRefGlobal(t) ==
  /\ pc[t] = "read"
  /\ IF ref[ctx[t]] = 0
     THEN Go(t, "wild") /\ UnlockLists(t) /\ UNCHANGED <<ref, dref>>
     ELSE /\ CountRefs(ctx[t], Null)
          /\ \/ Go(t, "ref") /\ UnlockLists(t)
             \/ Go(t, "lock") /\ UNCHANGED ListLock
  /\ UNCHANGED <<lists, current, Mutex, playback, ctx, dev>>

EnterMutex(t) ==
  /\ pc[t] = "lock" /\ Mutex[dev[t]] = Null
  /\ Mutex' = [Mutex EXCEPT ![dev[t]] = t]
  /\ ListLock' = IF ListLock = t THEN Null ELSE ListLock
  /\ Go(t, "locked")
  /\ UNCHANGED <<lists, ref, dref, current, playback, ctx, dev>>

LeaveMutex(t) ==
  /\ pc[t] = "locked"
  /\ Mutex' = [Mutex EXCEPT ![dev[t]] = Null]
  /\ Go(t, "ref")
  /\ UNCHANGED <<lists, ref, dref, current, ListLock, playback, ctx, dev>>

DecRef(t) ==
  /\ pc[t] = "ref"
  /\ CountRefs(Null, ctx[t])
  /\ Done(t)
  /\ UNCHANGED <<lists, current, ListLock, Mutex, playback>>

-----------------------------------------------------------------------------
(* alcDestroyContext keeps the list lock throughout; alcCloseDevice has it  *)
(* only to take the device off the list, and then destroys every context.   *)

DestroyContext(t, c) ==
  /\ pc[t] = "idle" /\ LockLists(t) /\ IsContext(c)
  /\ Aim(t, c, device[c])
  /\ Go(t, "destroy")
  /\ UNCHANGED <<lists, ref, dref, current, Mutex, playback>>

CloseDevice(t, d) ==
  /\ pc[t] = "idle" /\ ListLock = Null /\ d \in open
  /\ open' = open \ {d}
  /\ Aim(t, head[d], d)
  /\ Go(t, IF head[d] = Null THEN "last" ELSE "close")
  /\ UNCHANGED <<head, next, device, born, ref, dref, current, ListLock, Mutex, playback>>

(* ReleaseContext: out of the device's list ...                             *)
Unlink(t) ==
  /\ pc[t] \in {"destroy", "close"}
  /\ IF head[dev[t]] = ctx[t]
     THEN head' = [head EXCEPT ![dev[t]] = next[ctx[t]]] /\ UNCHANGED next
     ELSE /\ next' = [c \in Context |-> IF next[c] = ctx[t] /\ c \in InList(dev[t])
                                     THEN next[ctx[t]] ELSE next[c]]
          /\ UNCHANGED head
  /\ Go(t, "barrier")
  /\ UNCHANGED <<open, device, born, ref, dref, current, ListLock, Mutex, playback, ctx, dev>>

(* ... wait until the mixer is not in the list (LockDevice, UnlockDevice) . *)
Quiet(d) == Mutex[d] = Null

Barrier(t) ==
  /\ pc[t] = "barrier" /\ Quiet(dev[t])
  /\ Go(t, "local")
  /\ UNCHANGED <<lists, ref, dref, current, ListLock, Mutex, playback, ctx, dev>>

(* ... this thread's own current context, the global one ...                *)
DropLocal(t) ==
  /\ pc[t] = "local"
  /\ IF LocalContext[t] = ctx[t]
     THEN CountRefs(Null, ctx[t]) /\ LocalContext' = [LocalContext EXCEPT ![t] = Null]
     ELSE UNCHANGED <<ref, dref, LocalContext>>
  /\ Go(t, "global")
  /\ UNCHANGED <<lists, GlobalContext, ListLock, Mutex, playback, ctx, dev>>

IsCurrent(t) == GlobalContext = ctx[t]

DropGlobal(t) ==
  /\ pc[t] = "global"
  /\ IF IsCurrent(t)
     THEN CountRefs(Null, ctx[t]) /\ GlobalContext' = Null
     ELSE UNCHANGED <<ref, dref, GlobalContext>>
  /\ Go(t, "own")
  /\ UNCHANGED <<lists, LocalContext, ListLock, Mutex, playback, ctx, dev>>

(* ... and the reference the list held.  alcCloseDevice takes the next one, *)
(* and playback stops when none is left.                                    *)
DropOwn(t) ==
  /\ pc[t] = "own"
  /\ CountRefs(Null, ctx[t])
  /\ \/ /\ Empty(dev[t])
        /\ Go(t, "stop") /\ UNCHANGED <<ctx, dev, ListLock>>
     \/ /\ ~Empty(dev[t]) /\ dev[t] \in open
        /\ Done(t) /\ UnlockLists(t)
     \/ /\ ~Empty(dev[t]) /\ dev[t] \notin open
        /\ Go(t, "close") /\ Aim(t, head[dev[t]], dev[t]) /\ UNCHANGED ListLock
  /\ UNCHANGED <<lists, current, Mutex, playback>>

StopPlayback(t) ==
  /\ pc[t] = "stop" /\ Joined(dev[t])
  /\ running' = [running EXCEPT ![dev[t]] = FALSE]
  /\ IF dev[t] \in open THEN UnlockLists(t) /\ Done(t)
     ELSE Go(t, "last") /\ UNCHANGED <<ListLock, ctx, dev>>
  /\ UNCHANGED <<lists, ref, dref, current, Mutex, Connected, mixer>>

(* ALCdevice_ClosePlayback and the last ALCdevice_DecRef of alcCloseDevice. *)
ClosePlayback(t) ==
  /\ pc[t] = "last"
  /\ dref' = [dref EXCEPT ![dev[t]] = @ - 1]
  /\ Done(t)
  /\ UNCHANGED <<lists, ref, current, ListLock, Mutex, playback>>

-----------------------------------------------------------------------------
(* A device's mixer thread: aluMixData over the context list                *)

MixBegin(d) ==
  /\ running[d] /\ Connected[d] /\ Mutex[d] = Null
  /\ Mutex' = [Mutex EXCEPT ![d] = Mixing]
  /\ mixer' = [mixer EXCEPT ![d] = head[d]]
  /\ UNCHANGED <<lists, ref, dref, current, ListLock, running, Connected, local>>

MixNext(d) ==
  /\ Mutex[d] = Mixing /\ mixer[d] # Null
  /\ mixer' = [mixer EXCEPT ![d] = next[mixer[d]]]
  /\ UNCHANGED <<lists, ref, dref, current, ListLock, Mutex, running, Connected, local>>

MixEnd(d) ==
  /\ Mutex[d] = Mixing /\ mixer[d] = Null
  /\ Mutex' = [Mutex EXCEPT ![d] = Null]
  /\ UNCHANGED <<lists, ref, dref, current, ListLock, playback, local>>

(* The backend lost its device: aluHandleDisconnect on the mixer thread.    *)
MixDisconnect(d) ==
  /\ running[d] /\ Connected[d] /\ Mutex[d] = Null
  /\ Connected' = [Connected EXCEPT ![d] = FALSE]
  /\ UNCHANGED <<lists, ref, dref, current, ListLock, Mutex, running, mixer, local>>

-----------------------------------------------------------------------------
Step(t) ==
  \/ DeviceDecRef(t) \/ StopForAttributes(t) \/ Restart(t) \/ RestartFails(t)
  \/ HandleDisconnect(t) \/ CreateFails(t) \/ \E c \in Context : CreateLink(t, c)
  \/ IncRefGlobal(t) \/ EnterMutex(t) \/ LeaveMutex(t) \/ DecRef(t)
  \/ Unlink(t) \/ Barrier(t) \/ DropLocal(t) \/ DropGlobal(t) \/ DropOwn(t)
  \/ StopPlayback(t) \/ ClosePlayback(t)

Begin(t) ==
  \/ \E d \in Device : OpenDevice(t, d) \/ VerifyDevice(t, d) \/ CreateContext(t, d) \/ CloseDevice(t, d)
  \/ \E c \in Context : DestroyContext(t, c)
  \/ \E c \in Context \cup {Null} : MakeContextCurrent(t, c) \/ SetThreadContext(t, c)
  \/ ReleaseThreadCtx(t) \/ GetLocal(t) \/ ReadGlobal(t)

Next ==
  \/ \E t \in Thread : Begin(t) \/ Step(t)
  \/ \E d \in Device : MixBegin(d) \/ MixNext(d) \/ MixEnd(d) \/ MixDisconnect(d)

Spec == Init /\ [][Next]_vars

-----------------------------------------------------------------------------
Unlinked(t) == pc[t] \in {"barrier", "local", "global", "own"}
HasRef(t) == pc[t] \in {"ref", "lock", "locked"}
One(b) == IF b THEN 1 ELSE 0

(* A context's reference count is the number of places that hold it: its    *)
(* device's list (or the thread that unlinked it), the global current       *)
(* context, the threads it is current on, and the AL calls that run on it.  *)
(* So it is freed exactly when none of them is left.                        *)
ContextRefs ==
  \A c \in Context :
    ref[c] = One(\E d \in Device : c \in InList(d))
             + Cardinality({t \in Thread : Unlinked(t) /\ ctx[t] = c})
             + One(GlobalContext = c)
             + Cardinality({t \in Thread : LocalContext[t] = c})
             + Cardinality({t \in Thread : HasRef(t) /\ ctx[t] = c})

(* A device is held by alcOpenDevice until alcCloseDevice ends, by its      *)
(* contexts and by the calls that verified it; so a live context, or a call *)
(* on it, always has its device and the device's mutex.                     *)
DeviceRefs ==
  \A d \in Device :
    dref[d] = One(d \in open)
              + Cardinality({t \in Thread : dev[t] = d /\ d \notin open
                                            /\ pc[t] \in {"close", "barrier", "local", "global",
                                                          "own", "stop", "last"}})
              + Cardinality({c \in Context : device[c] = d /\ ref[c] > 0})
              + Cardinality({t \in Thread : dev[t] = d
                               /\ pc[t] \in {"device", "create", "update", "link", "failed"}})

(* Both counts are exact at every step of every call, on any path.          *)
RefsExact == ContextRefs /\ DeviceRefs

(* Nothing that was freed is in use.  "Make sure the mixer is not using the *)
(* contexts in the list before we go about deleting this one": no mixer     *)
(* stands on a freed context, or runs on a device whose backend was closed; *)
(* and a thread finds the current context freed under it only while another *)
(* one closes, or has closed, that context's device.                        *)
FreedUnused ==
  /\ \A d \in Device :
       Mutex[d] = Mixing => /\ mixer[d] # Null => ref[mixer[d]] > 0
                            /\ dref[d] > 0 /\ running[d]
  /\ \A t \in Thread : pc[t] = "wild" => device[ctx[t]] \notin open

(* Playback runs while a connected device has contexts, and only then,      *)
(* whenever no call that changes this is under way.                         *)
PlaybackMatches ==
  \A d \in open :
    /\ ListLock = Null
    /\ \A t \in Thread : dev[t] = d => pc[t] # "failed"
    => /\ Connected[d] /\ head[d] # Null => running[d]
       /\ running[d] => head[d] # Null

(* "Returns the currently active context, and adds a reference": to a       *)
(* context that is still there.                                             *)
ReferenceIsLive == \A t \in Thread : pc[t] # "wild"
=============================================================================
