------------------------------- MODULE Sources -------------------------------
(***************************************************************************)
(* The sources of one OpenAL-Soft context: the AL calls that drive them,   *)
(* from any number of application threads, and the device's mixer thread   *)
(* (aluMixData and MixSource).                                             *)
(*                                                                         *)
(* A call made under LockContext is one step, enabled while the mixer does *)
(* not hold the device mutex; calls that also touch the context outside    *)
(* the mutex (alDeferUpdatesSOFT, alProcessUpdatesSOFT, alDeleteSources)   *)
(* take one step for each part.  The mixer takes one step per source it    *)
(* visits, per block it mixes and per turn of the loop that walks the      *)
(* queue, all of them with the mutex held.                                 *)
(***************************************************************************)
EXTENDS SourceState

CONSTANTS
  Source, NoSource, Thread,
  Batches,                 (* the buffer lists passed to alSourceQueueBuffers   *)
  MaxQueue,                (* bound: entries an application keeps queued        *)
  Offsets, Loopings,       (* the offsets, and AL_LOOPING values, it asks for   *)
  SamplesToDo,             (* output frames of one mixing pass                  *)
  Advances,                (* input frames a block may consume (pitch)          *)
  InitialCapacity          (* entries alcCreateContext allocates: 256           *)

ASSUME SourcesAssumption ==
  /\ IsFiniteSet(Source) /\ NoSource \notin Source
  /\ Batches \subseteq Seq(Entry) \ {<<>>}
  /\ MaxQueue \in Nat /\ Offsets \subseteq Nat /\ Loopings \subseteq BOOLEAN
  /\ SamplesToDo \in Nat \ {0} /\ Advances \subseteq Nat
  /\ InitialCapacity \in Nat \ {0}

VARIABLES
  SourceMap,               \* the sources that have a name
  src,                     \* every source's fields
  ActiveSources,           \* the sources the mixer visits
  MaxActiveSources,        \* entries allocated for them
  DeferUpdates, Connected,
  ref,                     \* each buffer's reference count
  mixer,                   \* the mixer's place and its local variables
  pc, arg                  \* each thread's place, and the source it deletes

vars == <<SourceMap, src, ActiveSources, MaxActiveSources, DeferUpdates, Connected,
          ref, mixer, pc, arg>>

MixerRecord ==
  [at : {"out", "visit", "mix", "cross"}, todo : SUBSET Source, s : Source \cup {NoSource},
   defer : BOOLEAN, state : {"PLAYING", "STOPPED"}, BuffersPlayed : Nat,
   DataPosInt : Nat, Looping : BOOLEAN, left : 0 .. SamplesToDo]

TypeOK ==
  /\ SourceMap \subseteq Source
  /\ src \in [Source -> SourceRecord]
  /\ ActiveSources \subseteq Source
  /\ MaxActiveSources \in Nat
  /\ DeferUpdates \in BOOLEAN /\ Connected \in BOOLEAN
  /\ ref \in [Buffer -> Nat]
  /\ mixer \in MixerRecord
  /\ pc \in [Thread -> {"idle", "defer", "process", "removed", "purged"}]
  /\ arg \in [Thread -> Source \cup {NoSource}]

MixerOut ==
  [at |-> "out", todo |-> {}, s |-> NoSource, defer |-> FALSE,
   state |-> "PLAYING", BuffersPlayed |-> 0, DataPosInt |-> 0, Looping |-> FALSE,
   left |-> 0]

Init ==
  /\ SourceMap = {} /\ ActiveSources = {}
  /\ src = [s \in Source |-> InitSourceParams]
  /\ MaxActiveSources = InitialCapacity
  /\ DeferUpdates = FALSE /\ Connected = TRUE
  /\ ref = [b \in Buffer |-> 0]
  /\ mixer = MixerOut
  /\ pc = [t \in Thread |-> "idle"]
  /\ arg = [t \in Thread |-> NoSource]

(* The device mutex is free for a call made under LockContext.              *)
Unlocked == mixer.at = "out"

Count(q, b) == Cardinality({n \in 1 .. Len(q) : q[n] = b})

(* A faulty Reference, which forgets DecrementRef.                          *)
ReferenceKept(gained, lost) ==
  ref' = [b \in Buffer |-> ref[b] + Count(gained, b)]

(* IncrementRef for the entries of gained, DecrementRef for those of lost.  *)
Reference(gained, lost) ==
  ref' = [b \in Buffer |-> ref[b] + Count(gained, b) - Count(lost, b)]

Deleting(t) == pc[t] \in {"removed", "purged"}
Allocated == SourceMap \cup {arg[t] : t \in {u \in Thread : Deleting(u)}}

-----------------------------------------------------------------------------
(* alGenSources, alDeleteSources (for one name)                             *)

GenSource(s) ==
  /\ s \notin Allocated
  /\ SourceMap' = SourceMap \cup {s}
  /\ src' = [src EXCEPT ![s] = InitSourceParams]
  /\ UNCHANGED <<ActiveSources, MaxActiveSources, DeferUpdates, Connected, ref,
                 mixer, pc, arg>>

(* The name goes first, with no lock held ...                               *)
RemoveSource(t, s) ==
  /\ pc[t] = "idle" /\ s \in SourceMap
  /\ SourceMap' = SourceMap \ {s}
  /\ pc' = [pc EXCEPT ![t] = "removed"]
  /\ arg' = [arg EXCEPT ![t] = s]
  /\ UNCHANGED <<src, ActiveSources, MaxActiveSources, DeferUpdates, Connected,
                 ref, mixer>>

Purge(s) == ActiveSources' = ActiveSources \ {s}

(* ... then the mixer's list, under the mutex ...                           *)
PurgeSource(t) ==
  /\ pc[t] = "removed" /\ Unlocked
  /\ Purge(arg[t])
  /\ pc' = [pc EXCEPT ![t] = "purged"]
  /\ UNCHANGED <<SourceMap, src, MaxActiveSources, DeferUpdates, Connected, ref,
                 mixer, arg>>

(* ... then the queue, and the memory, with no lock again.                  *)
FreeSource(t) ==
  /\ pc[t] = "purged"
  /\ Reference(<<>>, src[arg[t]].queue)
  /\ src' = [src EXCEPT ![arg[t]] = InitSourceParams]
  /\ pc' = [pc EXCEPT ![t] = "idle"]
  /\ arg' = [arg EXCEPT ![t] = NoSource]
  /\ UNCHANGED <<SourceMap, ActiveSources, MaxActiveSources, DeferUpdates,
                 Connected, mixer>>

-----------------------------------------------------------------------------
(* alSourcePlayv, alSourcePausev, alSourceStopv, alSourceRewindv            *)

(* The list doubles until n more sources fit, whether or not the play is    *)
(* deferred (bound: four doublings in one call).                            *)
(* FitsEmpty is faulty: it forgets the sources that are active already.     *)
FitsEmpty(capacity, n) == capacity >= n
Fits(capacity, n) == capacity - Cardinality(ActiveSources) >= n

GrowActive(n) ==
  \E k \in {1, 2, 4, 8, 16} :
    /\ Fits(MaxActiveSources * k, n)
    /\ \A j \in {1, 2, 4, 8, 16} : j < k => ~Fits(MaxActiveSources * j, n)
    /\ MaxActiveSources' = MaxActiveSources * k

(* The sources of S that SetSourceState starts go on the mixer's list.      *)
Activate(S) == ActiveSources' = ActiveSources \cup {s \in S : CanStart(src[s], Connected)}

Play(S) ==
  /\ Unlocked /\ S # {} /\ S \subseteq SourceMap
  /\ GrowActive(Cardinality(S))
  /\ IF DeferUpdates
     THEN /\ src' = [s \in Source |-> IF s \in S THEN [src[s] EXCEPT !.new_state = "PLAYING"]
                                      ELSE src[s]]
          /\ UNCHANGED ActiveSources
     ELSE /\ src' = [s \in Source |-> IF s \in S THEN SetSourceState(src[s], "PLAYING", Connected)
                                      ELSE src[s]]
          /\ Activate(S)
  /\ UNCHANGED <<SourceMap, DeferUpdates, Connected, ref, mixer, pc, arg>>

Command(s, state) ==
  /\ Unlocked /\ s \in SourceMap /\ state # "PLAYING"
  /\ src' = [src EXCEPT ![s] = IF DeferUpdates THEN [@ EXCEPT !.new_state = state]
                               ELSE SetSourceState(@, state, Connected)]
  /\ UNCHANGED <<SourceMap, ActiveSources, MaxActiveSources, DeferUpdates, Connected,
                 ref, mixer, pc, arg>>

-----------------------------------------------------------------------------
(* The other calls made under LockContext: alSourcei with AL_BUFFER,        *)
(* AL_LOOPING and the offsets, and the two queue calls.                     *)

Change(s, r) ==
  /\ Unlocked /\ s \in SourceMap
  /\ src' = [src EXCEPT ![s] = r]
  /\ UNCHANGED <<SourceMap, ActiveSources, MaxActiveSources, DeferUpdates, Connected,
                 mixer, pc, arg>>

SourceBuffer(s, e) ==
  /\ src[s].state \in {"STOPPED", "INITIAL"}
  /\ Change(s, SetBuffer(src[s], e))
  /\ Reference(IF e = NoBuffer THEN <<>> ELSE <<e>>, src[s].queue)

QueueBuffers(s, es) ==
  /\ src[s].lSourceType # "STATIC"
  /\ Len(src[s].queue) + Len(es) <= MaxQueue
  /\ Change(s, Queue(src[s], es))
  /\ Reference(es, <<>>)

UnqueueBuffers(s, n) ==
  /\ CanUnqueue(src[s], n)
  /\ Change(s, Unqueue(src[s], n))
  /\ Reference(<<>>, SubSeq(src[s].queue, 1, n))

SourceLooping(s, looping) ==
  /\ Change(s, [src[s] EXCEPT !.bLooping = looping])
  /\ UNCHANGED ref

(* An offset takes effect at once on a source that is playing or paused,    *)
(* unless updates are deferred; otherwise it stays pending.                 *)
SourceOffset(s, offset) ==
  /\ LET r == [src[s] EXCEPT !.lOffset = offset]
     IN Change(s, IF r.state \in {"PLAYING", "PAUSED"} /\ ~DeferUpdates
                  THEN ApplyOffset(r) ELSE r)
  /\ UNCHANGED ref

-----------------------------------------------------------------------------
(* alDeferUpdatesSOFT: DeferUpdates is tested without the mutex ...         *)
DeferTest(t) ==
  /\ pc[t] = "idle" /\ ~DeferUpdates
  /\ pc' = [pc EXCEPT ![t] = "defer"]
  /\ UNCHANGED <<SourceMap, src, ActiveSources, MaxActiveSources, DeferUpdates,
                 Connected, ref, mixer, arg>>

(* A faulty Update, which leaves the work to the mixer.                     *)
UpdateLater(r) == r

(* ALsource_Update: the mixing parameters are computed.                     *)
Update(r) == [r EXCEPT !.ready = TRUE]

Playing(S) == {s \in S : src[s].state = "PLAYING"}

(* ... and set with it; the active sources get their pending updates, since *)
(* the mixer will make none until updates are processed.                    *)
DeferApply(t) ==
  /\ pc[t] = "defer" /\ Unlocked
  /\ DeferUpdates' = TRUE
  /\ ActiveSources' = Playing(ActiveSources)
  /\ src' = [s \in Source |-> IF s \in Playing(ActiveSources)
                              THEN Update(src[s]) ELSE src[s]]
  /\ pc' = [pc EXCEPT ![t] = "idle"]
  /\ UNCHANGED <<SourceMap, MaxActiveSources, Connected, ref, mixer, arg>>

(* alProcessUpdatesSOFT: DeferUpdates is cleared without the mutex ...      *)
ProcessClear(t) ==
  /\ pc[t] = "idle" /\ DeferUpdates
  /\ DeferUpdates' = FALSE
  /\ pc' = [pc EXCEPT ![t] = "process"]
  /\ UNCHANGED <<SourceMap, src, ActiveSources, MaxActiveSources, Connected, ref,
                 mixer, arg>>

(* ... and with it every named source gets its offset and its new state.    *)
(* Another thread may have deferred updates again in between: a source that *)
(* starts now waits for parameters the mixer will not compute meanwhile.    *)
Processed(r) ==
  LET moved == ApplyPending(r)
      now == [moved EXCEPT !.new_state = "NONE"]
  IN IF r.new_state = "NONE" THEN now ELSE SetSourceState(now, r.new_state, Connected)

Crossed(r) == DeferUpdates /\ r.new_state = "PLAYING" /\ CanStart(r, Connected)

ProcessApply(t) ==
  /\ pc[t] = "process" /\ Unlocked
  /\ src' = [s \in Source |-> IF s \in SourceMap
                              THEN [Processed(src[s]) EXCEPT !.crossed = @ \/ Crossed(src[s])]
                              ELSE src[s]]
  /\ Activate({s \in SourceMap : src[s].new_state = "PLAYING"})
  /\ pc' = [pc EXCEPT ![t] = "idle"]
  /\ UNCHANGED <<SourceMap, MaxActiveSources, DeferUpdates, Connected, ref, mixer, arg>>

-----------------------------------------------------------------------------
(* aluMixData: the mutex is taken, and the context's DeferUpdates read once *)
MixBegin ==
  /\ Unlocked
  /\ mixer' = [MixerOut EXCEPT !.at = "visit", !.todo = ActiveSources, !.defer = DeferUpdates]
  /\ UNCHANGED <<SourceMap, src, ActiveSources, MaxActiveSources, DeferUpdates,
                 Connected, ref, pc, arg>>

MixDrop(s) ==
  /\ mixer.at = "visit" /\ s \in mixer.todo /\ src[s].state # "PLAYING"
  /\ ActiveSources' = ActiveSources \ {s}
  /\ mixer' = [mixer EXCEPT !.todo = @ \ {s}]
  /\ UNCHANGED <<SourceMap, src, MaxActiveSources, DeferUpdates, Connected, ref, pc, arg>>

(* A playing source: its parameters are updated unless updates are deferred,*)
(* and MixSource takes copies of the fields it will change.                 *)
MixSource(s) ==
  /\ mixer.at = "visit" /\ s \in mixer.todo /\ src[s].state = "PLAYING"
  /\ src' = IF mixer.defer THEN src ELSE [src EXCEPT ![s] = Update(@)]
  /\ mixer' = [mixer EXCEPT !.at = "mix", !.todo = @ \ {s}, !.s = s, !.state = "PLAYING",
                            !.BuffersPlayed = src[s].BuffersPlayed,
                            !.DataPosInt = src[s].position,
                            !.Looping = src[s].bLooping, !.left = SamplesToDo]
  /\ UNCHANGED <<SourceMap, ActiveSources, MaxActiveSources, DeferUpdates, Connected,
                 ref, pc, arg>>

Static == src[mixer.s].lSourceType = "STATIC"
Current == src[mixer.s].queue[mixer.BuffersPlayed + 1]

(* One block: some of the frames that are left, from some input frames.  A  *)
(* static source that stands behind its loop section does not loop.         *)
MixBlock ==
  /\ mixer.at = "mix"
  /\ \E k \in 1 .. mixer.left, d \in Advances :
       mixer' = [mixer EXCEPT !.at = "cross", !.left = @ - k, !.DataPosInt = @ + d,
                              !.Looping = /\ @
                                          /\ Static => mixer.DataPosInt < LoopEnd[Current]]
  /\ UNCHANGED <<SourceMap, src, ActiveSources, MaxActiveSources, DeferUpdates,
                 Connected, ref, pc, arg>>

(* Where the position stands relative to the current queue entry, in the    *)
(* order MixSource tests it.                                                *)
Inside == Current # NoBuffer /\ mixer.DataPosInt < LoopEnd[Current]
StaticLoop == ~Inside /\ mixer.Looping /\ Static
PastLoop == ~Inside /\ ~StaticLoop /\ mixer.DataPosInt < Length(Current)
Beyond == ~Inside /\ ~StaticLoop /\ mixer.DataPosInt >= Length(Current)
HasNext == mixer.BuffersPlayed + 1 < Len(src[mixer.s].queue)

(* A faulty Passed, which counts the entry's frames again in the next one.  *)
PassedTwice(position, entry) == position

Passed(position, entry) == position - Length(entry)

(* On to the next entry, or round to the first: one turn of while(1).       *)
MixNext ==
  /\ mixer.at = "cross" /\ Beyond /\ (HasNext \/ mixer.Looping)
  /\ mixer' = [mixer EXCEPT !.BuffersPlayed = IF HasNext THEN @ + 1 ELSE 0,
                            !.DataPosInt = Passed(@, Current)]
  /\ UNCHANGED <<SourceMap, src, ActiveSources, MaxActiveSources, DeferUpdates,
                 Connected, ref, pc, arg>>

(* The loop ends with the local copies m: another block if frames are left, *)
(* else the copies are written back.                                        *)
Leave(m) ==
  IF m.state = "PLAYING" /\ m.left > 0
  THEN /\ mixer' = [m EXCEPT !.at = "mix"]
       /\ UNCHANGED src
  ELSE /\ src' = [src EXCEPT ![m.s].state = m.state, ![m.s].BuffersPlayed = m.BuffersPlayed,
                             ![m.s].position = m.DataPosInt]
       /\ mixer' = [MixerOut EXCEPT !.at = "visit", !.todo = m.todo, !.defer = m.defer]

LoopPosition(b, pos) ==
  LoopStart[b] + ((pos - LoopStart[b]) % (LoopEnd[b] - LoopStart[b]))

MixLeave ==
  /\ mixer.at = "cross"
  /\ \/ Inside /\ Leave(mixer)
     \/ StaticLoop /\ Leave([mixer EXCEPT !.DataPosInt = LoopPosition(Current, @)])
     \/ PastLoop /\ Leave(mixer)
     \/ /\ Beyond /\ ~HasNext /\ ~mixer.Looping
        /\ Leave([mixer EXCEPT !.state = "STOPPED", !.DataPosInt = 0,
                               !.BuffersPlayed = src[mixer.s].BuffersInQueue])
  /\ UNCHANGED <<SourceMap, ActiveSources, MaxActiveSources, DeferUpdates, Connected,
                 ref, pc, arg>>

MixEnd ==
  /\ mixer.at = "visit" /\ mixer.todo = {}
  /\ mixer' = MixerOut
  /\ UNCHANGED <<SourceMap, src, ActiveSources, MaxActiveSources, DeferUpdates,
                 Connected, ref, pc, arg>>

(* aluHandleDisconnect, called by a backend that lost its device *)
HandleDisconnect ==
  /\ Unlocked /\ Connected
  /\ Connected' = FALSE
  /\ src' = [s \in Source |-> IF s \in SourceMap THEN Disconnect(src[s]) ELSE src[s]]
  /\ UNCHANGED <<SourceMap, ActiveSources, MaxActiveSources, DeferUpdates, ref, mixer,
                 pc, arg>>

-----------------------------------------------------------------------------
Mixer ==
  \/ \E s \in Source : MixDrop(s) \/ MixSource(s)
  \/ MixBlock \/ MixNext \/ MixLeave \/ MixEnd

Call(t) == DeferApply(t) \/ ProcessApply(t) \/ PurgeSource(t) \/ FreeSource(t)

Next ==
  \/ \E s \in Source :
       \/ GenSource(s)
       \/ \E state \in {"PAUSED", "STOPPED", "INITIAL"} : Command(s, state)
       \/ \E e \in Entry : SourceBuffer(s, e)
       \/ \E es \in Batches : QueueBuffers(s, es)
       \/ \E n \in 1 .. MaxQueue : UnqueueBuffers(s, n)
       \/ \E looping \in Loopings : SourceLooping(s, looping)
       \/ \E offset \in Offsets : SourceOffset(s, offset)
       \/ \E t \in Thread : RemoveSource(t, s)
  \/ \E S \in SUBSET Source : Play(S)
  \/ \E t \in Thread : DeferTest(t) \/ ProcessClear(t) \/ Call(t)
  \/ MixBegin \/ Mixer \/ HandleDisconnect

Spec == Init /\ [][Next]_vars

(* Once it has the mutex the mixer thread keeps running.                    *)
FairSpec == Spec /\ WF_vars(Mixer)

-----------------------------------------------------------------------------
(* The queue and the two counters that describe it never disagree: MixSource*)
(* walks BuffersPlayed links down the list without looking for its end.     *)
(* And a source that plays or is paused still has sound ahead of it,        *)
(* whatever has been unqueued: otherwise a looping source would spin in     *)
(* MixSource with the mutex held, and GetSourceOffset would divide by zero. *)
QueueConsistent ==
  \A s \in Allocated :
    /\ src[s].BuffersInQueue = Len(src[s].queue)
    /\ src[s].BuffersPlayed <= src[s].BuffersInQueue
    /\ src[s].lSourceType = "STATIC" => Len(src[s].queue) = 1 /\ src[s].queue[1] # NoBuffer
    /\ src[s].state \in {"PLAYING", "PAUSED"} =>
         \E n \in src[s].BuffersPlayed + 1 .. Len(src[s].queue) : Length(src[s].queue[n]) > 0

(* A buffer's reference count is the number of queue entries that hold it,  *)
(* those of sources being deleted included: alDeleteBuffers and             *)
(* alBufferData go by it.                                                   *)
Holders(b) ==
  UNION {{s} \X {n \in 1 .. Len(src[s].queue) : src[s].queue[n] = b} : s \in Allocated}

RefsExact == \A b \in Buffer : ref[b] = Cardinality(Holders(b))

(* The mixer's list: whatever plays is on it, so it is heard, also when it  *)
(* is restarted before the mixer dropped it; a source leaves it before      *)
(* alDeleteSources frees it, so the mixer only ever sees live memory; and   *)
(* the mixer never mixes a source whose parameters were never computed      *)
(* (Params.Step and Params.DoMix would still be zero), with one exception:  *)
(* alProcessUpdatesSOFT clears DeferUpdates before it takes the mutex, and  *)
(* a source it starts after another thread deferred updates again is mixed  *)
(* without.  No other order of calls and mixing passes does this, however   *)
(* many threads defer and process.                                          *)
ListMatches ==
  /\ \A s \in SourceMap : src[s].state = "PLAYING" => s \in ActiveSources
  /\ ActiveSources \subseteq Allocated
  /\ mixer.at \in {"mix", "cross"} =>
       mixer.s \in Allocated /\ (src[mixer.s].ready \/ src[mixer.s].crossed)

(* SetSourceState writes ActiveSources without looking at its size: a play  *)
(* makes the room first, and only plays that were deferred one by one can   *)
(* overrun it, when they are all processed.                                 *)
ActiveFits == Cardinality(ActiveSources) <= MaxActiveSources
OverrunNeedsDeferral == [][ActiveFits /\ ~ActiveFits' => \E t \in Thread : ProcessApply(t)]_vars

(* "On an INITIAL Source, no buffers are processed" (alProcessUpdatesSOFT). *)
InitialUnprocessed ==
  \A s \in SourceMap : src[s].state = "INITIAL" => src[s].BuffersPlayed = 0

(* A mixing pass ends: the mutex comes back to the application.             *)
MixerReturns == mixer.at # "out" ~> mixer.at = "out"
=============================================================================
