------------------------------ MODULE MacSource ------------------------------
(***************************************************************************)
(* A source of the Mac OS X implementation between the threads of the      *)
(* application and the render thread of the audio unit.                    *)
(*                                                                         *)
(* In each cycle the render thread calls DoPreRender, then DoRender when   *)
(* the source has a render callback, then DoPostRender, each under its own *)
(* RenderTryer.  A call of the application takes the RenderLocker and then *)
(* mSourceLock; two take mSourceLock only, and one of these edits the queue*)
(* entry by entry.  alDeleteSources is two calls, Stop and                 *)
(* SetUpDeconstruction; then the source is in the map of dead sources      *)
(* until it is safe to delete it.                                          *)
(***************************************************************************)
EXTENDS RenderLocker, OALSource

CONSTANTS Asks,          \* bound: the calls a thread makes
          Offsets,       \* bound: offsets it seeks
          MaxQueue,      \* bound: buffers in the queue
          MaxMessages    \* bound: messages of a source that wait

VARIABLES source,
          call,      \* per thread: the call it makes
          phase,     \* of the render cycle: pre, render, post
          dead,      \* out of mSourceMap, in mDeadSourceMap
          clearing,  \* GetBuffersProcessed clears the queue, with mSourceLock
          queued     \* history: the queue as the calls left it

vars == <<lockVars, source, call, phase, dead, clearing, queued>>

Calls == {"any", "set", "delete", "deconstruct"}

ASSUME BoundsAssumption == MaxQueue \in Nat /\ Asks \in [Thread -> SUBSET (Calls \ {"deconstruct"})]

TypeOK ==
  /\ LockTypeOK
  /\ source.mState \in {"INITIAL", "PLAYING", "PAUSED", "STOPPED", "TRANSITION"}
  /\ source.mSourceType \in {"UNDETERMINED", "STATIC", "STREAMING"}
  /\ source.active \in Seq(Buffer) /\ source.inactive \in Seq(Buffer)
  /\ source.mCurrentBufferIndex \in Nat
  /\ source.mBuffersQueuedForClear \in Nat
  /\ source.attached \in [Buffer -> Nat]
  /\ ~source.thrown
  /\ call \in [Thread -> Calls]
  /\ phase \in {"pre", "render", "post"}
  /\ dead \in BOOLEAN /\ clearing \in BOOLEAN
  /\ queued \in Seq(Buffer)

Init ==
  /\ LockInit
  /\ source = NewSource
  /\ call = [t \in Thread |-> "any"]
  /\ phase = "pre"
  /\ dead = FALSE /\ clearing = FALSE
  /\ queued = <<>>

(* What the lists are after they were edited by two threads at once is not  *)
(* followed: no call and no slice of this model changes the source then.    *)
Torn == "unlocked" \in source.odd

-----------------------------------------------------------------------------
(* The calls.  The setter of AL_BUFFER tests the type before it locks.      *)

AskFor(t) ==
  /\ Ask(t)
  /\ source.odd = {}
  /\ IF call[t] = "deconstruct" THEN UNCHANGED call
     ELSE /\ ~dead
          /\ \E c \in Asks[t] :
               /\ c = "set" => source.mSourceType # "STREAMING"
               /\ call' = [call EXCEPT ![t] = c]
  /\ UNCHANGED <<source, phase, dead, clearing, queued>>

EnterSource(t) == Enter(t) /\ UNCHANGED <<source, call, phase, dead, clearing, queued>>

Outcome(s) == [s EXCEPT !.thrown = FALSE]
Bounded(s) == Len(s.active) + Len(s.inactive) <= MaxQueue /\ Len(s.mMessageQueue) <= MaxMessages
Change(s, q) ==
  /\ Bounded(s)
  /\ source' = Outcome(s)
  /\ queued' = IF s.thrown THEN queued ELSE q

EditSource(t) ==
  /\ Edit(t) /\ ~clearing /\ ~Torn
  /\ CASE call[t] = "any" ->
            \/ \E r \in {Play(source), Rewind(source), Pause(source), Stop(source)}
                        \cup {SetQueueOffset(source, o) : o \in Offsets} : Change(r, queued)
            \/ \E b \in Buffer : Change(AddToQueue(source, b), Append(queued, b))
            \/ \E n \in 1 .. MaxQueue :
                 Change(RemoveBuffersFromQueue(source, n), SubSeq(queued, Named(source, n) + 1, Len(queued)))
       [] call[t] = "set" ->
            \E b \in Buffer : Change(SetBuffer(source, b), IF b = AL_NONE THEN <<>> ELSE <<b>>)
       [] call[t] = "delete" -> Change(Stop(source), queued)
       [] call[t] = "deconstruct" -> Change(SetUpDeconstruction(source), queued)
  /\ call' = [call EXCEPT ![t] = IF @ = "delete" THEN "deconstruct" ELSE "any"]
  /\ dead' = (dead \/ call[t] = "deconstruct")
  /\ UNCHANGED <<phase, clearing>>

(* Under mSourceLock only, which the render thread does not take.           *)
Briefly ==
  /\ ~dead /\ source.odd = {} /\ ~clearing
  /\ \E looping \in BOOLEAN : source' = SetLooping(source, looping)
  /\ UNCHANGED <<lockVars, call, phase, dead, clearing, queued>>

GetBuffersProcessed ==
  /\ ~dead /\ source.odd = {} /\ ~clearing
  /\ RunDry(source)
  /\ clearing' = TRUE
  /\ UNCHANGED <<lockVars, source, call, phase, dead, queued>>

(* One entry; torn when the render thread is in a slice as it is cleared.   *)
ClearEntry ==
  /\ clearing /\ ~Torn /\ source.active # <<>>
  /\ IF render = "in" THEN source' \in Unlocked(source) ELSE source' = ClearOldest(source)
  /\ UNCHANGED <<lockVars, call, phase, dead, clearing, queued>>

AnswerProcessed ==
  /\ clearing /\ source.active = <<>>
  /\ clearing' = FALSE
  /\ UNCHANGED <<lockVars, source, call, phase, dead, queued>>

(* CleanUpDeadSourceList, and a new source under any name                   *)
Reclaim ==
  /\ dead /\ source.mSafeForDeletion
  /\ \A t \in Thread : edit[t] = "out" /\ call[t] # "deconstruct"
  /\ render = "out"
  /\ source' = NewSource
  /\ queued' = <<>>
  /\ dead' = FALSE
  /\ UNCHANGED <<lockVars, call, phase, clearing>>

-----------------------------------------------------------------------------
(* The render thread.                                                       *)

NextPhase == phase' = CASE phase = "pre" -> "render" [] phase = "render" -> "post" [] OTHER -> "pre"
Called == IF phase = "render" THEN source.procs ELSE source.bus

Skip ==
  /\ render = "out" /\ ~Called
  /\ NextPhase
  /\ UNCHANGED <<lockVars, source, call, dead, clearing, queued>>

(* A dead source has its messages replaced before it is tried.              *)
TrySource ==
  /\ Called
  /\ Try
  /\ source' = IF phase = "post" /\ dead
               THEN AddPlaybackMessage([source EXCEPT !.mMessageQueue = <<>>], "DeconstructionStop")
               ELSE source
  /\ UNCHANGED <<call, phase, dead, clearing, queued>>

AcquireSource == Acquire /\ UNCHANGED <<source, call, phase, dead, clearing, queued>>

RefuseSource ==
  /\ Refuse
  /\ NextPhase
  /\ UNCHANGED <<source, call, dead, clearing, queued>>

RenderSource ==
  /\ Render
  /\ CASE Torn -> UNCHANGED source
       [] ~Torn /\ phase = "pre" -> source' = DoPreRender(source)
       [] ~Torn /\ phase = "render" -> \E n \in 0 .. MaxQueue : source' = DoRender(source, n)
       [] ~Torn /\ phase = "post" -> source' = Outcome(DoPostRender(source))
  /\ NextPhase
  /\ UNCHANGED <<call, dead, clearing, queued>>

RenderThread == Skip \/ TrySource \/ AcquireSource \/ RefuseSource \/ RenderSource

Next ==
  \/ \E t \in Thread : AskFor(t) \/ EnterSource(t) \/ EditSource(t)
  \/ Briefly \/ GetBuffersProcessed \/ ClearEntry \/ AnswerProcessed
  \/ Reclaim
  \/ RenderThread

(* The audio unit keeps calling: the moves of the render thread, whatever   *)
(* it does to the source in them.                                           *)
Moves ==
  \/ (Try \/ Acquire) /\ UNCHANGED phase
  \/ (UNCHANGED lockVars \/ Refuse \/ Render) /\ NextPhase

Spec == Init /\ [][Next]_vars /\ WF_<<render, phase>>(Moves)

-----------------------------------------------------------------------------
Kept(s) == LET q == s.inactive \o s.active
           IN  SubSeq(q, s.mBuffersQueuedForClear + 1, Len(q))

(* The two lists together are the queue the application made, and every     *)
(* entry holds one attachment of its buffer, even of what a deferred call   *)
(* will remove: also while GetBuffersProcessed moves entries between two    *)
(* slices.  Not: an entry it moves during a slice, which the code itself may*)
(* lose or double (odd: unlocked); and in the second part, what a deferred  *)
(* SetBuffer will replace, and the other cases in which the code reorders   *)
(* or loses entries (odd).                                                  *)
QueueAsSeen ==
  /\ ~Torn => \A b \in Buffer : source.attached[b] = Held(source.inactive \o source.active, b)
  /\ source.odd = {} /\ ~dead /\ ~Pending(source, "SetBuffer") => Kept(source) = queued

(* A source that plays is connected to the mixer and called by it; one that *)
(* is connected plays, pauses, or is on its way to a stop.                  *)
ConnectedWhilePlaying ==
  source.odd = {} =>
    /\ source.mState = "PLAYING" => source.bus /\ source.procs
    /\ source.procs => source.bus
    /\ source.bus => source.mState \in {"PLAYING", "PAUSED", "TRANSITION"}

(* A stop that was left to the render thread happens, and so does the end   *)
(* of a deleted source, once the calls of the application leave the render  *)
(* thread alone.                                                            *)
StopEnds ==
  <>[](mAcquireFlag = 0) =>
    []<>(source.mState # "TRANSITION" \/ source.mSafeForDeletion \/ source.odd # {})
=============================================================================
