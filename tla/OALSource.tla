------------------------------ MODULE OALSource ------------------------------
(***************************************************************************)
(* One source of the Mac OS X implementation as a value, and what the      *)
(* methods of OALSource (OpenAL-MacOSX/oalSource.cpp) make of it.          *)
(*                                                                         *)
(* The queue is kept in two lists: inactive, played, and active, to be     *)
(* played.  A call on a source that is playing leaves a message; the       *)
(* render thread handles the messages after it has rendered one more slice,*)
(* ramped down.  Samples and positions inside a buffer are left out: a     *)
(* slice may end in any buffer, and an offset is the number of buffers     *)
(* with data before the one it lies in.                                    *)
(***************************************************************************)
EXTENDS Integers, FiniteSets, Sequences, SequencesExt

CONSTANTS Buffer, AL_NONE,     \* buffers; the one that stands for no buffer
          Playable,            \* buffers with data
          Converted            \* ... in the format of the mixer

ASSUME NoneAssumption == AL_NONE \in Buffer

NewSource ==
  [mState |-> "INITIAL", mSourceType |-> "UNDETERMINED", mLooping |-> FALSE,
   active |-> <<>>, inactive |-> <<>>, mCurrentBufferIndex |-> 0,
   mQueueIsProcessed |-> TRUE, mBuffersQueuedForClear |-> 0,
   mRampState |-> "no", mMessageQueue |-> <<>>, mPlaybackHeadPosition |-> 0,
   bus |-> FALSE, procs |-> FALSE,            \* has a mixer bus; a render callback
   attached |-> [b \in Buffer |-> 0],         \* attachment counts of the buffers
   mSafeForDeletion |-> FALSE,
   thrown |-> FALSE,                          \* the method ended with an exception
   odd |-> {}]                                \* history: steps that lose something

Message(id, buffer, count) == [mMessageID |-> id, mAppendBuffer |-> buffer, mBuffers |-> count]
AddMessage(s, m) == [s EXCEPT !.mMessageQueue = Append(@, m)]
AddPlaybackMessage(s, id) == AddMessage(s, Message(id, AL_NONE, 0))

Pending(s, id) == \E i \in 1 .. Len(s.mMessageQueue) : s.mMessageQueue[i].mMessageID = id

Throw(s) == [s EXCEPT !.thrown = TRUE]
Note(s, what, cond) == IF cond THEN [s EXCEPT !.odd = @ \cup {what}] ELSE s
Times(Op(_), n, s) == LET after[i \in 0 .. n] == IF i = 0 THEN s ELSE Op(after[i - 1]) IN after[n]
Smaller(m, n) == IF m < n THEN m ELSE n
Frames(q) == Len(SelectSeq(q, LAMBDA b : b \in Playable))

Held(q, b) == Cardinality({i \in 1 .. Len(q) : q[i] = b})

GetQLength(s) == Len(s.inactive) + Len(s.active) - s.mBuffersQueuedForClear

-----------------------------------------------------------------------------
(* Faulty variants of the operators below: bugs the properties must notice. *)
ClearInFront(s) == [s EXCEPT !.inactive = s.active \o @, !.active = <<>>]
DisconnectBusOnly(s) == [s EXCEPT !.bus = FALSE]
NoRamp(s) == s
ReleaseTwice(s, q) == [b \in Buffer |-> s.attached[b] - 2 * Held(q, b)]

(* std::advance on the active list wraps at its end, which is no entry.     *)
Place(s) == s.mCurrentBufferIndex % (Len(s.active) + 1)
HasCurrent(s) == Place(s) < Len(s.active)

ClearActiveQueue(s) == [s EXCEPT !.inactive = @ \o s.active, !.active = <<>>]

Swap(s) == [s EXCEPT !.active = s.inactive, !.inactive = s.active]
Reset(s) == [s EXCEPT !.mCurrentBufferIndex = 0, !.mQueueIsProcessed = FALSE]
LoopToBeginning(s) == Reset(Swap(ClearActiveQueue(s)))

(* Always removes at mCurrentBufferIndex: what is before it is left behind, *)
(* and an index outside the list is another place after each removal.       *)
MoveCurrent(s) ==
  IF HasCurrent(s)
  THEN [s EXCEPT !.inactive = Append(@, s.active[Place(s) + 1]), !.active = RemoveAt(@, Place(s) + 1)]
  ELSE s
JoinBufferLists(s) ==
  Note(Reset(Swap(Times(MoveCurrent, Len(s.active), s))),
       "joined", /\ s.active # <<>> /\ s.mCurrentBufferIndex > 0
                 /\ s.inactive # <<>> \/ s.mCurrentBufferIndex > Len(s.active))

UpdateQueue(s) ==
  LET n == Smaller(s.mCurrentBufferIndex, Len(s.active)) IN
  [s EXCEPT !.inactive = @ \o SubSeq(s.active, 1, n), !.active = SubSeq(@, n + 1, Len(@)),
            !.mCurrentBufferIndex = 0]

(* NextPlayableBufferInActiveQ: mCurrentBufferIndex goes to it, or past all.*)
NextPlayable(s) ==
  LET p == Place(s)
      q == CHOOSE q \in p .. Len(s.active) :
             /\ q = Len(s.active) \/ s.active[q + 1] \in Playable
             /\ \A r \in p .. q - 1 : s.active[r + 1] \notin Playable IN
  [s EXCEPT !.mCurrentBufferIndex = @ + (q - p)]

AppendBufferToQueue(s, b) ==
  [(IF s.active = <<>> THEN Reset(s) ELSE s)
     EXCEPT !.active = Append(@, b), !.attached[b] = @ + 1]

(* RemoveQueueEntryByIndex(0), n times, with the release of the buffers     *)
Release(s, q) == [b \in Buffer |-> s.attached[b] - Held(q, b)]
RemoveOldest(s, n) ==
  LET k == Smaller(n, Len(s.inactive)) IN
  [s EXCEPT !.inactive = SubSeq(@, k + 1, Len(@)), !.attached = Release(s, SubSeq(s.inactive, 1, k)),
            !.mBuffersQueuedForClear = 0]

FlushBufferQueue(s) ==
  [s EXCEPT !.active = <<>>, !.inactive = <<>>, !.attached = Release(s, s.inactive \o s.active),
            !.mBuffersQueuedForClear = IF s.inactive = <<>> THEN @ ELSE 0]

Typed(s, type) == [s EXCEPT !.mSourceType = type]
Freed(s) == IF GetQLength(s) = 0 THEN Typed(s, "UNDETERMINED") ELSE s

(* An offset: the entries before it move to the inactive list.              *)
AdvanceQueueToFrameIndex(s, offset) ==
  LET n == Cardinality({k \in 1 .. Len(s.active) : Frames(SubSeq(s.active, 1, k)) <= offset}) IN
  IF offset > Frames(s.active) THEN Throw(s)
  ELSE [s EXCEPT !.inactive = @ \o SubSeq(s.active, 1, n), !.active = SubSeq(@, n + 1, Len(@))]

AddProcs(s) == [s EXCEPT !.procs = @ \/ s.bus]
DisconnectFromBus(s) == [s EXCEPT !.bus = FALSE, !.procs = FALSE]
In(s, state) == [s EXCEPT !.mState = state]
End(s) == [ClearActiveQueue(In(DisconnectFromBus(s), "STOPPED")) EXCEPT !.mQueueIsProcessed = FALSE]

-----------------------------------------------------------------------------
(* The calls of the application, and Play also by the render thread.        *)

RampDown(s) == [s EXCEPT !.mRampState = IF @ = "complete" THEN @ ELSE "down"]
Defer(s, id) == AddPlaybackMessage(RampDown(s), id)

Resume(s) == IF s.mState = "PAUSED" THEN In(AddProcs([s EXCEPT !.mRampState = "up"]), "PLAYING") ELSE s

StartPlaying(s) ==
  LET r == NextPlayable(JoinBufferLists(s)) IN
  IF ~HasCurrent(r) THEN Throw(r)
  ELSE AddProcs(In([r EXCEPT !.bus = TRUE, !.mQueueIsProcessed = FALSE], "PLAYING"))

Play(s) ==
  IF GetQLength(s) = 0 THEN s
  ELSE CASE s.mState \in {"PLAYING", "TRANSITION"} ->
              IF s.mRampState = "complete" THEN s
              ELSE Defer(s, IF s.mState = "PLAYING" THEN "Rewind" ELSE "Play")
         [] s.mState = "PAUSED" -> Resume(s)
         [] OTHER -> StartPlaying(s)

Rewind(s) ==
  CASE s.mState = "PLAYING" -> LoopToBeginning(Defer(s, "Rewind"))
    [] s.mState \in {"PAUSED", "STOPPED"} -> LoopToBeginning(s)
    [] OTHER -> s

Pause(s) == IF s.mState = "PLAYING" THEN Defer(s, "Pause") ELSE s

Stop(s) ==
  CASE s.mState = "PAUSED" /\ s.bus -> In([s EXCEPT !.bus = FALSE], "STOPPED")
    [] s.mState = "PLAYING" -> In(Defer(s, "Stop"), "TRANSITION")
    [] s.mState = "TRANSITION" -> AddPlaybackMessage(s, "Stop")
    [] OTHER -> s

SetQueueOffset(s, offset) ==
  IF s.mState \in {"PLAYING", "TRANSITION"}
  THEN AddPlaybackMessage([s EXCEPT !.mRampState = "down", !.mPlaybackHeadPosition = offset],
                          "SetFramePosition")
  ELSE AdvanceQueueToFrameIndex(Rewind(s), offset)

Replace(s, b) ==
  IF b = AL_NONE THEN Typed(FlushBufferQueue(s), "UNDETERMINED")
  ELSE Typed(AppendBufferToQueue(FlushBufferQueue(s), b), "STATIC")

SetBuffer(s, b) ==
  CASE s.mState \in {"PLAYING", "PAUSED"} -> Throw(s)
    [] s.mState = "TRANSITION" ->
         AddMessage(IF b = AL_NONE THEN Typed(s, "UNDETERMINED") ELSE s, Message("SetBuffer", b, 0))
    [] OTHER -> Replace(s, b)

AddToQueue(s, b) ==
  IF s.mSourceType = "STATIC" THEN Throw(s)
  ELSE Note(Typed(AppendBufferToQueue(s, b), "STREAMING"), "flushed", Pending(s, "SetBuffer"))

(* RemoveBuffersFromQueue.  The loop that removes now runs to a bound that  *)
(* its first turn changes.                                                  *)
RemoveBuffersFromQueue(s, n) ==
  LET r == IF s.mState = "STOPPED" THEN ClearActiveQueue(s) ELSE s
      turns == IF n > s.mBuffersQueuedForClear THEN n - s.mBuffersQueuedForClear ELSE 1
      refused == \/ n > GetQLength(s)
                 \/ s.mState \in {"PLAYING", "PAUSED"} /\ s.mLooping
                 \/ s.mState \in {"PLAYING", "PAUSED", "STOPPED"} /\ n > Len(r.inactive) IN
  IF refused THEN Throw(r)
  ELSE IF s.mState # "TRANSITION" THEN Freed(RemoveOldest(r, turns))
  ELSE Note(Freed(AddMessage([s EXCEPT !.mBuffersQueuedForClear = @ + n],
                             Message("ClearBuffersFromQueue", AL_NONE, n))),
            "replaced", Pending(s, "SetBuffer"))

(* How many entries it names to the caller: the inactive ones when it does  *)
(* not defer, which in the initial state are none.                          *)
Named(s, n) == IF s.mState = "INITIAL" THEN Smaller(n, Len(s.inactive)) ELSE n

(* A source that plays again since it was stopped is not ramped down.       *)
SetUpDeconstruction(s) ==
  In(IF s.mState \in {"PLAYING", "TRANSITION"}
     THEN Note(AddPlaybackMessage(s, "DeconstructionStop"), "unramped", s.mState = "PLAYING")
     ELSE [s EXCEPT !.mSafeForDeletion = TRUE], "TRANSITION")

(* Outside the render lock: the setter of mLooping, and the getter of the   *)
(* number of processed buffers, which clears a queue that ran dry.  One     *)
(* entry is cleared by an append to one list and a removal from the other;  *)
(* beside the render thread, which works on both, either may be lost.       *)
SetLooping(s, looping) == [s EXCEPT !.mLooping = looping]
RunDry(s) == s.mState \notin {"INITIAL", "TRANSITION"} /\ s.mQueueIsProcessed /\ s.active # <<>>
ClearOldest(s) == [s EXCEPT !.inactive = Append(@, Head(s.active)), !.active = Tail(@)]
Unlocked(s) ==
  {[s EXCEPT !.inactive = i, !.active = a, !.odd = @ \cup {"unlocked"}] :
     i \in {s.inactive, Append(s.inactive, Head(s.active))}, a \in {s.active, Tail(s.active)}}

-----------------------------------------------------------------------------
(* The render thread.                                                       *)

DoPreRender(s) == [s EXCEPT !.mQueueIsProcessed = @ \/ ~HasCurrent(s)]

Dry(s) == [s EXCEPT !.mQueueIsProcessed = TRUE]

(* The data of the current buffer is used up, in ACComplexInputDataProc or, *)
(* for a converted buffer, in DoRender.                                     *)
Cross(s) ==
  LET c == NextPlayable(s)
      r == NextPlayable([c EXCEPT !.mCurrentBufferIndex = @ + 1])
      converted == c.active[Place(c) + 1] \in Converted IN
  IF s.mQueueIsProcessed THEN s
  ELSE CASE r.mLooping /\ (converted \/ ~HasCurrent(r)) -> LoopToBeginning(r)
         [] ~r.mLooping /\ ~HasCurrent(r) ->
              IF converted THEN Note(Dry(Swap(r)), "swapped", r.inactive # <<>>) ELSE Dry(r)
         [] OTHER -> r

(* A slice in which n buffers are used up, if there are as many.            *)
Fill(s, n) ==
  IF s.mQueueIsProcessed THEN s
  ELSE IF HasCurrent(NextPlayable(s)) THEN Times(Cross, n, s) ELSE Dry(NextPlayable(s))

Ramp(s) == [s EXCEPT !.mRampState = IF @ \in {"down", "up"} THEN "complete" ELSE @]

DoRender(s, n) ==
  LET r == NextPlayable(s)
      u == UpdateQueue(r) IN
  Ramp(CASE HasCurrent(r) -> Fill(u, n)
         [] ~HasCurrent(r) /\ s.mLooping -> Fill(Swap(u), n)
         [] OTHER -> Dry(u))

(* DoPostRender: one message.  run.s is the source; removed, that it has no *)
(* render callback; left, that an exception or the end of the source leaves *)
(* messages unhandled.                                                      *)
Handle(s, m, removed) ==
  CASE m.mMessageID = "Stop" -> IF s.mState = "STOPPED" THEN s ELSE End(s)
    [] m.mMessageID = "Rewind" ->
         In(IF removed THEN AddProcs(LoopToBeginning(s)) ELSE LoopToBeginning(s), "PLAYING")
    [] m.mMessageID = "ClearBuffersFromQueue" ->
         LET r == ClearActiveQueue(s) IN
         IF m.mBuffers > Len(r.inactive) THEN Throw(r) ELSE Freed(RemoveOldest(r, m.mBuffers))
    [] m.mMessageID = "SetBuffer" -> In(Note(Replace(s, m.mAppendBuffer), "cut", s.bus), "STOPPED")
    [] m.mMessageID = "Play" -> Play(s)
    [] m.mMessageID = "Pause" -> [In(s, "PAUSED") EXCEPT !.procs = FALSE]
    [] m.mMessageID = "SetFramePosition" ->
         LET r == AdvanceQueueToFrameIndex(LoopToBeginning(s), s.mPlaybackHeadPosition) IN
         IF r.thrown THEN r ELSE [r EXCEPT !.mPlaybackHeadPosition = 0]
    [] m.mMessageID = "DeconstructionStop" ->
         [FlushBufferQueue(In(DisconnectFromBus(s), "STOPPED"))
            EXCEPT !.mSafeForDeletion = TRUE, !.mMessageQueue = <<>>]

HandleNext(run, m) ==
  IF run.s.thrown \/ run.s.mSafeForDeletion THEN [run EXCEPT !.left = TRUE]
  ELSE [s |-> Handle(run.s, m, run.removed), left |-> FALSE,
        removed |-> m.mMessageID = "Pause" \/ (run.removed /\ m.mMessageID # "Rewind")]

HandleAll(s) ==
  LET n == Len(s.mMessageQueue)
      run[i \in 0 .. n] ==
        IF i = 0 THEN [s |-> [s EXCEPT !.mMessageQueue = <<>>], left |-> FALSE, removed |-> FALSE]
        ELSE HandleNext(run[i - 1], s.mMessageQueue[i])
      r == run[n].s IN
  IF r.thrown THEN Note(r, "lost", run[n].left)
  ELSE IF r.mSafeForDeletion THEN r
  ELSE [r EXCEPT !.mRampState = "no"]

DoPostRender(s) ==
  LET r == IF s.mRampState = "complete" THEN HandleAll(s) ELSE s IN
  IF r.thrown \/ ~r.mQueueIsProcessed THEN r
  ELSE Note(End(r), "stale", r.mMessageQueue # <<>>)
=============================================================================
