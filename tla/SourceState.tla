----------------------------- MODULE SourceState -----------------------------
(***************************************************************************)
(* One source of OpenAL-Soft as a value: its play state, its buffer queue  *)
(* and where playback stands in it, and the functions of alSource.c and    *)
(* mixer.c that change them.  Each operator maps a source to a source; the *)
(* caller holds the device mutex.  Positions and offsets are in sample     *)
(* frames, so the conversions of GetByteOffset are to the same unit.       *)
(***************************************************************************)
EXTENDS Integers, Sequences, FiniteSets

CONSTANTS
  Buffer,                  (* the buffers that exist                           *)
  NoBuffer,                (* a queue entry with a NULL buffer (name 0)        *)
  Size,                    (* Size[b]: sample frames in b, 0 if never filled   *)
  LoopStart, LoopEnd       (* the loop points of b: 0 and Size[b] unless set   *)

ASSUME BufferAssumption ==
  /\ NoBuffer \notin Buffer
  /\ Size \in [Buffer -> Nat] /\ LoopStart \in [Buffer -> Nat] /\ LoopEnd \in [Buffer -> Nat]
  /\ \A b \in Buffer : IF Size[b] = 0 THEN LoopStart[b] = 0 /\ LoopEnd[b] = 0
                       ELSE LoopStart[b] < LoopEnd[b] /\ LoopEnd[b] <= Size[b]

Entry == Buffer \cup {NoBuffer}
PlayState == {"INITIAL", "PLAYING", "PAUSED", "STOPPED"}
SourceType == {"UNDETERMINED", "STATIC", "STREAMING"}

(* lOffset is -1 while no offset is pending; ready is FALSE until the mixing*)
(* parameters have been computed once (Source->Params is still all zero).   *)
(* crossed is a history: whether a processed update started the source when *)
(* another thread had deferred updates again (see Sources!ProcessApply).    *)
SourceRecord ==
  [state : PlayState, new_state : PlayState \cup {"NONE"},
   queue : Seq(Entry), BuffersInQueue : Nat, BuffersPlayed : Nat, position : Nat,
   lSourceType : SourceType, bLooping : BOOLEAN, lOffset : Nat \cup {-1},
   ready : BOOLEAN, crossed : BOOLEAN]

InitSourceParams ==
  [state |-> "INITIAL", new_state |-> "NONE",
   queue |-> <<>>, BuffersInQueue |-> 0, BuffersPlayed |-> 0, position |-> 0,
   lSourceType |-> "UNDETERMINED", bLooping |-> FALSE, lOffset |-> -1,
   ready |-> FALSE, crossed |-> FALSE]

Length(e) == IF e = NoBuffer THEN 0 ELSE Size[e]

(* Faulty variants of the operators below: bugs the properties must notice. *)
AnyEntry(r) == r.queue # <<>>

Playable(r) == \E n \in 1 .. Len(r.queue) : Length(r.queue[n]) > 0

-----------------------------------------------------------------------------
(* ApplyOffset: the entry n and the frame p inside it that the pending      *)
(* offset falls on.  A set that is empty or has one element.                *)
Places(r) ==
  LET Before[n \in 1 .. Len(r.queue)] ==
        IF n = 1 THEN 0 ELSE Before[n - 1] + Length(r.queue[n - 1])
  IN {w \in {<<n, p>> : n \in 1 .. Len(r.queue), p \in 0 .. r.lOffset} :
        /\ w[2] < Length(r.queue[w[1]])
        /\ Before[w[1]] + w[2] = r.lOffset}

(* The offset is consumed in any case; entries before it count as played.   *)
ApplyOffset(r) ==
  IF Places(r) = {} THEN [r EXCEPT !.lOffset = -1]
  ELSE LET w == CHOOSE w \in Places(r) : TRUE
       IN [r EXCEPT !.lOffset = -1, !.BuffersPlayed = w[1] - 1, !.position = w[2]]

ApplyPending(r) == IF r.lOffset # -1 THEN ApplyOffset(r) ELSE r

-----------------------------------------------------------------------------
(* SetSourceState, by the state asked for *)

Stop(r) ==
  IF r.state = "INITIAL" THEN [r EXCEPT !.lOffset = -1]
  ELSE [r EXCEPT !.state = "STOPPED", !.BuffersPlayed = r.BuffersInQueue, !.lOffset = -1]

Rewind(r) ==
  IF r.state = "INITIAL" THEN [r EXCEPT !.lOffset = -1]
  ELSE [r EXCEPT !.state = "INITIAL", !.BuffersPlayed = 0, !.position = 0, !.lOffset = -1]

Pause(r) == IF r.state = "PLAYING" THEN [r EXCEPT !.state = "PAUSED"] ELSE r

(* A faulty Start, which goes on where the source was stopped.              *)
Resume(r) == ApplyPending([r EXCEPT !.state = "PLAYING"])

(* Playing starts over, except from PAUSED, and then honours an offset.     *)
Start(r) ==
  ApplyPending(IF r.state = "PAUSED" THEN [r EXCEPT !.state = "PLAYING"]
               ELSE [r EXCEPT !.state = "PLAYING", !.BuffersPlayed = 0, !.position = 0])

CanStart(r, connected) == Playable(r) /\ connected

SetSourceState(r, state, connected) ==
  CASE state = "PLAYING" /\ CanStart(r, connected)  -> Start(r)
    [] state = "PLAYING" /\ ~CanStart(r, connected) -> Stop(r)
    [] state = "PAUSED"  -> Pause(r)
    [] state = "STOPPED" -> Stop(r)
    [] state = "INITIAL" -> Rewind(r)

-----------------------------------------------------------------------------
(* alSourcei(AL_BUFFER), alSourceQueueBuffers, alSourceUnqueueBuffers       *)

SetBuffer(r, e) ==
  [r EXCEPT !.BuffersPlayed = 0,
            !.lSourceType = IF e = NoBuffer THEN "UNDETERMINED" ELSE "STATIC",
            !.queue = IF e = NoBuffer THEN <<>> ELSE <<e>>,
            !.BuffersInQueue = IF e = NoBuffer THEN 0 ELSE 1]

Queue(r, es) ==
  [r EXCEPT !.lSourceType = "STREAMING", !.queue = @ \o es,
            !.BuffersInQueue = @ + Len(es)]

(* A faulty CanUnqueue, which does not ask whether the entries were played. *)
CanUnqueueAny(r, n) == ~r.bLooping /\ r.lSourceType = "STREAMING" /\ n <= r.BuffersInQueue

CanUnqueue(r, n) == ~r.bLooping /\ r.lSourceType = "STREAMING" /\ n <= r.BuffersPlayed

Unqueue(r, n) ==
  [r EXCEPT !.queue = SubSeq(@, n + 1, Len(@)),
            !.BuffersInQueue = @ - n, !.BuffersPlayed = @ - n]

(* aluHandleDisconnect, for one source *)
Disconnect(r) ==
  IF r.state # "PLAYING" THEN r
  ELSE [r EXCEPT !.state = "STOPPED", !.BuffersPlayed = r.BuffersInQueue, !.position = 0]
=============================================================================
