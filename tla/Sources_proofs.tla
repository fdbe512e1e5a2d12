---------------------------- MODULE Sources_proofs ----------------------------
(***************************************************************************)
(* Proofs about the sources of a context and the mixer, for any sources,   *)
(* threads, buffers, queues and offsets: the queue and its counters agree  *)
(* and what plays has sound ahead, references are exact, whatever plays is *)
(* on the mixer's list, and the list is overrun by deferred plays only.    *)
(***************************************************************************)
EXTENDS Sources, FiniteSetTheorems, SequenceTheorems, TLAPS

Sounding == {"PLAYING", "PAUSED"}

(* The queue goes on with sound after the entries that count as played.     *)
Ahead(r) == \E n \in r.BuffersPlayed + 1 .. Len(r.queue) : Length(r.queue[n]) > 0

(* QueueConsistent, of one source                                           *)
Sound(r) ==
  /\ r \in SourceRecord
  /\ r.BuffersInQueue = Len(r.queue)
  /\ r.BuffersPlayed <= r.BuffersInQueue
  /\ r.lSourceType = "STATIC" => Len(r.queue) = 1 /\ r.queue[1] # NoBuffer
  /\ r.state \in Sounding => Ahead(r)

SrcInv == src \in [Source -> SourceRecord] /\ \A s \in Source : Sound(src[s])

RestOK ==
  /\ SourceMap \subseteq Source /\ ActiveSources \subseteq Source
  /\ MaxActiveSources \in Nat /\ DeferUpdates \in BOOLEAN /\ Connected \in BOOLEAN
  /\ pc \in [Thread -> {"idle", "defer", "process", "removed", "purged"}]
  /\ arg \in [Thread -> Source \cup {NoSource}]

(* A source that is being deleted has no name and one thread that deletes   *)
(* it; what has no memory is as it will be when it is made.                 *)
OwnInv ==
  /\ \A t \in Thread : Deleting(t) => arg[t] \in Source \ SourceMap
  /\ \A t, u \in Thread : Deleting(t) /\ Deleting(u) /\ arg[t] = arg[u] => t = u
  /\ \A s \in Source \ Allocated : src[s] = InitSourceParams

(* What plays is on the list, and what is on the list is not off it yet for *)
(* a deletion.                                                              *)
Listable == SourceMap \cup {arg[t] : t \in {u \in Thread : pc[u] = "removed"}}

ListInv ==
  /\ \A s \in SourceMap : src[s].state = "PLAYING" => s \in ActiveSources
  /\ ActiveSources \subseteq Listable

(* The source that is being mixed is on the list and plays; the mixer's     *)
(* place in its queue is an entry.                                          *)
MixInv ==
  /\ mixer \in MixerRecord
  /\ mixer.todo \subseteq ActiveSources /\ (mixer.at = "out" => mixer.todo = {})
  /\ mixer.at \in {"mix", "cross"} =>
       /\ mixer.s \in ActiveSources /\ mixer.state = "PLAYING"
       /\ src[mixer.s].state = "PLAYING"
       /\ mixer.BuffersPlayed < Len(src[mixer.s].queue)

(* The queues, and where they have a buffer.                                *)
Queues == [s \in Source |-> src[s].queue]
Indices(q, b) == {n \in 1 .. Len(q) : q[n] = b}
SpotsOf(q, X, b) == UNION {{s} \X Indices(q[s], b) : s \in X}
Spots(q, b) == SpotsOf(q, Source, b)

RefsInv ==
  /\ ref \in [Buffer -> Int]
  /\ \A b \in Buffer : ref[b] = Cardinality(Spots(Queues, b))

IInv == RestOK /\ SrcInv /\ OwnInv /\ ListInv /\ MixInv /\ RefsInv

-----------------------------------------------------------------------------
(* What the operations make of one source.                                  *)

LEMMA LengthIs ==
  /\ \A e \in Entry : Length(e) \in Nat
  /\ \A b \in Buffer : Length(b) = Size[b] /\ b # NoBuffer /\ b \in Entry
  /\ \A e \in Entry : e # NoBuffer => e \in Buffer
  BY BufferAssumption DEF Length, Entry

LEMMA PlacesIs ==
  ASSUME NEW r, NEW w \in Places(r)
  PROVE  /\ w[1] \in 1 .. Len(r.queue) /\ w[2] \in 0 .. r.lOffset
         /\ w[2] < Length(r.queue[w[1]])
  BY DEF Places

(* The mixing parameters were computed, or the source is excepted.          *)
Settled(r) == r.ready \/ r.crossed

(* A change of the place in the queue and of the pending offset only.       *)
Moved(r, m) ==
  /\ Sound(m)
  /\ m.queue = r.queue /\ m.state = r.state /\ m.new_state = r.new_state
  /\ m.ready = r.ready /\ m.crossed = r.crossed

LEMMA OffsetSound ==
  ASSUME NEW r, Sound(r)
  PROVE  Moved(r, ApplyOffset(r)) /\ Moved(r, ApplyPending(r))
<1>1. Moved(r, r)
  BY DEF Moved
<1>2. Moved(r, ApplyOffset(r))
  <2>1. CASE Places(r) = {}
    BY <2>1 DEF ApplyOffset, Moved, Sound, SourceRecord, Ahead
  <2>2. CASE Places(r) # {}
    <3> DEFINE w == CHOOSE w \in Places(r) : TRUE
    <3>1. w \in Places(r)
      BY <2>2
    <3> HIDE DEF w
    <3>2. /\ w[1] \in 1 .. Len(r.queue) /\ w[2] \in 0 .. r.lOffset
          /\ Length(r.queue[w[1]]) \in Nat /\ w[2] < Length(r.queue[w[1]])
      <4>1. r.queue \in Seq(Entry) /\ r.queue[w[1]] \in Entry
        BY <3>1, PlacesIs, ElementOfSeq DEF Sound, SourceRecord
      <4> QED
        BY <3>1, <4>1, PlacesIs, LengthIs
    <3> DEFINE n == w[1]
               p == w[2]
               m == [r EXCEPT !.lOffset = -1, !.BuffersPlayed = n - 1, !.position = p]
    <3>3. ApplyOffset(r) = m
      BY <2>2 DEF ApplyOffset, w
    <3>4. n \in 1 .. Len(r.queue) /\ p \in Nat /\ Length(r.queue[n]) > 0
          /\ r.queue \in Seq(Entry) /\ Len(r.queue) \in Nat
      <4>1. r.queue \in Seq(Entry) /\ r.lOffset \in Nat \cup {-1}
        BY DEF Sound, SourceRecord
      <4> QED
        BY <3>2, <4>1, LenProperties
    <3> HIDE DEF n, p
    <3>5. m \in SourceRecord /\ m.queue = r.queue /\ m.BuffersPlayed = n - 1
      <4>1. n - 1 \in Nat /\ p \in Nat /\ -1 \in Nat \cup {-1} /\ r \in SourceRecord
        BY <3>4 DEF Sound
      <4> QED
        BY ONLY <4>1 DEF SourceRecord
    <3>6. Ahead(m)
      BY <3>4, <3>5 DEF Ahead
    <3> QED
      BY <3>3, <3>4, <3>5, <3>6 DEF Moved, Sound, SourceRecord
  <2> QED
    BY <2>1, <2>2
<1> QED
  BY <1>1, <1>2 DEF ApplyPending

(* A change that leaves the queue as it is.                                 *)
Kept(r, m) == Sound(m) /\ m.queue = r.queue /\ m.ready = r.ready /\ m.crossed = r.crossed

LEMMA StartSound ==
  ASSUME NEW r, Sound(r), Playable(r)
  PROVE  Kept(r, Start(r))
<1> DEFINE a == [r EXCEPT !.state = "PLAYING"]
           b == [r EXCEPT !.state = "PLAYING", !.BuffersPlayed = 0, !.position = 0]
<1>0. r \in SourceRecord /\ Len(r.queue) \in Nat
  BY LenProperties DEF Sound, SourceRecord
<1>1. CASE r.state = "PAUSED"
  <2>1. a \in SourceRecord
    BY <1>0 DEF SourceRecord, PlayState
  <2>2. Kept(r, a)
    BY <1>0, <1>1, <2>1 DEF Kept, Sound, Ahead, SourceRecord, Sounding
  <2> HIDE DEF a
  <2>3. Moved(a, ApplyPending(a))
    BY <2>2, OffsetSound DEF Kept
  <2> QED
    BY <1>1, <2>2, <2>3 DEF Kept, Moved, Start, a
<1>2. CASE r.state # "PAUSED"
  <2>1. b \in SourceRecord
    BY <1>0 DEF SourceRecord, PlayState
  <2>2. b.BuffersPlayed = 0 /\ b.queue = r.queue /\ b.ready = r.ready /\ b.crossed = r.crossed
        /\ b.BuffersInQueue = r.BuffersInQueue /\ b.lSourceType = r.lSourceType
    BY <1>0 DEF SourceRecord
  <2> HIDE DEF b
  <2>3. Kept(r, b)
    BY <1>0, <2>1, <2>2 DEF Kept, Sound, Ahead, Playable
  <2>4. Moved(b, ApplyPending(b))
    BY <2>3, OffsetSound DEF Kept
  <2> QED
    BY <1>2, <2>3, <2>4 DEF Kept, Moved, Start, b
<1> QED
  BY <1>1, <1>2

LEMMA StopSound ==
  ASSUME NEW r, Sound(r)
  PROVE  /\ Kept(r, Stop(r)) /\ Stop(r).state \notin Sounding
         /\ Kept(r, Rewind(r)) /\ Rewind(r).state \notin Sounding
         /\ Kept(r, Disconnect(r)) /\ Disconnect(r).state # "PLAYING"
         /\ Kept(r, Pause(r)) /\ Pause(r).state # "PLAYING"
<1>0. r \in SourceRecord /\ -1 \in Nat \cup {-1} /\ r.BuffersInQueue \in Nat
  BY DEF Sound, SourceRecord
<1>1. Stop(r) \in SourceRecord /\ Rewind(r) \in SourceRecord
      /\ Disconnect(r) \in SourceRecord /\ Pause(r) \in SourceRecord
  BY ONLY <1>0 DEF SourceRecord, PlayState, Stop, Rewind, Disconnect, Pause
<1>2. Kept(r, Stop(r)) /\ Stop(r).state \notin Sounding
  BY <1>0, <1>1, SMTT(30) DEF Kept, Sound, SourceRecord, Sounding, Stop, PlayState
<1>3. Kept(r, Rewind(r)) /\ Rewind(r).state \notin Sounding
  BY <1>0, <1>1, SMTT(30) DEF Kept, Sound, SourceRecord, Sounding, Rewind, PlayState
<1>4. Kept(r, Disconnect(r)) /\ Disconnect(r).state # "PLAYING"
  BY <1>0, <1>1 DEF Kept, Sound, SourceRecord, Sounding, Disconnect, PlayState, Ahead
<1>5. Kept(r, Pause(r)) /\ Pause(r).state # "PLAYING"
  BY <1>0, <1>1 DEF Kept, Sound, SourceRecord, Sounding, Pause, PlayState, Ahead
<1> QED
  BY <1>2, <1>3, <1>4, <1>5

LEMMA SetSound ==
  ASSUME NEW r, Sound(r), NEW state \in PlayState, NEW connected \in BOOLEAN
  PROVE  /\ Kept(r, SetSourceState(r, state, connected))
         /\ SetSourceState(r, state, connected).state = "PLAYING" =>
              state = "PLAYING" /\ CanStart(r, connected)
<1> DEFINE m == SetSourceState(r, state, connected)
<1>1. CASE state = "PLAYING" /\ CanStart(r, connected)
  <2>1. m = Start(r)
    BY <1>1 DEF SetSourceState
  <2> QED
    BY <1>1, <2>1, StartSound DEF CanStart
<1>2. CASE state = "PLAYING" /\ ~CanStart(r, connected)
  <2>1. m = Stop(r)
    BY <1>2 DEF SetSourceState
  <2> QED
    BY <1>2, <2>1, StopSound DEF Sounding
<1>3. CASE state = "PAUSED"
  <2>1. m = Pause(r)
    BY <1>3 DEF SetSourceState
  <2> QED
    BY <2>1, StopSound
<1>4. CASE state = "STOPPED"
  <2>1. m = Stop(r)
    BY <1>4 DEF SetSourceState
  <2> QED
    BY <2>1, StopSound DEF Sounding
<1>5. CASE state = "INITIAL"
  <2>1. m = Rewind(r)
    BY <1>5 DEF SetSourceState
  <2> QED
    BY <2>1, StopSound DEF Sounding
<1> QED
  BY <1>1, <1>2, <1>3, <1>4, <1>5 DEF PlayState

LEMMA FieldSound ==
  ASSUME NEW r, Sound(r)
  PROVE  /\ \A state \in PlayState \cup {"NONE"} :
              LET m == [r EXCEPT !.new_state = state] IN Kept(r, m) /\ m.state = r.state
         /\ \A looping \in BOOLEAN :
              LET m == [r EXCEPT !.bLooping = looping] IN Kept(r, m) /\ m.state = r.state
         /\ \A offset \in Nat :
              LET m == [r EXCEPT !.lOffset = offset] IN Kept(r, m) /\ m.state = r.state
         /\ Sound(Update(r)) /\ Update(r).queue = r.queue /\ Update(r).state = r.state
         /\ Settled(Update(r))
<1>0. r \in SourceRecord
  BY DEF Sound
<1>1. ASSUME NEW state \in PlayState \cup {"NONE"}
      PROVE  LET m == [r EXCEPT !.new_state = state] IN Kept(r, m) /\ m.state = r.state
  BY <1>0, <1>1 DEF Kept, Sound, SourceRecord, Ahead
<1>2. ASSUME NEW looping \in BOOLEAN
      PROVE  LET m == [r EXCEPT !.bLooping = looping] IN Kept(r, m) /\ m.state = r.state
  BY <1>0, <1>2 DEF Kept, Sound, SourceRecord, Ahead
<1>3. ASSUME NEW offset \in Nat
      PROVE  LET m == [r EXCEPT !.lOffset = offset] IN Kept(r, m) /\ m.state = r.state
  BY <1>0, <1>3 DEF Kept, Sound, SourceRecord, Ahead
<1>4. /\ Sound(Update(r)) /\ Update(r).queue = r.queue /\ Update(r).state = r.state
      /\ Settled(Update(r))
  BY <1>0 DEF Update, Sound, SourceRecord, Ahead, Settled
<1> QED
  BY <1>1, <1>2, <1>3, <1>4

LEMMA ProcessedSound ==
  ASSUME NEW r, Sound(r), Connected \in BOOLEAN
  PROVE  /\ Kept(r, Processed(r))
         /\ Processed(r).state = "PLAYING" =>
              r.state = "PLAYING" \/ (r.new_state = "PLAYING" /\ CanStart(r, Connected))
<1> DEFINE moved == ApplyPending(r)
           now == [moved EXCEPT !.new_state = "NONE"]
<1>1. Moved(r, moved)
  BY OffsetSound
<1> HIDE DEF moved
<1>2. Kept(r, now) /\ now.state = r.state
  BY <1>1, FieldSound DEF Moved, Kept
<1> HIDE DEF now
<1>3. CASE r.new_state = "NONE"
  BY <1>2, <1>3 DEF Processed, now, moved
<1>4. CASE r.new_state # "NONE"
  <2>1. r.new_state \in PlayState
    BY <1>4 DEF Sound, SourceRecord
  <2>2. Processed(r) = SetSourceState(now, r.new_state, Connected)
    BY <1>4 DEF Processed, now, moved
  <2>3. CanStart(now, Connected) = CanStart(r, Connected)
    BY <1>2 DEF CanStart, Playable, Kept
  <2> QED
    BY <1>2, <2>1, <2>2, <2>3, SetSound DEF Kept
<1> QED
  BY <1>3, <1>4

-----------------------------------------------------------------------------
(* Counting a buffer in a queue and in all queues.                           *)

LEMMA CountType ==
  ASSUME NEW q \in Seq(Entry), NEW b
  PROVE  /\ IsFiniteSet(Indices(q, b)) /\ Count(q, b) = Cardinality(Indices(q, b))
         /\ Count(q, b) \in Nat
         /\ Count(q, b) = 0 <=> \A i \in 1 .. Len(q) : q[i] # b
<1>1. IsFiniteSet(1 .. Len(q))
  BY FS_Interval, LenProperties
<1>2. IsFiniteSet(Indices(q, b))
  BY <1>1, FS_Subset DEF Indices
<1>3. Count(q, b) = Cardinality(Indices(q, b))
  BY DEF Count, Indices
<1>4. Indices(q, b) = {} <=> \A i \in 1 .. Len(q) : q[i] # b
  BY DEF Indices
<1> QED
  BY <1>2, <1>3, <1>4, FS_CardinalityType, FS_EmptySet

LEMMA CountConcat ==
  ASSUME NEW q \in Seq(Entry), NEW r \in Seq(Entry), NEW b
  PROVE  Count(q \o r, b) = Count(q, b) + Count(r, b)
<1> DEFINE I == Indices(q, b)
           J == Indices(r, b)
           K == {i \in Len(q) + 1 .. Len(q) + Len(r) : r[i - Len(q)] = b}
           f == [j \in J |-> j + Len(q)]
<1>1. Len(q) \in Nat /\ Len(r) \in Nat
  BY LenProperties
<1>2. IsFiniteSet(I) /\ IsFiniteSet(J)
  BY CountType
<1>3. q \o r \in Seq(Entry) /\ Len(q \o r) = Len(q) + Len(r)
      /\ \A i \in 1 .. Len(q) + Len(r) : (q \o r)[i] = IF i <= Len(q) THEN q[i] ELSE r[i - Len(q)]
  BY ConcatProperties
<1>4. Indices(q \o r, b) = I \cup K /\ I \cap K = {}
  BY <1>1, <1>3 DEF Indices
<1>5. IsFiniteSet(K) /\ Cardinality(K) = Cardinality(J)
  <2>1. f \in [J -> K]
    BY <1>1 DEF Indices
  <2>2. \A i, j \in J : f[i] = f[j] => i = j
    BY <1>1 DEF Indices
  <2>3. \A k \in K : \E j \in J : f[j] = k
    <3> SUFFICES ASSUME NEW k \in K PROVE k - Len(q) \in J /\ f[k - Len(q)] = k
      OBVIOUS
    <3> QED
      BY <1>1 DEF Indices
  <2> HIDE DEF f, J, K
  <2>4. f \in Bijection(J, K)
    BY <2>1, <2>2, <2>3 DEF Bijection, Injection, Surjection, IsInjective
  <2>5. ExistsBijection(J, K)
    BY <2>4 DEF ExistsBijection
  <2> QED
    BY <1>2, <2>5, FS_Bijection
<1> HIDE DEF I, J, K
<1>6. Cardinality(I \cup K) = Cardinality(I) + Cardinality(K)
  <2>1. Cardinality(I \cup K) = Cardinality(I) + Cardinality(K) - Cardinality({})
    BY <1>2, <1>4, <1>5, FS_Union
  <2>2. Cardinality(I) \in Nat /\ Cardinality(K) \in Nat /\ Cardinality({}) = 0
    BY <1>2, <1>5, FS_CardinalityType, FS_EmptySet
  <2> QED
    BY <2>1, <2>2
<1>7. /\ Count(q \o r, b) = Cardinality(Indices(q \o r, b))
      /\ Count(q, b) = Cardinality(I) /\ Count(r, b) = Cardinality(J)
  BY <1>3, CountType DEF I, J
<1> QED
  BY <1>4, <1>5, <1>6, <1>7

LEMMA CountOne ==
  ASSUME NEW b
  PROVE  /\ Count(<<>>, b) = 0
         /\ \A e \in Entry : Count(<<e>>, b) = IF e = b THEN 1 ELSE 0
<1>1. Count(<<>>, b) = 0
  <2>1. {i \in 1 .. Len(<<>>) : <<>>[i] = b} = {}
    OBVIOUS
  <2> QED
    BY <2>1, FS_EmptySet DEF Count
<1>2. ASSUME NEW e \in Entry
      PROVE  Count(<<e>>, b) = IF e = b THEN 1 ELSE 0
  <2>1. {i \in 1 .. Len(<<e>>) : <<e>>[i] = b} = IF e = b THEN {1} ELSE {}
    OBVIOUS
  <2> QED
    BY <2>1, FS_Singleton, FS_EmptySet DEF Count
<1> QED
  BY <1>1, <1>2

(* The entries before and after a place.                                    *)
LEMMA Cut ==
  ASSUME NEW q \in Seq(Entry), NEW n \in 0 .. Len(q)
  PROVE  /\ SubSeq(q, 1, n) \in Seq(Entry) /\ SubSeq(q, n + 1, Len(q)) \in Seq(Entry)
         /\ Len(SubSeq(q, n + 1, Len(q))) = Len(q) - n
         /\ \A i \in 1 .. Len(q) - n : /\ SubSeq(q, n + 1, Len(q))[i] = q[i + n]
                                       /\ i + n \in 1 .. Len(q)
         /\ \A i \in 1 .. Len(SubSeq(q, 1, n)) : SubSeq(q, 1, n)[i] = q[i] /\ i \in 1 .. Len(q)
         /\ \A b : Count(q, b) = Count(SubSeq(q, 1, n), b) + Count(SubSeq(q, n + 1, Len(q)), b)
<1>1. Len(q) \in Nat /\ \A i \in 1 .. Len(q) : q[i] \in Entry
  BY LenProperties, ElementOfSeq
<1>2. /\ SubSeq(q, 1, n) \in Seq(Entry) /\ Len(SubSeq(q, 1, n)) = n
      /\ \A i \in 1 .. n : SubSeq(q, 1, n)[i] = q[i]
  BY <1>1, SubSeqProperties
<1>3. /\ SubSeq(q, n + 1, Len(q)) \in Seq(Entry) /\ Len(SubSeq(q, n + 1, Len(q))) = Len(q) - n
      /\ \A i \in 1 .. Len(q) - n : SubSeq(q, n + 1, Len(q))[i] = q[i + n]
  BY <1>1, SubSeqProperties
<1>4. SubSeq(q, 1, n) \o SubSeq(q, n + 1, Len(q)) = q
  <2>1. SubSeq(q, 1, n) \o SubSeq(q, n + 1, Len(q)) = SubSeq(q, 1, Len(q))
    <3>1. 1 \in 1 .. Len(q) + 1 /\ n \in 1 - 1 .. Len(q) /\ Len(q) \in n .. Len(q)
      BY <1>1
    <3> QED
      BY <3>1, ConcatAdjacentSubSeq
  <2> QED
    BY <2>1, SubSeqFull
<1>5. \A b : Count(q, b) = Count(SubSeq(q, 1, n), b) + Count(SubSeq(q, n + 1, Len(q)), b)
  BY <1>2, <1>3, <1>4, CountConcat, ZenonT(30)
<1> QED
  BY <1>1, <1>2, <1>3, <1>5

LEMMA SpotsFinite ==
  ASSUME NEW q \in [Source -> Seq(Entry)], NEW X \in SUBSET Source, NEW b
  PROVE  IsFiniteSet(SpotsOf(q, X, b))
<1> DEFINE f == [x \in X |-> {x} \X Indices(q[x], b)]
           T == {{x} \X Indices(q[x], b) : x \in X}
<1>1. IsFiniteSet(X)
  BY SourcesAssumption, FS_Subset
<1>2. f \in Surjection(X, T)
  BY DEF Surjection
<1>3. IsFiniteSet(T)
  BY ONLY <1>1, <1>2, FS_Surjection
<1>4. \A S \in T : IsFiniteSet(S)
  <2> SUFFICES ASSUME NEW x \in X
               PROVE  IsFiniteSet({x} \X Indices(q[x], b))
    OBVIOUS
  <2>1. IsFiniteSet({x}) /\ IsFiniteSet(Indices(q[x], b))
    BY FS_Singleton, CountType
  <2> QED
    BY <2>1, FS_Product
<1> HIDE DEF T
<1> QED
  BY <1>3, <1>4, FS_UNION DEF T, SpotsOf

(* One queue is replaced.                                                   *)
LEMMA SpotsChange ==
  ASSUME NEW q \in [Source -> Seq(Entry)], NEW s \in Source, NEW r \in Seq(Entry), NEW b
  PROVE  /\ Cardinality(Spots(q, b)) \in Nat
         /\ Cardinality(Spots([q EXCEPT ![s] = r], b))
            = Cardinality(Spots(q, b)) - Count(q[s], b) + Count(r, b)
<1> DEFINE At(l) == {s} \X Indices(l, b)
           Rest == SpotsOf(q, Source \ {s}, b)
<1>1. ASSUME NEW l \in Seq(Entry)
      PROVE  /\ IsFiniteSet(At(l)) /\ Cardinality(At(l)) = Count(l, b) /\ Count(l, b) \in Nat
             /\ Rest \cap At(l) = {}
             /\ IsFiniteSet(Rest \cup At(l))
             /\ Cardinality(Rest \cup At(l)) = Cardinality(Rest) + Count(l, b)
  <2>1. IsFiniteSet({s}) /\ Cardinality({s}) = 1
    BY FS_Singleton
  <2>2. IsFiniteSet(Indices(l, b)) /\ Count(l, b) = Cardinality(Indices(l, b)) /\ Count(l, b) \in Nat
    BY CountType
  <2>3. IsFiniteSet(At(l)) /\ Cardinality(At(l)) = Cardinality({s}) * Cardinality(Indices(l, b))
    BY <2>1, <2>2, FS_Product
  <2>4. Rest \cap At(l) = {}
    BY DEF SpotsOf
  <2>5. IsFiniteSet(Rest)
    BY SpotsFinite
  <2> DEFINE A == At(l)
  <2> HIDE DEF Rest, A
  <2>6. /\ IsFiniteSet(Rest \cup A)
        /\ Cardinality(Rest \cup A) = Cardinality(Rest) + Cardinality(A) - Cardinality(Rest \cap A)
    BY <2>3, <2>5, FS_Union DEF A
  <2>7. Cardinality(Rest) \in Nat /\ Cardinality(Rest \cap A) = 0
    BY <2>4, <2>5, FS_CardinalityType, FS_EmptySet DEF A
  <2>8. Cardinality(A) = Count(l, b)
    BY <2>1, <2>2, <2>3 DEF A
  <2> QED
    BY <2>2, <2>3, <2>4, <2>6, <2>7, <2>8 DEF A
<1>2. Spots(q, b) = Rest \cup At(q[s]) /\ Spots([q EXCEPT ![s] = r], b) = Rest \cup At(r)
  BY DEF Spots, SpotsOf
<1>3. q[s] \in Seq(Entry) /\ IsFiniteSet(Rest)
  BY SpotsFinite
<1> HIDE DEF Rest, At
<1>4. Cardinality(Rest) \in Nat
  BY <1>3, FS_CardinalityType
<1>5. Cardinality(Spots(q, b)) = Cardinality(Rest) + Count(q[s], b) /\ Count(q[s], b) \in Nat
  BY <1>1, <1>2, <1>3
<1>6. /\ Cardinality(Spots([q EXCEPT ![s] = r], b)) = Cardinality(Rest) + Count(r, b)
      /\ Count(r, b) \in Nat
  BY <1>1, <1>2
<1> QED
  BY <1>4, <1>5, <1>6

-----------------------------------------------------------------------------
(* What the calls on the queue make of one source.                          *)

LEMMA SetBufferSound ==
  ASSUME NEW r, Sound(r), r.state \notin Sounding, NEW e \in Entry
  PROVE  /\ Sound(SetBuffer(r, e)) /\ SetBuffer(r, e).state = r.state
         /\ SetBuffer(r, e).ready = r.ready /\ SetBuffer(r, e).crossed = r.crossed
         /\ SetBuffer(r, e).queue = (IF e = NoBuffer THEN <<>> ELSE <<e>>)
         /\ SetBuffer(r, e).queue \in Seq(Entry)
<1>0. r \in SourceRecord /\ <<>> \in Seq(Entry) /\ <<e>> \in Seq(Entry)
      /\ Len(<<>>) = 0 /\ Len(<<e>>) = 1 /\ <<e>>[1] = e
  BY DEF Sound
<1> DEFINE q == IF e = NoBuffer THEN <<>> ELSE <<e>>
           type == IF e = NoBuffer THEN "UNDETERMINED" ELSE "STATIC"
           k == IF e = NoBuffer THEN 0 ELSE 1
           m == [r EXCEPT !.BuffersPlayed = 0, !.lSourceType = type, !.queue = q,
                          !.BuffersInQueue = k]
<1>1. /\ q \in Seq(Entry) /\ Len(q) = k /\ k \in Nat /\ type \in SourceType
      /\ type = "STATIC" => Len(q) = 1 /\ q[1] # NoBuffer
  BY <1>0 DEF SourceType
<1>2. SetBuffer(r, e) = m
  BY DEF SetBuffer
<1> HIDE DEF q, k, type
<1>3. m \in SourceRecord
  BY <1>0, <1>1 DEF SourceRecord
<1>4. m.state = r.state /\ m.ready = r.ready /\ m.crossed = r.crossed
      /\ m.queue = q /\ m.BuffersInQueue = k /\ m.BuffersPlayed = 0
      /\ m.lSourceType = type
  BY <1>0 DEF SourceRecord
<1> HIDE DEF m
<1>5. Sound(m)
  BY <1>1, <1>3, <1>4 DEF Sound
<1> QED
  BY <1>1, <1>2, <1>4, <1>5 DEF q

LEMMA QueueSound ==
  ASSUME NEW r, Sound(r), r.lSourceType # "STATIC", NEW es \in Seq(Entry)
  PROVE  /\ Sound(Queue(r, es)) /\ Queue(r, es).state = r.state
         /\ Queue(r, es).ready = r.ready /\ Queue(r, es).crossed = r.crossed
         /\ Queue(r, es).queue = r.queue \o es
<1>0. r \in SourceRecord /\ r.queue \in Seq(Entry) /\ r.BuffersPlayed \in Nat
  BY DEF Sound, SourceRecord
<1> DEFINE q == r.queue \o es
           k == r.BuffersInQueue + Len(es)
           m == [r EXCEPT !.lSourceType = "STREAMING", !.queue = q, !.BuffersInQueue = k]
<1>1. /\ q \in Seq(Entry) /\ Len(q) = Len(r.queue) + Len(es)
      /\ Len(r.queue) \in Nat /\ Len(es) \in Nat
      /\ \A i \in 1 .. Len(r.queue) : q[i] = r.queue[i]
  <2>1. Len(r.queue) \in Nat /\ Len(es) \in Nat
    BY <1>0, LenProperties
  <2>2. q \in Seq(Entry) /\ Len(q) = Len(r.queue) + Len(es)
        /\ \A i \in 1 .. Len(r.queue) + Len(es) :
             q[i] = IF i <= Len(r.queue) THEN r.queue[i] ELSE es[i - Len(r.queue)]
    BY <1>0, ConcatProperties
  <2> HIDE DEF q
  <2> QED
    BY <2>1, <2>2
<1>2. Queue(r, es) = m
  BY DEF Queue
<1>3. k = Len(q) /\ k \in Nat /\ r.BuffersPlayed <= k
  BY <1>0, <1>1 DEF Sound
<1> HIDE DEF q, k
<1>4. m \in SourceRecord
  BY <1>0, <1>1, <1>3 DEF SourceRecord, SourceType
<1>5. m.state = r.state /\ m.ready = r.ready /\ m.crossed = r.crossed /\ m.queue = q /\ m.BuffersInQueue = k
      /\ m.BuffersPlayed = r.BuffersPlayed /\ m.lSourceType = "STREAMING"
  BY <1>0 DEF SourceRecord
<1> HIDE DEF m
<1>6. Ahead(r) => Ahead(m)
  <2> SUFFICES ASSUME NEW n \in r.BuffersPlayed + 1 .. Len(r.queue), Length(r.queue[n]) > 0
               PROVE  Ahead(m)
    BY DEF Ahead
  <2>1. n \in m.BuffersPlayed + 1 .. Len(m.queue) /\ m.queue[n] = r.queue[n]
    BY <1>0, <1>1, <1>5
  <2> QED
    BY <2>1 DEF Ahead
<1>7. Sound(m)
  BY <1>3, <1>4, <1>5, <1>6 DEF Sound
<1> QED
  BY <1>2, <1>5, <1>7 DEF q

LEMMA UnqueueSound ==
  ASSUME NEW r, Sound(r), NEW n \in Nat, CanUnqueue(r, n)
  PROVE  /\ Sound(Unqueue(r, n)) /\ Unqueue(r, n).state = r.state
         /\ Unqueue(r, n).ready = r.ready /\ Unqueue(r, n).crossed = r.crossed
         /\ Unqueue(r, n).queue = SubSeq(r.queue, n + 1, Len(r.queue))
         /\ n \in 0 .. Len(r.queue)
<1>0. /\ r \in SourceRecord /\ r.queue \in Seq(Entry) /\ Len(r.queue) \in Nat
      /\ r.BuffersPlayed \in Nat /\ r.BuffersInQueue = Len(r.queue)
      /\ n <= r.BuffersPlayed /\ r.BuffersPlayed <= Len(r.queue)
      /\ r.lSourceType = "STREAMING"
  BY LenProperties DEF Sound, SourceRecord, CanUnqueue
<1> DEFINE q == SubSeq(r.queue, n + 1, Len(r.queue))
           k == r.BuffersInQueue - n
           p == r.BuffersPlayed - n
           m == [r EXCEPT !.queue = q, !.BuffersInQueue = k, !.BuffersPlayed = p]
<1>1. /\ n \in 0 .. Len(r.queue)
      /\ q \in Seq(Entry) /\ Len(q) = Len(r.queue) - n
      /\ \A i \in 1 .. Len(r.queue) - n : q[i] = r.queue[i + n]
  <2>1. n \in 0 .. Len(r.queue)
    BY <1>0
  <2> QED
    BY <1>0, <2>1, Cut
<1>2. Unqueue(r, n) = m
  BY DEF Unqueue
<1>3. k = Len(q) /\ k \in Nat /\ p \in Nat /\ p <= k /\ p = r.BuffersPlayed - n
  BY <1>0, <1>1
<1> HIDE DEF q, k, p
<1>4. m \in SourceRecord
  BY <1>0, <1>1, <1>3 DEF SourceRecord
<1>5. m.state = r.state /\ m.ready = r.ready /\ m.crossed = r.crossed /\ m.queue = q /\ m.BuffersInQueue = k
      /\ m.BuffersPlayed = p /\ m.lSourceType = "STREAMING"
  BY <1>0 DEF SourceRecord
<1> HIDE DEF m
<1>6. Ahead(r) => Ahead(m)
  <2> SUFFICES ASSUME NEW j \in r.BuffersPlayed + 1 .. Len(r.queue), Length(r.queue[j]) > 0
               PROVE  Ahead(m)
    BY DEF Ahead
  <2>1. j - n \in p + 1 .. Len(q) /\ j - n \in 1 .. Len(r.queue) - n /\ (j - n) + n = j
    BY <1>0, <1>1, <1>3
  <2>2. q[j - n] = r.queue[j]
    BY <1>1, <2>1
  <2> QED
    BY <1>5, <2>1, <2>2 DEF Ahead
<1>7. Sound(m)
  BY <1>3, <1>4, <1>5, <1>6 DEF Sound
<1> QED
  BY <1>1, <1>2, <1>5, <1>7 DEF q

LEMMA InitSound ==
  /\ Sound(InitSourceParams) /\ InitSourceParams.queue = <<>>
  /\ InitSourceParams.state = "INITIAL"
<1>1. InitSourceParams \in SourceRecord
  BY DEF InitSourceParams, SourceRecord, PlayState, SourceType
<1> QED
  BY <1>1 DEF InitSourceParams, Sound, Sounding

-----------------------------------------------------------------------------
(* What the steps do.                                                       *)

(* The references of s change from its queue to q.                          *)
Recount(s, q) ==
  /\ ref' \in [Buffer -> Int]
  /\ \A b \in Buffer : ref'[b] = ref[b] - Count(src[s].queue, b) + Count(q, b)

LEMMA Recounted ==
  ASSUME RefsInv, SrcInv, NEW s \in Source, NEW gained \in Seq(Entry), NEW lost \in Seq(Entry),
         Reference(gained, lost), NEW q,
         \A b : Count(q, b) = Count(src[s].queue, b) + Count(gained, b) - Count(lost, b)
  PROVE  Recount(s, q)
<1>1. \A b : /\ Count(gained, b) \in Nat /\ Count(lost, b) \in Nat
             /\ Count(src[s].queue, b) \in Nat
  BY CountType DEF SrcInv, SourceRecord
<1> QED
  BY <1>1 DEF Recount, Reference, RefsInv

LEMMA Unreferenced ==
  ASSUME RefsInv, SrcInv, NEW s \in Source, ref' = ref
  PROVE  Recount(s, src[s].queue)
<1>1. \A b : Count(src[s].queue, b) \in Nat
  BY CountType DEF SrcInv, SourceRecord
<1> QED
  BY <1>1 DEF Recount, RefsInv

(* A call changes one source, and does not start it.                        *)
Edit(s, r) ==
  /\ Change(s, r) /\ Sound(r) /\ Recount(s, r.queue)
  /\ r.state = "PLAYING" => src[s].state = "PLAYING"
  /\ r.ready = src[s].ready /\ r.crossed = src[s].crossed

LEMMA EditIs ==
  ASSUME IInv, NEW s \in Source,
         \/ \E state \in {"PAUSED", "STOPPED", "INITIAL"} : Command(s, state)
         \/ \E e \in Entry : SourceBuffer(s, e)
         \/ \E es \in Batches : QueueBuffers(s, es)
         \/ \E n \in 1 .. MaxQueue : UnqueueBuffers(s, n)
         \/ \E looping \in Loopings : SourceLooping(s, looping)
         \/ \E offset \in Offsets : SourceOffset(s, offset)
  PROVE  \E r : Edit(s, r)
<1> DEFINE r == src[s]
<1>0. /\ RestOK /\ SrcInv /\ RefsInv /\ Sound(r) /\ r \in SourceRecord
      /\ r.queue \in Seq(Entry) /\ <<>> \in Seq(Entry) /\ \A e \in Entry : <<e>> \in Seq(Entry)
      /\ \A b : Count(<<>>, b) = 0 /\ Count(r.queue, b) \in Nat
  <2>1. Sound(r) /\ r \in SourceRecord /\ r.queue \in Seq(Entry)
    BY DEF IInv, SrcInv, SourceRecord
  <2> QED
    BY <2>1, CountType, CountOne DEF IInv
<1> HIDE DEF r
<1>1. ASSUME NEW state \in {"PAUSED", "STOPPED", "INITIAL"}, Command(s, state)
      PROVE  \E m : Edit(s, m)
  <2> DEFINE m == IF DeferUpdates THEN [r EXCEPT !.new_state = state]
                  ELSE SetSourceState(r, state, Connected)
  <2>1. Change(s, m) /\ ref' = ref
    BY <1>0, <1>1 DEF Command, Change, SrcInv, r
  <2>2. Kept(r, m) /\ (m.state = "PLAYING" => r.state = "PLAYING")
    <3>1. state \in PlayState /\ state # "PLAYING" /\ Connected \in BOOLEAN
      BY <1>0 DEF PlayState, RestOK
    <3> QED
      BY <1>0, <3>1, FieldSound, SetSound
  <2> HIDE DEF m
  <2> QED
    BY <1>0, <2>1, <2>2, Unreferenced DEF Edit, Kept, r
<1>2. ASSUME NEW e \in Entry, SourceBuffer(s, e)
      PROVE  \E m : Edit(s, m)
  <2> DEFINE m == SetBuffer(r, e)
             q == IF e = NoBuffer THEN <<>> ELSE <<e>>
  <2>1. Change(s, m) /\ Reference(q, r.queue) /\ r.state \notin Sounding
    BY <1>2 DEF SourceBuffer, r, Sounding
  <2>2. Sound(m) /\ m.state = r.state /\ m.ready = r.ready /\ m.crossed = r.crossed
        /\ m.queue = q /\ q \in Seq(Entry)
    BY <1>0, <2>1, SetBufferSound
  <2> HIDE DEF m, q
  <2>3. \A b : Count(q, b) \in Nat
    BY <2>2, CountType
  <2>4. Recount(s, q)
    BY <1>0, <2>1, <2>2, <2>3, Recounted DEF r
  <2> QED
    BY <2>1, <2>2, <2>4 DEF Edit, r
<1>3. ASSUME NEW es \in Batches, QueueBuffers(s, es)
      PROVE  \E m : Edit(s, m)
  <2> DEFINE m == Queue(r, es)
  <2>1. Change(s, m) /\ Reference(es, <<>>) /\ r.lSourceType # "STATIC"
    BY <1>3 DEF QueueBuffers, r
  <2>2. es \in Seq(Entry)
    BY SourcesAssumption
  <2>3. Sound(m) /\ m.state = r.state /\ m.ready = r.ready /\ m.crossed = r.crossed /\ m.queue = r.queue \o es
    BY <1>0, <2>1, <2>2, QueueSound
  <2>4. \A b : Count(r.queue \o es, b) = Count(r.queue, b) + Count(es, b) /\ Count(es, b) \in Nat
    BY <1>0, <2>2, CountConcat, CountType
  <2> HIDE DEF m
  <2>5. Recount(s, r.queue \o es)
    <3>1. \A b : Count(r.queue \o es, b) = Count(r.queue, b) + Count(es, b) - Count(<<>>, b)
      BY <1>0, <2>4
    <3> DEFINE q == r.queue \o es
               none == <<>>
    <3>2. \A b : Count(q, b) = Count(src[s].queue, b) + Count(es, b) - Count(none, b)
      BY <3>1 DEF r
    <3>3. Reference(es, none) /\ none \in Seq(Entry)
      BY <1>0, <2>1
    <3> HIDE DEF q, none
    <3>4. Recount(s, q)
      BY <1>0, <2>2, <3>2, <3>3, Recounted
    <3> QED
      BY <3>4 DEF q
  <2> QED
    BY <2>1, <2>3, <2>5 DEF Edit, r
<1>4. ASSUME NEW n \in 1 .. MaxQueue, UnqueueBuffers(s, n)
      PROVE  \E m : Edit(s, m)
  <2> DEFINE m == Unqueue(r, n)
             q == SubSeq(r.queue, n + 1, Len(r.queue))
             out == SubSeq(r.queue, 1, n)
  <2>1. Change(s, m) /\ Reference(<<>>, out) /\ CanUnqueue(r, n)
    BY <1>4 DEF UnqueueBuffers, r
  <2>2. n \in Nat
    BY SourcesAssumption
  <2>3. Sound(m) /\ m.state = r.state /\ m.ready = r.ready /\ m.crossed = r.crossed
        /\ m.queue = q /\ n \in 0 .. Len(r.queue)
    BY <1>0, <2>1, <2>2, UnqueueSound
  <2>4. /\ out \in Seq(Entry) /\ q \in Seq(Entry)
        /\ \A b : Count(r.queue, b) = Count(out, b) + Count(q, b)
    BY <1>0, <2>3, Cut
  <2> HIDE DEF m, q, out
  <2>5. \A b : Count(q, b) \in Nat /\ Count(out, b) \in Nat
    BY <2>4, CountType
  <2>6. Recount(s, q)
    <3>1. \A b : Count(q, b) = Count(r.queue, b) + Count(<<>>, b) - Count(out, b)
      BY <1>0, <2>4, <2>5
    <3> DEFINE none == <<>>
    <3>2. \A b : Count(q, b) = Count(src[s].queue, b) + Count(none, b) - Count(out, b)
      BY <3>1 DEF r
    <3>3. Reference(none, out) /\ none \in Seq(Entry)
      BY <1>0, <2>1
    <3> HIDE DEF none
    <3> QED
      BY <1>0, <2>4, <3>2, <3>3, Recounted
  <2> QED
    BY <2>1, <2>3, <2>6 DEF Edit, r
<1>5. ASSUME NEW looping \in Loopings, SourceLooping(s, looping)
      PROVE  \E m : Edit(s, m)
  <2> DEFINE m == [r EXCEPT !.bLooping = looping]
  <2>1. Change(s, m) /\ ref' = ref
    BY <1>5 DEF SourceLooping, r
  <2>2. Kept(r, m) /\ m.state = r.state
    BY <1>0, SourcesAssumption, FieldSound
  <2> HIDE DEF m
  <2> QED
    BY <1>0, <2>1, <2>2, Unreferenced DEF Edit, Kept, r
<1>6. ASSUME NEW offset \in Offsets, SourceOffset(s, offset)
      PROVE  \E m : Edit(s, m)
  <2> DEFINE k == [r EXCEPT !.lOffset = offset]
             m == IF k.state \in {"PLAYING", "PAUSED"} /\ ~DeferUpdates THEN ApplyOffset(k) ELSE k
  <2>1. Change(s, m) /\ ref' = ref
    BY <1>6 DEF SourceOffset, r
  <2>2. Kept(r, k) /\ k.state = r.state
    BY <1>0, SourcesAssumption, FieldSound
  <2> HIDE DEF k
  <2>3. Kept(r, m) /\ m.state = r.state
    BY <2>2, OffsetSound DEF Kept, Moved
  <2> HIDE DEF m
  <2> QED
    BY <1>0, <2>1, <2>3, Unreferenced DEF Edit, Kept, r
<1> QED
  BY <1>1, <1>2, <1>3, <1>4, <1>5, <1>6

(* A call or a backend changes many sources, and their queues stay.         *)
Sweep ==
  /\ Unlocked /\ RestOK'
  /\ UNCHANGED <<SourceMap, ref, mixer, arg>>
  /\ \A t \in Thread : /\ Deleting(t)' <=> Deleting(t)
                       /\ pc'[t] = "removed" <=> pc[t] = "removed"
  /\ src' = [s \in Source |-> src'[s]]
  /\ \A s \in Source :
       /\ Sound(src'[s]) /\ src'[s].queue = src[s].queue
       /\ Settled(src[s]) => Settled(src'[s])
       /\ s \notin Allocated => src'[s] = src[s]
       /\ s \in SourceMap /\ src'[s].state = "PLAYING" => s \in ActiveSources'
  /\ ActiveSources' \subseteq ActiveSources \cup SourceMap

(* alProcessUpdatesSOFT: what it makes of each source, whether it crosses a *)
(* deferral or not.                                                         *)
LEMMA ProcessedKept ==
  ASSUME IInv, NEW t \in Thread, ProcessApply(t), NEW s \in Source
  PROVE  /\ Sound(src'[s]) /\ src'[s].queue = src[s].queue
         /\ Settled(src[s]) => Settled(src'[s])
         /\ s \notin SourceMap => src'[s] = src[s]
         /\ s \in SourceMap /\ src'[s].state = "PLAYING" =>
              \/ src[s].state = "PLAYING"
              \/ /\ src[s].new_state = "PLAYING" /\ CanStart(src[s], Connected)
                 /\ DeferUpdates => Settled(src'[s])
<1> DEFINE r == src[s]
           p == Processed(r)
           c == r.crossed \/ Crossed(r)
           m == [p EXCEPT !.crossed = c]
<1>1. Sound(r) /\ Connected \in BOOLEAN /\ DeferUpdates \in BOOLEAN /\ r.crossed \in BOOLEAN
  BY DEF IInv, SrcInv, RestOK, Sound, SourceRecord
<1>2. CASE s \notin SourceMap
  BY <1>1, <1>2 DEF ProcessApply
<1>3. CASE s \in SourceMap
  <2>1. Kept(r, p) /\ (p.state = "PLAYING" =>
          r.state = "PLAYING" \/ (r.new_state = "PLAYING" /\ CanStart(r, Connected)))
    BY <1>1, ProcessedSound
  <2>2. src'[s] = m
    <3>1. p.crossed = r.crossed
      BY <2>1 DEF Kept
    <3> QED
      BY <1>3, <3>1 DEF ProcessApply
  <2>3. c \in BOOLEAN
    BY <1>1 DEF Crossed
  <2> HIDE DEF p, c
  <2>4. /\ m \in SourceRecord /\ m.queue = p.queue /\ m.state = p.state /\ m.ready = p.ready
        /\ m.crossed = c /\ m.BuffersPlayed = p.BuffersPlayed
        /\ m.BuffersInQueue = p.BuffersInQueue /\ m.lSourceType = p.lSourceType
    <3>1. p \in SourceRecord
      BY <2>1 DEF Kept, Sound
    <3> QED
      BY <2>3, <3>1 DEF SourceRecord
  <2> HIDE DEF m
  <2>5. Sound(m)
    BY <2>1, <2>4 DEF Kept, Sound, Ahead
  <2>6. c <=> (r.crossed \/ Crossed(r))
    BY <1>1 DEF c
  <2> QED
    BY <1>3, <2>1, <2>2, <2>4, <2>5, <2>6 DEF Kept, Settled, Crossed
<1> QED
  BY <1>2, <1>3

LEMMA SweepIs ==
  ASSUME IInv,
         \/ \E S \in SUBSET Source : Play(S)
         \/ \E t \in Thread : DeferApply(t) \/ ProcessApply(t)
         \/ HandleDisconnect
  PROVE  Sweep
<1>0. /\ RestOK /\ SrcInv /\ ListInv /\ DOMAIN src = Source
      /\ \A s \in Source : Sound(src[s]) /\ src[s].new_state \in PlayState \cup {"NONE"}
      /\ SourceMap \subseteq Allocated /\ Listable \subseteq Allocated
      /\ Connected \in BOOLEAN
  BY DEF IInv, SrcInv, RestOK, SourceRecord, Listable, Allocated, Deleting
<1>1. ASSUME NEW S \in SUBSET Source, Play(S)
      PROVE  Sweep
  <2>1. MaxActiveSources' \in Nat
    <3>1. PICK k \in {1, 2, 4, 8, 16} : MaxActiveSources' = MaxActiveSources * k
      BY <1>1 DEF Play, GrowActive
    <3> QED
      BY <1>0, <3>1 DEF RestOK
  <2>2. S \subseteq SourceMap /\ Unlocked
        /\ UNCHANGED <<SourceMap, DeferUpdates, Connected, ref, mixer, pc, arg>>
    BY <1>1 DEF Play
  <2>3. CASE DeferUpdates
    <3>1. /\ src' = [s \in Source |-> src'[s]] /\ ActiveSources' = ActiveSources
          /\ \A s \in Source : src'[s] = IF s \in S THEN [src[s] EXCEPT !.new_state = "PLAYING"]
                                         ELSE src[s]
      BY <1>1, <2>3 DEF Play
    <3>2. \A s \in Source : /\ Kept(src[s], src'[s]) /\ src'[s].state = src[s].state
                            /\ s \notin S => src'[s] = src[s]
      <4>1. "PLAYING" \in PlayState
        BY DEF PlayState
      <4>2. \A s \in Source : Kept(src[s], src[s])
        BY <1>0 DEF Kept
      <4>3. ASSUME NEW s \in S
            PROVE  Kept(src[s], src'[s]) /\ src'[s].state = src[s].state
        <5> DEFINE r == src[s]
                   m == [r EXCEPT !.new_state = "PLAYING"]
        <5>1. Sound(r) /\ src'[s] = m
          BY <1>0, <3>1, <4>3
        <5> HIDE DEF r
        <5>2. Kept(r, m) /\ m.state = r.state
          BY <4>1, <5>1, FieldSound
        <5> QED
          BY <5>1, <5>2 DEF r
      <4> QED
        BY <3>1, <4>2, <4>3
    <3> QED
      BY <1>0, <2>1, <2>2, <3>1, <3>2 DEF Sweep, Kept, Settled, RestOK, ListInv, Deleting
  <2>4. CASE ~DeferUpdates
    <3>1. /\ src' = [s \in Source |-> src'[s]]
          /\ \A s \in Source : src'[s] = IF s \in S THEN SetSourceState(src[s], "PLAYING", Connected)
                                         ELSE src[s]
          /\ ActiveSources' = ActiveSources \cup {s \in S : CanStart(src[s], Connected)}
      BY <1>1, <2>4 DEF Play, Activate
    <3>2. \A s \in Source : /\ Kept(src[s], src'[s])
                            /\ s \notin S => src'[s] = src[s]
                            /\ s \in S /\ src'[s].state = "PLAYING" => CanStart(src[s], Connected)
      <4>1. "PLAYING" \in PlayState
        BY DEF PlayState
      <4>2. \A s \in Source : Kept(src[s], src[s])
        BY <1>0 DEF Kept
      <4> QED
        BY <1>0, <3>1, <4>1, <4>2, SetSound
    <3> QED
      BY <1>0, <2>1, <2>2, <3>1, <3>2 DEF Sweep, Kept, Settled, RestOK, ListInv, Deleting
  <2> QED
    BY <2>3, <2>4
<1>2. ASSUME NEW t \in Thread, DeferApply(t)
      PROVE  Sweep
  <2>1. /\ pc[t] = "defer" /\ Unlocked /\ DeferUpdates' = TRUE
        /\ ActiveSources' = Playing(ActiveSources) /\ pc' = [pc EXCEPT ![t] = "idle"]
        /\ UNCHANGED <<SourceMap, MaxActiveSources, Connected, ref, mixer, arg>>
        /\ src' = [s \in Source |-> src'[s]]
        /\ \A s \in Source : src'[s] = IF s \in Playing(ActiveSources) THEN Update(src[s])
                                       ELSE src[s]
    BY <1>2 DEF DeferApply
  <2>2. \A s \in Source : /\ Sound(src'[s]) /\ src'[s].queue = src[s].queue
                          /\ src'[s].state = src[s].state /\ (Settled(src[s]) => Settled(src'[s]))
                          /\ s \notin Playing(ActiveSources) => src'[s] = src[s]
    BY <1>0, <2>1, FieldSound
  <2> QED
    BY <1>0, <2>1, <2>2 DEF Sweep, RestOK, ListInv, Deleting, Playing
<1>3. ASSUME NEW t \in Thread, ProcessApply(t)
      PROVE  Sweep
  <2>1. /\ pc[t] = "process" /\ Unlocked
        /\ ActiveSources' = ActiveSources \cup
             {s \in SourceMap : src[s].new_state = "PLAYING" /\ CanStart(src[s], Connected)}
        /\ pc' = [pc EXCEPT ![t] = "idle"]
        /\ UNCHANGED <<SourceMap, MaxActiveSources, DeferUpdates, Connected, ref, mixer, arg>>
        /\ src' = [s \in Source |-> src'[s]]
    BY <1>3 DEF ProcessApply, Activate
  <2> QED
    BY <1>0, <1>3, <2>1, ProcessedKept DEF Sweep, RestOK, ListInv, Deleting
<1>4. CASE HandleDisconnect
  <2>1. /\ Unlocked /\ Connected' = FALSE /\ src' = [s \in Source |-> src'[s]]
        /\ UNCHANGED <<SourceMap, ActiveSources, MaxActiveSources, DeferUpdates, ref, mixer, pc, arg>>
        /\ \A s \in Source : src'[s] = IF s \in SourceMap THEN Disconnect(src[s]) ELSE src[s]
    BY <1>4 DEF HandleDisconnect
  <2>2. \A s \in Source : /\ Kept(src[s], src'[s])
                          /\ s \notin SourceMap => src'[s] = src[s]
                          /\ s \in SourceMap => src'[s].state # "PLAYING"
    <3>1. \A s \in Source : Kept(src[s], src[s])
      BY <1>0 DEF Kept
    <3> QED
      BY <1>0, <2>1, <3>1, StopSound
  <2> QED
    BY <1>0, <2>1, <2>2 DEF Sweep, Kept, Settled, RestOK, Deleting
<1> QED
  BY <1>1, <1>2, <1>3, <1>4

-----------------------------------------------------------------------------
(* What the mixer does to the source it mixes.                              *)

(* Where the source and the mixer's copies stand at the end of a block.     *)
LEMMA CurrentIs ==
  ASSUME IInv, mixer.at \in {"mix", "cross"}
  PROVE  /\ mixer.s \in Source /\ Sound(src[mixer.s]) /\ src[mixer.s].state = "PLAYING"
         /\ mixer.BuffersPlayed + 1 \in 1 .. Len(src[mixer.s].queue)
         /\ Len(src[mixer.s].queue) \in Nat
         /\ Current \in Entry /\ Length(Current) \in Nat
         /\ Static => Current \in Buffer /\ Size[Current] > 0
<1>1. /\ mixer.s \in Source /\ Sound(src[mixer.s]) /\ src[mixer.s].state = "PLAYING"
      /\ mixer.BuffersPlayed < Len(src[mixer.s].queue) /\ mixer.BuffersPlayed \in Nat
      /\ src[mixer.s].queue \in Seq(Entry)
  BY DEF IInv, MixInv, RestOK, SrcInv, MixerRecord, SourceRecord
<1>2. /\ Len(src[mixer.s].queue) \in Nat
      /\ mixer.BuffersPlayed + 1 \in 1 .. Len(src[mixer.s].queue)
  BY <1>1, LenProperties
<1>3. Current \in Entry /\ Length(Current) \in Nat
  BY <1>1, <1>2, ElementOfSeq, LengthIs DEF Current
<1>4. Static => Current \in Buffer /\ Size[Current] > 0
  <2> SUFFICES ASSUME Static
               PROVE  Current \in Buffer /\ Size[Current] > 0
    OBVIOUS
  <2>1. Len(src[mixer.s].queue) = 1 /\ src[mixer.s].queue[1] # NoBuffer
    BY <1>1 DEF Static, Sound
  <2>2. Current = src[mixer.s].queue[1]
    BY <1>1, <2>1 DEF Current
  <2>3. Length(src[mixer.s].queue[1]) > 0
    <3>1. PICK n \in src[mixer.s].BuffersPlayed + 1 .. Len(src[mixer.s].queue) :
            Length(src[mixer.s].queue[n]) > 0
      BY <1>1 DEF Sound, Sounding, Ahead
    <3>2. src[mixer.s].BuffersPlayed \in Nat
      BY <1>1 DEF Sound, SourceRecord
    <3>3. n = 1
      BY <2>1, <3>2
    <3> QED
      BY <3>1, <3>3
  <2> QED
    BY <1>3, <2>1, <2>2, <2>3, LengthIs
<1> QED
  BY <1>1, <1>2, <1>3, <1>4

(* The loop ends where there is sound.                                      *)
LEMMA PlacedIs ==
  ASSUME IInv, mixer.at = "cross"
  PROVE  /\ Inside => Length(Current) > 0
         /\ StaticLoop => Length(Current) > 0 /\ LoopPosition(Current, mixer.DataPosInt) \in Nat
         /\ PastLoop => Length(Current) > 0
         /\ Beyond => mixer.DataPosInt - Length(Current) \in Nat
<1>0. /\ Current \in Entry /\ Length(Current) \in Nat /\ mixer.DataPosInt \in Nat
      /\ Static => Current \in Buffer /\ Size[Current] > 0
  BY CurrentIs DEF IInv, MixInv, MixerRecord
<1>1. ASSUME Inside
      PROVE  Length(Current) > 0
  <2>1. Current \in Buffer /\ mixer.DataPosInt < LoopEnd[Current]
    BY <1>0, <1>1, LengthIs DEF Inside
  <2>2. Size[Current] # 0 /\ Size[Current] \in Nat
    BY <1>0, <2>1, BufferAssumption
  <2> QED
    BY <2>1, <2>2, LengthIs
<1>2. ASSUME StaticLoop
      PROVE  Length(Current) > 0 /\ LoopPosition(Current, mixer.DataPosInt) \in Nat
  <2>1. Current \in Buffer /\ Size[Current] > 0 /\ Current # NoBuffer
    BY <1>0, <1>2, LengthIs DEF StaticLoop
  <2>2. /\ LoopStart[Current] < LoopEnd[Current]
        /\ LoopStart[Current] \in Nat /\ LoopEnd[Current] \in Nat /\ Size[Current] \in Nat
    BY <2>1, BufferAssumption
  <2> DEFINE d == LoopEnd[Current] - LoopStart[Current]
             x == mixer.DataPosInt - LoopStart[Current]
  <2>3. d \in Nat /\ d > 0 /\ x \in Int
    BY <1>0, <2>2
  <2> HIDE DEF d, x
  <2>4. x % d \in Nat
    BY <2>3
  <2>5. LoopPosition(Current, mixer.DataPosInt) = LoopStart[Current] + (x % d)
    BY DEF LoopPosition, d, x
  <2> QED
    BY <2>1, <2>2, <2>4, <2>5, LengthIs
<1>3. PastLoop => Length(Current) > 0
  BY <1>0 DEF PastLoop
<1>4. Beyond => mixer.DataPosInt - Length(Current) \in Nat
  BY <1>0 DEF Beyond
<1> QED
  BY <1>1, <1>2, <1>3, <1>4

(* The local copies m are written back, or another block follows.           *)
Left ==
  /\ mixer' \in MixerRecord /\ mixer'.todo = mixer.todo /\ mixer'.defer = mixer.defer
  /\ \/ /\ src' = src /\ mixer'.at = "mix" /\ mixer'.s = mixer.s
        /\ mixer'.state = "PLAYING" /\ mixer'.BuffersPlayed = mixer.BuffersPlayed
     \/ /\ mixer'.at = "visit"
        /\ \E r : src' = [src EXCEPT ![mixer.s] = r] /\ Kept(src[mixer.s], r)

LEMMA LeaveIs ==
  ASSUME IInv, mixer.at = "cross", NEW m \in MixerRecord, Leave(m),
         m.s = mixer.s, m.todo = mixer.todo, m.defer = mixer.defer,
         \/ /\ m.state = "PLAYING" /\ m.BuffersPlayed = mixer.BuffersPlayed
            /\ Length(Current) > 0
         \/ m.state = "STOPPED" /\ m.BuffersPlayed = src[mixer.s].BuffersInQueue
  PROVE  Left
<1> DEFINE s == mixer.s
           r == src[s]
           w == [r EXCEPT !.state = m.state, !.BuffersPlayed = m.BuffersPlayed,
                          !.position = m.DataPosInt]
<1>1. /\ s \in Source /\ src \in [Source -> SourceRecord] /\ Sound(r)
      /\ mixer.BuffersPlayed + 1 \in 1 .. Len(r.queue)
      /\ Current = r.queue[mixer.BuffersPlayed + 1]
      /\ mixer.BuffersPlayed \in Nat /\ Len(r.queue) \in Nat /\ mixer \in MixerRecord
  BY CurrentIs DEF IInv, SrcInv, MixInv, MixerRecord, Current
<1>2. CASE m.state = "PLAYING" /\ m.left > 0
  <2>1. mixer' = [m EXCEPT !.at = "mix"] /\ src' = src
    BY <1>2 DEF Leave
  <2> QED
    BY <1>2, <2>1 DEF Left, MixerRecord
<1>3. CASE ~(m.state = "PLAYING" /\ m.left > 0)
  <2>1. /\ src' = [src EXCEPT ![m.s].state = m.state, ![m.s].BuffersPlayed = m.BuffersPlayed,
                              ![m.s].position = m.DataPosInt]
        /\ mixer' = [MixerOut EXCEPT !.at = "visit", !.todo = m.todo, !.defer = m.defer]
    BY <1>3 DEF Leave
  <2>2. src' = [src EXCEPT ![s] = w]
    BY <1>1, <2>1
  <2>3. mixer' \in MixerRecord /\ mixer'.at = "visit" /\ mixer'.todo = mixer.todo
        /\ mixer'.defer = mixer.defer
    <3>1. SamplesToDo \in Nat /\ 0 \in 0 .. SamplesToDo
      BY SourcesAssumption
    <3> QED
      BY <2>1, <3>1 DEF MixerOut, MixerRecord
  <2>4. Kept(r, w)
    <3>1. /\ r \in SourceRecord /\ m.state \in {"PLAYING", "STOPPED"}
          /\ m.BuffersPlayed \in Nat /\ m.DataPosInt \in Nat
      BY <1>1 DEF Sound, MixerRecord
    <3> HIDE DEF r, s
    <3>2. w \in SourceRecord
      BY ONLY <3>1 DEF SourceRecord, PlayState
    <3>3. /\ w.queue = r.queue /\ w.ready = r.ready /\ w.crossed = r.crossed /\ w.state = m.state
          /\ w.BuffersInQueue = r.BuffersInQueue /\ w.lSourceType = r.lSourceType
          /\ w.BuffersPlayed = m.BuffersPlayed
      BY ONLY <3>1 DEF SourceRecord
    <3>4. CASE m.state = "STOPPED"
      <4>1. w.BuffersPlayed = r.BuffersInQueue /\ r.BuffersInQueue \in Nat
        BY <3>3, <3>1, <3>4 DEF SourceRecord, r, s
      <4> HIDE DEF w
      <4> QED
        BY <1>1, <3>2, <3>3, <3>4, <4>1 DEF Kept, Sound, Sounding
    <3>5. CASE m.state = "PLAYING"
      <4>1. m.BuffersPlayed = mixer.BuffersPlayed /\ Length(Current) > 0
        BY <3>5
      <4> HIDE DEF w
      <4>2. Ahead(w) /\ w.BuffersPlayed <= Len(r.queue)
        BY <1>1, <3>3, <4>1 DEF Ahead
      <4> QED
        BY <1>1, <3>2, <3>3, <4>2 DEF Kept, Sound
    <3> QED
      BY <3>1, <3>4, <3>5
  <2> HIDE DEF w
  <2> QED
    BY <2>2, <2>3, <2>4 DEF Left
<1> QED
  BY <1>2, <1>3

LEMMA MixLeaveIs ==
  ASSUME IInv, MixLeave
  PROVE  /\ UNCHANGED <<SourceMap, ActiveSources, MaxActiveSources, DeferUpdates, Connected,
                        ref, pc, arg>>
         /\ Left
<1>0. mixer.at = "cross" /\ mixer \in MixerRecord /\ mixer.state = "PLAYING"
  BY DEF MixLeave, IInv, MixInv
<1>1. CASE (Inside \/ PastLoop) /\ Leave(mixer)
  <2>1. Length(Current) > 0
    BY <1>0, <1>1, PlacedIs
  <2>2. Left
    BY <1>0, <1>1, <2>1, LeaveIs
  <2> QED
    BY <2>2 DEF MixLeave
<1>2. CASE StaticLoop /\ Leave([mixer EXCEPT !.DataPosInt = LoopPosition(Current, @)])
  <2> DEFINE p == LoopPosition(Current, mixer.DataPosInt)
             m == [mixer EXCEPT !.DataPosInt = p]
  <2>1. p \in Nat /\ Length(Current) > 0
    BY <1>0, <1>2, PlacedIs
  <2>2. Leave(m)
    BY <1>2
  <2> HIDE DEF p
  <2>3. m \in MixerRecord /\ m.s = mixer.s /\ m.todo = mixer.todo /\ m.defer = mixer.defer
        /\ m.state = "PLAYING" /\ m.BuffersPlayed = mixer.BuffersPlayed
    BY <1>0, <2>1 DEF MixerRecord
  <2> HIDE DEF m
  <2>4. Left
    BY <1>0, <2>1, <2>2, <2>3, LeaveIs
  <2> QED
    BY <2>4 DEF MixLeave
<1>3. CASE Leave([mixer EXCEPT !.state = "STOPPED", !.DataPosInt = 0,
                               !.BuffersPlayed = src[mixer.s].BuffersInQueue])
  <2> DEFINE k == src[mixer.s].BuffersInQueue
             m == [mixer EXCEPT !.state = "STOPPED", !.DataPosInt = 0, !.BuffersPlayed = k]
  <2>1. k \in Nat
    BY <1>0, CurrentIs DEF Sound, SourceRecord
  <2>2. Leave(m)
    BY <1>3
  <2> HIDE DEF k
  <2>3. m \in MixerRecord /\ m.s = mixer.s /\ m.todo = mixer.todo /\ m.defer = mixer.defer
        /\ m.state = "STOPPED" /\ m.BuffersPlayed = k
    BY <1>0, <2>1 DEF MixerRecord
  <2> HIDE DEF m
  <2>4. Left
    BY <1>0, <2>2, <2>3, LeaveIs DEF k
  <2> QED
    BY <2>4 DEF MixLeave
<1> QED
  BY <1>1, <1>2, <1>3 DEF MixLeave

-----------------------------------------------------------------------------
(* The steps that keep the invariant.                                       *)

LEMMA StepIs ==
  ASSUME IInv, [Next]_vars
  PROVE  \/ \E s \in Source : \/ \E r : Edit(s, r)
                              \/ GenSource(s) \/ MixDrop(s) \/ MixSource(s)
                              \/ \E t \in Thread : RemoveSource(t, s)
         \/ \E t \in Thread : PurgeSource(t) \/ FreeSource(t) \/ DeferTest(t) \/ ProcessClear(t)
         \/ Sweep \/ MixBegin \/ MixBlock \/ MixNext \/ MixLeave \/ MixEnd \/ UNCHANGED vars
<1>1. ASSUME NEW s \in Source,
             \/ \E state \in {"PAUSED", "STOPPED", "INITIAL"} : Command(s, state)
             \/ \E e \in Entry : SourceBuffer(s, e)
             \/ \E es \in Batches : QueueBuffers(s, es)
             \/ \E n \in 1 .. MaxQueue : UnqueueBuffers(s, n)
             \/ \E looping \in Loopings : SourceLooping(s, looping)
             \/ \E offset \in Offsets : SourceOffset(s, offset)
      PROVE  \E r : Edit(s, r)
  BY <1>1, EditIs
<1>2. ASSUME \/ \E S \in SUBSET Source : Play(S)
             \/ \E t \in Thread : DeferApply(t) \/ ProcessApply(t)
             \/ HandleDisconnect
      PROVE  Sweep
  BY <1>2, SweepIs
<1> QED
  BY <1>1, <1>2 DEF Next, Call, Mixer

LEMMA RestStep ==
  ASSUME IInv, [Next]_vars
  PROVE  RestOK'
<1> USE DEF RestOK
<1>0. RestOK
  BY DEF IInv
<1>1. ASSUME NEW s \in Source, NEW r, Edit(s, r)
      PROVE  RestOK'
  BY <1>0, <1>1 DEF Edit, Change
<1>2. ASSUME NEW s \in Source, GenSource(s) \/ MixDrop(s) \/ MixSource(s)
      PROVE  RestOK'
  BY <1>0, <1>2 DEF GenSource, MixDrop, MixSource
<1>3. ASSUME NEW s \in Source, NEW t \in Thread, RemoveSource(t, s)
      PROVE  RestOK'
  BY <1>0, <1>3 DEF RemoveSource
<1>4. ASSUME NEW t \in Thread,
             PurgeSource(t) \/ FreeSource(t) \/ DeferTest(t) \/ ProcessClear(t)
      PROVE  RestOK'
  BY <1>0, <1>4 DEF PurgeSource, Purge, FreeSource, DeferTest, ProcessClear
<1>5. CASE Sweep
  BY <1>5 DEF Sweep
<1>6. CASE MixBegin \/ MixBlock \/ MixNext \/ MixEnd \/ UNCHANGED vars
  BY <1>0, <1>6 DEF MixBegin, MixBlock, MixNext, MixEnd, vars
<1>7. CASE MixLeave
  BY <1>0, <1>7, MixLeaveIs
<1> QED
  BY <1>1, <1>2, <1>3, <1>4, <1>5, <1>6, <1>7, StepIs

(* One source is replaced.                                                  *)
LEMMA Replaced ==
  ASSUME SrcInv, NEW s \in Source, NEW r, Sound(r), src' = [src EXCEPT ![s] = r]
  PROVE  SrcInv' /\ src'[s] = r /\ \A x \in Source \ {s} : src'[x] = src[x]
  BY DEF SrcInv, Sound

LEMMA SrcStep ==
  ASSUME IInv, [Next]_vars
  PROVE  SrcInv'
<1>0. SrcInv /\ RestOK
  BY DEF IInv
<1>1. ASSUME NEW s \in Source, NEW r, Edit(s, r)
      PROVE  SrcInv'
  BY <1>0, <1>1, Replaced DEF Edit, Change
<1>2. ASSUME NEW s \in Source, GenSource(s)
      PROVE  SrcInv'
  BY <1>0, <1>2, Replaced, InitSound DEF GenSource
<1>3. ASSUME NEW s \in Source, MixSource(s)
      PROVE  SrcInv'
  <2>1. src' = src \/ src' = [src EXCEPT ![s] = Update(src[s])]
    BY <1>3 DEF MixSource
  <2>2. Sound(src[s]) /\ Sound(Update(src[s]))
    BY <1>0, FieldSound DEF SrcInv
  <2>3. CASE src' = src
    BY <1>0, <2>3 DEF SrcInv
  <2>4. CASE src' = [src EXCEPT ![s] = Update(src[s])]
    BY <1>0, <2>2, <2>4, Replaced
  <2> QED
    BY <2>1, <2>3, <2>4
<1>4. ASSUME NEW t \in Thread, FreeSource(t)
      PROVE  SrcInv'
  <2>1. arg[t] \in Source /\ src' = [src EXCEPT ![arg[t]] = InitSourceParams]
    BY <1>4 DEF FreeSource, IInv, OwnInv, Deleting
  <2> QED
    BY <1>0, <2>1, Replaced, InitSound
<1>5. CASE Sweep
  BY <1>5 DEF Sweep, SrcInv, Sound
<1>6. CASE MixLeave
  <2>1. mixer.s \in Source /\ Left
    BY <1>6, MixLeaveIs, CurrentIs DEF MixLeave
  <2>2. CASE src' = src
    BY <1>0, <2>2 DEF SrcInv
  <2>3. ASSUME NEW r, src' = [src EXCEPT ![mixer.s] = r], Kept(src[mixer.s], r)
        PROVE  SrcInv'
    BY <1>0, <2>1, <2>3, Replaced DEF Kept
  <2> QED
    BY <2>1, <2>2, <2>3 DEF Left
<1>7. CASE src' = src
  BY <1>0, <1>7 DEF SrcInv
<1>8. \/ \E s \in Source : (\E r : Edit(s, r)) \/ GenSource(s) \/ MixSource(s)
      \/ \E t \in Thread : FreeSource(t)
      \/ Sweep \/ MixLeave \/ src' = src
  BY StepIs DEF MixDrop, RemoveSource, PurgeSource, DeferTest, ProcessClear, MixBegin,
                MixBlock, MixNext, MixEnd, vars
<1> QED
  BY <1>1, <1>2, <1>3, <1>4, <1>5, <1>6, <1>7, <1>8

(* What has a name, or is to leave the list, has memory.                    *)
LEMMA ListableIs ==
  ASSUME IInv
  PROVE  /\ Listable \subseteq Allocated /\ ActiveSources \subseteq Allocated
         /\ SourceMap \subseteq Allocated /\ mixer.todo \subseteq ActiveSources
         /\ mixer.at \in {"mix", "cross"} => mixer.s \in ActiveSources /\ mixer.s \in Source
  BY CurrentIs DEF IInv, ListInv, MixInv, Listable, Allocated, Deleting

(* The steps that make, name or delete no source; those that change fields  *)
(* change them of sources that have memory.                                 *)
Named ==
  /\ UNCHANGED <<SourceMap, arg>>
  /\ \A t \in Thread : Deleting(t)' <=> Deleting(t)
  /\ \A s \in Source \ Allocated : src'[s] = src[s]

LEMMA OwnStep ==
  ASSUME IInv, [Next]_vars
  PROVE  OwnInv'
<1>0. /\ \A t \in Thread : Deleting(t) => arg[t] \in Source \ SourceMap
      /\ \A t, u \in Thread : Deleting(t) /\ Deleting(u) /\ arg[t] = arg[u] => t = u
      /\ \A s \in Source \ Allocated : src[s] = InitSourceParams
      /\ pc \in [Thread -> {"idle", "defer", "process", "removed", "purged"}]
      /\ arg \in [Thread -> Source \cup {NoSource}] /\ src \in [Source -> SourceRecord]
  BY DEF IInv, OwnInv, RestOK, SrcInv
<1>1. CASE Named
  <2>1. Allocated' = Allocated
    BY <1>1 DEF Named, Allocated
  <2> QED
    BY <1>0, <1>1, <2>1 DEF Named, OwnInv
<1>2. ASSUME NEW s \in Source, NEW r, Edit(s, r)
      PROVE  OwnInv'
  <2>1. Named
    BY <1>0, <1>2, ListableIs DEF Edit, Change, Named, Deleting
  <2> QED
    BY <1>1, <2>1
<1>3. ASSUME NEW s \in Source, GenSource(s)
      PROVE  OwnInv'
  <2>1. /\ s \notin Allocated /\ SourceMap' = SourceMap \cup {s} /\ pc' = pc /\ arg' = arg
        /\ src' = [src EXCEPT ![s] = InitSourceParams]
    BY <1>3 DEF GenSource
  <2>2. \A t \in Thread : (Deleting(t)' <=> Deleting(t)) /\ (Deleting(t) => arg[t] # s)
    BY <2>1 DEF Deleting, Allocated
  <2>3. Allocated' = Allocated \cup {s}
    BY <2>1, <2>2 DEF Allocated
  <2> QED
    BY <1>0, <2>1, <2>2, <2>3 DEF OwnInv
<1>4. ASSUME NEW s \in Source, NEW t \in Thread, RemoveSource(t, s)
      PROVE  OwnInv'
  <2>1. /\ pc[t] = "idle" /\ s \in SourceMap /\ SourceMap' = SourceMap \ {s}
        /\ pc' = [pc EXCEPT ![t] = "removed"] /\ arg' = [arg EXCEPT ![t] = s] /\ src' = src
    BY <1>4 DEF RemoveSource
  <2>2. /\ ~Deleting(t) /\ Deleting(t)' /\ arg'[t] = s
        /\ \A u \in Thread \ {t} : /\ Deleting(u)' <=> Deleting(u)
                                   /\ arg'[u] = arg[u]
                                   /\ Deleting(u) => arg[u] # s
    BY <1>0, <2>1 DEF Deleting
  <2>3. Allocated \subseteq Allocated'
    BY <2>1, <2>2 DEF Allocated
  <2> QED
    BY <1>0, <2>1, <2>2, <2>3 DEF OwnInv
<1>5. ASSUME NEW t \in Thread, FreeSource(t)
      PROVE  OwnInv'
  <2>1. /\ pc[t] = "purged" /\ src' = [src EXCEPT ![arg[t]] = InitSourceParams]
        /\ pc' = [pc EXCEPT ![t] = "idle"] /\ arg' = [arg EXCEPT ![t] = NoSource]
        /\ SourceMap' = SourceMap
    BY <1>5 DEF FreeSource
  <2>2. /\ Deleting(t) /\ ~Deleting(t)' /\ arg[t] \in Source
        /\ \A u \in Thread \ {t} : /\ Deleting(u)' <=> Deleting(u)
                                   /\ arg'[u] = arg[u]
    BY <1>0, <2>1 DEF Deleting
  <2>3. Allocated \subseteq Allocated' \cup {arg[t]}
    BY <2>1, <2>2 DEF Allocated
  <2> QED
    BY <1>0, <2>1, <2>2, <2>3 DEF OwnInv
<1>6. ASSUME NEW t \in Thread, PurgeSource(t) \/ DeferTest(t) \/ ProcessClear(t)
      PROVE  OwnInv'
  <2>1. Named
    BY <1>0, <1>6 DEF PurgeSource, DeferTest, ProcessClear, Named, Deleting
  <2> QED
    BY <1>1, <2>1
<1>7. ASSUME NEW s \in Source, MixDrop(s) \/ MixSource(s)
      PROVE  OwnInv'
  <2>1. s \in mixer.todo /\ UNCHANGED <<SourceMap, arg, pc>>
        /\ (src' = src \/ src' = [src EXCEPT ![s] = Update(src[s])])
    BY <1>7 DEF MixDrop, MixSource
  <2>2. Named
    BY <1>0, <2>1, ListableIs DEF Named, Deleting
  <2> QED
    BY <1>1, <2>2
<1>8. CASE Sweep
  <2>1. Named
    BY <1>8 DEF Sweep, Named
  <2> QED
    BY <1>1, <2>1
<1>9. CASE MixLeave
  <2>1. UNCHANGED <<SourceMap, arg, pc>> /\ mixer.s \in Allocated
        /\ (src' = src \/ \E r : src' = [src EXCEPT ![mixer.s] = r])
    BY <1>9, MixLeaveIs, ListableIs DEF MixLeave, Left
  <2>2. Named
    BY <1>0, <2>1 DEF Named, Deleting
  <2> QED
    BY <1>1, <2>2
<1>10. CASE MixBegin \/ MixBlock \/ MixNext \/ MixEnd \/ UNCHANGED vars
  <2>1. Named
    BY <1>10 DEF MixBegin, MixBlock, MixNext, MixEnd, vars, Named, Deleting
  <2> QED
    BY <1>1, <2>1
<1> QED
  BY <1>2, <1>3, <1>4, <1>5, <1>6, <1>7, <1>8, <1>9, <1>10, StepIs
LEMMA ListStep ==
  ASSUME IInv, [Next]_vars
  PROVE  ListInv'
<1>0. /\ \A s \in SourceMap : src[s].state = "PLAYING" => s \in ActiveSources
      /\ ActiveSources \subseteq Listable
      /\ SourceMap \subseteq Source
      /\ pc \in [Thread -> {"idle", "defer", "process", "removed", "purged"}]
      /\ arg \in [Thread -> Source \cup {NoSource}] /\ src \in [Source -> SourceRecord]
      /\ \A s \in Source : Sound(src[s])
  BY DEF IInv, ListInv, RestOK, SrcInv
<1> DEFINE Same == UNCHANGED <<SourceMap, arg>> /\ \A t \in Thread : pc'[t] = "removed" <=> pc[t] = "removed"
<1>1. Same => Listable' = Listable
  BY DEF Listable
<1>2. ASSUME Same, UNCHANGED ActiveSources,
             \A s \in SourceMap : src'[s].state = "PLAYING" => src[s].state = "PLAYING" \/ s \in ActiveSources
      PROVE  ListInv'
  BY <1>0, <1>1, <1>2 DEF ListInv
<1>3. ASSUME NEW s \in Source, NEW r, Edit(s, r)
      PROVE  ListInv'
  <2>1. /\ Same /\ UNCHANGED ActiveSources
        /\ \A x \in SourceMap : src'[x].state = "PLAYING" => src[x].state = "PLAYING"
    BY <1>0, <1>3 DEF Edit, Change
  <2> QED
    BY <1>2, <2>1
<1>4. ASSUME NEW s \in Source, GenSource(s)
      PROVE  ListInv'
  BY <1>0, <1>4, InitSound DEF GenSource, ListInv, Listable
<1>5. ASSUME NEW s \in Source, NEW t \in Thread, RemoveSource(t, s)
      PROVE  ListInv'
  <2>1. /\ pc[t] = "idle" /\ SourceMap' = SourceMap \ {s}
        /\ pc' = [pc EXCEPT ![t] = "removed"] /\ arg' = [arg EXCEPT ![t] = s]
        /\ UNCHANGED <<src, ActiveSources>>
    BY <1>5 DEF RemoveSource
  <2>2. /\ pc'[t] = "removed" /\ arg'[t] = s
        /\ \A u \in Thread : pc[u] = "removed" => pc'[u] = "removed" /\ arg'[u] = arg[u]
    BY <1>0, <2>1
  <2>3. Listable \subseteq Listable'
    BY <2>1, <2>2 DEF Listable
  <2> QED
    BY <1>0, <2>1, <2>3 DEF ListInv
<1>6. ASSUME NEW t \in Thread, PurgeSource(t)
      PROVE  ListInv'
  <2>1. /\ pc[t] = "removed" /\ ActiveSources' = ActiveSources \ {arg[t]}
        /\ pc' = [pc EXCEPT ![t] = "purged"] /\ UNCHANGED <<SourceMap, src, arg>>
    BY <1>6 DEF PurgeSource, Purge
  <2>2. arg[t] \notin SourceMap
    BY <2>1 DEF IInv, OwnInv, Deleting
  <2>3. \A u \in Thread \ {t} : pc[u] = "removed" => pc'[u] = "removed"
    BY <1>0, <2>1
  <2>4. Listable \subseteq Listable' \cup {arg[t]}
    BY <2>1, <2>3 DEF Listable
  <2> QED
    BY <1>0, <2>1, <2>2, <2>4 DEF ListInv
<1>7. ASSUME NEW t \in Thread, FreeSource(t)
      PROVE  ListInv'
  <2>1. /\ pc[t] = "purged" /\ pc' = [pc EXCEPT ![t] = "idle"]
        /\ arg' = [arg EXCEPT ![t] = NoSource] /\ src' = [src EXCEPT ![arg[t]] = InitSourceParams]
        /\ UNCHANGED <<SourceMap, ActiveSources>>
    BY <1>7 DEF FreeSource
  <2>2. arg[t] \notin SourceMap
    BY <2>1 DEF IInv, OwnInv, Deleting
  <2>3. \A u \in Thread : pc[u] = "removed" => pc'[u] = "removed" /\ arg'[u] = arg[u]
    BY <1>0, <2>1
  <2>4. Listable \subseteq Listable'
    BY <2>1, <2>3 DEF Listable
  <2> QED
    BY <1>0, <2>1, <2>2, <2>4 DEF ListInv
<1>8. ASSUME NEW t \in Thread, DeferTest(t) \/ ProcessClear(t)
      PROVE  ListInv'
  <2>1. Same /\ UNCHANGED <<ActiveSources, src>>
    BY <1>0, <1>8 DEF DeferTest, ProcessClear
  <2> QED
    BY <1>2, <2>1
<1>9. ASSUME NEW s \in Source, MixDrop(s)
      PROVE  ListInv'
  <2>1. Same /\ ActiveSources' = ActiveSources \ {s} /\ src[s].state # "PLAYING" /\ src' = src
    BY <1>9 DEF MixDrop
  <2> QED
    BY <1>0, <1>1, <2>1 DEF ListInv
<1>10. ASSUME NEW s \in Source, MixSource(s)
       PROVE  ListInv'
  <2>1. Same /\ UNCHANGED ActiveSources
        /\ (src' = src \/ src' = [src EXCEPT ![s] = Update(src[s])])
    BY <1>10 DEF MixSource
  <2>2. Update(src[s]).state = src[s].state
    BY <1>0, FieldSound
  <2>3. \A x \in SourceMap : src'[x].state = src[x].state
    BY <1>0, <2>1, <2>2
  <2> QED
    BY <1>2, <2>1, <2>3
<1>11. CASE Sweep
  <2>1. Same /\ ActiveSources' \subseteq ActiveSources \cup SourceMap
        /\ \A s \in SourceMap : src'[s].state = "PLAYING" => s \in ActiveSources'
    BY <1>0, <1>11 DEF Sweep
  <2>2. SourceMap \subseteq Listable
    BY DEF Listable
  <2> QED
    BY <1>0, <1>1, <2>1, <2>2 DEF ListInv
<1>12. CASE MixLeave
  <2>1. Same /\ UNCHANGED ActiveSources /\ mixer.s \in ActiveSources
        /\ (src' = src \/ \E r : src' = [src EXCEPT ![mixer.s] = r])
    BY <1>12, MixLeaveIs, ListableIs DEF MixLeave, Left
  <2>2. \A x \in SourceMap : src'[x].state = "PLAYING" => src[x].state = "PLAYING" \/ x \in ActiveSources
    BY <1>0, <2>1
  <2> QED
    BY <1>2, <2>1, <2>2
<1>13. CASE MixBegin \/ MixBlock \/ MixNext \/ MixEnd \/ UNCHANGED vars
  <2>1. Same /\ UNCHANGED <<ActiveSources, src>>
    BY <1>13 DEF MixBegin, MixBlock, MixNext, MixEnd, vars
  <2> QED
    BY <1>2, <2>1
<1> QED
  BY <1>3, <1>4, <1>5, <1>6, <1>7, <1>8, <1>9, <1>10, <1>11, <1>12, <1>13, StepIs
LEMMA OutIs ==
  MixerOut \in MixerRecord /\ MixerOut.at = "out" /\ MixerOut.todo = {}
<1>1. SamplesToDo \in Nat
  BY SourcesAssumption
<1> QED
  BY <1>1 DEF MixerOut, MixerRecord

(* What is about to be freed is not on the mixer's list.                    *)
LEMMA PurgedIs ==
  ASSUME IInv, NEW t \in Thread, pc[t] = "purged"
  PROVE  arg[t] \in Source /\ arg[t] \notin ActiveSources
<1>1. arg[t] \in Source \ SourceMap
  BY DEF IInv, OwnInv, Deleting
<1>2. \A u \in Thread : pc[u] = "removed" => arg[u] # arg[t]
  BY DEF IInv, OwnInv, Deleting
<1> QED
  BY <1>1, <1>2 DEF IInv, ListInv, Listable

(* A step of a call that the mixer may be in the middle of.                 *)
LEMMA MixKept ==
  ASSUME IInv, UNCHANGED <<ActiveSources, mixer>>,
         \A s \in ActiveSources : src'[s] = src[s]
  PROVE  MixInv'
  BY DEF IInv, MixInv

(* A call that has the mutex.                                               *)
LEMMA MixAway ==
  ASSUME IInv, Unlocked, UNCHANGED mixer
  PROVE  MixInv'
  BY DEF IInv, MixInv, Unlocked

LEMMA MixSourceIs ==
  ASSUME IInv, NEW s \in Source, MixSource(s)
  PROVE  MixInv'
<1> DEFINE r == src[s]
<1>1. /\ mixer.at = "visit" /\ s \in ActiveSources /\ mixer.todo \subseteq ActiveSources
      /\ mixer \in MixerRecord /\ r.state = "PLAYING" /\ Sound(r) /\ SamplesToDo \in Nat
      /\ src \in [Source -> SourceRecord]
  BY SourcesAssumption DEF IInv, MixInv, SrcInv, MixSource
<1>2. /\ r.BuffersPlayed \in Nat /\ r.position \in Nat /\ r.bLooping \in BOOLEAN
      /\ Len(r.queue) \in Nat
  BY <1>1, LenProperties DEF Sound, SourceRecord
<1>3. r.BuffersPlayed < Len(r.queue)
  BY <1>1, <1>2 DEF Sound, Sounding, Ahead
<1>4. src'[s].queue = r.queue /\ src'[s].state = "PLAYING"
  <2>1. Update(r).queue = r.queue /\ Update(r).state = r.state
    BY <1>1, FieldSound
  <2> QED
    BY <1>1, <2>1 DEF MixSource
<1>5. /\ mixer' = [mixer EXCEPT !.at = "mix", !.todo = @ \ {s}, !.s = s, !.state = "PLAYING",
                                !.BuffersPlayed = r.BuffersPlayed, !.DataPosInt = r.position,
                                !.Looping = r.bLooping, !.left = SamplesToDo]
      /\ UNCHANGED ActiveSources
  BY DEF MixSource
<1> HIDE DEF r
<1>6. /\ mixer' \in MixerRecord /\ mixer'.at = "mix" /\ mixer'.todo \subseteq ActiveSources
      /\ mixer'.s = s /\ mixer'.state = "PLAYING" /\ mixer'.BuffersPlayed = r.BuffersPlayed
  <2> DEFINE todo == mixer.todo \ {s}
             played == r.BuffersPlayed
             pos == r.position
             loops == r.bLooping
  <2>1. todo \in SUBSET Source /\ todo \subseteq ActiveSources
    BY <1>1 DEF MixerRecord
  <2>2. mixer' = [mixer EXCEPT !.at = "mix", !.todo = todo, !.s = s, !.state = "PLAYING",
                               !.BuffersPlayed = played, !.DataPosInt = pos,
                               !.Looping = loops, !.left = SamplesToDo]
    BY <1>1, <1>5 DEF MixerRecord
  <2>3. played \in Nat /\ pos \in Nat /\ loops \in BOOLEAN /\ SamplesToDo \in 0 .. SamplesToDo
    BY <1>1, <1>2
  <2> HIDE DEF todo, played, pos, loops
  <2>4. /\ mixer' \in MixerRecord /\ mixer'.at = "mix" /\ mixer'.todo = todo
        /\ mixer'.s = s /\ mixer'.state = "PLAYING" /\ mixer'.BuffersPlayed = played
    BY <1>1, <2>1, <2>2, <2>3 DEF MixerRecord
  <2> QED
    BY <2>1, <2>4 DEF played
<1> QED
  BY <1>1, <1>3, <1>4, <1>5, <1>6 DEF MixInv

LEMMA MixStep ==
  ASSUME IInv, [Next]_vars
  PROVE  MixInv'
<1>0. /\ MixInv /\ mixer \in MixerRecord /\ src \in [Source -> SourceRecord]
      /\ ActiveSources \subseteq Source /\ SamplesToDo \in Nat
  BY SourcesAssumption DEF IInv, MixInv, SrcInv, RestOK
<1>1. ASSUME NEW s \in Source, NEW r, Edit(s, r)
      PROVE  MixInv'
  BY <1>1, MixAway DEF Edit, Change
<1>2. ASSUME NEW s \in Source, GenSource(s)
      PROVE  MixInv'
  <2>1. \A x \in ActiveSources : src'[x] = src[x]
    BY <1>0, <1>2, ListableIs DEF GenSource
  <2> QED
    BY <1>2, <2>1, MixKept DEF GenSource
<1>3. ASSUME NEW s \in Source, NEW t \in Thread, RemoveSource(t, s)
      PROVE  MixInv'
  BY <1>3, MixKept DEF RemoveSource
<1>4. ASSUME NEW t \in Thread, PurgeSource(t)
      PROVE  MixInv'
  BY <1>4, MixAway DEF PurgeSource
<1>5. ASSUME NEW t \in Thread, FreeSource(t)
      PROVE  MixInv'
  <2>1. \A x \in ActiveSources : src'[x] = src[x]
    BY <1>0, <1>5, PurgedIs DEF FreeSource
  <2> QED
    BY <1>5, <2>1, MixKept DEF FreeSource
<1>6. ASSUME NEW t \in Thread, DeferTest(t) \/ ProcessClear(t)
      PROVE  MixInv'
  BY <1>6, MixKept DEF DeferTest, ProcessClear
<1>7. CASE Sweep
  BY <1>7, MixAway DEF Sweep
<1>8. CASE MixBegin
  <2>1. mixer' = [MixerOut EXCEPT !.at = "visit", !.todo = ActiveSources, !.defer = DeferUpdates]
        /\ UNCHANGED ActiveSources /\ DeferUpdates \in BOOLEAN
    BY <1>8 DEF MixBegin, IInv, RestOK
  <2>2. mixer' \in MixerRecord /\ mixer'.at = "visit" /\ mixer'.todo = ActiveSources
    BY <1>0, <2>1, OutIs DEF MixerRecord
  <2> QED
    BY <2>1, <2>2 DEF MixInv
<1>9. ASSUME NEW s \in Source, MixDrop(s)
      PROVE  MixInv'
  <2>1. mixer.at = "visit" /\ mixer' = [mixer EXCEPT !.todo = @ \ {s}]
        /\ ActiveSources' = ActiveSources \ {s}
    BY <1>9 DEF MixDrop
  <2>2. mixer' \in MixerRecord /\ mixer'.at = "visit" /\ mixer'.todo = mixer.todo \ {s}
    BY <1>0, <2>1 DEF MixerRecord
  <2> QED
    BY <1>0, <2>1, <2>2 DEF MixInv
<1>10. ASSUME NEW s \in Source, MixSource(s)
       PROVE  MixInv'
  BY <1>10, MixSourceIs
<1>11. CASE MixBlock
  <2>1. PICK k \in 1 .. mixer.left, d \in Advances :
          mixer' = [mixer EXCEPT !.at = "cross", !.left = @ - k, !.DataPosInt = @ + d,
                                 !.Looping = @ /\ (Static => mixer.DataPosInt < LoopEnd[Current])]
    BY <1>11 DEF MixBlock
  <2> DEFINE loops == mixer.Looping /\ (Static => mixer.DataPosInt < LoopEnd[Current])
             left == mixer.left - k
             pos == mixer.DataPosInt + d
  <2>2. left \in 0 .. SamplesToDo /\ pos \in Nat /\ loops \in BOOLEAN
    BY <1>0, SourcesAssumption DEF MixerRecord
  <2>3. mixer' = [mixer EXCEPT !.at = "cross", !.left = left, !.DataPosInt = pos, !.Looping = loops]
    BY <1>0, <2>1 DEF MixerRecord
  <2> HIDE DEF left, pos, loops
  <2>4. /\ mixer' \in MixerRecord /\ mixer'.at = "cross" /\ mixer'.todo = mixer.todo
        /\ mixer'.s = mixer.s /\ mixer'.state = mixer.state
        /\ mixer'.BuffersPlayed = mixer.BuffersPlayed
    BY <1>0, <2>2, <2>3 DEF MixerRecord
  <2>5. mixer.at = "mix" /\ UNCHANGED <<src, ActiveSources>>
    BY <1>11 DEF MixBlock
  <2> QED
    BY <1>0, <2>4, <2>5 DEF MixInv
<1>12. CASE MixNext
  <2> DEFINE played == IF HasNext THEN mixer.BuffersPlayed + 1 ELSE 0
             pos == mixer.DataPosInt - Length(Current)
  <2>1. mixer.at = "cross" /\ UNCHANGED <<src, ActiveSources>> /\ Beyond
        /\ mixer' = [mixer EXCEPT !.BuffersPlayed = played, !.DataPosInt = pos]
    BY <1>0, <1>12 DEF MixNext, Passed, MixerRecord
  <2>2. pos \in Nat
    BY <2>1, PlacedIs
  <2>3. played \in Nat /\ played < Len(src[mixer.s].queue)
    BY <1>0, <2>1, CurrentIs DEF MixerRecord, HasNext
  <2> HIDE DEF played, pos
  <2>4. /\ mixer' \in MixerRecord /\ mixer'.at = "cross" /\ mixer'.todo = mixer.todo
        /\ mixer'.s = mixer.s /\ mixer'.state = mixer.state /\ mixer'.BuffersPlayed = played
    BY <1>0, <2>1, <2>2, <2>3 DEF MixerRecord
  <2> QED
    BY <1>0, <2>1, <2>3, <2>4 DEF MixInv
<1>13. CASE MixLeave
  <2>1. UNCHANGED ActiveSources /\ Left /\ mixer.at = "cross"
    BY <1>13, MixLeaveIs DEF MixLeave
  <2> QED
    BY <1>0, <2>1 DEF Left, MixInv
<1>14. CASE MixEnd
  BY <1>14, OutIs DEF MixEnd, MixInv
<1>15. CASE UNCHANGED vars
  BY <1>0, <1>15 DEF vars, MixInv
<1> QED
  BY <1>1, <1>2, <1>3, <1>4, <1>5, <1>6, <1>7, <1>8, <1>9, <1>10, <1>11, <1>12, <1>13, <1>14,
     <1>15, StepIs

(* The references of one source are recounted.                              *)
LEMMA RefsChange ==
  ASSUME SrcInv, RefsInv, NEW s \in Source, NEW r, Sound(r),
         src' = [src EXCEPT ![s] = r], Recount(s, r.queue)
  PROVE  RefsInv'
<1>1. Queues \in [Source -> Seq(Entry)] /\ r.queue \in Seq(Entry) /\ Queues[s] = src[s].queue
  BY DEF Queues, SrcInv, Sound, SourceRecord
<1>2. Queues' = [Queues EXCEPT ![s] = r.queue]
  BY DEF Queues, SrcInv
<1> DEFINE q == r.queue
<1> HIDE DEF q
<1>3. ASSUME NEW b \in Buffer
      PROVE  ref'[b] = Cardinality(Spots(Queues', b))
  <2>1. Cardinality(Spots([Queues EXCEPT ![s] = q], b))
        = Cardinality(Spots(Queues, b)) - Count(Queues[s], b) + Count(q, b)
    BY <1>1, SpotsChange DEF q
  <2>2. ref'[b] = ref[b] - Count(Queues[s], b) + Count(q, b) /\ ref[b] = Cardinality(Spots(Queues, b))
    BY <1>1 DEF Recount, RefsInv, q
  <2> QED
    BY <1>2, <2>1, <2>2 DEF q
<1>4. ref' \in [Buffer -> Int] /\ \A b : Spots(Queues', b) = Spots(Queues, b)'
  BY DEF Recount, Spots, SpotsOf, Queues
<1> QED
  BY <1>3, <1>4 DEF RefsInv

LEMMA RefsStep ==
  ASSUME IInv, [Next]_vars
  PROVE  RefsInv'
<1>0. SrcInv /\ RefsInv /\ src \in [Source -> SourceRecord] /\ \A s \in Source : Sound(src[s])
  BY DEF IInv, SrcInv
<1>1. ASSUME ref' = ref, \A s \in Source : src'[s].queue = src[s].queue
      PROVE  RefsInv'
  <2>1. Queues' = Queues
    BY <1>1 DEF Queues
  <2> QED
    BY <1>0, <1>1, <2>1 DEF RefsInv, Spots, SpotsOf
<1>2. ASSUME NEW s \in Source, NEW r, Edit(s, r)
      PROVE  RefsInv'
  BY <1>0, <1>2, RefsChange DEF Edit, Change
<1>3. ASSUME NEW s \in Source, GenSource(s)
      PROVE  RefsInv'
  <2>1. src[s] = InitSourceParams
    BY <1>3 DEF GenSource, IInv, OwnInv
  <2> QED
    BY <1>0, <1>1, <1>3, <2>1 DEF GenSource
<1>4. ASSUME NEW t \in Thread, FreeSource(t)
      PROVE  RefsInv'
  <2> DEFINE none == <<>>
             q == src[arg[t]].queue
  <2>1. /\ arg[t] \in Source /\ Reference(none, q)
        /\ src' = [src EXCEPT ![arg[t]] = InitSourceParams]
    BY <1>4, PurgedIs DEF FreeSource
  <2>2. none \in Seq(Entry) /\ q \in Seq(Entry) /\ (\A b : Count(none, b) = 0)
        /\ InitSourceParams.queue = none /\ Sound(InitSourceParams)
    BY <1>0, <2>1, CountOne, InitSound DEF SourceRecord
  <2> HIDE DEF none
  <2>3. \A b : Count(none, b) = Count(q, b) + Count(none, b) - Count(q, b)
    BY <2>2, CountType
  <2>4. Recount(arg[t], none)
    BY <1>0, <2>1, <2>2, <2>3, Recounted
  <2> QED
    BY <1>0, <2>1, <2>2, <2>4, RefsChange
<1>5. CASE Sweep
  BY <1>1, <1>5 DEF Sweep
<1>6. ASSUME NEW s \in Source, MixSource(s)
      PROVE  RefsInv'
  <2>1. ref' = ref /\ (src' = src \/ src' = [src EXCEPT ![s] = Update(src[s])])
    BY <1>6 DEF MixSource
  <2>2. Update(src[s]).queue = src[s].queue
    BY <1>0, FieldSound
  <2> QED
    BY <1>0, <1>1, <2>1, <2>2
<1>7. CASE MixLeave
  <2>1. ref' = ref /\ Left /\ mixer.s \in Source
    BY <1>7, MixLeaveIs, ListableIs DEF MixLeave
  <2>2. CASE src' = src
    BY <1>1, <2>1, <2>2
  <2>3. ASSUME NEW r, src' = [src EXCEPT ![mixer.s] = r], Kept(src[mixer.s], r)
        PROVE  RefsInv'
    BY <1>0, <1>1, <2>1, <2>3 DEF Kept
  <2> QED
    BY <2>1, <2>2, <2>3 DEF Left
<1>8. CASE UNCHANGED <<src, ref>>
  BY <1>1, <1>8
<1>9. \/ \E s \in Source : (\E r : Edit(s, r)) \/ GenSource(s) \/ MixSource(s)
      \/ \E t \in Thread : FreeSource(t)
      \/ Sweep \/ MixLeave \/ UNCHANGED <<src, ref>>
  BY StepIs DEF MixDrop, RemoveSource, PurgeSource, DeferTest, ProcessClear, MixBegin,
                MixBlock, MixNext, MixEnd, vars
<1> QED
  BY <1>2, <1>3, <1>4, <1>5, <1>6, <1>7, <1>8, <1>9

LEMMA InitInv ==
  ASSUME Init
  PROVE  IInv
<1> USE DEF Init
<1>1. RestOK
  BY SourcesAssumption DEF RestOK
<1>2. SrcInv
  BY InitSound DEF SrcInv, Sound
<1>3. OwnInv /\ ListInv
  BY InitSound DEF OwnInv, ListInv, Deleting, Listable
<1>4. MixInv
  BY OutIs DEF MixInv
<1>5. RefsInv
  <2>1. ASSUME NEW b \in Buffer
        PROVE  Spots(Queues, b) = {}
    <3>1. \A s \in Source : Queues[s] = <<>> /\ Indices(Queues[s], b) = {}
      BY InitSound DEF Queues, Indices
    <3> QED
      BY <3>1 DEF Spots, SpotsOf
  <2> QED
    BY <2>1, FS_EmptySet DEF RefsInv
<1> QED
  BY <1>1, <1>2, <1>3, <1>4, <1>5 DEF IInv

(* The invariant holds throughout.                                          *)
LEMMA Invariant == Spec => []IInv
<1>1. Init => IInv
  BY InitInv
<1>2. IInv /\ [Next]_vars => IInv'
  <2> SUFFICES ASSUME IInv, [Next]_vars
               PROVE  IInv'
    OBVIOUS
  <2> QED
    BY RestStep, SrcStep, OwnStep, ListStep, MixStep, RefsStep DEF IInv
<1> QED
  BY <1>1, <1>2, PTL DEF Spec

-----------------------------------------------------------------------------
(* The results.                                                             *)

(* Every variable keeps its type: no reference count falls below zero, the  *)
(* mixer's position never becomes negative and the source it mixes exists.  *)
THEOREM TypeCorrect == Spec => []TypeOK
<1>1. IInv => TypeOK
  <2> SUFFICES ASSUME IInv
               PROVE  TypeOK
    OBVIOUS
  <2>1. Queues \in [Source -> Seq(Entry)]
    BY DEF IInv, SrcInv, Queues, SourceRecord
  <2>2. ASSUME NEW b \in Buffer
        PROVE  ref[b] \in Nat
    <3>1. IsFiniteSet(Spots(Queues, b))
      BY <2>1, SpotsFinite DEF Spots
    <3> QED
      BY <3>1, FS_CardinalityType DEF IInv, RefsInv
  <2>3. ref \in [Buffer -> Nat]
    BY <2>2 DEF IInv, RefsInv
  <2> QED
    BY <2>3 DEF TypeOK, IInv, RestOK, SrcInv, MixInv
<1> QED
  BY Invariant, <1>1, PTL

(* The queue of a source and its two counters agree, and a source that      *)
(* plays or is paused has sound ahead, through every order of calls, mixing *)
(* passes, deferred updates and disconnections (alSource.c, mixer.c).       *)
THEOREM Consistent == Spec => []QueueConsistent
<1>1. IInv => QueueConsistent
  <2> SUFFICES ASSUME IInv, NEW s \in Allocated
               PROVE  /\ src[s].BuffersInQueue = Len(src[s].queue)
                      /\ src[s].BuffersPlayed <= src[s].BuffersInQueue
                      /\ src[s].lSourceType = "STATIC" =>
                           Len(src[s].queue) = 1 /\ src[s].queue[1] # NoBuffer
                      /\ src[s].state \in {"PLAYING", "PAUSED"} => Ahead(src[s])
    BY DEF QueueConsistent, Ahead
  <2>1. s \in Source
    BY DEF Allocated, IInv, RestOK, OwnInv
  <2> QED
    BY <2>1 DEF IInv, SrcInv, Sound, Sounding
<1> QED
  BY Invariant, <1>1, PTL

(* A buffer's reference count is the number of places it has in the queues  *)
(* of the sources, however they are queued, unqueued, replaced and deleted. *)
THEOREM Exact == Spec => []RefsExact
<1>1. IInv => RefsExact
  <2> SUFFICES ASSUME IInv, NEW b \in Buffer
               PROVE  ref[b] = Cardinality(Holders(b))
    BY DEF RefsExact
  <2>1. Allocated \subseteq Source
    BY DEF Allocated, IInv, RestOK, OwnInv
  <2>2. \A s \in Source \ Allocated : Indices(Queues[s], b) = {}
    BY InitSound DEF IInv, OwnInv, Queues, Indices
  <2>3. \A s \in Source : Indices(Queues[s], b) = {n \in 1 .. Len(src[s].queue) : src[s].queue[n] = b}
    BY DEF Queues, Indices
  <2>4. Spots(Queues, b) = Holders(b)
    <3>1. ASSUME NEW x
          PROVE  x \in Spots(Queues, b) <=> \E s \in Source : x \in {s} \X Indices(Queues[s], b)
      BY DEF Spots, SpotsOf
    <3>2. ASSUME NEW x
          PROVE  x \in Holders(b) <=> \E s \in Allocated : x \in {s} \X Indices(Queues[s], b)
      BY <2>1, <2>3 DEF Holders
    <3> QED
      BY <2>1, <2>2, <3>1, <3>2
  <2> QED
    BY <2>4 DEF IInv, RefsInv
<1> QED
  BY Invariant, <1>1, PTL

(* Only deferred plays overrun the mixer's list: a step that takes it past  *)
(* its capacity is one that processes them (alSourcePlayv, SetSourceState). *)
THEOREM Overrun == Spec => OverrunNeedsDeferral
<1>1. ASSUME IInv, [Next]_vars, ActiveFits, ~ActiveFits'
      PROVE  \E t \in Thread : ProcessApply(t)
  <2>0. /\ IsFiniteSet(ActiveSources) /\ Cardinality(ActiveSources) \in Nat
        /\ MaxActiveSources \in Nat /\ Cardinality(ActiveSources) <= MaxActiveSources
        /\ IsFiniteSet(Source) /\ ActiveSources \subseteq Source
    BY <1>1, SourcesAssumption, FS_Subset, FS_CardinalityType DEF IInv, RestOK, ActiveFits
  <2>1. ASSUME ActiveSources' \subseteq ActiveSources, UNCHANGED MaxActiveSources
        PROVE  FALSE
    <3>1. Cardinality(ActiveSources') <= Cardinality(ActiveSources) /\ Cardinality(ActiveSources') \in Nat
      BY <2>0, <2>1, FS_Subset, FS_CardinalityType
    <3> QED
      BY <1>1, <2>0, <2>1, <3>1 DEF ActiveFits
  <2>2. ASSUME NEW S \in SUBSET Source, Play(S)
        PROVE  FALSE
    <3>1. /\ ActiveSources' \subseteq ActiveSources \cup S
          /\ GrowActive(Cardinality(S))
      BY <2>2 DEF Play, Activate
    <3>2. PICK k \in {1, 2, 4, 8, 16} :
            /\ MaxActiveSources' = MaxActiveSources * k
            /\ MaxActiveSources * k - Cardinality(ActiveSources) >= Cardinality(S)
      BY <3>1 DEF GrowActive, Fits
    <3>3. IsFiniteSet(S) /\ Cardinality(S) \in Nat
      BY <2>0, FS_Subset, FS_CardinalityType
    <3> DEFINE both == ActiveSources \cup S
    <3>4. /\ IsFiniteSet(both) /\ Cardinality(both) \in Nat
          /\ Cardinality(both) <= Cardinality(ActiveSources) + Cardinality(S)
      <4>1. /\ IsFiniteSet(both) /\ IsFiniteSet(ActiveSources \cap S)
            /\ Cardinality(both)
               = Cardinality(ActiveSources) + Cardinality(S) - Cardinality(ActiveSources \cap S)
        BY <2>0, <3>3, FS_Union, FS_Intersection
      <4>2. Cardinality(both) \in Nat /\ Cardinality(ActiveSources \cap S) \in Nat
        BY <4>1, FS_CardinalityType
      <4> QED
        BY <2>0, <3>3, <4>1, <4>2
    <3> HIDE DEF both
    <3>5. Cardinality(ActiveSources') <= Cardinality(both) /\ Cardinality(ActiveSources') \in Nat
      BY <3>1, <3>4, FS_Subset, FS_CardinalityType DEF both
    <3>6. MaxActiveSources * k \in Nat
      BY <2>0
    <3> QED
      BY <1>1, <2>0, <3>2, <3>3, <3>4, <3>5, <3>6 DEF ActiveFits
  <2>3. ASSUME NEW t \in Thread, DeferApply(t)
        PROVE  FALSE
    BY <2>1, <2>3 DEF DeferApply, Playing
  <2>4. ASSUME NEW s \in Source, NEW r, Edit(s, r)
        PROVE  FALSE
    BY <2>1, <2>4 DEF Edit, Change
  <2>5. CASE MixLeave
    BY <1>1, <2>1, <2>5, MixLeaveIs DEF MixLeave
  <2>6. \/ UNCHANGED <<ActiveSources, MaxActiveSources>>
        \/ \E s \in Source : MixDrop(s)
        \/ \E t \in Thread : PurgeSource(t) \/ DeferApply(t) \/ ProcessApply(t)
        \/ \E s \in Source : \E r : Edit(s, r)
        \/ \E S \in SUBSET Source : Play(S)
        \/ MixLeave
    BY <1>1, EditIs DEF Next, Call, Mixer, GenSource, RemoveSource, FreeSource, DeferTest, ProcessClear,
       MixBegin, MixSource, MixBlock, MixNext, MixEnd, HandleDisconnect, vars
  <2>7. ASSUME (\E s \in Source : MixDrop(s)) \/ (\E t \in Thread : PurgeSource(t))
        PROVE  FALSE
    BY <2>1, <2>7 DEF MixDrop, PurgeSource, Purge
  <2>8. ~UNCHANGED <<ActiveSources, MaxActiveSources>>
    BY <2>1
  <2> QED
    BY <2>2, <2>3, <2>4, <2>5, <2>6, <2>7, <2>8
<1>2. IInv /\ [Next]_vars => [ActiveFits /\ ~ActiveFits' => \E t \in Thread : ProcessApply(t)]_vars
  BY <1>1
<1> QED
  BY Invariant, <1>2, PTL DEF Spec, OverrunNeedsDeferral

(* What is on the mixer's list when updates are deferred was prepared then: *)
(* a call starts no source until they are processed, and one that processes *)
(* them across the deferral notes what it starts.                           *)
Prepared(S) == \A s \in S : src[s].state = "PLAYING" => Settled(src[s])

ReadyInv ==
  /\ DeferUpdates => Prepared(ActiveSources)
  /\ mixer.at # "out" /\ mixer.defer => Prepared(mixer.todo)
  /\ mixer.at \in {"mix", "cross"} => Settled(src[mixer.s])

(* The steps that start no source on the list, and defer nothing.           *)
LEMMA ReadyKept ==
  ASSUME IInv, ReadyInv, UNCHANGED mixer, ActiveSources' \subseteq ActiveSources,
         DeferUpdates' => DeferUpdates,
         \A s \in ActiveSources : /\ Settled(src[s]) => Settled(src'[s])
                                  /\ src'[s].state = "PLAYING" => src[s].state = "PLAYING"
  PROVE  ReadyInv'
<1>1. DeferUpdates' => Prepared(ActiveSources)'
  BY DEF ReadyInv, Prepared
<1>2. /\ mixer.at # "out" /\ mixer.defer => Prepared(mixer.todo)'
      /\ mixer.at \in {"mix", "cross"} => Settled(src'[mixer.s])
  BY ListableIs DEF ReadyInv, Prepared
<1> QED
  BY <1>1, <1>2 DEF ReadyInv

LEMMA ReadyCalls ==
  ASSUME IInv, ReadyInv,
         \/ \E S \in SUBSET Source : Play(S)
         \/ \E t \in Thread : DeferApply(t) \/ ProcessApply(t)
         \/ HandleDisconnect
  PROVE  ReadyInv'
<1>0. /\ src \in [Source -> SourceRecord] /\ ActiveSources \subseteq Source
      /\ \A s \in Source : Sound(src[s])
      /\ pc \in [Thread -> {"idle", "defer", "process", "removed", "purged"}]
  BY DEF IInv, SrcInv, RestOK
<1>1. ASSUME Unlocked, UNCHANGED mixer, ~DeferUpdates'
      PROVE  ReadyInv'
  BY <1>1 DEF ReadyInv, Unlocked
<1>2. ASSUME NEW S \in SUBSET Source, Play(S)
      PROVE  ReadyInv'
  <2>1. CASE ~DeferUpdates
    BY <1>1, <1>2, <2>1 DEF Play
  <2>2. CASE DeferUpdates
    <3>1. /\ UNCHANGED <<mixer, ActiveSources, DeferUpdates, pc>>
          /\ \A s \in Source : src'[s] = IF s \in S THEN [src[s] EXCEPT !.new_state = "PLAYING"]
                                         ELSE src[s]
      BY <1>2, <2>2 DEF Play
    <3>2. \A s \in Source : /\ Settled(src[s]) => Settled(src'[s])
                            /\ src'[s].state = src[s].state
      BY <1>0, <3>1 DEF SourceRecord, Settled
    <3> QED
      BY <1>0, <3>1, <3>2, ReadyKept
  <2> QED
    BY <2>1, <2>2
<1>3. ASSUME NEW t \in Thread, DeferApply(t)
      PROVE  ReadyInv'
  <2>1. /\ pc[t] = "defer" /\ Unlocked /\ UNCHANGED mixer /\ pc' = [pc EXCEPT ![t] = "idle"]
        /\ ActiveSources' = Playing(ActiveSources)
        /\ \A s \in Source : s \in Playing(ActiveSources) => src'[s] = Update(src[s])
    BY <1>3 DEF DeferApply
  <2>2. Prepared(ActiveSources)'
    BY <1>0, <2>1, FieldSound DEF Prepared, Playing
  <2> QED
    BY <2>1, <2>2 DEF ReadyInv, Unlocked
<1>4. ASSUME NEW t \in Thread, ProcessApply(t)
      PROVE  ReadyInv'
  <2>1. UNCHANGED <<mixer, DeferUpdates>> /\ Unlocked
        /\ ActiveSources' = ActiveSources \cup
             {s \in SourceMap : src[s].new_state = "PLAYING" /\ CanStart(src[s], Connected)}
    BY <1>4 DEF ProcessApply, Activate
  <2>2. ASSUME DeferUpdates, NEW s \in ActiveSources', src'[s].state = "PLAYING"
        PROVE  Settled(src'[s])
    <3>1. s \in Source /\ SourceMap \subseteq Source
      BY <1>0, <2>1 DEF IInv, RestOK
    <3>2. CASE src[s].state = "PLAYING"
      <4>1. s \in ActiveSources
        BY <2>1, <3>2 DEF IInv, ListInv
      <4> QED
        BY <1>4, <2>2, <3>1, <3>2, <4>1, ProcessedKept DEF ReadyInv, Prepared
    <3>3. CASE src[s].state # "PLAYING"
      BY <1>4, <2>2, <3>1, <3>3, ProcessedKept
    <3> QED
      BY <3>2, <3>3
  <2> QED
    BY <2>1, <2>2 DEF ReadyInv, Prepared, Unlocked
<1>5. CASE HandleDisconnect
  <2>1. /\ UNCHANGED <<mixer, ActiveSources, DeferUpdates, pc>>
        /\ \A s \in Source : src'[s] = IF s \in SourceMap THEN Disconnect(src[s]) ELSE src[s]
    BY <1>5 DEF HandleDisconnect
  <2>2. \A s \in Source : /\ Settled(src[s]) => Settled(src'[s])
                          /\ src'[s].state = "PLAYING" => src[s].state = "PLAYING"
    BY <1>0, <2>1, StopSound DEF Kept, Settled
  <2> QED
    BY <1>0, <2>1, <2>2, ReadyKept
<1> QED
  BY <1>2, <1>3, <1>4, <1>5

LEMMA ReadyStep ==
  ASSUME IInv, ReadyInv, [Next]_vars
  PROVE  ReadyInv'
<1>0. /\ src \in [Source -> SourceRecord] /\ ActiveSources \subseteq Source
      /\ \A s \in Source : Sound(src[s])
      /\ pc \in [Thread -> {"idle", "defer", "process", "removed", "purged"}]
      /\ mixer \in MixerRecord
  BY DEF IInv, SrcInv, RestOK, MixInv
<1>1. ASSUME NEW s \in Source, NEW r, Edit(s, r)
      PROVE  ReadyInv'
  <2>1. /\ UNCHANGED <<mixer, ActiveSources, DeferUpdates, pc>>
        /\ \A x \in Source : /\ Settled(src[x]) => Settled(src'[x])
                             /\ src'[x].state = "PLAYING" => src[x].state = "PLAYING"
    BY <1>0, <1>1 DEF Edit, Change, Settled
  <2> QED
    BY <1>0, <2>1, ReadyKept
<1>2. ASSUME NEW s \in Source, GenSource(s)
      PROVE  ReadyInv'
  <2>1. \A x \in ActiveSources : src'[x] = src[x]
    BY <1>0, <1>2, ListableIs DEF GenSource
  <2> QED
    BY <1>2, <2>1, ReadyKept DEF GenSource
<1>3. ASSUME NEW t \in Thread, FreeSource(t)
      PROVE  ReadyInv'
  <2>1. \A x \in ActiveSources : src'[x] = src[x]
    BY <1>0, <1>3, PurgedIs DEF FreeSource
  <2> QED
    BY <1>3, <2>1, ReadyKept DEF FreeSource
<1>4. ASSUME NEW t \in Thread,
             \/ \E s \in Source : RemoveSource(t, s)
             \/ PurgeSource(t) \/ DeferTest(t) \/ ProcessClear(t)
      PROVE  ReadyInv'
  <2>1. /\ UNCHANGED <<mixer, src>> /\ ActiveSources' \subseteq ActiveSources
        /\ DeferUpdates' => DeferUpdates
    BY <1>0, <1>4 DEF RemoveSource, PurgeSource, Purge, DeferTest, ProcessClear
  <2> QED
    BY <2>1, ReadyKept
<1>5. CASE UNCHANGED vars
  BY <1>5, ReadyKept DEF vars
<1>6. CASE MixBegin
  BY <1>6 DEF MixBegin, ReadyInv, Prepared, MixerOut
<1>7. ASSUME NEW s \in Source, MixDrop(s)
      PROVE  ReadyInv'
  BY <1>0, <1>7 DEF MixDrop, ReadyInv, Prepared, MixerRecord
<1>8. ASSUME NEW s \in Source, MixSource(s)
      PROVE  ReadyInv'
  <2>1. /\ mixer.at = "visit" /\ s \in mixer.todo /\ src[s].state = "PLAYING"
        /\ src' = IF mixer.defer THEN src ELSE [src EXCEPT ![s] = Update(src[s])]
        /\ UNCHANGED <<ActiveSources, DeferUpdates, pc>>
        /\ mixer'.at = "mix" /\ mixer'.todo \subseteq mixer.todo /\ mixer'.s = s
        /\ mixer'.defer = mixer.defer
    BY <1>0, <1>8 DEF MixSource, MixerRecord
  <2>2. Settled(Update(src[s])) /\ Update(src[s]).state = src[s].state
    BY <1>0, FieldSound
  <2>3. Settled(src'[s])
    BY <1>0, <2>1, <2>2 DEF ReadyInv, Prepared
  <2>4. \A x \in Source : /\ Settled(src[x]) => Settled(src'[x])
                          /\ src'[x].state = src[x].state
    BY <1>0, <2>1, <2>2
  <2>5. /\ Prepared(ActiveSources) => Prepared(ActiveSources)'
        /\ Prepared(mixer.todo) => Prepared(mixer.todo)'
    BY <1>0, <2>1, <2>4 DEF Prepared, MixerRecord
  <2> QED
    BY <2>1, <2>3, <2>5 DEF ReadyInv
<1>9. CASE MixBlock \/ MixNext
  <2>1. /\ mixer.at \in {"mix", "cross"} /\ mixer'.at = "cross"
        /\ mixer'.todo = mixer.todo /\ mixer'.s = mixer.s /\ mixer'.defer = mixer.defer
    BY <1>0, <1>9 DEF MixBlock, MixNext, MixerRecord
  <2>2. UNCHANGED <<src, ActiveSources, DeferUpdates, pc>>
    BY <1>9 DEF MixBlock, MixNext
  <2> QED
    BY <2>1, <2>2 DEF ReadyInv, Prepared
<1>10. CASE MixLeave
  <2>1. /\ UNCHANGED <<ActiveSources, DeferUpdates, pc>> /\ Left
        /\ mixer.at = "cross" /\ mixer.s \in Source /\ Settled(src[mixer.s])
    BY <1>10, MixLeaveIs, ListableIs DEF MixLeave, ReadyInv
  <2>2. \A x \in Source : /\ Settled(src[x]) => Settled(src'[x])
                          /\ x # mixer.s => src'[x] = src[x]
    BY <1>0, <2>1 DEF Left, Kept, Settled
  <2>3. mixer'.at = "mix" => mixer'.s = mixer.s
    BY <2>1 DEF Left
  <2>4. mixer'.todo = mixer.todo /\ mixer'.defer = mixer.defer /\ mixer'.at \in {"mix", "visit"}
    BY <2>1 DEF Left
  <2>5. /\ Prepared(ActiveSources) => Prepared(ActiveSources)'
        /\ Prepared(mixer.todo) => Prepared(mixer.todo)'
    BY <1>0, <2>1, <2>2, <2>4 DEF Prepared, MixerRecord
  <2> QED
    BY <2>1, <2>2, <2>3, <2>4, <2>5 DEF ReadyInv
<1>11. CASE MixEnd
  BY <1>11, OutIs DEF MixEnd, ReadyInv, Prepared
<1>12. ASSUME \/ \E S \in SUBSET Source : Play(S)
              \/ \E t \in Thread : DeferApply(t) \/ ProcessApply(t)
              \/ HandleDisconnect
       PROVE  ReadyInv'
  BY <1>12, ReadyCalls
<1>13. ASSUME NEW s \in Source,
              \/ \E state \in {"PAUSED", "STOPPED", "INITIAL"} : Command(s, state)
              \/ \E e \in Entry : SourceBuffer(s, e)
              \/ \E es \in Batches : QueueBuffers(s, es)
              \/ \E n \in 1 .. MaxQueue : UnqueueBuffers(s, n)
              \/ \E looping \in Loopings : SourceLooping(s, looping)
              \/ \E offset \in Offsets : SourceOffset(s, offset)
       PROVE  ReadyInv'
  BY <1>1, <1>13, EditIs
<1> QED
  BY <1>2, <1>3, <1>4, <1>5, <1>6, <1>7, <1>8, <1>9, <1>10, <1>11, <1>12, <1>13
     DEF Next, Call, Mixer

(* Whatever plays is on the mixer's list, and whatever the list or the      *)
(* mixer holds has memory: alDeleteSources takes it off before it frees it, *)
(* from any number of threads.                                              *)
THEOREM Heard ==
  Spec => [](/\ \A s \in SourceMap : src[s].state = "PLAYING" => s \in ActiveSources
             /\ ActiveSources \subseteq Allocated
             /\ mixer.at \in {"mix", "cross"} => mixer.s \in Allocated)
<1>1. IInv => /\ \A s \in SourceMap : src[s].state = "PLAYING" => s \in ActiveSources
              /\ ActiveSources \subseteq Allocated
              /\ mixer.at \in {"mix", "cross"} => mixer.s \in Allocated
  <2> SUFFICES ASSUME IInv
               PROVE  /\ \A s \in SourceMap : src[s].state = "PLAYING" => s \in ActiveSources
                      /\ ActiveSources \subseteq Allocated
                      /\ mixer.at \in {"mix", "cross"} => mixer.s \in Allocated
    OBVIOUS
  <2> QED
    BY ListableIs DEF IInv, ListInv
<1> QED
  BY Invariant, <1>1, PTL

(* From any number of threads, the mixer mixes a source whose parameters    *)
(* were never computed only if alProcessUpdatesSOFT started it after        *)
(* another thread had deferred updates again; and all it visits is live and *)
(* all that plays is visited (alDeferUpdatesSOFT, aluMixData).              *)
THEOREM Listed == Spec => []ListMatches
<1>1. Init => ReadyInv
  BY OutIs DEF Init, ReadyInv
<1>2. IInv /\ ReadyInv /\ [Next]_vars => ReadyInv'
  BY ReadyStep
<1>3. IInv /\ ReadyInv => ListMatches
  <2> SUFFICES ASSUME IInv, ReadyInv
               PROVE  ListMatches
    OBVIOUS
  <2> QED
    BY ListableIs DEF IInv, ListInv, ReadyInv, ListMatches, Settled
<1> QED
  BY Invariant, <1>1, <1>2, <1>3, PTL DEF Spec
=============================================================================
