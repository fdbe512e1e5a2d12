-------------------------- MODULE MacSource_proofs --------------------------
(***************************************************************************)
(* Proofs about the source of the Mac OS X implementation, for any finite  *)
(* set of threads and any buffers, queues, offsets and messages.           *)
(*                                                                         *)
(* The lock comes first; then what each method makes of the two lists      *)
(* (Moved: the same entries, in the same order or noted as odd); then Good,*)
(* which ties the state of a source to the messages that wait (Control) and*)
(* the queue to what the messages will make of it (Promised); then the     *)
(* messages handled in turn (Ran), and the steps of the threads.           *)
(***************************************************************************)
EXTENDS MacSource, FiniteSetTheorems, SequenceTheorems, WellFoundedInduction, TLAPS

Editors == {t \in Thread : edit[t] # "out"}

FlagInv ==
  /\ mAcquireFlag = Cardinality(Editors)
  /\ mTryFlag = IF render = "out" THEN 0 ELSE 1

LockInv == LockTypeOK /\ FlagInv /\ Exclusion

-----------------------------------------------------------------------------
LEMMA EditorsFinite == IsFiniteSet(Editors) /\ Cardinality(Editors) \in Nat
  BY ThreadAssumption, FS_Subset, FS_CardinalityType DEF Editors

(* The editors change by the thread that comes or leaves.                   *)
LEMMA Comes ==
  ASSUME LockTypeOK, NEW t \in Thread, Move(t, "out", "wait")
  PROVE  Cardinality(Editors') = Cardinality(Editors) + 1
<1>1. Editors' = Editors \cup {t} /\ t \notin Editors
  BY DEF Editors, Move, LockTypeOK
<1> QED
  BY <1>1, EditorsFinite, FS_AddElement

LEMMA Leaves ==
  ASSUME LockTypeOK, NEW t \in Thread, Move(t, "in", "out")
  PROVE  /\ Cardinality(Editors') = Cardinality(Editors) - 1
         /\ Cardinality(Editors) > 0
<1>1. Editors' = Editors \ {t} /\ t \in Editors
  BY DEF Editors, Move, LockTypeOK
<1>2. Cardinality(Editors') = Cardinality(Editors) - 1
  BY <1>1, EditorsFinite, FS_RemoveElement
<1>3. Cardinality(Editors) # 0
  BY <1>1, EditorsFinite, FS_EmptySet
<1> QED
  BY <1>2, <1>3, EditorsFinite

LEMMA LockInitInv == LockInit => LockInv
<1> SUFFICES ASSUME LockInit PROVE LockInv
  OBVIOUS
<1>1. Editors = {}
  BY DEF LockInit, Editors
<1> QED
  BY <1>1, FS_EmptySet DEF LockInit, LockInv, LockTypeOK, FlagInv, Exclusion

LEMMA LockNextInv == LockInv /\ [LockNext]_lockVars => LockInv'
<1> SUFFICES ASSUME LockInv, [LockNext]_lockVars PROVE LockInv'
  OBVIOUS
<1>t. LockTypeOK
  BY DEF LockInv
<1>1. ASSUME NEW t \in Thread, Ask(t) PROVE LockInv'
  <2>1. Cardinality(Editors') = Cardinality(Editors) + 1
    BY ONLY <1>t, <1>1, Comes DEF Ask
  <2> QED
    BY <1>1, <2>1, EditorsFinite DEF Ask, Move, Raised, LockInv, LockTypeOK, FlagInv, Exclusion
<1>2. ASSUME NEW t \in Thread, Enter(t) PROVE LockInv'
  <2>1. render = "out"
    BY <1>2 DEF Enter, LockInv, LockTypeOK, FlagInv
  <2>2. Editors' = Editors
    BY <1>2 DEF Enter, Move, Editors
  <2> QED
    BY <1>2, <2>1, <2>2 DEF Enter, Move, LockInv, LockTypeOK, FlagInv, Exclusion
<1>3. ASSUME NEW t \in Thread, Edit(t) PROVE LockInv'
  <2>1. Cardinality(Editors') = Cardinality(Editors) - 1 /\ Cardinality(Editors) > 0
    BY ONLY <1>t, <1>3, Leaves DEF Edit
  <2> QED
    BY <1>3, <2>1, EditorsFinite DEF Edit, Move, Lowered, LockInv, LockTypeOK, FlagInv, Exclusion
<1>4. ASSUME Try \/ Acquire \/ Refuse \/ Render PROVE LockInv'
  <2>1. Editors' = Editors
    BY <1>4 DEF Try, Acquire, Refuse, Render, EndTry, Editors
  <2>2. CASE Try
    BY <2>1, <2>2 DEF Try, Turn, Raised, LockInv, LockTypeOK, FlagInv, Exclusion
  <2>3. CASE Acquire
    <3>1. Editors = {}
      BY <2>3, EditorsFinite, FS_EmptySet DEF Acquire, Acquired, LockInv, FlagInv
    <3> QED
      BY <2>1, <2>3, <3>1 DEF Acquire, Turn, Editors, LockInv, LockTypeOK, FlagInv, Exclusion
  <2>4. CASE Refuse \/ Render
    BY <2>1, <2>4 DEF Refuse, Render, EndTry, Turn, Lowered, LockInv, LockTypeOK, FlagInv, Exclusion
  <2> QED
    BY <1>4, <2>2, <2>3, <2>4
<1>5. CASE UNCHANGED lockVars
  BY <1>5 DEF lockVars, Editors, LockInv, LockTypeOK, FlagInv, Exclusion
<1> QED
  BY <1>1, <1>2, <1>3, <1>4, <1>5 DEF LockNext

-----------------------------------------------------------------------------
(* No source is edited while the render thread works on it, however many    *)
(* threads there are.                                                       *)
THEOREM Excluded == LockSpec => []Exclusion
<1>1. LockInv => Exclusion
  BY DEF LockInv
<1> QED
  BY <1>1, LockInitInv, LockNextInv, PTL DEF LockSpec

-----------------------------------------------------------------------------
(* Induction: the least number of a set, a set that has 0 and all that      *)
(* follows, and the values a function defined by recursion takes.           *)

LEMMA Least ==
  ASSUME NEW S \in SUBSET Nat, S # {}
  PROVE  \E m \in S : \A k \in S : m <= k
<1> DEFINE R == OpToRel(<, Nat)
<1>1. IsWellFoundedOn(R, Nat)
  BY NatLessThanWellFounded
<1>2. \A x, y \in Nat : <<x, y>> \in R <=> x < y
  BY DEF OpToRel
<1> HIDE DEF R
<1>3. PICK m \in S : \A y \in S : ~ (<<y, m>> \in R)
  BY <1>1, WFMin
<1>4. ASSUME NEW k \in S PROVE m <= k
  <2>1. m \in Nat /\ k \in Nat /\ ~(<<k, m>> \in R)
    BY <1>3
  <2>2. ~(k < m)
    BY <1>2, <2>1
  <2> QED
    BY <2>1, <2>2
<1> QED
  BY <1>4

LEMMA Induct ==
  ASSUME NEW S, 0 \in S, \A n \in Nat : n \in S => n + 1 \in S
  PROVE  Nat \subseteq S
<1> DEFINE T == Nat \ S
<1>1. SUFFICES ASSUME T # {} PROVE FALSE
  OBVIOUS
<1>2. T \in SUBSET Nat
  OBVIOUS
<1>3. PICK m \in T : \A k \in T : m <= k
  <2> HIDE DEF T
  <2> QED
    BY <1>1, <1>2, Least
<1>4. m # 0 /\ m - 1 \in Nat /\ m - 1 \notin T
  BY <1>3
<1> QED
  BY <1>4

LEMMA Iterate ==
  ASSUME NEW n \in Nat, NEW S, NEW x \in S, NEW G \in [1 .. n -> [S -> S]]
  PROVE  \E f \in [0 .. n -> S] : f[0] = x /\ \A i \in 1 .. n : f[i] = G[i][f[i - 1]]
<1> DEFINE P(k, f) == f[0] = x /\ \A i \in 1 .. k : f[i] = G[i][f[i - 1]]
           T == {k \in Nat : k <= n => \E f \in [0 .. n -> S] : P(k, f)}
<1>1. 0 \in T
  <2>1. [i \in 0 .. n |-> x] \in [0 .. n -> S] /\ P(0, [i \in 0 .. n |-> x])
    OBVIOUS
  <2> QED
    BY <2>1
<1>2. ASSUME NEW k \in Nat, k \in T PROVE k + 1 \in T
  <2>1. SUFFICES ASSUME k + 1 <= n PROVE \E f \in [0 .. n -> S] : P(k + 1, f)
    OBVIOUS
  <2>2. PICK f \in [0 .. n -> S] : P(k, f)
    BY <1>2, <2>1
  <2> DEFINE g == [f EXCEPT ![k + 1] = G[k + 1][f[k]]]
  <2>3. G[k + 1][f[k]] \in S
    BY <2>1
  <2>4. g \in [0 .. n -> S]
    BY <2>3
  <2>5. \A i \in 0 .. n : i # k + 1 => g[i] = f[i]
    OBVIOUS
  <2>6. g[k + 1] = G[k + 1][f[k]]
    BY <2>1
  <2>7. g[0] = x
    BY <2>2, <2>5
  <2>8. ASSUME NEW i \in 1 .. k + 1 PROVE g[i] = G[i][g[i - 1]]
    <3>1. CASE i = k + 1
      <4>1. i - 1 = k /\ g[k] = f[k]
        BY <3>1, <2>5, <2>1
      <4> QED
        BY <3>1, <4>1, <2>6
    <3>2. CASE i # k + 1
      <4>1. g[i] = f[i] /\ g[i - 1] = f[i - 1] /\ i \in 1 .. k
        BY <3>2, <2>5, <2>1
      <4> QED
        BY <2>2, <4>1
    <3> QED
      BY <3>1, <3>2
  <2>9. P(k + 1, g)
    BY <2>7, <2>8
  <2> QED
    BY <2>4, <2>9
<1>3. Nat \subseteq T
  <2> HIDE DEF T
  <2> QED
    BY <1>1, <1>2, Induct
<1>4. n \in T
  BY <1>3
<1>5. PICK f \in [0 .. n -> S] : P(n, f)
  BY <1>4
<1> QED
  BY <1>5

(* A function that is what its recursion says stays in a set that the       *)
(* recursion does not leave.                                                *)
LEMMA Stays ==
  ASSUME NEW n \in Nat, NEW S, NEW h, h[0] \in S,
         \A i \in 1 .. n : h[i - 1] \in S => h[i] \in S
  PROVE  \A i \in 0 .. n : h[i] \in S
<1> DEFINE T == {k \in Nat : k <= n => h[k] \in S}
<1>1. 0 \in T
  OBVIOUS
<1>2. ASSUME NEW k \in Nat, k \in T PROVE k + 1 \in T
  <2>1. SUFFICES ASSUME k + 1 <= n PROVE h[k + 1] \in S
    OBVIOUS
  <2>2. h[k] \in S /\ k + 1 \in 1 .. n /\ (k + 1) - 1 = k
    BY <1>2, <2>1
  <2> QED
    BY <2>2
<1>3. Nat \subseteq T
  <2> HIDE DEF T
  <2> QED
    BY <1>1, <1>2, Induct
<1> QED
  BY <1>3

-----------------------------------------------------------------------------
(* The values a source can have.                                            *)

States == {"INITIAL", "PLAYING", "PAUSED", "STOPPED", "TRANSITION"}
Ids == {"Stop", "Rewind", "ClearBuffersFromQueue", "SetBuffer", "Play", "Pause",
        "SetFramePosition", "DeconstructionStop"}
Odds == {"joined", "swapped", "flushed", "replaced", "cut", "lost", "stale", "unramped", "unlocked"}
Messages == [mMessageID : Ids, mAppendBuffer : Buffer, mBuffers : Nat]

SourceRecord ==
  [mState : States, mSourceType : {"UNDETERMINED", "STATIC", "STREAMING"}, mLooping : BOOLEAN,
   active : Seq(Buffer), inactive : Seq(Buffer), mCurrentBufferIndex : Nat,
   mQueueIsProcessed : BOOLEAN, mBuffersQueuedForClear : Nat,
   mRampState : {"no", "down", "up", "complete"}, mMessageQueue : Seq(Messages),
   mPlaybackHeadPosition : Offsets \cup {0}, bus : BOOLEAN, procs : BOOLEAN,
   attached : [Buffer -> Nat], mSafeForDeletion : BOOLEAN, thrown : BOOLEAN, odd : SUBSET Odds]

(* The queue: what was played, and what will be.                            *)
Whole(s) == s.inactive \o s.active

(* Every entry holds one attachment of its buffer.                          *)
Counted(s) == \A b \in Buffer : s.attached[b] = Held(Whole(s), b)
Sound(s) == s \in SourceRecord /\ Counted(s)

(* r is s after entries were moved between the lists and inside them: in any*)
(* order, or in the order they had unless the step is noted as odd.         *)
SameControl(s, r) ==
  /\ r.mState = s.mState /\ r.mSourceType = s.mSourceType /\ r.mLooping = s.mLooping
  /\ r.mRampState = s.mRampState /\ r.mMessageQueue = s.mMessageQueue
  /\ r.mPlaybackHeadPosition = s.mPlaybackHeadPosition
  /\ r.bus = s.bus /\ r.procs = s.procs /\ r.mSafeForDeletion = s.mSafeForDeletion
Shuffled(s, r) ==
  /\ r \in SourceRecord /\ SameControl(s, r)
  /\ r.attached = s.attached /\ r.mBuffersQueuedForClear = s.mBuffersQueuedForClear
  /\ r.thrown = s.thrown /\ s.odd \subseteq r.odd
  /\ Len(Whole(r)) = Len(Whole(s)) /\ \A b \in Buffer : Held(Whole(r), b) = Held(Whole(s), b)
Moved(s, r) == Shuffled(s, r) /\ (r.odd = {} => Whole(r) = Whole(s))

-----------------------------------------------------------------------------
(* Sequences of buffers: their parts, and how often a buffer is in them.    *)

LEMMA HeldType ==
  ASSUME NEW q \in Seq(Buffer), NEW b
  PROVE  IsFiniteSet({i \in 1 .. Len(q) : q[i] = b}) /\ Held(q, b) \in Nat
<1>1. IsFiniteSet(1 .. Len(q))
  BY FS_Interval, LenProperties
<1>2. IsFiniteSet({i \in 1 .. Len(q) : q[i] = b})
  BY <1>1, FS_Subset
<1> QED
  BY <1>2, FS_CardinalityType DEF Held

LEMMA HeldConcat ==
  ASSUME NEW q \in Seq(Buffer), NEW r \in Seq(Buffer), NEW b
  PROVE  Held(q \o r, b) = Held(q, b) + Held(r, b)
<1> DEFINE I == {i \in 1 .. Len(q) : q[i] = b}
           J == {i \in 1 .. Len(r) : r[i] = b}
           K == {i \in Len(q) + 1 .. Len(q) + Len(r) : r[i - Len(q)] = b}
           f == [j \in J |-> j + Len(q)]
<1>1. Len(q) \in Nat /\ Len(r) \in Nat
  BY LenProperties
<1>2. IsFiniteSet(I) /\ IsFiniteSet(J)
  BY HeldType
<1>3. q \o r \in Seq(Buffer) /\ Len(q \o r) = Len(q) + Len(r)
      /\ \A i \in 1 .. Len(q) + Len(r) : (q \o r)[i] = IF i <= Len(q) THEN q[i] ELSE r[i - Len(q)]
  BY ConcatProperties
<1>4. {i \in 1 .. Len(q \o r) : (q \o r)[i] = b} = I \cup K /\ I \cap K = {}
  BY <1>1, <1>3
<1>5. IsFiniteSet(K) /\ Cardinality(K) = Cardinality(J)
  <2>1. f \in [J -> K]
    BY <1>1
  <2>2. \A i, j \in J : f[i] = f[j] => i = j
    BY <1>1
  <2>3. \A k \in K : \E j \in J : f[j] = k
    <3> SUFFICES ASSUME NEW k \in K PROVE k - Len(q) \in J /\ f[k - Len(q)] = k
      OBVIOUS
    <3> QED
      BY <1>1
  <2> HIDE DEF f, J, K
  <2>4. f \in Bijection(J, K)
    BY <2>1, <2>2, <2>3 DEF Bijection, Injection, Surjection, IsInjective
  <2>5. ExistsBijection(J, K)
    BY <2>4 DEF ExistsBijection
  <2> QED
    BY <1>2, <2>5, FS_Bijection
<1>7. Held(q \o r, b) = Cardinality(I \cup K) /\ Held(q, b) = Cardinality(I) /\ Held(r, b) = Cardinality(J)
  BY <1>4 DEF Held
<1> HIDE DEF I, J, K
<1>6. Cardinality(I \cup K) = Cardinality(I) + Cardinality(K)
  <2>1. Cardinality(I \cup K) = Cardinality(I) + Cardinality(K) - Cardinality({})
    BY <1>2, <1>4, <1>5, FS_Union
  <2>2. Cardinality(I) \in Nat /\ Cardinality(K) \in Nat /\ Cardinality({}) = 0
    BY <1>2, <1>5, FS_CardinalityType, FS_EmptySet
  <2> QED
    BY <2>1, <2>2
<1> QED
  BY <1>5, <1>6, <1>7

LEMMA HeldOne ==
  ASSUME NEW b
  PROVE  /\ Held(<<>>, b) = 0
         /\ \A e \in Buffer : Held(<<e>>, b) = IF e = b THEN 1 ELSE 0
<1>1. Held(<<>>, b) = 0
  <2>1. {i \in 1 .. Len(<<>>) : <<>>[i] = b} = {}
    OBVIOUS
  <2> QED
    BY <2>1, FS_EmptySet DEF Held
<1>2. ASSUME NEW e \in Buffer
      PROVE  Held(<<e>>, b) = IF e = b THEN 1 ELSE 0
  <2>1. {i \in 1 .. Len(<<e>>) : <<e>>[i] = b} = IF e = b THEN {1} ELSE {}
    OBVIOUS
  <2> QED
    BY <2>1, FS_Singleton, FS_EmptySet DEF Held
<1> QED
  BY <1>1, <1>2

LEMMA Joined ==
  ASSUME NEW p \in Seq(Buffer), NEW q \in Seq(Buffer), NEW r \in Seq(Buffer)
  PROVE  /\ p \o q \in Seq(Buffer) /\ Len(p \o q) = Len(p) + Len(q)
         /\ (p \o q) \o r = p \o (q \o r)
         /\ <<>> \o p = p /\ p \o <<>> = p
         /\ <<>> \in Seq(Buffer) /\ Len(p) \in Nat /\ (Len(p) = 0 <=> p = <<>>)
         /\ p \o q = <<>> => p = <<>> /\ q = <<>>
<1>1. p \o q \in Seq(Buffer) /\ Len(p \o q) = Len(p) + Len(q) /\ Len(p) \in Nat /\ Len(q) \in Nat
  BY ConcatProperties, LenProperties
<1>2. (p \o q) \o r = p \o (q \o r)
  BY ConcatAssociative
<1>3. <<>> \o p = p /\ p \o <<>> = p /\ <<>> \in Seq(Buffer)
  BY ConcatEmptySeq, EmptySeq
<1>4. Len(p) = 0 <=> p = <<>>
  BY EmptySeq
<1>5. Len(q) = 0 <=> q = <<>>
  BY EmptySeq
<1>6. Len(p \o q) = 0 <=> p \o q = <<>>
  BY <1>1, EmptySeq
<1> QED
  BY <1>1, <1>2, <1>3, <1>4, <1>5, <1>6

LEMMA Cut ==
  ASSUME NEW q \in Seq(Buffer), NEW n \in 0 .. Len(q)
  PROVE  /\ SubSeq(q, 1, n) \in Seq(Buffer) /\ SubSeq(q, n + 1, Len(q)) \in Seq(Buffer)
         /\ Len(SubSeq(q, 1, n)) = n /\ Len(SubSeq(q, n + 1, Len(q))) = Len(q) - n
         /\ SubSeq(q, 1, n) \o SubSeq(q, n + 1, Len(q)) = q
         /\ \A i \in 1 .. n : SubSeq(q, 1, n)[i] = q[i]
         /\ \A i \in 1 .. Len(q) - n : SubSeq(q, n + 1, Len(q))[i] = q[n + i]
<1>1. Len(q) \in Nat
  BY LenProperties
<1>2. /\ SubSeq(q, 1, n) \in Seq(Buffer) /\ Len(SubSeq(q, 1, n)) = n
      /\ \A i \in 1 .. n : SubSeq(q, 1, n)[i] = q[i]
  BY <1>1, SubSeqProperties
<1>3. /\ SubSeq(q, n + 1, Len(q)) \in Seq(Buffer) /\ Len(SubSeq(q, n + 1, Len(q))) = Len(q) - n
      /\ \A i \in 1 .. Len(q) - n : SubSeq(q, n + 1, Len(q))[i] = q[n + i]
  BY <1>1, SubSeqProperties
<1>4. SubSeq(q, 1, n) \o SubSeq(q, n + 1, Len(q)) = q
  <2>1. 1 \in 1 .. Len(q) + 1 /\ n \in 1 - 1 .. Len(q) /\ Len(q) \in n .. Len(q)
    BY <1>1
  <2>2. SubSeq(q, 1, n) \o SubSeq(q, n + 1, Len(q)) = SubSeq(q, 1, Len(q))
    BY <2>1, ConcatAdjacentSubSeq
  <2> QED
    BY <2>2, SubSeqFull
<1> QED
  BY <1>2, <1>3, <1>4

(* What is left after m and after n more is what is left after both.        *)
LEMMA CutTwice ==
  ASSUME NEW q \in Seq(Buffer), NEW m \in Nat, NEW n \in Nat, m + n <= Len(q)
  PROVE  SubSeq(SubSeq(q, m + 1, Len(q)), n + 1, Len(SubSeq(q, m + 1, Len(q))))
           = SubSeq(q, m + n + 1, Len(q))
<1> DEFINE p == SubSeq(q, m + 1, Len(q))
           l == SubSeq(p, n + 1, Len(p))
           r == SubSeq(q, (m + n) + 1, Len(q))
<1>1. Len(q) \in Nat
  BY LenProperties
<1>2. p \in Seq(Buffer) /\ Len(p) = Len(q) - m /\ \A i \in 1 .. Len(q) - m : p[i] = q[m + i]
  BY <1>1, Cut
<1> HIDE DEF p
<1>3. l \in Seq(Buffer) /\ Len(l) = Len(p) - n /\ \A i \in 1 .. Len(p) - n : l[i] = p[n + i]
  BY <1>1, <1>2, Cut
<1>4. r \in Seq(Buffer) /\ Len(r) = Len(q) - (m + n) /\ \A i \in 1 .. Len(q) - (m + n) : r[i] = q[(m + n) + i]
  BY <1>1, Cut
<1> HIDE DEF l, r
<1>5. Len(l) = Len(r) /\ \A i \in 1 .. Len(l) : l[i] = r[i]
  <2>1. Len(l) = Len(r)
    BY <1>1, <1>2, <1>3, <1>4
  <2>2. ASSUME NEW i \in 1 .. Len(l) PROVE l[i] = r[i]
    <3>1. l[i] = p[n + i]
      BY <1>3, <2>2
    <3>2. p[n + i] = q[m + (n + i)]
      <4>1. n + i \in 1 .. Len(q) - m
        BY <1>1, <1>2, <1>3, <2>2
      <4> QED
        BY <1>2, <4>1
    <3>3. r[i] = q[(m + n) + i]
      BY <1>4, <2>1, <2>2
    <3>4. m + (n + i) = (m + n) + i
      BY <1>1, <1>2, <1>3, <2>2
    <3> QED
      BY <3>1, <3>2, <3>3, <3>4
  <2> QED
    BY <2>1, <2>2
<1>6. l = r
  BY <1>3, <1>4, <1>5, SeqEqual
<1> QED
  BY <1>6 DEF l, r, p

(* Cutting off the front of two lists that are one queue.                   *)
LEMMA CutFront ==
  ASSUME NEW p \in Seq(Buffer), NEW q \in Seq(Buffer), NEW n \in 0 .. Len(p)
  PROVE  SubSeq(p \o q, n + 1, Len(p \o q)) = SubSeq(p, n + 1, Len(p)) \o q
<1> DEFINE w == p \o q
           l == SubSeq(w, n + 1, Len(w))
           h == SubSeq(p, n + 1, Len(p))
           r == h \o q
<1>1. Len(p) \in Nat /\ Len(q) \in Nat
  BY LenProperties
<1>2. w \in Seq(Buffer) /\ Len(w) = Len(p) + Len(q)
      /\ \A i \in 1 .. Len(p) + Len(q) : w[i] = IF i <= Len(p) THEN p[i] ELSE q[i - Len(p)]
  BY ConcatProperties
<1>3. h \in Seq(Buffer) /\ Len(h) = Len(p) - n /\ \A i \in 1 .. Len(p) - n : h[i] = p[n + i]
  BY Cut
<1> HIDE DEF w, h
<1>4. l \in Seq(Buffer) /\ Len(l) = Len(w) - n /\ \A i \in 1 .. Len(w) - n : l[i] = w[n + i]
  BY <1>1, <1>2, Cut
<1>5. r \in Seq(Buffer) /\ Len(r) = Len(h) + Len(q)
      /\ \A i \in 1 .. Len(h) + Len(q) : r[i] = IF i <= Len(h) THEN h[i] ELSE q[i - Len(h)]
  BY <1>3, ConcatProperties
<1> HIDE DEF l, r
<1>6. Len(l) = Len(r) /\ \A i \in 1 .. Len(l) : l[i] = r[i]
  <2>1. Len(l) = Len(r)
    BY <1>1, <1>2, <1>3, <1>4, <1>5
  <2>2. ASSUME NEW i \in 1 .. Len(l) PROVE l[i] = r[i]
    <3>1. l[i] = w[n + i]
      BY <1>4, <2>2
    <3>2. n + i \in 1 .. Len(p) + Len(q)
      BY <1>1, <1>2, <1>4, <2>2
    <3>3. w[n + i] = IF n + i <= Len(p) THEN p[n + i] ELSE q[(n + i) - Len(p)]
      BY <1>2, <3>2
    <3>4. r[i] = IF i <= Len(h) THEN h[i] ELSE q[i - Len(h)]
      BY <1>5, <2>1, <2>2
    <3>5. CASE n + i <= Len(p)
      <4>1. i \in 1 .. Len(p) - n /\ i <= Len(h)
        BY <1>1, <1>3, <1>4, <2>2, <3>5
      <4>2. h[i] = p[n + i]
        BY <1>3, <4>1
      <4> QED
        BY <3>1, <3>3, <3>4, <3>5, <4>1, <4>2
    <3>6. CASE ~(n + i <= Len(p))
      <4>1. ~(i <= Len(h)) /\ (n + i) - Len(p) = i - Len(h)
        BY <1>1, <1>3, <1>4, <2>2, <3>6
      <4> QED
        BY <3>1, <3>3, <3>4, <3>6, <4>1
    <3> QED
      BY <3>5, <3>6
  <2> QED
    BY <2>1, <2>2
<1>7. l = r
  BY <1>4, <1>5, <1>6, SeqEqual
<1> QED
  BY <1>7 DEF l, r, w, h

(* One entry moves from its place to the end of the other list.             *)
LEMMA OneMoves ==
  ASSUME NEW p \in Seq(Buffer), NEW q \in Seq(Buffer), NEW n \in Nat, n < Len(q)
  PROVE  /\ q[n + 1] \in Buffer /\ Append(p, q[n + 1]) \in Seq(Buffer)
         /\ Len(Append(p, q[n + 1])) = Len(p) + 1
         /\ RemoveAt(q, n + 1) \in Seq(Buffer) /\ Len(RemoveAt(q, n + 1)) = Len(q) - 1
         /\ RemoveAt(q, n + 1) = SubSeq(q, 1, n) \o SubSeq(q, (n + 1) + 1, Len(q))
         /\ Append(p, q[n + 1]) = p \o <<q[n + 1]>>
         /\ \A b : Held(Append(p, q[n + 1]), b) + Held(RemoveAt(q, n + 1), b) = Held(p, b) + Held(q, b)
<1> DEFINE h == SubSeq(q, 1, n)
           t == SubSeq(q, n + 1, Len(q))
           e == SubSeq(t, 1, 1)
           l == SubSeq(q, (n + 1) + 1, Len(q))
<1>1. Len(q) \in Nat /\ n + 1 \in 1 .. Len(q)
  BY LenProperties
<1>2. q[n + 1] \in Buffer
  BY <1>1, ElementOfSeq
<1>3. /\ h \in Seq(Buffer) /\ t \in Seq(Buffer) /\ h \o t = q /\ Len(h) = n /\ Len(t) = Len(q) - n
      /\ t[1] = q[n + 1]
  BY <1>1, Cut
<1>4. /\ e \in Seq(Buffer) /\ Len(e) = 1 /\ e[1] = t[1] /\ e \o SubSeq(t, 1 + 1, Len(t)) = t
  <2> HIDE DEF t
  <2>1. 1 \in 0 .. Len(t)
    BY <1>1, <1>3
  <2> QED
    BY <1>3, <2>1, Cut
<1>5. e = <<q[n + 1]>>
  <2> HIDE DEF e, t
  <2>1. <<q[n + 1]>> \in Seq(Buffer) /\ Len(<<q[n + 1]>>) = 1 /\ <<q[n + 1]>>[1] = q[n + 1]
    BY <1>2
  <2> QED
    BY <1>3, <1>4, <2>1, SeqEqual
<1>6. SubSeq(t, 1 + 1, Len(t)) = SubSeq(q, n + 1 + 1, Len(q))
  BY <1>1, CutTwice
<1>7. l \in Seq(Buffer) /\ Len(l) = Len(q) - (n + 1)
  BY <1>1, Cut
<1>8. RemoveAt(q, n + 1) = h \o l
  <2>1. (n + 1) - 1 = n
    OBVIOUS
  <2> QED
    BY <2>1, Zenon DEF RemoveAt
<1>9. Append(p, q[n + 1]) = p \o <<q[n + 1]>> /\ Append(p, q[n + 1]) \in Seq(Buffer)
      /\ Len(Append(p, q[n + 1])) = Len(p) + 1
  BY <1>2, AppendIsConcat, AppendProperties
<1> HIDE DEF h, t, e, l
<1>10. h \o l \in Seq(Buffer) /\ Len(h \o l) = Len(q) - 1
  <2>1. h \o l \in Seq(Buffer) /\ Len(h \o l) = Len(h) + Len(l)
    BY <1>3, <1>7, ConcatProperties
  <2> QED
    BY <1>1, <1>3, <1>7, <2>1
<1>11. ASSUME NEW b
       PROVE  Held(p \o e, b) + Held(h \o l, b) = Held(p, b) + Held(q, b)
  <2>1. Held(p \o e, b) = Held(p, b) + Held(e, b)
    BY <1>4, HeldConcat
  <2>2. Held(h \o l, b) = Held(h, b) + Held(l, b)
    BY <1>3, <1>7, HeldConcat
  <2>3. Held(q, b) = Held(h, b) + Held(t, b)
    BY <1>3, HeldConcat, ZenonT(40)
  <2>4. Held(t, b) = Held(e, b) + Held(l, b)
    <3>1. e \o l = t
      BY <1>4, <1>6, Zenon DEF l
    <3> QED
      BY <1>4, <1>7, <3>1, HeldConcat
  <2>5. Held(p, b) \in Nat /\ Held(e, b) \in Nat /\ Held(h, b) \in Nat /\ Held(l, b) \in Nat
    BY <1>3, <1>4, <1>7, HeldType
  <2> QED
    BY <2>1, <2>2, <2>3, <2>4, <2>5
<1> QED
  BY <1>2, <1>5, <1>8, <1>9, <1>10, <1>11 DEF h, l

-----------------------------------------------------------------------------
(* What moves entries leaves everything else as it was.                     *)

LEMMA WholeIs ==
  ASSUME NEW s \in SourceRecord
  PROVE  /\ s.inactive \in Seq(Buffer) /\ s.active \in Seq(Buffer)
         /\ Whole(s) \in Seq(Buffer) /\ Len(Whole(s)) = Len(s.inactive) + Len(s.active)
         /\ Len(s.inactive) \in Nat /\ Len(s.active) \in Nat
         /\ \A b : Held(Whole(s), b) = Held(s.inactive, b) + Held(s.active, b)
         /\ \A b : Held(s.inactive, b) \in Nat /\ Held(s.active, b) \in Nat
<1>1. s.inactive \in Seq(Buffer) /\ s.active \in Seq(Buffer)
  BY DEF SourceRecord
<1> QED
  BY <1>1, Joined, HeldConcat, HeldType DEF Whole

LEMMA MovedAgain ==
  ASSUME NEW s \in SourceRecord, NEW r, NEW u, Moved(s, r), Moved(r, u)
  PROVE  Moved(s, u)
  BY DEF Moved, Shuffled, SameControl

LEMMA MovedSound ==
  ASSUME NEW s, NEW r, Sound(s), Shuffled(s, r)
  PROVE  Sound(r)
  BY DEF Sound, Counted, Shuffled

(* The lists are p and a now.                                               *)
LEMMA Relisted ==
  ASSUME NEW s \in SourceRecord, NEW r \in SourceRecord, SameControl(s, r),
         r.attached = s.attached, r.mBuffersQueuedForClear = s.mBuffersQueuedForClear,
         r.thrown = s.thrown, s.odd \subseteq r.odd,
         Len(r.inactive) + Len(r.active) = Len(s.inactive) + Len(s.active),
         \A b \in Buffer : Held(r.inactive, b) + Held(r.active, b) = Held(s.inactive, b) + Held(s.active, b)
  PROVE  Shuffled(s, r)
  BY WholeIs DEF Shuffled

LEMMA MovedSame ==
  ASSUME NEW s \in SourceRecord, NEW r \in SourceRecord, SameControl(s, r),
         r.attached = s.attached, r.mBuffersQueuedForClear = s.mBuffersQueuedForClear,
         r.thrown = s.thrown, s.odd \subseteq r.odd, Whole(r) = Whole(s)
  PROVE  Moved(s, r)
  BY DEF Moved, Shuffled

LEMMA ClearMoves ==
  ASSUME NEW s \in SourceRecord
  PROVE  /\ Moved(s, ClearActiveQueue(s))
         /\ ClearActiveQueue(s).inactive = Whole(s) /\ ClearActiveQueue(s).active = <<>>
         /\ ClearActiveQueue(s).odd = s.odd
<1> DEFINE r == ClearActiveQueue(s)
<1>1. s.inactive \o s.active \in Seq(Buffer) /\ <<>> \in Seq(Buffer)
      /\ (s.inactive \o s.active) \o <<>> = s.inactive \o s.active
  BY WholeIs, Joined
<1>2. r \in SourceRecord /\ r.inactive = Whole(s) /\ r.active = <<>> /\ r.odd = s.odd
  BY <1>1 DEF ClearActiveQueue, SourceRecord, Whole
<1>3. SameControl(s, r) /\ r.attached = s.attached /\ r.thrown = s.thrown
      /\ r.mBuffersQueuedForClear = s.mBuffersQueuedForClear
  BY DEF ClearActiveQueue, SourceRecord, SameControl
<1>4. Whole(r) = Whole(s)
  BY <1>1, <1>2 DEF Whole
<1> QED
  BY <1>2, <1>3, <1>4, MovedSame

LEMMA FieldMoves ==
  ASSUME NEW s \in SourceRecord
  PROVE  /\ Moved(s, Reset(s)) /\ Moved(s, Dry(s)) /\ Moved(s, DoPreRender(s))
         /\ \A i \in Nat : Moved(s, [s EXCEPT !.mCurrentBufferIndex = i])
         /\ \A f \in BOOLEAN : Moved(s, [s EXCEPT !.mQueueIsProcessed = f])
         /\ \A w \in Odds : Moved(s, [s EXCEPT !.odd = @ \cup {w}])
<1>1. Moved(s, Reset(s))
  <2> DEFINE r == Reset(s)
  <2>1. r \in SourceRecord /\ s.odd \subseteq r.odd
    BY DEF Reset, SourceRecord
  <2>2. /\ SameControl(s, r) /\ r.attached = s.attached /\ r.thrown = s.thrown
        /\ r.mBuffersQueuedForClear = s.mBuffersQueuedForClear
        /\ r.inactive = s.inactive /\ r.active = s.active
    BY DEF Reset, SourceRecord, SameControl
  <2> HIDE DEF r
  <2>3. Moved(s, r)
    BY <2>1, <2>2, MovedSame DEF Whole
  <2> QED
    BY <2>3 DEF r
<1>2. Moved(s, Dry(s))
  <2> DEFINE r == Dry(s)
  <2>1. r \in SourceRecord /\ s.odd \subseteq r.odd
    BY DEF Dry, SourceRecord
  <2>2. /\ SameControl(s, r) /\ r.attached = s.attached /\ r.thrown = s.thrown
        /\ r.mBuffersQueuedForClear = s.mBuffersQueuedForClear
        /\ r.inactive = s.inactive /\ r.active = s.active
    BY DEF Dry, SourceRecord, SameControl
  <2> HIDE DEF r
  <2>3. Moved(s, r)
    BY <2>1, <2>2, MovedSame DEF Whole
  <2> QED
    BY <2>3 DEF r
<1>3. Moved(s, DoPreRender(s))
  <2> DEFINE r == DoPreRender(s)
  <2>1. r \in SourceRecord /\ s.odd \subseteq r.odd
    BY DEF DoPreRender, SourceRecord
  <2>2. /\ SameControl(s, r) /\ r.attached = s.attached /\ r.thrown = s.thrown
        /\ r.mBuffersQueuedForClear = s.mBuffersQueuedForClear
        /\ r.inactive = s.inactive /\ r.active = s.active
    BY DEF DoPreRender, SourceRecord, SameControl
  <2> HIDE DEF r
  <2>3. Moved(s, r)
    BY <2>1, <2>2, MovedSame DEF Whole
  <2> QED
    BY <2>3 DEF r
<1>4. ASSUME NEW i \in Nat PROVE Moved(s, [s EXCEPT !.mCurrentBufferIndex = i])
  <2> DEFINE r == [s EXCEPT !.mCurrentBufferIndex = i]
  <2>1. r \in SourceRecord /\ s.odd \subseteq r.odd
    BY DEF SourceRecord
  <2>2. /\ SameControl(s, r) /\ r.attached = s.attached /\ r.thrown = s.thrown
        /\ r.mBuffersQueuedForClear = s.mBuffersQueuedForClear
        /\ r.inactive = s.inactive /\ r.active = s.active
    BY DEF SourceRecord, SameControl
  <2> HIDE DEF r
  <2>3. Moved(s, r)
    BY <2>1, <2>2, MovedSame DEF Whole
  <2> QED
    BY <2>3 DEF r
<1>5. ASSUME NEW f \in BOOLEAN PROVE Moved(s, [s EXCEPT !.mQueueIsProcessed = f])
  <2> DEFINE r == [s EXCEPT !.mQueueIsProcessed = f]
  <2>1. r \in SourceRecord /\ s.odd \subseteq r.odd
    BY DEF SourceRecord
  <2>2. /\ SameControl(s, r) /\ r.attached = s.attached /\ r.thrown = s.thrown
        /\ r.mBuffersQueuedForClear = s.mBuffersQueuedForClear
        /\ r.inactive = s.inactive /\ r.active = s.active
    BY DEF SourceRecord, SameControl
  <2> HIDE DEF r
  <2>3. Moved(s, r)
    BY <2>1, <2>2, MovedSame DEF Whole
  <2> QED
    BY <2>3 DEF r
<1>6. ASSUME NEW w \in Odds PROVE Moved(s, [s EXCEPT !.odd = @ \cup {w}])
  <2> DEFINE r == [s EXCEPT !.odd = @ \cup {w}]
  <2>1. r \in SourceRecord /\ s.odd \subseteq r.odd
    BY DEF SourceRecord
  <2>2. /\ SameControl(s, r) /\ r.attached = s.attached /\ r.thrown = s.thrown
        /\ r.mBuffersQueuedForClear = s.mBuffersQueuedForClear
        /\ r.inactive = s.inactive /\ r.active = s.active
    BY DEF SourceRecord, SameControl
  <2> HIDE DEF r
  <2>3. Moved(s, r)
    BY <2>1, <2>2, MovedSame DEF Whole
  <2> QED
    BY <2>3 DEF r
<1> QED
  BY <1>1, <1>2, <1>3, <1>4, <1>5, <1>6

LEMMA SwapMoves ==
  ASSUME NEW s \in SourceRecord
  PROVE  /\ Shuffled(s, Swap(s))
         /\ s.inactive = <<>> \/ s.active = <<>> => Moved(s, Swap(s))
         /\ Swap(s).inactive = s.active /\ Swap(s).active = s.inactive
         /\ Swap(s).mCurrentBufferIndex = s.mCurrentBufferIndex
<1> DEFINE r == Swap(s)
<1>1. r \in SourceRecord /\ r.inactive = s.active /\ r.active = s.inactive
      /\ r.mCurrentBufferIndex = s.mCurrentBufferIndex
  BY DEF Swap, SourceRecord
<1>2. SameControl(s, r) /\ r.attached = s.attached /\ r.thrown = s.thrown /\ s.odd \subseteq r.odd
      /\ r.mBuffersQueuedForClear = s.mBuffersQueuedForClear
  BY DEF Swap, SourceRecord, SameControl
<1>3. Shuffled(s, r)
  <2> HIDE DEF r
  <2>1. /\ Len(r.inactive) + Len(r.active) = Len(s.inactive) + Len(s.active)
        /\ \A b \in Buffer : Held(r.inactive, b) + Held(r.active, b) = Held(s.inactive, b) + Held(s.active, b)
    <3>1. Len(s.inactive) \in Nat /\ Len(s.active) \in Nat
          /\ \A b : Held(s.inactive, b) \in Nat /\ Held(s.active, b) \in Nat
      BY WholeIs
    <3>2. \A x, y \in Nat : x + y = y + x
      OBVIOUS
    <3> QED
      BY <1>1, <3>1, <3>2
  <2> QED
    BY <1>1, <1>2, <2>1, Relisted
<1>4. ASSUME s.inactive = <<>> \/ s.active = <<>> PROVE Whole(r) = Whole(s)
  <2> HIDE DEF r
  <2>1. s.inactive \in Seq(Buffer) /\ s.active \in Seq(Buffer)
    BY WholeIs
  <2>2. \A q \in Seq(Buffer) : q \o <<>> = q /\ <<>> \o q = q
    BY Joined
  <2>3. Whole(r) = s.active \o s.inactive
    BY <1>1 DEF Whole
  <2> QED
    BY <1>4, <2>1, <2>2, <2>3 DEF Whole
<1> QED
  BY <1>1, <1>3, <1>4 DEF Moved

LEMMA LoopMoves ==
  ASSUME NEW s \in SourceRecord
  PROVE  /\ Moved(s, LoopToBeginning(s))
         /\ LoopToBeginning(s).odd = s.odd /\ LoopToBeginning(s).mQueueIsProcessed = FALSE
<1> DEFINE c == ClearActiveQueue(s)
           w == Swap(c)
<1>1. Moved(s, c) /\ c \in SourceRecord /\ c.active = <<>> /\ c.odd = s.odd
  BY ClearMoves DEF Moved, Shuffled
<1>2. Moved(c, w) /\ w \in SourceRecord
  BY <1>1, SwapMoves DEF Moved, Shuffled
<1>3. Moved(w, Reset(w))
  BY <1>2, FieldMoves
<1>4. Reset(w).odd = c.odd /\ Reset(w).mQueueIsProcessed = FALSE
  BY <1>1, <1>2 DEF Reset, Swap, SourceRecord
<1> HIDE DEF c, w
<1>5. Moved(s, Reset(w))
  BY <1>1, <1>2, <1>3, MovedAgain
<1> QED
  BY <1>1, <1>4, <1>5 DEF LoopToBeginning, c, w

(* The index of a list with one place more than entries.                    *)
LEMMA PlaceIs ==
  ASSUME NEW s \in SourceRecord
  PROVE  /\ Place(s) \in 0 .. Len(s.active)
         /\ s.mCurrentBufferIndex <= Len(s.active) => Place(s) = s.mCurrentBufferIndex
         /\ ~HasCurrent(s) => Place(s) = Len(s.active) /\ s.mCurrentBufferIndex >= Len(s.active)
<1>1. Len(s.active) \in Nat /\ s.mCurrentBufferIndex \in Nat
  BY WholeIs DEF SourceRecord
<1>2. \A i \in Nat, n \in Nat : i % (n + 1) \in 0 .. n /\ (i <= n => i % (n + 1) = i) /\ i % (n + 1) <= i
  OBVIOUS
<1>3. /\ Place(s) \in 0 .. Len(s.active)
      /\ s.mCurrentBufferIndex <= Len(s.active) => Place(s) = s.mCurrentBufferIndex
      /\ Place(s) <= s.mCurrentBufferIndex
  BY <1>1, <1>2 DEF Place
<1> QED
  BY <1>1, <1>3 DEF HasCurrent

LEMMA NextMoves ==
  ASSUME NEW s \in SourceRecord
  PROVE  /\ Moved(s, NextPlayable(s))
         /\ NextPlayable(s).active = s.active /\ NextPlayable(s).inactive = s.inactive
         /\ NextPlayable(s).odd = s.odd
<1> DEFINE p == Place(s)
           L == Len(s.active)
           Q(q) == /\ q = L \/ s.active[q + 1] \in Playable
                   /\ \A r \in p .. q - 1 : s.active[r + 1] \notin Playable
           T == {q \in p .. L : q = L \/ s.active[q + 1] \in Playable}
<1>1. p \in Nat /\ L \in Nat /\ p <= L
  BY WholeIs, PlaceIs
<1> HIDE DEF p, L
<1>2. \E q \in p .. L : Q(q)
  <2>1. T \in SUBSET Nat /\ L \in T
    BY <1>1
  <2>2. PICK q \in T : \A k \in T : q <= k
    <3> HIDE DEF T
    <3> QED
      BY <2>1, Least
  <2>3. ASSUME NEW r \in p .. q - 1 PROVE s.active[r + 1] \notin Playable
    BY <1>1, <2>2, <2>3
  <2> QED
    BY <2>2, <2>3
<1> DEFINE c == CHOOSE q \in p .. L : Q(q)
<1>3. c \in p .. L
  <2> HIDE DEF Q
  <2> QED
    BY <1>2
<1>4. NextPlayable(s) = [s EXCEPT !.mCurrentBufferIndex = @ + (c - p)]
  BY DEF NextPlayable, p, L
<1> HIDE DEF c
<1>5. s.mCurrentBufferIndex + (c - p) \in Nat
  BY <1>1, <1>3 DEF SourceRecord
<1>6. Moved(s, NextPlayable(s))
  BY <1>4, <1>5, FieldMoves
<1> QED
  BY <1>4, <1>6 DEF SourceRecord

(* The entries before mCurrentBufferIndex have been played.                 *)
LEMMA UpdateMoves ==
  ASSUME NEW s \in SourceRecord
  PROVE  /\ Moved(s, UpdateQueue(s))
         /\ ~HasCurrent(s) => UpdateQueue(s).active = <<>>
<1> DEFINE r == UpdateQueue(s)
           n == Smaller(s.mCurrentBufferIndex, Len(s.active))
           h == SubSeq(s.active, 1, n)
           t == SubSeq(s.active, n + 1, Len(s.active))
<1>1. n \in 0 .. Len(s.active) /\ (s.mCurrentBufferIndex >= Len(s.active) => n = Len(s.active))
  BY WholeIs DEF Smaller, SourceRecord
<1> HIDE DEF n
<1>2. h \in Seq(Buffer) /\ t \in Seq(Buffer) /\ h \o t = s.active /\ Len(t) = Len(s.active) - n
  BY <1>1, WholeIs, Cut
<1> HIDE DEF h, t
<1>3. s.inactive \o h \in Seq(Buffer) /\ (s.inactive \o h) \o t = s.inactive \o s.active
  <2>1. s.inactive \in Seq(Buffer)
    BY WholeIs
  <2>2. (s.inactive \o h) \o t = s.inactive \o (h \o t)
    <3>1. \A p, q, u \in Seq(Buffer) : (p \o q) \o u = p \o (q \o u)
      BY ConcatAssociative
    <3> QED
      BY <1>2, <2>1, <3>1, Zenon
  <2>3. s.inactive \o h \in Seq(Buffer)
    BY <1>2, <2>1, Joined
  <2> QED
    BY <1>2, <2>2, <2>3
<1>4. /\ r \in SourceRecord /\ SameControl(s, r) /\ r.attached = s.attached
      /\ r.mBuffersQueuedForClear = s.mBuffersQueuedForClear
      /\ r.thrown = s.thrown /\ s.odd \subseteq r.odd
      /\ r.inactive = s.inactive \o h /\ r.active = t
  BY <1>2, <1>3 DEF UpdateQueue, SourceRecord, SameControl, n, h, t
<1>5. Whole(r) = Whole(s)
  BY <1>3, <1>4 DEF Whole
<1>6. ASSUME ~HasCurrent(s) PROVE t = <<>>
  <2>1. Len(t) = 0
    BY <1>1, <1>2, <1>6, PlaceIs, WholeIs
  <2> QED
    BY <1>2, <2>1, Joined
<1> HIDE DEF r
<1>7. Moved(s, r)
  BY <1>4, <1>5, MovedSame
<1> QED
  BY <1>4, <1>6, <1>7 DEF r

(* JoinBufferLists moves the entries from mCurrentBufferIndex on, one by    *)
(* one, behind the inactive ones.                                           *)
LEMMA CurrentMoves ==
  ASSUME NEW s \in SourceRecord
  PROVE  /\ Shuffled(s, MoveCurrent(s)) /\ MoveCurrent(s).odd = s.odd
         /\ MoveCurrent(s).mCurrentBufferIndex = s.mCurrentBufferIndex
<1> DEFINE r == MoveCurrent(s)
           n == Place(s)
<1>1. CASE HasCurrent(s)
  <2>1. n \in Nat /\ n < Len(s.active)
    BY <1>1, PlaceIs DEF HasCurrent
  <2>2. s.inactive \in Seq(Buffer) /\ s.active \in Seq(Buffer) /\ Len(s.inactive) \in Nat /\ Len(s.active) \in Nat
    BY WholeIs
  <2> DEFINE p == Append(s.inactive, s.active[n + 1])
             a == RemoveAt(s.active, n + 1)
  <2>3. r = [s EXCEPT !.inactive = p, !.active = a]
    BY <1>1 DEF MoveCurrent
  <2> HIDE DEF n, r
  <2>4. /\ p \in Seq(Buffer) /\ a \in Seq(Buffer)
        /\ Len(p) = Len(s.inactive) + 1 /\ Len(a) = Len(s.active) - 1
        /\ \A b : Held(p, b) + Held(a, b) = Held(s.inactive, b) + Held(s.active, b)
    BY <2>1, <2>2, OneMoves
  <2> HIDE DEF p, a
  <2>5. /\ r \in SourceRecord /\ SameControl(s, r) /\ r.attached = s.attached
        /\ r.mBuffersQueuedForClear = s.mBuffersQueuedForClear
        /\ r.thrown = s.thrown /\ r.odd = s.odd /\ r.mCurrentBufferIndex = s.mCurrentBufferIndex
        /\ r.inactive = p /\ r.active = a
    BY <2>3, <2>4 DEF SourceRecord, SameControl
  <2>6. Len(r.inactive) + Len(r.active) = Len(s.inactive) + Len(s.active)
    <3>1. \A x, y \in Nat : (x + 1) + (y - 1) = x + y
      OBVIOUS
    <3> QED
      BY <2>2, <2>4, <2>5, <3>1
  <2>7. \A b \in Buffer : Held(r.inactive, b) + Held(r.active, b) = Held(s.inactive, b) + Held(s.active, b)
    BY <2>4, <2>5
  <2>8. Shuffled(s, r)
    BY <2>5, <2>6, <2>7, Relisted
  <2> QED
    BY <2>5, <2>8 DEF r
<1>2. CASE ~HasCurrent(s)
  <2>1. r = s
    BY <1>2 DEF MoveCurrent
  <2> QED
    BY <2>1 DEF Shuffled, SameControl
<1> QED
  BY <1>1, <1>2

LEMMA ShuffledAgain ==
  ASSUME NEW s \in SourceRecord, NEW r, NEW u, Shuffled(s, r), Shuffled(r, u)
  PROVE  Shuffled(s, u)
  BY DEF Shuffled, SameControl

(* The turns of that loop.                                                  *)
LEMMA JoinTurns ==
  ASSUME NEW s \in SourceRecord
  PROVE  \E h : /\ h[0] = s /\ Times(MoveCurrent, Len(s.active), s) = h[Len(s.active)]
                /\ \A i \in 1 .. Len(s.active) : h[i] = MoveCurrent(h[i - 1])
                /\ \A i \in 0 .. Len(s.active) :
                     /\ Shuffled(s, h[i]) /\ h[i].odd = s.odd
                     /\ h[i].mCurrentBufferIndex = s.mCurrentBufferIndex
<1> DEFINE n == Len(s.active)
           S == {r \in SourceRecord : /\ Shuffled(s, r) /\ r.odd = s.odd
                                      /\ r.mCurrentBufferIndex = s.mCurrentBufferIndex}
           G == [i \in 1 .. n |-> [r \in S |-> MoveCurrent(r)]]
           R(f) == [i \in 0 .. n |-> IF i = 0 THEN s ELSE MoveCurrent(f[i - 1])]
           h == CHOOSE f : f = R(f)
<1>1. n \in Nat
  BY WholeIs
<1>2. s \in S
  BY DEF Shuffled, SameControl
<1>3. ASSUME NEW r \in S PROVE MoveCurrent(r) \in S
  <2>1. Shuffled(r, MoveCurrent(r)) /\ MoveCurrent(r).odd = r.odd
        /\ MoveCurrent(r).mCurrentBufferIndex = r.mCurrentBufferIndex
    BY <1>3, CurrentMoves
  <2>2. Shuffled(s, MoveCurrent(r))
    BY <1>3, <2>1, ShuffledAgain
  <2> QED
    BY <2>1, <2>2 DEF Shuffled
<1>4. Times(MoveCurrent, n, s) = h[n]
  BY DEF Times
<1> HIDE DEF S, n
<1>5. PICK f \in [0 .. n -> S] : f[0] = s /\ \A i \in 1 .. n : f[i] = G[i][f[i - 1]]
  <2>1. G \in [1 .. n -> [S -> S]]
    BY <1>3
  <2> HIDE DEF G, R, h
  <2>2. \A m \in Nat : \A X : \A x \in X : \A F \in [1 .. m -> [X -> X]] :
          \E f \in [0 .. m -> X] : f[0] = x /\ \A i \in 1 .. m : f[i] = F[i][f[i - 1]]
    BY Iterate
  <2>3. \A x \in S : \A F \in [1 .. n -> [S -> S]] :
          \E f \in [0 .. n -> S] : f[0] = x /\ \A i \in 1 .. n : f[i] = F[i][f[i - 1]]
    BY ONLY <1>1, <2>2
  <2> QED
    BY <1>2, <2>1, <2>3, Zenon
<1>6. ASSUME NEW i \in 1 .. n PROVE f[i] = MoveCurrent(f[i - 1])
  <2>1. f[i - 1] \in S /\ f[i] = G[i][f[i - 1]]
    <3> HIDE DEF G
    <3> QED
      BY <1>1, <1>5
  <2> QED
    BY <2>1
<1>7. f = R(f)
  <2>1. \A i \in 0 .. n : f[i] = IF i = 0 THEN s ELSE MoveCurrent(f[i - 1])
    BY <1>5, <1>6
  <2> QED
    BY <1>5, <2>1
<1>8. h = R(h)
  <2> HIDE DEF R
  <2> QED
    BY <1>7
<1>9. \A i \in 0 .. n : h[i] = IF i = 0 THEN s ELSE MoveCurrent(h[i - 1])
  <2>1. \A i \in 0 .. n : R(h)[i] = IF i = 0 THEN s ELSE MoveCurrent(h[i - 1])
    OBVIOUS
  <2> HIDE DEF h, R
  <2> QED
    BY <1>8, <2>1, Zenon
<1> HIDE DEF h, R
<1>10. h[0] = s /\ \A i \in 1 .. n : h[i] = MoveCurrent(h[i - 1])
  BY <1>1, <1>9
<1>11. \A i \in 0 .. n : h[i] \in S
  <2>1. \A i \in 1 .. n : h[i - 1] \in S => h[i] \in S
    BY <1>3, <1>10
  <2> QED
    BY <1>1, <1>2, <1>10, <2>1, Stays
<1>12. \A i \in 0 .. n : /\ Shuffled(s, h[i]) /\ h[i].odd = s.odd
                         /\ h[i].mCurrentBufferIndex = s.mCurrentBufferIndex
  BY <1>11 DEF S
<1> QED
  BY <1>4, <1>10, <1>12 DEF n

LEMMA Assoc ==
  /\ \A p, q \in Seq(Buffer) : p \o q \in Seq(Buffer)
  /\ \A p, q, u \in Seq(Buffer) : (p \o q) \o u = p \o (q \o u)
<1>1. \A p, q \in Seq(Buffer) : p \o q \in Seq(Buffer)
  BY ConcatProperties
<1>2. \A p, q, u \in Seq(Buffer) : (p \o q) \o u = p \o (q \o u)
  BY ConcatAssociative
<1> QED
  BY <1>1, <1>2

(* A queue and its two parts.                                               *)
LEMMA Parts ==
  ASSUME NEW p \in Seq(Buffer), NEW q \in Seq(Buffer)
  PROVE  /\ SubSeq(p \o q, 1, Len(p)) = p
         /\ SubSeq(p \o q, Len(p) + 1, Len(p \o q)) = q
<1> DEFINE a == p \o q
<1>1. Len(p) \in Nat /\ Len(q) \in Nat /\ a \in Seq(Buffer) /\ Len(a) = Len(p) + Len(q)
      /\ \A i \in 1 .. Len(p) : a[i] = p[i]
  <2>1. \A i \in 1 .. Len(p) + Len(q) : (p \o q)[i] = IF i <= Len(p) THEN p[i] ELSE q[i - Len(p)]
    BY ConcatProperties
  <2> QED
    BY <2>1, ConcatProperties, LenProperties
<1>2. SubSeq(a, Len(p) + 1, Len(a)) = SubSeq(p, Len(p) + 1, Len(p)) \o q
  <2>1. Len(p) \in 0 .. Len(p)
    BY <1>1
  <2> QED
    BY ONLY <2>1, CutFront DEF a
<1>3. SubSeq(p, Len(p) + 1, Len(p)) = <<>>
  <2>1. /\ SubSeq(p, Len(p) + 1, Len(p)) \in Seq(Buffer)
        /\ Len(SubSeq(p, Len(p) + 1, Len(p))) = Len(p) - Len(p)
    <3>1. Len(p) \in 0 .. Len(p)
      BY <1>1
    <3> QED
      BY ONLY <3>1, Cut
  <2> QED
    BY <1>1, <2>1, EmptySeq
<1>4. SubSeq(a, 1, Len(p)) = p
  <2> HIDE DEF a
  <2>1. Len(p) \in 0 .. Len(a)
    BY <1>1
  <2>2. /\ SubSeq(a, 1, Len(p)) \in Seq(Buffer) /\ Len(SubSeq(a, 1, Len(p))) = Len(p)
        /\ \A i \in 1 .. Len(p) : SubSeq(a, 1, Len(p))[i] = a[i]
    BY ONLY <1>1, <2>1, Cut
  <2> QED
    BY <1>1, <2>2, SeqEqual
<1> QED
  BY <1>2, <1>3, <1>4, ConcatEmptySeq

LEMMA FirstRest ==
  ASSUME NEW q \in Seq(Buffer), Len(q) > 0
  PROVE  /\ q[1] \in Buffer /\ <<q[1]>> \in Seq(Buffer) /\ Len(<<q[1]>>) = 1
         /\ SubSeq(q, 2, Len(q)) \in Seq(Buffer) /\ Len(SubSeq(q, 2, Len(q))) = Len(q) - 1
         /\ <<q[1]>> \o SubSeq(q, 2, Len(q)) = q
<1>1. Len(q) \in Nat /\ 1 \in 0 .. Len(q) /\ 1 \in 1 .. Len(q) /\ 1 \in 1 .. 1 /\ 1 + 1 = 2
  BY LenProperties
<1>2. q[1] \in Buffer
  BY <1>1, ElementOfSeq
<1>3. <<q[1]>> \in Seq(Buffer) /\ Len(<<q[1]>>) = 1 /\ <<q[1]>>[1] = q[1]
  BY <1>2
<1>4. /\ SubSeq(q, 1, 1) \in Seq(Buffer) /\ SubSeq(q, 1 + 1, Len(q)) \in Seq(Buffer)
      /\ Len(SubSeq(q, 1, 1)) = 1 /\ Len(SubSeq(q, 1 + 1, Len(q))) = Len(q) - 1
      /\ SubSeq(q, 1, 1) \o SubSeq(q, 1 + 1, Len(q)) = q
      /\ \A i \in 1 .. 1 : SubSeq(q, 1, 1)[i] = q[i]
  BY ONLY <1>1, Cut
<1>5. SubSeq(q, 1, 1) = <<q[1]>>
  <2>1. \A x, y \in Seq(Buffer) : Len(x) = Len(y) /\ (\A i \in 1 .. Len(x) : x[i] = y[i]) => x = y
    BY ONLY SeqEqual
  <2>2. \A i \in 1 .. 1 : SubSeq(q, 1, 1)[i] = <<q[1]>>[i]
    BY <1>3, <1>4
  <2> QED
    BY <1>3, <1>4, <2>1, <2>2
<1> QED
  BY <1>1, <1>2, <1>3, <1>4, <1>5

(* The entry after the first ones leaves a list.                            *)
LEMMA OneLeaves ==
  ASSUME NEW p \in Seq(Buffer), NEW q \in Seq(Buffer), Len(q) > 0
  PROVE  /\ (p \o q)[Len(p) + 1] = q[1]
         /\ RemoveAt(p \o q, Len(p) + 1) = p \o SubSeq(q, 2, Len(q))
<1> DEFINE a == p \o q
           e == <<q[1]>>
           t == SubSeq(q, 2, Len(q))
           d == p \o e
<1>1. Len(p) \in Nat /\ Len(q) \in Nat
  BY LenProperties
<1>2. e \in Seq(Buffer) /\ Len(e) = 1 /\ t \in Seq(Buffer) /\ e \o t = q
  BY FirstRest
<1>3. a[Len(p) + 1] = q[1]
  <2>1. Len(p) + 1 \in 1 .. Len(p) + Len(q) /\ ~(Len(p) + 1 <= Len(p)) /\ (Len(p) + 1) - Len(p) = 1
    BY <1>1
  <2>2. \A i \in 1 .. Len(p) + Len(q) : (p \o q)[i] = IF i <= Len(p) THEN p[i] ELSE q[i - Len(p)]
    BY ConcatProperties
  <2> QED
    BY <2>1, <2>2
<1>4. d \in Seq(Buffer) /\ Len(d) = Len(p) + 1
  BY <1>2, ConcatProperties
<1>5. d \o t = a
  <2> HIDE DEF e, t
  <2>2. (p \o e) \o t = p \o (e \o t)
    BY <1>2, Assoc, Zenon
  <2> QED
    BY <1>2, <2>2
<1>6. SubSeq(a, 1, Len(p)) = p
  BY Parts
<1>7. SubSeq(a, (Len(p) + 1) + 1, Len(a)) = t
  <2> HIDE DEF a, d, t, e
  <2>1. SubSeq(d \o t, Len(d) + 1, Len(d \o t)) = t
    BY <1>2, <1>4, Parts
  <2> QED
    BY <1>4, <1>5, <2>1
<1>8. RemoveAt(a, Len(p) + 1) = SubSeq(a, 1, Len(p)) \o SubSeq(a, (Len(p) + 1) + 1, Len(a))
  <2>1. (Len(p) + 1) - 1 = Len(p)
    BY <1>1
  <2> QED
    BY <2>1, Zenon DEF RemoveAt
<1> QED
  BY <1>3, <1>6, <1>7, <1>8

(* The entries Q go from behind P to behind I; at most m have not gone yet.  *)
Turned(r, P, I, Q, m) ==
  \E X, R \in Seq(Buffer) : /\ X \o R = Q /\ Len(R) <= m
                              /\ r.active = P \o R /\ r.inactive = I \o X

(* A turn at an index inside the list: the entry after the first ones goes. *)
LEMMA TurnIs ==
  ASSUME NEW r \in SourceRecord, NEW P \in Seq(Buffer), NEW R \in Seq(Buffer),
         NEW I \in Seq(Buffer), NEW X \in Seq(Buffer),
         r.active = P \o R, r.inactive = I \o X, r.mCurrentBufferIndex = Len(P)
  PROVE  /\ Len(R) = 0 => MoveCurrent(r) = r
         /\ Len(R) > 0 => Turned(MoveCurrent(r), P, I, X \o R, Len(R) - 1)
<1> DEFINE m == MoveCurrent(r)
           n == Len(P)
           a == P \o R
<1>1. Len(P) \in Nat /\ Len(R) \in Nat /\ Len(a) = Len(P) + Len(R)
  BY ConcatProperties, LenProperties
<1> HIDE DEF a, n
<1>2. Place(r) = n
  <2>1. Len(r.active) = Len(P) + Len(R)
    BY <1>1 DEF a
  <2>2. r.mCurrentBufferIndex <= Len(r.active)
    BY <1>1, <2>1
  <2> QED
    BY <2>2, PlaceIs DEF n
<1>3. CASE Len(R) = 0
  <2>1. m = r
    BY <1>1, <1>2, <1>3 DEF MoveCurrent, HasCurrent, a, n
  <2> QED
    BY <1>3, <2>1
<1>4. CASE Len(R) > 0
  <2> DEFINE t == SubSeq(R, 2, Len(R))
             e == <<R[1]>>
  <2>1. m = [r EXCEPT !.inactive = Append(r.inactive, r.active[n + 1]), !.active = RemoveAt(r.active, n + 1)]
    <3>1. Place(r) < Len(r.active)
      BY <1>1, <1>2, <1>4 DEF a, n
    <3>2. HasCurrent(r)
      BY <3>1 DEF HasCurrent
    <3> QED
      BY <1>2, <3>2, Zenon DEF MoveCurrent
  <2>2. r.active[n + 1] = R[1] /\ RemoveAt(r.active, n + 1) = P \o t
    <3>1. (P \o R)[Len(P) + 1] = R[1] /\ RemoveAt(P \o R, Len(P) + 1) = P \o t
      BY <1>4, OneLeaves
    <3> QED
      BY <3>1 DEF n
  <2>3. R[1] \in Buffer /\ e \in Seq(Buffer) /\ t \in Seq(Buffer) /\ Len(t) = Len(R) - 1 /\ e \o t = R
    BY <1>4, FirstRest
  <2>4. Append(r.inactive, R[1]) = r.inactive \o e
    <3>1. \A q \in Seq(Buffer), x \in Buffer : Append(q, x) = q \o <<x>>
      BY ONLY AppendIsConcat
    <3> QED
      BY <2>3, <3>1, WholeIs
  <2> HIDE DEF e, t, m
  <2>5. m.inactive = Append(r.inactive, r.active[n + 1]) /\ m.active = RemoveAt(r.active, n + 1)
    BY <2>1 DEF SourceRecord
  <2>6. /\ (I \o X) \o e = I \o (X \o e) /\ (X \o e) \o t = X \o (e \o t) /\ X \o e \in Seq(Buffer)
    <3>1. X \o e \in Seq(Buffer)
      BY <2>3, Assoc, Zenon
    <3>2. (I \o X) \o e = I \o (X \o e)
      BY <2>3, Assoc, ZenonT(40)
    <3>3. (X \o e) \o t = X \o (e \o t)
      BY <2>3, Assoc, ZenonT(40)
    <3> QED
      BY <3>1, <3>2, <3>3
  <2>7. m.inactive = I \o (X \o e) /\ m.active = P \o t /\ (X \o e) \o t = X \o R
    BY <2>2, <2>3, <2>4, <2>5, <2>6, Zenon
  <2>8. Turned(m, P, I, X \o R, Len(R) - 1)
    <3>1. Len(t) <= Len(R) - 1
      BY <1>1, <2>3
    <3> QED
      BY <2>3, <2>6, <2>7, <3>1, Zenon DEF Turned
  <2> HIDE DEF m
  <2>9. m = MoveCurrent(r) /\ ~(Len(R) = 0)
    BY <1>4 DEF m
  <2> QED
    BY <1>4, <2>8, <2>9, Zenon
<1> QED
  BY <1>1, <1>3, <1>4

LEMMA TurnKeeps ==
  ASSUME NEW r \in SourceRecord, NEW P \in Seq(Buffer), NEW I \in Seq(Buffer), NEW Q \in Seq(Buffer),
         NEW m \in Nat, NEW l \in Nat, m <= l + 1,
         r.mCurrentBufferIndex = Len(P), Turned(r, P, I, Q, m)
  PROVE  Turned(MoveCurrent(r), P, I, Q, l)
<1>1. PICK X \in Seq(Buffer), R \in Seq(Buffer) : /\ X \o R = Q /\ Len(R) <= m
                                                    /\ r.active = P \o R /\ r.inactive = I \o X
  BY Zenon DEF Turned
<1> DEFINE u == MoveCurrent(r)
<1> HIDE DEF u
<1>2. /\ Len(R) = 0 => u = r
      /\ Len(R) > 0 => Turned(u, P, I, X \o R, Len(R) - 1)
  <2>1. r.active = P \o R /\ r.inactive = I \o X /\ r.mCurrentBufferIndex = Len(P)
    BY <1>1
  <2> QED
    BY <2>1, TurnIs DEF u
<1>3. Len(R) \in Nat
  BY LenProperties
<1>4. CASE Len(R) = 0
  <2>1. Len(R) <= l /\ u = r
    BY <1>2, <1>4
  <2> QED
    BY <1>1, <2>1, Zenon DEF Turned, u
<1>5. CASE Len(R) > 0
  <2>1. PICK y \in Seq(Buffer), t \in Seq(Buffer) :
            /\ y \o t = X \o R /\ Len(t) <= Len(R) - 1
            /\ u.active = P \o t /\ u.inactive = I \o y
    BY <1>2, <1>5, Zenon DEF Turned
  <2>2. Len(t) <= l
    BY <1>1, <1>3, <2>1, LenProperties
  <2>3. y \o t = Q
    BY <1>1, <2>1
  <2> QED
    BY <2>1, <2>2, <2>3, Zenon DEF Turned, u
<1> QED
  BY <1>3, <1>4, <1>5

LEMMA NoteMoves ==
  ASSUME NEW s \in SourceRecord, NEW w \in Odds, NEW c \in BOOLEAN
  PROVE  /\ Moved(s, Note(s, w, c)) /\ (c => Note(s, w, c).odd # {})
         /\ Note(s, w, c).active = s.active /\ Note(s, w, c).inactive = s.inactive
<1>1. Moved(s, s)
  BY DEF Moved, Shuffled, SameControl
<1>2. Moved(s, [s EXCEPT !.odd = @ \cup {w}])
  BY FieldMoves
<1> QED
  BY <1>1, <1>2 DEF Note, SourceRecord

(* The order stays as it was when the index is that of an entry and one of  *)
(* the lists in front of the entries that move is empty.                    *)
LEMMA JoinKeeps ==
  ASSUME NEW s \in SourceRecord, NEW P \in Seq(Buffer), NEW Q \in Seq(Buffer),
         s.active = P \o Q, s.mCurrentBufferIndex = Len(P), P = <<>> \/ s.inactive = <<>>
  PROVE  LET z == Times(MoveCurrent, Len(s.active), s) IN z.active \o z.inactive = Whole(s)
<1>1. PICK h : /\ h[0] = s /\ Times(MoveCurrent, Len(s.active), s) = h[Len(s.active)]
               /\ \A i \in 1 .. Len(s.active) : h[i] = MoveCurrent(h[i - 1])
               /\ \A i \in 0 .. Len(s.active) :
                    /\ Shuffled(s, h[i]) /\ h[i].odd = s.odd
                    /\ h[i].mCurrentBufferIndex = s.mCurrentBufferIndex
  BY JoinTurns
<1> DEFINE n == Len(s.active)
           I == s.inactive
           T == {k \in Nat : k <= n => Turned(h[k], P, I, Q, n - k)}
<1>2. n \in Nat /\ I \in Seq(Buffer) /\ Len(Q) <= n /\ Len(Q) \in Nat
  <2>1. n = Len(P) + Len(Q) /\ Len(P) \in Nat /\ Len(Q) \in Nat
    BY ConcatProperties, LenProperties
  <2>2. I \in Seq(Buffer)
    BY WholeIs
  <2> HIDE DEF n
  <2> QED
    BY <2>1, <2>2
<1> HIDE DEF n, I
<1>3. 0 \in T
  <2>1. <<>> \in Seq(Buffer) /\ <<>> \o Q = Q /\ I \o <<>> = I
    BY <1>2, ConcatEmptySeq, EmptySeq
  <2>2. Len(Q) <= n - 0
    BY <1>2
  <2>3. h[0].active = P \o Q /\ h[0].inactive = I \o <<>>
    BY <1>1, <2>1 DEF I
  <2>4. Turned(h[0], P, I, Q, n - 0)
    BY <2>1, <2>2, <2>3, Zenon DEF Turned
  <2> QED
    BY <2>4
<1>4. ASSUME NEW k \in Nat, k \in T PROVE k + 1 \in T
  <2>1. SUFFICES ASSUME k + 1 <= n PROVE Turned(h[k + 1], P, I, Q, n - (k + 1))
    BY <1>4
  <2>2. /\ k \in 0 .. n /\ k + 1 \in 1 .. n /\ (k + 1) - 1 = k /\ k <= n
        /\ n - k \in Nat /\ n - (k + 1) \in Nat /\ n - k <= (n - (k + 1)) + 1
    <3> HIDE DEF T
    <3>1. \A i, j \in Nat : i + 1 <= j =>
            /\ i \in 0 .. j /\ i + 1 \in 1 .. j /\ (i + 1) - 1 = i /\ i <= j
            /\ j - i \in Nat /\ j - (i + 1) \in Nat /\ j - i <= (j - (i + 1)) + 1
      OBVIOUS
    <3>2. n \in Nat
      BY <1>2
    <3> QED
      BY ONLY <2>1, <3>1, <3>2, k \in Nat
  <2>3. Turned(h[k], P, I, Q, n - k)
    BY <1>4, <2>2
  <2> HIDE DEF T
  <2>4. h[k + 1] = MoveCurrent(h[k]) /\ h[k] \in SourceRecord /\ h[k].mCurrentBufferIndex = Len(P)
    BY <1>1, <2>2 DEF Shuffled, n
  <2>5. Turned(MoveCurrent(h[k]), P, I, Q, n - (k + 1))
    BY <1>2, <2>2, <2>3, <2>4, TurnKeeps
  <2> QED
    BY <2>4, <2>5
<1>5. Nat \subseteq T
  <2> HIDE DEF T
  <2> QED
    BY <1>3, <1>4, Induct
<1>6. PICK X \in Seq(Buffer), R \in Seq(Buffer) :
        /\ X \o R = Q /\ Len(R) <= 0
        /\ h[n].active = P \o R /\ h[n].inactive = I \o X
  <2>1. n \in Nat /\ n <= n /\ n - n = 0
    BY <1>2
  <2>2. Turned(h[n], P, I, Q, 0)
    BY <1>5, <2>1
  <2> QED
    BY <2>2, Zenon DEF Turned
<1>7. R = <<>>
  <2>1. Len(R) = 0
    BY <1>6, LenProperties
  <2> QED
    BY <2>1, EmptySeq
<1>8. X = Q /\ h[n].active = P /\ h[n].inactive = I \o Q
  BY <1>6, <1>7, ConcatEmptySeq
<1>9. P \o (I \o Q) = I \o (P \o Q)
  <2>1. \A q \in Seq(Buffer) : <<>> \o q = q
    BY ConcatEmptySeq
  <2>2. I \o Q \in Seq(Buffer) /\ P \o Q \in Seq(Buffer)
    BY <1>2, Assoc
  <2> QED
    BY <1>2, <2>1, <2>2 DEF I
<1> QED
  BY <1>1, <1>8, <1>9 DEF Whole, I, n

LEMMA JoinMoves ==
  ASSUME NEW s \in SourceRecord
  PROVE  /\ Moved(s, JoinBufferLists(s))
         /\ JoinBufferLists(s).mCurrentBufferIndex = 0
<1> DEFINE z == Times(MoveCurrent, Len(s.active), s)
           w == Swap(z)
           r == Reset(w)
           c == /\ s.active # <<>> /\ s.mCurrentBufferIndex > 0
                /\ s.inactive # <<>> \/ s.mCurrentBufferIndex > Len(s.active)
<1>1. Shuffled(s, z) /\ z.odd = s.odd /\ z \in SourceRecord
  <2>1. PICK h : /\ h[0] = s /\ Times(MoveCurrent, Len(s.active), s) = h[Len(s.active)]
                 /\ \A i \in 0 .. Len(s.active) :
                      /\ Shuffled(s, h[i]) /\ h[i].odd = s.odd
                      /\ h[i].mCurrentBufferIndex = s.mCurrentBufferIndex
    BY JoinTurns, ZenonT(40)
  <2>2. Len(s.active) \in 0 .. Len(s.active)
    BY WholeIs
  <2> QED
    BY <2>1, <2>2 DEF Shuffled
<1> HIDE DEF z
<1>2. Shuffled(z, w) /\ w.active = z.inactive /\ w.inactive = z.active /\ w.odd = z.odd /\ w \in SourceRecord
  BY <1>1, SwapMoves DEF Swap, Shuffled, SourceRecord
<1> HIDE DEF w
<1>3. Moved(w, r) /\ r.odd = w.odd /\ Whole(r) = Whole(w) /\ r.mCurrentBufferIndex = 0 /\ r \in SourceRecord
  <2>1. Moved(w, r) /\ r \in SourceRecord
    BY <1>2, FieldMoves DEF Moved, Shuffled
  <2> QED
    BY <1>2, <2>1 DEF Reset, SourceRecord, Whole
<1> HIDE DEF r
<1>4. Shuffled(s, r)
  BY <1>1, <1>2, <1>3, ShuffledAgain DEF Moved
<1>5. ASSUME ~c PROVE Whole(r) = Whole(s)
  <2>1. s.active \in Seq(Buffer) /\ s.inactive \in Seq(Buffer) /\ Len(s.active) \in Nat
        /\ s.mCurrentBufferIndex \in Nat
    BY WholeIs DEF SourceRecord
  <2>2. Whole(r) = z.active \o z.inactive
    BY <1>2, <1>3 DEF Whole
  <2>3. CASE s.active = <<>>
    <3>1. z = s
      <4>1. PICK h : h[0] = s /\ Times(MoveCurrent, Len(s.active), s) = h[Len(s.active)]
        BY JoinTurns
      <4>2. Len(s.active) = 0
        BY <2>3
      <4> QED
        BY <4>1, <4>2 DEF z
    <3> QED
      BY <2>1, <2>2, <2>3, <3>1, ConcatEmptySeq DEF Whole
  <2>4. CASE s.mCurrentBufferIndex = 0
    <3>1. <<>> \in Seq(Buffer) /\ s.active = <<>> \o s.active /\ Len(<<>>) = 0
      BY <2>1, ConcatEmptySeq, EmptySeq
    <3>2. z.active \o z.inactive = Whole(s)
      BY <2>1, <2>4, <3>1, JoinKeeps DEF z
    <3> QED
      BY <2>2, <3>2
  <2>5. CASE s.inactive = <<>> /\ s.mCurrentBufferIndex <= Len(s.active)
    <3> DEFINE P == SubSeq(s.active, 1, s.mCurrentBufferIndex)
               Q == SubSeq(s.active, s.mCurrentBufferIndex + 1, Len(s.active))
    <3>1. P \in Seq(Buffer) /\ Q \in Seq(Buffer) /\ Len(P) = s.mCurrentBufferIndex /\ s.active = P \o Q
      <4>1. s.mCurrentBufferIndex \in 0 .. Len(s.active)
        BY <2>1, <2>5
      <4> QED
        BY <2>1, <4>1, Cut
    <3> HIDE DEF P, Q
    <3>2. z.active \o z.inactive = Whole(s)
      BY <2>5, <3>1, JoinKeeps DEF z
    <3> QED
      BY <2>2, <3>2
  <2> QED
    BY <1>5, <2>1, <2>3, <2>4, <2>5
<1> HIDE DEF c
<1>6. c \in BOOLEAN
  BY DEF c
<1>7. JoinBufferLists(s) = Note(r, "joined", c)
  BY DEF JoinBufferLists, r, w, z, c
<1>8. Moved(r, Note(r, "joined", c)) /\ (c => Note(r, "joined", c).odd # {})
      /\ Note(r, "joined", c).mCurrentBufferIndex = 0
  <2>1. "joined" \in Odds
    BY DEF Odds
  <2>2. Note(r, "joined", c).mCurrentBufferIndex = 0
    BY <1>3 DEF Note, SourceRecord
  <2> QED
    BY <1>3, <1>6, <2>1, <2>2, NoteMoves
<1>9. Moved(s, Note(r, "joined", c))
  BY <1>4, <1>5, <1>8 DEF Moved, Shuffled, SameControl
<1> QED
  BY <1>7, <1>8, <1>9

(* The render thread moves entries only.                                    *)
LEMMA CrossMoves ==
  ASSUME NEW s \in SourceRecord
  PROVE  Moved(s, Cross(s))
<1> DEFINE c == NextPlayable(s)
           i == [c EXCEPT !.mCurrentBufferIndex = @ + 1]
           r == NextPlayable(i)
           d == Dry(Swap(r))
<1>1. Moved(s, c) /\ c \in SourceRecord
  BY NextMoves DEF Moved, Shuffled
<1> HIDE DEF c
<1>2. Moved(c, i) /\ i \in SourceRecord
  <2>1. c.mCurrentBufferIndex + 1 \in Nat
    BY <1>1 DEF SourceRecord
  <2> QED
    BY <1>1, <2>1, FieldMoves DEF Moved, Shuffled
<1> HIDE DEF i
<1>3. Moved(i, r) /\ r \in SourceRecord
  BY <1>2, NextMoves DEF Moved, Shuffled
<1> HIDE DEF r
<1>4. Moved(s, r)
  <2>1. Moved(s, i)
    BY <1>1, <1>2, MovedAgain
  <2> QED
    BY <1>3, <2>1, MovedAgain
<1>5. Moved(s, s)
  BY DEF Moved, Shuffled, SameControl
<1>6. Moved(s, LoopToBeginning(r))
  BY <1>3, <1>4, LoopMoves, MovedAgain
<1>7. Moved(s, Dry(r))
  BY <1>3, <1>4, FieldMoves, MovedAgain
<1>8. Moved(s, Note(d, "swapped", r.inactive # <<>>))
  <2>1. Shuffled(r, Swap(r)) /\ (r.inactive = <<>> => Moved(r, Swap(r))) /\ Swap(r) \in SourceRecord
    BY <1>3, SwapMoves DEF Shuffled
  <2>2. Moved(Swap(r), d) /\ d \in SourceRecord
    BY <2>1, FieldMoves DEF Moved, Shuffled
  <2> HIDE DEF d
  <2>3. Shuffled(r, d)
    BY <1>3, <2>1, <2>2, ShuffledAgain DEF Moved
  <2> DEFINE f == r.inactive # <<>>
             o == Note(d, "swapped", f)
  <2>4. "swapped" \in Odds /\ f \in BOOLEAN
    BY DEF Odds
  <2> HIDE DEF f
  <2>5. Moved(d, o) /\ (f => o.odd # {})
    BY <2>2, <2>4, NoteMoves
  <2> HIDE DEF o
  <2>6. Shuffled(r, o)
    BY <1>3, <2>3, <2>5, ShuffledAgain DEF Moved
  <2>7. ~f => Moved(r, o)
    <3>1. ~f => Moved(r, d)
      BY <1>3, <2>1, <2>2, MovedAgain DEF f
    <3> QED
      BY <1>3, <2>5, <3>1, MovedAgain
  <2>8. Moved(r, o)
    BY <2>5, <2>6, <2>7 DEF Moved
  <2> QED
    BY <1>4, <2>8, MovedAgain DEF o, f
<1>9. \/ Cross(s) = s \/ Cross(s) = LoopToBeginning(r) \/ Cross(s) = Dry(r) \/ Cross(s) = r
      \/ Cross(s) = Note(d, "swapped", r.inactive # <<>>)
  <2> DEFINE b == c.active[Place(c) + 1] \in Converted
  <2> HIDE DEF b, d
  <2>1. Cross(s) = IF s.mQueueIsProcessed THEN s
                   ELSE CASE r.mLooping /\ (b \/ ~HasCurrent(r)) -> LoopToBeginning(r)
                          [] ~r.mLooping /\ ~HasCurrent(r) ->
                               IF b THEN Note(d, "swapped", r.inactive # <<>>) ELSE Dry(r)
                          [] OTHER -> r
    BY Zenon DEF Cross, c, i, r, d, b
  <2> QED
    BY <2>1
<1> QED
  BY <1>4, <1>5, <1>6, <1>7, <1>8, <1>9

LEMMA CrossAgain ==
  ASSUME NEW s \in SourceRecord, NEW n \in Nat
  PROVE  Moved(s, Times(Cross, n, s))
<1> DEFINE S == {r \in SourceRecord : Moved(s, r)}
           G == [i \in 1 .. n |-> [r \in S |-> Cross(r)]]
           R(f) == [i \in 0 .. n |-> IF i = 0 THEN s ELSE Cross(f[i - 1])]
           h == CHOOSE f : f = R(f)
<1>1. s \in S
  BY DEF Moved, Shuffled, SameControl
<1>2. ASSUME NEW r \in S PROVE Cross(r) \in S
  <2>1. Moved(r, Cross(r))
    BY <1>2, CrossMoves
  <2>2. Moved(s, Cross(r))
    BY <1>2, <2>1, MovedAgain
  <2> QED
    BY <2>2 DEF Moved, Shuffled
<1>3. Times(Cross, n, s) = h[n]
  BY DEF Times
<1> HIDE DEF S
<1>4. PICK f \in [0 .. n -> S] : f[0] = s /\ \A i \in 1 .. n : f[i] = G[i][f[i - 1]]
  <2>1. G \in [1 .. n -> [S -> S]]
    BY <1>2
  <2> HIDE DEF G, R, h
  <2>2. \A m \in Nat : \A X : \A x \in X : \A F \in [1 .. m -> [X -> X]] :
          \E f \in [0 .. m -> X] : f[0] = x /\ \A i \in 1 .. m : f[i] = F[i][f[i - 1]]
    BY Iterate
  <2>3. \A x \in S : \A F \in [1 .. n -> [S -> S]] :
          \E f \in [0 .. n -> S] : f[0] = x /\ \A i \in 1 .. n : f[i] = F[i][f[i - 1]]
    BY ONLY <2>2, n \in Nat
  <2> QED
    BY <1>1, <2>1, <2>3, Zenon
<1>5. ASSUME NEW i \in 1 .. n PROVE f[i] = Cross(f[i - 1])
  <2>1. f[i - 1] \in S /\ f[i] = G[i][f[i - 1]]
    <3> HIDE DEF G
    <3> QED
      BY <1>4
  <2> QED
    BY <2>1
<1>6. f = R(f)
  <2>1. \A i \in 0 .. n : f[i] = IF i = 0 THEN s ELSE Cross(f[i - 1])
    BY <1>4, <1>5
  <2> QED
    BY <1>4, <2>1
<1>7. h = R(h)
  <2> HIDE DEF R
  <2> QED
    BY <1>6
<1>8. \A i \in 0 .. n : h[i] = IF i = 0 THEN s ELSE Cross(h[i - 1])
  <2>1. \A i \in 0 .. n : R(h)[i] = IF i = 0 THEN s ELSE Cross(h[i - 1])
    OBVIOUS
  <2> HIDE DEF h, R
  <2> QED
    BY <1>7, <2>1, Zenon
<1> HIDE DEF h, R
<1>9. h[0] = s /\ \A i \in 1 .. n : h[i] = Cross(h[i - 1])
  BY <1>8
<1>10. \A i \in 0 .. n : h[i] \in S
  <2>1. \A i \in 1 .. n : h[i - 1] \in S => h[i] \in S
    BY <1>2, <1>9
  <2> QED
    BY <1>1, <1>9, <2>1, Stays
<1> QED
  BY <1>3, <1>10 DEF S

LEMMA FillMoves ==
  ASSUME NEW s \in SourceRecord, NEW n \in Nat
  PROVE  Moved(s, Fill(s, n))
<1>1. Moved(s, s)
  BY DEF Moved, Shuffled, SameControl
<1>2. Moved(s, Times(Cross, n, s))
  BY CrossAgain
<1>3. Moved(s, Dry(NextPlayable(s)))
  <2>1. Moved(s, NextPlayable(s)) /\ NextPlayable(s) \in SourceRecord
    BY NextMoves DEF Moved, Shuffled
  <2> QED
    BY <2>1, FieldMoves, MovedAgain
<1> QED
  BY <1>1, <1>2, <1>3 DEF Fill

LEMMA RenderMoves ==
  ASSUME NEW s \in SourceRecord, NEW n \in Nat
  PROVE  \E r \in SourceRecord : Moved(s, r) /\ DoRender(s, n) = Ramp(r)
<1> DEFINE p == NextPlayable(s)
           u == UpdateQueue(p)
<1>1. Moved(s, p) /\ p \in SourceRecord
  BY NextMoves DEF Moved, Shuffled
<1> HIDE DEF p
<1>2. Moved(s, u) /\ u \in SourceRecord /\ (~HasCurrent(p) => u.active = <<>>)
  <2>1. Moved(p, u) /\ (~HasCurrent(p) => u.active = <<>>)
    BY <1>1, UpdateMoves
  <2> HIDE DEF u
  <2> QED
    BY <1>1, <2>1, MovedAgain DEF Moved, Shuffled
<1> HIDE DEF u
<1>3. Moved(s, Fill(u, n)) /\ Moved(s, Dry(u))
  BY <1>2, FillMoves, FieldMoves, MovedAgain
<1>4. ASSUME ~HasCurrent(p) PROVE Moved(s, Fill(Swap(u), n))
  <2>1. Moved(u, Swap(u)) /\ Swap(u) \in SourceRecord
    BY <1>2, <1>4, SwapMoves DEF Moved, Shuffled
  <2>2. Moved(s, Swap(u))
    BY <1>2, <2>1, MovedAgain
  <2>3. Moved(Swap(u), Fill(Swap(u), n))
    BY <2>1, FillMoves
  <2> QED
    BY <2>2, <2>3, MovedAgain
<1>5. DoRender(s, n) = Ramp(CASE HasCurrent(p) -> Fill(u, n)
                              [] ~HasCurrent(p) /\ s.mLooping -> Fill(Swap(u), n)
                              [] OTHER -> Dry(u))
  BY DEF DoRender, u, p
<1>6. \E r : Moved(s, r) /\ DoRender(s, n) = Ramp(r)
  BY <1>3, <1>4, <1>5
<1> QED
  BY <1>6 DEF Moved, Shuffled

LEMMA AdvanceMoves ==
  ASSUME NEW s \in SourceRecord, NEW offset
  PROVE  LET r == AdvanceQueueToFrameIndex(s, offset) IN r = Throw(s) \/ (Moved(s, r) /\ r.thrown = s.thrown)
<1> DEFINE r == AdvanceQueueToFrameIndex(s, offset)
           N == {k \in 1 .. Len(s.active) : Frames(SubSeq(s.active, 1, k)) <= offset}
           n == Cardinality(N)
           h == SubSeq(s.active, 1, n)
           t == SubSeq(s.active, n + 1, Len(s.active))
<1>1. n \in 0 .. Len(s.active)
  <2>1. Len(s.active) \in Nat
    BY WholeIs
  <2>2. IsFiniteSet(1 .. Len(s.active)) /\ Cardinality(1 .. Len(s.active)) = Len(s.active)
    BY <2>1, FS_Interval
  <2>3. N \subseteq 1 .. Len(s.active)
    OBVIOUS
  <2> HIDE DEF N
  <2>4. IsFiniteSet(N) /\ n <= Len(s.active)
    BY <2>2, <2>3, FS_Subset
  <2>5. n \in Nat
    BY <2>4, FS_CardinalityType
  <2> QED
    BY <2>1, <2>4, <2>5
<1> HIDE DEF n
<1>2. h \in Seq(Buffer) /\ t \in Seq(Buffer) /\ h \o t = s.active
  BY <1>1, WholeIs, Cut
<1>3. r = Throw(s) \/ r = [s EXCEPT !.inactive = s.inactive \o h, !.active = t]
  BY DEF AdvanceQueueToFrameIndex, n, N
<1> HIDE DEF r, h, t
<1>4. CASE r = [s EXCEPT !.inactive = s.inactive \o h, !.active = t]
  <2>1. s.inactive \o h \in Seq(Buffer) /\ (s.inactive \o h) \o t = s.inactive \o s.active
    <3>1. s.inactive \in Seq(Buffer)
      BY WholeIs
    <3>2. (s.inactive \o h) \o t = s.inactive \o (h \o t) /\ s.inactive \o h \in Seq(Buffer)
      BY <1>2, <3>1, Assoc, Zenon
    <3> QED
      BY <1>2, <3>2
  <2>2. /\ r \in SourceRecord /\ SameControl(s, r) /\ r.attached = s.attached
        /\ r.mBuffersQueuedForClear = s.mBuffersQueuedForClear
        /\ r.thrown = s.thrown /\ s.odd \subseteq r.odd
        /\ r.inactive = s.inactive \o h /\ r.active = t
    BY <1>2, <1>4, <2>1 DEF SourceRecord, SameControl
  <2>3. Whole(r) = Whole(s)
    BY <2>1, <2>2 DEF Whole
  <2> QED
    BY <2>2, <2>3, MovedSame DEF r
<1> QED
  BY <1>3, <1>4 DEF r

-----------------------------------------------------------------------------
(* What the state and the messages of a source say.                         *)

Early == {"Rewind", "Pause", "SetFramePosition"}
Ending == {"Stop", "DeconstructionStop"}

(* Messages left while the source played; and then a stop.                  *)
AllEarly(M) == \A i \in 1 .. Len(M) : M[i].mMessageID \in Early
Leads(M) ==
  \E k \in 1 .. Len(M) :
    /\ M[k].mMessageID \in Ending
    /\ \A i \in 1 .. k - 1 : M[i].mMessageID \in Early
    /\ \A i \in k + 1 .. Len(M) : M[i].mMessageID \notin {"Rewind", "Pause"}

Control(s, d) ==
  /\ s.mSafeForDeletion => d
  /\ Pending(s, "DeconstructionStop") => d
  /\ s.odd = {} =>
       /\ s.mState = "PLAYING" => s.bus /\ s.procs
       /\ s.mState = "PAUSED" => s.bus /\ ~s.procs
       /\ s.procs => s.bus
       /\ s.bus => s.mState \in {"PLAYING", "PAUSED", "TRANSITION"}
       /\ ~s.mSafeForDeletion =>
            /\ s.mState = "PLAYING" => AllEarly(s.mMessageQueue)
            /\ s.mState = "TRANSITION" => Leads(s.mMessageQueue)
            /\ s.mState \in {"INITIAL", "STOPPED", "PAUSED"} => s.mMessageQueue = <<>>
       /\ d /\ ~s.mSafeForDeletion => s.mState = "TRANSITION" /\ Pending(s, "DeconstructionStop")

(* The buffers the messages will clear are those promised to be cleared.    *)
Clears(m) == IF m.mMessageID = "ClearBuffersFromQueue" THEN m.mBuffers ELSE 0
Sums(M, c) ==
  \E e \in [0 .. Len(M) -> 0 .. c] :
    e[0] = 0 /\ e[Len(M)] = c /\ \A i \in 1 .. Len(M) : e[i] = e[i - 1] + Clears(M[i])

Replaced(b) == IF b = AL_NONE THEN <<>> ELSE <<b>>

Clearing(M, i) == M[i].mMessageID = "ClearBuffersFromQueue"
Setting(M, i) == M[i].mMessageID = "SetBuffer"

(* What the application was told of the queue is what the messages will make*)
(* of it.                                                                   *)
Promised(s, q) ==
  LET M == s.mMessageQueue
      c == s.mBuffersQueuedForClear IN
  /\ Sums(M, c) /\ c <= Len(Whole(s))
  /\ (\A i \in 1 .. Len(M) : ~Clearing(M, i)) => c = 0
  /\ \A i, j \in 1 .. Len(M) : Setting(M, i) /\ Clearing(M, j) => j < i
  /\ (\A i \in 1 .. Len(M) : ~Setting(M, i)) => Kept(s) = q
  /\ \A i \in 1 .. Len(M) :
       Setting(M, i) /\ (\A j \in i + 1 .. Len(M) : ~Setting(M, j)) => q = Replaced(M[i].mAppendBuffer)

Good(s, d, q) ==
  Sound(s) /\ Control(s, d) /\ q \in Seq(Buffer) /\ (s.odd = {} /\ ~d => Promised(s, q))

IInv ==
  /\ LockInv
  /\ call \in [Thread -> Calls] /\ phase \in {"pre", "render", "post"}
  /\ dead \in BOOLEAN /\ clearing \in BOOLEAN
  /\ source \in SourceRecord /\ queued \in Seq(Buffer)
  /\ ~source.thrown /\ (Torn \/ Good(source, dead, queued))

-----------------------------------------------------------------------------
(* One more message.                                                        *)

LEMMA OneMore ==
  ASSUME NEW M \in Seq(Messages), NEW m \in Messages
  PROVE  /\ Append(M, m) \in Seq(Messages) /\ Len(M) \in Nat /\ Len(Append(M, m)) = Len(M) + 1
         /\ \A i \in 1 .. Len(M) : Append(M, m)[i] = M[i]
         /\ Append(M, m)[Len(M) + 1] = m
         /\ \A i \in 1 .. Len(M) : M[i] \in Messages
  BY AppendProperties, LenProperties, ElementOfSeq

LEMMA EarlyMore ==
  ASSUME NEW M \in Seq(Messages), NEW m \in Messages
  PROVE  /\ AllEarly(<<>>)
         /\ AllEarly(M) /\ m.mMessageID \in Early => AllEarly(Append(M, m))
         /\ AllEarly(M) /\ m.mMessageID \in Ending => Leads(Append(M, m))
         /\ Leads(M) /\ m.mMessageID \notin {"Rewind", "Pause"} => Leads(Append(M, m))
<1> DEFINE n == Len(M)
           A == Append(M, m)
<1>1. n \in Nat /\ Len(A) = n + 1 /\ A[n + 1] = m /\ \A i \in 1 .. n : A[i] = M[i]
  BY OneMore
<1> HIDE DEF A, n
<1>2. ASSUME AllEarly(M), m.mMessageID \in Early PROVE AllEarly(A)
  <2> SUFFICES ASSUME NEW i \in 1 .. n + 1 PROVE A[i].mMessageID \in Early
    BY <1>1 DEF AllEarly
  <2>1. CASE i = n + 1
    BY <1>1, <1>2, <2>1
  <2>2. CASE i # n + 1
    <3>1. i \in 1 .. n
      BY <1>1, <2>2
    <3> QED
      BY <1>1, <1>2, <3>1 DEF AllEarly, n
  <2> QED
    BY <2>1, <2>2
<1>3. ASSUME AllEarly(M), m.mMessageID \in Ending PROVE Leads(A)
  <2>1. n + 1 \in 1 .. Len(A) /\ A[n + 1].mMessageID \in Ending
    BY <1>1, <1>3
  <2>2. \A i \in 1 .. (n + 1) - 1 : A[i].mMessageID \in Early
    <3>1. (n + 1) - 1 = n
      BY <1>1
    <3> QED
      BY <1>1, <1>3, <3>1 DEF AllEarly, n
  <2>3. \A i \in (n + 1) + 1 .. Len(A) : A[i].mMessageID \notin {"Rewind", "Pause"}
    BY <1>1
  <2> QED
    BY <2>1, <2>2, <2>3 DEF Leads
<1>4. ASSUME Leads(M), m.mMessageID \notin {"Rewind", "Pause"} PROVE Leads(A)
  <2>1. PICK k \in 1 .. n : /\ M[k].mMessageID \in Ending
                            /\ \A i \in 1 .. k - 1 : M[i].mMessageID \in Early
                            /\ \A i \in k + 1 .. n : M[i].mMessageID \notin {"Rewind", "Pause"}
    BY <1>4 DEF Leads, n
  <2>2. k \in 1 .. Len(A) /\ A[k].mMessageID \in Ending
    BY <1>1, <2>1
  <2>3. \A i \in 1 .. k - 1 : A[i].mMessageID \in Early
    BY <1>1, <2>1
  <2>4. ASSUME NEW i \in k + 1 .. Len(A) PROVE A[i].mMessageID \notin {"Rewind", "Pause"}
    <3>1. CASE i = n + 1
      BY <1>1, <1>4, <3>1
    <3>2. CASE i # n + 1
      <4>1. i \in k + 1 .. n /\ i \in 1 .. n
        BY <1>1, <3>2
      <4> QED
        BY <1>1, <2>1, <4>1
    <3> QED
      BY <3>1, <3>2
  <2> QED
    BY <2>2, <2>3, <2>4 DEF Leads
<1>5. AllEarly(<<>>)
  BY DEF AllEarly
<1> QED
  BY <1>2, <1>3, <1>4, <1>5 DEF A

LEMMA SumsMore ==
  ASSUME NEW M \in Seq(Messages), NEW m \in Messages, NEW c \in Nat, Sums(M, c)
  PROVE  Sums(Append(M, m), c + Clears(m))
<1> DEFINE n == Len(M)
           A == Append(M, m)
           d == c + Clears(m)
<1>1. n \in Nat /\ Len(A) = n + 1 /\ A[n + 1] = m /\ \A i \in 1 .. n : A[i] = M[i]
  BY OneMore
<1>2. Clears(m) \in Nat
  BY DEF Clears, Messages
<1> HIDE DEF A, n
<1>3. PICK e \in [0 .. n -> 0 .. c] :
        e[0] = 0 /\ e[n] = c /\ \A i \in 1 .. n : e[i] = e[i - 1] + Clears(M[i])
  BY DEF Sums, n
<1> DEFINE f == [i \in 0 .. n + 1 |-> IF i = n + 1 THEN d ELSE e[i]]
<1>4. d \in Nat /\ c <= d
  BY <1>2
<1>5. f \in [0 .. n + 1 -> 0 .. d]
  <2> SUFFICES ASSUME NEW i \in 0 .. n + 1 PROVE f[i] \in 0 .. d
    BY Zenon
  <2>1. CASE i = n + 1
    BY <1>4, <2>1
  <2>2. CASE i # n + 1
    <3>1. i \in 0 .. n
      BY <1>1, <2>2
    <3>2. f[i] = e[i] /\ e[i] \in 0 .. c
      BY <1>3, <2>2, <3>1
    <3> HIDE DEF d, f
    <3> QED
      BY <1>4, <3>2
  <2> QED
    BY <2>1, <2>2
<1>6. f[0] = 0 /\ f[n + 1] = d
  BY <1>1, <1>3
<1>7. ASSUME NEW i \in 1 .. n + 1 PROVE f[i] = f[i - 1] + Clears(A[i])
  <2>1. CASE i = n + 1
    <3>1. i - 1 = n /\ n # n + 1 /\ n \in 0 .. n + 1
      BY <1>1, <2>1
    <3>2. f[i - 1] = c
      BY <1>3, <3>1
    <3> QED
      BY <1>1, <1>6, <2>1, <3>2
  <2>2. CASE i # n + 1
    <3>1. i \in 1 .. n /\ i - 1 \in 0 .. n /\ i - 1 # n + 1 /\ i \in 0 .. n + 1 /\ i - 1 \in 0 .. n + 1
      BY <1>1, <2>2
    <3>2. f[i] = e[i] /\ f[i - 1] = e[i - 1]
      BY <2>2, <3>1
    <3>3. A[i] = M[i]
      BY <1>1, <3>1
    <3> QED
      BY <1>3, <3>1, <3>2, <3>3
  <2> QED
    BY <2>1, <2>2
<1> HIDE DEF f, d
<1>8. Sums(A, d)
  <2>1. \E g \in [0 .. n + 1 -> 0 .. d] :
          g[0] = 0 /\ g[n + 1] = d /\ \A i \in 1 .. n + 1 : g[i] = g[i - 1] + Clears(A[i])
    BY <1>5, <1>6, <1>7
  <2> QED
    BY <1>1, <2>1 DEF Sums
<1> QED
  BY <1>8 DEF A, d

LEMMA SumsNone == Sums(<<>>, 0)
<1> SUFFICES ASSUME NEW M, Len(M) = 0 PROVE Sums(M, 0)
  OBVIOUS
<1> DEFINE e == [i \in 0 .. 0 |-> 0]
<1>1. e \in [0 .. Len(M) -> 0 .. 0] /\ e[0] = 0 /\ e[Len(M)] = 0
  OBVIOUS
<1>2. \A i \in 1 .. Len(M) : e[i] = e[i - 1] + Clears(M[i])
  OBVIOUS
<1> HIDE DEF e
<1> QED
  BY <1>1, <1>2 DEF Sums

-----------------------------------------------------------------------------
(* What keeps a source good.                                                *)

(* r is s but for what no property speaks of.                               *)
Alike(s, r) ==
  /\ r \in SourceRecord
  /\ r.mState = s.mState /\ r.mMessageQueue = s.mMessageQueue
  /\ r.bus = s.bus /\ r.procs = s.procs /\ r.mSafeForDeletion = s.mSafeForDeletion
  /\ r.attached = s.attached /\ r.mBuffersQueuedForClear = s.mBuffersQueuedForClear
  /\ s.odd \subseteq r.odd
  /\ \A b \in Buffer : Held(Whole(r), b) = Held(Whole(s), b)
  /\ r.odd = {} => Whole(r) = Whole(s)

LEMMA PromisedSame ==
  ASSUME NEW s, NEW r, NEW q, Promised(s, q), r.mMessageQueue = s.mMessageQueue,
         r.mBuffersQueuedForClear = s.mBuffersQueuedForClear, Whole(r) = Whole(s)
  PROVE  Promised(r, q)
<1>1. Kept(r) = Kept(s)
  BY DEF Kept, Whole
<1> QED
  BY <1>1, Zenon DEF Promised

LEMMA GoodAlike ==
  ASSUME NEW s, NEW d, NEW q, NEW r, Good(s, d, q), Alike(s, r)
  PROVE  Good(r, d, q)
<1>1. Sound(r)
  BY DEF Good, Sound, Counted, Alike
<1>2. Control(r, d)
  BY DEF Good, Control, Alike, Pending
<1>3. ASSUME r.odd = {}, ~d PROVE Promised(r, q)
  <2>1. s.odd = {} /\ r.mMessageQueue = s.mMessageQueue /\ Whole(r) = Whole(s)
        /\ r.mBuffersQueuedForClear = s.mBuffersQueuedForClear
    BY <1>3 DEF Alike
  <2>2. Promised(s, q)
    BY <1>3, <2>1 DEF Good
  <2> QED
    BY <2>1, <2>2, PromisedSame
<1> QED
  BY <1>1, <1>2, <1>3 DEF Good

LEMMA MovedAlike ==
  ASSUME NEW s, NEW r, Moved(s, r)
  PROVE  Alike(s, r)
  BY DEF Moved, Shuffled, SameControl, Alike

LEMMA AlikeAgain ==
  ASSUME NEW s, NEW r, NEW u, Alike(s, r), Alike(r, u)
  PROVE  Alike(s, u)
  BY DEF Alike

(* Another value in the fields no property speaks of.                       *)
LEMMA FieldsAlike ==
  ASSUME NEW s \in SourceRecord
  PROVE  /\ Alike(s, s) /\ Alike(s, Throw(s)) /\ Alike(s, Outcome(s)) /\ Alike(s, Ramp(s)) /\ Alike(s, RampDown(s))
         /\ \A f \in BOOLEAN : Alike(s, SetLooping(s, f))
         /\ \A t \in {"UNDETERMINED", "STATIC", "STREAMING"} : Alike(s, Typed(s, t))
         /\ \A w \in {"no", "down", "up", "complete"} : Alike(s, [s EXCEPT !.mRampState = w])
         /\ \A o \in Offsets \cup {0} : Alike(s, [s EXCEPT !.mPlaybackHeadPosition = o])
         /\ \A o \in Offsets : Alike(s, [s EXCEPT !.mRampState = "down", !.mPlaybackHeadPosition = o])
<1> USE DEF Alike, SourceRecord, Whole
<1>1. Alike(s, s) /\ Alike(s, Throw(s)) /\ Alike(s, Outcome(s))
  BY DEF Throw, Outcome
<1>2. Alike(s, Ramp(s)) /\ Alike(s, RampDown(s))
  BY DEF Ramp, RampDown
<1>3. \A f \in BOOLEAN : Alike(s, SetLooping(s, f))
  BY DEF SetLooping
<1>4. \A t \in {"UNDETERMINED", "STATIC", "STREAMING"} : Alike(s, Typed(s, t))
  BY DEF Typed
<1>5. \A w \in {"no", "down", "up", "complete"} : Alike(s, [s EXCEPT !.mRampState = w])
  OBVIOUS
<1>6. \A o \in Offsets \cup {0} : Alike(s, [s EXCEPT !.mPlaybackHeadPosition = o])
  OBVIOUS
<1>7. \A o \in Offsets : Alike(s, [s EXCEPT !.mRampState = "down", !.mPlaybackHeadPosition = o])
  OBVIOUS
<1> QED
  BY <1>1, <1>2, <1>3, <1>4, <1>5, <1>6, <1>7

LEMMA PromisedMore ==
  ASSUME NEW s \in SourceRecord, NEW r, NEW q, NEW m \in Messages, Promised(s, q),
         m.mMessageID \notin {"ClearBuffersFromQueue", "SetBuffer"},
         r.mMessageQueue = Append(s.mMessageQueue, m),
         r.mBuffersQueuedForClear = s.mBuffersQueuedForClear, Whole(r) = Whole(s)
  PROVE  Promised(r, q)
<1> DEFINE M == s.mMessageQueue
           A == r.mMessageQueue
           n == Len(M)
           c == s.mBuffersQueuedForClear
<1>1. M \in Seq(Messages) /\ c \in Nat
  BY DEF SourceRecord
<1>2. n \in Nat /\ Len(A) = n + 1 /\ A[n + 1] = m /\ \A i \in 1 .. n : A[i] = M[i]
  BY <1>1, OneMore
<1>3. Sums(A, c)
  <2>1. Sums(M, c)
    BY DEF Promised
  <2>2. Sums(Append(M, m), c + Clears(m)) /\ Clears(m) = 0
    BY <1>1, <2>1, SumsMore DEF Clears
  <2>3. c + Clears(m) = c
    BY <1>1, <2>2
  <2> QED
    BY <2>2, <2>3
<1>4. Kept(r) = Kept(s)
  BY DEF Kept, Whole
<1>5. /\ c <= Len(Whole(s))
      /\ (\A i \in 1 .. n : ~Clearing(M, i)) => c = 0
      /\ \A i, j \in 1 .. n : Setting(M, i) /\ Clearing(M, j) => j < i
      /\ (\A i \in 1 .. n : ~Setting(M, i)) => Kept(s) = q
      /\ \A i \in 1 .. n :
           Setting(M, i) /\ (\A j \in i + 1 .. n : ~Setting(M, j)) => q = Replaced(M[i].mAppendBuffer)
  BY DEF Promised
<1> HIDE DEF A, n, M, c
<1>6. \A i \in 1 .. n + 1 : i = n + 1 \/ i \in 1 .. n
  BY <1>2
<1>7. /\ ~Clearing(A, n + 1) /\ ~Setting(A, n + 1)
      /\ \A i \in 1 .. n : (Clearing(A, i) <=> Clearing(M, i)) /\ (Setting(A, i) <=> Setting(M, i))
  BY <1>2 DEF Clearing, Setting
<1>8. (\A i \in 1 .. n + 1 : ~Clearing(A, i)) => c = 0
  BY <1>2, <1>5, <1>7
<1>9. \A i, j \in 1 .. n + 1 : Setting(A, i) /\ Clearing(A, j) => j < i
  BY <1>5, <1>6, <1>7
<1>10. (\A i \in 1 .. n + 1 : ~Setting(A, i)) => Kept(s) = q
  BY <1>2, <1>5, <1>7
<1>11. ASSUME NEW i \in 1 .. n + 1, Setting(A, i), \A j \in i + 1 .. n + 1 : ~Setting(A, j)
       PROVE  q = Replaced(A[i].mAppendBuffer)
  <2>1. i \in 1 .. n
    BY <1>6, <1>7, <1>11
  <2>2. \A j \in i + 1 .. n : ~Setting(M, j)
    BY <1>2, <1>7, <1>11, <2>1
  <2> QED
    BY <1>2, <1>5, <1>7, <1>11, <2>1, <2>2
<1>12. r.mBuffersQueuedForClear = c /\ r.mMessageQueue = A /\ Len(A) = n + 1
  BY <1>2 DEF A, c
<1> QED
  BY <1>3, <1>4, <1>5, <1>8, <1>9, <1>10, <1>11, <1>12 DEF Promised

(* A message that the source was left in time for.                          *)
LEMMA GoodMore ==
  ASSUME NEW s, NEW d, NEW q, NEW r \in SourceRecord, NEW m \in Messages, Good(s, d, q),
         m.mMessageID \notin {"ClearBuffersFromQueue", "SetBuffer", "DeconstructionStop"},
         \/ s.mState = "PLAYING" /\ r.mState = "PLAYING" /\ m.mMessageID \in Early
         \/ s.mState = "PLAYING" /\ r.mState = "TRANSITION" /\ m.mMessageID = "Stop"
         \/ s.mState = "TRANSITION" /\ r.mState = "TRANSITION" /\ m.mMessageID \notin {"Rewind", "Pause"},
         r.mMessageQueue = Append(s.mMessageQueue, m),
         r.bus = s.bus, r.procs = s.procs, r.mSafeForDeletion = s.mSafeForDeletion,
         r.attached = s.attached, r.mBuffersQueuedForClear = s.mBuffersQueuedForClear,
         r.odd = s.odd, r.inactive = s.inactive, r.active = s.active
  PROVE  Good(r, d, q)
<1>1. s \in SourceRecord /\ Whole(r) = Whole(s)
  BY DEF Good, Sound, Whole
<1>2. Sound(r)
  BY <1>1 DEF Good, Sound, Counted
<1> DEFINE M == s.mMessageQueue
           A == r.mMessageQueue
<1>3. M \in Seq(Messages)
  BY <1>1 DEF SourceRecord
<1>4. Pending(r, "DeconstructionStop") <=> Pending(s, "DeconstructionStop")
  <2>1. Len(M) \in Nat /\ Len(A) = Len(M) + 1 /\ A[Len(M) + 1] = m /\ \A i \in 1 .. Len(M) : A[i] = M[i]
    BY <1>3, OneMore
  <2>2. \A i \in 1 .. Len(M) + 1 : i = Len(M) + 1 \/ i \in 1 .. Len(M)
    BY <2>1
  <2>3. \A i \in 1 .. Len(M) : i \in 1 .. Len(M) + 1
    BY <2>1
  <2> QED
    BY <2>1, <2>2, <2>3 DEF Pending
<1>5. /\ AllEarly(M) /\ m.mMessageID \in Early => AllEarly(A)
      /\ AllEarly(M) /\ m.mMessageID \in Ending => Leads(A)
      /\ Leads(M) /\ m.mMessageID \notin {"Rewind", "Pause"} => Leads(A)
  BY <1>3, EarlyMore
<1>6. Control(s, d)
  BY DEF Good
<1>7. Control(r, d)
  BY <1>4, <1>5, <1>6 DEF Control, Ending
<1>8. ASSUME r.odd = {}, ~d PROVE Promised(r, q)
  <2>1. Promised(s, q)
    BY <1>8 DEF Good
  <2> QED
    BY <1>1, <2>1, PromisedMore
<1> QED
  BY <1>2, <1>7, <1>8 DEF Good

-----------------------------------------------------------------------------
(* The calls that leave the queue as it is.                                 *)

LEMMA MessageIs ==
  /\ \A id \in Ids : Message(id, AL_NONE, 0) \in Messages /\ Message(id, AL_NONE, 0).mMessageID = id
  /\ \A b \in Buffer : Message("SetBuffer", b, 0) \in Messages
  /\ \A n \in Nat : Message("ClearBuffersFromQueue", AL_NONE, n) \in Messages
  BY NoneAssumption DEF Message, Messages, Ids

LEMMA GoodIs ==
  ASSUME NEW s, NEW d, NEW q, Good(s, d, q)
  PROVE  s \in SourceRecord /\ Sound(s) /\ Control(s, d) /\ q \in Seq(Buffer)
  BY DEF Good, Sound

(* Another state, or another connection.                                    *)
LEMMA GoodRewired ==
  ASSUME NEW s, NEW d, NEW q, NEW r \in SourceRecord, Good(s, d, q), Control(r, d),
         r.mMessageQueue = s.mMessageQueue, r.attached = s.attached,
         r.mBuffersQueuedForClear = s.mBuffersQueuedForClear,
         r.odd = s.odd, r.inactive = s.inactive, r.active = s.active
  PROVE  Good(r, d, q)
<1>1. Whole(r) = Whole(s)
  BY DEF Whole
<1>2. Sound(r)
  BY <1>1 DEF Good, Sound, Counted
<1>3. ASSUME r.odd = {}, ~d PROVE Promised(r, q)
  <2>1. Promised(s, q)
    BY <1>3 DEF Good
  <2> QED
    BY <1>1, <2>1, PromisedSame
<1> QED
  BY <1>2, <1>3 DEF Good

LEMMA DeferGood ==
  ASSUME NEW s, NEW d, NEW q, Good(s, d, q),
         NEW id \in Ids \ {"ClearBuffersFromQueue", "SetBuffer", "DeconstructionStop"}
  PROVE  /\ s.mState = "PLAYING" /\ id \in Early => Good(Defer(s, id), d, q)
         /\ s.mState = "TRANSITION" /\ id \notin Early => Good(Defer(s, id), d, q)
         /\ s.mState = "PLAYING" /\ id = "Stop" => Good(In(Defer(s, id), "TRANSITION"), d, q)
<1> DEFINE m == Message(id, AL_NONE, 0)
           r == Defer(s, id)
           u == In(r, "TRANSITION")
<1>1. m \in Messages /\ m.mMessageID = id
  BY MessageIs
<1> HIDE DEF m
<1>2. s \in SourceRecord
  BY GoodIs
<1>3. r = AddMessage(RampDown(s), m)
  BY DEF Defer, AddPlaybackMessage, m
<1>4. /\ r \in SourceRecord /\ r.mMessageQueue = Append(s.mMessageQueue, m) /\ r.mState = s.mState
      /\ r.bus = s.bus /\ r.procs = s.procs /\ r.mSafeForDeletion = s.mSafeForDeletion
      /\ r.attached = s.attached /\ r.mBuffersQueuedForClear = s.mBuffersQueuedForClear
      /\ r.odd = s.odd /\ r.inactive = s.inactive /\ r.active = s.active
  <2>1. Append(s.mMessageQueue, m) \in Seq(Messages)
    BY <1>1, <1>2, OneMore DEF SourceRecord
  <2> QED
    BY <1>2, <1>3, <2>1 DEF AddMessage, RampDown, SourceRecord
<1> HIDE DEF r
<1>5. /\ u \in SourceRecord /\ u.mMessageQueue = Append(s.mMessageQueue, m) /\ u.mState = "TRANSITION"
      /\ u.bus = s.bus /\ u.procs = s.procs /\ u.mSafeForDeletion = s.mSafeForDeletion
      /\ u.attached = s.attached /\ u.mBuffersQueuedForClear = s.mBuffersQueuedForClear
      /\ u.odd = s.odd /\ u.inactive = s.inactive /\ u.active = s.active
  BY <1>4 DEF In, SourceRecord, States
<1> HIDE DEF u
<1>6. ASSUME s.mState = "PLAYING", id \in Early PROVE Good(r, d, q)
  BY <1>1, <1>4, <1>6, GoodMore
<1>7. ASSUME s.mState = "TRANSITION", id \notin Early PROVE Good(r, d, q)
  BY <1>1, <1>4, <1>7, GoodMore DEF Early
<1>8. ASSUME s.mState = "PLAYING", id = "Stop" PROVE Good(u, d, q)
  BY <1>1, <1>5, <1>8, GoodMore
<1> QED
  BY <1>6, <1>7, <1>8 DEF r, u

LEMMA MessageGood ==
  ASSUME NEW s, NEW d, NEW q, Good(s, d, q),
         NEW id \in Ids \ {"ClearBuffersFromQueue", "SetBuffer", "DeconstructionStop"}
  PROVE  /\ s.mState = "PLAYING" /\ id \in Early => Good(AddPlaybackMessage(s, id), d, q)
         /\ s.mState = "TRANSITION" /\ id \notin {"Rewind", "Pause"} => Good(AddPlaybackMessage(s, id), d, q)
<1> DEFINE m == Message(id, AL_NONE, 0)
           r == AddPlaybackMessage(s, id)
<1>1. m \in Messages /\ m.mMessageID = id
  BY MessageIs
<1> HIDE DEF m
<1>2. s \in SourceRecord
  BY GoodIs
<1>3. r = AddMessage(s, m)
  BY DEF AddPlaybackMessage, m
<1>4. /\ r \in SourceRecord /\ r.mMessageQueue = Append(s.mMessageQueue, m) /\ r.mState = s.mState
      /\ r.bus = s.bus /\ r.procs = s.procs /\ r.mSafeForDeletion = s.mSafeForDeletion
      /\ r.attached = s.attached /\ r.mBuffersQueuedForClear = s.mBuffersQueuedForClear
      /\ r.odd = s.odd /\ r.inactive = s.inactive /\ r.active = s.active
  <2>1. Append(s.mMessageQueue, m) \in Seq(Messages)
    BY <1>1, <1>2, OneMore DEF SourceRecord
  <2> QED
    BY <1>2, <1>3, <2>1 DEF AddMessage, SourceRecord
<1> HIDE DEF r
<1>6. ASSUME s.mState = "PLAYING", id \in Early PROVE Good(r, d, q)
  BY <1>1, <1>4, <1>6, GoodMore
<1>7. ASSUME s.mState = "TRANSITION", id \notin {"Rewind", "Pause"} PROVE Good(r, d, q)
  BY <1>1, <1>4, <1>7, GoodMore
<1> QED
  BY <1>6, <1>7 DEF r

LEMMA LoopGood ==
  ASSUME NEW s, NEW d, NEW q, Good(s, d, q)
  PROVE  Good(LoopToBeginning(s), d, q) /\ Good(ClearActiveQueue(s), d, q)
         /\ Good(Throw(s), d, q) /\ Good(Outcome(s), d, q)
<1>1. s \in SourceRecord
  BY GoodIs
<1>2. Alike(s, LoopToBeginning(s)) /\ Alike(s, ClearActiveQueue(s)) /\ Alike(s, Throw(s)) /\ Alike(s, Outcome(s))
  BY <1>1, LoopMoves, ClearMoves, MovedAlike, FieldsAlike
<1> QED
  BY <1>2, GoodAlike

LEMMA StartGood ==
  ASSUME NEW s, NEW d, NEW q, Good(s, d, q), s.mState \in {"INITIAL", "STOPPED"}
  PROVE  Good(StartPlaying(s), d, q)
<1> DEFINE r == NextPlayable(JoinBufferLists(s))
           u == AddProcs(In([r EXCEPT !.bus = TRUE, !.mQueueIsProcessed = FALSE], "PLAYING"))
<1>1. Alike(s, r)
  <2>1. s \in SourceRecord
    BY GoodIs
  <2>2. Moved(s, JoinBufferLists(s)) /\ JoinBufferLists(s) \in SourceRecord
    BY <2>1, JoinMoves DEF Moved, Shuffled
  <2>3. Moved(JoinBufferLists(s), r)
    BY <2>2, NextMoves
  <2> QED
    BY <2>1, <2>2, <2>3, MovedAgain, MovedAlike
<1>2. StartPlaying(s) = IF ~HasCurrent(r) THEN Throw(r) ELSE u
  BY DEF StartPlaying
<1> HIDE DEF r
<1>3. Good(r, d, q) /\ r.mState = s.mState
  BY <1>1, GoodAlike DEF Alike
<1>4. r \in SourceRecord /\ Control(r, d)
  BY <1>3, GoodIs
<1>5. /\ u \in SourceRecord /\ u.mState = "PLAYING" /\ u.bus /\ u.procs
      /\ u.mMessageQueue = r.mMessageQueue /\ u.attached = r.attached
      /\ u.mBuffersQueuedForClear = r.mBuffersQueuedForClear /\ u.mSafeForDeletion = r.mSafeForDeletion
      /\ u.odd = r.odd /\ u.inactive = r.inactive /\ u.active = r.active
  BY <1>4 DEF AddProcs, In, SourceRecord, States
<1> HIDE DEF u
<1>6. Control(u, d)
  <2>1. AllEarly(<<>>)
    BY DEF AllEarly
  <2>2. Pending(u, "DeconstructionStop") <=> Pending(r, "DeconstructionStop")
    BY <1>5 DEF Pending
  <2> QED
    BY <1>3, <1>4, <1>5, <2>1, <2>2 DEF Control
<1>7. Good(u, d, q)
  BY <1>3, <1>5, <1>6, GoodRewired
<1> QED
  BY <1>2, <1>3, <1>7, LoopGood

LEMMA PlayGood ==
  ASSUME NEW s, NEW d, NEW q, Good(s, d, q)
  PROVE  Good(Play(s), d, q)
<1>1. s \in SourceRecord /\ Control(s, d)
  BY GoodIs
<1>2. ASSUME s.mState = "PAUSED" PROVE Good(Resume(s), d, q)
  <2> DEFINE u == Resume(s)
  <2>1. /\ u \in SourceRecord /\ u.mState = "PLAYING" /\ u.bus = s.bus /\ u.procs = (s.procs \/ s.bus)
        /\ u.mMessageQueue = s.mMessageQueue /\ u.attached = s.attached
        /\ u.mBuffersQueuedForClear = s.mBuffersQueuedForClear /\ u.mSafeForDeletion = s.mSafeForDeletion
        /\ u.odd = s.odd /\ u.inactive = s.inactive /\ u.active = s.active
    BY <1>1, <1>2 DEF Resume, AddProcs, In, SourceRecord, States
  <2> HIDE DEF u
  <2>2. Control(u, d)
    <3>1. AllEarly(<<>>)
      BY DEF AllEarly
    <3>2. u.odd = {} => u.procs /\ u.bus
      BY <1>1, <1>2, <2>1 DEF Control
    <3>3. Pending(u, "DeconstructionStop") <=> Pending(s, "DeconstructionStop")
      BY <2>1 DEF Pending
    <3> QED
      BY <1>1, <1>2, <2>1, <3>1, <3>2, <3>3 DEF Control
  <2>3. Good(u, d, q)
    BY <2>1, <2>2, GoodRewired
  <2> QED
    BY <2>3 DEF u
<1>3. s.mState = "PLAYING" => Good(Defer(s, "Rewind"), d, q)
  BY DeferGood DEF Ids, Early
<1>4. s.mState = "TRANSITION" => Good(Defer(s, "Play"), d, q)
  BY DeferGood DEF Ids, Early
<1>5. s.mState \in {"INITIAL", "STOPPED"} => Good(StartPlaying(s), d, q)
  BY StartGood
<1> QED
  BY <1>1, <1>2, <1>3, <1>4, <1>5 DEF Play, SourceRecord, States

LEMMA RewindGood ==
  ASSUME NEW s, NEW d, NEW q, Good(s, d, q)
  PROVE  Good(Rewind(s), d, q)
<1>1. s.mState = "PLAYING" => Good(Defer(s, "Rewind"), d, q)
  BY DeferGood DEF Ids, Early
<1>2. s.mState = "PLAYING" => Good(LoopToBeginning(Defer(s, "Rewind")), d, q)
  BY <1>1, LoopGood
<1>3. Good(LoopToBeginning(s), d, q)
  BY LoopGood
<1> QED
  BY <1>2, <1>3 DEF Rewind

LEMMA StopGood ==
  ASSUME NEW s, NEW d, NEW q, Good(s, d, q)
  PROVE  Good(Stop(s), d, q)
<1>1. s \in SourceRecord /\ Control(s, d)
  BY GoodIs
<1>2. ASSUME s.mState = "PAUSED" PROVE Good(In([s EXCEPT !.bus = FALSE], "STOPPED"), d, q)
  <2> DEFINE u == In([s EXCEPT !.bus = FALSE], "STOPPED")
  <2>1. /\ u \in SourceRecord /\ u.mState = "STOPPED" /\ u.bus = FALSE /\ u.procs = s.procs
        /\ u.mMessageQueue = s.mMessageQueue /\ u.attached = s.attached
        /\ u.mBuffersQueuedForClear = s.mBuffersQueuedForClear /\ u.mSafeForDeletion = s.mSafeForDeletion
        /\ u.odd = s.odd /\ u.inactive = s.inactive /\ u.active = s.active
    BY <1>1 DEF In, SourceRecord, States
  <2> HIDE DEF u
  <2>2. Control(u, d)
    BY <1>1, <1>2, <2>1 DEF Control, Pending
  <2>3. Good(u, d, q)
    BY <2>1, <2>2, GoodRewired
  <2> QED
    BY <2>3 DEF u
<1>3. s.mState = "PLAYING" => Good(In(Defer(s, "Stop"), "TRANSITION"), d, q)
  BY DeferGood DEF Ids
<1>4. s.mState = "TRANSITION" => Good(AddPlaybackMessage(s, "Stop"), d, q)
  BY MessageGood DEF Ids
<1> QED
  BY <1>1, <1>2, <1>3, <1>4 DEF Stop, SourceRecord, States

LEMMA PauseGood ==
  ASSUME NEW s, NEW d, NEW q, Good(s, d, q)
  PROVE  Good(Pause(s), d, q)
  BY DeferGood DEF Pause, Ids, Early

LEMMA AdvanceGood ==
  ASSUME NEW s, NEW d, NEW q, NEW offset, Good(s, d, q)
  PROVE  Good(AdvanceQueueToFrameIndex(s, offset), d, q)
<1>1. s \in SourceRecord
  BY GoodIs
<1>2. \/ AdvanceQueueToFrameIndex(s, offset) = Throw(s)
      \/ Moved(s, AdvanceQueueToFrameIndex(s, offset))
  BY <1>1, AdvanceMoves
<1> QED
  BY <1>2, LoopGood, MovedAlike, GoodAlike

LEMMA OffsetGood ==
  ASSUME NEW s, NEW d, NEW q, NEW offset \in Offsets, Good(s, d, q)
  PROVE  Good(SetQueueOffset(s, offset), d, q)
<1> DEFINE r == [s EXCEPT !.mRampState = "down", !.mPlaybackHeadPosition = offset]
<1>1. s \in SourceRecord
  BY GoodIs
<1>2. Good(r, d, q) /\ r.mState = s.mState
  <2>1. Alike(s, r)
    BY <1>1, FieldsAlike
  <2> QED
    BY <2>1, GoodAlike DEF Alike
<1> HIDE DEF r
<1>3. s.mState \in {"PLAYING", "TRANSITION"} => Good(AddPlaybackMessage(r, "SetFramePosition"), d, q)
  BY <1>2, MessageGood DEF Ids, Early
<1>4. Good(AdvanceQueueToFrameIndex(Rewind(s), offset), d, q)
  BY RewindGood, AdvanceGood
<1> QED
  BY <1>3, <1>4 DEF SetQueueOffset, r

-----------------------------------------------------------------------------
(* The calls that change the queue.                                         *)

LEMMA GoodRequeued ==
  ASSUME NEW s, NEW d, NEW q, NEW r, NEW p \in Seq(Buffer), Good(s, d, q), Sound(r),
         r.mState = s.mState, r.mMessageQueue = s.mMessageQueue,
         r.bus = s.bus, r.procs = s.procs, r.mSafeForDeletion = s.mSafeForDeletion,
         s.odd \subseteq r.odd, r.odd = {} /\ ~d => Promised(r, p)
  PROVE  Good(r, d, p)
  BY DEF Good, Control, Pending

(* Without a message of its own the queue is the one the application saw.   *)
LEMMA PromisedNow ==
  ASSUME NEW s \in SourceRecord, NEW q, AllEarly(s.mMessageQueue)
  PROVE  /\ Promised(s, q) => s.mBuffersQueuedForClear = 0 /\ q = Whole(s)
         /\ s.mBuffersQueuedForClear = 0 /\ q = Whole(s) => Promised(s, q)
<1> DEFINE M == s.mMessageQueue
           W == Whole(s)
<1>1. \A i \in 1 .. Len(M) : ~Clearing(M, i) /\ ~Setting(M, i) /\ Clears(M[i]) = 0
  BY DEF AllEarly, Early, Clearing, Setting, Clears
<1>2. W \in Seq(Buffer) /\ SubSeq(W, 0 + 1, Len(W)) = W /\ Len(W) \in Nat
  <2>1. W \in Seq(Buffer) /\ Len(W) \in Nat
    BY WholeIs, LenProperties
  <2>2. SubSeq(W, 1, Len(W)) = W
    BY <2>1, SubSeqFull
  <2> QED
    BY <2>1, <2>2
<1>3. s.mBuffersQueuedForClear = 0 => Kept(s) = W
  BY <1>2 DEF Kept, Whole
<1>4. ASSUME Promised(s, q) PROVE s.mBuffersQueuedForClear = 0 /\ q = W
  BY <1>1, <1>3, <1>4 DEF Promised
<1>5. Sums(M, 0)
  <2> DEFINE e == [i \in 0 .. Len(M) |-> 0]
  <2>1. Len(M) \in Nat
    BY LenProperties DEF SourceRecord
  <2>2. e \in [0 .. Len(M) -> 0 .. 0] /\ e[0] = 0 /\ e[Len(M)] = 0
    BY <2>1
  <2>3. \A i \in 1 .. Len(M) : e[i] = e[i - 1] + Clears(M[i])
    BY <1>1, <2>1
  <2> HIDE DEF e
  <2> QED
    BY <2>2, <2>3 DEF Sums
<1>6. ASSUME s.mBuffersQueuedForClear = 0, q = W PROVE Promised(s, q)
  BY <1>1, <1>2, <1>3, <1>5, <1>6 DEF Promised
<1> QED
  BY <1>4, <1>6

LEMMA GoodNow ==
  ASSUME NEW s, NEW d, NEW q, Good(s, d, q), s.odd = {}, ~d, s.mState # "TRANSITION"
  PROVE  AllEarly(s.mMessageQueue) /\ s.mBuffersQueuedForClear = 0 /\ q = Whole(s)
<1>1. s \in SourceRecord /\ Control(s, d) /\ Promised(s, q)
  BY DEF Good, Sound
<1>2. AllEarly(<<>>)
  BY DEF AllEarly
<1>3. AllEarly(s.mMessageQueue)
  BY <1>1, <1>2 DEF Control, SourceRecord, States
<1> QED
  BY <1>1, <1>3, PromisedNow

LEMMA AppendIs ==
  ASSUME NEW s, NEW b \in Buffer, Sound(s)
  PROVE  LET r == AppendBufferToQueue(s, b) IN
         /\ Sound(r) /\ Whole(r) = Whole(s) \o <<b>>
         /\ r.mState = s.mState /\ r.mMessageQueue = s.mMessageQueue
         /\ r.bus = s.bus /\ r.procs = s.procs /\ r.mSafeForDeletion = s.mSafeForDeletion
         /\ r.mBuffersQueuedForClear = s.mBuffersQueuedForClear /\ r.odd = s.odd
         /\ r.thrown = s.thrown /\ r.mRampState = s.mRampState
<1> DEFINE r == AppendBufferToQueue(s, b)
<1>1. s \in SourceRecord /\ Counted(s)
  BY DEF Sound
<1>2. s.active \in Seq(Buffer) /\ s.inactive \in Seq(Buffer) /\ <<b>> \in Seq(Buffer)
      /\ Append(s.active, b) = s.active \o <<b>> /\ Append(s.active, b) \in Seq(Buffer)
  <2>1. s.active \in Seq(Buffer) /\ s.inactive \in Seq(Buffer)
    BY <1>1, WholeIs
  <2> QED
    BY <2>1, AppendIsConcat, AppendProperties
<1>3. /\ r \in SourceRecord /\ r.inactive = s.inactive /\ r.active = Append(s.active, b)
      /\ r.attached = [s.attached EXCEPT ![b] = @ + 1]
      /\ r.mState = s.mState /\ r.mMessageQueue = s.mMessageQueue
      /\ r.bus = s.bus /\ r.procs = s.procs /\ r.mSafeForDeletion = s.mSafeForDeletion
      /\ r.mBuffersQueuedForClear = s.mBuffersQueuedForClear /\ r.odd = s.odd
      /\ r.thrown = s.thrown /\ r.mRampState = s.mRampState
  <2>1. s.attached \in [Buffer -> Nat] /\ [s.attached EXCEPT ![b] = @ + 1] \in [Buffer -> Nat]
    BY <1>1 DEF SourceRecord
  <2> QED
    BY <1>1, <1>2, <2>1 DEF AppendBufferToQueue, Reset, SourceRecord
<1> HIDE DEF r
<1>4. Whole(r) = Whole(s) \o <<b>>
  <2>1. (s.inactive \o s.active) \o <<b>> = s.inactive \o (s.active \o <<b>>)
    BY <1>2, Assoc, Zenon
  <2> QED
    BY <1>2, <1>3, <2>1 DEF Whole
<1>5. ASSUME NEW x \in Buffer PROVE r.attached[x] = Held(Whole(r), x)
  <2>1. Held(Whole(s) \o <<b>>, x) = Held(Whole(s), x) + Held(<<b>>, x)
    BY <1>1, <1>2, WholeIs, HeldConcat
  <2>2. Held(<<b>>, x) = IF b = x THEN 1 ELSE 0
    BY HeldOne
  <2>3. s.attached[x] = Held(Whole(s), x) /\ s.attached[x] \in Nat /\ s.attached \in [Buffer -> Nat]
    BY <1>1 DEF Counted, SourceRecord
  <2> QED
    BY <1>3, <1>4, <2>1, <2>2, <2>3
<1> QED
  BY <1>3, <1>4, <1>5 DEF Sound, Counted, r

LEMMA FlushIs ==
  ASSUME NEW s, Sound(s)
  PROVE  LET r == FlushBufferQueue(s) IN
         /\ Sound(r) /\ Whole(r) = <<>>
         /\ r.mState = s.mState /\ r.mMessageQueue = s.mMessageQueue
         /\ r.bus = s.bus /\ r.procs = s.procs /\ r.mSafeForDeletion = s.mSafeForDeletion
         /\ r.mBuffersQueuedForClear \in {0, s.mBuffersQueuedForClear} /\ r.odd = s.odd
         /\ r.thrown = s.thrown /\ r.mRampState = s.mRampState
<1> DEFINE r == FlushBufferQueue(s)
           a == Release(s, s.inactive \o s.active)
<1>1. s \in SourceRecord /\ Counted(s)
  BY DEF Sound
<1>2. a \in [Buffer -> Nat] /\ \A b \in Buffer : a[b] = 0
  <2>1. \A b \in Buffer : s.attached[b] = Held(s.inactive \o s.active, b) /\ s.attached[b] \in Nat
    BY <1>1 DEF Counted, Whole, SourceRecord
  <2>2. \A b \in Buffer : s.attached[b] - Held(s.inactive \o s.active, b) = 0
    BY <2>1
  <2> QED
    BY <2>2 DEF Release
<1>3. <<>> \in Seq(Buffer)
  BY EmptySeq
<1> HIDE DEF a
<1>4. /\ r \in SourceRecord /\ r.inactive = <<>> /\ r.active = <<>> /\ r.attached = a
      /\ r.mState = s.mState /\ r.mMessageQueue = s.mMessageQueue
      /\ r.bus = s.bus /\ r.procs = s.procs /\ r.mSafeForDeletion = s.mSafeForDeletion
      /\ r.mBuffersQueuedForClear \in {0, s.mBuffersQueuedForClear} /\ r.odd = s.odd
      /\ r.thrown = s.thrown /\ r.mRampState = s.mRampState
  BY <1>1, <1>2, <1>3 DEF FlushBufferQueue, SourceRecord, a
<1> HIDE DEF r
<1>5. Whole(r) = <<>>
  BY <1>3, <1>4, ConcatEmptySeq DEF Whole
<1>6. \A b \in Buffer : r.attached[b] = Held(Whole(r), b)
  BY <1>2, <1>4, <1>5, HeldOne
<1> QED
  BY <1>4, <1>5, <1>6 DEF Sound, Counted, r

LEMMA ReplaceIs ==
  ASSUME NEW s, NEW b \in Buffer, Sound(s)
  PROVE  LET r == Replace(s, b) IN
         /\ Sound(r) /\ Whole(r) = Replaced(b)
         /\ r.mState = s.mState /\ r.mMessageQueue = s.mMessageQueue
         /\ r.bus = s.bus /\ r.procs = s.procs /\ r.mSafeForDeletion = s.mSafeForDeletion
         /\ r.mBuffersQueuedForClear \in {0, s.mBuffersQueuedForClear} /\ r.odd = s.odd
         /\ r.thrown = s.thrown /\ r.mRampState = s.mRampState
<1> DEFINE f == FlushBufferQueue(s)
           a == AppendBufferToQueue(f, b)
<1>1. /\ Sound(f) /\ Whole(f) = <<>>
      /\ f.mState = s.mState /\ f.mMessageQueue = s.mMessageQueue
      /\ f.bus = s.bus /\ f.procs = s.procs /\ f.mSafeForDeletion = s.mSafeForDeletion
      /\ f.mBuffersQueuedForClear \in {0, s.mBuffersQueuedForClear} /\ f.odd = s.odd
      /\ f.thrown = s.thrown /\ f.mRampState = s.mRampState
  BY FlushIs
<1> HIDE DEF f
<1>2. /\ Sound(a) /\ Whole(a) = Whole(f) \o <<b>>
      /\ a.mState = f.mState /\ a.mMessageQueue = f.mMessageQueue
      /\ a.bus = f.bus /\ a.procs = f.procs /\ a.mSafeForDeletion = f.mSafeForDeletion
      /\ a.mBuffersQueuedForClear = f.mBuffersQueuedForClear /\ a.odd = f.odd
      /\ a.thrown = f.thrown /\ a.mRampState = f.mRampState
  BY <1>1, AppendIs
<1>3. Whole(a) = <<b>>
  <2>1. <<b>> \in Seq(Buffer)
    OBVIOUS
  <2> QED
    BY <1>1, <1>2, <2>1, ConcatEmptySeq
<1> HIDE DEF a
<1>4. ASSUME NEW u, NEW t \in {"UNDETERMINED", "STATIC"}, Sound(u)
      PROVE  LET r == Typed(u, t) IN
             /\ Sound(r) /\ Whole(r) = Whole(u)
             /\ r.mState = u.mState /\ r.mMessageQueue = u.mMessageQueue
             /\ r.bus = u.bus /\ r.procs = u.procs /\ r.mSafeForDeletion = u.mSafeForDeletion
             /\ r.mBuffersQueuedForClear = u.mBuffersQueuedForClear /\ r.odd = u.odd
             /\ r.thrown = u.thrown /\ r.mRampState = u.mRampState
  BY <1>4 DEF Typed, Sound, Counted, Whole, SourceRecord
<1>5. CASE b = AL_NONE
  <2>1. Replace(s, b) = Typed(f, "UNDETERMINED") /\ Replaced(b) = <<>>
    BY <1>5 DEF Replace, Replaced, f
  <2> QED
    BY <1>1, <1>4, <2>1
<1>6. CASE b # AL_NONE
  <2>1. Replace(s, b) = Typed(a, "STATIC") /\ Replaced(b) = <<b>>
    BY <1>6 DEF Replace, Replaced, a, f
  <2> QED
    BY <1>1, <1>2, <1>3, <1>4, <2>1
<1> QED
  BY <1>5, <1>6

LEMMA OldestIs ==
  ASSUME NEW s, NEW n \in Nat, Sound(s)
  PROVE  LET r == RemoveOldest(s, n)
             k == Smaller(n, Len(s.inactive)) IN
         /\ Sound(r) /\ Whole(r) = SubSeq(Whole(s), k + 1, Len(Whole(s)))
         /\ r.mState = s.mState /\ r.mMessageQueue = s.mMessageQueue
         /\ r.bus = s.bus /\ r.procs = s.procs /\ r.mSafeForDeletion = s.mSafeForDeletion
         /\ r.mBuffersQueuedForClear = 0 /\ r.odd = s.odd
         /\ r.thrown = s.thrown /\ r.mRampState = s.mRampState
<1> DEFINE r == RemoveOldest(s, n)
           k == Smaller(n, Len(s.inactive))
           h == SubSeq(s.inactive, 1, k)
           t == SubSeq(s.inactive, k + 1, Len(s.inactive))
           a == Release(s, h)
<1>1. s \in SourceRecord /\ Counted(s)
  BY DEF Sound
<1>2. s.active \in Seq(Buffer) /\ s.inactive \in Seq(Buffer) /\ Len(s.inactive) \in Nat
  BY <1>1, WholeIs
<1>3. k \in 0 .. Len(s.inactive)
  BY <1>2 DEF Smaller
<1> HIDE DEF k
<1>4. h \in Seq(Buffer) /\ t \in Seq(Buffer) /\ h \o t = s.inactive
  BY <1>2, <1>3, Cut
<1>5. SubSeq(s.inactive \o s.active, k + 1, Len(s.inactive \o s.active)) = t \o s.active
  BY <1>2, <1>3, CutFront
<1> HIDE DEF h, t
<1>6. /\ \A b \in Buffer : a[b] = Held(t \o s.active, b)
      /\ a \in [Buffer -> Nat]
  <2>1. ASSUME NEW b \in Buffer PROVE a[b] = Held(t \o s.active, b) /\ a[b] \in Nat
    <3>1. Held(s.inactive, b) = Held(h, b) + Held(t, b)
      BY <1>4, HeldConcat, ZenonT(40)
    <3>2. Held(Whole(s), b) = Held(s.inactive, b) + Held(s.active, b)
      BY <1>1, WholeIs
    <3>3. Held(t \o s.active, b) = Held(t, b) + Held(s.active, b)
      BY <1>2, <1>4, HeldConcat
    <3>4. Held(h, b) \in Nat /\ Held(t, b) \in Nat /\ Held(s.active, b) \in Nat
      BY <1>2, <1>4, HeldType
    <3>5. s.attached[b] = Held(Whole(s), b)
      BY <1>1 DEF Counted
    <3>6. a[b] = s.attached[b] - Held(h, b)
      BY DEF Release
    <3> HIDE DEF a
    <3> QED
      BY <3>1, <3>2, <3>3, <3>4, <3>5, <3>6
  <2>2. a = [b \in Buffer |-> a[b]]
    BY DEF Release
  <2> HIDE DEF a
  <2> QED
    BY <2>1, <2>2
<1> HIDE DEF a
<1>7. /\ r \in SourceRecord /\ r.inactive = t /\ r.active = s.active /\ r.attached = a
      /\ r.mState = s.mState /\ r.mMessageQueue = s.mMessageQueue
      /\ r.bus = s.bus /\ r.procs = s.procs /\ r.mSafeForDeletion = s.mSafeForDeletion
      /\ r.mBuffersQueuedForClear = 0 /\ r.odd = s.odd
      /\ r.thrown = s.thrown /\ r.mRampState = s.mRampState
  BY <1>1, <1>4, <1>6 DEF RemoveOldest, SourceRecord, a, h, t, k
<1> HIDE DEF r
<1>8. Whole(r) = t \o s.active
  BY <1>7 DEF Whole
<1>9. Sound(r)
  BY <1>6, <1>7, <1>8 DEF Sound, Counted
<1> QED
  BY <1>5, <1>7, <1>8, <1>9 DEF Whole, r, k

LEMMA NotedIs ==
  ASSUME NEW s, NEW w \in Odds, NEW c \in BOOLEAN, Sound(s)
  PROVE  LET r == Note(s, w, c) IN
         /\ Sound(r) /\ Whole(r) = Whole(s) /\ Kept(r) = Kept(s)
         /\ r.mState = s.mState /\ r.mMessageQueue = s.mMessageQueue
         /\ r.bus = s.bus /\ r.procs = s.procs /\ r.mSafeForDeletion = s.mSafeForDeletion
         /\ r.mBuffersQueuedForClear = s.mBuffersQueuedForClear /\ s.odd \subseteq r.odd
         /\ r.odd = {} => ~c /\ s.odd = {}
         /\ ~c => r.odd = s.odd
         /\ r.thrown = s.thrown /\ r.mRampState = s.mRampState
  BY ZenonT(40) DEF Note, Sound, Counted, Whole, Kept, SourceRecord

LEMMA AddGood ==
  ASSUME NEW s, NEW d, NEW q, NEW b \in Buffer, Good(s, d, q), ~s.thrown
  PROVE  LET r == AddToQueue(s, b) IN Good(r, d, IF r.thrown THEN q ELSE Append(q, b))
<1>1. s \in SourceRecord /\ Sound(s) /\ q \in Seq(Buffer)
  BY GoodIs
<1>2. CASE s.mSourceType = "STATIC"
  <2>1. AddToQueue(s, b) = Throw(s)
    BY <1>2 DEF AddToQueue
  <2>2. Throw(s).thrown
    BY <1>1 DEF Throw, SourceRecord
  <2> QED
    BY <2>1, <2>2, LoopGood
<1>3. CASE s.mSourceType # "STATIC"
  <2> DEFINE a == AppendBufferToQueue(s, b)
             u == Typed(a, "STREAMING")
             c == Pending(s, "SetBuffer")
             r == Note(u, "flushed", c)
  <2>1. /\ Sound(a) /\ Whole(a) = Whole(s) \o <<b>>
        /\ a.mState = s.mState /\ a.mMessageQueue = s.mMessageQueue
        /\ a.bus = s.bus /\ a.procs = s.procs /\ a.mSafeForDeletion = s.mSafeForDeletion
        /\ a.mBuffersQueuedForClear = s.mBuffersQueuedForClear /\ a.odd = s.odd
        /\ a.thrown = s.thrown
    BY <1>1, AppendIs
  <2> HIDE DEF a
  <2>2. /\ Sound(u) /\ Whole(u) = Whole(a)
        /\ u.mState = a.mState /\ u.mMessageQueue = a.mMessageQueue
        /\ u.bus = a.bus /\ u.procs = a.procs /\ u.mSafeForDeletion = a.mSafeForDeletion
        /\ u.mBuffersQueuedForClear = a.mBuffersQueuedForClear /\ u.odd = a.odd
        /\ u.thrown = a.thrown
    BY <2>1 DEF Typed, Sound, Counted, Whole, SourceRecord
  <2> HIDE DEF u
  <2>3. "flushed" \in Odds /\ c \in BOOLEAN
    BY DEF Odds, Pending
  <2> HIDE DEF c
  <2>4. /\ Sound(r) /\ Whole(r) = Whole(u)
        /\ r.mState = u.mState /\ r.mMessageQueue = u.mMessageQueue
        /\ r.bus = u.bus /\ r.procs = u.procs /\ r.mSafeForDeletion = u.mSafeForDeletion
        /\ r.mBuffersQueuedForClear = u.mBuffersQueuedForClear /\ u.odd \subseteq r.odd
        /\ r.odd = {} => ~c /\ u.odd = {}
        /\ r.thrown = u.thrown
    BY <2>2, <2>3, NotedIs
  <2>5. AddToQueue(s, b) = r
    BY <1>3 DEF AddToQueue, r, u, a, c
  <2> HIDE DEF r
  <2>6. Append(q, b) = q \o <<b>> /\ Append(q, b) \in Seq(Buffer) /\ <<b>> \in Seq(Buffer)
    BY <1>1, AppendIsConcat, AppendProperties
  <2>7. ASSUME r.odd = {}, ~d PROVE Promised(r, Append(q, b))
    <3> DEFINE M == s.mMessageQueue
               n == s.mBuffersQueuedForClear
               W == Whole(s)
    <3>1. Promised(s, q) /\ \A i \in 1 .. Len(M) : ~Setting(M, i)
      BY <2>1, <2>2, <2>4, <2>7 DEF Good, Pending, Setting, c
    <3>2. r.mMessageQueue = M /\ r.mBuffersQueuedForClear = n /\ Whole(r) = W \o <<b>>
      BY <2>1, <2>2, <2>4
    <3>3. /\ Sums(M, n) /\ n <= Len(W) /\ ((\A i \in 1 .. Len(M) : ~Clearing(M, i)) => n = 0)
          /\ Kept(s) = q
      BY <3>1 DEF Promised
    <3>4. W \in Seq(Buffer) /\ n \in Nat /\ Len(W) \in Nat
      BY <1>1, WholeIs, LenProperties DEF SourceRecord
    <3> HIDE DEF M, n, W
    <3>5. Len(W \o <<b>>) = Len(W) + 1
      BY <2>6, <3>4, ConcatProperties
    <3>6. SubSeq(W \o <<b>>, n + 1, Len(W \o <<b>>)) = SubSeq(W, n + 1, Len(W)) \o <<b>>
      <4>1. n \in 0 .. Len(W)
        BY <3>3, <3>4
      <4> QED
        BY <2>6, <3>4, <4>1, CutFront
    <3>7. Kept(r) = Append(q, b)
      <4>1. Kept(r) = SubSeq(Whole(r), n + 1, Len(Whole(r))) /\ Kept(s) = SubSeq(W, n + 1, Len(W))
        BY <3>2, Zenon DEF Kept, Whole, W, n
      <4> QED
        BY <2>6, <3>2, <3>3, <3>6, <4>1
    <3>8. n <= Len(Whole(r))
      BY <3>2, <3>3, <3>4, <3>5
    <3> QED
      BY <3>1, <3>2, <3>3, <3>7, <3>8 DEF Promised, M
  <2>8. Good(r, d, Append(q, b))
    BY <2>1, <2>2, <2>4, <2>6, <2>7, GoodRequeued
  <2>9. ~r.thrown
    BY <2>1, <2>2, <2>4
  <2> QED
    BY <2>5, <2>8, <2>9
<1> QED
  BY <1>2, <1>3

LEMMA FreedAlike ==
  ASSUME NEW s \in SourceRecord
  PROVE  Alike(s, Freed(s)) /\ Freed(s).thrown = s.thrown /\ Freed(s).odd = s.odd
         /\ Freed(s).mRampState = s.mRampState
  BY FieldsAlike DEF Freed, Typed, SourceRecord

LEMMA SetGood ==
  ASSUME NEW s, NEW d, NEW q, NEW b \in Buffer, Good(s, d, q), ~s.thrown
  PROVE  LET r == SetBuffer(s, b) IN Good(r, d, IF r.thrown THEN q ELSE Replaced(b))
<1>1. s \in SourceRecord /\ Sound(s) /\ q \in Seq(Buffer) /\ Control(s, d)
  BY GoodIs
<1>2. Replaced(b) \in Seq(Buffer)
  BY EmptySeq DEF Replaced
<1>3. CASE s.mState \in {"PLAYING", "PAUSED"}
  <2>1. SetBuffer(s, b) = Throw(s)
    BY <1>3 DEF SetBuffer
  <2>2. Throw(s).thrown
    BY <1>1 DEF Throw, SourceRecord
  <2> QED
    BY <2>1, <2>2, LoopGood
<1>4. CASE s.mState = "TRANSITION"
  <2> DEFINE t == IF b = AL_NONE THEN Typed(s, "UNDETERMINED") ELSE s
             m == Message("SetBuffer", b, 0)
             r == AddMessage(t, m)
             M == s.mMessageQueue
             A == Append(M, m)
             n == Len(M)
  <2>1. SetBuffer(s, b) = r
    BY <1>4 DEF SetBuffer
  <2>2. m \in Messages /\ m.mMessageID = "SetBuffer" /\ m.mAppendBuffer = b
    BY MessageIs DEF Message
  <2> HIDE DEF m
  <2>3. M \in Seq(Messages)
    BY <1>1 DEF SourceRecord
  <2>4. A \in Seq(Messages) /\ n \in Nat /\ Len(A) = n + 1 /\ A[n + 1] = m /\ \A i \in 1 .. n : A[i] = M[i]
    BY <2>2, <2>3, OneMore
  <2>5. /\ r \in SourceRecord /\ r.mMessageQueue = A /\ r.mState = "TRANSITION"
        /\ r.bus = s.bus /\ r.procs = s.procs /\ r.mSafeForDeletion = s.mSafeForDeletion
        /\ r.attached = s.attached /\ r.mBuffersQueuedForClear = s.mBuffersQueuedForClear
        /\ r.odd = s.odd /\ r.inactive = s.inactive /\ r.active = s.active /\ r.thrown = s.thrown
    <3> HIDE DEF A
    <3>1. t \in SourceRecord /\ t.mMessageQueue = M /\ t.mState = "TRANSITION"
        /\ t.bus = s.bus /\ t.procs = s.procs /\ t.mSafeForDeletion = s.mSafeForDeletion
        /\ t.attached = s.attached /\ t.mBuffersQueuedForClear = s.mBuffersQueuedForClear
        /\ t.odd = s.odd /\ t.inactive = s.inactive /\ t.active = s.active /\ t.thrown = s.thrown
      BY <1>1, <1>4, ZenonT(40) DEF Typed, SourceRecord
    <3> HIDE DEF t, M
    <3> QED
      BY <2>4, <3>1 DEF AddMessage, SourceRecord, A
  <2> HIDE DEF r
  <2>6. Whole(r) = Whole(s)
    BY <2>5 DEF Whole
  <2>7. Sound(r)
    BY <1>1, <2>5, <2>6 DEF Sound, Counted
  <2> HIDE DEF A, n
  <2>8. Pending(r, "DeconstructionStop") <=> Pending(s, "DeconstructionStop")
    <3>1. \A i \in 1 .. n + 1 : i = n + 1 \/ i \in 1 .. n
      BY <2>4
    <3>2. \A i \in 1 .. n : i \in 1 .. n + 1
      BY <2>4
    <3>3. n + 1 \in 1 .. n + 1
      BY <2>4
    <3>4. Pending(r, "DeconstructionStop") <=> \E i \in 1 .. n + 1 : A[i].mMessageID = "DeconstructionStop"
      BY <2>4, <2>5 DEF Pending
    <3>5. Pending(s, "DeconstructionStop") <=> \E i \in 1 .. n : M[i].mMessageID = "DeconstructionStop"
      BY DEF Pending, n
    <3> HIDE DEF M
    <3> QED
      BY <2>2, <2>4, <3>1, <3>2, <3>4, <3>5
  <2>9. Leads(M) => Leads(A)
    BY <2>2, <2>3, EarlyMore DEF A
  <2>10. Control(r, d)
    BY <1>1, <1>4, <2>5, <2>8, <2>9 DEF Control
  <2>11. ASSUME r.odd = {}, ~d PROVE Promised(r, Replaced(b))
    <3> DEFINE c == s.mBuffersQueuedForClear
    <3>1. Promised(s, q) /\ c \in Nat
      BY <1>1, <2>5, <2>11 DEF Good, SourceRecord
    <3>2. /\ Sums(M, c) /\ c <= Len(Whole(s))
          /\ (\A i \in 1 .. n : ~Clearing(M, i)) => c = 0
          /\ \A i, j \in 1 .. n : Setting(M, i) /\ Clearing(M, j) => j < i
      BY <3>1 DEF Promised, n
    <3>3. Sums(A, c)
      <4>1. Sums(A, c + Clears(m)) /\ Clears(m) = 0
        BY <2>2, <2>3, <3>1, <3>2, SumsMore DEF Clears, A
      <4>2. c + Clears(m) = c
        BY <3>1, <4>1
      <4> QED
        BY <4>1, <4>2
    <3> HIDE DEF c, M
    <3>4. \A i \in 1 .. n + 1 : i = n + 1 \/ (i \in 1 .. n /\ i < n + 1)
      BY <2>4
    <3>5. /\ ~Clearing(A, n + 1) /\ Setting(A, n + 1) /\ A[n + 1].mAppendBuffer = b
          /\ \A i \in 1 .. n : (Clearing(A, i) <=> Clearing(M, i)) /\ (Setting(A, i) <=> Setting(M, i))
      BY <2>2, <2>4 DEF Clearing, Setting
    <3>6. (\A i \in 1 .. n + 1 : ~Clearing(A, i)) => c = 0
      BY <2>4, <3>2, <3>5
    <3>7. \A i, j \in 1 .. n + 1 : Setting(A, i) /\ Clearing(A, j) => j < i
      BY <3>2, <3>4, <3>5
    <3>8. n + 1 \in 1 .. n + 1 /\ \A i \in 1 .. n : n + 1 \in i + 1 .. n + 1
      BY <2>4
    <3>9. ~ \A i \in 1 .. n + 1 : ~Setting(A, i)
      BY <3>5, <3>8
    <3>10. ASSUME NEW i \in 1 .. n + 1, Setting(A, i), \A j \in i + 1 .. n + 1 : ~Setting(A, j)
           PROVE  Replaced(b) = Replaced(A[i].mAppendBuffer)
      <4>1. i = n + 1
        BY <3>4, <3>5, <3>8, <3>10
      <4> QED
        BY <3>5, <4>1
    <3>11. r.mMessageQueue = A /\ Len(A) = n + 1 /\ r.mBuffersQueuedForClear = c
      BY <2>4, <2>5 DEF c
    <3> QED
      BY <2>6, <3>2, <3>3, <3>6, <3>7, <3>9, <3>10, <3>11 DEF Promised
  <2>12. Good(r, d, Replaced(b))
    BY <1>2, <2>7, <2>10, <2>11 DEF Good
  <2> QED
    BY <2>1, <2>5, <2>12
<1>5. CASE s.mState \in {"INITIAL", "STOPPED"}
  <2> DEFINE r == Replace(s, b)
  <2>1. SetBuffer(s, b) = r
    BY <1>5 DEF SetBuffer
  <2>2. /\ Sound(r) /\ Whole(r) = Replaced(b)
        /\ r.mState = s.mState /\ r.mMessageQueue = s.mMessageQueue
        /\ r.bus = s.bus /\ r.procs = s.procs /\ r.mSafeForDeletion = s.mSafeForDeletion
        /\ r.mBuffersQueuedForClear \in {0, s.mBuffersQueuedForClear} /\ r.odd = s.odd
        /\ r.thrown = s.thrown
    BY <1>1, ReplaceIs
  <2> HIDE DEF r
  <2>3. ASSUME r.odd = {}, ~d PROVE Promised(r, Replaced(b))
    <3>1. AllEarly(s.mMessageQueue) /\ s.mBuffersQueuedForClear = 0
      <4>1. s.odd = {} /\ ~d /\ s.mState # "TRANSITION"
        BY <1>5, <2>2, <2>3
      <4> QED
        BY <4>1, GoodNow
    <3>2. r \in SourceRecord /\ AllEarly(r.mMessageQueue) /\ r.mBuffersQueuedForClear = 0
      BY <2>2, <3>1 DEF Sound
    <3> QED
      BY <2>2, <3>2, PromisedNow
  <2>4. Good(r, d, Replaced(b))
    BY <1>2, <2>2, <2>3, GoodRequeued
  <2> QED
    BY <2>1, <2>2, <2>4
<1> QED
  BY <1>1, <1>3, <1>4, <1>5 DEF SourceRecord, States

LEMMA QLengthIs ==
  ASSUME NEW s \in SourceRecord
  PROVE  GetQLength(s) = Len(Whole(s)) - s.mBuffersQueuedForClear
<1>1. /\ Len(Whole(s)) = Len(s.inactive) + Len(s.active)
      /\ Len(s.inactive) \in Nat /\ Len(s.active) \in Nat /\ Len(Whole(s)) \in Nat
  BY WholeIs, LenProperties
<1>2. s.mBuffersQueuedForClear \in Nat
  BY DEF SourceRecord
<1>3. \A i, a, w, c \in Nat : w = i + a => i + a - c = w - c
  OBVIOUS
<1>4. GetQLength(s) = Len(s.inactive) + Len(s.active) - s.mBuffersQueuedForClear
  BY Zenon DEF GetQLength
<1>5. Len(s.inactive) + Len(s.active) - s.mBuffersQueuedForClear = Len(Whole(s)) - s.mBuffersQueuedForClear
  BY <1>1, <1>2, <1>3, ZenonT(40)
<1> QED
  BY <1>4, <1>5, Zenon

LEMMA RemoveGood ==
  ASSUME NEW s, NEW d, NEW q, NEW n \in Nat \ {0}, Good(s, d, q), ~s.thrown
  PROVE  LET r == RemoveBuffersFromQueue(s, n) IN
         Good(r, d, IF r.thrown THEN q ELSE SubSeq(q, Named(s, n) + 1, Len(q)))
<1> DEFINE W == Whole(s)
           c == s.mBuffersQueuedForClear
           v == IF s.mState = "STOPPED" THEN ClearActiveQueue(s) ELSE s
           k == IF n > c THEN n - c ELSE 1
           M == s.mMessageQueue
           m == Message("ClearBuffersFromQueue", AL_NONE, n)
           f == Pending(s, "SetBuffer")
           u == Freed(AddMessage([s EXCEPT !.mBuffersQueuedForClear = @ + n], m))
           w == Freed(RemoveOldest(v, k))
           p == SubSeq(q, Named(s, n) + 1, Len(q))
           no == \/ n > GetQLength(s)
                 \/ s.mState \in {"PLAYING", "PAUSED"} /\ s.mLooping
                 \/ s.mState \in {"PLAYING", "PAUSED", "STOPPED"} /\ n > Len(v.inactive)
           r == RemoveBuffersFromQueue(s, n)
<1>1. s \in SourceRecord /\ Sound(s) /\ q \in Seq(Buffer) /\ Control(s, d)
  BY GoodIs
<1>2. r = IF no THEN Throw(v)
          ELSE IF s.mState = "TRANSITION" THEN Note(u, "replaced", f) ELSE w
  <2>1. r = IF no THEN Throw(v)
            ELSE IF s.mState # "TRANSITION" THEN w ELSE Note(u, "replaced", f)
    BY Zenon DEF RemoveBuffersFromQueue
  <2> HIDE DEF r, no, v, u, w, f
  <2> QED
    BY <2>1
<1> HIDE DEF r
<1>3. Good(v, d, q) /\ v.mState = s.mState /\ v.thrown = s.thrown
      /\ v.mBuffersQueuedForClear = c /\ v.odd = s.odd /\ Whole(v) = W
  <2>1. Good(v, d, q)
    BY LoopGood
  <2>2. v.mState = s.mState /\ v.thrown = s.thrown /\ v.mBuffersQueuedForClear = c /\ v.odd = s.odd
    BY <1>1 DEF ClearActiveQueue, SourceRecord
  <2>3. Whole(v) = W
    <3>1. ClearActiveQueue(s).inactive = W /\ ClearActiveQueue(s).active = <<>> /\ W \in Seq(Buffer)
      BY <1>1, ClearMoves, WholeIs
    <3> QED
      BY <3>1, ConcatEmptySeq DEF Whole
  <2> QED
    BY <2>1, <2>2, <2>3
<1>4. v \in SourceRecord /\ Sound(v) /\ c \in Nat /\ W \in Seq(Buffer) /\ Len(W) \in Nat
      /\ Len(W) = Len(s.inactive) + Len(s.active) /\ Len(s.inactive) \in Nat /\ Len(s.active) \in Nat
  <2>1. v \in SourceRecord /\ Sound(v) /\ c \in Nat
    BY <1>1, <1>3, GoodIs DEF SourceRecord
  <2>2. W \in Seq(Buffer) /\ Len(W) = Len(s.inactive) + Len(s.active)
        /\ Len(s.inactive) \in Nat /\ Len(s.active) \in Nat
    BY <1>1, WholeIs
  <2>3. Len(W) \in Nat
    <3> HIDE DEF W
    <3> QED
      BY <2>2, LenProperties
  <2> HIDE DEF v, W, c
  <2> QED
    BY <2>1, <2>2, <2>3
<1>5. CASE no
  <2>1. r = Throw(v) /\ r.thrown
    BY <1>2, <1>4, <1>5 DEF Throw, SourceRecord
  <2>2. Good(Throw(v), d, q)
    BY <1>3, LoopGood
  <2> QED
    BY <2>1, <2>2 DEF r
<1>6. CASE ~no /\ s.mState = "TRANSITION"
  <2>1. m \in Messages /\ m.mMessageID = "ClearBuffersFromQueue" /\ m.mBuffers = n
    BY MessageIs DEF Message
  <2> HIDE DEF m
  <2> DEFINE A == Append(M, m)
             l == Len(M)
             b == AddMessage([s EXCEPT !.mBuffersQueuedForClear = @ + n], m)
  <2>2. M \in Seq(Messages)
    BY <1>1 DEF SourceRecord
  <2>3. A \in Seq(Messages) /\ l \in Nat /\ Len(A) = l + 1 /\ A[l + 1] = m /\ \A i \in 1 .. l : A[i] = M[i]
    BY <2>1, <2>2, OneMore
  <2>4. /\ b \in SourceRecord /\ b.mMessageQueue = A /\ b.mState = "TRANSITION"
        /\ b.bus = s.bus /\ b.procs = s.procs /\ b.mSafeForDeletion = s.mSafeForDeletion
        /\ b.attached = s.attached /\ b.mBuffersQueuedForClear = c + n
        /\ b.odd = s.odd /\ b.inactive = s.inactive /\ b.active = s.active /\ b.thrown = s.thrown
    <3>1. c + n \in Nat
      BY <1>4
    <3> HIDE DEF A
    <3> QED
      BY <1>1, <1>6, <2>3, <3>1 DEF AddMessage, SourceRecord, A
  <2> HIDE DEF b
  <2>5. Whole(b) = W
    BY <2>4 DEF Whole
  <2>6. Alike(b, u) /\ u.thrown = b.thrown /\ u.odd = b.odd /\ u \in SourceRecord
    BY <2>4, FreedAlike DEF b, Alike
  <2> HIDE DEF u
  <2>7. "replaced" \in Odds /\ f \in BOOLEAN
    BY DEF Odds, Pending
  <2>8. r = Note(u, "replaced", f)
    BY <1>2, <1>6
  <2>9. Sound(u)
    <3>1. Sound(b)
      BY <1>1, <2>4, <2>5 DEF Sound, Counted
    <3> QED
      BY <2>6, <3>1 DEF Sound, Counted, Alike
  <2> HIDE DEF f, A, l
  <2>10. /\ Sound(r) /\ Whole(r) = Whole(u)
         /\ r.mMessageQueue = A /\ r.mState = "TRANSITION"
         /\ r.bus = s.bus /\ r.procs = s.procs /\ r.mSafeForDeletion = s.mSafeForDeletion
         /\ r.mBuffersQueuedForClear = c + n
         /\ (r.odd = {} => ~f /\ s.odd = {}) /\ ~r.thrown
    <3>1. /\ Sound(r) /\ Whole(r) = Whole(u)
         /\ r.mState = u.mState /\ r.mMessageQueue = u.mMessageQueue
         /\ r.bus = u.bus /\ r.procs = u.procs /\ r.mSafeForDeletion = u.mSafeForDeletion
         /\ r.mBuffersQueuedForClear = u.mBuffersQueuedForClear
         /\ (r.odd = {} => ~f /\ u.odd = {})
         /\ r.thrown = u.thrown
      BY <2>7, <2>8, <2>9, NotedIs
    <3> HIDE DEF r, M
    <3> QED
      BY <2>4, <2>6, <3>1 DEF Alike
  <2>11. Pending(r, "DeconstructionStop") <=> Pending(s, "DeconstructionStop")
    <3>1. \A i \in 1 .. l + 1 : i = l + 1 \/ i \in 1 .. l
      BY <2>3
    <3>2. \A i \in 1 .. l : i \in 1 .. l + 1
      BY <2>3
    <3>3. l + 1 \in 1 .. l + 1
      BY <2>3
    <3>4. Pending(r, "DeconstructionStop") <=> \E i \in 1 .. l + 1 : A[i].mMessageID = "DeconstructionStop"
      BY <2>3, <2>10 DEF Pending
    <3>5. Pending(s, "DeconstructionStop") <=> \E i \in 1 .. l : M[i].mMessageID = "DeconstructionStop"
      BY DEF Pending, l
    <3> HIDE DEF M
    <3> QED
      BY <2>1, <2>3, <3>1, <3>2, <3>4, <3>5
  <2>12. Leads(M) => Leads(A)
    BY <2>1, <2>2, EarlyMore DEF A
  <2>13. Control(r, d)
    BY <1>1, <1>6, <2>10, <2>11, <2>12 DEF Control
  <2>14. Named(s, n) = n
    BY <1>6 DEF Named
  <2>15. c + n <= Len(W)
    <3>1. GetQLength(s) = Len(W) - c
      BY <1>1, QLengthIs
    <3>2. ~(n > GetQLength(s))
      BY <1>6, Zenon
    <3> HIDE DEF c, W, no
    <3>3. n \in Nat
      OBVIOUS
    <3>4. \A x, y, z \in Nat : ~(x > y - z) => z + x <= y
      OBVIOUS
    <3> QED
      BY <1>4, <3>1, <3>2, <3>3, <3>4, Zenon
  <2>16. ASSUME r.odd = {}, ~d PROVE Promised(r, p)
    <3>1. Promised(s, q) /\ \A i \in 1 .. l : ~Setting(M, i)
      <4>1. ~f /\ s.odd = {}
        BY <2>10, <2>16
      <4>2. Promised(s, q)
        BY <4>1, <2>16 DEF Good
      <4> QED
        BY <4>1, <4>2 DEF Pending, Setting, f, l
    <3>2. Sums(M, c) /\ Kept(s) = q
      BY <3>1 DEF Promised, l
    <3>3. Sums(A, c + n)
      <4>1. Sums(A, c + Clears(m)) /\ Clears(m) = n
        BY <1>4, <2>1, <2>2, <3>2, SumsMore DEF Clears, A
      <4> QED
        BY <4>1
    <3>4. Whole(r) = W
      <4>1. r.odd = {} => u.odd = {}
        BY <2>4, <2>6, <2>10
      <4> QED
        BY <2>5, <2>6, <2>10, <2>16, <4>1 DEF Alike
    <3>5. Kept(r) = p
      <4>1. Kept(s) = SubSeq(W, c + 1, Len(W))
        BY DEF Kept, Whole
      <4>2. Kept(r) = SubSeq(W, c + n + 1, Len(W))
        BY <2>10, <3>4 DEF Kept, Whole
      <4>3. SubSeq(SubSeq(W, c + 1, Len(W)), n + 1, Len(SubSeq(W, c + 1, Len(W)))) = SubSeq(W, c + n + 1, Len(W))
        <5> HIDE DEF W, c
        <5> QED
          BY <1>4, <2>15, CutTwice
      <4> QED
        BY <2>14, <3>2, <4>1, <4>2, <4>3, Zenon
    <3> HIDE DEF c, M, W, p
    <3>6. \A i \in 1 .. l + 1 : i = l + 1 \/ i \in 1 .. l
      BY <2>3
    <3>7. /\ Clearing(A, l + 1) /\ ~Setting(A, l + 1) /\ l + 1 \in 1 .. l + 1
          /\ \A i \in 1 .. l : (Setting(A, i) <=> Setting(M, i))
      BY <2>1, <2>3 DEF Clearing, Setting
    <3>8. \A i \in 1 .. l + 1 : ~Setting(A, i)
      BY <3>1, <3>6, <3>7
    <3>9. r.mMessageQueue = A /\ Len(A) = l + 1 /\ r.mBuffersQueuedForClear = c + n
      BY <2>3, <2>10 DEF c
    <3>10. c + n <= Len(Whole(r))
      BY <2>15, <3>4 DEF W, c
    <3> QED
      BY <3>3, <3>5, <3>7, <3>8, <3>9, <3>10 DEF Promised
  <2>17. p \in Seq(Buffer)
    <3>1. CASE n <= Len(q)
      <4>1. n \in 0 .. Len(q)
        BY <1>1, <3>1, LenProperties
      <4> QED
        BY <1>1, <2>14, <4>1, Cut
    <3>2. CASE n > Len(q)
      <4>1. SubSeq(q, n + 1, Len(q)) = <<>>
        BY <1>1, <3>2, SubSeqEmpty, LenProperties
      <4> QED
        BY <2>14, <4>1, EmptySeq
    <3> QED
      BY <1>1, <3>1, <3>2, LenProperties
  <2> HIDE DEF p
  <2>18. Good(r, d, p)
    BY <2>10, <2>13, <2>16, <2>17 DEF Good
  <2> QED
    BY <2>10, <2>18 DEF r, p
<1>7. CASE ~no /\ s.mState # "TRANSITION"
  <2> DEFINE z == RemoveOldest(v, k)
             j == Smaller(k, Len(v.inactive))
  <2>1. k \in Nat
    BY <1>4
  <2> HIDE DEF k
  <2>2. /\ Sound(z) /\ Whole(z) = SubSeq(Whole(v), j + 1, Len(Whole(v)))
        /\ z.mState = v.mState /\ z.mMessageQueue = v.mMessageQueue
        /\ z.bus = v.bus /\ z.procs = v.procs /\ z.mSafeForDeletion = v.mSafeForDeletion
        /\ z.mBuffersQueuedForClear = 0 /\ z.odd = v.odd
        /\ z.thrown = v.thrown
    BY <1>4, <2>1, OldestIs
  <2> HIDE DEF z
  <2>3. Alike(z, w) /\ w.thrown = z.thrown /\ w.odd = z.odd
    BY <2>2, FreedAlike DEF Sound, z
  <2> HIDE DEF w
  <2>4. r = w
    BY <1>2, <1>7
  <2>5. ~r.thrown
    BY <1>3, <2>2, <2>3, <2>4
  <2>6. ASSUME s.odd = {}, ~d PROVE AllEarly(v.mMessageQueue) /\ c = 0 /\ q = W /\ j = Named(s, n)
    <3>1. AllEarly(v.mMessageQueue) /\ c = 0 /\ q = W
      BY <1>3, <1>7, <2>6, GoodNow
    <3>2. k = n
      BY <3>1 DEF k
    <3>3. j = Named(s, n)
      BY <1>4, <1>7, <3>2, <1>1 DEF Named, Smaller, SourceRecord, States
    <3> QED
      BY <3>1, <3>3
  <2>7. p \in Seq(Buffer)
    <3>1. Named(s, n) \in Nat /\ Len(q) \in Nat
      BY <1>1, <1>4, LenProperties DEF Named, Smaller
    <3>2. CASE Named(s, n) <= Len(q)
      <4>1. Named(s, n) \in 0 .. Len(q)
        BY <3>1, <3>2
      <4> QED
        BY <1>1, <4>1, Cut
    <3>3. CASE Named(s, n) > Len(q)
      <4>1. SubSeq(q, Named(s, n) + 1, Len(q)) = <<>>
        BY <1>1, <3>1, <3>3, SubSeqEmpty
      <4> QED
        BY <4>1, EmptySeq
    <3> QED
      BY <3>1, <3>2, <3>3
  <2>8. ASSUME z.odd = {}, ~d PROVE Promised(z, p)
    <3>1. AllEarly(v.mMessageQueue) /\ q = W /\ j = Named(s, n)
      BY <1>3, <2>2, <2>6, <2>8
    <3>2. p = Whole(z)
      BY <1>3, <2>2, <3>1
    <3>3. z \in SourceRecord /\ AllEarly(z.mMessageQueue) /\ z.mBuffersQueuedForClear = 0
      BY <2>2, <3>1 DEF Sound
    <3> HIDE DEF p
    <3> QED
      BY <3>2, <3>3, PromisedNow
  <2> HIDE DEF p, v
  <2>9. Good(z, d, p)
    BY <1>3, <2>2, <2>7, <2>8, GoodRequeued
  <2>10. Good(w, d, p)
    BY <2>3, <2>9, GoodAlike
  <2> QED
    BY <2>4, <2>5, <2>10 DEF r, p
<1> QED
  BY <1>5, <1>6, <1>7

LEMMA DeconstructGood ==
  ASSUME NEW s, NEW d, NEW q, Good(s, d, q)
  PROVE  Good(SetUpDeconstruction(s), TRUE, q)
<1> DEFINE m == Message("DeconstructionStop", AL_NONE, 0)
           M == s.mMessageQueue
           A == Append(M, m)
           l == Len(M)
           c == s.mState = "PLAYING"
           a == AddMessage(s, m)
           o == Note(a, "unramped", c)
           f == [s EXCEPT !.mSafeForDeletion = TRUE]
           r == SetUpDeconstruction(s)
<1>1. s \in SourceRecord /\ Sound(s) /\ q \in Seq(Buffer) /\ Control(s, d)
  BY GoodIs
<1>2. ASSUME NEW u, Sound(u)
      PROVE  LET v == In(u, "TRANSITION") IN
             /\ Sound(v) /\ v.mState = "TRANSITION" /\ v.mMessageQueue = u.mMessageQueue
             /\ v.bus = u.bus /\ v.procs = u.procs /\ v.mSafeForDeletion = u.mSafeForDeletion
             /\ v.odd = u.odd
  BY <1>2 DEF In, Sound, Counted, Whole, SourceRecord, States
<1>3. CASE s.mState \in {"PLAYING", "TRANSITION"}
  <2>1. m \in Messages /\ m.mMessageID = "DeconstructionStop"
    BY MessageIs DEF Ids
  <2>2. M \in Seq(Messages)
    BY <1>1 DEF SourceRecord
  <2>3. r = In(o, "TRANSITION")
    <3> HIDE DEF o
    <3> QED
      BY <1>3, Zenon DEF SetUpDeconstruction, AddPlaybackMessage, o
  <2> HIDE DEF m
  <2>4. A \in Seq(Messages) /\ l \in Nat /\ Len(A) = l + 1 /\ A[l + 1] = m
    BY <2>1, <2>2, OneMore
  <2>5. /\ Sound(a) /\ a.mMessageQueue = A
        /\ a.bus = s.bus /\ a.procs = s.procs /\ a.mSafeForDeletion = s.mSafeForDeletion
        /\ a.odd = s.odd
    <3> HIDE DEF A, M
    <3>1. a = [s EXCEPT !.mMessageQueue = A]
      BY DEF AddMessage, A, M
    <3> HIDE DEF a
    <3> QED
      BY <1>1, <2>4, <3>1 DEF Sound, Counted, Whole, SourceRecord
  <2> HIDE DEF a
  <2>6. "unramped" \in Odds /\ c \in BOOLEAN
    BY DEF Odds
  <2> HIDE DEF c
  <2>7. /\ Sound(o) /\ o.mMessageQueue = a.mMessageQueue
        /\ o.bus = a.bus /\ o.procs = a.procs /\ o.mSafeForDeletion = a.mSafeForDeletion
        /\ (o.odd = {} => ~c /\ a.odd = {})
    BY <2>5, <2>6, NotedIs
  <2> HIDE DEF o, r, A, l
  <2>8. /\ Sound(r) /\ r.mState = "TRANSITION" /\ r.mMessageQueue = A
        /\ r.bus = s.bus /\ r.procs = s.procs /\ r.mSafeForDeletion = s.mSafeForDeletion
        /\ (r.odd = {} => ~c /\ s.odd = {})
    BY <1>2, <2>3, <2>5, <2>7
  <2>9. Pending(r, "DeconstructionStop")
    BY <2>1, <2>4, <2>8 DEF Pending
  <2>10. Leads(M) => Leads(A)
    BY <2>1, <2>2, EarlyMore DEF A
  <2>11. Control(r, TRUE)
    BY <1>1, <1>3, <2>8, <2>9, <2>10 DEF Control, c
  <2>12. Good(r, TRUE, q)
    BY <1>1, <2>8, <2>11 DEF Good
  <2> QED
    BY <2>12 DEF r
<1>4. CASE s.mState \notin {"PLAYING", "TRANSITION"}
  <2>1. r = In(f, "TRANSITION")
    <3> HIDE DEF f, m, o
    <3> QED
      BY <1>4, Zenon DEF SetUpDeconstruction, f
  <2>2. /\ Sound(f) /\ f.mMessageQueue = s.mMessageQueue
        /\ f.bus = s.bus /\ f.procs = s.procs /\ f.mSafeForDeletion = TRUE
        /\ f.odd = s.odd
    BY <1>1 DEF Sound, Counted, Whole, SourceRecord
  <2> HIDE DEF f, r
  <2>3. /\ Sound(r) /\ r.mState = "TRANSITION"
        /\ r.bus = s.bus /\ r.procs = s.procs /\ r.mSafeForDeletion = TRUE
        /\ r.odd = s.odd
    BY <1>2, <2>1, <2>2
  <2>4. Control(r, TRUE)
    BY <1>1, <2>3 DEF Control
  <2>5. Good(r, TRUE, q)
    BY <1>1, <2>3, <2>4 DEF Good
  <2> QED
    BY <2>5 DEF r
<1> QED
  BY <1>3, <1>4

(* The render thread lets a dead source only come to its end.               *)
LEMMA DeadGood ==
  ASSUME NEW s, NEW q, Good(s, TRUE, q)
  PROVE  LET r == AddPlaybackMessage([s EXCEPT !.mMessageQueue = <<>>], "DeconstructionStop") IN
         Good(r, TRUE, q) /\ r.thrown = s.thrown
<1> DEFINE m == Message("DeconstructionStop", AL_NONE, 0)
           A == Append(<<>>, m)
           r == AddPlaybackMessage([s EXCEPT !.mMessageQueue = <<>>], "DeconstructionStop")
<1>1. s \in SourceRecord /\ Sound(s) /\ q \in Seq(Buffer) /\ Control(s, TRUE)
  BY GoodIs
<1>2. m \in Messages /\ m.mMessageID = "DeconstructionStop"
  BY MessageIs DEF Ids
<1>3. A \in Seq(Messages) /\ Len(A) = 1 /\ A[1] = m /\ AllEarly(<<>>) /\ <<>> \in Seq(Messages)
  <2>1. <<>> \in Seq(Messages) /\ Len(<<>>) = 0 /\ 0 + 1 = 1
    OBVIOUS
  <2> HIDE DEF m
  <2> QED
    BY <1>2, <2>1, OneMore DEF AllEarly
<1>4. /\ Sound(r) /\ r.mState = s.mState /\ r.mMessageQueue = A
      /\ r.bus = s.bus /\ r.procs = s.procs /\ r.mSafeForDeletion = s.mSafeForDeletion
      /\ r.odd = s.odd /\ r.thrown = s.thrown
  <2>1. [s EXCEPT !.mMessageQueue = <<>>].mMessageQueue = <<>>
    BY <1>1 DEF SourceRecord
  <2>2. r = [[s EXCEPT !.mMessageQueue = <<>>] EXCEPT !.mMessageQueue = A]
    BY <1>1, <2>1 DEF AddPlaybackMessage, AddMessage
  <2> HIDE DEF A, r
  <2> QED
    BY <1>1, <1>3, <2>2 DEF Sound, Counted, Whole, SourceRecord
<1> HIDE DEF A, r
<1>5. Pending(r, "DeconstructionStop") /\ Leads(r.mMessageQueue)
  <2>1. 1 \in 1 .. Len(A) /\ A[1].mMessageID \in Ending
    BY <1>2, <1>3 DEF Ending
  <2>2. \A i \in 1 .. 1 - 1 : FALSE
    OBVIOUS
  <2>3. \A i \in 1 + 1 .. Len(A) : FALSE
    BY <1>3
  <2> QED
    BY <1>2, <1>3, <1>4, <2>1, <2>2, <2>3 DEF Leads, Pending
<1>6. Control(r, TRUE)
  BY <1>1, <1>4, <1>5 DEF Control
<1>7. Good(r, TRUE, q)
  BY <1>1, <1>4, <1>6 DEF Good
<1> QED
  BY <1>4, <1>7 DEF r

LEMMA DeadIs ==
  ASSUME NEW s \in SourceRecord
  PROVE  LET r == AddPlaybackMessage([s EXCEPT !.mMessageQueue = <<>>], "DeconstructionStop") IN
         r \in SourceRecord /\ r.thrown = s.thrown /\ r.odd = s.odd
<1> DEFINE m == Message("DeconstructionStop", AL_NONE, 0)
           A == Append(<<>>, m)
           r == AddPlaybackMessage([s EXCEPT !.mMessageQueue = <<>>], "DeconstructionStop")
<1>1. m \in Messages
  BY MessageIs DEF Ids
<1>2. A \in Seq(Messages)
  <2> HIDE DEF m
  <2> QED
    BY <1>1
<1>3. [s EXCEPT !.mMessageQueue = <<>>].mMessageQueue = <<>>
  BY DEF SourceRecord
<1>4. r = [[s EXCEPT !.mMessageQueue = <<>>] EXCEPT !.mMessageQueue = A]
  BY <1>3 DEF AddPlaybackMessage, AddMessage
<1> HIDE DEF A, r
<1> QED
  BY <1>2, <1>4 DEF SourceRecord, r

LEMMA NewGood == Good(NewSource, FALSE, <<>>) /\ ~NewSource.thrown
<1>1. <<>> \in Seq(Buffer) /\ <<>> \in Seq(Messages)
  OBVIOUS
<1>2. NewSource \in SourceRecord
  BY <1>1 DEF NewSource, SourceRecord, States
<1>3. Whole(NewSource) = <<>>
  BY <1>1, ConcatEmptySeq DEF NewSource, Whole
<1>4. Sound(NewSource)
  BY <1>2, <1>3, HeldOne DEF Sound, Counted, NewSource
<1>5. Control(NewSource, FALSE)
  BY DEF Control, NewSource, Pending
<1>6. Promised(NewSource, <<>>)
  <2>1. AllEarly(NewSource.mMessageQueue) /\ NewSource.mBuffersQueuedForClear = 0
    BY DEF AllEarly, NewSource
  <2> QED
    BY <1>2, <1>3, <2>1, PromisedNow
<1> QED
  BY <1>1, <1>4, <1>5, <1>6 DEF Good, NewSource

(* One entry of the queue is cleared.                                       *)
LEMMA OldestMoves ==
  ASSUME NEW s \in SourceRecord, s.active # <<>>
  PROVE  Moved(s, ClearOldest(s))
<1> DEFINE p == s.inactive
           q == s.active
           e == <<q[1]>>
           t == SubSeq(q, 2, Len(q))
           r == ClearOldest(s)
<1>1. p \in Seq(Buffer) /\ q \in Seq(Buffer) /\ Len(q) > 0
  BY EmptySeq, LenProperties DEF SourceRecord
<1>2. q[1] \in Buffer /\ e \in Seq(Buffer) /\ t \in Seq(Buffer) /\ e \o t = q
  BY <1>1, FirstRest
<1>3. Head(q) = q[1] /\ Tail(q) = t
  BY <1>1
<1>4. Append(p, q[1]) = p \o e /\ p \o e \in Seq(Buffer)
  BY <1>1, <1>2, AppendIsConcat, ConcatProperties
<1>5. r = [s EXCEPT !.inactive = p \o e, !.active = t]
  BY <1>3, <1>4 DEF ClearOldest, SourceRecord
<1>6. (p \o e) \o t = p \o q
  <2> HIDE DEF p, q, e, t
  <2>1. (p \o e) \o t = p \o (e \o t)
    BY <1>1, <1>2, Assoc, Zenon
  <2> QED
    BY <1>2, <2>1
<1>7. r \in SourceRecord /\ Whole(r) = (p \o e) \o t
  <2> HIDE DEF e, t
  <2> QED
    BY <1>2, <1>4, <1>5 DEF Whole, SourceRecord
<1>8. /\ SameControl(s, r) /\ r.attached = s.attached /\ r.thrown = s.thrown
      /\ r.mBuffersQueuedForClear = s.mBuffersQueuedForClear /\ r.odd = s.odd
  BY DEF ClearOldest, SourceRecord, SameControl
<1>9. Whole(r) = Whole(s)
  BY <1>6, <1>7 DEF Whole
<1> HIDE DEF r
<1>10. Moved(s, r)
  BY <1>7, <1>8, <1>9, MovedSame
<1> QED
  BY <1>10 DEF r

(* An entry cleared beside a slice: still a source, of which nothing else is*)
(* said.                                                                    *)
LEMMA UnlockedIs ==
  ASSUME NEW s \in SourceRecord, s.active # <<>>, NEW r \in Unlocked(s)
  PROVE  r \in SourceRecord /\ r.thrown = s.thrown /\ "unlocked" \in r.odd
<1>1. s.active \in Seq(Buffer) /\ s.inactive \in Seq(Buffer) /\ s.odd \cup {"unlocked"} \in SUBSET Odds
  BY DEF SourceRecord, Odds
<1>2. Head(s.active) \in Buffer /\ Tail(s.active) \in Seq(Buffer)
  BY <1>1
<1>3. Append(s.inactive, Head(s.active)) \in Seq(Buffer)
  BY <1>1, <1>2
<1> DEFINE I == {s.inactive, Append(s.inactive, Head(s.active))}
           A == {s.active, Tail(s.active)}
           u(i, a) == [s EXCEPT !.inactive = i, !.active = a, !.odd = @ \cup {"unlocked"}]
<1>5. I \subseteq Seq(Buffer) /\ A \subseteq Seq(Buffer)
  BY <1>1, <1>2, <1>3
<1>6. r \in {u(i, a) : i \in I, a \in A}
  BY DEF Unlocked
<1> HIDE DEF I, A, u
<1>7. \E i \in I, a \in A : r = u(i, a)
  BY <1>6
<1>4. PICK i \in Seq(Buffer), a \in Seq(Buffer) : r = u(i, a)
  BY <1>5, <1>7
<1> USE DEF u
<1> QED
  BY <1>1, <1>4 DEF SourceRecord

LEMMA RenderGood ==
  ASSUME NEW s, NEW d, NEW q, Good(s, d, q)
  PROVE  /\ Good(DoPreRender(s), d, q) /\ DoPreRender(s).thrown = s.thrown
         /\ \A n \in Nat : Good(DoRender(s, n), d, q) /\ DoRender(s, n).thrown = s.thrown
         /\ \A f \in BOOLEAN : Good(SetLooping(s, f), d, q) /\ SetLooping(s, f).thrown = s.thrown
         /\ s.active # <<>> => Good(ClearOldest(s), d, q) /\ ClearOldest(s).thrown = s.thrown
<1>1. s \in SourceRecord
  BY GoodIs
<1>2. Good(DoPreRender(s), d, q) /\ DoPreRender(s).thrown = s.thrown
  <2>1. Moved(s, DoPreRender(s))
    BY <1>1, FieldMoves
  <2> QED
    BY <2>1, MovedAlike, GoodAlike DEF Moved, Shuffled
<1>3. ASSUME NEW n \in Nat PROVE Good(DoRender(s, n), d, q) /\ DoRender(s, n).thrown = s.thrown
  <2>1. PICK r \in SourceRecord : Moved(s, r) /\ DoRender(s, n) = Ramp(r)
    BY <1>1, RenderMoves
  <2>2. Good(r, d, q) /\ r.thrown = s.thrown
    BY <2>1, MovedAlike, GoodAlike DEF Moved, Shuffled
  <2>3. Alike(r, Ramp(r)) /\ Ramp(r).thrown = r.thrown
    BY FieldsAlike DEF Ramp, SourceRecord
  <2> QED
    BY <2>1, <2>2, <2>3, GoodAlike
<1>4. ASSUME NEW f \in BOOLEAN PROVE Good(SetLooping(s, f), d, q) /\ SetLooping(s, f).thrown = s.thrown
  <2>1. Alike(s, SetLooping(s, f)) /\ SetLooping(s, f).thrown = s.thrown
    BY <1>1, FieldsAlike DEF SetLooping, SourceRecord
  <2> QED
    BY <2>1, GoodAlike
<1>5. ASSUME s.active # <<>> PROVE Good(ClearOldest(s), d, q) /\ ClearOldest(s).thrown = s.thrown
  BY <1>1, <1>5, OldestMoves, MovedAlike, GoodAlike DEF Moved, Shuffled
<1> QED
  BY <1>2, <1>3, <1>4, <1>5

-----------------------------------------------------------------------------
(* What the handling of each message makes of the source.                   *)

Still(s, r) ==
  /\ Sound(r) /\ s.odd \subseteq r.odd /\ r.mSafeForDeletion = s.mSafeForDeletion
  /\ r.mBuffersQueuedForClear = s.mBuffersQueuedForClear
  /\ r.odd = {} => Whole(r) = Whole(s)
Quiet(s, r) == r.mMessageQueue = s.mMessageQueue /\ r.mRampState = s.mRampState
Wire(s, r) == r.mState = s.mState /\ r.bus = s.bus /\ r.procs = s.procs
Cutoff(s) == s.mState = "STOPPED" /\ ~s.bus /\ ~s.procs

LEMMA MovedStill ==
  ASSUME NEW s, NEW r, Sound(s), Moved(s, r)
  PROVE  Still(s, r) /\ Quiet(s, r) /\ Wire(s, r) /\ r.thrown = s.thrown
<1>1. Sound(r)
  BY MovedSound DEF Moved
<1> QED
  BY <1>1 DEF Moved, Shuffled, SameControl, Still, Quiet, Wire

LEMMA RewiredStill ==
  ASSUME NEW s, NEW r, Sound(s), r \in SourceRecord, r.attached = s.attached,
         r.inactive = s.inactive, r.active = s.active, r.odd = s.odd,
         r.mSafeForDeletion = s.mSafeForDeletion,
         r.mBuffersQueuedForClear = s.mBuffersQueuedForClear
  PROVE  Still(s, r)
  BY DEF Still, Sound, Counted, Whole

LEMMA StillAgain ==
  ASSUME NEW s, NEW r, NEW u, Still(s, r), Still(r, u)
  PROVE  Still(s, u)
  BY DEF Still

LEMMA EndIs ==
  ASSUME NEW s, Sound(s)
  PROVE  Still(s, End(s)) /\ Quiet(s, End(s)) /\ Cutoff(End(s)) /\ End(s).thrown = s.thrown
         /\ End(s).odd = s.odd
<1> DEFINE a == In(DisconnectFromBus(s), "STOPPED")
           c == ClearActiveQueue(a)
           r == End(s)
<1>1. /\ a \in SourceRecord /\ a.attached = s.attached
      /\ a.inactive = s.inactive /\ a.active = s.active /\ a.odd = s.odd
      /\ a.mSafeForDeletion = s.mSafeForDeletion
      /\ a.mBuffersQueuedForClear = s.mBuffersQueuedForClear
      /\ a.thrown = s.thrown /\ Cutoff(a) /\ Quiet(s, a)
  BY DEF In, DisconnectFromBus, Sound, SourceRecord, States, Cutoff, Quiet
<1> HIDE DEF a
<1>2. Still(s, a)
  BY <1>1, RewiredStill
<1>3. Moved(a, c) /\ c.odd = a.odd /\ c \in SourceRecord
  BY <1>1, ClearMoves DEF Moved, Shuffled
<1>4. r = [c EXCEPT !.mQueueIsProcessed = FALSE]
  BY DEF End, c, a
<1> HIDE DEF c, r
<1>5. Moved(c, r) /\ r.odd = c.odd
  <2>1. Moved(c, [c EXCEPT !.mQueueIsProcessed = FALSE])
    BY <1>3, FieldMoves
  <2> QED
    BY <1>3, <1>4, <2>1 DEF SourceRecord
<1>6. Moved(a, r)
  BY <1>1, <1>3, <1>5, MovedAgain
<1>7. Still(a, r) /\ Quiet(a, r) /\ Wire(a, r) /\ r.thrown = a.thrown
  BY <1>2, <1>6, MovedStill DEF Still
<1>8. Still(s, r)
  BY <1>2, <1>7, StillAgain
<1> QED
  BY <1>1, <1>3, <1>5, <1>7, <1>8 DEF Quiet, Wire, Cutoff, r

LEMMA StopHandled ==
  ASSUME NEW s, NEW m, NEW removed, Sound(s), ~s.thrown, m.mMessageID = "Stop"
  PROVE  LET r == Handle(s, m, removed) IN
         /\ Still(s, r) /\ Quiet(s, r) /\ ~r.thrown
         /\ s.mState = "STOPPED" => r = s
         /\ s.mState # "STOPPED" => Cutoff(r)
<1>1. Handle(s, m, removed) = IF s.mState = "STOPPED" THEN s ELSE End(s)
  BY DEF Handle
<1>2. Still(s, s) /\ Quiet(s, s)
  BY DEF Still, Quiet
<1> QED
  BY <1>1, <1>2, EndIs

LEMMA RewindHandled ==
  ASSUME NEW s, NEW m, NEW removed \in BOOLEAN, Sound(s), ~s.thrown, m.mMessageID = "Rewind"
  PROVE  LET r == Handle(s, m, removed) IN
         /\ Still(s, r) /\ Quiet(s, r) /\ ~r.thrown
         /\ r.mState = "PLAYING" /\ r.bus = s.bus /\ (r.procs <=> s.procs \/ (removed /\ s.bus))
<1> DEFINE l == LoopToBeginning(s)
           r == In(IF removed THEN AddProcs(l) ELSE l, "PLAYING")
<1>1. Handle(s, m, removed) = r
  BY DEF Handle
<1>2. Still(s, l) /\ Quiet(s, l) /\ Wire(s, l) /\ l.thrown = s.thrown
  BY LoopMoves, MovedStill DEF Sound
<1> HIDE DEF l
<1>3. /\ r \in SourceRecord /\ r.attached = l.attached
      /\ r.inactive = l.inactive /\ r.active = l.active /\ r.odd = l.odd
      /\ r.mSafeForDeletion = l.mSafeForDeletion
      /\ r.mBuffersQueuedForClear = l.mBuffersQueuedForClear
      /\ r.thrown = l.thrown /\ Quiet(l, r)
      /\ r.mState = "PLAYING" /\ r.bus = l.bus /\ (r.procs <=> l.procs \/ (removed /\ l.bus))
  BY <1>2, ZenonT(40) DEF In, AddProcs, Still, Sound, SourceRecord, States, Quiet
<1> HIDE DEF r
<1>4. Still(l, r)
  BY <1>2, <1>3, RewiredStill DEF Still
<1>5. Still(s, r)
  BY <1>2, <1>4, StillAgain
<1> QED
  BY <1>1, <1>2, <1>3, <1>5 DEF Quiet, Wire

LEMMA PauseHandled ==
  ASSUME NEW s, NEW m, NEW removed, Sound(s), ~s.thrown, m.mMessageID = "Pause"
  PROVE  LET r == Handle(s, m, removed) IN
         /\ Still(s, r) /\ Quiet(s, r) /\ ~r.thrown
         /\ r.mState = "PAUSED" /\ r.bus = s.bus /\ ~r.procs
<1> DEFINE r == [In(s, "PAUSED") EXCEPT !.procs = FALSE]
<1>1. Handle(s, m, removed) = r
  BY DEF Handle
<1>2. /\ r \in SourceRecord /\ r.attached = s.attached
      /\ r.inactive = s.inactive /\ r.active = s.active /\ r.odd = s.odd
      /\ r.mSafeForDeletion = s.mSafeForDeletion
      /\ r.mBuffersQueuedForClear = s.mBuffersQueuedForClear
      /\ r.thrown = s.thrown /\ Quiet(s, r)
      /\ r.mState = "PAUSED" /\ r.bus = s.bus /\ ~r.procs
  BY DEF In, Sound, SourceRecord, States, Quiet
<1> HIDE DEF r
<1> QED
  BY <1>1, <1>2, RewiredStill

LEMMA OffsetHandled ==
  ASSUME NEW s, NEW m, NEW removed, Sound(s), ~s.thrown, m.mMessageID = "SetFramePosition"
  PROVE  LET r == Handle(s, m, removed) IN Still(s, r) /\ Quiet(s, r) /\ Wire(s, r)
<1> DEFINE l == LoopToBeginning(s)
           a == AdvanceQueueToFrameIndex(l, s.mPlaybackHeadPosition)
           r == IF a.thrown THEN a ELSE [a EXCEPT !.mPlaybackHeadPosition = 0]
<1>1. Handle(s, m, removed) = r
  BY DEF Handle
<1>2. Still(s, l) /\ Quiet(s, l) /\ Wire(s, l) /\ l.thrown = s.thrown
  BY LoopMoves, MovedStill DEF Sound
<1> HIDE DEF l
<1>3. Sound(l) /\ l \in SourceRecord
  BY <1>2 DEF Still, Sound
<1>4. a = Throw(l) \/ Moved(l, a)
  BY <1>3, AdvanceMoves
<1> HIDE DEF a
<1>5. a = Throw(l) => Still(l, a) /\ Quiet(l, a) /\ Wire(l, a)
  <2>1. ASSUME a = Throw(l) PROVE
          /\ a \in SourceRecord /\ a.attached = l.attached
          /\ a.inactive = l.inactive /\ a.active = l.active /\ a.odd = l.odd
          /\ a.mSafeForDeletion = l.mSafeForDeletion
          /\ a.mBuffersQueuedForClear = l.mBuffersQueuedForClear
          /\ Quiet(l, a) /\ Wire(l, a)
    BY <1>3, <2>1 DEF Throw, SourceRecord, Quiet, Wire
  <2> QED
    BY <1>3, <2>1, RewiredStill
<1>6. Still(l, a) /\ Quiet(l, a) /\ Wire(l, a)
  BY <1>3, <1>4, <1>5, MovedStill
<1>7. Still(a, r) /\ Quiet(a, r) /\ Wire(a, r)
  <2>1. Sound(a)
    BY <1>6 DEF Still
  <2>2. /\ r \in SourceRecord /\ r.attached = a.attached
        /\ r.inactive = a.inactive /\ r.active = a.active /\ r.odd = a.odd
        /\ r.mSafeForDeletion = a.mSafeForDeletion
        /\ r.mBuffersQueuedForClear = a.mBuffersQueuedForClear
        /\ Quiet(a, r) /\ Wire(a, r)
    BY <2>1 DEF Sound, SourceRecord, Quiet, Wire
  <2> HIDE DEF r
  <2> QED
    BY <2>1, <2>2, RewiredStill
<1> HIDE DEF r
<1>8. Still(s, r)
  BY <1>2, <1>6, <1>7, StillAgain
<1> QED
  BY <1>1, <1>2, <1>6, <1>7, <1>8 DEF Quiet, Wire

LEMMA ClearHandled ==
  ASSUME NEW s, NEW m \in Messages, NEW removed, Sound(s), ~s.thrown,
         m.mMessageID = "ClearBuffersFromQueue"
  PROVE  LET r == Handle(s, m, removed) IN
         /\ Sound(r) /\ Quiet(s, r) /\ Wire(s, r) /\ r.odd = s.odd
         /\ r.mSafeForDeletion = s.mSafeForDeletion
         /\ m.mBuffers <= Len(Whole(s)) =>
              /\ ~r.thrown /\ r.mBuffersQueuedForClear = 0
              /\ Whole(r) = SubSeq(Whole(s), m.mBuffers + 1, Len(Whole(s)))
<1> DEFINE c == ClearActiveQueue(s)
           n == m.mBuffers
           o == RemoveOldest(c, n)
           f == Freed(o)
           r == Handle(s, m, removed)
<1>1. n \in Nat /\ s \in SourceRecord
  BY DEF Messages, Sound
<1>2. Still(s, c) /\ Quiet(s, c) /\ Wire(s, c) /\ c.thrown = s.thrown
      /\ c.inactive = Whole(s) /\ c.odd = s.odd
  BY <1>1, ClearMoves, MovedStill
<1>3. r = IF n > Len(c.inactive) THEN Throw(c) ELSE f
  BY DEF Handle
<1> HIDE DEF c
<1>4. Sound(c) /\ c \in SourceRecord
  BY <1>2 DEF Still, Sound
<1>5. Whole(c) = Whole(s)
  <2>1. Moved(s, ClearActiveQueue(s)) /\ ClearActiveQueue(s).active = <<>> /\ s.inactive \in Seq(Buffer)
        /\ Whole(s) \in Seq(Buffer)
    BY <1>1, ClearMoves, WholeIs
  <2>2. c.active = <<>> /\ Whole(s) \o <<>> = Whole(s)
    BY <2>1, Joined DEF c
  <2> QED
    BY <1>2, <2>2 DEF Whole
<1>6. CASE n > Len(c.inactive)
  <2>1. r = Throw(c)
    BY <1>3, <1>6
  <2> HIDE DEF r
  <2>2. /\ r \in SourceRecord /\ r.attached = c.attached
        /\ r.inactive = c.inactive /\ r.active = c.active /\ r.odd = c.odd
        /\ r.mSafeForDeletion = c.mSafeForDeletion
        /\ Quiet(c, r) /\ Wire(c, r)
    BY <1>4, <2>1 DEF Throw, SourceRecord, Quiet, Wire
  <2>3. Sound(r)
    BY <1>4, <2>2 DEF Sound, Counted, Whole
  <2>4. ~(n <= Len(Whole(s)))
    <3>1. Len(Whole(s)) \in Nat
      BY <1>1, WholeIs
    <3> QED
      BY <1>1, <1>2, <1>6, <3>1
  <2>5. Quiet(s, r) /\ Wire(s, r) /\ r.odd = s.odd /\ r.mSafeForDeletion = s.mSafeForDeletion
    BY <1>2, <2>2 DEF Quiet, Wire, Still
  <2> QED
    BY <2>3, <2>4, <2>5 DEF r
<1>7. CASE ~(n > Len(c.inactive))
  <2>1. r = f
    BY <1>3, <1>7
  <2>2. Smaller(n, Len(c.inactive)) = n
    <3>1. Len(c.inactive) \in Nat
      BY <1>4, WholeIs
    <3> QED
      BY <1>1, <1>7, <3>1 DEF Smaller
  <2>3. /\ Sound(o) /\ Whole(o) = SubSeq(Whole(c), n + 1, Len(Whole(c)))
        /\ o.mState = c.mState /\ o.mMessageQueue = c.mMessageQueue
        /\ o.bus = c.bus /\ o.procs = c.procs /\ o.mSafeForDeletion = c.mSafeForDeletion
        /\ o.mBuffersQueuedForClear = 0 /\ o.odd = c.odd
        /\ o.thrown = c.thrown /\ o.mRampState = c.mRampState
    BY <1>1, <1>4, <2>2, OldestIs
  <2> HIDE DEF o
  <2>4. o \in SourceRecord
    BY <2>3 DEF Sound
  <2>5. Alike(o, f) /\ f.thrown = o.thrown /\ f.odd = o.odd /\ f.mRampState = o.mRampState
    BY <2>4, FreedAlike
  <2>6. f.inactive = o.inactive /\ f.active = o.active
    BY <2>4 DEF Freed, Typed, SourceRecord
  <2> HIDE DEF f, r
  <2>7. Sound(f) /\ Whole(f) = Whole(o)
    BY <2>3, <2>5, <2>6 DEF Sound, Counted, Alike, Whole
  <2>8. Quiet(s, r) /\ Wire(s, r) /\ r.odd = s.odd /\ r.mSafeForDeletion = s.mSafeForDeletion
        /\ ~r.thrown /\ r.mBuffersQueuedForClear = 0
    BY <1>2, <2>1, <2>3, <2>5 DEF Quiet, Wire, Still, Alike
  <2>9. Whole(r) = SubSeq(Whole(s), n + 1, Len(Whole(s)))
    BY <1>5, <2>1, <2>3, <2>7
  <2> QED
    BY <2>1, <2>7, <2>8, <2>9 DEF r
<1> QED
  BY <1>6, <1>7

LEMMA SetHandled ==
  ASSUME NEW s, NEW m \in Messages, NEW removed, Sound(s), ~s.thrown, m.mMessageID = "SetBuffer"
  PROVE  LET r == Handle(s, m, removed) IN
         /\ Sound(r) /\ Quiet(s, r) /\ ~r.thrown /\ s.odd \subseteq r.odd
         /\ r.mSafeForDeletion = s.mSafeForDeletion
         /\ r.mBuffersQueuedForClear \in {0, s.mBuffersQueuedForClear}
         /\ r.mState = "STOPPED" /\ r.bus = s.bus /\ r.procs = s.procs
         /\ r.odd = {} => ~s.bus
         /\ Whole(r) = Replaced(m.mAppendBuffer)
<1> DEFINE p == Replace(s, m.mAppendBuffer)
           c == s.bus
           o == Note(p, "cut", c)
           r == In(o, "STOPPED")
<1>1. Handle(s, m, removed) = r
  BY DEF Handle
<1>2. m.mAppendBuffer \in Buffer /\ c \in BOOLEAN /\ "cut" \in Odds
  BY DEF Messages, Sound, SourceRecord, Odds
<1>3. /\ Sound(p) /\ Whole(p) = Replaced(m.mAppendBuffer)
      /\ p.mMessageQueue = s.mMessageQueue
      /\ p.bus = s.bus /\ p.procs = s.procs /\ p.mSafeForDeletion = s.mSafeForDeletion
      /\ p.mBuffersQueuedForClear \in {0, s.mBuffersQueuedForClear} /\ p.odd = s.odd
      /\ p.thrown = s.thrown /\ p.mRampState = s.mRampState
  BY <1>2, ReplaceIs
<1> HIDE DEF p, c
<1>4. /\ Sound(o) /\ Whole(o) = Whole(p) /\ o.mMessageQueue = p.mMessageQueue
      /\ o.bus = p.bus /\ o.procs = p.procs /\ o.mSafeForDeletion = p.mSafeForDeletion
      /\ o.mBuffersQueuedForClear = p.mBuffersQueuedForClear /\ p.odd \subseteq o.odd
      /\ (o.odd = {} => ~c)
      /\ o.thrown = p.thrown /\ o.mRampState = p.mRampState
  BY <1>2, <1>3, NotedIs
<1> HIDE DEF o
<1>5. /\ Sound(r) /\ Whole(r) = Whole(o) /\ r.mMessageQueue = o.mMessageQueue
      /\ r.bus = o.bus /\ r.procs = o.procs /\ r.mSafeForDeletion = o.mSafeForDeletion
      /\ r.mBuffersQueuedForClear = o.mBuffersQueuedForClear /\ o.odd = r.odd
      /\ r.thrown = o.thrown /\ r.mRampState = o.mRampState /\ r.mState = "STOPPED"
  BY <1>4 DEF In, Sound, Counted, Whole, SourceRecord, States
<1> HIDE DEF r
<1> QED
  BY <1>1, <1>3, <1>4, <1>5 DEF Quiet, c

LEMMA EndHandled ==
  ASSUME NEW s, NEW m, NEW removed, Sound(s), ~s.thrown, m.mMessageID = "DeconstructionStop"
  PROVE  LET r == Handle(s, m, removed) IN
         /\ Sound(r) /\ r.odd = s.odd /\ ~r.thrown /\ r.mSafeForDeletion /\ Cutoff(r)
         /\ r.mMessageQueue = <<>> /\ r.mRampState = s.mRampState
<1> DEFINE a == In(DisconnectFromBus(s), "STOPPED")
           f == FlushBufferQueue(a)
           r == [f EXCEPT !.mSafeForDeletion = TRUE, !.mMessageQueue = <<>>]
<1>1. Handle(s, m, removed) = r
  BY DEF Handle
<1>2. Sound(a) /\ Cutoff(a) /\ a.odd = s.odd /\ a.thrown = s.thrown /\ a.mRampState = s.mRampState
  BY DEF In, DisconnectFromBus, Sound, Counted, Whole, SourceRecord, States, Cutoff
<1> HIDE DEF a
<1>3. /\ Sound(f) /\ f.mState = a.mState /\ f.bus = a.bus /\ f.procs = a.procs
      /\ f.odd = a.odd /\ f.thrown = a.thrown /\ f.mRampState = a.mRampState
  BY <1>2, FlushIs
<1> HIDE DEF f
<1>4. <<>> \in Seq(Messages)
  OBVIOUS
<1>5. /\ Sound(r) /\ r.mState = f.mState /\ r.bus = f.bus /\ r.procs = f.procs
      /\ r.odd = f.odd /\ r.thrown = f.thrown /\ r.mRampState = f.mRampState
      /\ r.mSafeForDeletion /\ r.mMessageQueue = <<>>
  BY <1>3, <1>4 DEF Sound, Counted, Whole, SourceRecord
<1> HIDE DEF r
<1> QED
  BY <1>1, <1>2, <1>3, <1>5 DEF Cutoff

LEMMA StartIs ==
  ASSUME NEW s, Sound(s)
  PROVE  LET r == StartPlaying(s) IN
         /\ Still(s, r) /\ Quiet(s, r)
         /\ Wire(s, r) \/ (r.mState = "PLAYING" /\ r.bus /\ r.procs)
<1> DEFINE l == NextPlayable(JoinBufferLists(s))
           u == AddProcs(In([l EXCEPT !.bus = TRUE, !.mQueueIsProcessed = FALSE], "PLAYING"))
           x == Throw(l)
           r == StartPlaying(s)
<1>1. Still(s, l) /\ Quiet(s, l) /\ Wire(s, l)
  <2>1. s \in SourceRecord
    BY DEF Sound
  <2>2. Moved(s, JoinBufferLists(s)) /\ JoinBufferLists(s) \in SourceRecord
    BY <2>1, JoinMoves DEF Moved, Shuffled
  <2>3. Moved(JoinBufferLists(s), l)
    BY <2>2, NextMoves
  <2>4. Moved(s, l)
    BY <2>1, <2>2, <2>3, MovedAgain
  <2> QED
    BY <2>4, MovedStill
<1>2. r = IF ~HasCurrent(l) THEN x ELSE u
  BY DEF StartPlaying
<1> HIDE DEF l
<1>3. Sound(l) /\ l \in SourceRecord
  BY <1>1 DEF Still, Sound
<1>4. Still(l, x) /\ Quiet(l, x) /\ Wire(l, x)
  <2>1. /\ x \in SourceRecord /\ x.attached = l.attached
        /\ x.inactive = l.inactive /\ x.active = l.active /\ x.odd = l.odd
        /\ x.mSafeForDeletion = l.mSafeForDeletion
        /\ x.mBuffersQueuedForClear = l.mBuffersQueuedForClear
        /\ Quiet(l, x) /\ Wire(l, x)
    BY <1>3 DEF Throw, SourceRecord, Quiet, Wire
  <2> HIDE DEF x
  <2> QED
    BY <1>3, <2>1, RewiredStill
<1>5. Still(l, u) /\ Quiet(l, u) /\ u.mState = "PLAYING" /\ u.bus /\ u.procs
  <2>1. /\ u \in SourceRecord /\ u.attached = l.attached
        /\ u.inactive = l.inactive /\ u.active = l.active /\ u.odd = l.odd
        /\ u.mSafeForDeletion = l.mSafeForDeletion
        /\ u.mBuffersQueuedForClear = l.mBuffersQueuedForClear
        /\ Quiet(l, u) /\ u.mState = "PLAYING" /\ u.bus /\ u.procs
    BY <1>3 DEF AddProcs, In, SourceRecord, States, Quiet
  <2> HIDE DEF u
  <2> QED
    BY <1>3, <2>1, RewiredStill
<1> HIDE DEF x, u
<1>6. Still(s, x) /\ Still(s, u)
  BY <1>1, <1>4, <1>5, StillAgain
<1> HIDE DEF r
<1>7. Still(s, r) /\ Quiet(s, r) /\ (Wire(s, r) \/ (r.mState = "PLAYING" /\ r.bus /\ r.procs))
  BY <1>1, <1>2, <1>4, <1>5, <1>6 DEF Quiet, Wire
<1> QED
  BY <1>7 DEF r

(* A message to play leaves another one only when the source was not ramped *)
(* down, or was paused.                                                     *)
LEMMA PlayHandled ==
  ASSUME NEW s, NEW m, NEW removed, Sound(s), ~s.thrown, m.mMessageID = "Play"
  PROVE  LET r == Handle(s, m, removed) IN
         /\ Still(s, r)
         /\ ~Pending(s, "DeconstructionStop") => ~Pending(r, "DeconstructionStop")
         /\ s.mState \in {"PLAYING", "STOPPED"} /\ s.mRampState = "complete" =>
              /\ Quiet(s, r)
              /\ Wire(s, r) \/ (r.mState = "PLAYING" /\ r.bus /\ r.procs)
<1> DEFINE r == Handle(s, m, removed)
<1>1. r = Play(s)
  BY DEF Handle
<1>2. Still(s, s) /\ Quiet(s, s) /\ Wire(s, s) /\ s \in SourceRecord
  BY DEF Still, Quiet, Wire, Sound
<1>3. ASSUME NEW id \in {"Rewind", "Play"}
      PROVE  LET u == Defer(s, id) IN
             Still(s, u) /\ (~Pending(s, "DeconstructionStop") => ~Pending(u, "DeconstructionStop"))
  <2> DEFINE n == Message(id, AL_NONE, 0)
             M == s.mMessageQueue
             A == Append(M, n)
             u == Defer(s, id)
  <2>1. n \in Messages /\ n.mMessageID = id
    BY MessageIs DEF Ids
  <2> HIDE DEF n
  <2>2. A \in Seq(Messages) /\ Len(M) \in Nat /\ Len(A) = Len(M) + 1
        /\ (\A i \in 1 .. Len(M) : A[i] = M[i]) /\ A[Len(M) + 1] = n
    BY <1>2, <2>1, OneMore DEF SourceRecord
  <2>3. u = [RampDown(s) EXCEPT !.mMessageQueue = A]
    BY <1>2 DEF Defer, AddPlaybackMessage, AddMessage, RampDown, SourceRecord, n
  <2>4. /\ u \in SourceRecord /\ u.attached = s.attached
        /\ u.inactive = s.inactive /\ u.active = s.active /\ u.odd = s.odd
        /\ u.mSafeForDeletion = s.mSafeForDeletion
        /\ u.mBuffersQueuedForClear = s.mBuffersQueuedForClear
        /\ u.mMessageQueue = A
    <3> HIDE DEF A, u
    <3> QED
      BY <1>2, <2>2, <2>3 DEF RampDown, SourceRecord
  <2> HIDE DEF u, A
  <2>5. Still(s, u)
    BY <2>4, RewiredStill
  <2>6. ASSUME ~Pending(s, "DeconstructionStop") PROVE ~Pending(u, "DeconstructionStop")
    <3>1. ASSUME NEW i \in 1 .. Len(A) PROVE A[i].mMessageID # "DeconstructionStop"
      <4>1. CASE i = Len(M) + 1
        BY <4>1, <2>1, <2>2
      <4>2. CASE i # Len(M) + 1
        <5>1. i \in 1 .. Len(M)
          BY <4>2, <2>2
        <5> QED
          BY <5>1, <2>2, <2>6 DEF Pending
      <4> QED
        BY <4>1, <4>2
    <3> QED
      BY <3>1, <2>4 DEF Pending
  <2> QED
    BY <2>5, <2>6 DEF u
<1>4. LET u == Resume(s) IN Still(s, u) /\ u.mMessageQueue = s.mMessageQueue
  <2> DEFINE u == Resume(s)
  <2> DEFINE v == In(AddProcs([s EXCEPT !.mRampState = "up"]), "PLAYING")
  <2>1. /\ u \in SourceRecord /\ u.attached = s.attached
        /\ u.inactive = s.inactive /\ u.active = s.active /\ u.odd = s.odd
        /\ u.mSafeForDeletion = s.mSafeForDeletion
        /\ u.mBuffersQueuedForClear = s.mBuffersQueuedForClear
        /\ u.mMessageQueue = s.mMessageQueue
    <3>1. /\ v \in SourceRecord /\ v.attached = s.attached
          /\ v.inactive = s.inactive /\ v.active = s.active /\ v.odd = s.odd
          /\ v.mSafeForDeletion = s.mSafeForDeletion
          /\ v.mBuffersQueuedForClear = s.mBuffersQueuedForClear
          /\ v.mMessageQueue = s.mMessageQueue
      BY <1>2 DEF AddProcs, In, SourceRecord, States
    <3>2. u = IF s.mState = "PAUSED" THEN v ELSE s
      BY DEF Resume
    <3> HIDE DEF u, v
    <3> QED
      BY <1>2, <3>1, <3>2
  <2> HIDE DEF u
  <2>2. Still(s, u)
    BY <2>1, RewiredStill
  <2> QED
    BY <2>1, <2>2 DEF u
<1>5. LET u == StartPlaying(s) IN
      /\ Still(s, u) /\ Quiet(s, u)
      /\ Wire(s, u) \/ (u.mState = "PLAYING" /\ u.bus /\ u.procs)
  BY StartIs
<1>6. CASE GetQLength(s) = 0
  <2>1. r = s
    BY <1>1, <1>6 DEF Play
  <2> HIDE DEF r
  <2> QED
    BY <1>2, <2>1 DEF r
<1>7. CASE GetQLength(s) # 0 /\ s.mState \in {"PLAYING", "TRANSITION"} /\ s.mRampState = "complete"
  <2>1. r = s
    BY <1>1, <1>7 DEF Play
  <2> HIDE DEF r
  <2> QED
    BY <1>2, <2>1 DEF r
<1>8. CASE GetQLength(s) # 0 /\ s.mState \in {"PLAYING", "TRANSITION"} /\ s.mRampState # "complete"
  <2>1. r = Defer(s, "Rewind") \/ r = Defer(s, "Play")
    BY <1>1, <1>8 DEF Play
  <2> HIDE DEF r
  <2> QED
    BY <1>3, <1>8, <2>1 DEF r
<1>9. CASE GetQLength(s) # 0 /\ s.mState = "PAUSED"
  <2>1. r = Resume(s)
    BY <1>1, <1>9 DEF Play
  <2> HIDE DEF r
  <2> QED
    BY <1>4, <1>9, <2>1 DEF r, Pending
<1>10. CASE GetQLength(s) # 0 /\ s.mState \in {"INITIAL", "STOPPED"}
  <2>1. r = StartPlaying(s)
    BY <1>1, <1>10 DEF Play
  <2> HIDE DEF r
  <2> QED
    BY <1>5, <1>10, <2>1 DEF r, Pending, Quiet
<1> QED
  BY <1>2, <1>6, <1>7, <1>8, <1>9, <1>10 DEF SourceRecord, States

-----------------------------------------------------------------------------
(* The messages in turn: h[i] is the run after the first i of them.         *)

EndsNow(s) == Pending(s, "DeconstructionStop")
Runs(s) ==
  {z \in [s : SourceRecord, left : BOOLEAN, removed : BOOLEAN] :
     /\ Sound(z.s) /\ s.odd \subseteq z.s.odd /\ ~EndsNow(z.s)
     /\ z.s.mSafeForDeletion => s.mSafeForDeletion \/ EndsNow(s)
     /\ z.left => z.s.thrown \/ z.s.mSafeForDeletion}
First(s) == [s |-> [s EXCEPT !.mMessageQueue = <<>>], left |-> FALSE, removed |-> FALSE]
Finished(z) ==
  IF z.s.thrown THEN Note(z.s, "lost", z.left)
  ELSE IF z.s.mSafeForDeletion THEN z.s ELSE [z.s EXCEPT !.mRampState = "no"]
Ran(s, h) ==
  /\ h[0] = First(s)
  /\ \A i \in 1 .. Len(s.mMessageQueue) : h[i] = HandleNext(h[i - 1], s.mMessageQueue[i])
  /\ \A i \in 0 .. Len(s.mMessageQueue) : h[i] \in Runs(s)
  /\ HandleAll(s) = Finished(h[Len(s.mMessageQueue)])

(* Whatever the message, a sound source stays one, and what was noted of it *)
(* stays noted.                                                             *)
LEMMA Handled ==
  ASSUME NEW s, NEW m \in Messages, NEW removed \in BOOLEAN, Sound(s), ~s.thrown
  PROVE  LET r == Handle(s, m, removed) IN
         /\ Sound(r) /\ s.odd \subseteq r.odd
         /\ ~EndsNow(s) => ~EndsNow(r)
         /\ m.mMessageID # "DeconstructionStop" => r.mSafeForDeletion = s.mSafeForDeletion
<1> DEFINE r == Handle(s, m, removed)
           K == /\ Sound(r) /\ s.odd \subseteq r.odd /\ (~EndsNow(s) => ~EndsNow(r))
                /\ r.mSafeForDeletion = s.mSafeForDeletion
<1>1. m.mMessageID = "Stop" => K
  BY StopHandled DEF Still, Quiet, EndsNow, Pending
<1>2. m.mMessageID = "Rewind" => K
  BY RewindHandled DEF Still, Quiet, EndsNow, Pending
<1>3. m.mMessageID = "Pause" => K
  BY PauseHandled DEF Still, Quiet, EndsNow, Pending
<1>4. m.mMessageID = "SetFramePosition" => K
  BY OffsetHandled DEF Still, Quiet, EndsNow, Pending
<1>5. m.mMessageID = "ClearBuffersFromQueue" => K
  BY ClearHandled DEF Still, Quiet, EndsNow, Pending
<1>6. m.mMessageID = "SetBuffer" => K
  BY SetHandled DEF Still, Quiet, EndsNow, Pending
<1>7. m.mMessageID = "Play" => K
  BY PlayHandled DEF Still, EndsNow
<1>8. m.mMessageID = "DeconstructionStop" =>
        Sound(r) /\ s.odd \subseteq r.odd /\ ~EndsNow(r)
  BY EndHandled DEF EndsNow, Pending
<1>9. m.mMessageID \in Ids
  BY DEF Messages
<1> HIDE DEF r
<1>10. /\ Sound(r) /\ s.odd \subseteq r.odd
       /\ ~EndsNow(s) => ~EndsNow(r)
       /\ m.mMessageID # "DeconstructionStop" => r.mSafeForDeletion = s.mSafeForDeletion
  BY <1>1, <1>2, <1>3, <1>4, <1>5, <1>6, <1>7, <1>8, <1>9 DEF Ids
<1> QED
  BY <1>10 DEF r

LEMMA NextRuns ==
  ASSUME NEW s \in SourceRecord, NEW z \in Runs(s), NEW i \in 1 .. Len(s.mMessageQueue)
  PROVE  LET y == HandleNext(z, s.mMessageQueue[i]) IN
         /\ y \in Runs(s) /\ z.s.odd \subseteq y.s.odd
         /\ z.s.thrown \/ z.s.mSafeForDeletion => y.left /\ y.s = z.s
         /\ ~z.s.thrown /\ ~z.s.mSafeForDeletion =>
              /\ ~y.left /\ y.s = Handle(z.s, s.mMessageQueue[i], z.removed)
              /\ y.removed = (s.mMessageQueue[i].mMessageID = "Pause"
                                \/ (z.removed /\ s.mMessageQueue[i].mMessageID # "Rewind"))
<1> DEFINE m == s.mMessageQueue[i]
           y == HandleNext(z, m)
           r == Handle(z.s, m, z.removed)
           v == m.mMessageID = "Pause" \/ (z.removed /\ m.mMessageID # "Rewind")
<1>1. m \in Messages
  BY DEF SourceRecord
<1>2. /\ z \in [s : SourceRecord, left : BOOLEAN, removed : BOOLEAN]
      /\ Sound(z.s) /\ s.odd \subseteq z.s.odd /\ ~EndsNow(z.s)
      /\ z.s.mSafeForDeletion => s.mSafeForDeletion \/ EndsNow(s)
      /\ z.s \in SourceRecord /\ z.left \in BOOLEAN /\ z.removed \in BOOLEAN
  BY DEF Runs
<1>3. m.mMessageID = "DeconstructionStop" => EndsNow(s)
  BY DEF EndsNow, Pending
<1> HIDE DEF m
<1>4. CASE z.s.thrown \/ z.s.mSafeForDeletion
  <2>1. y = [z EXCEPT !.left = TRUE]
    BY <1>4 DEF HandleNext
  <2>2. y.s = z.s /\ y.left = TRUE /\ y.removed = z.removed
        /\ y \in [s : SourceRecord, left : BOOLEAN, removed : BOOLEAN]
    BY <1>2, <2>1
  <2> HIDE DEF y
  <2>3. y \in Runs(s)
    BY <1>2, <1>4, <2>2 DEF Runs
  <2> QED
    BY <1>4, <2>2, <2>3 DEF y, m
<1>5. CASE ~z.s.thrown /\ ~z.s.mSafeForDeletion
  <2>1. y = [s |-> r, left |-> FALSE, removed |-> v]
    BY <1>5 DEF HandleNext
  <2>2. /\ Sound(r) /\ z.s.odd \subseteq r.odd
        /\ ~EndsNow(z.s) => ~EndsNow(r)
        /\ m.mMessageID # "DeconstructionStop" => r.mSafeForDeletion = z.s.mSafeForDeletion
    BY <1>1, <1>2, <1>5, Handled
  <2> HIDE DEF r
  <2>3. r \in SourceRecord /\ v \in BOOLEAN
    BY <1>2, <2>2 DEF Sound
  <2>4. y.s = r /\ y.left = FALSE /\ y.removed = v
        /\ y \in [s : SourceRecord, left : BOOLEAN, removed : BOOLEAN]
    BY <2>1, <2>3
  <2> HIDE DEF y
  <2>5. y \in Runs(s)
    BY <1>2, <1>3, <2>2, <2>4 DEF Runs
  <2> QED
    BY <1>5, <2>2, <2>4, <2>5 DEF y, r, m
<1> QED
  BY <1>4, <1>5

LEMMA FirstRun ==
  ASSUME NEW s, Sound(s), ~s.thrown
  PROVE  LET f == First(s) IN
         /\ f \in Runs(s) /\ ~f.left /\ ~f.removed /\ Still(s, f.s) /\ Wire(s, f.s)
         /\ f.s.mMessageQueue = <<>> /\ f.s.mRampState = s.mRampState /\ ~f.s.thrown
<1> DEFINE u == [s EXCEPT !.mMessageQueue = <<>>]
           f == First(s)
<1>1. <<>> \in Seq(Messages)
  OBVIOUS
<1>2. /\ u \in SourceRecord /\ u.attached = s.attached
      /\ u.inactive = s.inactive /\ u.active = s.active /\ u.odd = s.odd
      /\ u.mSafeForDeletion = s.mSafeForDeletion
      /\ u.mBuffersQueuedForClear = s.mBuffersQueuedForClear
      /\ Wire(s, u) /\ u.mMessageQueue = <<>> /\ u.mRampState = s.mRampState /\ u.thrown = s.thrown
  BY <1>1 DEF Sound, SourceRecord, Wire
<1>3. f.s = u /\ f.left = FALSE /\ f.removed = FALSE
      /\ f = [s |-> u, left |-> FALSE, removed |-> FALSE]
  BY DEF First
<1> HIDE DEF u, f
<1>4. Still(s, u)
  BY <1>2, RewiredStill
<1>5. f \in Runs(s)
  <2>1. ~EndsNow(u)
    BY <1>2 DEF EndsNow, Pending
  <2> QED
    BY <1>2, <1>3, <1>4, <2>1 DEF Runs, Still
<1> QED
  BY <1>2, <1>3, <1>4, <1>5 DEF f

Iterated(n, S, x, G, f) ==
  f \in [0 .. n -> S] /\ f[0] = x /\ \A i \in 1 .. n : f[i] = G[i][f[i - 1]]

LEMMA IteratedIs ==
  ASSUME NEW n \in Nat, NEW S, NEW x \in S, NEW G \in [1 .. n -> [S -> S]]
  PROVE  Iterated(n, S, x, G, CHOOSE f : Iterated(n, S, x, G, f))
<1>1. \E f : Iterated(n, S, x, G, f)
  <2>a. \A m \in Nat : \A X : \A y \in X : \A F \in [1 .. m -> [X -> X]] :
          \E f \in [0 .. m -> X] : f[0] = y /\ \A i \in 1 .. m : f[i] = F[i][f[i - 1]]
    BY Iterate
  <2>b. \A X : \A y \in X : \A F \in [1 .. n -> [X -> X]] :
          \E f \in [0 .. n -> X] : f[0] = y /\ \A i \in 1 .. n : f[i] = F[i][f[i - 1]]
    BY ONLY <2>a, n \in Nat
  <2>c. \A y \in S : \A F \in [1 .. n -> [S -> S]] :
          \E f \in [0 .. n -> S] : f[0] = y /\ \A i \in 1 .. n : f[i] = F[i][f[i - 1]]
    BY ONLY <2>b
  <2>d. \A F \in [1 .. n -> [S -> S]] :
          \E f \in [0 .. n -> S] : f[0] = x /\ \A i \in 1 .. n : f[i] = F[i][f[i - 1]]
    BY ONLY <2>c, x \in S
  <2>1. PICK f \in [0 .. n -> S] : f[0] = x /\ \A i \in 1 .. n : f[i] = G[i][f[i - 1]]
    BY ONLY <2>d, G \in [1 .. n -> [S -> S]]
  <2>2. Iterated(n, S, x, G, f)
    BY <2>1 DEF Iterated
  <2> QED
    BY <2>2
<1> QED
  BY <1>1

LEMMA RunIs ==
  ASSUME NEW s, Sound(s), ~s.thrown
  PROVE  \E h : Ran(s, h)
<1> DEFINE M == s.mMessageQueue
           n == Len(M)
           S == Runs(s)
           G == [i \in 1 .. n |-> [z \in S |-> HandleNext(z, M[i])]]
           f == CHOOSE k : Iterated(n, S, First(s), G, k)
           R(k) == [i \in 0 .. n |-> IF i = 0 THEN First(s) ELSE HandleNext(k[i - 1], M[i])]
           h == CHOOSE k : k = R(k)
<1>l. n \in Nat
  BY DEF Sound, SourceRecord
<1>n. n \in Nat /\ s \in SourceRecord
  BY <1>l DEF Sound
<1>1. First(s) \in S
  BY FirstRun
<1>2. ASSUME NEW z \in S, NEW i \in 1 .. n PROVE HandleNext(z, M[i]) \in S
  BY <1>n, <1>2, NextRuns
<1>3. HandleAll(s) = Finished(h[n])
  BY DEF HandleAll, Finished, First
<1> HIDE DEF S
<1>4. f \in [0 .. n -> S] /\ f[0] = First(s) /\ \A i \in 1 .. n : f[i] = G[i][f[i - 1]]
  <2>1. G \in [1 .. n -> [S -> S]]
    BY <1>2
  <2> HIDE DEF G, n
  <2>2. Iterated(n, S, First(s), G, f)
    BY <1>l, <1>1, <2>1, IteratedIs
  <2> HIDE DEF f
  <2> QED
    BY <2>2 DEF Iterated
<1> HIDE DEF f
<1>5. ASSUME NEW i \in 1 .. n PROVE f[i] = HandleNext(f[i - 1], M[i])
  <2>1. f[i - 1] \in S /\ f[i] = G[i][f[i - 1]]
    <3> HIDE DEF G
    <3> QED
      BY <1>n, <1>4
  <2> QED
    BY <2>1
<1>6. f = R(f)
  <2>1. \A i \in 0 .. n : f[i] = IF i = 0 THEN First(s) ELSE HandleNext(f[i - 1], M[i])
    BY <1>n, <1>4, <1>5
  <2> QED
    BY <1>4, <2>1
<1>7. h = R(h)
  <2> HIDE DEF R
  <2> QED
    BY <1>6
<1>8. \A i \in 0 .. n : h[i] = IF i = 0 THEN First(s) ELSE HandleNext(h[i - 1], M[i])
  <2>1. \A i \in 0 .. n : R(h)[i] = IF i = 0 THEN First(s) ELSE HandleNext(h[i - 1], M[i])
    OBVIOUS
  <2> HIDE DEF h, R
  <2> QED
    BY <1>7, <2>1
<1> HIDE DEF h, R, G
<1>9. h[0] = First(s) /\ \A i \in 1 .. n : h[i] = HandleNext(h[i - 1], M[i])
  BY <1>n, <1>8
<1>10. \A i \in 0 .. n : h[i] \in S
  <2>1. h[0] \in S /\ \A i \in 1 .. n : h[i - 1] \in S => h[i] \in S
    BY <1>1, <1>2, <1>9
  <2> QED
    BY <1>n, <2>1, Stays
<1>11. Ran(s, h)
  BY <1>3, <1>9, <1>10 DEF Ran, S
<1> QED
  BY <1>11

LEMMA Upto ==
  ASSUME NEW n \in Nat, NEW T, 0 \in T, \A i \in 1 .. n : i - 1 \in T => i \in T
  PROVE  \A i \in 0 .. n : i \in T
<1> DEFINE h == [i \in 0 .. n |-> i]
<1>1. \A i \in 0 .. n : h[i] = i
  OBVIOUS
<1> HIDE DEF h
<1>2. h[0] \in T /\ \A i \in 1 .. n : h[i - 1] \in T => h[i] \in T
  BY <1>1
<1>3. \A i \in 0 .. n : h[i] \in T
  BY <1>2, Stays
<1> QED
  BY <1>1, <1>3

(* A step of the run: nothing more happens to a source that is lost or ended*)
LEMMA RunStep ==
  ASSUME NEW s, NEW h, Sound(s), Ran(s, h), NEW i \in 1 .. Len(s.mMessageQueue)
  PROVE  LET z == h[i - 1]
             y == h[i]
             m == s.mMessageQueue[i] IN
         /\ m \in Messages /\ m.mMessageID \in Ids
         /\ Sound(z.s) /\ z.removed \in BOOLEAN /\ (z.left => z.s.thrown \/ z.s.mSafeForDeletion)
         /\ Sound(y.s) /\ z.s.odd \subseteq y.s.odd
         /\ z.s.thrown \/ z.s.mSafeForDeletion => y.left /\ y.s = z.s
         /\ ~z.s.thrown /\ ~z.s.mSafeForDeletion =>
              /\ ~y.left /\ y.s = Handle(z.s, m, z.removed)
              /\ y.removed = (m.mMessageID = "Pause" \/ (z.removed /\ m.mMessageID # "Rewind"))
<1>1. s \in SourceRecord /\ Len(s.mMessageQueue) \in Nat
  BY DEF Sound, SourceRecord
<1>2. i - 1 \in 0 .. Len(s.mMessageQueue) /\ i \in 0 .. Len(s.mMessageQueue)
  BY <1>1
<1>3. h[i - 1] \in Runs(s) /\ h[i] \in Runs(s) /\ h[i] = HandleNext(h[i - 1], s.mMessageQueue[i])
  BY <1>2 DEF Ran
<1>4. s.mMessageQueue[i] \in Messages /\ s.mMessageQueue[i].mMessageID \in Ids
  <2>1. s.mMessageQueue \in Seq(Messages)
    BY <1>1 DEF SourceRecord
  <2>2. s.mMessageQueue[i] \in Messages
    BY <2>1
  <2>3. \A m \in Messages : m.mMessageID \in Ids
    BY DEF Messages
  <2> QED
    BY <2>2, <2>3
<1>5. LET y == HandleNext(h[i - 1], s.mMessageQueue[i])
          z == h[i - 1] IN
      /\ z.s.odd \subseteq y.s.odd
      /\ z.s.thrown \/ z.s.mSafeForDeletion => y.left /\ y.s = z.s
      /\ ~z.s.thrown /\ ~z.s.mSafeForDeletion =>
           /\ ~y.left /\ y.s = Handle(z.s, s.mMessageQueue[i], z.removed)
           /\ y.removed = (s.mMessageQueue[i].mMessageID = "Pause"
                             \/ (z.removed /\ s.mMessageQueue[i].mMessageID # "Rewind"))
  BY <1>1, <1>3, NextRuns
<1>6. \A z \in Runs(s) : Sound(z.s) /\ z.removed \in BOOLEAN /\ (z.left => z.s.thrown \/ z.s.mSafeForDeletion)
  BY DEF Runs
<1> QED
  BY <1>3, <1>4, <1>5, <1>6

(* A source that plays still plays, or is paused and without its callback.  *)
LEMMA PlayedRun ==
  ASSUME NEW s, NEW h, Sound(s), ~s.thrown, Ran(s, h), AllEarly(s.mMessageQueue),
         s.mState = "PLAYING", s.bus, s.procs
  PROVE  LET u == h[Len(s.mMessageQueue)].s IN
         /\ u.mMessageQueue = <<>> /\ u.mSafeForDeletion = s.mSafeForDeletion
         /\ (u.mState = "PLAYING" /\ u.bus /\ u.procs) \/ (u.mState = "PAUSED" /\ u.bus /\ ~u.procs)
<1> DEFINE M == s.mMessageQueue
           n == Len(M)
           P(z) == /\ z.s.mMessageQueue = <<>> /\ z.s.mSafeForDeletion = s.mSafeForDeletion
                   /\ \/ z.s.mState = "PLAYING" /\ z.s.bus /\ z.s.procs
                      \/ z.s.mState = "PAUSED" /\ z.s.bus /\ ~z.s.procs /\ z.removed
           T == {i \in Nat : P(h[i])}
<1>l. n \in Nat
  BY DEF Sound, SourceRecord
<1>1. P(h[0])
  <2>1. h[0] = First(s)
    BY DEF Ran
  <2> QED
    BY <2>1, FirstRun DEF Still, Wire
<1>2. ASSUME NEW i \in 1 .. n, P(h[i - 1]) PROVE P(h[i])
  <2> DEFINE z == h[i - 1]
             y == h[i]
             m == M[i]
  <2>1. /\ m \in Messages /\ m.mMessageID \in Ids
        /\ Sound(z.s) /\ z.removed \in BOOLEAN
        /\ z.s.thrown \/ z.s.mSafeForDeletion => y.left /\ y.s = z.s
        /\ ~z.s.thrown /\ ~z.s.mSafeForDeletion =>
             /\ y.s = Handle(z.s, m, z.removed)
             /\ y.removed = (m.mMessageID = "Pause" \/ (z.removed /\ m.mMessageID # "Rewind"))
    BY RunStep
  <2>2. m.mMessageID \in Early
    BY <1>l DEF AllEarly
  <2>f. z.s.thrown \/ z.s.mSafeForDeletion => y = z \/ y = [z EXCEPT !.left = TRUE]
    <3>1. y = HandleNext(z, m)
      BY DEF Ran
    <3> HIDE DEF y, z, m
    <3> QED
      BY <3>1 DEF HandleNext
  <2>r. z.s.thrown \/ z.s.mSafeForDeletion => y.removed = z.removed
    <3>1. z \in Runs(s)
      <4>1. i - 1 \in 0 .. n
        BY <1>l
      <4> QED
        BY <4>1 DEF Ran
    <3> HIDE DEF y, z
    <3> QED
      BY <2>f, <3>1 DEF Runs
  <2> HIDE DEF z, y, m
  <2>3. P(z)
    BY <1>2 DEF z
  <2>4. CASE z.s.thrown \/ z.s.mSafeForDeletion
    <3>1. P(y)
      BY <2>1, <2>3, <2>4, <2>r
    <3> QED
      BY <3>1 DEF y
  <2>5. CASE ~z.s.thrown /\ ~z.s.mSafeForDeletion
    <3>1. m.mMessageID = "Rewind" => P(y)
      BY <2>1, <2>3, <2>5, RewindHandled DEF Still, Quiet
    <3>2. m.mMessageID = "Pause" => P(y)
      <4>1. ASSUME m.mMessageID = "Pause"
            PROVE  /\ y.s.mMessageQueue = z.s.mMessageQueue
                   /\ y.s.mSafeForDeletion = z.s.mSafeForDeletion
                   /\ y.s.mState = "PAUSED" /\ y.s.bus = z.s.bus /\ ~y.s.procs
        BY <2>1, <2>5, <4>1, PauseHandled DEF Still, Quiet
      <4>2. m.mMessageID = "Pause" => y.removed
        BY <2>1, <2>5
      <4> QED
        BY <2>3, <4>1, <4>2
    <3>3. m.mMessageID = "SetFramePosition" => P(y)
      BY <2>1, <2>3, <2>5, OffsetHandled DEF Still, Quiet, Wire
    <3> HIDE DEF P
    <3>4. P(y)
      BY <2>2, <3>1, <3>2, <3>3 DEF Early
    <3> QED
      BY <3>4 DEF y
  <2> QED
    BY <2>4, <2>5
<1> HIDE DEF P
<1>3. 0 \in T /\ \A i \in 1 .. n : i - 1 \in T => i \in T
  BY <1>1, <1>2
<1> HIDE DEF T
<1>4. \A i \in 0 .. n : i \in T
  BY <1>l, <1>3, Upto
<1>5. P(h[n])
  BY <1>l, <1>4 DEF T
<1> QED
  BY <1>5 DEF P

(* Once the end of a source is due, it ends or what waits with it is lost.  *)
LEMMA EndedRun ==
  ASSUME NEW s, NEW h, Sound(s), ~s.thrown, Ran(s, h), EndsNow(s)
  PROVE  LET z == h[Len(s.mMessageQueue)] IN
         z.s.mSafeForDeletion \/ (z.left /\ z.s.thrown)
<1> DEFINE M == s.mMessageQueue
           n == Len(M)
           E(z) == z.s.mSafeForDeletion \/ (z.left /\ z.s.thrown)
<1>l. n \in Nat
  BY DEF Sound, SourceRecord
<1>k. PICK k \in 1 .. n : M[k].mMessageID = "DeconstructionStop"
  BY DEF EndsNow, Pending
<1> DEFINE T == {i \in Nat : i >= k => E(h[i])}
<1>2. ASSUME NEW i \in 1 .. n, i - 1 \in T PROVE i \in T
  <2> DEFINE z == h[i - 1]
             y == h[i]
             m == M[i]
  <2>1. /\ Sound(z.s)
        /\ z.s.thrown \/ z.s.mSafeForDeletion => y.left /\ y.s = z.s
        /\ ~z.s.thrown /\ ~z.s.mSafeForDeletion => y.s = Handle(z.s, m, z.removed)
    BY RunStep
  <2> HIDE DEF z, y, m
  <2>2. CASE z.s.thrown \/ z.s.mSafeForDeletion
    <3>1. E(y)
      BY <2>1, <2>2
    <3> QED
      BY <3>1 DEF y
  <2>3. CASE i = k /\ ~z.s.thrown /\ ~z.s.mSafeForDeletion
    <3>1. E(y)
      BY <1>k, <2>1, <2>3, EndHandled DEF m
    <3> QED
      BY <3>1 DEF y
  <2>4. CASE i # k /\ ~z.s.thrown /\ ~z.s.mSafeForDeletion
    <3>1. i - 1 >= k => E(z)
      BY <1>2 DEF z
    <3>2. ~(i - 1 >= k)
      BY <2>4, <3>1
    <3> QED
      BY <1>l, <1>k, <2>4, <3>2
  <2> QED
    BY <2>2, <2>3, <2>4
<1> HIDE DEF E
<1>3. 0 \in T
  BY <1>k
<1> HIDE DEF T
<1>4. \A i \in 0 .. n : i \in T
  BY <1>l, <1>2, <1>3, Upto
<1>5. E(h[n])
  BY <1>l, <1>k, <1>4 DEF T
<1> QED
  BY <1>5 DEF E

(* A source on its way to a stop: until the message of the stop it plays,   *)
(* pauses or goes on; from then on it is stopped, or plays again.           *)
Settled(u) == Cutoff(u) \/ (u.mState = "PLAYING" /\ u.bus /\ u.procs)
Before(u) == u.mState \in {"PLAYING", "PAUSED", "TRANSITION"} /\ ~u.mSafeForDeletion
Prompt(u) == u.mMessageQueue = <<>> /\ u.mRampState = "complete"

LEMMA BeforeStep ==
  ASSUME NEW u, NEW m \in Messages, NEW removed \in BOOLEAN, Sound(u), ~u.thrown,
         Prompt(u), Before(u)
  PROVE  LET r == Handle(u, m, removed) IN
         /\ m.mMessageID \in Early => Prompt(r) /\ Before(r)
         /\ m.mMessageID \in Ending => Prompt(r) /\ Cutoff(r)
<1> DEFINE r == Handle(u, m, removed)
<1>1. ASSUME m.mMessageID = "Rewind" PROVE Prompt(r) /\ Before(r)
  BY <1>1, RewindHandled DEF Still, Quiet, Prompt, Before
<1>2. ASSUME m.mMessageID = "Pause" PROVE Prompt(r) /\ Before(r)
  BY <1>2, PauseHandled DEF Still, Quiet, Prompt, Before
<1>3. ASSUME m.mMessageID = "SetFramePosition" PROVE Prompt(r) /\ Before(r)
  BY <1>3, OffsetHandled DEF Still, Quiet, Wire, Prompt, Before
<1>4. ASSUME m.mMessageID = "Stop" PROVE Prompt(r) /\ Cutoff(r)
  BY <1>4, StopHandled DEF Still, Quiet, Prompt, Before
<1>5. ASSUME m.mMessageID = "DeconstructionStop" PROVE Prompt(r) /\ Cutoff(r)
  BY <1>5, EndHandled DEF Prompt
<1> HIDE DEF r
<1>6. /\ m.mMessageID \in Early => Prompt(r) /\ Before(r)
      /\ m.mMessageID \in Ending => Prompt(r) /\ Cutoff(r)
  BY <1>1, <1>2, <1>3, <1>4, <1>5 DEF Early, Ending
<1> QED
  BY <1>6 DEF r

LEMMA SettledStep ==
  ASSUME NEW u, NEW m \in Messages, NEW removed \in BOOLEAN, Sound(u), ~u.thrown,
         Prompt(u), Settled(u), m.mMessageID \notin {"Rewind", "Pause"},
         Handle(u, m, removed).odd = {}
  PROVE  Prompt(Handle(u, m, removed)) /\ Settled(Handle(u, m, removed))
<1> DEFINE r == Handle(u, m, removed)
<1>1. ASSUME m.mMessageID = "Stop" PROVE Prompt(r) /\ Settled(r)
  <2>1. Still(u, r) /\ Quiet(u, r) /\ (r = u \/ Cutoff(r))
    BY <1>1, StopHandled
  <2> HIDE DEF r
  <2> QED
    BY <2>1 DEF Quiet, Prompt, Settled
<1>2. ASSUME m.mMessageID = "SetFramePosition" PROVE Prompt(r) /\ Settled(r)
  <2>1. Still(u, r) /\ Quiet(u, r) /\ Wire(u, r)
    BY <1>2, OffsetHandled
  <2> HIDE DEF r
  <2> QED
    BY <2>1 DEF Quiet, Wire, Prompt, Settled, Cutoff
<1>3. ASSUME m.mMessageID = "ClearBuffersFromQueue" PROVE Prompt(r) /\ Settled(r)
  <2>1. Quiet(u, r) /\ Wire(u, r)
    BY <1>3, ClearHandled
  <2> HIDE DEF r
  <2> QED
    BY <2>1 DEF Quiet, Wire, Prompt, Settled, Cutoff
<1>4. ASSUME m.mMessageID = "SetBuffer" PROVE Prompt(r) /\ Settled(r)
  <2>1. Quiet(u, r) /\ r.mState = "STOPPED" /\ r.bus = u.bus /\ r.procs = u.procs /\ ~u.bus
    BY <1>4, SetHandled
  <2> HIDE DEF r
  <2> QED
    BY <2>1 DEF Quiet, Prompt, Settled, Cutoff
<1>5. ASSUME m.mMessageID = "Play" PROVE Prompt(r) /\ Settled(r)
  <2>1. Quiet(u, r) /\ (Wire(u, r) \/ (r.mState = "PLAYING" /\ r.bus /\ r.procs))
    BY <1>5, PlayHandled DEF Prompt, Settled, Cutoff
  <2> HIDE DEF r
  <2> QED
    BY <2>1 DEF Quiet, Wire, Prompt, Settled, Cutoff
<1>6. ASSUME m.mMessageID = "DeconstructionStop" PROVE Prompt(r) /\ Settled(r)
  BY <1>6, EndHandled DEF Prompt, Settled
<1>7. m.mMessageID \in Ids
  BY DEF Messages
<1> HIDE DEF r
<1>8. Prompt(r) /\ Settled(r)
  BY <1>1, <1>2, <1>3, <1>4, <1>5, <1>6, <1>7 DEF Ids
<1> QED
  BY <1>8 DEF r

LEMMA StoppedRun ==
  ASSUME NEW s, NEW h, Sound(s), ~s.thrown, ~s.mSafeForDeletion, Ran(s, h),
         Leads(s.mMessageQueue), s.mState = "TRANSITION", s.mRampState = "complete"
  PROVE  LET z == h[Len(s.mMessageQueue)] IN
         z.s.odd = {} => (z.left /\ z.s.thrown) \/ (Prompt(z.s) /\ Settled(z.s))
<1> DEFINE M == s.mMessageQueue
           n == Len(M)
<1>l. n \in Nat
  BY DEF Sound, SourceRecord
<1>k. PICK k \in 1 .. n :
        /\ M[k].mMessageID \in Ending
        /\ \A i \in 1 .. k - 1 : M[i].mMessageID \in Early
        /\ \A i \in k + 1 .. n : M[i].mMessageID \notin {"Rewind", "Pause"}
  BY DEF Leads
<1> DEFINE B(z) == z.s.odd = {} => Prompt(z.s) /\ Before(z.s)
           A(z) == z.s.odd = {} => (z.left /\ z.s.thrown) \/ (Prompt(z.s) /\ Settled(z.s))
           T == {i \in Nat : (i < k => B(h[i])) /\ (i >= k => A(h[i]))}
<1>1. B(h[0])
  <2>1. h[0] = First(s)
    BY DEF Ran
  <2> QED
    BY <2>1, FirstRun DEF Still, Wire, Prompt, Before
<1>2. ASSUME NEW i \in 1 .. n, i - 1 \in T PROVE i \in T
  <2> DEFINE z == h[i - 1]
             y == h[i]
             m == M[i]
  <2>1. /\ m \in Messages
        /\ Sound(z.s) /\ z.removed \in BOOLEAN
        /\ z.s.odd \subseteq y.s.odd
        /\ z.s.thrown \/ z.s.mSafeForDeletion => y.left /\ y.s = z.s
        /\ ~z.s.thrown /\ ~z.s.mSafeForDeletion => y.s = Handle(z.s, m, z.removed)
    BY RunStep
  <2>2. (i - 1 < k => B(z)) /\ (i - 1 >= k => A(z))
    BY <1>2
  <2>3. (i < k => m.mMessageID \in Early) /\ (i = k => m.mMessageID \in Ending)
        /\ (i > k => m.mMessageID \notin {"Rewind", "Pause"})
    BY <1>l, <1>k
  <2> HIDE DEF z, y, m
  <2>4. ASSUME i < k, y.s.odd = {} PROVE Prompt(y.s) /\ Before(y.s)
    <3>1. Prompt(z.s) /\ Before(z.s)
      BY <2>1, <2>2, <2>4
    <3>2. CASE z.s.thrown
      BY <2>1, <3>1, <3>2
    <3>3. CASE ~z.s.thrown
      <4>1. ~z.s.mSafeForDeletion
        BY <3>1 DEF Before
      <4> QED
        BY <2>1, <2>3, <2>4, <3>1, <3>3, <4>1, BeforeStep
    <3> QED
      BY <3>2, <3>3
  <2>5. ASSUME i = k, y.s.odd = {} PROVE (y.left /\ y.s.thrown) \/ (Prompt(y.s) /\ Settled(y.s))
    <3>1. Prompt(z.s) /\ Before(z.s)
      BY <2>1, <2>2, <2>5
    <3>2. CASE z.s.thrown
      BY <2>1, <3>2
    <3>3. CASE ~z.s.thrown
      <4>1. ~z.s.mSafeForDeletion
        BY <3>1 DEF Before
      <4>2. Prompt(y.s) /\ Cutoff(y.s)
        BY <2>1, <2>3, <2>5, <3>1, <3>3, <4>1, BeforeStep
      <4> QED
        BY <4>2 DEF Settled
    <3> QED
      BY <3>2, <3>3
  <2>6. ASSUME i > k, y.s.odd = {} PROVE (y.left /\ y.s.thrown) \/ (Prompt(y.s) /\ Settled(y.s))
    <3>1. (z.left /\ z.s.thrown) \/ (Prompt(z.s) /\ Settled(z.s))
      BY <2>1, <2>2, <2>6
    <3>2. CASE z.s.thrown \/ z.s.mSafeForDeletion
      BY <2>1, <3>1, <3>2
    <3>3. CASE ~z.s.thrown /\ ~z.s.mSafeForDeletion
      BY <2>1, <2>3, <2>6, <3>1, <3>3, SettledStep
    <3> QED
      BY <3>2, <3>3
  <2>7. (i < k => B(y)) /\ (i >= k => A(y))
    BY <1>k, <2>4, <2>5, <2>6
  <2> HIDE DEF A, B
  <2> QED
    BY <2>7 DEF y
<1> HIDE DEF A, B
<1>3. 0 \in T
  BY <1>1, <1>k
<1> HIDE DEF T
<1>4. \A i \in 0 .. n : i \in T
  BY <1>l, <1>2, <1>3, Upto
<1>5. A(h[n])
  BY <1>l, <1>k, <1>4 DEF T
<1> QED
  BY <1>5 DEF A

(* A source that may already be deleted, or was left no message.            *)
LEMMA IdleRun ==
  ASSUME NEW s, NEW h, Sound(s), ~s.thrown, Ran(s, h),
         s.mSafeForDeletion \/ s.mMessageQueue = <<>>
  PROVE  h[Len(s.mMessageQueue)].s = First(s).s
<1> DEFINE n == Len(s.mMessageQueue)
           T == {i \in Nat : h[i].s = First(s).s}
<1>l. n \in Nat
  BY DEF Sound, SourceRecord
<1>0. h[0] = First(s)
  BY DEF Ran
<1>1. CASE s.mMessageQueue = <<>>
  <2>1. n = 0
    BY <1>1
  <2> QED
    BY <1>0, <2>1
<1>2. CASE s.mSafeForDeletion
  <2>1. First(s).s.mSafeForDeletion
    BY <1>2, FirstRun DEF Still
  <2>2. ASSUME NEW i \in 1 .. n, h[i - 1].s = First(s).s PROVE h[i].s = First(s).s
    <3>1. h[i - 1].s.mSafeForDeletion => h[i].s = h[i - 1].s
      BY RunStep
    <3> QED
      BY <2>1, <2>2, <3>1
  <2>3. 0 \in T /\ \A i \in 1 .. n : i - 1 \in T => i \in T
    BY <1>0, <2>2
  <2> HIDE DEF T
  <2>4. \A i \in 0 .. n : i \in T
    BY <1>l, <2>3, Upto
  <2> QED
    BY <1>l, <2>4 DEF T
<1> QED
  BY <1>1, <1>2

LEMMA FinishedIs ==
  ASSUME NEW s, NEW z \in Runs(s)
  PROVE  LET r == Finished(z) IN
         /\ Sound(r) /\ z.s.odd \subseteq r.odd /\ Wire(z.s, r) /\ Whole(r) = Whole(z.s)
         /\ r.mSafeForDeletion = z.s.mSafeForDeletion /\ r.mMessageQueue = z.s.mMessageQueue
         /\ r.mBuffersQueuedForClear = z.s.mBuffersQueuedForClear /\ r.thrown = z.s.thrown
         /\ r.odd = {} => ~(z.left /\ z.s.thrown) /\ z.s.odd = {}
<1> DEFINE u == z.s
           l == z.left
           o == Note(u, "lost", l)
           e == [u EXCEPT !.mRampState = "no"]
           r == Finished(z)
<1>1. Sound(u) /\ l \in BOOLEAN
  BY DEF Runs
<1>2. r = IF u.thrown THEN o ELSE IF u.mSafeForDeletion THEN u ELSE e
  BY DEF Finished
<1> HIDE DEF u, l
<1>3. /\ Sound(o) /\ u.odd \subseteq o.odd /\ Wire(u, o) /\ Whole(o) = Whole(u)
      /\ o.mSafeForDeletion = u.mSafeForDeletion /\ o.mMessageQueue = u.mMessageQueue
      /\ o.mBuffersQueuedForClear = u.mBuffersQueuedForClear /\ o.thrown = u.thrown
      /\ o.odd = {} => ~l /\ u.odd = {}
  <2>1. "lost" \in Odds
    BY DEF Odds
  <2>2. /\ Sound(o) /\ Whole(o) = Whole(u)
        /\ o.mState = u.mState /\ o.mMessageQueue = u.mMessageQueue
        /\ o.bus = u.bus /\ o.procs = u.procs /\ o.mSafeForDeletion = u.mSafeForDeletion
        /\ o.mBuffersQueuedForClear = u.mBuffersQueuedForClear /\ u.odd \subseteq o.odd
        /\ o.odd = {} => ~l /\ u.odd = {}
        /\ o.thrown = u.thrown
    BY <1>1, <2>1, NotedIs
  <2> HIDE DEF o
  <2> QED
    BY <2>2 DEF Wire
<1>4. /\ Sound(e) /\ u.odd = e.odd /\ Wire(u, e) /\ Whole(e) = Whole(u)
      /\ e.mSafeForDeletion = u.mSafeForDeletion /\ e.mMessageQueue = u.mMessageQueue
      /\ e.mBuffersQueuedForClear = u.mBuffersQueuedForClear /\ e.thrown = u.thrown
  BY <1>1 DEF Sound, Counted, Whole, SourceRecord, Wire
<1>5. u.odd \subseteq u.odd /\ Wire(u, u)
  BY DEF Wire
<1> HIDE DEF o, e, r
<1>6. /\ Sound(r) /\ u.odd \subseteq r.odd /\ Wire(u, r) /\ Whole(r) = Whole(u)
      /\ r.mSafeForDeletion = u.mSafeForDeletion /\ r.mMessageQueue = u.mMessageQueue
      /\ r.mBuffersQueuedForClear = u.mBuffersQueuedForClear /\ r.thrown = u.thrown
      /\ r.odd = {} => ~(l /\ u.thrown) /\ u.odd = {}
  BY <1>1, <1>2, <1>3, <1>4, <1>5
<1> QED
  BY <1>6 DEF r, u, l

LEMMA ControlRun ==
  ASSUME NEW s, NEW h, NEW d \in BOOLEAN, Sound(s), Control(s, d), ~s.thrown, Ran(s, h),
         s.mRampState = "complete"
  PROVE  LET r == HandleAll(s) IN
         /\ Control(r, d)
         /\ r.odd = {} => r.mSafeForDeletion \/ r.mMessageQueue = <<>>
<1> DEFINE n == Len(s.mMessageQueue)
           z == h[n]
           u == z.s
           r == HandleAll(s)
<1>l. n \in Nat
  BY DEF Sound, SourceRecord
<1>0. z \in Runs(s) /\ r = Finished(z) /\ h[0] = First(s)
  BY <1>l DEF Ran
<1>1. s.mState \in States
  BY DEF Sound, SourceRecord
<1>i. s.mSafeForDeletion \/ s.mMessageQueue = <<>> => u = First(s).s
  BY IdleRun
<1>e. EndsNow(s) => u.mSafeForDeletion \/ (z.left /\ u.thrown)
  BY EndedRun
<1>p. AllEarly(s.mMessageQueue) /\ s.mState = "PLAYING" /\ s.bus /\ s.procs =>
        /\ u.mMessageQueue = <<>> /\ u.mSafeForDeletion = s.mSafeForDeletion
        /\ (u.mState = "PLAYING" /\ u.bus /\ u.procs) \/ (u.mState = "PAUSED" /\ u.bus /\ ~u.procs)
  BY PlayedRun
<1>t. ~s.mSafeForDeletion /\ Leads(s.mMessageQueue) /\ s.mState = "TRANSITION" =>
        (u.odd = {} => (z.left /\ u.thrown) \/ (Prompt(u) /\ Settled(u)))
  BY StoppedRun
<1>f. LET f == First(s) IN Wire(s, f.s) /\ f.s.mSafeForDeletion = s.mSafeForDeletion
                             /\ f.s.mMessageQueue = <<>>
  BY FirstRun DEF Still
<1> HIDE DEF r
<1>2. /\ Wire(u, r) /\ r.mSafeForDeletion = u.mSafeForDeletion /\ r.mMessageQueue = u.mMessageQueue
      /\ u.odd \subseteq r.odd /\ (r.odd = {} => ~(z.left /\ u.thrown) /\ u.odd = {})
  BY <1>0, FinishedIs
<1>3. /\ s.odd \subseteq u.odd /\ ~EndsNow(u)
      /\ u.mSafeForDeletion => s.mSafeForDeletion \/ EndsNow(s)
  BY <1>0 DEF Runs
<1> HIDE DEF z, u
<1>4. (r.mSafeForDeletion => d) /\ ~EndsNow(r)
  BY <1>2, <1>3 DEF Control, EndsNow, Pending
<1>5. SUFFICES ASSUME r.odd = {}
      PROVE  /\ r.mState = "PLAYING" => r.bus /\ r.procs
             /\ r.mState = "PAUSED" => r.bus /\ ~r.procs
             /\ r.procs => r.bus
             /\ r.bus => r.mState \in {"PLAYING", "PAUSED", "TRANSITION"}
             /\ ~r.mSafeForDeletion => r.mMessageQueue = <<>> /\ r.mState # "TRANSITION" /\ ~d
             /\ r.mSafeForDeletion \/ r.mMessageQueue = <<>>
  <2>1. AllEarly(<<>>)
    BY DEF AllEarly
  <2> QED
    BY <1>4, <1>5, <2>1 DEF Control, EndsNow, r
<1>6. s.odd = {} /\ u.odd = {} /\ ~(z.left /\ u.thrown)
  BY <1>2, <1>3, <1>5
<1>7. d /\ ~r.mSafeForDeletion => FALSE
  <2>1. ASSUME d, ~r.mSafeForDeletion PROVE FALSE
    <3>1. ~s.mSafeForDeletion
      BY <1>2, <1>i, <1>f, <2>1
    <3>2. EndsNow(s)
      BY <1>6, <2>1, <3>1 DEF Control, EndsNow
    <3> QED
      BY <1>2, <1>e, <1>6, <2>1, <3>2
  <2> QED
    BY <2>1
<1>8. CASE s.mSafeForDeletion
  BY <1>2, <1>6, <1>7, <1>8, <1>i, <1>f DEF Control, Wire
<1>9. CASE ~s.mSafeForDeletion /\ s.mState = "PLAYING"
  BY <1>2, <1>6, <1>7, <1>9, <1>p DEF Control, Wire
<1>10. CASE ~s.mSafeForDeletion /\ s.mState = "TRANSITION"
  BY <1>2, <1>6, <1>7, <1>10, <1>t DEF Control, Wire, Prompt, Settled, Cutoff
<1>11. CASE ~s.mSafeForDeletion /\ s.mState \in {"INITIAL", "STOPPED", "PAUSED"}
  BY <1>2, <1>6, <1>7, <1>11, <1>i, <1>f DEF Control, Wire
<1> QED
  BY <1>1, <1>8, <1>9, <1>10, <1>11 DEF States

(* What a message makes of the queue.                                       *)
LEMMA QueueStep ==
  ASSUME NEW u, NEW m \in Messages, NEW removed \in BOOLEAN, Sound(u), ~u.thrown,
         m.mMessageID # "DeconstructionStop"
  PROVE  LET r == Handle(u, m, removed) IN
         /\ m.mMessageID \notin {"ClearBuffersFromQueue", "SetBuffer"} /\ r.odd = {} =>
              Whole(r) = Whole(u) /\ r.mBuffersQueuedForClear = u.mBuffersQueuedForClear
         /\ m.mMessageID = "ClearBuffersFromQueue" /\ m.mBuffers <= Len(Whole(u)) =>
              /\ r.mBuffersQueuedForClear = 0
              /\ Whole(r) = SubSeq(Whole(u), m.mBuffers + 1, Len(Whole(u)))
         /\ m.mMessageID = "SetBuffer" =>
              /\ r.mBuffersQueuedForClear \in {0, u.mBuffersQueuedForClear}
              /\ Whole(r) = Replaced(m.mAppendBuffer)
<1> DEFINE r == Handle(u, m, removed)
<1>1. m.mMessageID = "Stop" => Still(u, r)
  BY StopHandled
<1>2. m.mMessageID = "Rewind" => Still(u, r)
  BY RewindHandled
<1>3. m.mMessageID = "Pause" => Still(u, r)
  BY PauseHandled
<1>4. m.mMessageID = "SetFramePosition" => Still(u, r)
  BY OffsetHandled
<1>5. m.mMessageID = "Play" => Still(u, r)
  BY PlayHandled
<1>6. m.mMessageID = "ClearBuffersFromQueue" /\ m.mBuffers <= Len(Whole(u)) =>
        /\ r.mBuffersQueuedForClear = 0
        /\ Whole(r) = SubSeq(Whole(u), m.mBuffers + 1, Len(Whole(u)))
  BY ClearHandled
<1>7. m.mMessageID = "SetBuffer" =>
        /\ r.mBuffersQueuedForClear \in {0, u.mBuffersQueuedForClear}
        /\ Whole(r) = Replaced(m.mAppendBuffer)
  BY SetHandled
<1>8. m.mMessageID \in Ids
  BY DEF Messages
<1> HIDE DEF r
<1>9. Still(u, r) /\ r.odd = {} =>
        Whole(r) = Whole(u) /\ r.mBuffersQueuedForClear = u.mBuffersQueuedForClear
  BY DEF Still
<1>10. m.mMessageID \notin {"ClearBuffersFromQueue", "SetBuffer"} => Still(u, r)
  BY <1>1, <1>2, <1>3, <1>4, <1>5, <1>8 DEF Ids
<1> QED
  BY <1>6, <1>7, <1>9, <1>10 DEF r

(* The messages make of the queue what was promised of it.                  *)
LEMMA PromisedRun ==
  ASSUME NEW s, NEW h, NEW q, Sound(s), ~s.thrown, ~s.mSafeForDeletion, ~EndsNow(s), Ran(s, h),
         Promised(s, q)
  PROVE  LET r == HandleAll(s) IN r.odd = {} => r.mBuffersQueuedForClear = 0 /\ q = Whole(r)
<1> DEFINE M == s.mMessageQueue
           n == Len(M)
           W == Whole(s)
           c == s.mBuffersQueuedForClear
<1>l. n \in Nat /\ M \in Seq(Messages)
  BY DEF Sound, SourceRecord
<1>w. W \in Seq(Buffer) /\ Len(W) \in Nat /\ c \in Nat
  <2>1. s \in SourceRecord
    BY DEF Sound
  <2>2. W \in Seq(Buffer)
    BY <2>1, WholeIs
  <2> QED
    BY <2>1, <2>2, Joined DEF SourceRecord
<1>p. /\ Sums(M, c) /\ c <= Len(W)
      /\ (\A i \in 1 .. n : ~Clearing(M, i)) => c = 0
      /\ \A i, j \in 1 .. n : Setting(M, i) /\ Clearing(M, j) => j < i
      /\ (\A i \in 1 .. n : ~Setting(M, i)) => Kept(s) = q
      /\ \A i \in 1 .. n :
           Setting(M, i) /\ (\A j \in i + 1 .. n : ~Setting(M, j)) => q = Replaced(M[i].mAppendBuffer)
  BY DEF Promised
<1>e. PICK e \in [0 .. n -> 0 .. c] :
        e[0] = 0 /\ e[n] = c /\ \A i \in 1 .. n : e[i] = e[i - 1] + Clears(M[i])
  BY <1>p DEF Sums
<1>d. \A i \in 1 .. n : M[i] \in Messages /\ M[i].mMessageID # "DeconstructionStop"
                       /\ M[i].mMessageID \in Ids /\ M[i].mBuffers \in Nat
  <2>1. \A i \in 1 .. n : M[i] \in Messages
    BY <1>l
  <2>2. \A m \in Messages : m.mMessageID \in Ids /\ m.mBuffers \in Nat
    BY DEF Messages
  <2> QED
    BY <2>1, <2>2 DEF EndsNow, Pending
<1> DEFINE D(i, z) ==
             z.s.odd = {} /\ ~z.left =>
               /\ \/ z.s.mBuffersQueuedForClear = 0
                  \/ z.s.mBuffersQueuedForClear = c /\ \A j \in 1 .. i : ~Clearing(M, j)
               /\ (\A j \in 1 .. i : ~Setting(M, j)) => Whole(z.s) = SubSeq(W, e[i] + 1, Len(W))
               /\ \A j \in 1 .. i :
                    Setting(M, j) /\ (\A k \in j + 1 .. i : ~Setting(M, k)) =>
                      Whole(z.s) = Replaced(M[j].mAppendBuffer)
           T == {i \in Nat : D(i, h[i])}
<1>1. D(0, h[0])
  <2>1. Still(s, h[0].s)
    BY FirstRun DEF Ran
  <2>2. SubSeq(W, 0 + 1, Len(W)) = W
    BY <1>w, SubSeqFull
  <2> HIDE DEF W
  <2>3. Still(s, h[0].s) => h[0].s.mBuffersQueuedForClear = c /\ (h[0].s.odd = {} => Whole(h[0].s) = W)
    BY DEF Still, W
  <2> QED
    BY <1>e, <2>1, <2>2, <2>3
<1>2. ASSUME NEW i \in 1 .. n, D(i - 1, h[i - 1]) PROVE D(i, h[i])
  <2> DEFINE z == h[i - 1]
             y == h[i]
             m == M[i]
  <2>1. /\ m \in Messages
        /\ Sound(z.s) /\ z.removed \in BOOLEAN /\ (z.left => z.s.thrown \/ z.s.mSafeForDeletion)
        /\ z.s.odd \subseteq y.s.odd
        /\ z.s.thrown \/ z.s.mSafeForDeletion => y.left /\ y.s = z.s
        /\ ~z.s.thrown /\ ~z.s.mSafeForDeletion => y.s = Handle(z.s, m, z.removed)
    BY RunStep
  <2>2. D(i - 1, z)
    BY <1>2
  <2>i. i - 1 \in 0 .. n /\ i \in 0 .. n /\ i - 1 \in Nat /\ i \in Nat
        /\ (\A j \in 1 .. i - 1 : j \in 1 .. i /\ j \in 1 .. n)
        /\ (\A j \in 1 .. i : j = i \/ j \in 1 .. i - 1) /\ i \in 1 .. i
    BY <1>l
  <2>3. e[i - 1] \in 0 .. c /\ e[i] \in 0 .. c /\ e[i] = e[i - 1] + Clears(m)
    BY <1>e, <2>i
  <2>m. m.mMessageID # "DeconstructionStop" /\ m.mBuffers \in Nat
    BY <1>d
  <2>s. (Clearing(M, i) <=> m.mMessageID = "ClearBuffersFromQueue")
        /\ (Setting(M, i) <=> m.mMessageID = "SetBuffer")
    BY DEF Clearing, Setting
  <2> HIDE DEF z, y, m, D
  <2>4. SUFFICES ASSUME y.s.odd = {}, ~y.left PROVE D(i, y)
    BY DEF y, D
  <2>5. ~z.s.thrown /\ ~z.s.mSafeForDeletion /\ ~z.left /\ z.s.odd = {} /\ y.s = Handle(z.s, m, z.removed)
    BY <2>1, <2>4
  <2>6. /\ \/ z.s.mBuffersQueuedForClear = 0
           \/ z.s.mBuffersQueuedForClear = c /\ \A j \in 1 .. i - 1 : ~Clearing(M, j)
        /\ (\A j \in 1 .. i - 1 : ~Setting(M, j)) => Whole(z.s) = SubSeq(W, e[i - 1] + 1, Len(W))
        /\ \A j \in 1 .. i - 1 :
             Setting(M, j) /\ (\A k \in j + 1 .. i - 1 : ~Setting(M, k)) =>
               Whole(z.s) = Replaced(M[j].mAppendBuffer)
    BY <2>2, <2>5 DEF D
  <2>7. /\ m.mMessageID \notin {"ClearBuffersFromQueue", "SetBuffer"} =>
             Whole(y.s) = Whole(z.s) /\ y.s.mBuffersQueuedForClear = z.s.mBuffersQueuedForClear
        /\ m.mMessageID = "ClearBuffersFromQueue" /\ m.mBuffers <= Len(Whole(z.s)) =>
             /\ y.s.mBuffersQueuedForClear = 0
             /\ Whole(y.s) = SubSeq(Whole(z.s), m.mBuffers + 1, Len(Whole(z.s)))
        /\ m.mMessageID = "SetBuffer" =>
             /\ y.s.mBuffersQueuedForClear \in {0, z.s.mBuffersQueuedForClear}
             /\ Whole(y.s) = Replaced(m.mAppendBuffer)
    <3> DEFINE u == z.s
               v == z.removed
               r == Handle(u, m, v)
    <3>1. Sound(u) /\ ~u.thrown /\ v \in BOOLEAN /\ y.s = r /\ r.odd = {}
      BY <2>1, <2>4, <2>5
    <3> HIDE DEF u, v
    <3>2. /\ m.mMessageID \notin {"ClearBuffersFromQueue", "SetBuffer"} /\ r.odd = {} =>
               Whole(r) = Whole(u) /\ r.mBuffersQueuedForClear = u.mBuffersQueuedForClear
          /\ m.mMessageID = "ClearBuffersFromQueue" /\ m.mBuffers <= Len(Whole(u)) =>
               /\ r.mBuffersQueuedForClear = 0
               /\ Whole(r) = SubSeq(Whole(u), m.mBuffers + 1, Len(Whole(u)))
          /\ m.mMessageID = "SetBuffer" =>
               /\ r.mBuffersQueuedForClear \in {0, u.mBuffersQueuedForClear}
               /\ Whole(r) = Replaced(m.mAppendBuffer)
      BY <2>1, <2>m, <3>1, QueueStep
    <3> HIDE DEF r
    <3> QED
      BY <3>1, <3>2 DEF u
  <2>8. CASE m.mMessageID = "ClearBuffersFromQueue"
    <3>1. \A j \in 1 .. i : ~Setting(M, j)
      <4>1. \A j \in 1 .. i - 1 : ~Setting(M, j)
        <5>1. ASSUME NEW j \in 1 .. i - 1, Setting(M, j) PROVE FALSE
          <6>1. i < j
            BY <1>p, <2>s, <2>i, <2>8, <5>1
          <6> QED
            BY <1>l, <6>1
        <5> QED
          BY <5>1
      <4> QED
        BY <2>s, <2>i, <2>8, <4>1
    <3>2. Whole(z.s) = SubSeq(W, e[i - 1] + 1, Len(W))
      BY <2>6, <2>i, <3>1
    <3>3. e[i] = e[i - 1] + m.mBuffers
      BY <2>3, <2>8 DEF Clears
    <3>4. e[i - 1] \in 0 .. Len(W) /\ e[i - 1] + m.mBuffers <= Len(W) /\ e[i - 1] \in Nat
      BY <1>w, <1>p, <2>3, <2>m, <3>3
    <3> DEFINE X == SubSeq(W, e[i - 1] + 1, Len(W))
    <3>5. Len(X) = Len(W) - e[i - 1]
      BY <1>w, <3>4, Cut
    <3>6. SubSeq(X, m.mBuffers + 1, Len(X)) = SubSeq(W, e[i - 1] + m.mBuffers + 1, Len(W))
      BY <1>w, <2>m, <3>4, CutTwice
    <3>7. m.mBuffers <= Len(X)
      BY <1>w, <2>m, <3>4, <3>5
    <3> HIDE DEF X, W
    <3>8. y.s.mBuffersQueuedForClear = 0 /\ Whole(y.s) = SubSeq(X, m.mBuffers + 1, Len(X))
      BY <2>7, <2>8, <3>2, <3>7 DEF X
    <3>9. Whole(y.s) = SubSeq(W, e[i] + 1, Len(W))
      BY <3>3, <3>6, <3>8
    <3> QED
      BY <3>1, <3>8, <3>9 DEF D
  <2>9. CASE m.mMessageID = "SetBuffer"
    <3>1. Setting(M, i) /\ ~Clearing(M, i)
      BY <2>s, <2>9
    <3>2. \/ y.s.mBuffersQueuedForClear = 0
          \/ y.s.mBuffersQueuedForClear = c /\ \A j \in 1 .. i : ~Clearing(M, j)
      BY <2>6, <2>7, <2>9, <2>i, <3>1
    <3>3. Whole(y.s) = Replaced(M[i].mAppendBuffer)
      BY <2>7, <2>9 DEF m
    <3>4. ASSUME NEW j \in 1 .. i, \A k \in j + 1 .. i : ~Setting(M, k) PROVE j = i
      <4>1. j # i => i \in j + 1 .. i
        BY <2>i
      <4> QED
        BY <3>1, <3>4, <4>1
    <3> QED
      BY <2>i, <3>1, <3>2, <3>3, <3>4 DEF D
  <2>10. CASE m.mMessageID \notin {"ClearBuffersFromQueue", "SetBuffer"}
    <3>1. ~Setting(M, i) /\ ~Clearing(M, i) /\ Clears(m) = 0
      BY <2>s, <2>10 DEF Clears
    <3>2. e[i] = e[i - 1]
      BY <2>3, <3>1
    <3>3. Whole(y.s) = Whole(z.s) /\ y.s.mBuffersQueuedForClear = z.s.mBuffersQueuedForClear
      BY <2>7, <2>10
    <3>4. \/ y.s.mBuffersQueuedForClear = 0
          \/ y.s.mBuffersQueuedForClear = c /\ \A j \in 1 .. i : ~Clearing(M, j)
      BY <2>6, <2>i, <3>1, <3>3
    <3>5. (\A j \in 1 .. i : ~Setting(M, j)) => Whole(y.s) = SubSeq(W, e[i] + 1, Len(W))
      BY <2>6, <2>i, <3>2, <3>3
    <3>6. ASSUME NEW j \in 1 .. i, Setting(M, j), \A k \in j + 1 .. i : ~Setting(M, k)
          PROVE  Whole(y.s) = Replaced(M[j].mAppendBuffer)
      <4>1. j \in 1 .. i - 1
        BY <2>i, <3>1, <3>6
      <4>2. \A k \in j + 1 .. i - 1 : k \in j + 1 .. i
        BY <2>i
      <4> QED
        BY <2>6, <3>3, <3>6, <4>1, <4>2
    <3> QED
      BY <3>4, <3>5, <3>6 DEF D
  <2> QED
    BY <2>8, <2>9, <2>10
<1> HIDE DEF D
<1>3. 0 \in T /\ \A i \in 1 .. n : i - 1 \in T => i \in T
  BY <1>1, <1>2
<1> HIDE DEF T
<1>4. \A i \in 0 .. n : i \in T
  BY <1>l, <1>3, Upto
<1>5. D(n, h[n])
  BY <1>l, <1>4 DEF T
<1> DEFINE z == h[n]
           r == HandleAll(s)
<1>6. z \in Runs(s) /\ r = Finished(z)
  BY <1>l DEF Ran
<1>7. /\ z.s.odd \subseteq r.odd /\ Whole(r) = Whole(z.s)
      /\ r.mBuffersQueuedForClear = z.s.mBuffersQueuedForClear
      /\ r.odd = {} => ~(z.left /\ z.s.thrown) /\ z.s.odd = {}
  BY <1>6, FinishedIs
<1>8. (z.left => z.s.thrown \/ z.s.mSafeForDeletion) /\ ~z.s.mSafeForDeletion
  BY <1>6 DEF Runs
<1>9. SUFFICES ASSUME r.odd = {} PROVE r.mBuffersQueuedForClear = 0 /\ q = Whole(r)
  OBVIOUS
<1> HIDE DEF z, r
<1>10. z.s.odd = {} /\ ~z.left /\ D(n, z)
  BY <1>5, <1>7, <1>8, <1>9 DEF z
<1>11. r.mBuffersQueuedForClear = 0
  BY <1>7, <1>10, <1>p DEF D
<1>12. CASE \A j \in 1 .. n : ~Setting(M, j)
  <2>1. Whole(z.s) = SubSeq(W, e[n] + 1, Len(W))
    BY <1>10, <1>12 DEF D
  <2>2. q = SubSeq(W, c + 1, Len(W))
    BY <1>p, <1>12 DEF Kept, Whole
  <2> QED
    BY <1>e, <1>7, <1>11, <2>1, <2>2
<1>13. CASE \E j \in 1 .. n : Setting(M, j)
  <2> DEFINE S == {d \in 0 .. n - 1 : Setting(M, n - d)}
  <2>1. S # {} /\ S \in SUBSET Nat
    <3>1. PICK j \in 1 .. n : Setting(M, j)
      BY <1>13
    <3>2. n - j \in 0 .. n - 1 /\ n - (n - j) = j
      BY <1>l
    <3>3. n - j \in S
      BY <3>1, <3>2
    <3>4. \A d \in S : d \in Nat
      BY <1>l
    <3> HIDE DEF S
    <3> QED
      BY <3>3, <3>4
  <2> HIDE DEF S
  <2>2. PICK d \in S : \A k \in S : d <= k
    BY <2>1, Least
  <2> DEFINE j == n - d
  <2>3. j \in 1 .. n /\ Setting(M, j)
    BY <1>l, <2>2 DEF S
  <2>4. ASSUME NEW k \in j + 1 .. n, Setting(M, k) PROVE FALSE
    <3>1. n - k \in 0 .. n - 1 /\ n - (n - k) = k /\ n - k < d
      BY <1>l, <2>2, <2>3 DEF S
    <3>2. n - k \in S
      BY <2>4, <3>1 DEF S
    <3>3. d <= n - k
      BY <2>2, <3>2
    <3> QED
      BY <1>l, <2>2, <3>1, <3>3 DEF S
  <2> HIDE DEF j
  <2>5. Whole(z.s) = Replaced(M[j].mAppendBuffer)
    BY <1>10, <2>3, <2>4 DEF D
  <2>6. q = Replaced(M[j].mAppendBuffer)
    BY <1>p, <2>3, <2>4
  <2> QED
    BY <1>7, <1>11, <2>5, <2>6
<1> QED
  BY <1>12, <1>13

LEMMA HandleGood ==
  ASSUME NEW s, NEW d \in BOOLEAN, NEW q, Good(s, d, q), ~s.thrown, s.mRampState = "complete"
  PROVE  Good(HandleAll(s), d, q)
<1> DEFINE n == Len(s.mMessageQueue)
           r == HandleAll(s)
<1>1. s \in SourceRecord /\ Sound(s) /\ Control(s, d) /\ q \in Seq(Buffer)
  BY GoodIs
<1>l. n \in Nat
  BY <1>1 DEF SourceRecord
<1>h. PICK h : Ran(s, h)
  BY <1>1, RunIs
<1> DEFINE z == h[n]
<1>2. z \in Runs(s) /\ r = Finished(z)
  BY <1>l, <1>h DEF Ran
<1>3. s.odd \subseteq z.s.odd
  BY <1>2 DEF Runs
<1>4. Sound(r) /\ z.s.odd \subseteq r.odd
  BY <1>2, FinishedIs
<1>5. Control(r, d) /\ (r.odd = {} => r.mSafeForDeletion \/ r.mMessageQueue = <<>>)
  BY <1>1, <1>h, ControlRun
<1>6. ~s.mSafeForDeletion /\ ~EndsNow(s) /\ Promised(s, q) =>
        (r.odd = {} => r.mBuffersQueuedForClear = 0 /\ q = Whole(r))
  BY <1>1, <1>h, PromisedRun
<1> HIDE DEF r, z
<1>7. ASSUME r.odd = {}, ~d PROVE Promised(r, q)
  <2>1. s.odd = {}
    BY <1>3, <1>4, <1>7
  <2>2. ~s.mSafeForDeletion /\ ~EndsNow(s) /\ ~r.mSafeForDeletion
    BY <1>1, <1>5, <1>7 DEF Control, EndsNow
  <2>3. Promised(s, q)
    BY <1>7, <2>1 DEF Good
  <2>4. r.mMessageQueue = <<>> /\ r.mBuffersQueuedForClear = 0 /\ q = Whole(r)
    BY <1>5, <1>6, <1>7, <2>2, <2>3
  <2>5. AllEarly(r.mMessageQueue)
    BY <2>4 DEF AllEarly
  <2>6. r \in SourceRecord
    BY <1>4 DEF Sound
  <2> QED
    BY <2>4, <2>5, <2>6, PromisedNow
<1>8. Good(r, d, q)
  BY <1>1, <1>4, <1>5, <1>7 DEF Good
<1> QED
  BY <1>8 DEF r

(* The end of a source whose queue ran dry.                                 *)
LEMMA EndGood ==
  ASSUME NEW s, NEW d, NEW q, Good(s, d, q)
  PROVE  Good(Note(End(s), "stale", s.mMessageQueue # <<>>), d, q)
<1> DEFINE e == End(s)
           c == s.mMessageQueue # <<>>
           r == Note(e, "stale", c)
<1>1. s \in SourceRecord /\ Sound(s) /\ Control(s, d) /\ q \in Seq(Buffer)
  BY GoodIs
<1>2. Still(s, e) /\ Quiet(s, e) /\ Cutoff(e) /\ e.odd = s.odd
  BY <1>1, EndIs
<1> HIDE DEF e
<1>3. "stale" \in Odds /\ c \in BOOLEAN /\ Sound(e)
  BY <1>2 DEF Odds, Still
<1> HIDE DEF c
<1>4. /\ Sound(r) /\ Whole(r) = Whole(e)
      /\ r.mState = e.mState /\ r.mMessageQueue = e.mMessageQueue
      /\ r.bus = e.bus /\ r.procs = e.procs /\ r.mSafeForDeletion = e.mSafeForDeletion
      /\ r.mBuffersQueuedForClear = e.mBuffersQueuedForClear
      /\ r.odd = {} => ~c /\ e.odd = {}
  BY <1>3, NotedIs
<1> HIDE DEF r
<1>5. r.mMessageQueue = s.mMessageQueue /\ r.mSafeForDeletion = s.mSafeForDeletion
      /\ (r.odd = {} => r.mMessageQueue = <<>> /\ s.odd = {})
  BY <1>2, <1>4 DEF Still, Quiet, c
<1>6. Control(r, d)
  <2>1. Pending(r, "DeconstructionStop") <=> Pending(s, "DeconstructionStop")
    BY <1>5 DEF Pending
  <2>2. r.mMessageQueue = <<>> => ~Pending(r, "DeconstructionStop")
    BY DEF Pending
  <2>3. r.mState = "STOPPED" /\ ~r.bus /\ ~r.procs
    BY <1>2, <1>4 DEF Cutoff
  <2> QED
    BY <1>1, <1>5, <2>1, <2>2, <2>3 DEF Control
<1>7. ASSUME r.odd = {}, ~d PROVE Promised(r, q)
  <2>1. s.odd = {} /\ Promised(s, q)
    BY <1>5, <1>7 DEF Good
  <2>2. Whole(r) = Whole(s) /\ r.mBuffersQueuedForClear = s.mBuffersQueuedForClear
    BY <1>2, <1>4, <1>7 DEF Still
  <2> QED
    BY <1>5, <2>1, <2>2, PromisedSame
<1>8. Good(r, d, q)
  BY <1>1, <1>4, <1>6, <1>7 DEF Good
<1> QED
  BY <1>8 DEF r, c, e

LEMMA PostGood ==
  ASSUME NEW s, NEW d \in BOOLEAN, NEW q, Good(s, d, q), ~s.thrown
  PROVE  Good(DoPostRender(s), d, q)
<1> DEFINE a == HandleAll(s)
           r == IF s.mRampState = "complete" THEN a ELSE s
           e == Note(End(r), "stale", r.mMessageQueue # <<>>)
<1>1. s.mRampState = "complete" => Good(a, d, q)
  BY HandleGood
<1> HIDE DEF a
<1>2. Good(r, d, q)
  BY <1>1
<1>3. DoPostRender(s) = IF r.thrown \/ ~r.mQueueIsProcessed THEN r ELSE e
  BY DEF DoPostRender, a
<1> HIDE DEF r
<1>4. Good(e, d, q)
  BY <1>2, EndGood
<1> QED
  BY <1>2, <1>3, <1>4
-----------------------------------------------------------------------------
LEMMA StepLocks == [Next]_vars => [LockNext]_lockVars
<1> SUFFICES ASSUME [Next]_vars PROVE [LockNext]_lockVars
  OBVIOUS
<1>1. ASSUME NEW t \in Thread, AskFor(t) \/ EnterSource(t) \/ EditSource(t)
      PROVE  LockNext
  BY <1>1 DEF AskFor, EnterSource, EditSource, LockNext
<1>2. CASE Briefly \/ GetBuffersProcessed \/ ClearEntry \/ AnswerProcessed \/ Reclaim
  BY <1>2 DEF Briefly, GetBuffersProcessed, ClearEntry, AnswerProcessed, Reclaim
<1>3. CASE RenderThread
  BY <1>3 DEF RenderThread, Skip, TrySource, AcquireSource, RefuseSource, RenderSource, LockNext
<1>4. CASE UNCHANGED vars
  BY <1>4 DEF vars
<1> QED
  BY <1>1, <1>2, <1>3, <1>4 DEF Next

(* The source follows the protocol of the locker.                           *)
THEOREM Locked == Spec => LockSpec
<1>1. Init => LockInit
  BY DEF Init
<1> QED
  BY <1>1, StepLocks, PTL DEF Spec, LockSpec

(* No call of the application works on the source while the render thread   *)
(* does, for any number of threads, buffers and messages.                   *)
THEOREM NeverTogether == Spec => []Exclusion
  BY Locked, Excluded, PTL

-----------------------------------------------------------------------------
(* Every step of the threads keeps the invariant.                           *)

LEMMA OutcomeGood ==
  ASSUME NEW r, NEW d, NEW p, Good(r, d, p)
  PROVE  Good(Outcome(r), d, p) /\ ~Outcome(r).thrown
<1>1. r \in SourceRecord
  BY GoodIs
<1>2. ~Outcome(r).thrown
  BY <1>1 DEF Outcome, SourceRecord
<1> QED
  BY <1>2, LoopGood

LEMMA ChangeGood ==
  ASSUME NEW r, NEW p, NEW d, Change(r, p), Good(r, d, IF r.thrown THEN queued ELSE p)
  PROVE  Good(source', d, queued') /\ ~source'.thrown
  BY OutcomeGood DEF Change

LEMMA AnyGood ==
  ASSUME NEW d, Good(source, d, queued), ~source.thrown,
         \/ \E r \in {Play(source), Rewind(source), Pause(source), Stop(source)}
                       \cup {SetQueueOffset(source, o) : o \in Offsets} : Change(r, queued)
         \/ \E b \in Buffer : Change(AddToQueue(source, b), Append(queued, b))
         \/ \E n \in 1 .. MaxQueue :
              Change(RemoveBuffersFromQueue(source, n), SubSeq(queued, Named(source, n) + 1, Len(queued)))
  PROVE  Good(source', d, queued') /\ ~source'.thrown
<1>1. ASSUME NEW r \in {Play(source), Rewind(source), Pause(source), Stop(source)}
                         \cup {SetQueueOffset(source, o) : o \in Offsets}, Change(r, queued)
      PROVE  Good(source', d, queued') /\ ~source'.thrown
  <2>1. Good(Play(source), d, queued) /\ Good(Rewind(source), d, queued)
        /\ Good(Pause(source), d, queued) /\ Good(Stop(source), d, queued)
    BY PlayGood, RewindGood, PauseGood, StopGood
  <2>2. \A o \in Offsets : Good(SetQueueOffset(source, o), d, queued)
    BY OffsetGood
  <2>3. Good(r, d, queued)
    BY <1>1, <2>1, <2>2
  <2> QED
    BY <1>1, <2>3, ChangeGood
<1>2. ASSUME NEW b \in Buffer, Change(AddToQueue(source, b), Append(queued, b))
      PROVE  Good(source', d, queued') /\ ~source'.thrown
  <2> DEFINE r == AddToQueue(source, b)
  <2>1. Good(r, d, IF r.thrown THEN queued ELSE Append(queued, b))
    BY AddGood
  <2> HIDE DEF r
  <2> QED
    BY <1>2, <2>1, ChangeGood DEF r
<1>3. ASSUME NEW n \in 1 .. MaxQueue,
             Change(RemoveBuffersFromQueue(source, n), SubSeq(queued, Named(source, n) + 1, Len(queued)))
      PROVE  Good(source', d, queued') /\ ~source'.thrown
  <2> DEFINE r == RemoveBuffersFromQueue(source, n)
             p == SubSeq(queued, Named(source, n) + 1, Len(queued))
  <2>1. n \in Nat \ {0}
    BY BoundsAssumption
  <2>2. Good(r, d, IF r.thrown THEN queued ELSE p)
    BY <2>1, RemoveGood
  <2>3. Change(r, p)
    BY <1>3
  <2> HIDE DEF r, p
  <2> QED
    BY <2>2, <2>3, ChangeGood
<1> QED
  BY <1>1, <1>2, <1>3

LEMMA EditGood ==
  ASSUME IInv, NEW t \in Thread, EditSource(t)
  PROVE  /\ call' \in [Thread -> Calls] /\ UNCHANGED <<phase, clearing>> /\ dead' \in BOOLEAN
         /\ Good(source', dead', queued') /\ ~source'.thrown
<1>1. call \in [Thread -> Calls] /\ dead \in BOOLEAN /\ Good(source, dead, queued) /\ ~source.thrown
      /\ call[t] \in Calls
  BY DEF IInv, EditSource
<1>2. /\ call' = [call EXCEPT ![t] = IF @ = "delete" THEN "deconstruct" ELSE "any"]
      /\ dead' = (dead \/ call[t] = "deconstruct") /\ UNCHANGED <<phase, clearing>>
  BY DEF EditSource
<1>3. CASE call[t] = "any"
  <2>1. \/ \E r \in {Play(source), Rewind(source), Pause(source), Stop(source)}
                      \cup {SetQueueOffset(source, o) : o \in Offsets} : Change(r, queued)
        \/ \E b \in Buffer : Change(AddToQueue(source, b), Append(queued, b))
        \/ \E n \in 1 .. MaxQueue :
             Change(RemoveBuffersFromQueue(source, n), SubSeq(queued, Named(source, n) + 1, Len(queued)))
    BY <1>3 DEF EditSource
  <2>2. Good(source', dead, queued') /\ ~source'.thrown
    BY <1>1, <2>1, AnyGood
  <2> QED
    BY <1>1, <1>2, <1>3, <2>2 DEF Calls
<1>4. CASE call[t] = "set"
  <2>1. PICK b \in Buffer : Change(SetBuffer(source, b), IF b = AL_NONE THEN <<>> ELSE <<b>>)
    BY <1>4 DEF EditSource
  <2> DEFINE r == SetBuffer(source, b)
  <2>2. Good(r, dead, IF r.thrown THEN queued ELSE Replaced(b)) /\ Change(r, Replaced(b))
    BY <1>1, <2>1, SetGood DEF Replaced
  <2> HIDE DEF r
  <2>3. Good(source', dead, queued') /\ ~source'.thrown
    BY <2>2, ChangeGood
  <2> QED
    BY <1>1, <1>2, <1>4, <2>3 DEF Calls
<1>5. CASE call[t] = "delete"
  <2>1. Change(Stop(source), queued)
    BY <1>5 DEF EditSource
  <2>2. Good(Stop(source), dead, queued)
    BY <1>1, StopGood
  <2>3. Good(source', dead, queued') /\ ~source'.thrown
    BY <2>1, <2>2, ChangeGood
  <2> QED
    BY <1>1, <1>2, <1>5, <2>3 DEF Calls
<1>6. CASE call[t] = "deconstruct"
  <2>1. Change(SetUpDeconstruction(source), queued)
    BY <1>6 DEF EditSource
  <2>2. Good(SetUpDeconstruction(source), TRUE, queued)
    BY <1>1, DeconstructGood
  <2>3. Good(source', TRUE, queued') /\ ~source'.thrown
    BY <2>1, <2>2, ChangeGood
  <2> QED
    BY <1>1, <1>2, <1>6, <2>3 DEF Calls
<1> QED
  BY <1>1, <1>3, <1>4, <1>5, <1>6 DEF Calls

LEMMA InitInv == Init => IInv
<1> SUFFICES ASSUME Init PROVE IInv
  OBVIOUS
<1>1. LockInv
  BY LockInitInv DEF Init
<1>2. Good(source, dead, queued) /\ ~source.thrown
  BY NewGood DEF Init
<1>3. source \in SourceRecord /\ queued \in Seq(Buffer)
  BY <1>2, GoodIs
<1> QED
  BY <1>1, <1>2, <1>3 DEF Init, IInv, Calls

LEMMA NextInv == IInv /\ [Next]_vars => IInv'
<1> SUFFICES ASSUME IInv, [Next]_vars PROVE IInv'
  OBVIOUS
<1> DEFINE Follows == Good(source, dead, queued)
           Rest == /\ call \in [Thread -> Calls] /\ phase \in {"pre", "render", "post"}
                   /\ dead \in BOOLEAN /\ clearing \in BOOLEAN
                   /\ source \in SourceRecord /\ queued \in Seq(Buffer)
                   /\ ~source.thrown /\ (Torn \/ Follows)
<1>l. LockInv'
  BY StepLocks, LockNextInv DEF IInv
<1>i. Rest
  BY DEF IInv
<1>n. NextPhase => phase' \in {"pre", "render", "post"}
  BY DEF NextPhase
<1>s. SUFFICES Rest'
  BY <1>l DEF IInv
<1>g. ASSUME call' \in [Thread -> Calls], phase' \in {"pre", "render", "post"},
             dead' \in BOOLEAN, clearing' \in BOOLEAN,
             Good(source', dead', queued'), ~source'.thrown
      PROVE  Rest'
  BY <1>g, GoodIs
<1>u. UNCHANGED <<source, dead, queued>> => (Torn \/ Follows)'
  BY <1>i DEF Torn
<1> HIDE DEF Follows
<1>1. ASSUME NEW t \in Thread, AskFor(t) PROVE Rest'
  <2>1. UNCHANGED <<source, phase, dead, clearing, queued>>
    BY <1>1 DEF AskFor
  <2>2. call' \in [Thread -> Calls]
    <3>1. CASE UNCHANGED call
      BY <1>i, <3>1
    <3>2. CASE \E c \in Asks[t] : call' = [call EXCEPT ![t] = c]
      <4>1. PICK c \in Asks[t] : call' = [call EXCEPT ![t] = c]
        BY <3>2
      <4>2. c \in Calls
        BY BoundsAssumption
      <4> QED
        BY <1>i, <4>1, <4>2
    <3> QED
      BY <1>1, <3>1, <3>2 DEF AskFor
  <2> QED
    BY <1>i, <1>u, <2>1, <2>2
<1>2. ASSUME NEW t \in Thread, EnterSource(t) PROVE Rest'
  BY <1>i, <1>u, <1>2 DEF EnterSource
<1>3. ASSUME NEW t \in Thread, EditSource(t) PROVE Rest'
  BY <1>i, <1>3, <1>g, EditGood
<1>f. ~Torn => Good(source, dead, queued)
  BY <1>i DEF Follows
<1>4. CASE Briefly \/ GetBuffersProcessed \/ ClearEntry \/ AnswerProcessed
  <2>1. CASE Briefly
    <3>1. UNCHANGED <<call, phase, dead, clearing, queued>> /\ source.odd = {}
          /\ \E f \in BOOLEAN : source' = SetLooping(source, f)
      BY <2>1 DEF Briefly
    <3>3. PICK f \in BOOLEAN : source' = SetLooping(source, f)
      BY <3>1
    <3>4. Good(source, dead, queued)
      BY <1>f, <3>1 DEF Torn
    <3>5. Good(SetLooping(source, f), dead, queued) /\ SetLooping(source, f).thrown = source.thrown
      BY <3>4, RenderGood
    <3>2. Good(source', dead, queued) /\ ~source'.thrown
      BY <1>i, <3>3, <3>5
    <3> QED
      BY <1>i, <1>g, <3>1, <3>2
  <2>2. CASE GetBuffersProcessed \/ AnswerProcessed
    <3>1. UNCHANGED <<source, call, phase, dead, queued>> /\ clearing' \in BOOLEAN
      BY <2>2 DEF GetBuffersProcessed, AnswerProcessed
    <3> QED
      BY <1>i, <1>u, <3>1
  <2>3. CASE ClearEntry
    <3>1. /\ UNCHANGED <<call, phase, dead, clearing, queued>> /\ source.active # <<>> /\ ~Torn
          /\ source' \in Unlocked(source) \/ source' = ClearOldest(source)
      BY <2>3 DEF ClearEntry
    <3>2. CASE source' \in Unlocked(source)
      <4>1. source' \in SourceRecord /\ ~source'.thrown /\ Torn'
        BY <1>i, <3>1, <3>2, UnlockedIs DEF Torn
      <4> QED
        BY <1>i, <3>1, <4>1
    <3>3. CASE source' = ClearOldest(source)
      <4>1. Good(ClearOldest(source), dead, queued) /\ ClearOldest(source).thrown = source.thrown
        BY <1>f, <3>1, RenderGood
      <4> QED
        BY <1>i, <1>g, <3>1, <3>3, <4>1
    <3> QED
      BY <3>1, <3>2, <3>3
  <2> QED
    BY <1>4, <2>1, <2>2, <2>3
<1>5. CASE Reclaim
  <2>1. source' = NewSource /\ queued' = <<>> /\ dead' = FALSE /\ UNCHANGED <<call, phase, clearing>>
    BY <1>5 DEF Reclaim
  <2> QED
    BY <1>i, <1>g, <2>1, NewGood
<1>6. CASE Skip
  BY <1>i, <1>u, <1>n, <1>6 DEF Skip
<1>7. CASE TrySource
  <2> DEFINE r == AddPlaybackMessage([source EXCEPT !.mMessageQueue = <<>>], "DeconstructionStop")
  <2>1. /\ UNCHANGED <<call, phase, dead, clearing, queued>>
        /\ source' = IF phase = "post" /\ dead THEN r ELSE source
    BY <1>7 DEF TrySource
  <2>2. CASE source' = source
    BY <1>i, <1>u, <2>1, <2>2
  <2>3. CASE source' = r /\ dead /\ ~Torn
    <3>1. Good(r, dead, queued) /\ r.thrown = source.thrown
      BY <1>f, <2>3, DeadGood
    <3> HIDE DEF r
    <3>2. Good(source', dead, queued) /\ ~source'.thrown
      BY <1>i, <2>3, <3>1
    <3> QED
      BY <1>i, <1>g, <2>1, <3>2
  <2>4. CASE source' = r /\ Torn
    <3>1. r \in SourceRecord /\ r.thrown = source.thrown /\ r.odd = source.odd
      BY <1>i, DeadIs
    <3> HIDE DEF r
    <3> QED
      BY <1>i, <2>1, <2>4, <3>1 DEF Torn
  <2> HIDE DEF r
  <2> QED
    BY <2>1, <2>2, <2>3, <2>4
<1>8. CASE AcquireSource
  BY <1>i, <1>u, <1>8 DEF AcquireSource
<1>9. CASE RefuseSource
  BY <1>i, <1>u, <1>n, <1>9 DEF RefuseSource
<1>10. CASE RenderSource
  <2>1. UNCHANGED <<call, dead, clearing, queued>> /\ NextPhase
    BY <1>10 DEF RenderSource
  <2>t. CASE Torn
    <3>1. source' = source
      BY <1>10, <2>t DEF RenderSource
    <3> QED
      BY <1>i, <1>u, <1>n, <2>1, <3>1
  <2>2. CASE ~Torn /\ phase = "pre"
    <3>1. source' = DoPreRender(source)
      BY <1>10, <2>2 DEF RenderSource
    <3>2. Good(DoPreRender(source), dead, queued) /\ DoPreRender(source).thrown = source.thrown
      BY <1>f, <2>2, RenderGood
    <3> QED
      BY <1>i, <1>g, <1>n, <2>1, <3>1, <3>2
  <2>3. CASE ~Torn /\ phase = "render"
    <3>1. PICK n \in 0 .. MaxQueue : source' = DoRender(source, n)
      BY <1>10, <2>3 DEF RenderSource
    <3>2. n \in Nat
      BY BoundsAssumption
    <3>3. Good(DoRender(source, n), dead, queued) /\ DoRender(source, n).thrown = source.thrown
      BY <1>f, <2>3, <3>2, RenderGood
    <3> QED
      BY <1>i, <1>g, <1>n, <2>1, <3>1, <3>3
  <2>4. CASE ~Torn /\ phase = "post"
    <3>1. source' = Outcome(DoPostRender(source))
      BY <1>10, <2>4 DEF RenderSource
    <3>2. Good(DoPostRender(source), dead, queued)
      BY <1>i, <1>f, <2>4, PostGood
    <3>3. Good(source', dead, queued) /\ ~source'.thrown
      BY <3>1, <3>2, OutcomeGood
    <3> QED
      BY <1>i, <1>g, <1>n, <2>1, <3>3
  <2> QED
    BY <1>i, <2>t, <2>2, <2>3, <2>4
<1>11. CASE UNCHANGED vars
  BY <1>i, <1>u, <1>11 DEF vars
<1> QED
  BY <1>1, <1>2, <1>3, <1>4, <1>5, <1>6, <1>7, <1>8, <1>9, <1>10, <1>11 DEF Next, RenderThread

LEMMA AlwaysInv == Spec => []IInv
  BY InitInv, NextInv, PTL DEF Spec

-----------------------------------------------------------------------------
(* Every step of the threads and of the render thread leaves a source of    *)
(* the declared types: positions and counts are never negative, whatever is *)
(* queued, removed, replaced or lost.                                       *)
THEOREM TypeCorrect == Spec => []TypeOK
<1>1. IInv => TypeOK
  <2> SUFFICES ASSUME IInv PROVE TypeOK
    OBVIOUS
  <2>1. source \in SourceRecord /\ queued \in Seq(Buffer)
    BY DEF IInv
  <2> QED
    BY <2>1 DEF IInv, LockInv, TypeOK, SourceRecord, States
<1> QED
  BY <1>1, AlwaysInv, PTL

(* Every entry of the queue holds one attachment of its buffer, and the two *)
(* lists together are the queue as the calls left it: while                 *)
(* GetBuffersProcessed moves entries between two slices, and whatever waits *)
(* to be cleared.  Unless a replacement is pending, an entry was moved      *)
(* during a slice, or another step that reorders or loses entries was taken.*)
THEOREM AsSeen == Spec => []QueueAsSeen
<1>1. IInv => QueueAsSeen
  <2> SUFFICES ASSUME IInv PROVE QueueAsSeen
    OBVIOUS
  <2>1. ~Torn => Good(source, dead, queued) /\ Sound(source)
    BY GoodIs DEF IInv
  <2>2. ~Torn => \A b \in Buffer : source.attached[b] = Held(source.inactive \o source.active, b)
    BY <2>1 DEF Sound, Counted, Whole
  <2>3. ASSUME source.odd = {}, ~dead, ~Pending(source, "SetBuffer") PROVE Kept(source) = queued
    <3>1. Promised(source, queued)
      BY <2>1, <2>3 DEF Good, Torn
    <3>2. \A i \in 1 .. Len(source.mMessageQueue) : ~Setting(source.mMessageQueue, i)
      BY <2>3 DEF Pending, Setting
    <3> QED
      BY <3>1, <3>2 DEF Promised
  <2> QED
    BY <2>2, <2>3 DEF QueueAsSeen
<1> QED
  BY <1>1, AlwaysInv, PTL

(* A source that plays has a mixer bus and a render callback; one with a    *)
(* bus plays, pauses or is on its way to a stop: whatever the calls and the *)
(* messages that cross.                                                     *)
THEOREM Connected == Spec => []ConnectedWhilePlaying
<1>1. IInv => ConnectedWhilePlaying
  <2> SUFFICES ASSUME IInv PROVE ConnectedWhilePlaying
    OBVIOUS
  <2>1. source.odd = {} => Control(source, dead)
    BY GoodIs DEF IInv, Torn
  <2> QED
    BY <2>1 DEF Control, ConnectedWhilePlaying
<1> QED
  BY <1>1, AlwaysInv, PTL
=============================================================================
