---------------------------- MODULE Buffers_proofs ----------------------------
(***************************************************************************)
(* Proofs about buffers and queues, for any threads, names, blocks, loads  *)
(* and any finite set of sources: what is queued is in memory, of the      *)
(* source's format and does not change, unless a call raced; calls that    *)
(* fail lose nothing; and partial updates write inside the data.           *)
(***************************************************************************)
EXTENDS Buffers, FiniteSetTheorems, SequenceTheorems, TLAPS

Making == {"gen", "insert"}
Removing == {"check", "remove", "free"}
Naming == {"insert", "free"}       (* with a block that is not in the map *)
Queueing == {"verify", "link"}
Locking == Queueing \cup {"attach"}

Calls == [todo : SUBSET Name, done : SUBSET Name, n : Nat, name : Name \cup {None},
          block : Entry, source : Source \cup {None}, names : Seq(Name \cup {None}),
          fmt : {None} \cup (DOMAIN StoredAs \cup {Unset}) \X Nat,
          seen : Seq(Entry), entries : Seq(Entry)]

Datas == [size : Nat, FmtType : DOMAIN BytesFromFmt \cup {Unset}, Channels : Nat,
          OriginalType : DOMAIN StoredAs \cup {Unset}, OriginalSize : Nat, OriginalAlign : Nat,
          LoopStart : Nat, LoopEnd : Nat]

Mixes == {None} \cup Nat \X (DOMAIN BytesFromFmt \cup {Unset})

FunOK ==
  /\ queue \in [Source -> Seq(Entry)] /\ BuffersPlayed \in [Source -> Nat]
  /\ playing \in [Source -> BOOLEAN]
  /\ lSourceType \in [Source -> {"UNDETERMINED", "STATIC", "STREAMING"}]
  /\ mixfmt \in [Source -> Mixes] /\ data \in [Block -> Datas]
  /\ call \in [Thread -> Calls] /\ fresh \subseteq Block

(* The locals of each place, and who is in LockContext.                     *)
PlaceOf(t) ==
  /\ pc[t] \in Naming => call[t].name \in Name /\ call[t].block \in Block
  /\ pc[t] \in Queueing => /\ call[t].source \in Source
                           /\ call[t].names \in Seq(given \cup {None})
                           /\ call[t].n < Len(call[t].names)
  /\ pc[t] = "verify" => Len(call[t].seen) = call[t].n
  /\ pc[t] = "link" => /\ Len(call[t].seen) = Len(call[t].names)
                       /\ Len(call[t].entries) = call[t].n
  /\ pc[t] # "link" => call[t].entries = <<>>
  /\ pc[t] = "attach" => /\ call[t].source \in Source
                         /\ call[t].name \in given /\ call[t].block \in Block
  /\ pc[t] = "check" => call[t].done \subseteq call[t].todo
  /\ pc[t] \in Locking <=> holder = t

PlaceInv == \A t \in Thread : PlaceOf(t)

(* Names and blocks belong to each other, one to one.                       *)
MapInv ==
  /\ \A m \in Mapped : m \in taken /\ BufferMap[m] \in allocated
  /\ \A m, k \in Mapped : BufferMap[m] = BufferMap[k] => m = k

NameOf(t) ==
  pc[t] \in Naming => /\ call[t].name \in taken \ Mapped /\ call[t].block \in allocated
                      /\ \A m \in Name : BufferMap[m] # call[t].block

NameInv ==
  /\ \A t \in Thread : NameOf(t)
  /\ \A t, u \in Thread : t # u /\ pc[t] \in Naming /\ pc[u] \in Naming =>
       call[t].name # call[u].name /\ call[t].block # call[u].block

TakenInv == \A m \in taken : m \in Mapped \/ \E t \in Thread : pc[t] \in Naming /\ call[t].name = m

(* What the application cannot know is in no queue and in no queue call.    *)
Hidden == fresh \cup {call[t].block : t \in {t \in Thread : pc[t] = "insert"}}
                \cup {BufferMap[m] : m \in Mapped \ given}

HiddenOf(t) ==
  /\ pc[t] = "attach" => call[t].block \notin Hidden
  /\ \A i \in 1 .. Len(call[t].seen) : call[t].seen[i] \notin Hidden
  /\ \A i \in 1 .. Len(call[t].entries) : call[t].entries[i] \notin Hidden

HiddenInv ==
  /\ \A b \in Hidden : ref[b] = 0
  /\ \A s \in Source : \A i \in 1 .. Len(queue[s]) : queue[s][i] \notin Hidden
  /\ \A t \in Thread : HiddenOf(t)

(* The names a call has made or is to delete.                               *)
Own(t) == IF pc[t] \in Making THEN call[t].done
          ELSE IF pc[t] \in Removing THEN call[t].todo ELSE {}

OwnInv ==
  /\ \A t \in Thread : Own(t) \ given \subseteq Mapped
  /\ \A t, u \in Thread : t # u => Own(t) \cap Own(u) \subseteq given
  /\ \A m \in Mapped : m \in given \cup lost \/ \E t \in Thread : m \in Own(t)

(* The entries that the call in LockContext is linking.                     *)
Linking == IF holder = None THEN <<>> ELSE call[holder].entries

(* Where a queue has a block, and all references to it.                     *)
Indices(q, b) == {i \in 1 .. Len(q) : q[i] = b}
SpotsOf(q, X, b) == UNION {{s} \X Indices(q[s], b) : s \in X}
Spots(q, b) == SpotsOf(q, Source, b)

RefsInv == ~raced => \A b \in Block : ref[b] = Cardinality(Spots(queue, b)) + Held(Linking, b)

(* What is queued has a name that no deletion has tested.                   *)
Live == {BufferMap[m] : m \in Mapped \ Doomed}

LiveInv ==
  ~raced => /\ \A s \in Source : \A i \in 1 .. Len(queue[s]) : queue[s][i] \in Live \cup {None}
            /\ \A i \in 1 .. Len(Linking) : Linking[i] \in Live \cup {None}

(* A format, as compared by alSourceQueueBuffers, decides how it is stored. *)
Keeps(f, x) ==
  \/ f = Format(NewData) /\ x = Stored(NewData)
  \/ f[2] > 0 /\ f[1] \in DOMAIN StoredAs /\ x = <<f[2], StoredAs[f[1]]>>

(* What loops and partial updates reach of a buffer's bytes.                *)
Inside(d) ==
  /\ d.FmtType # Unset => d.LoopEnd * FrameSize(d) <= d.size
  /\ d.OriginalType # Unset =>
       \A i, n \in 0 .. d.OriginalSize \div d.OriginalAlign :
         SubDataAccepted(d, i * d.OriginalAlign, n * d.OriginalAlign) =>
           SubDataEnd(d, i * d.OriginalAlign, n * d.OriginalAlign) <= d.size

DataOK(d) ==
  /\ d \in Datas
  /\ Keeps(Format(d), Stored(d)) /\ Format(d) # None
  /\ Inside(d)

DataInv == \A b \in Block : DataOK(data[b])

(* A queue, and a call that adds to it, have one stored format.             *)
Matches(s, b) == b # None => Stored(data[b]) = mixfmt[s]

FormatAt(t) ==
  LET c == call[t] IN
  /\ pc[t] = "verify" => IF c.fmt = None THEN /\ queue[c.source] \in Seq({None})
                                              /\ c.seen \in Seq({None})
                         ELSE Keeps(c.fmt, mixfmt[c.source])
  /\ pc[t] \in Queueing =>
       \A i \in 1 .. Len(c.seen) : \A m \in Mapped :
         BufferMap[m] = c.seen[i] => Matches(c.source, c.seen[i])
  /\ pc[t] = "link" => \A i \in 1 .. Len(c.entries) : Matches(c.source, c.entries[i])

FormatInv ==
  ~raced => /\ \A s \in Source : \A i \in 1 .. Len(queue[s]) : Matches(s, queue[s][i])
            /\ \A t \in Thread : FormatAt(t)

IInv ==
  /\ TypeOK /\ FunOK /\ PlaceInv /\ MapInv /\ NameInv /\ TakenInv /\ HiddenInv /\ OwnInv
  /\ RefsInv /\ LiveInv /\ DataInv /\ FormatInv

-----------------------------------------------------------------------------
(* Counting a block in a queue and in all queues.                           *)

LEMMA HeldType ==
  ASSUME NEW q \in Seq(Entry), NEW b
  PROVE  /\ IsFiniteSet(Indices(q, b)) /\ Held(q, b) = Cardinality(Indices(q, b))
         /\ Held(q, b) \in Nat
         /\ Held(q, b) = 0 <=> \A i \in 1 .. Len(q) : q[i] # b
<1>1. IsFiniteSet(1 .. Len(q))
  BY FS_Interval, LenProperties
<1>2. IsFiniteSet(Indices(q, b))
  BY <1>1, FS_Subset DEF Indices
<1>3. Held(q, b) = Cardinality(Indices(q, b))
  BY DEF Held, Indices
<1>4. Indices(q, b) = {} <=> \A i \in 1 .. Len(q) : q[i] # b
  BY DEF Indices
<1> QED
  BY <1>2, <1>3, <1>4, FS_CardinalityType, FS_EmptySet

LEMMA HeldConcat ==
  ASSUME NEW q \in Seq(Entry), NEW r \in Seq(Entry), NEW b
  PROVE  Held(q \o r, b) = Held(q, b) + Held(r, b)
<1> DEFINE I == Indices(q, b)
           J == Indices(r, b)
           K == {i \in Len(q) + 1 .. Len(q) + Len(r) : r[i - Len(q)] = b}
           f == [j \in J |-> j + Len(q)]
<1>1. Len(q) \in Nat /\ Len(r) \in Nat
  BY LenProperties
<1>2. IsFiniteSet(I) /\ IsFiniteSet(J)
  BY HeldType
<1>3. q \o r \in Seq(Entry) /\ Len(q \o r) = Len(q) + Len(r)
      /\ \A i \in 1 .. Len(q) + Len(r) : (q \o r)[i] = IF i <= Len(q) THEN q[i] ELSE r[i - Len(q)]
  BY ConcatProperties
<1>4. Indices(q \o r, b) = I \cup K /\ I \cap K = {}
  BY <1>1, <1>3 DEF Indices
<1>5. IsFiniteSet(K) /\ Cardinality(K) = Cardinality(J)
  <2>1. f \in [J -> K]
    BY <1>1 DEF Indices
  <2>2. \A i, j \in J : f[i] = f[j] => i = j
    BY <1>1 DEF Indices
  <2>3. \A k \in K : \E j \in J : f[j] = k
    <3> SUFFICES ASSUME NEW k \in K PROVE k - Len(q) \in J /\ f[k - Len(q)] = k
      OBVIOUS
    <3> QED
      BY <1>1 DEF Indices
  <2> HIDE DEF f, J, K
  <2>4. f \in Bijection(J, K)
    BY <2>1, <2>2, <2>3 DEF Bijection, Injection, Surjection, IsInjective
  <2>5. ExistsBijection(J, K)
    BY <2>4 DEF ExistsBijection
  <2> QED
    BY <1>2, <2>5, FS_Bijection
<1> HIDE DEF I, J, K
<1>6. Cardinality(I \cup K) = Cardinality(I) + Cardinality(K)
  <2>1. Cardinality(I \cup K) = Cardinality(I) + Cardinality(K) - Cardinality({})
    BY <1>2, <1>4, <1>5, FS_Union
  <2>2. Cardinality(I) \in Nat /\ Cardinality(K) \in Nat /\ Cardinality({}) = 0
    BY <1>2, <1>5, FS_CardinalityType, FS_EmptySet
  <2> QED
    BY <2>1, <2>2
<1>7. /\ Held(q \o r, b) = Cardinality(Indices(q \o r, b))
      /\ Held(q, b) = Cardinality(I) /\ Held(r, b) = Cardinality(J)
  BY <1>3, HeldType DEF I, J
<1> QED
  BY <1>4, <1>5, <1>6, <1>7

LEMMA HeldOne ==
  ASSUME NEW b
  PROVE  /\ Held(<<>>, b) = 0
         /\ \A e \in Entry : Held(<<e>>, b) = IF e = b THEN 1 ELSE 0
<1>1. Held(<<>>, b) = 0
  <2>1. {i \in 1 .. Len(<<>>) : <<>>[i] = b} = {}
    OBVIOUS
  <2> QED
    BY <2>1, FS_EmptySet DEF Held
<1>2. ASSUME NEW e \in Entry
      PROVE  Held(<<e>>, b) = IF e = b THEN 1 ELSE 0
  <2>1. {i \in 1 .. Len(<<e>>) : <<e>>[i] = b} = IF e = b THEN {1} ELSE {}
    OBVIOUS
  <2> QED
    BY <2>1, FS_Singleton, FS_EmptySet DEF Held
<1> QED
  BY <1>1, <1>2

(* The entries before and after a place.                                    *)
LEMMA Cut ==
  ASSUME NEW q \in Seq(Entry), NEW n \in 0 .. Len(q)
  PROVE  /\ SubSeq(q, 1, n) \in Seq(Entry) /\ SubSeq(q, n + 1, Len(q)) \in Seq(Entry)
         /\ Len(SubSeq(q, n + 1, Len(q))) = Len(q) - n
         /\ \A i \in 1 .. Len(q) - n : /\ SubSeq(q, n + 1, Len(q))[i] = q[i + n]
                                       /\ i + n \in 1 .. Len(q)
         /\ \A i \in 1 .. Len(SubSeq(q, 1, n)) : SubSeq(q, 1, n)[i] = q[i] /\ i \in 1 .. Len(q)
         /\ \A b : Held(q, b) = Held(SubSeq(q, 1, n), b) + Held(SubSeq(q, n + 1, Len(q)), b)
<1>1. Len(q) \in Nat /\ \A i \in 1 .. Len(q) : q[i] \in Entry
  BY LenProperties, ElementOfSeq
<1>2. /\ SubSeq(q, 1, n) \in Seq(Entry) /\ Len(SubSeq(q, 1, n)) = n
      /\ \A i \in 1 .. n : SubSeq(q, 1, n)[i] = q[i]
  BY <1>1, SubSeqProperties
<1>3. /\ SubSeq(q, n + 1, Len(q)) \in Seq(Entry) /\ Len(SubSeq(q, n + 1, Len(q))) = Len(q) - n
      /\ \A i \in 1 .. Len(q) - n : SubSeq(q, n + 1, Len(q))[i] = q[i + n]
  BY <1>1, SubSeqProperties
<1>4. SubSeq(q, 1, n) \o SubSeq(q, n + 1, Len(q)) = q
  <2>1. SubSeq(q, 1, n) \o SubSeq(q, n + 1, Len(q)) = SubSeq(q, 1, Len(q))
    <3>1. 1 \in 1 .. Len(q) + 1 /\ n \in 1 - 1 .. Len(q) /\ Len(q) \in n .. Len(q)
      BY <1>1
    <3> QED
      BY <3>1, ConcatAdjacentSubSeq
  <2> QED
    BY <2>1, SubSeqFull
<1>5. \A b : Held(q, b) = Held(SubSeq(q, 1, n), b) + Held(SubSeq(q, n + 1, Len(q)), b)
  BY <1>2, <1>3, <1>4, HeldConcat, ZenonT(30)
<1> QED
  BY <1>1, <1>2, <1>3, <1>5

LEMMA SpotsFinite ==
  ASSUME NEW q \in [Source -> Seq(Entry)], NEW X \in SUBSET Source, NEW b
  PROVE  IsFiniteSet(SpotsOf(q, X, b))
<1> DEFINE f == [x \in X |-> {x} \X Indices(q[x], b)]
           T == {{x} \X Indices(q[x], b) : x \in X}
<1>1. IsFiniteSet(X)
  BY SourceAssumption, FS_Subset
<1>2. f \in Surjection(X, T)
  BY DEF Surjection
<1>3. IsFiniteSet(T)
  BY ONLY <1>1, <1>2, FS_Surjection
<1>4. \A S \in T : IsFiniteSet(S)
  <2> SUFFICES ASSUME NEW x \in X
               PROVE  IsFiniteSet({x} \X Indices(q[x], b))
    OBVIOUS
  <2>1. IsFiniteSet({x}) /\ IsFiniteSet(Indices(q[x], b))
    BY FS_Singleton, HeldType
  <2> QED
    BY <2>1, FS_Product
<1> HIDE DEF T
<1> QED
  BY <1>3, <1>4, FS_UNION DEF T, SpotsOf

(* One queue is replaced.                                                   *)
LEMMA SpotsChange ==
  ASSUME NEW q \in [Source -> Seq(Entry)], NEW s \in Source, NEW r \in Seq(Entry), NEW b
  PROVE  /\ Cardinality(Spots(q, b)) \in Nat
         /\ Cardinality(Spots([q EXCEPT ![s] = r], b))
            = Cardinality(Spots(q, b)) - Held(q[s], b) + Held(r, b)
<1> DEFINE At(l) == {s} \X Indices(l, b)
           Rest == SpotsOf(q, Source \ {s}, b)
<1>1. ASSUME NEW l \in Seq(Entry)
      PROVE  /\ IsFiniteSet(At(l)) /\ Cardinality(At(l)) = Held(l, b) /\ Held(l, b) \in Nat
             /\ Rest \cap At(l) = {}
             /\ IsFiniteSet(Rest \cup At(l))
             /\ Cardinality(Rest \cup At(l)) = Cardinality(Rest) + Held(l, b)
  <2>1. IsFiniteSet({s}) /\ Cardinality({s}) = 1
    BY FS_Singleton
  <2>2. IsFiniteSet(Indices(l, b)) /\ Held(l, b) = Cardinality(Indices(l, b)) /\ Held(l, b) \in Nat
    BY HeldType
  <2>3. IsFiniteSet(At(l)) /\ Cardinality(At(l)) = Cardinality({s}) * Cardinality(Indices(l, b))
    BY <2>1, <2>2, FS_Product
  <2>4. Rest \cap At(l) = {}
    BY DEF SpotsOf
  <2>5. IsFiniteSet(Rest)
    BY SpotsFinite
  <2> DEFINE A == At(l)
  <2> HIDE DEF Rest, A
  <2>6. /\ IsFiniteSet(Rest \cup A)
        /\ Cardinality(Rest \cup A) = Cardinality(Rest) + Cardinality(A) - Cardinality(Rest \cap A)
    BY <2>3, <2>5, FS_Union DEF A
  <2>7. Cardinality(Rest) \in Nat /\ Cardinality(Rest \cap A) = 0
    BY <2>4, <2>5, FS_CardinalityType, FS_EmptySet DEF A
  <2>8. Cardinality(A) = Held(l, b)
    BY <2>1, <2>2, <2>3 DEF A
  <2> QED
    BY <2>2, <2>3, <2>4, <2>6, <2>7, <2>8 DEF A
<1>2. Spots(q, b) = Rest \cup At(q[s]) /\ Spots([q EXCEPT ![s] = r], b) = Rest \cup At(r)
  BY DEF Spots, SpotsOf
<1>3. q[s] \in Seq(Entry) /\ IsFiniteSet(Rest)
  BY SpotsFinite
<1> HIDE DEF Rest, At
<1>4. Cardinality(Rest) \in Nat
  BY <1>3, FS_CardinalityType
<1>5. Cardinality(Spots(q, b)) = Cardinality(Rest) + Held(q[s], b) /\ Held(q[s], b) \in Nat
  BY <1>1, <1>2, <1>3
<1>6. /\ Cardinality(Spots([q EXCEPT ![s] = r], b)) = Cardinality(Rest) + Held(r, b)
      /\ Held(r, b) \in Nat
  BY <1>1, <1>2
<1> QED
  BY <1>4, <1>5, <1>6
-----------------------------------------------------------------------------
(* Bytes of a buffer.                                                       *)

LEMMA DivExact ==
  ASSUME NEW k \in Nat \ {0}, NEW x \in Nat
  PROVE  (x * k) \div k = x
<1> DEFINE q == (x * k) \div k
           r == (x * k) % k
<1>1. q \in Int /\ r \in 0 .. k - 1 /\ x * k = k * q + r
  OBVIOUS
<1>2. k * (x - q) = r
  BY <1>1
<1> HIDE DEF q, r
<1>3. x - q < 1
  <2>1. CASE x - q >= 1
    <3>1. k * (x - q) >= k
      BY <1>1, <2>1
    <3> QED
      BY <1>1, <1>2, <3>1
  <2> QED
    BY <1>1, <2>1
<1>4. x - q > -1
  BY <1>1, <1>2
<1> QED
  BY <1>1, <1>3, <1>4 DEF q

LEMMA Formats ==
  /\ DOMAIN StoredAs = DOMAIN BytesFromUserFmt
  /\ \A f \in DOMAIN StoredAs : /\ BytesFromUserFmt[f] \in Nat \ {0}
                                /\ StoredAs[f] \in DOMAIN BytesFromFmt
  /\ \A f \in DOMAIN BytesFromFmt : /\ f \in DOMAIN StoredAs /\ StoredAs[f] = f /\ f # "IMA4"
                                    /\ BytesFromFmt[f] \in Nat \ {0}
  /\ BytesFromUserFmt["IMA4"] = 36 /\ BytesFromFmt[StoredAs["IMA4"]] = 2
BY DEF StoredAs, BytesFromUserFmt, BytesFromFmt

(* Units of an accepted update.                                             *)
LEMMA AcceptedUnits ==
  ASSUME NEW d, d.OriginalType # Unset, NEW a \in Nat \ {0}, d.OriginalAlign = a,
         NEW u \in Nat, d.OriginalSize = u * a,
         NEW i \in Nat, NEW n \in Nat, SubDataAccepted(d, i * a, n * a)
  PROVE  i + n <= u
<1>1. n * a <= u * a - i * a
  BY DEF SubDataAccepted
<1>2. (i + n) * a <= u * a
  BY <1>1
<1>3. CASE i + n >= u + 1
  <2>1. (i + n) * a >= (u + 1) * a
    BY <1>3
  <2> QED
    BY <1>2, <2>1
<1> QED
  BY <1>3

(* What a buffer holds once it is filled, for every format, number of       *)
(* channels and length.                                                     *)
LEMMA LoadOK ==
  ASSUME NEW d \in Loaded
  PROVE  DataOK(d)
<1>1. PICK l \in Load : d = LoadData(l.type, l.stored, l.channels, l.units, l.storesrc)
  BY DEF Loaded
<1> DEFINE type == l.type
           c == l.channels
           u == l.units
           orig == IF l.storesrc THEN l.type ELSE l.stored
           f == FramesIn(type)
           b == BytesFromFmt[l.stored]
           w == BytesFromUserFmt[orig]
           a == w * c
<1>2. /\ type \in DOMAIN StoredAs /\ l.stored \in DOMAIN BytesFromFmt
      /\ c \in Nat \ {0} /\ u \in Nat /\ l.storesrc \in BOOLEAN
      /\ l.storesrc => l.stored = StoredAs[type]
  BY LoadAssumption
<1>3. /\ orig \in DOMAIN StoredAs /\ l.stored = StoredAs[orig]
      /\ b \in Nat \ {0} /\ w \in Nat \ {0} /\ f \in Nat \ {0}
      /\ orig = "IMA4" => type = "IMA4" /\ f = 65 /\ w = 36
  BY <1>2, Formats DEF FramesIn
<1>4. /\ d.size = u * f * c * b /\ d.FmtType = l.stored /\ d.Channels = c /\ d.OriginalType = orig
      /\ d.OriginalSize = u * a /\ d.OriginalAlign = a /\ d.LoopEnd = u * f
      /\ d \in [size : {u * f * c * b}, FmtType : {l.stored}, Channels : {c}, OriginalType : {orig},
                OriginalSize : {u * a}, OriginalAlign : {a}, LoopStart : {0}, LoopEnd : {u * f}]
  BY <1>1 DEF LoadData, Align
<1>5. FrameSize(d) = c * b
  BY <1>4 DEF FrameSize
<1>6. Format(d) = <<orig, c>> /\ Stored(d) = <<c, StoredAs[orig]>>
  BY <1>3, <1>4 DEF Format, Stored
<1>7. Format(d) # None
  BY NoneAssumption
<1> HIDE DEF type, c, u, orig, f, b, w
<1>8. u * f \in Nat /\ u * f * c \in Nat /\ u * f * c * b \in Nat /\ a \in Nat \ {0} /\ c * b \in Nat
  BY <1>2, <1>3
<1>9. d.LoopEnd * FrameSize(d) <= d.size
  BY <1>2, <1>3, <1>4, <1>5, <1>8
<1>10. ASSUME d.OriginalType # Unset,
              NEW i \in 0 .. d.OriginalSize \div d.OriginalAlign,
              NEW n \in 0 .. d.OriginalSize \div d.OriginalAlign,
              SubDataAccepted(d, i * d.OriginalAlign, n * d.OriginalAlign)
       PROVE  SubDataEnd(d, i * d.OriginalAlign, n * d.OriginalAlign) <= d.size
  <2>1. i \in Nat /\ n \in Nat
    OBVIOUS
  <2>2. i + n <= u
    <3> HIDE DEF a
    <3> QED
      BY <1>2, <1>4, <1>8, <1>10, <2>1, AcceptedUnits
  <2>3. SubDataUnits(d, n * a) = n
    <3>1. (n * a) \div a = n
      BY <1>8, <2>1, DivExact
    <3> QED
      BY <1>3, <1>4, <3>1 DEF SubDataUnits, w
  <2>4. CASE orig = "IMA4"
    <3>1. b = 2
      BY <1>3, <2>4, Formats DEF b
    <3>2. (i * a) \div 36 = i * c
      <4>1. i * a = (i * c) * 36 /\ i * c \in Nat
        BY <1>2, <1>3, <2>1, <2>4
      <4> HIDE DEF a
      <4> QED
        BY <4>1, DivExact
    <3>3. SubDataFrom(d, i * a) = i * c * 65 * 2
      BY <1>4, <2>4, <3>1, <3>2 DEF SubDataFrom, b
    <3>4. SubDataEnd(d, i * a, n * a) = i * c * 65 * 2 + n * 65 * (c * 2)
      BY <1>4, <1>5, <2>3, <2>4, <3>1, <3>3 DEF SubDataEnd, FramesIn
    <3>5. i * c * 65 * 2 + n * 65 * (c * 2) = (i + n) * c * 130
      BY <1>2, <2>1
    <3>6. d.size = u * c * 130
      BY <1>2, <1>3, <1>4, <2>4, <3>1
    <3>7. (i + n) * c <= u * c
      BY <1>2, <2>1, <2>2
    <3> QED
      BY <1>2, <1>4, <2>1, <3>4, <3>5, <3>6, <3>7
  <2>5. CASE orig # "IMA4"
    <3>1. (i * a) \div w = i * c
      <4>1. i * a = (i * c) * w /\ i * c \in Nat
        BY <1>2, <1>3, <2>1
      <4> HIDE DEF a
      <4> QED
        BY <1>3, <4>1, DivExact
    <3>2. SubDataFrom(d, i * a) = i * c * b
      BY <1>4, <2>5, <3>1 DEF SubDataFrom, b, w
    <3>3. SubDataEnd(d, i * a, n * a) = i * c * b + n * 1 * (c * b)
      BY <1>4, <1>5, <2>3, <2>5, <3>2 DEF SubDataEnd, FramesIn
    <3>4. i * c * b + n * 1 * (c * b) = (i + n) * (c * b)
      BY <1>2, <1>3, <2>1
    <3>5. d.size = (u * f) * (c * b)
      BY <1>2, <1>3, <1>4
    <3>6. i + n <= u * f
      BY <1>2, <1>3, <2>1, <2>2
    <3>7. (i + n) * (c * b) <= (u * f) * (c * b)
      BY <1>8, <2>1, <3>6
    <3> QED
      BY <1>4, <3>3, <3>4, <3>5, <3>7
  <2> QED
    BY <2>4, <2>5
<1>11. u * a \in Nat
  BY <1>2, <1>8
<1>12. d \in Datas
  BY <1>2, <1>3, <1>4, <1>8, <1>11 DEF Datas
<1> QED
  BY <1>2, <1>3, <1>6, <1>7, <1>9, <1>10, <1>12 DEF DataOK, Keeps, Inside

LEMMA NewOK == DataOK(NewData)
<1>1. Format(NewData) # None
  BY NoneAssumption
<1> QED
  BY <1>1 DEF DataOK, Datas, Keeps, Inside, NewData

LEMMA LoopOK ==
  ASSUME NEW d, DataOK(d), NEW from \in Nat, NEW to \in Nat, CanSetLoop(d, from, to)
  PROVE  /\ DataOK(SetLoop(d, from, to))
         /\ Stored(SetLoop(d, from, to)) = Stored(d)
         /\ Format(SetLoop(d, from, to)) = Format(d)
<1> DEFINE e == SetLoop(d, from, to)
<1>1. /\ d \in Datas /\ e \in Datas
      /\ e.LoopEnd = to
      /\ \A f \in {"size", "FmtType", "Channels", "OriginalType", "OriginalSize", "OriginalAlign"} :
           e[f] = d[f]
  BY DEF DataOK, Datas, SetLoop
<1> HIDE DEF e
<1>2. Stored(e) = Stored(d) /\ Format(e) = Format(d) /\ FrameSize(e) = FrameSize(d)
  BY <1>1 DEF Stored, Format, FrameSize
<1>3. ASSUME e.FmtType # Unset
      PROVE  e.LoopEnd * FrameSize(e) <= e.size
  <2>1. d.Channels \in Nat \ {0} /\ BytesFromFmt[d.FmtType] \in Nat \ {0} /\ d.size \in Nat
    <3>1. d.FmtType \in DOMAIN BytesFromFmt /\ Stored(d) # Stored(NewData)
      BY <1>1, <1>3 DEF Datas, Stored, NewData
    <3> QED
      BY <1>1, <3>1, Formats DEF DataOK, Keeps, Format, Datas
  <2>2. FrameSize(d) \in Nat \ {0}
    BY <2>1 DEF FrameSize
  <2>3. to <= d.size \div FrameSize(d)
    BY DEF CanSetLoop
  <2>4. ASSUME NEW k \in Nat \ {0}, to <= d.size \div k
        PROVE  to * k <= d.size
    <3> DEFINE q == d.size \div k
    <3>1. q \in Int /\ k * q <= d.size
      BY <2>1
    <3> HIDE DEF q
    <3>2. to <= q
      BY <2>4 DEF q
    <3>3. to * k <= q * k
      BY <3>1, <3>2
    <3> QED
      BY <2>1, <3>1, <3>3
  <2> QED
    BY <1>1, <1>2, <2>2, <2>3, <2>4
<1>4. Inside(e)
  BY <1>1, <1>2, <1>3 DEF DataOK, Inside, SubDataAccepted, SubDataEnd, SubDataFrom, SubDataUnits
<1> QED
  BY <1>1, <1>2, <1>4 DEF DataOK, e
-----------------------------------------------------------------------------
(* Types.                                                                   *)

LEMMA Small ==
  /\ NoCall \in Calls
  /\ NewData \in Datas
  /\ <<>> \in Seq(Entry) /\ \A e \in Entry : <<e>> \in Seq(Entry)
  /\ \A b \in Entry : b # None <=> b \in Block
<1>1. <<>> \in Seq(Entry) /\ \A e \in Entry : <<e>> \in Seq(Entry)
  OBVIOUS
<1>2. NoCall \in Calls
  BY DEF NoCall, Calls, Entry
<1>3. NewData \in Datas
  BY DEF NewData, Datas
<1> QED
  BY <1>1, <1>2, <1>3, NoneAssumption DEF Entry

LEMMA NamesOK ==
  ASSUME NEW S, NEW names \in BoundedSeq(S, MaxQueue)
  PROVE  names \in Seq(S)
<1>1. PICK m \in 0 .. MaxQueue : names \in [1 .. m -> S]
  BY DEF BoundedSeq, SeqOf
<1> QED
  BY <1>1

LEMMA ReferIs ==
  ASSUME TypeOK, NEW old \in Seq(Entry), NEW new \in Seq(Entry), Refer(old, new)
  PROVE  /\ ref' \in [Block -> Int]
         /\ \A b \in Block : ref'[b] = ref[b] - Held(old, b) + Held(new, b)
<1>1. \A b \in Block : Held(old, b) \in Nat /\ Held(new, b) \in Nat
  BY HeldType
<1> QED
  BY <1>1 DEF TypeOK, Refer

LEMMA LookedOK ==
  ASSUME TypeOK, FunOK, PlaceInv, NEW t \in Thread, pc[t] \in Queueing
  PROVE  /\ Asked(t) \in given \cup {None} /\ Looked(t) \in Entry
         /\ Looked(t) # None => /\ Asked(t) \in given /\ Asked(t) \in Mapped
                                /\ Looked(t) = BufferMap[Asked(t)] /\ Looked(t) \in Block
<1>1. /\ call[t].names \in Seq(given \cup {None}) /\ call[t].n \in Nat
      /\ call[t].n + 1 \in 1 .. Len(call[t].names)
  BY LenProperties DEF PlaceInv, PlaceOf, FunOK, Calls
<1>2. Asked(t) \in given \cup {None}
  BY <1>1, ElementOfSeq DEF Asked
<1> QED
  BY <1>2, Small, NoneAssumption DEF TypeOK, Looked, Mapped, Entry

(* The loop that looks for the format of a queue finds an entry.            *)
LEMMA FormatOfIs ==
  ASSUME NEW q \in Seq(Entry)
  PROVE  \/ q \in Seq({None}) /\ FormatOf(q) = None
         \/ \E i \in 1 .. Len(q) : q[i] # None /\ FormatOf(q) = Format(data[q[i]])
<1> SUFFICES ASSUME q \notin Seq({None})
             PROVE  First(q) \in 1 .. Len(q) /\ q[First(q)] # None
  BY DEF FormatOf
<1> DEFINE I == {i \in 1 .. Len(q) : q[i] # None}
           T == {1 .. i : i \in I}
           R == StrictSubsetOrdering(1 .. Len(q))
<1>1. Len(q) \in Nat /\ q \in [1 .. Len(q) -> Entry]
  BY LenProperties
<1>2. I # {}
  <2> SUFFICES ASSUME I = {} PROVE q \in [1 .. Len(q) -> {None}]
    BY <1>1
  <2> QED
    BY <1>1
<1>3. IsWellFoundedOn(R, FiniteSubsetsOf(1 .. Len(q)))
  BY FS_StrictSubsetOrderingWellFounded
<1>4. T \subseteq FiniteSubsetsOf(1 .. Len(q)) /\ T # {}
  <2>1. ASSUME NEW i \in I
        PROVE  1 .. i \in SUBSET (1 .. Len(q)) /\ IsFiniteSet(1 .. i)
    <3>1. i \in Int
      BY <1>1
    <3> QED
      BY <1>1, <3>1, FS_Interval
  <2> QED
    BY <1>2, <2>1 DEF FiniteSubsetsOf
<1> HIDE DEF R, T
<1>5. PICK x \in T : \A y \in T : <<y, x>> \notin R
  BY <1>3, <1>4, WFMin
<1>6. PICK i \in I : x = 1 .. i
  BY DEF T
<1>7. \A j \in 1 .. i - 1 : q[j] = None
  <2> SUFFICES ASSUME NEW j \in 1 .. i - 1, q[j] # None
               PROVE  FALSE
    OBVIOUS
  <2>1. j \in I /\ 1 .. j \in T
    BY <1>1 DEF T
  <2>2. 1 .. j \subseteq 1 .. i /\ 1 .. j # 1 .. i /\ 1 .. i \subseteq 1 .. Len(q)
    BY <1>1
  <2> QED
    BY <1>5, <1>6, <2>1, <2>2 DEF R, StrictSubsetOrdering
<1> QED
  BY <1>7 DEF First
-----------------------------------------------------------------------------
(* What the steps of a call do to its place and its locals.                 *)

Places == {"idle", "gen", "insert", "check", "remove", "free", "verify", "link", "attach"}

Turn(t, from, to) ==
  /\ pc[t] = from /\ pc'[t] = to /\ pc' \in [Thread -> Places] /\ call' \in [Thread -> Calls]
  /\ \A u \in Thread \ {t} : pc'[u] = pc[u] /\ call'[u] = call[u]

LEMMA TurnIs ==
  ASSUME TypeOK, FunOK, NEW t \in Thread, NEW from, NEW to \in Places, NEW c \in Calls,
         Go(t, from, to), Locals(t, c)
  PROVE  Turn(t, from, to) /\ call'[t] = c
BY DEF Turn, Go, Locals, TypeOK, FunOK, Places

LEMMA ReturnIs ==
  ASSUME TypeOK, FunOK, NEW t \in Thread, NEW from, Return(t, from)
  PROVE  Turn(t, from, "idle") /\ call'[t] = NoCall
BY TurnIs, Small DEF Return, Places

LEMMA GenIs ==
  ASSUME TypeOK, FunOK, NEW t \in Thread, NEW n \in Nat, Gen(t, n)
  PROVE  /\ Turn(t, "idle", "gen")
         /\ call'[t].done = {} /\ call'[t].seen = <<>> /\ call'[t].entries = <<>>
<1> DEFINE c == [NoCall EXCEPT !.n = n]
<1>1. c \in Calls /\ c.done = {} /\ c.seen = <<>> /\ c.entries = <<>>
  BY Small DEF Calls, NoCall
<1> HIDE DEF c
<1>2. Go(t, "idle", "gen") /\ Locals(t, c)
  BY DEF Gen, c
<1> QED
  BY <1>1, <1>2, TurnIs DEF Places

LEMMA GenNewIs ==
  ASSUME TypeOK, FunOK, NEW t \in Thread, NEW m \in Name, NEW b \in Block, GenNew(t, m, b)
  PROVE  /\ Turn(t, "gen", "insert") /\ call'[t].name = m /\ call'[t].block = b
         /\ call'[t].done = call[t].done /\ call'[t].seen = call[t].seen
         /\ call'[t].entries = call[t].entries
<1> DEFINE c == [call[t] EXCEPT !.name = m, !.block = b]
<1>1. /\ c \in Calls /\ c.name = m /\ c.block = b
      /\ c.done = call[t].done /\ c.seen = call[t].seen /\ c.entries = call[t].entries
  <2>1. call[t] \in Calls /\ b \in Entry
    BY DEF FunOK, Entry
  <2> QED
    BY <2>1 DEF Calls
<1> HIDE DEF c
<1>2. Go(t, "gen", "insert") /\ Locals(t, c)
  BY DEF GenNew, c
<1> QED
  BY <1>1, <1>2, TurnIs DEF Places

LEMMA GenInsertIs ==
  ASSUME TypeOK, FunOK, NEW t \in Thread, call[t].name \in Name, GenInsert(t)
  PROVE  \/ /\ Turn(t, "insert", "idle") /\ call'[t] = NoCall
            /\ given' = given \cup call[t].done \cup {call[t].name}
         \/ /\ Turn(t, "insert", "gen") /\ given' = given
            /\ call'[t].done = call[t].done \cup {call[t].name}
            /\ call'[t].seen = call[t].seen /\ call'[t].entries = call[t].entries
<1> DEFINE done == call[t].done \cup {call[t].name}
           c == [call[t] EXCEPT !.done = done, !.name = None, !.block = None]
<1>1. /\ c \in Calls /\ c.done = done /\ c.seen = call[t].seen /\ c.entries = call[t].entries
  <2>1. call[t] \in Calls /\ done \in SUBSET Name /\ None \in Entry
    BY DEF FunOK, Calls, Entry
  <2> HIDE DEF done
  <2> QED
    BY <2>1 DEF Calls
<1> HIDE DEF c
<1>2. \/ Return(t, "insert") /\ given' = given \cup done
      \/ Go(t, "insert", "gen") /\ Locals(t, c) /\ given' = given
  BY DEF GenInsert, c
<1> QED
  BY <1>1, <1>2, TurnIs, ReturnIs DEF Places

LEMMA UndoIs ==
  ASSUME TypeOK, FunOK, NEW t \in Thread, NEW from, Undo(t, from)
  PROVE  \/ Turn(t, from, "idle") /\ call'[t] = NoCall /\ call[t].done = {}
         \/ /\ Turn(t, from, "check") /\ call'[t].todo = call[t].done /\ call'[t].done = {}
            /\ call'[t].seen = <<>> /\ call'[t].entries = <<>>
<1> DEFINE c == [NoCall EXCEPT !.todo = call[t].done]
<1>1. /\ c \in Calls /\ c.todo = call[t].done /\ c.done = {}
      /\ c.seen = <<>> /\ c.entries = <<>>
  BY Small DEF FunOK, Calls, NoCall
<1> HIDE DEF c
<1>2. \/ Return(t, from) /\ call[t].done = {}
      \/ Go(t, from, "check") /\ Locals(t, c)
  BY DEF Undo, c
<1> QED
  BY <1>1, <1>2, TurnIs, ReturnIs DEF Places

LEMMA DeleteIs ==
  ASSUME TypeOK, FunOK, NEW t \in Thread, NEW S \in SUBSET Name, Delete(t, S)
  PROVE  /\ Turn(t, "idle", "check") /\ call'[t].todo = S /\ call'[t].done = {}
         /\ call'[t].seen = <<>> /\ call'[t].entries = <<>>
<1> DEFINE c == [NoCall EXCEPT !.todo = S]
<1>1. c \in Calls /\ c.todo = S /\ c.done = {} /\ c.seen = <<>> /\ c.entries = <<>>
  BY Small DEF Calls, NoCall
<1> HIDE DEF c
<1>2. Go(t, "idle", "check") /\ Locals(t, c)
  BY DEF Delete, c
<1> QED
  BY <1>1, <1>2, TurnIs DEF Places

LEMMA CheckIs ==
  ASSUME TypeOK, FunOK, NEW t \in Thread, NEW m \in Name, Check(t, m)
  PROVE  /\ \/ /\ Turn(t, "check", "remove") /\ call[t].todo = call[t].done \cup {m}
               /\ call'[t].done = {}
            \/ Turn(t, "check", "check") /\ call'[t].done = call[t].done \cup {m}
         /\ call'[t].todo = call[t].todo
         /\ call'[t].seen = call[t].seen /\ call'[t].entries = call[t].entries
<1> DEFINE c(D) == [call[t] EXCEPT !.done = D]
<1>1. ASSUME NEW D \in SUBSET Name
      PROVE  /\ c(D) \in Calls /\ c(D).todo = call[t].todo /\ c(D).done = D
             /\ c(D).seen = call[t].seen /\ c(D).entries = call[t].entries
  BY DEF FunOK, Calls
<1> HIDE DEF c
<1>2. \/ /\ Go(t, "check", "remove") /\ Locals(t, c({}))
         /\ call[t].todo = call[t].done \cup {m}
      \/ Go(t, "check", "check") /\ Locals(t, c(call[t].done \cup {m}))
  BY DEF Check, c
<1>3. call[t].done \cup {m} \in SUBSET Name
  BY DEF FunOK, Calls
<1> QED
  BY <1>1, <1>2, <1>3, TurnIs DEF Places

LEMMA RemoveIs ==
  ASSUME TypeOK, FunOK, NEW t \in Thread, NEW m \in Name, RemoveBuffer(t, m)
  PROVE  /\ m \in call[t].todo
         /\ \/ /\ BufferMap[m] # None /\ Turn(t, "remove", "free")
               /\ call'[t].name = m /\ call'[t].block = BufferMap[m]
               /\ call'[t].todo = call[t].todo \ {m}
               /\ call'[t].seen = call[t].seen /\ call'[t].entries = call[t].entries
            \/ /\ BufferMap[m] = None /\ call[t].todo = {m}
               /\ Turn(t, "remove", "idle") /\ call'[t] = NoCall
            \/ /\ BufferMap[m] = None /\ Turn(t, "remove", "remove")
               /\ call'[t].todo = call[t].todo \ {m}
               /\ call'[t].seen = call[t].seen /\ call'[t].entries = call[t].entries
<1> DEFINE c == [call[t] EXCEPT !.name = m, !.block = BufferMap[m], !.todo = @ \ {m}]
           e == [call[t] EXCEPT !.todo = @ \ {m}]
<1>1. /\ c \in Calls /\ c.todo = call[t].todo \ {m} /\ c.name = m /\ c.block = BufferMap[m]
      /\ c.seen = call[t].seen /\ c.entries = call[t].entries
  <2>1. call[t] \in Calls /\ BufferMap[m] \in Entry /\ call[t].todo \ {m} \in SUBSET Name
    BY DEF TypeOK, FunOK, Calls
  <2> QED
    BY <2>1 DEF Calls
<1>2. /\ e \in Calls /\ e.todo = call[t].todo \ {m}
      /\ e.seen = call[t].seen /\ e.entries = call[t].entries
  <2>1. call[t] \in Calls /\ call[t].todo \ {m} \in SUBSET Name
    BY DEF FunOK, Calls
  <2> QED
    BY <2>1 DEF Calls
<1> HIDE DEF c, e
<1>3. \/ BufferMap[m] # None /\ Go(t, "remove", "free") /\ Locals(t, c)
      \/ BufferMap[m] = None /\ call[t].todo = {m} /\ Return(t, "remove")
      \/ BufferMap[m] = None /\ Go(t, "remove", "remove") /\ Locals(t, e)
  BY DEF RemoveBuffer, c, e
<1> QED
  BY <1>1, <1>2, <1>3, TurnIs, ReturnIs DEF Places, RemoveBuffer

LEMMA FreeIs ==
  ASSUME TypeOK, FunOK, NEW t \in Thread, Free(t)
  PROVE  \/ call[t].todo = {} /\ Turn(t, "free", "idle") /\ call'[t] = NoCall
         \/ /\ Turn(t, "free", "remove") /\ call'[t].todo = call[t].todo
            /\ call'[t].seen = call[t].seen /\ call'[t].entries = call[t].entries
<1> DEFINE c == [call[t] EXCEPT !.name = None, !.block = None]
<1>1. /\ c \in Calls /\ c.todo = call[t].todo
      /\ c.seen = call[t].seen /\ c.entries = call[t].entries
  <2>1. call[t] \in Calls /\ None \in Entry
    BY DEF FunOK, Entry
  <2> QED
    BY <2>1 DEF Calls
<1> HIDE DEF c
<1>2. \/ call[t].todo = {} /\ Return(t, "free")
      \/ Go(t, "free", "remove") /\ Locals(t, c)
  BY DEF Free, c
<1> QED
  BY <1>1, <1>2, TurnIs, ReturnIs DEF Places
LEMMA QueueIs ==
  ASSUME TypeOK, FunOK, DataInv, NEW t \in Thread, NEW s \in Source,
         NEW names \in Seq(Name \cup {None}), Queue(t, s, names)
  PROVE  /\ Turn(t, "idle", "verify") /\ holder' = t /\ names # <<>>
         /\ call'[t].source = s /\ call'[t].names = names /\ call'[t].n = 0
         /\ call'[t].fmt = FormatOf(queue[s])
         /\ call'[t].seen = <<>> /\ call'[t].entries = <<>>
<1> DEFINE c == [NoCall EXCEPT !.source = s, !.names = names, !.fmt = FormatOf(queue[s])]
<1>1. FormatOf(queue[s]) \in {None} \cup (DOMAIN StoredAs \cup {Unset}) \X Nat
  <2>1. queue[s] \in Seq(Entry)
    BY DEF FunOK
  <2>2. \/ FormatOf(queue[s]) = None
        \/ \E b \in Block : FormatOf(queue[s]) = Format(data[b])
    BY <2>1, FormatOfIs, ElementOfSeq DEF Entry
  <2> QED
    BY <2>2 DEF DataInv, DataOK, Datas, Format
<1>2. /\ c \in Calls /\ c.source = s /\ c.names = names /\ c.n = 0 /\ c.fmt = FormatOf(queue[s])
      /\ c.seen = <<>> /\ c.entries = <<>>
  <2> DEFINE f == FormatOf(queue[s])
  <2> HIDE DEF f
  <2>1. f \in {None} \cup (DOMAIN StoredAs \cup {Unset}) \X Nat
    BY <1>1 DEF f
  <2> QED
    BY <2>1, Small DEF Calls, NoCall, f
<1> HIDE DEF c
<1>3. Go(t, "idle", "verify") /\ Locals(t, c) /\ holder' = t /\ names # <<>>
  BY DEF Queue, c
<1> QED
  BY <1>2, <1>3, TurnIs DEF Places

LEMMA VerifyIs ==
  ASSUME TypeOK, FunOK, PlaceInv, DataInv, NEW t \in Thread, Verify(t)
  PROVE  /\ \/ /\ Turn(t, "verify", "link") /\ call'[t].n = 0
               /\ call[t].n + 1 = Len(call[t].names)
            \/ /\ Turn(t, "verify", "verify") /\ call'[t].n = call[t].n + 1
               /\ call[t].n + 1 < Len(call[t].names)
               /\ call'[t].fmt = IF Looked(t) # None /\ call[t].fmt = None
                                 THEN Format(data[Looked(t)]) ELSE call[t].fmt
         /\ call'[t].source = call[t].source /\ call'[t].names = call[t].names
         /\ call'[t].seen = Append(call[t].seen, Looked(t))
         /\ call'[t].entries = call[t].entries
<1> DEFINE x == Looked(t)
           f == IF x # None /\ call[t].fmt = None THEN Format(data[x]) ELSE call[t].fmt
           c == [call[t] EXCEPT !.n = 0, !.seen = Append(@, x)]
           e == [call[t] EXCEPT !.n = @ + 1, !.seen = Append(@, x), !.fmt = f]
<1>1. pc[t] = "verify" /\ call[t] \in Calls /\ x \in Entry /\ (x # None => x \in Block)
  BY LookedOK DEF Verify, Queueing, FunOK
<1>2. f \in {None} \cup (DOMAIN StoredAs \cup {Unset}) \X Nat
  BY <1>1 DEF DataInv, DataOK, Datas, Format, Calls
<1>3. Append(call[t].seen, x) \in Seq(Entry) /\ call[t].n + 1 \in Nat
  BY <1>1 DEF Calls
<1>4. \/ Go(t, "verify", "link") /\ Locals(t, c) /\ call[t].n + 1 = Len(call[t].names)
      \/ Go(t, "verify", "verify") /\ Locals(t, e) /\ call[t].n + 1 # Len(call[t].names)
  BY DEF Verify
<1> HIDE DEF x, f
<1>5. /\ c \in Calls /\ c.n = 0 /\ c.seen = Append(call[t].seen, x)
      /\ c.source = call[t].source /\ c.names = call[t].names /\ c.entries = call[t].entries
  BY <1>1, <1>3 DEF Calls
<1>6. /\ e \in Calls /\ e.n = call[t].n + 1 /\ e.seen = Append(call[t].seen, x) /\ e.fmt = f
      /\ e.source = call[t].source /\ e.names = call[t].names /\ e.entries = call[t].entries
  BY <1>1, <1>2, <1>3 DEF Calls
<1> HIDE DEF c, e
<1>7. call[t].n \in Nat /\ call[t].n < Len(call[t].names) /\ Len(call[t].names) \in Nat
  BY <1>1, LenProperties DEF PlaceInv, PlaceOf, Queueing, Calls
<1>8. call[t].n + 1 # Len(call[t].names) => call[t].n + 1 < Len(call[t].names)
  BY <1>7
<1> QED
  BY <1>4, <1>5, <1>6, <1>8, TurnIs DEF Places, x, f

LEMMA LinkIs ==
  ASSUME TypeOK, FunOK, PlaceInv, NEW t \in Thread, Link(t)
  PROVE  /\ pc[t] = "link" /\ holder = t /\ Looked(t) \in Entry
         /\ \/ /\ Turn(t, "link", "idle") /\ call'[t] = NoCall /\ holder' = None
               /\ call[t].n + 1 = Len(call[t].names)
               /\ queue' = [queue EXCEPT ![call[t].source]
                             = @ \o Append(call[t].entries, Looked(t))]
            \/ /\ Turn(t, "link", "link") /\ holder' = holder /\ queue' = queue
               /\ call'[t].n = call[t].n + 1 /\ call[t].n + 1 < Len(call[t].names)
               /\ call'[t].source = call[t].source /\ call'[t].names = call[t].names
               /\ call'[t].seen = call[t].seen
               /\ call'[t].entries = Append(call[t].entries, Looked(t))
<1> DEFINE x == Looked(t)
           r == Append(call[t].entries, x)
           c == [call[t] EXCEPT !.entries = r, !.n = @ + 1]
<1>1. pc[t] = "link" /\ holder = t /\ call[t] \in Calls /\ x \in Entry
  BY LookedOK DEF Link, Queueing, Locking, FunOK, PlaceInv, PlaceOf
<1>2. /\ r \in Seq(Entry) /\ Len(r) = call[t].n + 1 /\ call[t].n + 1 \in Nat
      /\ call[t].n < Len(call[t].names) /\ Len(call[t].names) \in Nat /\ call[t].n \in Nat
  <2> HIDE DEF x
  <2> QED
    BY <1>1, LenProperties DEF Calls, PlaceInv, PlaceOf, Queueing
<1>3. \/ /\ Return(t, "link") /\ holder' = None /\ Len(r) = Len(call[t].names)
         /\ queue' = [queue EXCEPT ![call[t].source] = @ \o r]
      \/ /\ Go(t, "link", "link") /\ Locals(t, c) /\ holder' = holder /\ queue' = queue
         /\ Len(r) # Len(call[t].names)
  BY DEF Link
<1> HIDE DEF x, r
<1>4. /\ c \in Calls /\ c.n = call[t].n + 1 /\ c.entries = r /\ c.seen = call[t].seen
      /\ c.source = call[t].source /\ c.names = call[t].names
  BY <1>1, <1>2 DEF Calls
<1> HIDE DEF c
<1>5. Len(r) # Len(call[t].names) => call[t].n + 1 < Len(call[t].names)
  BY <1>2
<1> QED
  BY <1>1, <1>2, <1>3, <1>4, <1>5, TurnIs, ReturnIs DEF Places, x, r

LEMMA AttachIs ==
  ASSUME TypeOK, FunOK, NEW t \in Thread, NEW s \in Source, NEW m \in Name, Attach(t, s, m)
  PROVE  /\ Turn(t, "idle", "attach") /\ holder' = t /\ m \in Mapped
         /\ call'[t].source = s /\ call'[t].name = m /\ call'[t].block = BufferMap[m]
         /\ call'[t].seen = <<>> /\ call'[t].entries = <<>> /\ call'[t].block \in Block
<1> DEFINE c == [NoCall EXCEPT !.source = s, !.name = m, !.block = BufferMap[m]]
<1>1. BufferMap[m] \in Entry /\ BufferMap[m] # None
  BY DEF TypeOK, Attach
<1>2. /\ c \in Calls /\ c.source = s /\ c.name = m /\ c.block = BufferMap[m]
      /\ c.seen = <<>> /\ c.entries = <<>>
  BY <1>1, Small DEF Calls, NoCall
<1> HIDE DEF c
<1>3. Go(t, "idle", "attach") /\ Locals(t, c) /\ holder' = t
  BY DEF Attach, c
<1> QED
  BY <1>1, <1>2, <1>3, TurnIs, Small DEF Places, Mapped
-----------------------------------------------------------------------------
LEMMA TypeStep ==
  ASSUME IInv, [Next]_vars
  PROVE  TypeOK' /\ FunOK'
<1> USE DEF Turn, Places, bufferVars, sourceVars
<1>0. TypeOK /\ FunOK /\ PlaceInv /\ MapInv /\ DataInv
  BY DEF IInv
<1>1. ASSUME NEW t \in Thread, NEW n \in 1 .. Cardinality(Name) + 1, Gen(t, n)
      PROVE  TypeOK' /\ FunOK'
  <2>1. n \in Nat
    OBVIOUS
  <2> QED
    BY <1>0, <1>1, <2>1, GenIs DEF TypeOK, FunOK, Gen
<1>2. ASSUME NEW t \in Thread, NEW m \in Name, NEW b \in Block, GenNew(t, m, b)
      PROVE  TypeOK' /\ FunOK'
  BY <1>0, <1>2, GenNewIs DEF TypeOK, FunOK, GenNew
<1>3. ASSUME NEW t \in Thread, GenInsert(t)
      PROVE  TypeOK' /\ FunOK'
  <2>1. call[t].name \in Name /\ call[t].block \in Entry /\ call[t].done \subseteq Name
    BY <1>0, <1>3 DEF PlaceInv, PlaceOf, GenInsert, Naming, FunOK, Calls, Entry
  <2>2. BufferMap' \in [Name -> Entry]
    BY <1>0, <1>3, <2>1 DEF TypeOK, GenInsert
  <2> QED
    BY <1>0, <1>3, <2>1, <2>2, GenInsertIs DEF TypeOK, FunOK, GenInsert
<1>4. ASSUME NEW t \in Thread, GenNoMemory(t)
      PROVE  TypeOK' /\ FunOK'
  BY <1>0, <1>4, UndoIs DEF TypeOK, FunOK, GenNoMemory
<1>5. ASSUME NEW t \in Thread, GenRefused(t)
      PROVE  TypeOK' /\ FunOK'
  BY <1>0, <1>5, UndoIs DEF TypeOK, FunOK, GenRefused, GiveBack
<1>6. ASSUME NEW t \in Thread, NEW S \in SUBSET Name, Delete(t, S)
      PROVE  TypeOK' /\ FunOK'
  BY <1>0, <1>6, DeleteIs DEF TypeOK, FunOK, Delete
<1>7. ASSUME NEW t \in Thread, NEW m \in Name, Check(t, m)
      PROVE  TypeOK' /\ FunOK'
  BY <1>0, <1>7, CheckIs DEF TypeOK, FunOK, Check
<1>8. ASSUME NEW t \in Thread, NEW m \in Name, CheckFails(t, m)
      PROVE  TypeOK' /\ FunOK'
  <2>1. lost' \subseteq Name
    BY <1>0, <1>8 DEF CheckFails, TypeOK, FunOK, Calls
  <2> QED
    BY <1>0, <1>8, <2>1, ReturnIs DEF TypeOK, FunOK, CheckFails
<1>9. ASSUME NEW t \in Thread, NEW m \in Name, RemoveBuffer(t, m)
      PROVE  TypeOK' /\ FunOK'
  BY <1>0, <1>9, RemoveIs DEF TypeOK, FunOK, RemoveBuffer, Entry
<1>10. ASSUME NEW t \in Thread, Free(t)
       PROVE  TypeOK' /\ FunOK'
  <2>1. call[t].block \in Block
    BY <1>0, <1>10 DEF Free, PlaceInv, PlaceOf, Naming
  <2>2. /\ data' = [data EXCEPT ![call[t].block] = NewData]
        /\ ref' = [ref EXCEPT ![call[t].block] = 0]
        /\ taken' \subseteq taken /\ allocated' \subseteq allocated
        /\ UNCHANGED <<BufferMap, fresh, sourceVars, given, lost, holder, raced>>
    BY <1>10 DEF Free, GiveBack
  <2>3. data' \in [Block -> Datas] /\ ref' \in [Block -> Int]
    BY <1>0, <2>1, <2>2, Small DEF FunOK, TypeOK
  <2>4. Turn(t, "free", "idle") \/ Turn(t, "free", "remove")
    BY <1>0, <1>10, FreeIs
  <2> QED
    BY <1>0, <2>2, <2>3, <2>4 DEF TypeOK, FunOK
<1>11. ASSUME NEW t \in Thread, NEW s \in Source, NEW names \in BoundedSeq(given \cup {None}, MaxQueue),
              Queue(t, s, names)
       PROVE  TypeOK' /\ FunOK'
  <2>1. names \in Seq(given \cup {None}) /\ given \subseteq Name
    BY <1>0, NamesOK DEF TypeOK
  <2>2. names \in Seq(Name \cup {None})
    BY <2>1
  <2> QED
    BY <1>0, <1>11, <2>2, QueueIs DEF TypeOK, FunOK, Queue
<1>12. ASSUME NEW t \in Thread, Verify(t)
       PROVE  TypeOK' /\ FunOK'
  <2>1. call[t].source \in Source
    BY <1>0, <1>12 DEF Verify, PlaceInv, PlaceOf, Queueing
  <2>2. lSourceType' \in [Source -> {"UNDETERMINED", "STATIC", "STREAMING"}]
    BY <1>0, <1>12, <2>1 DEF Verify, FunOK
  <2>3. Looked(t) # None => Looked(t) \in Block
    BY <1>0, <1>12, LookedOK DEF Verify, Queueing
  <2>4. mixfmt' \in [Source -> Mixes]
    <3>1. Looked(t) # None => Stored(data[Looked(t)]) \in Mixes
      BY <1>0, <2>3 DEF FunOK, Datas, Stored, Mixes
    <3> QED
      BY <1>0, <1>12, <2>1, <3>1 DEF Verify, FunOK
  <2> QED
    BY <1>0, <1>12, <2>2, <2>4, VerifyIs DEF TypeOK, FunOK, Verify
<1>13. ASSUME NEW t \in Thread, VerifyFails(t)
       PROVE  TypeOK' /\ FunOK'
  BY <1>0, <1>13, ReturnIs DEF TypeOK, FunOK, VerifyFails
<1>14. ASSUME NEW t \in Thread, Link(t)
       PROVE  TypeOK' /\ FunOK'
  <2>1. /\ pc[t] = "link" /\ call[t].source \in Source /\ call[t].entries \in Seq(Entry)
        /\ Looked(t) \in Entry
    BY <1>0, <1>14, LinkIs DEF PlaceInv, PlaceOf, Queueing, FunOK, Calls
  <2>2. ref' \in [Block -> Int]
    BY <1>0, <1>14, <2>1, ReferIs, Small DEF Link
  <2>3. Append(call[t].entries, Looked(t)) \in Seq(Entry)
    BY <2>1
  <2>4. \A q \in Seq(Entry) : /\ q \o Append(call[t].entries, Looked(t)) \in Seq(Entry)
                              /\ \A n \in 0 .. Len(q) :
                                   n \in 0 .. Len(q \o Append(call[t].entries, Looked(t)))
    <3> DEFINE r == Append(call[t].entries, Looked(t))
    <3> HIDE DEF r
    <3> SUFFICES ASSUME NEW q \in Seq(Entry) PROVE q \o r \in Seq(Entry)
                                                   /\ \A n \in 0 .. Len(q) : n \in 0 .. Len(q \o r)
      BY DEF r
    <3>1. q \o r \in Seq(Entry) /\ Len(q \o r) = Len(q) + Len(r) /\ Len(r) \in Nat /\ Len(q) \in Nat
      BY <2>3, ConcatProperties, LenProperties DEF r
    <3> QED
      BY <3>1
  <2>5. \A s \in Source : queue[s] \in Seq(Entry) /\ BuffersPlayed[s] \in 0 .. Len(queue[s])
    BY <1>0 DEF TypeOK
  <2> DEFINE r == Append(call[t].entries, Looked(t))
  <2> HIDE DEF r
  <2>6. /\ queue' \in [Source -> Seq(Entry)]
        /\ \A s \in Source : queue'[s] \in Seq(Entry) /\ BuffersPlayed[s] \in 0 .. Len(queue'[s])
    <3>1. \/ queue' = queue
          \/ queue' = [queue EXCEPT ![call[t].source] = queue[call[t].source] \o r]
      BY <1>0, <1>14, LinkIs DEF r
    <3>2. \A q \in Seq(Entry) : /\ q \o r \in Seq(Entry)
                                /\ \A n \in 0 .. Len(q) : n \in 0 .. Len(q \o r)
      BY <2>4 DEF r
    <3>3. CASE queue' = queue
      BY <1>0, <2>5, <3>3 DEF FunOK
    <3>4. ASSUME NEW x \in Source, queue' = [queue EXCEPT ![x] = queue[x] \o r]
          PROVE  /\ queue' \in [Source -> Seq(Entry)]
                 /\ \A s \in Source : /\ queue'[s] \in Seq(Entry)
                                      /\ BuffersPlayed[s] \in 0 .. Len(queue'[s])
      <4>1. queue[x] \in Seq(Entry) /\ queue[x] \o r \in Seq(Entry)
            /\ BuffersPlayed[x] \in 0 .. Len(queue[x] \o r)
        BY <2>5, <3>2
      <4> DEFINE q == queue[x] \o r
      <4> HIDE DEF q
      <4>2. queue' = [queue EXCEPT ![x] = q] /\ q \in Seq(Entry)
            /\ BuffersPlayed[x] \in 0 .. Len(q)
        BY <3>4, <4>1 DEF q
      <4> QED
        BY <1>0, <2>5, <4>2 DEF FunOK
    <3> QED
      BY <2>1, <3>1, <3>3, <3>4
  <2>7. raced' \in BOOLEAN
    BY <1>0, <1>14 DEF Link, TypeOK
  <2>8. /\ pc' \in [Thread -> Places] /\ call' \in [Thread -> Calls]
        /\ holder' \in Thread \cup {None}
    BY <1>0, <1>14, LinkIs DEF TypeOK
  <2> QED
    BY <1>0, <1>14, <2>2, <2>6, <2>7, <2>8 DEF TypeOK, FunOK, Link
<1>15. ASSUME NEW t \in Thread, NEW s \in Source, NEW m \in given, Attach(t, s, m)
       PROVE  TypeOK' /\ FunOK'
  <2>1. m \in Name
    BY <1>0 DEF TypeOK
  <2> QED
    BY <1>0, <1>15, <2>1, AttachIs DEF TypeOK, FunOK, Attach
<1>16. ASSUME NEW t \in Thread, AttachStore(t)
       PROVE  TypeOK' /\ FunOK'
  <2>1. /\ pc[t] = "attach" /\ call[t].source \in Source /\ call[t].block \in Entry
        /\ queue[call[t].source] \in Seq(Entry) /\ <<call[t].block>> \in Seq(Entry)
    BY <1>0, <1>16 DEF AttachStore, Return, Go, PlaceInv, PlaceOf, Entry, FunOK
  <2>2. ref' \in [Block -> Int]
    BY <1>0, <1>16, <2>1, ReferIs DEF AttachStore
  <2>3. Turn(t, "attach", "idle")
    BY <1>0, <1>16, ReturnIs DEF AttachStore
  <2>4. raced' \in BOOLEAN
    BY <1>0, <1>16 DEF AttachStore, TypeOK
  <2>5. Stored(data[call[t].block]) \in Mixes
    BY <1>0, <1>16, <2>1 DEF PlaceInv, PlaceOf, FunOK, Datas, Stored, Mixes
  <2>6. /\ queue' = [queue EXCEPT ![call[t].source] = <<call[t].block>>]
        /\ mixfmt' = [mixfmt EXCEPT ![call[t].source] = Stored(data[call[t].block])]
        /\ lSourceType' = [lSourceType EXCEPT ![call[t].source] = "STATIC"]
        /\ BuffersPlayed' = [BuffersPlayed EXCEPT ![call[t].source] = 0]
        /\ UNCHANGED <<bufferVars, data, playing, given, lost>> /\ holder' = None
    BY <1>16 DEF AttachStore
  <2>7. /\ queue' \in [Source -> Seq(Entry)] /\ mixfmt' \in [Source -> Mixes]
        /\ lSourceType' \in [Source -> {"UNDETERMINED", "STATIC", "STREAMING"}]
        /\ BuffersPlayed' \in [Source -> Nat]
    BY <1>0, <2>1, <2>5, <2>6 DEF FunOK
  <2>8. \A s \in Source : BuffersPlayed'[s] \in 0 .. Len(queue'[s])
    BY <1>0, <2>1, <2>6, LenProperties DEF FunOK, TypeOK
  <2> QED
    BY <1>0, <2>2, <2>3, <2>4, <2>6, <2>7, <2>8 DEF TypeOK, FunOK
<1>17. ASSUME NEW m \in given, NEW d \in Loaded, Fill(m, d)
       PROVE  TypeOK' /\ FunOK'
  <2>1. d \in Datas /\ BufferMap[m] \in Entry
    BY <1>0, LoadOK DEF DataOK, TypeOK
  <2>2. data' \in [Block -> Datas]
    BY <1>0, <1>17, <2>1 DEF FunOK, Fill, SetData, Entry
  <2> QED
    BY <1>0, <1>17, <2>2 DEF TypeOK, FunOK, Fill, SetData
<1>18. ASSUME NEW m \in given, NEW p \in Loop, SetLoopPoints(m, p[1], p[2])
       PROVE  TypeOK' /\ FunOK'
  <2>1. /\ BufferMap[m] \in Block
        /\ CanSetLoop(data[BufferMap[m]], p[1], p[2]) /\ p[1] \in Nat /\ p[2] \in Nat
    BY <1>0, <1>18, Small, LoopAssumption DEF SetLoopPoints, TypeOK, Unused
  <2>2. SetLoop(data[BufferMap[m]], p[1], p[2]) \in Datas
    BY <1>0, <2>1, LoopOK DEF DataInv, DataOK
  <2>3. data' \in [Block -> Datas]
    BY <1>0, <1>18, <2>1, <2>2 DEF FunOK, SetLoopPoints, SetData
  <2> QED
    BY <1>0, <1>18, <2>3 DEF TypeOK, FunOK, SetLoopPoints, SetData
<1>19. ASSUME NEW s \in Source, Detach(s)
       PROVE  TypeOK' /\ FunOK'
  <2>1. ref' \in [Block -> Int]
    BY <1>0, <1>19, ReferIs, Small DEF Detach, FunOK
  <2> QED
    BY <1>0, <1>19, <2>1, Small DEF TypeOK, FunOK, Detach
<1>20. ASSUME NEW s \in Source, Play(s)
       PROVE  TypeOK' /\ FunOK'
  <2>1. /\ BuffersPlayed' \in [Source -> Nat] /\ playing' \in [Source -> BOOLEAN]
        /\ \A x \in Source : BuffersPlayed'[x] \in 0 .. Len(queue[x])
    <3>1. \A x \in Source : Len(queue[x]) \in Nat /\ BuffersPlayed[x] \in 0 .. Len(queue[x])
      BY <1>0, LenProperties DEF TypeOK
    <3> QED
      BY <1>0, <1>20, <3>1 DEF FunOK, Play
  <2> QED
    BY <1>0, <1>20, <2>1 DEF TypeOK, FunOK, Play
<1>21. ASSUME NEW s \in Source, Stop(s)
       PROVE  TypeOK' /\ FunOK'
  <2>1. BuffersPlayed' \in [Source -> Nat]
        /\ playing' \in [Source -> BOOLEAN]
        /\ \A x \in Source : BuffersPlayed'[x] \in 0 .. Len(queue[x])
    <3>1. \A x \in Source : Len(queue[x]) \in Nat /\ BuffersPlayed[x] \in 0 .. Len(queue[x])
      BY <1>0, LenProperties DEF TypeOK
    <3> QED
      BY <1>0, <1>21, <3>1 DEF FunOK, Stop
  <2> QED
    BY <1>0, <1>21, <2>1 DEF TypeOK, FunOK, Stop
<1>22. ASSUME NEW s \in Source, MixNext(s)
       PROVE  TypeOK' /\ FunOK'
  <2>1. BuffersPlayed' \in [Source -> Nat]
        /\ \A x \in Source : BuffersPlayed'[x] \in 0 .. Len(queue[x])
    <3>1. \A x \in Source : Len(queue[x]) \in Nat /\ BuffersPlayed[x] \in 0 .. Len(queue[x])
      BY <1>0, LenProperties DEF TypeOK
    <3> QED
      BY <1>0, <1>22, <3>1 DEF FunOK, MixNext
  <2> QED
    BY <1>0, <1>22, <2>1 DEF TypeOK, FunOK, MixNext
<1>23. ASSUME NEW s \in Source, NEW n \in 1 .. MaxQueue, Unqueue(s, n)
       PROVE  TypeOK' /\ FunOK'
  <2>1. /\ n \in Int /\ n >= 1 /\ n <= BuffersPlayed[s]
        /\ BuffersPlayed[s] \in Int /\ BuffersPlayed[s] <= Len(queue[s])
        /\ queue[s] \in Seq(Entry) /\ Len(queue[s]) \in Nat
    BY <1>0, <1>23, LenProperties DEF Unqueue, Unqueueable, TypeOK
  <2>2. n \in 0 .. Len(queue[s])
    BY <2>1
  <2> DEFINE front == SubSeq(queue[s], 1, n)
             rest == SubSeq(queue[s], n + 1, Len(queue[s]))
  <2>3. front \in Seq(Entry) /\ rest \in Seq(Entry) /\ Len(rest) = Len(queue[s]) - n
    BY <2>1, <2>2, Cut
  <2>4. Refer(front, <<>>)
    BY <1>23 DEF Unqueue
  <2>5. /\ queue' = [queue EXCEPT ![s] = rest]
        /\ BuffersPlayed' = [BuffersPlayed EXCEPT ![s] = BuffersPlayed[s] - n]
    BY <1>0, <1>23 DEF Unqueue, FunOK
  <2> HIDE DEF front, rest
  <2>6. ref' \in [Block -> Int]
    BY <1>0, <2>3, <2>4, ReferIs, Small
  <2>7. BuffersPlayed[s] - n \in 0 .. Len(rest)
    BY <2>1, <2>3
  <2> QED
    BY <1>0, <1>23, <2>3, <2>5, <2>6, <2>7 DEF TypeOK, FunOK, Unqueue
<1>24. CASE UNCHANGED vars
  BY <1>0, <1>24 DEF TypeOK, FunOK, vars
<1> QED
  BY <1>1, <1>2, <1>3, <1>4, <1>5, <1>6, <1>7, <1>8, <1>9, <1>10, <1>11, <1>12, <1>13, <1>14,
     <1>15, <1>16, <1>17, <1>18, <1>19, <1>20, <1>21, <1>22, <1>23, <1>24 DEF Next
(* The other threads keep their place; the one in LockContext leaves it, or *)
(* another enters.                                                          *)
LEMMA OtherPlaces ==
  ASSUME PlaceInv, NEW t \in Thread, NEW from, NEW to, Turn(t, from, to), given \subseteq given',
         holder' = holder \/ (holder \in {None, t} /\ holder' \in {None, t}),
         PlaceOf(t)'
  PROVE  PlaceInv'
<1> SUFFICES ASSUME NEW u \in Thread \ {t}
             PROVE  PlaceOf(u)'
  BY DEF PlaceInv
<1>1. pc'[u] = pc[u] /\ call'[u] = call[u] /\ PlaceOf(u) /\ u # None
  BY NoneAssumption DEF Turn, PlaceInv
<1>2. holder' = u <=> holder = u
  BY <1>1
<1>3. \A q : q \in Seq(given \cup {None}) => q \in Seq(given' \cup {None})
  OBVIOUS
<1> QED
  BY <1>1, <1>2, <1>3 DEF PlaceOf

LEMMA PlaceStep ==
  ASSUME IInv, [Next]_vars
  PROVE  PlaceInv'
<1> USE DEF Turn, Making, Removing, Naming, Queueing, Locking
<1>0. TypeOK /\ FunOK /\ PlaceInv /\ MapInv /\ DataInv
  BY DEF IInv
<1>a. ASSUME NEW u \in Thread
      PROVE  PlaceOf(u) /\ u # None /\ call[u] \in Calls
  BY <1>0, NoneAssumption DEF PlaceInv, FunOK
<1>b. NoCall.seen = <<>> /\ NoCall.entries = <<>>
  BY DEF NoCall
<1>1. ASSUME NEW t \in Thread, NEW n \in 1 .. Cardinality(Name) + 1, Gen(t, n)
      PROVE  PlaceInv'
  <2>1. /\ Turn(t, "idle", "gen") /\ call'[t].entries = <<>>
        /\ given' = given /\ holder' = holder
    <3>1. n \in Nat
      OBVIOUS
    <3> QED
      BY <1>0, <1>1, <3>1, GenIs DEF Gen
  <2>2. PlaceOf(t)'
    BY <1>a, <2>1 DEF PlaceOf
  <2> QED
    BY <1>0, <2>1, <2>2, OtherPlaces
<1>2. ASSUME NEW t \in Thread, NEW m \in Name, NEW b \in Block, GenNew(t, m, b)
      PROVE  PlaceInv'
  <2>1. /\ Turn(t, "gen", "insert") /\ call'[t].name = m /\ call'[t].block = b
        /\ call'[t].entries = call[t].entries /\ given' = given /\ holder' = holder
    BY <1>0, <1>2, GenNewIs DEF GenNew
  <2>2. PlaceOf(t)'
    BY <1>a, <2>1 DEF PlaceOf
  <2> QED
    BY <1>0, <2>1, <2>2, OtherPlaces
<1>3. ASSUME NEW t \in Thread, GenInsert(t)
      PROVE  PlaceInv'
  <2>1. pc[t] = "insert" /\ call[t].name \in Name
    BY <1>3, <1>a DEF GenInsert, PlaceOf
  <2>2. /\ \/ Turn(t, "insert", "idle") /\ call'[t] = NoCall
           \/ Turn(t, "insert", "gen") /\ call'[t].entries = call[t].entries
        /\ given \subseteq given' /\ holder' = holder
    BY <1>0, <1>3, <2>1, GenInsertIs DEF GenInsert
  <2>3. PlaceOf(t)'
    BY <1>a, <1>b, <2>2 DEF PlaceOf
  <2> QED
    BY <1>0, <2>2, <2>3, OtherPlaces
<1>4. ASSUME NEW t \in Thread, NEW from \in {"gen", "insert"}, Undo(t, from),
             given' = given, holder' = holder
      PROVE  PlaceInv'
  <2>1. \/ Turn(t, from, "idle") /\ call'[t] = NoCall
        \/ Turn(t, from, "check") /\ call'[t].entries = <<>> /\ call'[t].done = {}
    BY <1>0, <1>4, UndoIs
  <2>2. PlaceOf(t)'
    BY <1>4, <1>a, <1>b, <2>1 DEF PlaceOf
  <2> QED
    BY <1>0, <1>4, <2>1, <2>2, OtherPlaces
<1>5. ASSUME NEW t \in Thread, NEW S \in SUBSET Name, Delete(t, S)
      PROVE  PlaceInv'
  <2>1. /\ Turn(t, "idle", "check") /\ call'[t].entries = <<>> /\ call'[t].done = {}
        /\ given' = given /\ holder' = holder
    BY <1>0, <1>5, DeleteIs DEF Delete
  <2>2. PlaceOf(t)'
    BY <1>a, <2>1 DEF PlaceOf
  <2> QED
    BY <1>0, <2>1, <2>2, OtherPlaces
<1>6. ASSUME NEW t \in Thread, NEW m \in Name, Check(t, m)
      PROVE  PlaceInv'
  <2>1. /\ \/ Turn(t, "check", "remove")
           \/ Turn(t, "check", "check") /\ call'[t].done = call[t].done \cup {m}
        /\ call'[t].todo = call[t].todo /\ call'[t].entries = call[t].entries
        /\ given' = given /\ holder' = holder /\ m \in call[t].todo
    BY <1>0, <1>6, CheckIs DEF Check
  <2>2. PlaceOf(t)'
    BY <1>a, <2>1 DEF PlaceOf
  <2> QED
    BY <1>0, <2>1, <2>2, OtherPlaces
<1>7. ASSUME NEW t \in Thread, NEW m \in Name, CheckFails(t, m)
      PROVE  PlaceInv'
  <2>1. Turn(t, "check", "idle") /\ call'[t] = NoCall /\ given' = given /\ holder' = holder
    BY <1>0, <1>7, ReturnIs DEF CheckFails
  <2>2. PlaceOf(t)'
    BY <1>a, <1>b, <2>1 DEF PlaceOf
  <2> QED
    BY <1>0, <2>1, <2>2, OtherPlaces
<1>8. ASSUME NEW t \in Thread, NEW m \in Name, RemoveBuffer(t, m)
      PROVE  PlaceInv'
  <2>1. /\ \/ /\ Turn(t, "remove", "free") /\ call'[t].entries = call[t].entries
              /\ call'[t].name = m /\ call'[t].block = BufferMap[m] /\ BufferMap[m] # None
           \/ Turn(t, "remove", "idle") /\ call'[t] = NoCall
           \/ Turn(t, "remove", "remove") /\ call'[t].entries = call[t].entries
        /\ given' = given /\ holder' = holder /\ BufferMap[m] \in Entry
    BY <1>0, <1>8, RemoveIs DEF RemoveBuffer, TypeOK
  <2>2. PlaceOf(t)'
    BY <1>a, <1>b, <2>1, Small DEF PlaceOf
  <2> QED
    BY <1>0, <2>1, <2>2, OtherPlaces
<1>9. ASSUME NEW t \in Thread, Free(t)
      PROVE  PlaceInv'
  <2>1. /\ \/ Turn(t, "free", "idle") /\ call'[t] = NoCall
           \/ Turn(t, "free", "remove") /\ call'[t].entries = call[t].entries
        /\ given' = given /\ holder' = holder
    BY <1>0, <1>9, FreeIs DEF Free
  <2>2. PlaceOf(t)'
    BY <1>a, <1>b, <2>1 DEF PlaceOf
  <2> QED
    BY <1>0, <2>1, <2>2, OtherPlaces
<1>10. ASSUME NEW t \in Thread, NEW s \in Source, NEW names \in BoundedSeq(given \cup {None}, MaxQueue),
              Queue(t, s, names)
       PROVE  PlaceInv'
  <2>1. names \in Seq(given \cup {None}) /\ given \subseteq Name /\ given' = given
        /\ holder = None
    BY <1>0, <1>10, NamesOK DEF TypeOK, Queue, Unlocked
  <2>2. names \in Seq(Name \cup {None})
    BY <2>1
  <2>3. /\ Turn(t, "idle", "verify") /\ holder' = t /\ names # <<>>
        /\ call'[t].source = s /\ call'[t].names = names /\ call'[t].n = 0
        /\ call'[t].seen = <<>> /\ call'[t].entries = <<>>
    BY <1>0, <1>10, <2>2, QueueIs
  <2>4. Len(names) > 0
    <3>1. Len(names) \in Nat /\ (Len(names) = 0 => names = <<>>)
      BY <2>1, LenProperties, EmptySeq
    <3> QED
      BY <2>3, <3>1
  <2>5. PlaceOf(t)'
    BY <2>1, <2>3, <2>4 DEF PlaceOf
  <2> QED
    BY <1>0, <2>1, <2>3, <2>5, OtherPlaces
<1>11. ASSUME NEW t \in Thread, Verify(t)
       PROVE  PlaceInv'
  <2>1. /\ \/ /\ Turn(t, "verify", "link") /\ call'[t].n = 0
              /\ call[t].n + 1 = Len(call[t].names)
           \/ /\ Turn(t, "verify", "verify") /\ call'[t].n = call[t].n + 1
              /\ call[t].n + 1 < Len(call[t].names)
        /\ call'[t].source = call[t].source /\ call'[t].names = call[t].names
        /\ call'[t].seen = Append(call[t].seen, Looked(t))
        /\ call'[t].entries = call[t].entries
        /\ given' = given /\ holder' = holder /\ pc[t] = "verify"
    BY <1>0, <1>11, VerifyIs DEF Verify
  <2>2. /\ Looked(t) \in Entry /\ call[t].seen \in Seq(Entry) /\ call[t].n \in Nat
        /\ Len(call[t].names) \in Nat
    BY <1>0, <1>a, <2>1, LookedOK, LenProperties DEF Calls
  <2>3. Len(Append(call[t].seen, Looked(t))) = call[t].n + 1
    BY <1>a, <2>1, <2>2, AppendProperties DEF PlaceOf
  <2>4. PlaceOf(t)'
    BY <1>a, <2>1, <2>2, <2>3 DEF PlaceOf
  <2> QED
    BY <1>0, <2>1, <2>4, OtherPlaces
<1>12. ASSUME NEW t \in Thread, VerifyFails(t)
       PROVE  PlaceInv'
  <2>1. /\ Turn(t, "verify", "idle") /\ call'[t] = NoCall /\ given' = given /\ holder' = None
        /\ holder = t
    BY <1>0, <1>12, <1>a, ReturnIs DEF VerifyFails, PlaceOf
  <2>2. PlaceOf(t)'
    BY <1>a, <1>b, <2>1 DEF PlaceOf
  <2> QED
    BY <1>0, <2>1, <2>2, OtherPlaces
<1>13. ASSUME NEW t \in Thread, Link(t)
       PROVE  PlaceInv'
  <2>1. /\ \/ Turn(t, "link", "idle") /\ call'[t] = NoCall /\ holder' = None
           \/ /\ Turn(t, "link", "link") /\ holder' = holder
              /\ call'[t].n = call[t].n + 1 /\ call[t].n + 1 < Len(call[t].names)
              /\ call'[t].source = call[t].source /\ call'[t].names = call[t].names
              /\ call'[t].seen = call[t].seen
              /\ call'[t].entries = Append(call[t].entries, Looked(t))
        /\ given' = given /\ holder = t /\ pc[t] = "link" /\ Looked(t) \in Entry
    BY <1>0, <1>13, LinkIs DEF Link
  <2>2. Len(Append(call[t].entries, Looked(t))) = call[t].n + 1
    BY <1>a, <2>1, AppendProperties DEF PlaceOf, Calls
  <2>3. PlaceOf(t)'
    BY <1>a, <1>b, <2>1, <2>2 DEF PlaceOf
  <2> QED
    BY <1>0, <2>1, <2>3, OtherPlaces
<1>14. ASSUME NEW t \in Thread, NEW s \in Source, NEW m \in given, Attach(t, s, m)
       PROVE  PlaceInv'
  <2>1. m \in Name
    BY <1>0 DEF TypeOK
  <2>2. /\ Turn(t, "idle", "attach") /\ holder' = t /\ holder = None /\ given' = given
        /\ call'[t].source = s /\ call'[t].name = m /\ call'[t].block \in Block
        /\ call'[t].entries = <<>>
    BY <1>0, <1>14, <2>1, AttachIs DEF Attach, Unlocked
  <2>3. PlaceOf(t)'
    BY <2>2 DEF PlaceOf
  <2> QED
    BY <1>0, <2>2, <2>3, OtherPlaces
<1>15. ASSUME NEW t \in Thread, AttachStore(t)
       PROVE  PlaceInv'
  <2>1. /\ Turn(t, "attach", "idle") /\ call'[t] = NoCall /\ given' = given /\ holder' = None
        /\ holder = t
    BY <1>0, <1>15, <1>a, ReturnIs DEF AttachStore, PlaceOf
  <2>2. PlaceOf(t)'
    BY <1>a, <1>b, <2>1 DEF PlaceOf
  <2> QED
    BY <1>0, <2>1, <2>2, OtherPlaces
<1>16. CASE UNCHANGED <<pc, call, given, holder>>
  BY <1>0, <1>16 DEF PlaceInv, PlaceOf
<1> QED
  <2>1. ASSUME NEW t \in Thread, GenNoMemory(t) \/ GenRefused(t)
        PROVE  PlaceInv'
    BY <1>4, <2>1 DEF GenNoMemory, GenRefused
  <2>2. ASSUME NEW m, NEW d, NEW p, Fill(m, d) \/ SetLoopPoints(m, p[1], p[2])
        PROVE  PlaceInv'
    BY <1>16, <2>2 DEF Fill, SetLoopPoints, SetData
  <2>3. ASSUME NEW s, NEW n, Detach(s) \/ Play(s) \/ Stop(s) \/ MixNext(s) \/ Unqueue(s, n)
        PROVE  PlaceInv'
    BY <1>16, <2>3 DEF Detach, Play, Stop, MixNext, Unqueue
  <2>4. CASE UNCHANGED vars
    BY <1>16, <2>4 DEF vars
  <2> QED
    BY <1>1, <1>2, <1>3, <1>5, <1>6, <1>7, <1>8, <1>9, <1>10, <1>11, <1>12, <1>13, <1>14, <1>15,
       <2>1, <2>2, <2>3, <2>4 DEF Next
-----------------------------------------------------------------------------
(* Names and blocks.  Only alGenBuffers and alDeleteBuffers deal with them. *)

Quiet ==
  /\ UNCHANGED <<bufferVars, given, lost>>
  /\ \A u \in Thread : \/ pc'[u] = pc[u] /\ call'[u] = call[u]
                       \/ pc[u] \in Locking \cup {"idle"} /\ pc'[u] \in Locking \cup {"idle"}

LEMMA Quieter ==
  ASSUME IInv, [Next]_vars
  PROVE  \/ Quiet
         \/ \E t \in Thread :
              \/ \E n \in Nat : Gen(t, n)
              \/ \E m \in Name, b \in Block : GenNew(t, m, b)
              \/ GenInsert(t) \/ GenNoMemory(t) \/ GenRefused(t)
              \/ \E S \in SUBSET Name : Delete(t, S)
              \/ \E m \in Name : Check(t, m) \/ CheckFails(t, m) \/ RemoveBuffer(t, m)
              \/ Free(t)
<1>0. TypeOK /\ FunOK /\ PlaceInv /\ DataInv
  BY DEF IInv
<1>1. ASSUME NEW t \in Thread, NEW from \in Locking \cup {"idle"}, NEW to \in Locking \cup {"idle"},
             Turn(t, from, to), UNCHANGED <<bufferVars, given, lost>>
      PROVE  Quiet
  BY <1>1 DEF Quiet, Turn
<1>2. CASE UNCHANGED <<bufferVars, given, lost, pc, call>>
  BY <1>2 DEF Quiet
<1> USE DEF Locking, Queueing
<1>3. ASSUME NEW t \in Thread, NEW s \in Source, NEW names \in BoundedSeq(given \cup {None}, MaxQueue),
             Queue(t, s, names)
      PROVE  Quiet
  <2>1. names \in Seq(given \cup {None}) /\ given \subseteq Name
    BY <1>0, NamesOK DEF TypeOK
  <2>2. names \in Seq(Name \cup {None})
    BY <2>1
  <2> QED
    BY <1>0, <1>1, <1>3, <2>2, QueueIs DEF Queue
<1>4. ASSUME NEW t \in Thread, Verify(t)
      PROVE  Quiet
  BY <1>0, <1>1, <1>4, VerifyIs DEF Verify
<1>5. ASSUME NEW t \in Thread, VerifyFails(t)
      PROVE  Quiet
  BY <1>0, <1>1, <1>5, ReturnIs DEF VerifyFails
<1>6. ASSUME NEW t \in Thread, Link(t)
      PROVE  Quiet
  BY <1>0, <1>1, <1>6, LinkIs DEF Link
<1>7. ASSUME NEW t \in Thread, NEW s \in Source, NEW m \in given, Attach(t, s, m)
      PROVE  Quiet
  <2>1. m \in Name
    BY <1>0 DEF TypeOK
  <2> QED
    BY <1>0, <1>1, <1>7, <2>1, AttachIs DEF Attach
<1>8. ASSUME NEW t \in Thread, AttachStore(t)
      PROVE  Quiet
  BY <1>0, <1>1, <1>8, ReturnIs DEF AttachStore
<1>9. ASSUME NEW m, NEW d, NEW p, Fill(m, d) \/ SetLoopPoints(m, p[1], p[2])
      PROVE  Quiet
  <2>1. UNCHANGED <<bufferVars, given, lost, pc, call>>
    BY <1>9 DEF Fill, SetLoopPoints, SetData
  <2> QED
    BY <2>1 DEF Quiet
<1>10. ASSUME NEW s, NEW n, Detach(s) \/ Play(s) \/ Stop(s) \/ MixNext(s) \/ Unqueue(s, n)
       PROVE  Quiet
  <2>1. UNCHANGED <<bufferVars, given, lost, pc, call>>
    BY <1>10 DEF Detach, Play, Stop, MixNext, Unqueue
  <2> QED
    BY <2>1 DEF Quiet
<1>11. CASE UNCHANGED vars
  BY <1>2, <1>11 DEF vars
<1>12. \A n \in 1 .. Cardinality(Name) + 1 : n \in Nat
  OBVIOUS
<1> QED
  BY <1>3, <1>4, <1>5, <1>6, <1>7, <1>8, <1>9, <1>10, <1>11, <1>12 DEF Next

(* A call takes a new name, enters it, removes one or gives it back, or has *)
(* nothing to do with names.                                                *)
NewName(t, m, b) ==
  /\ pc[t] \notin Naming /\ pc'[t] \in Naming /\ call'[t].name = m /\ call'[t].block = b
  /\ m \in Name \ taken /\ b \in fresh
  /\ taken' = taken \cup {m} /\ allocated' = allocated \cup {b} /\ BufferMap' = BufferMap

Entered(t) ==
  /\ pc[t] = "insert" /\ pc[t] \in Naming /\ pc'[t] \notin Naming
  /\ BufferMap' = [BufferMap EXCEPT ![call[t].name] = call[t].block]
  /\ taken' = taken /\ allocated' = allocated

Removed(t, m) ==
  /\ pc[t] \notin Naming /\ pc'[t] \in Naming /\ call'[t].name = m /\ call'[t].block = BufferMap[m]
  /\ m \in Mapped
  /\ BufferMap' = [BufferMap EXCEPT ![m] = None]
  /\ taken' = taken /\ allocated' = allocated

GivenBack(t) ==
  /\ pc[t] \in Naming /\ pc'[t] \notin Naming
  /\ taken' = taken \ {call[t].name} /\ allocated' = allocated \ {call[t].block}
  /\ BufferMap' = BufferMap

NoName(t) ==
  /\ pc[t] \notin Naming /\ pc'[t] \notin Naming
  /\ taken' = taken /\ allocated' = allocated /\ BufferMap' = BufferMap

LEMMA NameMoves ==
  ASSUME IInv, [Next]_vars
  PROVE  \/ Quiet
         \/ \E t \in Thread :
              /\ \A u \in Thread \ {t} : pc'[u] = pc[u] /\ call'[u] = call[u]
              /\ \/ \E m \in Name, b \in Block : NewName(t, m, b)
                 \/ Entered(t) \/ GivenBack(t) \/ NoName(t)
                 \/ \E m \in Name : Removed(t, m)
<1> USE DEF Naming, Turn
<1>0. TypeOK /\ FunOK /\ PlaceInv
  BY DEF IInv
<1> DEFINE Others(t) == \A u \in Thread \ {t} : pc'[u] = pc[u] /\ call'[u] = call[u]
<1>1. ASSUME NEW t \in Thread, NEW n \in Nat, Gen(t, n)
      PROVE  Others(t) /\ NoName(t)
  BY <1>0, <1>1, GenIs DEF Gen, NoName, bufferVars
<1>2. ASSUME NEW t \in Thread, NEW m \in Name, NEW b \in Block, GenNew(t, m, b)
      PROVE  Others(t) /\ NewName(t, m, b)
  BY <1>0, <1>2, GenNewIs DEF GenNew, NewName
<1>3. ASSUME NEW t \in Thread, GenInsert(t)
      PROVE  Others(t) /\ Entered(t)
  <2>1. pc[t] = "insert" /\ call[t].name \in Name
    BY <1>0, <1>3 DEF GenInsert, PlaceInv, PlaceOf
  <2> QED
    BY <1>0, <1>3, <2>1, GenInsertIs DEF GenInsert, Entered
<1>4. ASSUME NEW t \in Thread, GenNoMemory(t)
      PROVE  Others(t) /\ NoName(t)
  BY <1>0, <1>4, UndoIs DEF GenNoMemory, NoName, bufferVars
<1>5. ASSUME NEW t \in Thread, GenRefused(t)
      PROVE  Others(t) /\ GivenBack(t)
  BY <1>0, <1>5, UndoIs DEF GenRefused, GivenBack, GiveBack
<1>6. ASSUME NEW t \in Thread, NEW S \in SUBSET Name, Delete(t, S)
      PROVE  Others(t) /\ NoName(t)
  BY <1>0, <1>6, DeleteIs DEF Delete, NoName, bufferVars
<1>7. ASSUME NEW t \in Thread, NEW m \in Name, Check(t, m)
      PROVE  Others(t) /\ NoName(t)
  BY <1>0, <1>7, CheckIs DEF Check, NoName, bufferVars
<1>8. ASSUME NEW t \in Thread, NEW m \in Name, CheckFails(t, m)
      PROVE  Others(t) /\ NoName(t)
  BY <1>0, <1>8, ReturnIs DEF CheckFails, NoName, bufferVars
<1>9. ASSUME NEW t \in Thread, NEW m \in Name, RemoveBuffer(t, m)
      PROVE  Others(t) /\ (Removed(t, m) \/ NoName(t))
  <2>1. BufferMap[m] = None => [BufferMap EXCEPT ![m] = None] = BufferMap
    BY <1>0 DEF TypeOK
  <2> QED
    BY <1>0, <1>9, <2>1, RemoveIs DEF RemoveBuffer, Removed, NoName, Mapped
<1>10. ASSUME NEW t \in Thread, Free(t)
       PROVE  Others(t) /\ GivenBack(t)
  BY <1>0, <1>10, FreeIs DEF Free, GivenBack, GiveBack
<1> QED
  BY <1>1, <1>2, <1>3, <1>4, <1>5, <1>6, <1>7, <1>8, <1>9, <1>10, Quieter

LEMMA MapStep ==
  ASSUME IInv, [Next]_vars
  PROVE  MapInv' /\ NameInv' /\ TakenInv'
<1>0. /\ TypeOK /\ MapInv /\ NameInv /\ TakenInv
      /\ \A u \in Thread : pc[u] \in Naming => call[u].name \in Name /\ call[u].block \in Block
      /\ \A m \in Name : BufferMap[m] \in Entry
  BY DEF IInv, PlaceInv, PlaceOf, TypeOK
<1>1. CASE Quiet
  <2>1. \A u \in Thread : \/ pc'[u] = pc[u] /\ call'[u] = call[u]
                          \/ pc[u] \notin Naming /\ pc'[u] \notin Naming
    BY <1>1 DEF Quiet, Naming, Locking, Queueing
  <2>2. Mapped' = Mapped /\ taken' = taken /\ allocated' = allocated /\ BufferMap' = BufferMap
    BY <1>1 DEF Quiet, bufferVars, Mapped
  <2> QED
    BY <1>0, <2>1, <2>2 DEF MapInv, NameInv, NameOf, TakenInv
<1> SUFFICES ASSUME NEW t \in Thread,
                    \A u \in Thread \ {t} : pc'[u] = pc[u] /\ call'[u] = call[u],
                    \/ \E m \in Name, b \in Block : NewName(t, m, b)
                    \/ Entered(t) \/ GivenBack(t) \/ NoName(t)
                    \/ \E m \in Name : Removed(t, m)
             PROVE  MapInv' /\ NameInv' /\ TakenInv'
  BY <1>1, NameMoves
<1>2. ASSUME NEW m \in Name, NEW b \in Block, NewName(t, m, b)
      PROVE  MapInv' /\ NameInv' /\ TakenInv'
  <2>1. Mapped' = Mapped
    BY <1>2 DEF NewName, Mapped
  <2>2. m \notin Mapped /\ b \notin allocated /\ \A k \in Name : BufferMap[k] # b
    BY <1>0, <1>2, Small DEF NewName, MapInv, Mapped, TypeOK
  <2>3. MapInv'
    BY <1>0, <1>2, <2>1 DEF NewName, MapInv
  <2>4. NameInv'
    BY <1>0, <1>2, <2>1, <2>2 DEF NewName, NameInv, NameOf
  <2>5. TakenInv'
    BY <1>0, <1>2, <2>1 DEF NewName, TakenInv
  <2> QED
    BY <2>3, <2>4, <2>5
<1>3. CASE Entered(t)
  <2>1. call[t].name \in Name /\ call[t].block \in Block /\ NameOf(t)
    BY <1>0, <1>3 DEF Entered, NameInv
  <2>2. /\ Mapped' = Mapped \cup {call[t].name} /\ call[t].name \notin Mapped
        /\ BufferMap'[call[t].name] = call[t].block
        /\ \A k \in Name \ {call[t].name} : BufferMap'[k] = BufferMap[k]
    BY <1>0, <1>3, <2>1, Small DEF Entered, Mapped, NameOf, TypeOK
  <2>3. MapInv'
    BY <1>0, <1>3, <2>1, <2>2 DEF Entered, MapInv, NameOf, Mapped
  <2>4. NameInv'
    BY <1>0, <1>3, <2>1, <2>2 DEF Entered, NameInv, NameOf
  <2>5. TakenInv'
    BY <1>0, <1>3, <2>2 DEF Entered, TakenInv
  <2> QED
    BY <2>3, <2>4, <2>5
<1>4. CASE GivenBack(t)
  <2>1. Mapped' = Mapped /\ NameOf(t)
    BY <1>0, <1>4 DEF GivenBack, Mapped, NameInv
  <2>2. MapInv'
    BY <1>0, <1>4, <2>1 DEF GivenBack, MapInv, NameOf, Mapped
  <2>3. NameInv'
    BY <1>0, <1>4, <2>1 DEF GivenBack, NameInv, NameOf
  <2>4. TakenInv'
    BY <1>0, <1>4, <2>1 DEF GivenBack, TakenInv
  <2> QED
    BY <2>2, <2>3, <2>4
<1>5. CASE NoName(t)
  <2>1. Mapped' = Mapped
    BY <1>5 DEF NoName, Mapped
  <2> QED
    BY <1>0, <1>5, <2>1 DEF NoName, MapInv, NameInv, NameOf, TakenInv
<1>6. ASSUME NEW m \in Name, Removed(t, m)
      PROVE  MapInv' /\ NameInv' /\ TakenInv'
  <2>1. /\ Mapped' = Mapped \ {m} /\ BufferMap'[m] = None
        /\ \A k \in Name \ {m} : BufferMap'[k] = BufferMap[k]
    BY <1>0, <1>6 DEF Removed, Mapped, TypeOK
  <2>2. MapInv'
    BY <1>0, <1>6, <2>1 DEF Removed, MapInv, Mapped
  <2>3. /\ \A k \in Name : BufferMap'[k] # BufferMap[m]
        /\ m \in taken /\ BufferMap[m] \in allocated
    BY <1>0, <1>6, <2>1 DEF MapInv, Mapped, Removed
  <2>4. NameInv'
    <3>1. NameOf(t)'
      BY <1>6, <2>1, <2>3 DEF Removed, NameOf
    <3>2. ASSUME NEW u \in Thread \ {t}
          PROVE  NameOf(u)'
      <4>1. pc'[u] = pc[u] /\ call'[u] = call[u] /\ NameOf(u)
        BY <1>0 DEF NameInv
      <4>2. pc[u] \in Naming => call[u].block # None
        BY <1>0, NoneAssumption
      <4>3. Mapped' \subseteq Mapped /\ \A k \in Name : BufferMap'[k] \in {BufferMap[k], None}
        BY <2>1
      <4> QED
        BY <1>6, <4>1, <4>2, <4>3 DEF Removed, NameOf
    <3> QED
      BY <1>0, <1>6, <2>1, <3>1, <3>2 DEF Removed, NameInv, NameOf
  <2>5. TakenInv'
    BY <1>0, <1>6, <2>1 DEF Removed, TakenInv
  <2> QED
    BY <2>2, <2>4, <2>5
<1> QED
  BY <1>2, <1>3, <1>4, <1>5, <1>6
(* What failed calls lose: a name that the application did not know is      *)
(* found in the map and unused by alDeleteBuffers, so it does not fail.     *)
LEMMA OwnStep ==
  ASSUME IInv, [Next]_vars
  PROVE  OwnInv'
<1> USE DEF Making, Removing
<1>0. TypeOK /\ FunOK /\ PlaceInv /\ MapInv /\ NameInv /\ HiddenInv /\ OwnInv
  BY DEF IInv
<1>1. CASE Quiet
  <2>1. Mapped' = Mapped /\ given' = given /\ lost' = lost
    BY <1>1 DEF Quiet, bufferVars, Mapped
  <2>2. \A u \in Thread : Own(u)' = Own(u)
    BY <1>1 DEF Quiet, Own, Locking, Queueing
  <2> QED
    BY <1>0, <2>1, <2>2 DEF OwnInv
<1>a. ASSUME NEW t \in Thread, NEW from, NEW to, Turn(t, from, to)
      PROVE  \A u \in Thread \ {t} : Own(u)' = Own(u)
  BY <1>a DEF Turn, Own
<1>b. ASSUME NEW t \in Thread, NEW from, NEW to, Turn(t, from, to), Own(t)' = Own(t),
             UNCHANGED <<BufferMap, given, lost>>
      PROVE  OwnInv'
  <2>1. Mapped' = Mapped /\ \A u \in Thread : Own(u)' = Own(u)
    BY <1>a, <1>b DEF Mapped
  <2> QED
    BY <1>0, <1>b, <2>1 DEF OwnInv
<1>2. ASSUME NEW t \in Thread, NEW n \in Nat, Gen(t, n)
      PROVE  OwnInv'
  <2>1. Turn(t, "idle", "gen") /\ call'[t].done = {} /\ UNCHANGED <<BufferMap, given, lost>>
    BY <1>0, <1>2, GenIs DEF Gen, bufferVars
  <2>2. Own(t)' = Own(t)
    BY <2>1 DEF Turn, Own
  <2> QED
    BY <1>b, <2>1, <2>2
<1>3. ASSUME NEW t \in Thread, NEW m \in Name, NEW b \in Block, GenNew(t, m, b)
      PROVE  OwnInv'
  <2>1. /\ Turn(t, "gen", "insert") /\ call'[t].done = call[t].done
        /\ UNCHANGED <<BufferMap, given, lost>>
    BY <1>0, <1>3, GenNewIs DEF GenNew
  <2>2. Own(t)' = Own(t)
    BY <2>1 DEF Turn, Own
  <2> QED
    BY <1>b, <2>1, <2>2
<1>4. ASSUME NEW t \in Thread, GenInsert(t)
      PROVE  OwnInv'
  <2>1. pc[t] = "insert" /\ call[t].name \in Name /\ call[t].block \in Block
    BY <1>0, <1>4 DEF GenInsert, PlaceInv, PlaceOf, Naming
  <2>2. \/ /\ Turn(t, "insert", "idle")
           /\ given' = given \cup call[t].done \cup {call[t].name}
        \/ /\ Turn(t, "insert", "gen") /\ given' = given
           /\ call'[t].done = call[t].done \cup {call[t].name}
    BY <1>0, <1>4, <2>1, GenInsertIs
  <2>3. call[t].name \notin Mapped /\ Mapped' = Mapped \cup {call[t].name} /\ lost' = lost
    BY <1>0, <1>4, <2>1, NoneAssumption DEF GenInsert, NameInv, NameOf, Naming, Mapped, TypeOK
  <2>4. /\ \A u \in Thread \ {t} : Own(u)' = Own(u)
        /\ Own(t) = call[t].done
        /\ \/ /\ Own(t)' = {} /\ given' = given \cup Own(t) \cup {call[t].name}
           \/ Own(t)' = Own(t) \cup {call[t].name} /\ given' = given
    BY <1>a, <2>1, <2>2 DEF Turn, Own
  <2> QED
    BY <1>0, <2>3, <2>4 DEF OwnInv
<1>5. ASSUME NEW t \in Thread, NEW from \in {"gen", "insert"}, Undo(t, from),
             UNCHANGED <<BufferMap, given, lost>>
      PROVE  OwnInv'
  <2>1. \/ Turn(t, from, "idle") /\ call[t].done = {}
        \/ Turn(t, from, "check") /\ call'[t].todo = call[t].done
    BY <1>0, <1>5, UndoIs
  <2>2. Own(t)' = Own(t)
    BY <1>5, <2>1 DEF Turn, Own
  <2> QED
    BY <1>b, <1>5, <2>1, <2>2
<1>6. ASSUME NEW t \in Thread, NEW S \in SUBSET Name, Delete(t, S)
      PROVE  OwnInv'
  <2>1. /\ Turn(t, "idle", "check") /\ call'[t].todo = S /\ S \subseteq given
        /\ UNCHANGED <<BufferMap, given, lost>>
    BY <1>0, <1>6, DeleteIs DEF Delete, bufferVars
  <2>2. Own(t) = {} /\ Own(t)' \subseteq given /\ Mapped' = Mapped
    BY <2>1 DEF Turn, Own, Mapped
  <2> QED
    BY <1>0, <1>a, <2>1, <2>2 DEF OwnInv
<1>7. ASSUME NEW t \in Thread, NEW m \in Name, Check(t, m)
      PROVE  OwnInv'
  <2>1. /\ Turn(t, "check", "remove") \/ Turn(t, "check", "check")
        /\ call'[t].todo = call[t].todo /\ UNCHANGED <<BufferMap, given, lost>>
    BY <1>0, <1>7, CheckIs DEF Check, bufferVars
  <2>2. Own(t)' = Own(t)
    BY <2>1 DEF Turn, Own
  <2> QED
    BY <1>b, <2>1, <2>2
<1>8. ASSUME NEW t \in Thread, NEW m \in Name, CheckFails(t, m)
      PROVE  OwnInv'
  <2>1. /\ Turn(t, "check", "idle") /\ UNCHANGED <<BufferMap, given>>
        /\ m \in call[t].todo /\ ~Unused(m)
        /\ lost' = IF m \in given THEN lost \cup (call[t].todo \ given) ELSE lost
    BY <1>0, <1>8, ReturnIs DEF CheckFails, bufferVars
  <2>2. Own(t) = call[t].todo /\ Own(t)' = {} /\ Mapped' = Mapped
    BY <2>1 DEF Turn, Own, Mapped
  <2>3. m \in given
    <3> SUFFICES ASSUME m \notin given PROVE FALSE
      OBVIOUS
    <3>1. m \in Mapped \ given
      BY <1>0, <2>1, <2>2 DEF OwnInv
    <3>2. ref[BufferMap[m]] = 0
      BY <1>0, <3>1 DEF HiddenInv, Hidden
    <3> QED
      BY <2>1, <3>1, <3>2 DEF Unused, InUse, Mapped
  <2> QED
    BY <1>0, <1>a, <2>1, <2>2, <2>3 DEF OwnInv
<1>9. ASSUME NEW t \in Thread, NEW m \in Name, RemoveBuffer(t, m)
      PROVE  OwnInv'
  <2>1. /\ m \in call[t].todo
        /\ \/ /\ Turn(t, "remove", "free") \/ Turn(t, "remove", "remove")
              /\ call'[t].todo = call[t].todo \ {m}
           \/ Turn(t, "remove", "idle") /\ call[t].todo = {m}
    BY <1>0, <1>9, RemoveIs
  <2>2. Own(t) = call[t].todo /\ Own(t)' = Own(t) \ {m} /\ m \in Own(t)
    BY <2>1 DEF Turn, Own
  <2>3. Mapped' = Mapped \ {m} /\ given' = given /\ lost' = lost
    BY <1>0, <1>9 DEF RemoveBuffer, Mapped, TypeOK
  <2>4. \A u \in Thread \ {t} : Own(u)' = Own(u)
    BY <1>a, <2>1
  <2> QED
    BY <1>0, <2>2, <2>3, <2>4 DEF OwnInv
<1>10. ASSUME NEW t \in Thread, Free(t)
       PROVE  OwnInv'
  <2>1. /\ \/ Turn(t, "free", "idle") /\ call[t].todo = {}
           \/ Turn(t, "free", "remove") /\ call'[t].todo = call[t].todo
        /\ UNCHANGED <<BufferMap, given, lost>>
    BY <1>0, <1>10, FreeIs DEF Free
  <2>2. Own(t)' = Own(t)
    BY <2>1 DEF Turn, Own
  <2> QED
    BY <1>b, <2>1, <2>2
<1>11. ASSUME NEW t \in Thread, GenNoMemory(t) \/ GenRefused(t)
       PROVE  OwnInv'
  <2>1. UNCHANGED <<BufferMap, given, lost>> /\ (Undo(t, "gen") \/ Undo(t, "insert"))
    BY <1>11 DEF GenNoMemory, GenRefused, bufferVars
  <2> QED
    BY <1>5, <2>1
<1> QED
  BY <1>1, <1>2, <1>3, <1>4, <1>6, <1>7, <1>8, <1>9, <1>10, <1>11, Quieter
-----------------------------------------------------------------------------
(* What the application cannot know.                                        *)

LEMMA HiddenShrinks ==
  ASSUME IInv, [Next]_vars
  PROVE  Hidden' \subseteq Hidden /\ Hidden \subseteq Block
<1>0. TypeOK /\ FunOK /\ PlaceInv
  BY DEF IInv
<1>1. Hidden \subseteq Block
  <2>1. \A t \in Thread : pc[t] = "insert" => call[t].block \in Block
    BY <1>0 DEF PlaceInv, PlaceOf, Naming
  <2>2. \A m \in Mapped : BufferMap[m] \in Block
    BY <1>0, Small DEF Mapped, TypeOK
  <2> QED
    BY <1>0, <2>1, <2>2 DEF Hidden, FunOK
<1>2. ASSUME NEW t \in Thread, \A u \in Thread \ {t} : pc'[u] = pc[u] /\ call'[u] = call[u],
             pc'[t] = "insert" => pc[t] = "insert" /\ call'[t].block = call[t].block,
             fresh' = fresh, given \subseteq given',
             \A m \in Mapped' : m \in Mapped /\ BufferMap'[m] = BufferMap[m]
      PROVE  Hidden' \subseteq Hidden
  BY <1>2 DEF Hidden
<1>3. CASE Quiet
  <2>1. \A u \in Thread : pc'[u] = "insert" => pc[u] = "insert" /\ call'[u] = call[u]
    BY <1>3 DEF Quiet, Locking, Queueing
  <2>2. Mapped' = Mapped /\ BufferMap' = BufferMap /\ fresh' = fresh /\ given' = given
    BY <1>3 DEF Quiet, bufferVars, Mapped
  <2> QED
    BY <1>1, <2>1, <2>2 DEF Hidden
<1>a. ASSUME NEW t \in Thread, NEW from, NEW to, Turn(t, from, to), to # "insert",
             fresh' = fresh, given \subseteq given', BufferMap' = BufferMap
      PROVE  Hidden' \subseteq Hidden
  BY <1>a, <1>2 DEF Turn, Mapped
<1>4. ASSUME NEW t \in Thread, NEW n \in Nat, Gen(t, n)
      PROVE  Hidden' \subseteq Hidden
  BY <1>0, <1>4, <1>a, GenIs DEF Gen, bufferVars
<1>5. ASSUME NEW t \in Thread, NEW m \in Name, NEW b \in Block, GenNew(t, m, b)
      PROVE  Hidden' \subseteq Hidden
  <2>1. /\ Turn(t, "gen", "insert") /\ call'[t].block = b /\ b \in fresh /\ fresh' \subseteq fresh
        /\ UNCHANGED <<BufferMap, given>>
    BY <1>0, <1>5, GenNewIs DEF GenNew
  <2> QED
    BY <2>1 DEF Turn, Hidden, Mapped
<1>6. ASSUME NEW t \in Thread, GenInsert(t)
      PROVE  Hidden' \subseteq Hidden
  <2>1. pc[t] = "insert" /\ call[t].name \in Name
    BY <1>0, <1>6 DEF GenInsert, PlaceInv, PlaceOf, Naming
  <2>2. /\ Turn(t, "insert", "idle") \/ Turn(t, "insert", "gen")
        /\ given \subseteq given' /\ fresh' = fresh
    BY <1>0, <1>6, <2>1, GenInsertIs DEF GenInsert
  <2>3. /\ BufferMap'[call[t].name] = call[t].block
        /\ \A k \in Name \ {call[t].name} : BufferMap'[k] = BufferMap[k]
    BY <1>0, <1>6, <2>1 DEF GenInsert, TypeOK
  <2> QED
    BY <2>1, <2>2, <2>3 DEF Turn, Hidden, Mapped
<1>7. ASSUME NEW t \in Thread, GenNoMemory(t) \/ GenRefused(t)
      PROVE  Hidden' \subseteq Hidden
  <2>1. /\ Undo(t, "gen") \/ Undo(t, "insert")
        /\ UNCHANGED <<BufferMap, fresh, given>>
    BY <1>7 DEF GenNoMemory, GenRefused, bufferVars
  <2> QED
    BY <1>0, <1>a, <2>1, UndoIs
<1>8. ASSUME NEW t \in Thread, NEW S \in SUBSET Name, Delete(t, S)
      PROVE  Hidden' \subseteq Hidden
  BY <1>0, <1>8, <1>a, DeleteIs DEF Delete, bufferVars
<1>9. ASSUME NEW t \in Thread, NEW m \in Name, Check(t, m) \/ CheckFails(t, m)
      PROVE  Hidden' \subseteq Hidden
  <2>1. UNCHANGED <<BufferMap, fresh, given>>
    BY <1>9 DEF Check, CheckFails, bufferVars
  <2>2. \E to \in {"check", "remove", "idle"} : Turn(t, "check", to)
    BY <1>0, <1>9, CheckIs, ReturnIs DEF CheckFails
  <2> QED
    BY <1>a, <2>1, <2>2
<1>10. ASSUME NEW t \in Thread, NEW m \in Name, RemoveBuffer(t, m)
       PROVE  Hidden' \subseteq Hidden
  <2>1. \E to \in {"free", "remove", "idle"} : Turn(t, "remove", to)
    BY <1>0, <1>10, RemoveIs
  <2>2. /\ fresh' = fresh /\ given' = given
        /\ \A k \in Mapped' : k \in Mapped /\ BufferMap'[k] = BufferMap[k]
    BY <1>0, <1>10 DEF RemoveBuffer, TypeOK, Mapped
  <2> QED
    BY <1>2, <2>1, <2>2 DEF Turn
<1>11. ASSUME NEW t \in Thread, Free(t)
       PROVE  Hidden' \subseteq Hidden
  <2>1. \E to \in {"remove", "idle"} : Turn(t, "free", to)
    BY <1>0, <1>11, FreeIs
  <2> QED
    BY <1>11, <1>a, <2>1 DEF Free
<1> QED
  BY <1>1, <1>3, <1>4, <1>5, <1>6, <1>7, <1>8, <1>9, <1>10, <1>11, Quieter
(* The buffers in hand of a queue call come from its own lookups.           *)
Looks(t) ==
  /\ call'[t].seen \in {call[t].seen, <<>>} /\ call'[t].entries \in {call[t].entries, <<>>}
  /\ pc'[t] = "attach" => pc[t] = "attach" /\ call'[t].block = call[t].block
  /\ pc'[t] \in Queueing => pc'[t] = pc[t] /\ call'[t] = call[t]

LEMMA LookMoves ==
  ASSUME IInv, [Next]_vars, NEW t \in Thread
  PROVE  \/ Looks(t)
         \/ Verify(t) \/ Link(t) \/ \E s \in Source, m \in given : Attach(t, s, m)
         \/ \E s \in Source, names \in Seq(given \cup {None}) : Queue(t, s, names)
<1>0. TypeOK /\ FunOK /\ PlaceInv /\ DataInv
  BY DEF IInv
<1>a. NoCall.seen = <<>> /\ NoCall.entries = <<>>
  BY DEF NoCall
<1> USE DEF Turn, Looks, Locking, Queueing
<1>b. ASSUME NEW u \in Thread, NEW from, NEW to, Turn(u, from, to), to \notin Locking,
             \/ call'[u] = NoCall
             \/ call'[u].seen = <<>> /\ call'[u].entries = <<>>
             \/ call'[u].seen = call[u].seen /\ call'[u].entries = call[u].entries
      PROVE  Looks(t)
  BY <1>a, <1>b
<1>c. ASSUME NEW u \in Thread \ {t}, NEW from, NEW to, Turn(u, from, to)
      PROVE  Looks(t)
  BY <1>c
<1> HIDE DEF Turn, Looks
<1>1. ASSUME NEW u \in Thread, NEW n \in 1 .. Cardinality(Name) + 1, Gen(u, n)
      PROVE  Looks(t)
  <2>1. n \in Nat
    OBVIOUS
  <2> QED
    BY <1>0, <1>1, <1>b, <2>1, GenIs
<1>2. ASSUME NEW u \in Thread, NEW m \in Name, NEW b \in Block, GenNew(u, m, b)
      PROVE  Looks(t)
  BY <1>0, <1>2, <1>b, GenNewIs
<1>3. ASSUME NEW u \in Thread, GenInsert(u)
      PROVE  Looks(t)
  <2>1. call[u].name \in Name
    BY <1>0, <1>3 DEF GenInsert, PlaceInv, PlaceOf, Naming
  <2> QED
    BY <1>0, <1>3, <1>b, <2>1, GenInsertIs
<1>4. ASSUME NEW u \in Thread, GenNoMemory(u) \/ GenRefused(u)
      PROVE  Looks(t)
  <2>1. Undo(u, "gen") \/ Undo(u, "insert")
    BY <1>4 DEF GenNoMemory, GenRefused
  <2> QED
    BY <1>0, <1>b, <2>1, UndoIs
<1>5. ASSUME NEW u \in Thread, NEW S \in SUBSET Name, Delete(u, S)
      PROVE  Looks(t)
  BY <1>0, <1>5, <1>b, DeleteIs
<1>6. ASSUME NEW u \in Thread, NEW m \in Name, Check(u, m)
      PROVE  Looks(t)
  BY <1>0, <1>6, <1>b, CheckIs
<1>7. ASSUME NEW u \in Thread, NEW m \in Name, CheckFails(u, m)
      PROVE  Looks(t)
  BY <1>0, <1>7, <1>b, ReturnIs DEF CheckFails
<1>8. ASSUME NEW u \in Thread, NEW m \in Name, RemoveBuffer(u, m)
      PROVE  Looks(t)
  BY <1>0, <1>8, <1>b, RemoveIs
<1>9. ASSUME NEW u \in Thread, Free(u)
      PROVE  Looks(t)
  BY <1>0, <1>9, <1>b, FreeIs
<1>10. ASSUME NEW u \in Thread, NEW s \in Source, NEW names \in BoundedSeq(given \cup {None}, MaxQueue),
              Queue(u, s, names)
       PROVE  Looks(t) \/ (t = u /\ names \in Seq(given \cup {None}))
  <2>1. names \in Seq(given \cup {None}) /\ given \subseteq Name
    BY <1>0, NamesOK DEF TypeOK
  <2>2. names \in Seq(Name \cup {None})
    BY <2>1
  <2>3. CASE u # t
    BY <1>0, <1>10, <1>c, <2>2, <2>3, QueueIs
  <2> QED
    BY <2>1, <2>3
<1>11. ASSUME NEW u \in Thread \ {t}, NEW s \in Source, NEW m \in given, Attach(u, s, m)
       PROVE  Looks(t)
  <2>1. m \in Name
    BY <1>0 DEF TypeOK
  <2> QED
    BY <1>0, <1>11, <1>c, <2>1, AttachIs
<1>12. CASE UNCHANGED <<pc, call>>
  BY <1>12 DEF Looks
<1> QED
  <2>1. ASSUME NEW m, NEW d, NEW p, Fill(m, d) \/ SetLoopPoints(m, p[1], p[2])
        PROVE  UNCHANGED <<pc, call>>
    BY <2>1 DEF Fill, SetLoopPoints, SetData
  <2>2. ASSUME NEW s, NEW n, Detach(s) \/ Play(s) \/ Stop(s) \/ MixNext(s) \/ Unqueue(s, n)
        PROVE  UNCHANGED <<pc, call>>
    BY <2>2 DEF Detach, Play, Stop, MixNext, Unqueue
  <2>3. CASE UNCHANGED vars
    BY <1>12, <2>3 DEF vars
  <2>4. CASE \E u \in Thread : GenInsert(u) \/ GenNoMemory(u) \/ GenRefused(u) \/ Free(u)
    BY <1>3, <1>4, <1>9, <2>4
  <2>5. CASE \E u \in Thread : Verify(u)
    <3>1. PICK u \in Thread : Verify(u)
      BY <2>5
    <3>2. CASE u # t
      BY <1>0, <1>c, <3>1, <3>2, VerifyIs
    <3> QED
      BY <3>1, <3>2
  <2>6. CASE \E u \in Thread : Link(u)
    <3>1. PICK u \in Thread : Link(u)
      BY <2>6
    <3>2. CASE u # t
      BY <1>0, <1>c, <3>1, <3>2, LinkIs
    <3> QED
      BY <3>1, <3>2
  <2>7. CASE \E u \in Thread : \E m \in Name : CheckFails(u, m)
    BY <1>7, <2>7
  <2>8. CASE \E u \in Thread : VerifyFails(u) \/ AttachStore(u)
    BY <1>0, <1>b, <2>8, ReturnIs DEF VerifyFails, AttachStore, Places
  <2>9. CASE \E u \in Thread : \E s \in Source, m \in given : Attach(u, s, m)
    BY <1>11, <2>9
  <2> QED
    BY <1>1, <1>2, <1>5, <1>6, <1>8, <1>10, <1>12,
       <2>1, <2>2, <2>3, <2>4, <2>5, <2>6, <2>7, <2>8, <2>9 DEF Next
(* What changes the queues, the counts and the list that is being linked.   *)
Rests == UNCHANGED <<queue, ref, raced>> /\ Linking' = Linking

LEMMA RestMoves ==
  ASSUME IInv, [Next]_vars
  PROVE  \/ Rests
         \/ \E t \in Thread : Free(t) \/ Link(t) \/ AttachStore(t)
         \/ \E s \in Source : Detach(s) \/ \E n \in 1 .. MaxQueue : Unqueue(s, n)
<1>0. TypeOK /\ FunOK /\ PlaceInv /\ DataInv
  BY DEF IInv
<1>a. NoCall.entries = <<>>
  BY DEF NoCall
<1> USE DEF Turn, Locking, Queueing
<1>b. ASSUME NEW t \in Thread, NEW from, NEW to, Turn(t, from, to), from \notin Locking,
             UNCHANGED <<queue, ref, raced, holder>>
      PROVE  Rests
  <2>1. holder # None => holder \in Thread \ {t}
    BY <1>0, <1>b DEF TypeOK, PlaceInv, PlaceOf
  <2> QED
    BY <1>b, <2>1 DEF Rests, Linking
<1>c. ASSUME NEW t \in Thread, NEW from, NEW to, Turn(t, from, to),
             UNCHANGED <<queue, ref, raced>>, {holder, holder'} \subseteq {None, t},
             holder = t => call[t].entries = <<>>, holder' = t => call'[t].entries = <<>>
      PROVE  Rests
  BY <1>c DEF Rests, Linking
<1>d. CASE UNCHANGED <<queue, ref, raced, holder, call>>
  BY <1>d DEF Rests, Linking
<1> HIDE DEF Turn
<1>1. ASSUME NEW t \in Thread, NEW n \in 1 .. Cardinality(Name) + 1, Gen(t, n)
      PROVE  Rests
  <2>1. n \in Nat
    OBVIOUS
  <2> QED
    BY <1>0, <1>1, <1>b, <2>1, GenIs DEF Gen, sourceVars
<1>2. ASSUME NEW t \in Thread, NEW m \in Name, NEW b \in Block, GenNew(t, m, b)
      PROVE  Rests
  BY <1>0, <1>2, <1>b, GenNewIs DEF GenNew, sourceVars
<1>3. ASSUME NEW t \in Thread, GenInsert(t)
      PROVE  Rests
  <2>1. call[t].name \in Name
    BY <1>0, <1>3 DEF GenInsert, PlaceInv, PlaceOf, Naming
  <2> QED
    BY <1>0, <1>3, <1>b, <2>1, GenInsertIs DEF GenInsert, sourceVars
<1>4. ASSUME NEW t \in Thread, GenNoMemory(t) \/ GenRefused(t)
      PROVE  Rests
  <2>1. (Undo(t, "gen") \/ Undo(t, "insert")) /\ UNCHANGED <<queue, ref, raced, holder>>
    BY <1>4 DEF GenNoMemory, GenRefused, sourceVars
  <2> QED
    BY <1>0, <1>b, <2>1, UndoIs
<1>5. ASSUME NEW t \in Thread, NEW S \in SUBSET Name, Delete(t, S)
      PROVE  Rests
  BY <1>0, <1>5, <1>b, DeleteIs DEF Delete, sourceVars
<1>6. ASSUME NEW t \in Thread, NEW m \in Name, Check(t, m)
      PROVE  Rests
  BY <1>0, <1>6, <1>b, CheckIs DEF Check, sourceVars
<1>7. ASSUME NEW t \in Thread, NEW m \in Name, CheckFails(t, m)
      PROVE  Rests
  BY <1>0, <1>7, <1>b, ReturnIs DEF CheckFails, sourceVars
<1>8. ASSUME NEW t \in Thread, NEW m \in Name, RemoveBuffer(t, m)
      PROVE  Rests
  BY <1>0, <1>8, <1>b, RemoveIs DEF RemoveBuffer, sourceVars
<1>9. ASSUME NEW t \in Thread, NEW s \in Source, NEW names \in BoundedSeq(given \cup {None}, MaxQueue),
             Queue(t, s, names)
      PROVE  Rests
  <2>1. names \in Seq(given \cup {None}) /\ given \subseteq Name
    BY <1>0, NamesOK DEF TypeOK
  <2>2. names \in Seq(Name \cup {None})
    BY <2>1
  <2>3. holder = None /\ t # None
    BY <1>9, NoneAssumption DEF Queue, Unlocked
  <2> QED
    BY <1>0, <1>9, <1>c, <2>2, <2>3, QueueIs DEF Queue, sourceVars
<1>10. ASSUME NEW t \in Thread, Verify(t)
       PROVE  Rests
  <2>1. /\ pc[t] = "verify" /\ holder = t /\ holder' = t /\ call[t].entries = <<>>
        /\ UNCHANGED <<queue, ref, raced>>
    BY <1>0, <1>10 DEF Verify, PlaceInv, PlaceOf
  <2> QED
    BY <1>0, <1>10, <1>c, <2>1, VerifyIs
<1>11. ASSUME NEW t \in Thread, VerifyFails(t)
       PROVE  Rests
  <2>1. /\ pc[t] = "verify" /\ holder = t /\ holder' = None /\ call[t].entries = <<>>
        /\ UNCHANGED <<queue, ref, raced>>
    BY <1>0, <1>11 DEF VerifyFails, PlaceInv, PlaceOf, sourceVars
  <2> QED
    BY <1>0, <1>11, <1>a, <1>c, <2>1, ReturnIs DEF VerifyFails
<1>12. ASSUME NEW t \in Thread, NEW s \in Source, NEW m \in given, Attach(t, s, m)
       PROVE  Rests
  <2>1. m \in Name /\ holder = None /\ t # None /\ UNCHANGED <<queue, ref, raced>>
    BY <1>0, <1>12, NoneAssumption DEF TypeOK, Attach, Unlocked, sourceVars
  <2> QED
    BY <1>0, <1>12, <1>c, <2>1, AttachIs
<1>13. ASSUME NEW m, NEW d, NEW p, Fill(m, d) \/ SetLoopPoints(m, p[1], p[2])
       PROVE  Rests
  <2>1. UNCHANGED <<queue, ref, raced, holder, call>>
    BY <1>13 DEF Fill, SetLoopPoints, SetData, sourceVars
  <2> QED
    BY <2>1 DEF Rests, Linking
<1>14. ASSUME NEW s, Play(s) \/ Stop(s) \/ MixNext(s)
       PROVE  Rests
  <2>1. UNCHANGED <<queue, ref, raced, holder, call>>
    BY <1>14 DEF Play, Stop, MixNext
  <2> QED
    BY <2>1 DEF Rests, Linking
<1>15. CASE UNCHANGED vars
  BY <1>d, <1>15 DEF vars, sourceVars
<1> QED
  BY <1>1, <1>2, <1>3, <1>4, <1>5, <1>6, <1>7, <1>8, <1>9, <1>10, <1>11, <1>12, <1>13, <1>14, <1>15
  DEF Next

LEMMA EntriesAdded ==
  ASSUME NEW q \in Seq(Entry), NEW r \in Seq(Entry), NEW e \in Entry
  PROVE  /\ Append(q, e) \in Seq(Entry) /\ Len(Append(q, e)) = Len(q) + 1
         /\ Append(q, e) = q \o <<e>>
         /\ \A i \in 1 .. Len(Append(q, e)) : \/ Append(q, e)[i] = e
                                              \/ i \in 1 .. Len(q) /\ Append(q, e)[i] = q[i]
         /\ q \o r \in Seq(Entry)
         /\ \A i \in 1 .. Len(q \o r) : \/ i \in 1 .. Len(q) /\ (q \o r)[i] = q[i]
                                        \/ \E j \in 1 .. Len(r) : (q \o r)[i] = r[j]
<1>1. Len(q) \in Nat /\ Len(r) \in Nat
  BY LenProperties
<1>2. /\ Append(q, e) \in Seq(Entry) /\ Len(Append(q, e)) = Len(q) + 1
      /\ Append(q, e) = q \o <<e>>
      /\ \A i \in 1 .. Len(q) : Append(q, e)[i] = q[i]
      /\ Append(q, e)[Len(q) + 1] = e
  BY AppendProperties, AppendIsConcat
<1>3. /\ q \o r \in Seq(Entry) /\ Len(q \o r) = Len(q) + Len(r)
      /\ \A i \in 1 .. Len(q) + Len(r) : (q \o r)[i] = IF i <= Len(q) THEN q[i] ELSE r[i - Len(q)]
  BY ConcatProperties
<1>4. \A i \in 1 .. Len(q \o r) : \/ i \in 1 .. Len(q) /\ (q \o r)[i] = q[i]
                                  \/ \E j \in 1 .. Len(r) : (q \o r)[i] = r[j]
  <2> SUFFICES ASSUME NEW i \in 1 .. Len(q) + Len(r), i > Len(q)
               PROVE  i - Len(q) \in 1 .. Len(r) /\ (q \o r)[i] = r[i - Len(q)]
    BY <1>1, <1>3
  <2> QED
    BY <1>1, <1>3
<1> QED
  BY <1>1, <1>2, <1>3, <1>4

LEMMA GivenKnown ==
  ASSUME TypeOK, MapInv, NameInv, NEW m \in given \cap Mapped
  PROVE  BufferMap[m] \notin Hidden
<1>1. BufferMap[m] \in allocated /\ BufferMap[m] \notin fresh
  BY DEF MapInv, TypeOK
<1>2. \A t \in Thread : pc[t] = "insert" => call[t].block # BufferMap[m]
  BY DEF NameInv, NameOf, Naming, Mapped
<1>3. \A k \in Mapped \ given : BufferMap[k] # BufferMap[m]
  BY DEF MapInv
<1> QED
  BY <1>1, <1>2, <1>3 DEF Hidden

LEMMA HiddenStep ==
  ASSUME IInv, [Next]_vars
  PROVE  HiddenInv'
<1>0. /\ TypeOK /\ FunOK /\ PlaceInv /\ MapInv /\ NameInv /\ HiddenInv /\ DataInv
      /\ Hidden' \subseteq Hidden /\ Hidden \subseteq Block /\ None \notin Block
  BY HiddenShrinks, NoneAssumption DEF IInv
<1>1. ASSUME NEW t \in Thread, pc[t] \in Queueing
      PROVE  Looked(t) \in Entry /\ Looked(t) \notin Hidden
  <2>1. CASE Looked(t) # None
    BY <1>0, <1>1, <2>1, LookedOK, GivenKnown
  <2>2. CASE Looked(t) = None
    BY <1>0, <2>2 DEF Entry
  <2> QED
    BY <2>1, <2>2
<1>2. ASSUME NEW t \in Thread
      PROVE  HiddenOf(t)'
  <2>1. HiddenOf(t) /\ call[t] \in Calls
    BY <1>0 DEF HiddenInv, FunOK
  <2>2. CASE Looks(t)
    <3>1. Len(<<>>) = 0
      OBVIOUS
    <3> QED
      BY <1>0, <2>1, <2>2, <3>1 DEF Looks, HiddenOf
  <2>3. CASE Verify(t)
    <3>1. /\ pc'[t] # "attach" /\ call'[t].entries = call[t].entries
          /\ call'[t].seen = Append(call[t].seen, Looked(t)) /\ pc[t] = "verify"
      BY <1>0, <2>3, VerifyIs DEF Turn, Verify
    <3>2. \A i \in 1 .. Len(call'[t].seen) : call'[t].seen[i] \notin Hidden
      BY <1>1, <2>1, <3>1, EntriesAdded DEF Queueing, HiddenOf, Calls
    <3> QED
      BY <1>0, <2>1, <3>1, <3>2 DEF HiddenOf
  <2>4. CASE Link(t)
    <3>1. /\ pc'[t] # "attach" /\ pc[t] = "link"
          /\ \/ call'[t] = NoCall
             \/ /\ call'[t].seen = call[t].seen
                /\ call'[t].entries = Append(call[t].entries, Looked(t))
      BY <1>0, <2>4, LinkIs DEF Turn
    <3>2. CASE call'[t] = NoCall
      BY <3>1, <3>2 DEF HiddenOf, NoCall
    <3>3. CASE call'[t] # NoCall
      <4>1. \A i \in 1 .. Len(call'[t].entries) : call'[t].entries[i] \notin Hidden
        BY <1>1, <2>1, <3>1, <3>3, EntriesAdded, SMTT(60) DEF Queueing, HiddenOf, Calls
      <4> QED
        BY <1>0, <2>1, <3>1, <3>3, <4>1 DEF HiddenOf
    <3> QED
      BY <3>2, <3>3
  <2>5. ASSUME NEW s \in Source, NEW m \in given, Attach(t, s, m)
        PROVE  HiddenOf(t)'
    <3>1. m \in Name
      BY <1>0 DEF TypeOK
    <3>2. /\ m \in Mapped /\ call'[t].block = BufferMap[m]
          /\ call'[t].seen = <<>> /\ call'[t].entries = <<>>
      BY <1>0, <2>5, <3>1, AttachIs
    <3> QED
      BY <1>0, <3>2, GivenKnown DEF HiddenOf
  <2>6. ASSUME NEW s \in Source, NEW names \in Seq(given \cup {None}), Queue(t, s, names)
        PROVE  HiddenOf(t)'
    <3>1. names \in Seq(Name \cup {None})
      BY <1>0 DEF TypeOK
    <3>2. pc'[t] = "verify" /\ call'[t].seen = <<>> /\ call'[t].entries = <<>>
      BY <1>0, <2>6, <3>1, QueueIs DEF Turn
    <3> QED
      BY <3>2 DEF HiddenOf
  <2> QED
    BY <2>2, <2>3, <2>4, <2>5, <2>6, LookMoves
<1>3. ASSUME NEW s \in Source, NEW r \in Seq(Entry), queue' = [queue EXCEPT ![s] = r],
             \A i \in 1 .. Len(r) : r[i] \notin Hidden
      PROVE  \A x \in Source : \A i \in 1 .. Len(queue'[x]) : queue'[x][i] \notin Hidden
  BY <1>0, <1>3 DEF HiddenInv, FunOK
<1>b. ASSUME NEW r \in Seq(Entry), \A i \in 1 .. Len(r) : r[i] \notin Hidden
      PROVE  \A b \in Hidden : Held(r, b) = 0
  BY <1>b, HeldType
<1>4. ASSUME NEW old \in Seq(Entry), NEW new \in Seq(Entry), Refer(old, new),
             \A b \in Hidden : Held(old, b) = 0 /\ Held(new, b) = 0
      PROVE  \A b \in Hidden : ref'[b] = 0
  BY <1>0, <1>4, ReferIs DEF HiddenInv
<1>c. /\ \A e \in Entry \ Hidden : \A b \in Hidden : Held(<<e>>, b) = 0
      /\ \A b \in Hidden : Held(<<>>, b) = 0
  BY HeldOne
<1> DEFINE Good == /\ \A b \in Hidden : ref'[b] = 0
                   /\ \A x \in Source : \A i \in 1 .. Len(queue'[x]) : queue'[x][i] \notin Hidden
<1>a. \A x \in Source : queue[x] \in Seq(Entry) /\ \A i \in 1 .. Len(queue[x]) : queue[x][i] \notin Hidden
  BY <1>0 DEF HiddenInv, FunOK
<1>5. ASSUME Rests
      PROVE  Good
  BY <1>0, <1>5 DEF Rests, HiddenInv
<1>6. ASSUME NEW t \in Thread, Free(t)
      PROVE  Good
  BY <1>0, <1>6 DEF Free, sourceVars, HiddenInv, TypeOK
<1>7. ASSUME NEW t \in Thread, Link(t)
      PROVE  Good
  <2>1. /\ pc[t] = "link" /\ call[t].source \in Source /\ call[t].entries \in Seq(Entry)
        /\ Looked(t) \in Entry /\ Looked(t) \notin Hidden
        /\ \A i \in 1 .. Len(call[t].entries) : call[t].entries[i] \notin Hidden
    BY <1>0, <1>1, <1>7 DEF Link, PlaceInv, PlaceOf, Queueing, FunOK, Calls, HiddenInv, HiddenOf
  <2> DEFINE x == Looked(t)
             r == Append(call[t].entries, x)
             s == call[t].source
  <2>2. \/ queue' = queue
        \/ queue' = [queue EXCEPT ![s] = queue[s] \o r]
    BY <1>0, <1>7, LinkIs
  <2>3. Refer(<<>>, <<x>>)
    BY <1>7 DEF Link
  <2> HIDE DEF x, s
  <2>4. r \in Seq(Entry) /\ \A i \in 1 .. Len(r) : r[i] \notin Hidden
    BY <2>1, EntriesAdded DEF x
  <2> HIDE DEF r
  <2>5. queue[s] \o r \in Seq(Entry) /\ \A i \in 1 .. Len(queue[s] \o r) : (queue[s] \o r)[i] \notin Hidden
    BY <1>a, <2>1, <2>4, EntriesAdded DEF s, Entry
  <2>6. \A y \in Source : \A i \in 1 .. Len(queue'[y]) : queue'[y][i] \notin Hidden
    BY <1>3, <1>a, <2>1, <2>2, <2>5 DEF s
  <2>7. <<>> \in Seq(Entry) /\ <<x>> \in Seq(Entry)
    BY <2>1, Small DEF x
  <2>8. \A b \in Hidden : Held(<<>>, b) = 0 /\ Held(<<x>>, b) = 0
    BY <1>c, <2>1 DEF x
  <2>9. \A b \in Hidden : ref'[b] = 0
    BY ONLY <1>4, <2>3, <2>7, <2>8
  <2> QED
    BY <2>6, <2>9
<1>8. ASSUME NEW t \in Thread, AttachStore(t)
      PROVE  Good
  <2> DEFINE s == call[t].source
             b == call[t].block
  <2>1. /\ pc[t] = "attach" /\ s \in Source /\ b \in Entry /\ b \notin Hidden
        /\ queue[s] \in Seq(Entry) /\ <<b>> \in Seq(Entry)
        /\ \A i \in 1 .. Len(<<b>>) : <<b>>[i] \notin Hidden
    BY <1>0, <1>8 DEF AttachStore, Return, Go, PlaceInv, PlaceOf, Entry, FunOK, HiddenInv, HiddenOf
  <2>2. Refer(queue[s], <<b>>) /\ queue' = [queue EXCEPT ![s] = <<b>>]
    BY <1>8 DEF AttachStore
  <2>3. \A c \in Hidden : Held(queue[s], c) = 0 /\ Held(<<b>>, c) = 0
    BY <1>a, <1>b, <2>1
  <2> DEFINE l == <<b>>
  <2> HIDE DEF s, b, l
  <2>4. \A c \in Hidden : ref'[c] = 0
    BY <1>4, <2>1, <2>2, <2>3 DEF l
  <2> QED
    BY <1>3, <2>1, <2>2, <2>4 DEF l
<1>9. ASSUME NEW s \in Source, Detach(s)
      PROVE  Good
  <2>1. Refer(queue[s], <<>>) /\ queue' = [queue EXCEPT ![s] = <<>>]
    BY <1>9 DEF Detach
  <2>2. <<>> \in Seq(Entry) /\ \A i \in 1 .. Len(<<>>) : <<>>[i] \notin Hidden
    OBVIOUS
  <2>3. \A c \in Hidden : Held(queue[s], c) = 0 /\ Held(<<>>, c) = 0
    BY <1>a, <1>b, <1>c
  <2> DEFINE l == <<>>
  <2> HIDE DEF l
  <2>4. \A c \in Hidden : ref'[c] = 0
    BY <1>4, <1>a, <2>1, <2>2, <2>3 DEF l
  <2> QED
    BY <1>3, <2>1, <2>2, <2>4 DEF l
<1>10. ASSUME NEW s \in Source, NEW n \in 1 .. MaxQueue, Unqueue(s, n)
       PROVE  Good
  <2>1. /\ n \in Int /\ n >= 1 /\ n <= BuffersPlayed[s]
        /\ BuffersPlayed[s] \in Int /\ BuffersPlayed[s] <= Len(queue[s])
        /\ queue[s] \in Seq(Entry) /\ Len(queue[s]) \in Nat
    BY <1>0, <1>10, LenProperties DEF Unqueue, Unqueueable, TypeOK
  <2>2. n \in 0 .. Len(queue[s])
    BY <2>1
  <2> DEFINE front == SubSeq(queue[s], 1, n)
             rest == SubSeq(queue[s], n + 1, Len(queue[s]))
  <2>3. /\ front \in Seq(Entry) /\ rest \in Seq(Entry)
        /\ \A i \in 1 .. Len(front) : front[i] = queue[s][i] /\ i \in 1 .. Len(queue[s])
        /\ \A i \in 1 .. Len(rest) : rest[i] = queue[s][i + n] /\ i + n \in 1 .. Len(queue[s])
    BY <2>1, <2>2, Cut
  <2>4. Refer(front, <<>>) /\ queue' = [queue EXCEPT ![s] = rest]
    BY <1>0, <1>10 DEF Unqueue, FunOK
  <2> HIDE DEF front, rest
  <2>5. /\ \A i \in 1 .. Len(front) : front[i] \notin Hidden
        /\ \A i \in 1 .. Len(rest) : rest[i] \notin Hidden
    BY <1>a, <2>3
  <2>6. \A c \in Hidden : Held(front, c) = 0 /\ Held(<<>>, c) = 0
    BY <1>b, <1>c, <2>3, <2>5
  <2>7. \A c \in Hidden : ref'[c] = 0
    BY <1>4, <2>3, <2>4, <2>6, Small
  <2> QED
    BY <1>3, <2>3, <2>4, <2>5, <2>7
<1>11. Good
  BY <1>5, <1>6, <1>7, <1>8, <1>9, <1>10, RestMoves
<1> QED
  BY <1>0, <1>2, <1>11 DEF HiddenInv
-----------------------------------------------------------------------------
(* References.                                                              *)

LEMMA Races ==
  ASSUME IInv, [Next]_vars, ~raced'
  PROVE  ~raced
<1>1. CASE Rests
  BY <1>1 DEF Rests
<1>2. ASSUME NEW t \in Thread, Free(t) \/ Link(t) \/ AttachStore(t)
      PROVE  ~raced
  BY <1>2 DEF Free, Link, AttachStore
<1>3. ASSUME NEW s \in Source, NEW n, Detach(s) \/ Unqueue(s, n)
      PROVE  ~raced
  BY <1>3 DEF Detach, Unqueue
<1> QED
  BY <1>1, <1>2, <1>3, RestMoves

LEMMA LinkingIs ==
  ASSUME TypeOK, FunOK, PlaceInv
  PROVE  /\ Linking \in Seq(Entry)
         /\ Unlocked => Linking = <<>>
         /\ \A t \in Thread : pc[t] \in Locking => holder = t /\ Linking = call[t].entries
<1>1. \A t \in Thread : call[t].entries \in Seq(Entry) /\ t # None
  BY NoneAssumption DEF FunOK, Calls
<1>2. \A t \in Thread : pc[t] \in Locking => holder = t
  BY DEF PlaceInv, PlaceOf
<1>3. holder \in Thread \cup {None} /\ <<>> \in Seq(Entry)
  BY Small DEF TypeOK
<1> QED
  BY <1>1, <1>2, <1>3 DEF Linking, Unlocked

(* A buffer in a queue, or in the list being linked, has a count.           *)
LEMMA Counted ==
  ASSUME IInv, ~raced, NEW b \in Block, ref[b] = 0
  PROVE  /\ \A s \in Source : \A i \in 1 .. Len(queue[s]) : queue[s][i] # b
         /\ \A i \in 1 .. Len(Linking) : Linking[i] # b
<1>1. /\ TypeOK /\ FunOK /\ PlaceInv /\ RefsInv
  BY DEF IInv
<1>2. Linking \in Seq(Entry)
  BY <1>1, LinkingIs
<1>3. /\ Held(Linking, b) \in Nat
      /\ Held(Linking, b) = 0 => \A i \in 1 .. Len(Linking) : Linking[i] # b
  BY <1>2, HeldType
<1>4. IsFiniteSet(Spots(queue, b))
  BY <1>1, SpotsFinite DEF Spots, FunOK
<1>5. Cardinality(Spots(queue, b)) \in Nat /\ (Cardinality(Spots(queue, b)) = 0 <=> Spots(queue, b) = {})
  BY <1>4, FS_CardinalityType, FS_EmptySet
<1>6. Cardinality(Spots(queue, b)) + Held(Linking, b) = 0
  BY <1>1 DEF RefsInv
<1>7. Spots(queue, b) = {} /\ Held(Linking, b) = 0
  BY <1>3, <1>5, <1>6
<1>8. ASSUME NEW s \in Source, NEW i \in 1 .. Len(queue[s]), queue[s][i] = b
      PROVE  FALSE
  <2>1. <<s, i>> \in Spots(queue, b)
    BY <1>8 DEF Spots, SpotsOf, Indices
  <2> QED
    BY <1>7, <2>1
<1> QED
  BY <1>3, <1>7, <1>8

(* What is given back to the allocator is in no queue.                      *)
LEMMA FreedUnqueued ==
  ASSUME IInv, ~raced, NEW t \in Thread, pc[t] \in Naming
  PROVE  /\ \A s \in Source : \A i \in 1 .. Len(queue[s]) : queue[s][i] # call[t].block
         /\ \A i \in 1 .. Len(Linking) : Linking[i] # call[t].block
<1>1. /\ TypeOK /\ FunOK /\ PlaceInv /\ LiveInv /\ NameOf(t) /\ call[t].block # None
  BY NoneAssumption DEF IInv, NameInv, PlaceInv, PlaceOf
<1>2. call[t].block \notin Live
  BY <1>1 DEF NameOf, Live, Mapped
<1> QED
  BY <1>1, <1>2 DEF LiveInv

LEMMA Uncounted ==
  ASSUME NEW q \in [Source -> Seq(Entry)], NEW b,
         \A s \in Source : \A i \in 1 .. Len(q[s]) : q[s][i] # b
  PROVE  Cardinality(Spots(q, b)) = 0
<1>1. Spots(q, b) = {}
  BY DEF Spots, SpotsOf, Indices
<1> QED
  BY <1>1, FS_EmptySet

(* A queue is replaced, and the list that is linked.                        *)
LEMMA RefsChange ==
  ASSUME IInv, ~raced, NEW s \in Source, NEW r \in Seq(Entry),
         NEW old \in Seq(Entry), NEW new \in Seq(Entry), Refer(old, new),
         queue' = [queue EXCEPT ![s] = r],
         \A b \in Block : Held(r, b) + Held(Linking', b) - Held(queue[s], b) - Held(Linking, b)
                          = Held(new, b) - Held(old, b),
         Linking' \in Seq(Entry)
  PROVE  RefsInv'
<1>0. TypeOK /\ FunOK /\ PlaceInv /\ RefsInv
  BY DEF IInv
<1> SUFFICES ASSUME NEW b \in Block
             PROVE  ref'[b] = Cardinality(Spots(queue', b)) + Held(Linking', b)
  BY DEF RefsInv, Spots, SpotsOf, Indices, Held
<1>1. queue \in [Source -> Seq(Entry)] /\ queue[s] \in Seq(Entry)
  BY <1>0 DEF FunOK
<1>2. /\ Cardinality(Spots(queue, b)) \in Nat
      /\ Cardinality(Spots(queue', b)) = Cardinality(Spots(queue, b)) - Held(queue[s], b) + Held(r, b)
  BY <1>1, SpotsChange
<1>3. ref[b] = Cardinality(Spots(queue, b)) + Held(Linking, b)
  BY <1>0 DEF RefsInv
<1>4. ref'[b] = ref[b] - Held(old, b) + Held(new, b)
  BY <1>0, ReferIs
<1>5. /\ Held(old, b) \in Nat /\ Held(new, b) \in Nat /\ Held(r, b) \in Nat
      /\ Held(Linking, b) \in Nat /\ Held(Linking', b) \in Nat /\ Held(queue[s], b) \in Nat
  BY <1>0, <1>1, HeldType, LinkingIs
<1>6. Held(r, b) + Held(Linking', b) - Held(queue[s], b) - Held(Linking, b)
      = Held(new, b) - Held(old, b)
  OBVIOUS
<1> DEFINE hr == Held(r, b)
           hl == Held(Linking', b)
           kq == Held(queue[s], b)
           kl == Held(Linking, b)
           hn == Held(new, b)
           ho == Held(old, b)
           c == Cardinality(Spots(queue, b))
           d == Cardinality(Spots(queue', b))
<1> HIDE DEF hr, hl, kq, kl, hn, ho, c, d
<1>7. c \in Nat /\ d = c - kq + hr /\ ref[b] = c + kl /\ ref'[b] = ref[b] - ho + hn
  BY <1>2, <1>3, <1>4 DEF hr, hl, kq, kl, hn, ho, c, d
<1>8. ho \in Nat /\ hn \in Nat /\ hr \in Nat /\ kl \in Nat /\ hl \in Nat /\ kq \in Nat
  BY <1>5 DEF hr, hl, kq, kl, hn, ho
<1>9. hr + hl - kq - kl = hn - ho
  BY <1>6 DEF hr, hl, kq, kl, hn, ho
<1>10. ref'[b] = d + hl
  BY <1>7, <1>8, <1>9
<1> QED
  BY <1>10 DEF d, hl
LEMMA RefsStep ==
  ASSUME IInv, [Next]_vars
  PROVE  RefsInv'
<1> SUFFICES ASSUME ~raced'
             PROVE  RefsInv'
  BY DEF RefsInv
<1>0. TypeOK /\ FunOK /\ PlaceInv /\ RefsInv /\ ~raced /\ TypeOK' /\ FunOK' /\ PlaceInv'
  BY TypeStep, PlaceStep, Races DEF IInv
<1>a. Linking \in Seq(Entry) /\ Linking' \in Seq(Entry)
  <2>1. holder' \in Thread \cup {None} /\ \A t \in Thread : call'[t].entries \in Seq(Entry)
    BY <1>0 DEF TypeOK, FunOK, Calls
  <2> QED
    BY <1>0, <2>1, LinkingIs, Small DEF Linking
<1>b. \A q \in Seq(Entry) : \A b : Held(q, b) \in Nat
  BY HeldType
<1>c. \A b : Held(<<>>, b) = 0
  BY HeldOne
<1>1. CASE Rests
  BY <1>0, <1>1 DEF Rests, RefsInv, Spots, SpotsOf, Indices, Held
<1>2. ASSUME NEW t \in Thread, Free(t)
      PROVE  RefsInv'
  <2> DEFINE f == call[t].block
  <2>1. /\ pc[t] = "free" /\ f \in Block /\ queue' = queue /\ holder' = holder
        /\ ref' = [ref EXCEPT ![f] = 0]
    BY <1>0, <1>2 DEF Free, PlaceInv, PlaceOf, Naming, sourceVars
  <2>2. Linking' = Linking
    <3>1. holder # None => holder \in Thread \ {t}
      BY <1>0, <2>1 DEF TypeOK, PlaceInv, PlaceOf, Locking, Queueing
    <3>2. \A u \in Thread \ {t} : call'[u] = call[u]
      BY <1>0, <1>2, FreeIs DEF Turn
    <3> QED
      BY <2>1, <3>1, <3>2 DEF Linking
  <2>3. Cardinality(Spots(queue, f)) = 0 /\ Held(Linking, f) = 0
    <3>1. /\ \A s \in Source : \A i \in 1 .. Len(queue[s]) : queue[s][i] # f
          /\ \A i \in 1 .. Len(Linking) : Linking[i] # f
      BY <1>0, <2>1, FreedUnqueued DEF Naming
    <3> QED
      BY <1>0, <1>a, <3>1, Uncounted, HeldType DEF FunOK
  <2>4. \A b \in Block : ref'[b] = Cardinality(Spots(queue, b)) + Held(Linking, b)
    <3> HIDE DEF f
    <3>1. \A b \in Block \ {f} : ref'[b] = ref[b]
      BY <1>0, <2>1 DEF TypeOK
    <3>2. ref'[f] = 0
      BY <1>0, <2>1 DEF TypeOK
    <3> QED
      BY <1>0, <2>3, <3>1, <3>2 DEF RefsInv
  <2> QED
    BY <2>1, <2>2, <2>4 DEF RefsInv, Spots, SpotsOf, Indices, Held
<1>3. ASSUME NEW t \in Thread, Link(t)
      PROVE  RefsInv'
  <2> DEFINE x == Looked(t)
             e == call[t].entries
             r == Append(e, x)
             s == call[t].source
  <2>1. /\ pc[t] = "link" /\ s \in Source /\ e \in Seq(Entry) /\ x \in Entry
        /\ Linking = e /\ holder = t /\ t # None /\ Refer(<<>>, <<x>>)
    BY <1>0, <1>3, LinkIs, LinkingIs, NoneAssumption, ZenonT(30)
    DEF Link, PlaceInv, PlaceOf, Queueing, Locking, FunOK, Calls
  <2>2. \/ /\ queue' = [queue EXCEPT ![s] = queue[s] \o r] /\ Linking' = <<>>
        \/ queue' = queue /\ Linking' = r
    <3>1. \/ /\ holder' = None /\ queue' = [queue EXCEPT ![s] = queue[s] \o r]
          \/ holder' = holder /\ queue' = queue /\ call'[t].entries = r
      BY <1>0, <1>3, LinkIs
    <3> QED
      BY <2>1, <3>1 DEF Linking
  <2> HIDE DEF x, e, s
  <2>3. r \in Seq(Entry) /\ r = e \o <<x>> /\ <<x>> \in Seq(Entry) /\ queue[s] \in Seq(Entry)
    BY <1>0, <2>1, EntriesAdded, Small DEF FunOK
  <2>4. \A b : Held(r, b) = Held(e, b) + Held(<<x>>, b) /\ Held(r, b) \in Nat
               /\ Held(e, b) \in Nat /\ Held(<<x>>, b) \in Nat
    <3> SUFFICES ASSUME NEW b
                 PROVE  Held(r, b) = Held(e, b) + Held(<<x>>, b)
      BY <1>b, <2>1, <2>3
    <3> DEFINE o == <<x>>
    <3> HIDE DEF o, r
    <3>1. o \in Seq(Entry) /\ r = e \o o
      BY <2>3 DEF o
    <3>2. Held(e \o o, b) = Held(e, b) + Held(o, b)
      BY <2>1, <3>1, HeldConcat
    <3> QED
      BY <3>1, <3>2 DEF o
  <2> HIDE DEF r
  <2>5. CASE queue' = [queue EXCEPT ![s] = queue[s] \o r] /\ Linking' = <<>>
    <3>1. queue[s] \o r \in Seq(Entry)
      BY <2>3, EntriesAdded, Small
    <3>2. \A b : Held(queue[s] \o r, b) = Held(queue[s], b) + Held(r, b) /\ Held(queue[s], b) \in Nat
      BY <2>3, HeldConcat, <1>b
    <3>3. \A b \in Block : Held(queue[s] \o r, b) + Held(Linking', b) - Held(queue[s], b) - Held(Linking, b)
                           = Held(<<x>>, b) - Held(<<>>, b)
      <4> SUFFICES ASSUME NEW b \in Block
                   PROVE  Held(queue[s] \o r, b) + Held(Linking', b) - Held(queue[s], b)
                            - Held(Linking, b) = Held(<<x>>, b) - Held(<<>>, b)
        OBVIOUS
      <4>1. Held(Linking', b) = 0 /\ Held(Linking, b) = Held(e, b) /\ Held(<<>>, b) = 0
        BY <1>c, <2>1, <2>5
      <4> DEFINE hq == Held(queue[s], b)
                 he == Held(e, b)
                 hx == Held(<<x>>, b)
                 hr == Held(r, b)
                 hs == Held(queue[s] \o r, b)
      <4>2. hq \in Nat /\ he \in Nat /\ hx \in Nat /\ hr = he + hx /\ hs = hq + hr
        BY <2>4, <3>2
      <4> HIDE DEF hq, he, hx, hr, hs
      <4>3. hs + 0 - hq - he = hx - 0
        BY <4>2
      <4> QED
        BY <4>1, <4>3 DEF hq, he, hx, hs
    <3> DEFINE l == queue[s] \o r
               n == <<>>
               o == <<x>>
    <3>4. n \in Seq(Entry)
      BY Small
    <3>5. /\ l \in Seq(Entry) /\ o \in Seq(Entry) /\ Refer(n, o)
          /\ queue' = [queue EXCEPT ![s] = l]
          /\ \A b \in Block : Held(l, b) + Held(Linking', b) - Held(queue[s], b) - Held(Linking, b)
                              = Held(o, b) - Held(n, b)
      BY <2>1, <2>3, <2>5, <3>1, <3>3
    <3>6. s \in Source /\ ~raced /\ Linking' \in Seq(Entry)
      BY <1>0, <1>a, <2>1
    <3> HIDE DEF l, n, o
    <3> QED
      BY ONLY IInv, <3>4, <3>5, <3>6, RefsChange
  <2>6. CASE queue' = queue /\ Linking' = r
    <3> SUFFICES ASSUME NEW b \in Block
                 PROVE  ref'[b] = Cardinality(Spots(queue, b)) + Held(Linking', b)
      BY <2>6 DEF RefsInv, Spots, SpotsOf, Indices, Held
    <3>1. ref'[b] = ref[b] - 0 + Held(<<x>>, b)
      <4> DEFINE n == <<>>
                 o == <<x>>
      <4>1. n \in Seq(Entry) /\ o \in Seq(Entry) /\ Refer(n, o) /\ Held(n, b) = 0
        BY <1>c, <2>1, <2>3, Small
      <4> HIDE DEF n, o
      <4>2. ref'[b] = ref[b] - Held(n, b) + Held(o, b)
        BY <1>0, <4>1, ReferIs
      <4> QED
        BY <4>1, <4>2 DEF o
    <3>2. ref[b] = Cardinality(Spots(queue, b)) + Held(e, b)
      BY <1>0, <2>1 DEF RefsInv
    <3>3. Cardinality(Spots(queue, b)) \in Nat
      BY <1>0, <2>1, <2>3, SpotsChange DEF FunOK
    <3>4. Held(Linking', b) = Held(e, b) + Held(<<x>>, b)
      BY <2>4, <2>6
    <3>5. Held(e, b) \in Nat /\ Held(<<x>>, b) \in Nat
      BY <2>4
    <3> QED
      BY <3>1, <3>2, <3>3, <3>4, <3>5
  <2> QED
    BY <2>2, <2>5, <2>6
<1>4. ASSUME NEW t \in Thread, AttachStore(t)
      PROVE  RefsInv'
  <2> DEFINE s == call[t].source
             l == <<call[t].block>>
  <2>1. /\ pc[t] = "attach" /\ s \in Source /\ queue[s] \in Seq(Entry) /\ l \in Seq(Entry)
        /\ Refer(queue[s], l) /\ queue' = [queue EXCEPT ![s] = l] /\ holder' = None
    BY <1>0, <1>4 DEF AttachStore, Return, Go, PlaceInv, PlaceOf, Entry, FunOK
  <2>2. Linking = <<>> /\ Linking' = <<>>
    BY <1>0, <2>1, LinkingIs DEF PlaceInv, PlaceOf, Locking, Linking
  <2> HIDE DEF s, l
  <2>3. \A b \in Block : Held(l, b) + Held(Linking', b) - Held(queue[s], b) - Held(Linking, b)
                         = Held(l, b) - Held(queue[s], b)
    BY <1>b, <1>c, <2>1, <2>2
  <2> QED
    BY <1>0, <1>a, <2>1, <2>3, RefsChange
<1>5. ASSUME NEW s \in Source, Detach(s)
      PROVE  RefsInv'
  <2> DEFINE l == <<>>
  <2>1. /\ Refer(queue[s], l) /\ queue' = [queue EXCEPT ![s] = l] /\ queue[s] \in Seq(Entry)
        /\ l \in Seq(Entry) /\ Linking = <<>> /\ Linking' = <<>>
    BY <1>0, <1>5, LinkingIs, Small DEF Detach, FunOK, Unlocked, Linking
  <2>2. \A b \in Block : Held(l, b) + Held(Linking', b) - Held(queue[s], b) - Held(Linking, b)
                         = Held(l, b) - Held(queue[s], b)
    BY <1>b, <1>c, <2>1
  <2> HIDE DEF l
  <2> QED
    BY <1>0, <1>a, <2>1, <2>2, RefsChange, ZenonT(30)
<1>6. ASSUME NEW s \in Source, NEW n \in 1 .. MaxQueue, Unqueue(s, n)
      PROVE  RefsInv'
  <2>1. /\ n \in Int /\ n >= 1 /\ n <= BuffersPlayed[s]
        /\ BuffersPlayed[s] \in Int /\ BuffersPlayed[s] <= Len(queue[s])
        /\ queue[s] \in Seq(Entry) /\ Len(queue[s]) \in Nat
    BY <1>0, <1>6, LenProperties DEF Unqueue, Unqueueable, TypeOK
  <2>2. n \in 0 .. Len(queue[s])
    BY <2>1
  <2> DEFINE front == SubSeq(queue[s], 1, n)
             rest == SubSeq(queue[s], n + 1, Len(queue[s]))
             l == <<>>
  <2>3. /\ front \in Seq(Entry) /\ rest \in Seq(Entry)
        /\ \A b : Held(queue[s], b) = Held(front, b) + Held(rest, b)
    BY <2>1, <2>2, Cut
  <2>4. /\ Refer(front, l) /\ queue' = [queue EXCEPT ![s] = rest]
        /\ Linking = <<>> /\ Linking' = <<>> /\ l \in Seq(Entry)
    BY <1>0, <1>6, LinkingIs, Small DEF Unqueue, FunOK, Unlocked, Linking
  <2> HIDE DEF front, rest
  <2>5. \A b \in Block : Held(rest, b) + Held(Linking', b) - Held(queue[s], b) - Held(Linking, b)
                         = Held(l, b) - Held(front, b)
    BY <1>b, <1>c, <2>3, <2>4
  <2> HIDE DEF l
  <2> QED
    BY ONLY IInv, <1>0, <1>a, <2>3, <2>4, <2>5, RefsChange, ZenonT(30)
<1> QED
  BY <1>1, <1>2, <1>3, <1>4, <1>5, <1>6, RestMoves
-----------------------------------------------------------------------------
(* Data.                                                                    *)

LEMMA DataMoves ==
  ASSUME [Next]_vars
  PROVE  \/ data' = data
         \/ \E t \in Thread : Free(t)
         \/ \E m \in given, d \in Loaded : Fill(m, d)
         \/ \E m \in given, p \in Loop : SetLoopPoints(m, p[1], p[2])
BY ZenonT(30) DEF Next, vars, Gen, GenNew, GenInsert, GenNoMemory, GenRefused, Delete, Check, CheckFails,
       RemoveBuffer, Queue, Verify, VerifyFails, Link, Attach, AttachStore, Detach, Play, Stop,
       MixNext, Unqueue

LEMMA DataStep ==
  ASSUME IInv, [Next]_vars
  PROVE  DataInv'
<1>0. TypeOK /\ FunOK /\ PlaceInv /\ DataInv
  BY DEF IInv
<1>1. CASE data' = data
  BY <1>0, <1>1 DEF DataInv
<1>2. ASSUME NEW b \in Block, NEW d, DataOK(d), data' = [data EXCEPT ![b] = d]
      PROVE  DataInv'
  BY <1>0, <1>2 DEF DataInv, FunOK
<1>3. ASSUME NEW t \in Thread, Free(t)
      PROVE  DataInv'
  BY <1>0, <1>2, <1>3, NewOK DEF Free, PlaceInv, PlaceOf, Naming
<1>4. ASSUME NEW m \in given, NEW d \in Loaded, Fill(m, d)
      PROVE  DataInv'
  <2>1. BufferMap[m] \in Block
    BY <1>0, <1>4, Small DEF Fill, Unused, TypeOK
  <2> QED
    BY <1>2, <1>4, <2>1, LoadOK DEF Fill, SetData
<1>5. ASSUME NEW m \in given, NEW p \in Loop, SetLoopPoints(m, p[1], p[2])
      PROVE  DataInv'
  <2>1. BufferMap[m] \in Block /\ p[1] \in Nat /\ p[2] \in Nat
    BY <1>0, <1>5, Small, LoopAssumption DEF SetLoopPoints, Unused, TypeOK
  <2>2. DataOK(SetLoop(data[BufferMap[m]], p[1], p[2]))
    BY <1>0, <1>5, <2>1, LoopOK DEF SetLoopPoints, DataInv
  <2> QED
    BY <1>2, <1>5, <2>1, <2>2 DEF SetLoopPoints, SetData
<1> QED
  BY <1>1, <1>3, <1>4, <1>5, DataMoves
-----------------------------------------------------------------------------
(* A buffer with a count keeps a name that no deletion has tested.          *)

DoomedBy(u) == IF pc[u] = "check" THEN call[u].done
               ELSE IF pc[u] \in {"remove", "free"} THEN call[u].todo ELSE {}

LEMMA DoomedIs ==
  ASSUME NEW u \in Thread
  PROVE  DoomedBy(u) \subseteq Doomed
<1> DEFINE A == {v \in Thread : pc[v] = "check"}
           B == {v \in Thread : pc[v] \in {"remove", "free"}}
           S == {call[v].done : v \in A}
           T == {call[v].todo : v \in B}
<1>1. Doomed = (UNION S) \cup (UNION T)
  BY DEF Doomed
<1>2. CASE u \in A
  <2>1. DoomedBy(u) = call[u].done /\ call[u].done \in S
    BY <1>2 DEF DoomedBy
  <2> HIDE DEF S, T
  <2> QED
    BY <1>1, <2>1
<1>3. CASE u \in B
  <2>1. DoomedBy(u) = call[u].todo /\ call[u].todo \in T
    BY <1>3 DEF DoomedBy
  <2> HIDE DEF S, T
  <2> QED
    BY <1>1, <2>1
<1>4. CASE u \notin A \cup B
  BY <1>4 DEF DoomedBy
<1> QED
  BY <1>2, <1>3, <1>4

LEMMA LiveStays ==
  ASSUME IInv, [Next]_vars, NEW b \in Block, ref[b] # 0, b \in Live
  PROVE  b \in Live'
<1>0. TypeOK /\ FunOK /\ PlaceInv /\ MapInv /\ NameInv /\ b # None
  BY NoneAssumption DEF IInv
<1>1. PICK k \in Mapped : BufferMap[k] = b /\ k \notin Doomed
  BY DEF Live
<1>2. k \in Name /\ \A u \in Thread : k \notin DoomedBy(u)
  BY <1>1, DoomedIs DEF Mapped
<1>3. ASSUME BufferMap'[k] = b, \A u \in Thread : k \notin DoomedBy(u)'
      PROVE  b \in Live'
  <2>1. k \in Mapped'
    BY <1>0, <1>2, <1>3 DEF Mapped
  <2>2. k \notin Doomed'
    <3> SUFFICES ASSUME k \in Doomed' PROVE FALSE
      OBVIOUS
    <3> DEFINE A == {v \in Thread : pc'[v] = "check"}
               B == {v \in Thread : pc'[v] \in {"remove", "free"}}
               S == {call'[v].done : v \in A}
               T == {call'[v].todo : v \in B}
    <3>2. k \in (UNION S) \cup (UNION T)
      BY DEF Doomed
    <3> HIDE DEF S, T
    <3>3. \E X \in S \cup T : k \in X
      BY <3>2
    <3>1. (\E v \in A : k \in call'[v].done) \/ (\E v \in B : k \in call'[v].todo)
      BY <3>3 DEF S, T
    <3> QED
      BY <1>3, <3>1 DEF DoomedBy
  <2> QED
    BY <1>3, <2>1, <2>2 DEF Live
<1>4. CASE Quiet
  <2>1. BufferMap' = BufferMap /\ \A u \in Thread : DoomedBy(u)' \in {DoomedBy(u), {}}
    BY <1>4 DEF Quiet, bufferVars, DoomedBy, Locking, Queueing
  <2> QED
    BY <1>1, <1>2, <1>3, <2>1
<1>a. ASSUME NEW t \in Thread, NEW from, NEW to, Turn(t, from, to), BufferMap' = BufferMap,
             k \notin DoomedBy(t)'
      PROVE  b \in Live'
  <2>1. \A u \in Thread \ {t} : DoomedBy(u)' = DoomedBy(u)
    BY <1>a DEF Turn, DoomedBy
  <2> QED
    BY <1>1, <1>2, <1>3, <1>a, <2>1
<1>5. ASSUME NEW t \in Thread, NEW n \in Nat, Gen(t, n)
      PROVE  b \in Live'
  <2>1. Turn(t, "idle", "gen") /\ BufferMap' = BufferMap
    BY <1>0, <1>5, GenIs DEF Gen, bufferVars
  <2> QED
    BY <1>a, <2>1 DEF Turn, DoomedBy
<1>6. ASSUME NEW t \in Thread, NEW m \in Name, NEW c \in Block, GenNew(t, m, c)
      PROVE  b \in Live'
  <2>1. Turn(t, "gen", "insert") /\ BufferMap' = BufferMap
    BY <1>0, <1>6, GenNewIs DEF GenNew
  <2> QED
    BY <1>a, <2>1 DEF Turn, DoomedBy
<1>7. ASSUME NEW t \in Thread, GenInsert(t)
      PROVE  b \in Live'
  <2>1. pc[t] = "insert" /\ call[t].name \in Name /\ k # call[t].name
    BY <1>0, <1>1, <1>7 DEF GenInsert, PlaceInv, PlaceOf, NameInv, NameOf, Naming
  <2>2. Turn(t, "insert", "idle") \/ Turn(t, "insert", "gen")
    BY <1>0, <1>7, <2>1, GenInsertIs
  <2>3. BufferMap'[k] = b
    BY <1>0, <1>1, <1>2, <1>7, <2>1 DEF GenInsert, TypeOK
  <2>4. \A u \in Thread : DoomedBy(u)' \in {DoomedBy(u), {}}
    BY <2>2 DEF Turn, DoomedBy
  <2> QED
    BY <1>2, <1>3, <2>3, <2>4
<1>8. ASSUME NEW t \in Thread, GenNoMemory(t) \/ GenRefused(t)
      PROVE  b \in Live'
  <2>1. BufferMap' = BufferMap /\ (Undo(t, "gen") \/ Undo(t, "insert"))
    BY <1>8 DEF GenNoMemory, GenRefused, bufferVars
  <2>2. \E from \in {"gen", "insert"} :
          Turn(t, from, "idle") \/ (Turn(t, from, "check") /\ call'[t].done = {})
    BY <1>0, <2>1, UndoIs
  <2> QED
    BY <1>a, <2>1, <2>2 DEF Turn, DoomedBy
<1>9. ASSUME NEW t \in Thread, NEW S \in SUBSET Name, Delete(t, S)
      PROVE  b \in Live'
  <2>1. Turn(t, "idle", "check") /\ call'[t].done = {} /\ BufferMap' = BufferMap
    BY <1>0, <1>9, DeleteIs DEF Delete, bufferVars
  <2> QED
    BY <1>a, <2>1 DEF Turn, DoomedBy
<1>10. ASSUME NEW t \in Thread, NEW m \in Name, Check(t, m)
       PROVE  b \in Live'
  <2>1. /\ \/ Turn(t, "check", "remove") /\ call[t].todo = call[t].done \cup {m}
           \/ Turn(t, "check", "check") /\ call'[t].done = call[t].done \cup {m}
        /\ call'[t].todo = call[t].todo
        /\ BufferMap' = BufferMap /\ Unused(m)
    BY <1>0, <1>10, CheckIs DEF Check, bufferVars
  <2>2. m # k
    BY <1>1, <2>1 DEF Unused, InUse
  <2>3. DoomedBy(t)' = DoomedBy(t) \cup {m}
    BY <2>1 DEF Turn, DoomedBy
  <2> QED
    BY <1>a, <1>2, <2>1, <2>2, <2>3
<1>11. ASSUME NEW t \in Thread, NEW m \in Name, CheckFails(t, m)
       PROVE  b \in Live'
  <2>1. Turn(t, "check", "idle") /\ BufferMap' = BufferMap
    BY <1>0, <1>11, ReturnIs DEF CheckFails, bufferVars
  <2> QED
    BY <1>a, <2>1 DEF Turn, DoomedBy
<1>12. ASSUME NEW t \in Thread, NEW m \in Name, RemoveBuffer(t, m)
       PROVE  b \in Live'
  <2>1. /\ m \in call[t].todo
        /\ \/ /\ Turn(t, "remove", "free") \/ Turn(t, "remove", "remove")
              /\ call'[t].todo = call[t].todo \ {m}
           \/ Turn(t, "remove", "idle")
    BY <1>0, <1>12, RemoveIs
  <2>2. m \in DoomedBy(t) /\ \A u \in Thread : DoomedBy(u)' \subseteq DoomedBy(u)
    BY <2>1 DEF Turn, DoomedBy
  <2>3. BufferMap'[k] = b
    BY <1>0, <1>1, <1>2, <1>12, <2>2 DEF RemoveBuffer, TypeOK
  <2> QED
    BY <1>2, <1>3, <2>2, <2>3
<1>13. ASSUME NEW t \in Thread, Free(t)
       PROVE  b \in Live'
  <2>1. /\ Turn(t, "free", "idle") \/ (Turn(t, "free", "remove") /\ call'[t].todo = call[t].todo)
        /\ BufferMap' = BufferMap
    BY <1>0, <1>13, FreeIs DEF Free
  <2>2. DoomedBy(t)' \subseteq DoomedBy(t)
    BY <2>1 DEF Turn, DoomedBy
  <2> QED
    BY <1>a, <1>2, <2>1, <2>2
<1> QED
  BY <1>4, <1>5, <1>6, <1>7, <1>8, <1>9, <1>10, <1>11, <1>12, <1>13, Quieter

LEMMA LiveStep ==
  ASSUME IInv, [Next]_vars
  PROVE  LiveInv'
<1> SUFFICES ASSUME ~raced'
             PROVE  LiveInv'
  BY DEF LiveInv
<1>0. TypeOK /\ FunOK /\ PlaceInv /\ LiveInv /\ RefsInv /\ ~raced /\ TypeOK' /\ FunOK'
  BY TypeStep, Races DEF IInv
<1> DEFINE Ok(e) == e \in Live' \cup {None}
           Good == /\ \A s \in Source : \A i \in 1 .. Len(queue'[s]) : Ok(queue'[s][i])
                   /\ \A i \in 1 .. Len(Linking') : Ok(Linking'[i])
<1> HIDE DEF Ok
<1>1. ASSUME NEW e \in Entry, e \in Live \cup {None}, e # None => ref[e] # 0
      PROVE  Ok(e)
  BY <1>1, LiveStays, Small DEF Ok
<1>2. ASSUME NEW s \in Source
      PROVE  queue[s] \in Seq(Entry) /\ \A i \in 1 .. Len(queue[s]) : Ok(queue[s][i])
  <2>1. queue[s] \in Seq(Entry)
    BY <1>0 DEF FunOK
  <2> SUFFICES ASSUME NEW i \in 1 .. Len(queue[s])
               PROVE  Ok(queue[s][i])
    BY <2>1
  <2>2. queue[s][i] \in Entry /\ (queue[s][i] \in Live \cup {None})
    BY <1>0, <2>1, ElementOfSeq DEF LiveInv
  <2>3. queue[s][i] # None => ref[queue[s][i]] # 0
    BY <1>0, <2>2, Counted, Small
  <2> QED
    BY <1>1, <2>2, <2>3
<1>3. Linking \in Seq(Entry) /\ \A i \in 1 .. Len(Linking) : Ok(Linking[i])
  <2>1. Linking \in Seq(Entry)
    BY <1>0, LinkingIs
  <2> SUFFICES ASSUME NEW i \in 1 .. Len(Linking)
               PROVE  Ok(Linking[i])
    BY <2>1
  <2>2. Linking[i] \in Entry /\ (Linking[i] \in Live \cup {None})
    BY <1>0, <2>1, ElementOfSeq DEF LiveInv
  <2>3. Linking[i] # None => ref[Linking[i]] # 0
    BY <1>0, <2>2, Counted, Small
  <2> QED
    BY <1>1, <2>2, <2>3
<1>4. ASSUME NEW s \in Source, NEW r \in Seq(Entry), queue' = [queue EXCEPT ![s] = r],
             \A i \in 1 .. Len(r) : Ok(r[i]), Linking' = <<>>
      PROVE  Good
  <2>1. \A x \in Source : \A i \in 1 .. Len(queue'[x]) : Ok(queue'[x][i])
    BY <1>0, <1>2, <1>4 DEF FunOK
  <2>2. \A i \in 1 .. Len(Linking') : Ok(Linking'[i])
    BY <1>4
  <2> QED
    BY <2>1, <2>2
<1>5. ASSUME Rests
      PROVE  Good
  BY <1>2, <1>3, <1>5 DEF Rests
<1>6. ASSUME NEW t \in Thread, Free(t)
      PROVE  Good
  <2>1. pc[t] = "free" /\ queue' = queue /\ holder' = holder
    BY <1>6 DEF Free, sourceVars
  <2>2. holder # None => holder \in Thread \ {t}
    BY <1>0, <2>1 DEF TypeOK, PlaceInv, PlaceOf, Locking, Queueing
  <2>3. \A u \in Thread \ {t} : call'[u] = call[u]
    BY <1>0, <1>6, FreeIs DEF Turn
  <2>4. Linking' = Linking
    BY <2>1, <2>2, <2>3 DEF Linking
  <2> QED
    BY <1>2, <1>3, <2>1, <2>4
<1>7. ASSUME NEW t \in Thread, Link(t)
      PROVE  Good
  <2> DEFINE x == Looked(t)
             e == call[t].entries
             r == Append(e, x)
             s == call[t].source
  <2>1. /\ pc[t] = "link" /\ s \in Source /\ e \in Seq(Entry) /\ x \in Entry
        /\ Linking = e /\ holder = t /\ t # None
    BY <1>0, <1>7, LinkIs, LinkingIs, NoneAssumption
    DEF Link, PlaceInv, PlaceOf, Queueing, Locking, FunOK, Calls
  <2>2. \/ /\ queue' = [queue EXCEPT ![s] = queue[s] \o r] /\ Linking' = <<>>
        \/ queue' = queue /\ Linking' = r
    <3>1. \/ /\ holder' = None /\ queue' = [queue EXCEPT ![s] = queue[s] \o r]
          \/ holder' = holder /\ queue' = queue /\ call'[t].entries = r
      BY <1>0, <1>7, LinkIs
    <3> QED
      BY <2>1, <3>1 DEF Linking
  <2>3. Ok(x)
    <3>1. x # None => Asked(t) \in Mapped /\ x = BufferMap[Asked(t)]
      BY <1>0, <2>1, LookedOK DEF Queueing
    <3>2. Asked(t) \notin Doomed
      BY <1>7 DEF Link
    <3>3. UNCHANGED BufferMap
      BY <1>7 DEF Link, bufferVars
    <3>4. Doomed' = Doomed
      <4>1. \A u \in Thread : /\ pc'[u] = "check" <=> pc[u] = "check"
                              /\ pc'[u] \in {"remove", "free"} <=> pc[u] \in {"remove", "free"}
                              /\ pc[u] \in Removing => call'[u] = call[u]
        BY <1>0, <1>7, LinkIs DEF Turn, Removing
      <4> QED
        BY <4>1 DEF Doomed, Removing
    <3>5. x # None => Asked(t) \in Mapped' \ Doomed' /\ x = BufferMap'[Asked(t)]
      BY <3>1, <3>2, <3>3, <3>4 DEF Mapped
    <3> QED
      BY <3>5 DEF Ok, Live
  <2> HIDE DEF x, e, s
  <2>4. r \in Seq(Entry) /\ \A i \in 1 .. Len(r) : Ok(r[i])
    BY <1>3, <2>1, <2>3, EntriesAdded, Small
  <2> HIDE DEF r
  <2>5. queue[s] \o r \in Seq(Entry) /\ \A i \in 1 .. Len(queue[s] \o r) : Ok((queue[s] \o r)[i])
    BY <1>2, <2>1, <2>4, EntriesAdded, Small
  <2>6. CASE queue' = queue /\ Linking' = r
    BY <1>2, <2>4, <2>6
  <2>7. CASE queue' = [queue EXCEPT ![s] = queue[s] \o r] /\ Linking' = <<>>
    <3> DEFINE l == queue[s] \o r
    <3>1. l \in Seq(Entry) /\ queue' = [queue EXCEPT ![s] = l] /\ \A i \in 1 .. Len(l) : Ok(l[i])
      BY <2>5, <2>7
    <3> HIDE DEF l, Good
    <3> QED
      BY <1>4, <2>1, <2>7, <3>1
  <2> QED
    BY <2>2, <2>6, <2>7
<1>8. ASSUME NEW t \in Thread, AttachStore(t)
      PROVE  Good
  <2> DEFINE s == call[t].source
             b == call[t].block
             l == <<b>>
  <2>1. /\ pc[t] = "attach" /\ s \in Source /\ b \in Block /\ call[t].name \in given
        /\ queue' = [queue EXCEPT ![s] = l] /\ holder' = None
    BY <1>0, <1>8 DEF AttachStore, Return, Go, PlaceInv, PlaceOf
  <2>2. Ok(b)
    <3>1. call[t].name \notin Doomed /\ BufferMap[call[t].name] = b /\ UNCHANGED BufferMap
      BY <1>8 DEF AttachStore, bufferVars
    <3>2. Doomed' = Doomed
      <4>1. \A u \in Thread : /\ pc'[u] = "check" <=> pc[u] = "check"
                              /\ pc'[u] \in {"remove", "free"} <=> pc[u] \in {"remove", "free"}
                              /\ pc[u] \in Removing => call'[u] = call[u]
        BY <1>0, <1>8, ReturnIs DEF Turn, Removing, AttachStore
      <4> QED
        BY <4>1 DEF Doomed, Removing
    <3>3. call[t].name \in Mapped
      BY <1>0, <2>1, <3>1, NoneAssumption DEF Mapped, TypeOK
    <3>4. call[t].name \in Mapped' \ Doomed' /\ b = BufferMap'[call[t].name]
      BY <3>1, <3>2, <3>3 DEF Mapped
    <3> QED
      BY <3>4 DEF Ok, Live
  <2>3. l \in Seq(Entry) /\ \A i \in 1 .. Len(l) : Ok(l[i])
    <3> HIDE DEF b
    <3> QED
      BY <2>1, <2>2 DEF Entry
  <2>4. Linking' = <<>>
    BY <2>1 DEF Linking
  <2> HIDE DEF s, b, l, Good
  <2> QED
    BY <1>4, <2>1, <2>3, <2>4
<1>9. ASSUME NEW s \in Source, Detach(s)
      PROVE  Good
  <2> DEFINE l == <<>>
  <2>1. /\ queue' = [queue EXCEPT ![s] = l] /\ l \in Seq(Entry)
        /\ Linking' = <<>> /\ \A i \in 1 .. Len(l) : Ok(l[i])
    BY <1>9, Small DEF Detach, Unlocked, Linking
  <2> HIDE DEF l, Good
  <2> QED
    BY <1>4, <2>1
<1>10. ASSUME NEW s \in Source, NEW n \in 1 .. MaxQueue, Unqueue(s, n)
       PROVE  Good
  <2>1. /\ n \in Int /\ n >= 1 /\ n <= BuffersPlayed[s]
        /\ BuffersPlayed[s] \in Int /\ BuffersPlayed[s] <= Len(queue[s])
        /\ queue[s] \in Seq(Entry) /\ Len(queue[s]) \in Nat
    BY <1>0, <1>10, LenProperties DEF Unqueue, Unqueueable, TypeOK
  <2>2. n \in 0 .. Len(queue[s])
    BY <2>1
  <2> DEFINE rest == SubSeq(queue[s], n + 1, Len(queue[s]))
  <2>3. /\ rest \in Seq(Entry)
        /\ \A i \in 1 .. Len(rest) : rest[i] = queue[s][i + n] /\ i + n \in 1 .. Len(queue[s])
    BY <2>1, <2>2, Cut
  <2>4. queue' = [queue EXCEPT ![s] = rest] /\ Linking' = <<>>
    BY <1>0, <1>10 DEF Unqueue, FunOK, Unlocked, Linking
  <2> HIDE DEF rest
  <2>5. \A i \in 1 .. Len(rest) : Ok(rest[i])
    BY <1>2, <2>3
  <2> HIDE DEF Good
  <2> QED
    BY <1>4, <2>3, <2>4, <2>5
<1>11. Good
  BY <1>5, <1>6, <1>7, <1>8, <1>9, <1>10, RestMoves
<1> QED
  BY <1>11 DEF LiveInv, Ok
-----------------------------------------------------------------------------
(* Formats.                                                                 *)

LEMMA KeepsOne ==
  ASSUME NEW f, NEW x, NEW y, Keeps(f, x), Keeps(f, y)
  PROVE  x = y
<1>1. Format(NewData)[2] = 0
  BY DEF Format, NewData
<1> QED
  BY <1>1 DEF Keeps

LEMMA MixMoves ==
  ASSUME [Next]_vars
  PROVE  \/ mixfmt' = mixfmt
         \/ \E t \in Thread : Verify(t) \/ AttachStore(t)
BY ZenonT(30) DEF Next, vars, sourceVars, Gen, GenNew, GenInsert, GenNoMemory, GenRefused, Delete, Check,
       CheckFails, RemoveBuffer, Free, Queue, VerifyFails, Link, Attach, Fill, SetLoopPoints, SetData,
       Detach, Play, Stop, MixNext, Unqueue

(* A name that gets a buffer gets one that no queue call has seen.          *)
LEMMA MapKeeps ==
  ASSUME IInv, [Next]_vars, NEW m \in Mapped'
  PROVE  BufferMap'[m] \in Hidden \/ (m \in Mapped /\ BufferMap'[m] = BufferMap[m])
<1>0. TypeOK /\ PlaceInv /\ m \in Name /\ BufferMap'[m] # None
  BY DEF IInv, Mapped
<1>1. CASE BufferMap' = BufferMap
  BY <1>0, <1>1 DEF Mapped
<1>2. ASSUME NEW t \in Thread, Entered(t)
      PROVE  BufferMap'[m] \in Hidden \/ (m \in Mapped /\ BufferMap'[m] = BufferMap[m])
  <2>1. call[t].block \in Hidden /\ call[t].name \in Name
    BY <1>0, <1>2 DEF Entered, Hidden, PlaceInv, PlaceOf
  <2> QED
    BY <1>0, <1>2, <2>1 DEF Entered, TypeOK, Mapped
<1>3. ASSUME NEW t \in Thread, NEW k \in Name, Removed(t, k)
      PROVE  m \in Mapped /\ BufferMap'[m] = BufferMap[m]
  BY <1>0, <1>3 DEF Removed, TypeOK, Mapped
<1> QED
  BY <1>1, <1>2, <1>3, NameMoves DEF Quiet, bufferVars, NewName, GivenBack, NoName

(* Only a deletion changes the data of a buffer while a call holds the lock,*)
(* and the buffer is then in no queue.                                      *)
LEMMA DataUnqueued ==
  ASSUME IInv, [Next]_vars, ~raced, NEW b \in Block, data'[b] # data[b]
  PROVE  /\ \A s \in Source : \A i \in 1 .. Len(queue[s]) : queue[s][i] # b
         /\ \A i \in 1 .. Len(Linking) : Linking[i] # b
         /\ UNCHANGED <<queue, mixfmt>>
         /\ Unlocked \/ \A m \in Mapped : BufferMap[m] # b
<1>0. TypeOK /\ FunOK /\ PlaceInv /\ NameInv
  BY DEF IInv
<1>1. ASSUME NEW t \in Thread, Free(t)
      PROVE  /\ b = call[t].block /\ pc[t] \in Naming /\ UNCHANGED <<queue, mixfmt>>
             /\ \A m \in Mapped : BufferMap[m] # b
  <2>1. pc[t] = "free" /\ data' = [data EXCEPT ![call[t].block] = NewData]
        /\ UNCHANGED <<queue, mixfmt>>
    BY <1>1 DEF Free, sourceVars
  <2>2. b = call[t].block
    BY <1>0, <2>1 DEF FunOK
  <2> QED
    BY <1>0, <2>1, <2>2 DEF NameInv, NameOf, Naming, Mapped
<1>2. ASSUME NEW m \in given, NEW d, Unused(m), Unlocked, SetData(BufferMap[m], d)
      PROVE  b = BufferMap[m] /\ ref[b] = 0 /\ UNCHANGED <<queue, mixfmt>> /\ Unlocked
  BY <1>0, <1>2 DEF FunOK, SetData, Unused, InUse, sourceVars
<1>3. CASE \E t \in Thread : Free(t)
  BY <1>1, <1>3, FreedUnqueued
<1>4. CASE \/ \E m \in given, d \in Loaded : Fill(m, d)
           \/ \E m \in given, p \in Loop : SetLoopPoints(m, p[1], p[2])
  <2>1. \E m \in given : \E d : Unused(m) /\ Unlocked /\ SetData(BufferMap[m], d)
    BY <1>4 DEF Fill, SetLoopPoints
  <2>2. ref[b] = 0 /\ UNCHANGED <<queue, mixfmt>> /\ Unlocked
    BY <1>2, <2>1
  <2> QED
    BY <2>2, Counted
<1> QED
  BY <1>3, <1>4, DataMoves
(* A queue call: what it links has the format the source has got.           *)
LEMMA FormatCall ==
  ASSUME IInv, [Next]_vars, ~raced', NEW u \in Thread
  PROVE  FormatAt(u)'
<1>0. /\ TypeOK /\ FunOK /\ PlaceInv /\ HiddenInv /\ DataInv /\ FormatInv /\ ~raced
      /\ FormatAt(u) /\ call[u] \in Calls /\ None \notin Block
  BY Races, NoneAssumption DEF IInv, FormatInv, FunOK
<1> DEFINE c == call[u]
           src == call[u].source
           b == Looked(u)
           New(x) == x # None => Stored(data'[x]) = mixfmt'[call'[u].source]
<1>1. ASSUME pc'[u] \in Queueing => FALSE
      PROVE  FormatAt(u)'
  BY <1>1 DEF FormatAt, Queueing
<1>2. ASSUME pc'[u] = "verify" =>
               IF call'[u].fmt = None THEN /\ queue'[call'[u].source] \in Seq({None})
                                           /\ call'[u].seen \in Seq({None})
               ELSE Keeps(call'[u].fmt, mixfmt'[call'[u].source]),
             \A i \in 1 .. Len(call'[u].seen) : \A m \in Mapped' :
               BufferMap'[m] = call'[u].seen[i] => New(call'[u].seen[i]),
             pc'[u] = "link" => \A i \in 1 .. Len(call'[u].entries) : New(call'[u].entries[i])
      PROVE  FormatAt(u)'
  BY <1>2 DEF FormatAt, Matches
<1>3. ASSUME Looks(u), pc'[u] \in Queueing, ~Verify(u), ~Link(u)
      PROVE  FormatAt(u)'
  <2>1. pc'[u] = pc[u] /\ call'[u] = call[u] /\ pc[u] \in Queueing /\ src \in Source
    BY <1>0, <1>3 DEF Looks, PlaceInv, PlaceOf
  <2>2. holder = u /\ u # None /\ ~Unlocked /\ Linking = call[u].entries
    BY <1>0, <2>1, LinkingIs, NoneAssumption DEF Unlocked, Locking
  <2>3. \A t \in Thread : pc[t] \in Locking => t = u
    BY <1>0, <2>2 DEF PlaceInv, PlaceOf
  <2>4. mixfmt' = mixfmt
    <3>1. ASSUME NEW t \in Thread, Verify(t) \/ AttachStore(t)
          PROVE  FALSE
      <4>1. pc[t] \in {"verify", "attach"}
        BY <3>1 DEF Verify, AttachStore, Return, Go
      <4>2. t = u /\ pc[t] = "verify"
        BY <2>1, <2>3, <4>1 DEF Locking, Queueing
      <4> QED
        BY <1>3, <3>1, <4>2 DEF AttachStore, Return, Go
    <3> QED
      BY <3>1, MixMoves
  <2>5. queue' = queue
    <3>1. ASSUME NEW t \in Thread, Link(t) \/ AttachStore(t)
          PROVE  FALSE
      <4>1. pc[t] \in {"link", "attach"}
        BY <3>1 DEF Link, AttachStore, Return, Go
      <4>2. t = u /\ pc[t] = "link"
        BY <2>1, <2>3, <4>1 DEF Locking, Queueing
      <4> QED
        BY <1>3, <3>1, <4>2 DEF AttachStore, Return, Go
    <3>2. ASSUME NEW s \in Source, NEW n, Detach(s) \/ Unqueue(s, n)
          PROVE  FALSE
      BY <2>2, <3>2 DEF Detach, Unqueue
    <3>3. ASSUME NEW t \in Thread, Free(t)
          PROVE  queue' = queue
      BY <3>3 DEF Free, sourceVars
    <3> QED
      BY <3>1, <3>2, <3>3, RestMoves DEF Rests
  <2>6. ASSUME NEW x \in Block, data'[x] # data[x]
        PROVE  /\ \A i \in 1 .. Len(call[u].entries) : call[u].entries[i] # x
               /\ \A m \in Mapped : BufferMap[m] # x
    BY <1>0, <2>2, <2>6, DataUnqueued
  <2>7. ASSUME NEW i \in 1 .. Len(call[u].seen), NEW m \in Mapped', BufferMap'[m] = call[u].seen[i]
        PROVE  New(call[u].seen[i])
    <3>1. call[u].seen[i] \notin Hidden
      BY <1>0 DEF HiddenInv, HiddenOf
    <3>2. m \in Mapped /\ BufferMap[m] = call[u].seen[i] /\ BufferMap[m] \in Block
      BY <1>0, <2>7, <3>1, MapKeeps, Small DEF Mapped, TypeOK
    <3>3. Matches(src, call[u].seen[i])
      BY <1>0, <2>1, <3>2 DEF FormatAt
    <3> QED
      BY <2>1, <2>4, <2>6, <3>2, <3>3 DEF Matches
  <2>8. ASSUME pc[u] = "link", NEW i \in 1 .. Len(call[u].entries)
        PROVE  New(call[u].entries[i])
    <3>1. Matches(src, call[u].entries[i]) /\ call[u].entries[i] \in Entry
      BY <1>0, <2>8, ElementOfSeq DEF FormatAt, Calls
    <3> QED
      BY <2>1, <2>4, <2>6, <3>1, Small DEF Matches
  <2> HIDE DEF New
  <2> QED
    BY <1>0, <1>2, <2>1, <2>4, <2>5, <2>7, <2>8 DEF FormatAt
<1>4. ASSUME Verify(u)
      PROVE  FormatAt(u)'
  <2>1. /\ \/ pc'[u] = "link"
           \/ /\ pc'[u] = "verify"
              /\ call'[u].fmt = IF b # None /\ c.fmt = None THEN Format(data[b]) ELSE c.fmt
        /\ call'[u].source = src /\ call'[u].seen = Append(c.seen, b)
        /\ call'[u].entries = c.entries /\ pc[u] = "verify" /\ Accepted(u)
        /\ UNCHANGED <<data, queue, BufferMap>>
        /\ mixfmt' = IF b # None /\ c.fmt = None THEN [mixfmt EXCEPT ![src] = Stored(data[b])] ELSE mixfmt
    BY <1>0, <1>4, VerifyIs DEF Verify, Turn, bufferVars
  <2>2. src \in Source /\ b \in Entry /\ c.seen \in Seq(Entry) /\ c.entries = <<>> /\ mixfmt \in [Source -> Mixes]
    BY <1>0, <2>1, LookedOK DEF PlaceInv, PlaceOf, Queueing, FunOK, Calls
  <2>3. c.fmt = None => queue[src] \in Seq({None}) /\ c.seen \in Seq({None})
    BY <1>0, <2>1 DEF FormatAt
  <2>4. c.fmt # None => Keeps(c.fmt, mixfmt[src])
    BY <1>0, <2>1 DEF FormatAt
  <2>5. b # None => Keeps(Format(data[b]), Stored(data[b])) /\ Format(data[b]) # None
    BY <1>0, <2>2, Small DEF DataInv, DataOK
  <2>6. b # None => Stored(data[b]) = mixfmt'[src]
    <3>1. CASE c.fmt = None
      BY <2>1, <2>2, <3>1
    <3>2. CASE c.fmt # None
      BY <2>1, <2>4, <2>5, <3>2, KeepsOne DEF Accepted, Fits, Looked
    <3> QED
      BY <3>1, <3>2
  <2>7. ASSUME NEW i \in 1 .. Len(c.seen), NEW m \in Mapped, BufferMap[m] = c.seen[i]
        PROVE  Stored(data[c.seen[i]]) = mixfmt'[src]
    <3>1. c.fmt # None
      <4> SUFFICES ASSUME c.fmt = None PROVE FALSE
        OBVIOUS
      <4>1. c.seen[i] = None
        BY <2>3, ElementOfSeq
      <4> QED
        BY <2>7, <4>1 DEF Mapped
    <3>2. Matches(src, c.seen[i])
      BY <1>0, <2>1, <2>7 DEF FormatAt, Queueing
    <3>3. c.seen[i] # None
      BY <2>7 DEF Mapped
    <3> QED
      BY <2>1, <3>1, <3>2, <3>3 DEF Matches
  <2>8. Mapped' = Mapped
    BY <2>1 DEF Mapped
  <2>9. ASSUME NEW i \in 1 .. Len(call'[u].seen), NEW m \in Mapped', BufferMap'[m] = call'[u].seen[i]
        PROVE  New(call'[u].seen[i])
    <3> DEFINE q == c.seen
    <3>1. call'[u].seen = Append(q, b) /\ q \in Seq(Entry)
      BY <2>1, <2>2
    <3> HIDE DEF q, b
    <3>2. call'[u].seen[i] = b \/ (i \in 1 .. Len(q) /\ call'[u].seen[i] = q[i])
      BY <2>2, <3>1, EntriesAdded, Small
    <3> USE DEF q
    <3> QED
      BY <2>1, <2>6, <2>7, <2>8, <2>9, <3>2
  <2>10. ASSUME pc'[u] = "verify"
         PROVE  IF call'[u].fmt = None THEN /\ queue'[call'[u].source] \in Seq({None})
                                            /\ call'[u].seen \in Seq({None})
                ELSE Keeps(call'[u].fmt, mixfmt'[call'[u].source])
    <3>1. CASE c.fmt = None /\ b = None
      <4>1. Append(c.seen, None) \in Seq({None})
        BY <2>3, <3>1
      <4> QED
        BY <2>1, <2>3, <2>10, <3>1, <4>1
    <3>2. CASE c.fmt = None /\ b # None
      BY <2>1, <2>5, <2>6, <2>10, <3>2
    <3>3. CASE c.fmt # None
      BY <2>1, <2>4, <2>10, <3>3
    <3> QED
      BY <3>1, <3>2, <3>3
  <2>11. \A i \in 1 .. Len(call'[u].entries) : New(call'[u].entries[i])
    BY <2>1, <2>2
  <2> HIDE DEF New
  <2> QED
    BY <1>2, <2>9, <2>10, <2>11
<1>5. ASSUME Link(u), pc'[u] \in Queueing
      PROVE  FormatAt(u)'
  <2>1. /\ pc'[u] = "link" /\ pc[u] = "link" /\ call'[u].source = src /\ call'[u].seen = c.seen
        /\ call'[u].entries = Append(c.entries, b) /\ UNCHANGED <<data, mixfmt, BufferMap>>
        /\ b = c.seen[c.n + 1]
    BY <1>0, <1>5, LinkIs DEF Link, Turn, bufferVars, Queueing
  <2>2. c.entries \in Seq(Entry) /\ b \in Entry /\ Mapped' = Mapped
    BY <1>0, <2>1, LookedOK DEF Calls, Queueing, Mapped
  <2>3. New(b)
    <3> SUFFICES ASSUME b # None PROVE Matches(src, b)
      BY <2>1 DEF Matches
    <3>1. Asked(u) \in Mapped /\ BufferMap[Asked(u)] = b
      BY <1>0, <2>1, LookedOK DEF Queueing
    <3>2. c.n + 1 \in 1 .. Len(c.seen)
      <4>1. c.n \in Nat /\ Len(c.names) \in Nat /\ c.n < Len(c.names) /\ Len(c.seen) = Len(c.names)
        BY <1>0, <2>1, LenProperties DEF PlaceInv, PlaceOf, Calls, Queueing
      <4> QED
        BY <4>1
    <3> QED
      BY <1>0, <2>1, <3>1, <3>2 DEF FormatAt, Queueing
  <2>4. ASSUME NEW i \in 1 .. Len(c.entries)
        PROVE  New(c.entries[i])
    BY <1>0, <2>1 DEF FormatAt, Matches
  <2>5. ASSUME NEW i \in 1 .. Len(call'[u].entries)
        PROVE  New(call'[u].entries[i])
    <3> DEFINE q == c.entries
    <3>1. call'[u].entries = Append(q, b) /\ q \in Seq(Entry)
      BY <2>1, <2>2
    <3> HIDE DEF q, b
    <3>2. call'[u].entries[i] = b \/ (i \in 1 .. Len(q) /\ call'[u].entries[i] = q[i])
      BY <2>2, <3>1, EntriesAdded, Small
    <3> USE DEF q
    <3> HIDE DEF New
    <3> QED
      BY <2>3, <2>4, <3>2
  <2>6. \A i \in 1 .. Len(call'[u].seen) : \A m \in Mapped' :
          BufferMap'[m] = call'[u].seen[i] => New(call'[u].seen[i])
    BY <1>0, <2>1, <2>2 DEF FormatAt, Matches, Queueing
  <2> HIDE DEF New
  <2> QED
    BY <1>2, <2>1, <2>5, <2>6
<1>6. ASSUME NEW s \in Source, NEW names \in Seq(given \cup {None}), Queue(u, s, names)
      PROVE  FormatAt(u)'
  <2>1. names \in Seq(Name \cup {None})
    BY <1>0 DEF TypeOK
  <2>2. /\ pc'[u] = "verify" /\ call'[u].source = s /\ call'[u].fmt = FormatOf(queue[s])
        /\ call'[u].seen = <<>>
    BY <1>0, <1>6, <2>1, QueueIs DEF Turn
  <2>3. UNCHANGED <<data, queue, mixfmt>> /\ queue[s] \in Seq(Entry)
    BY <1>0, <1>6 DEF Queue, sourceVars, FunOK
  <2>4. CASE queue[s] \in Seq({None}) /\ FormatOf(queue[s]) = None
    <3>1. <<>> \in Seq({None}) /\ \A i \in 1 .. Len(<<>>) : FALSE
      OBVIOUS
    <3> HIDE DEF New
    <3> QED
      BY <1>2, <2>2, <2>3, <2>4, <3>1
  <2>5. ASSUME NEW i \in 1 .. Len(queue[s]), queue[s][i] # None,
               FormatOf(queue[s]) = Format(data[queue[s][i]])
        PROVE  FormatAt(u)'
    <3>1. queue[s][i] \in Block
      BY <2>3, <2>5, ElementOfSeq, Small
    <3>2. Matches(s, queue[s][i])
      BY <1>0 DEF FormatInv
    <3>3. FormatOf(queue[s]) # None /\ Keeps(FormatOf(queue[s]), mixfmt[s])
      BY <1>0, <2>5, <3>1, <3>2 DEF DataInv, DataOK, Matches
    <3>4. \A k \in 1 .. Len(<<>>) : FALSE
      OBVIOUS
    <3> HIDE DEF New
    <3> QED
      BY <1>2, <2>2, <2>3, <3>3, <3>4
  <2> QED
    BY <2>3, <2>4, <2>5, FormatOfIs
<1>7. ASSUME NEW s \in Source, NEW m \in given, Attach(u, s, m)
      PROVE  FormatAt(u)'
  <2>1. m \in Name
    BY <1>0 DEF TypeOK
  <2>2. pc'[u] = "attach"
    BY <1>0, <1>7, <2>1, AttachIs DEF Turn
  <2> QED
    BY <2>2, <1>1 DEF Queueing
<1> QED
  BY <1>1, <1>3, <1>4, <1>5, <1>6, <1>7, LookMoves

LEMMA FormatStep ==
  ASSUME IInv, [Next]_vars
  PROVE  FormatInv'
<1> SUFFICES ASSUME ~raced'
             PROVE  FormatInv'
  BY DEF FormatInv
<1>0. TypeOK /\ FunOK /\ PlaceInv /\ DataInv /\ FormatInv /\ ~raced
  BY Races DEF IInv
<1> DEFINE Old(s, x) == x # None => Stored(data[x]) = mixfmt[s]
           New(s, x) == x # None => Stored(data'[x]) = mixfmt'[s]
           Good == \A s \in Source : \A i \in 1 .. Len(queue'[s]) : New(s, queue'[s][i])
<1>1. ASSUME NEW s \in Source
      PROVE  /\ queue[s] \in Seq(Entry)
             /\ \A i \in 1 .. Len(queue[s]) : queue[s][i] \in Entry /\ Old(s, queue[s][i])
  <2>1. queue[s] \in Seq(Entry)
    BY <1>0 DEF FunOK
  <2> QED
    BY <1>0, <2>1, ElementOfSeq DEF FormatInv, Matches
<1>2. ASSUME NEW s \in Source, NEW r \in Seq(Entry), queue' = [queue EXCEPT ![s] = r],
             data' = data, \A x \in Source \ {s} : mixfmt'[x] = mixfmt[x],
             \A i \in 1 .. Len(r) : New(s, r[i])
      PROVE  Good
  BY <1>0, <1>1, <1>2 DEF FunOK
<1>3. CASE data' # data
  <2>1. \E b \in Block : data'[b] # data[b]
    <3>1. data \in [Block -> Datas] /\ data' \in [Block -> Datas]
      BY TypeStep, <1>0 DEF FunOK
    <3> QED
      BY <1>3, <3>1
  <2>2. UNCHANGED <<queue, mixfmt>>
    BY <1>0, <2>1, DataUnqueued
  <2>3. \A s \in Source : \A i \in 1 .. Len(queue[s]) :
          queue[s][i] # None => data'[queue[s][i]] = data[queue[s][i]]
    BY <1>0, <1>1, DataUnqueued, Small
  <2>4. Good
    BY <1>1, <2>2, <2>3
  <2> QED
    BY <2>4, FormatCall DEF FormatInv, Matches
<1>4. ASSUME NEW t \in Thread, Verify(t)
      PROVE  Good
  <2> DEFINE src == call[t].source
  <2>1. /\ pc[t] = "verify" /\ src \in Source /\ UNCHANGED <<data, queue>>
        /\ \/ mixfmt' = mixfmt
           \/ /\ call[t].fmt = None
              /\ mixfmt' = [mixfmt EXCEPT ![src] = Stored(data[Looked(t)])]
    BY <1>0, <1>4 DEF Verify, PlaceInv, PlaceOf, Queueing
  <2>2. call[t].fmt = None => queue[src] \in Seq({None})
    BY <1>0, <2>1 DEF FormatInv, FormatAt
  <2>3. call[t].fmt = None => \A i \in 1 .. Len(queue[src]) : queue[src][i] = None
    BY <2>2, ElementOfSeq
  <2>4. \A s \in Source \ {src} : mixfmt'[s] = mixfmt[s]
    BY <1>0, <2>1 DEF FunOK
  <2> QED
    BY <1>1, <2>1, <2>3, <2>4
<1>5. ASSUME NEW t \in Thread, AttachStore(t)
      PROVE  Good
  <2> DEFINE s == call[t].source
             b == call[t].block
             l == <<b>>
  <2>1. /\ s \in Source /\ b \in Block /\ data' = data
        /\ queue' = [queue EXCEPT ![s] = l]
        /\ mixfmt' = [mixfmt EXCEPT ![s] = Stored(data[b])]
    BY <1>0, <1>5 DEF AttachStore, Return, Go, PlaceInv, PlaceOf
  <2>2. mixfmt'[s] = Stored(data[b]) /\ \A x \in Source \ {s} : mixfmt'[x] = mixfmt[x]
    BY <1>0, <2>1 DEF FunOK
  <2>3. New(s, b)
    BY <2>1, <2>2
  <2> HIDE DEF New
  <2>4. l \in Seq(Entry) /\ \A i \in 1 .. Len(l) : New(s, l[i])
    <3> HIDE DEF b, s
    <3> QED
      BY <2>1, <2>3 DEF Entry
  <2> HIDE DEF s, b, l, Good
  <2> QED
    BY <1>2, <2>1, <2>2, <2>4
<1>6. ASSUME NEW t \in Thread, Link(t)
      PROVE  Good
  <2> DEFINE s == call[t].source
             x == Looked(t)
             r == Append(call[t].entries, x)
  <2>1. /\ pc[t] = "link" /\ s \in Source /\ call[t].entries \in Seq(Entry) /\ x \in Entry
        /\ UNCHANGED <<data, mixfmt>> /\ x = call[t].seen[call[t].n + 1]
        /\ queue' = queue \/ queue' = [queue EXCEPT ![s] = queue[s] \o r]
    BY <1>0, <1>6, LinkIs DEF Link, PlaceInv, PlaceOf, Queueing, FunOK, Calls
  <2>2. Old(s, x)
    <3> SUFFICES ASSUME x # None PROVE Matches(s, x)
      BY DEF Matches
    <3>1. Asked(t) \in Mapped /\ BufferMap[Asked(t)] = x
      BY <1>0, <2>1, LookedOK DEF Queueing
    <3>2. call[t].n + 1 \in 1 .. Len(call[t].seen)
      <4>1. /\ call[t].n \in Nat /\ Len(call[t].names) \in Nat
            /\ call[t].n < Len(call[t].names) /\ Len(call[t].seen) = Len(call[t].names)
        BY <1>0, <2>1, LenProperties DEF PlaceInv, PlaceOf, FunOK, Calls, Queueing
      <4> QED
        BY <4>1
    <3> QED
      BY <1>0, <2>1, <3>1, <3>2 DEF FormatInv, FormatAt, Queueing
  <2>3. \A i \in 1 .. Len(call[t].entries) : Old(s, call[t].entries[i])
    BY <1>0, <2>1 DEF FormatInv, FormatAt, Matches
  <2> DEFINE e == call[t].entries
  <2> HIDE DEF s, x, e, Old
  <2>4. r \in Seq(Entry) /\ \A i \in 1 .. Len(r) : Old(s, r[i])
    BY <2>1, <2>2, <2>3, EntriesAdded, Small DEF e
  <2> HIDE DEF r
  <2> DEFINE l == queue[s] \o r
  <2>5. l \in Seq(Entry) /\ \A i \in 1 .. Len(l) : Old(s, l[i])
    BY <1>1, <2>1, <2>4, EntriesAdded, Small
  <2>6. CASE queue' = queue
    BY <1>1, <2>1, <2>6 DEF Old
  <2>7. CASE queue' = [queue EXCEPT ![s] = l]
    <3>1. \A i \in 1 .. Len(l) : New(s, l[i])
      BY <2>1, <2>5 DEF Old
    <3> HIDE DEF l, New, Good
    <3> QED
      BY <1>2, <2>1, <2>5, <2>7, <3>1
  <2> QED
    BY <2>1, <2>6, <2>7
<1>7. ASSUME NEW s \in Source, Detach(s)
      PROVE  Good
  <2> DEFINE l == <<>>
  <2>1. /\ queue' = [queue EXCEPT ![s] = l] /\ l \in Seq(Entry) /\ UNCHANGED <<data, mixfmt>>
        /\ \A i \in 1 .. Len(l) : New(s, l[i])
    BY <1>7, Small DEF Detach
  <2> HIDE DEF l, Good
  <2> QED
    BY <1>2, <2>1
<1>8. ASSUME NEW s \in Source, NEW n \in 1 .. MaxQueue, Unqueue(s, n)
      PROVE  Good
  <2>1. /\ n \in Int /\ n >= 1 /\ n <= BuffersPlayed[s]
        /\ BuffersPlayed[s] \in Int /\ BuffersPlayed[s] <= Len(queue[s])
        /\ queue[s] \in Seq(Entry) /\ Len(queue[s]) \in Nat
    BY <1>0, <1>8, LenProperties DEF Unqueue, Unqueueable, TypeOK
  <2>2. n \in 0 .. Len(queue[s])
    BY <2>1
  <2> DEFINE rest == SubSeq(queue[s], n + 1, Len(queue[s]))
  <2>3. /\ rest \in Seq(Entry)
        /\ \A i \in 1 .. Len(rest) : rest[i] = queue[s][i + n] /\ i + n \in 1 .. Len(queue[s])
    BY <2>1, <2>2, Cut
  <2>4. queue' = [queue EXCEPT ![s] = rest] /\ UNCHANGED <<data, mixfmt>>
    BY <1>0, <1>8 DEF Unqueue, FunOK
  <2> HIDE DEF rest
  <2>5. \A i \in 1 .. Len(rest) : New(s, rest[i])
    BY <1>1, <2>3, <2>4
  <2> HIDE DEF Good, New
  <2> QED
    BY <1>2, <2>3, <2>4, <2>5
<1>9. ASSUME data' = data, mixfmt' = mixfmt, queue' = queue
      PROVE  Good
  BY <1>1, <1>9
<1>10. CASE data' = data
  <2>1. ASSUME NEW t \in Thread, Free(t)
        PROVE  UNCHANGED <<queue, mixfmt>>
    BY <2>1 DEF Free, sourceVars
  <2>2. Good
    BY <1>4, <1>5, <1>6, <1>7, <1>8, <1>9, <1>10, <2>1, RestMoves, MixMoves DEF Rests
  <2> QED
    BY <2>2, FormatCall DEF FormatInv, Matches
<1> QED
  BY <1>3, <1>10
-----------------------------------------------------------------------------
LEMMA InitInv == Init => IInv
<1> SUFFICES ASSUME Init
             PROVE  IInv
  OBVIOUS
<1> USE DEF Init
<1>1. /\ Mapped = {} /\ Hidden = Block /\ Linking = <<>> /\ Len(<<>>) = 0
      /\ \A t \in Thread : Own(t) = {}
      /\ \A t \in Thread : call[t].entries = <<>> /\ call[t].seen = <<>>
  <2>1. Mapped = {}
    BY DEF Mapped
  <2>2. Hidden = Block
    BY <2>1 DEF Hidden
  <2>3. \A t \in Thread : call[t].entries = <<>> /\ call[t].seen = <<>>
    BY DEF NoCall
  <2> QED
    BY <2>1, <2>2, <2>3 DEF Linking, Own, Making, Removing
<1>2. TypeOK
  <2>1. /\ BufferMap \in [Name -> Entry] /\ ref \in [Block -> Int] /\ holder \in Thread \cup {None}
        /\ pc \in [Thread -> {"idle", "gen", "insert", "check", "remove", "free", "verify", "link",
                              "attach"}]
    BY DEF Entry
  <2>2. \A s \in Source : queue[s] = <<>> /\ BuffersPlayed[s] \in 0 .. Len(queue[s])
    BY <1>1
  <2> QED
    BY <2>1, <2>2, Small DEF TypeOK
<1>3. FunOK
  BY Small DEF FunOK, Mixes
<1>4. PlaceInv
  BY <1>1, NoneAssumption DEF PlaceInv, PlaceOf, Naming, Queueing, Locking
<1>5. MapInv /\ NameInv /\ TakenInv /\ OwnInv
  BY <1>1 DEF MapInv, NameInv, NameOf, TakenInv, OwnInv, Naming
<1>6. HiddenInv
  BY <1>1 DEF HiddenInv, HiddenOf
<1>7. RefsInv
  <2>1. \A b \in Block : Held(Linking, b) = 0
    BY <1>1, HeldOne
  <2>2. \A b \in Block : Cardinality(Spots(queue, b)) = 0
    <3>1. queue \in [Source -> Seq(Entry)] /\ \A s \in Source : 1 .. Len(queue[s]) = {}
      BY <1>1, <1>3 DEF FunOK
    <3> HIDE DEF Init
    <3> QED
      BY <3>1, Uncounted
  <2> QED
    BY <2>1, <2>2 DEF RefsInv
<1>8. LiveInv
  BY <1>1 DEF LiveInv
<1>9. DataInv
  BY NewOK DEF DataInv
<1>10. FormatInv
  BY <1>1 DEF FormatInv, FormatAt, Queueing
<1> QED
  BY <1>2, <1>3, <1>4, <1>5, <1>6, <1>7, <1>8, <1>9, <1>10 DEF IInv

LEMMA Invariant == Spec => []IInv
<1>1. IInv /\ [Next]_vars => IInv'
  BY TypeStep, PlaceStep, MapStep, HiddenStep, OwnStep, RefsStep, LiveStep, DataStep, FormatStep
     DEF IInv
<1> QED
  BY InitInv, <1>1, PTL DEF Spec

(* Every call keeps the map, the counts and the queues of their types:      *)
(* nothing is counted as played that a queue does not have.                 *)
THEOREM TypeCorrect == Spec => []TypeOK
<1>1. IInv => TypeOK
  BY DEF IInv
<1> QED
  BY Invariant, <1>1, PTL

(* Every buffer that is queued or being linked is in memory, and every      *)
(* queued one of the source's format, unless a call of the application took *)
(* a reference to a buffer that another was deleting.                       *)
THEOREM Valid == Spec => []QueuedValid
<1>1. IInv => QueuedValid
  <2> SUFFICES ASSUME IInv, ~raced
               PROVE  QueuedValid
    BY DEF QueuedValid
  <2>1. Live \subseteq allocated
    BY DEF IInv, MapInv, Live
  <2>2. ASSUME NEW s \in Source, NEW i \in 1 .. Len(queue[s]), queue[s][i] # None
        PROVE  queue[s][i] \in allocated /\ Stored(data[queue[s][i]]) = mixfmt[s]
    BY <2>1, <2>2 DEF IInv, LiveInv, FormatInv, Matches
  <2>3. ASSUME NEW t \in Thread, NEW i \in 1 .. Len(call[t].entries)
        PROVE  call[t].entries[i] \in allocated \cup {None}
    <3>1. CASE pc[t] = "link"
      <4>1. Linking = call[t].entries
        BY <3>1, LinkingIs DEF IInv, Locking, Queueing
      <4> QED
        BY <2>1, <2>3, <4>1 DEF IInv, LiveInv
    <3>2. CASE pc[t] # "link"
      <4>1. call[t].entries = <<>>
        BY <3>2 DEF IInv, PlaceInv, PlaceOf
      <4> QED
        BY <2>3, <4>1
    <3> QED
      BY <3>1, <3>2
  <2> QED
    BY <2>2, <2>3 DEF QueuedValid
<1> QED
  BY Invariant, <1>1, PTL

(* No call, failed or not, loses a name or a buffer, but for alGenBuffers   *)
(* when the application uses an old name that it gave out anew.             *)
THEOREM Lossless == Spec => []NothingLost
<1>1. IInv => NothingLost
  <2> SUFFICES ASSUME IInv
               PROVE  NothingLost
    OBVIOUS
  <2>1. \A t \in Thread : Own(t) \subseteq InCall
    BY DEF Own, InCall, Making, Removing
  <2>2. Mapped \subseteq given \cup InCall \cup lost
    BY <2>1 DEF IInv, OwnInv
  <2>3. taken \subseteq Mapped \cup {call[t].name : t \in Thread}
    BY DEF IInv, TakenInv
  <2> QED
    BY <2>2, <2>3 DEF NothingLost
<1> QED
  BY Invariant, <1>1, PTL

(* Partial updates that are accepted, and loops, stay inside the data of    *)
(* the buffer, for every format, size and number of channels.               *)
THEOREM Within == Spec => []WritesInside
<1>1. IInv => WritesInside
  BY DEF IInv, TypeOK, DataInv, DataOK, Inside, WritesInside
<1> QED
  BY Invariant, <1>1, PTL

(* The data of a buffer does not change while a source has it in its queue, *)
(* unless a call raced with its deletion.                                   *)
THEOREM Unchanged == Spec => UnchangedWhileQueued
<1>1. IInv /\ [Next]_vars =>
        [\A b \in allocated \cap allocated' :
           data'[b] # data[b] /\ ~raced =>
             \A s \in Source : \A i \in 1 .. Len(queue[s]) : queue[s][i] # b]_vars
  <2> SUFFICES ASSUME IInv, [Next]_vars, NEW b \in allocated, data'[b] # data[b], ~raced
               PROVE  \A s \in Source : \A i \in 1 .. Len(queue[s]) : queue[s][i] # b
    OBVIOUS
  <2>1. b \in Block
    BY DEF IInv, TypeOK
  <2> QED
    BY <2>1, DataUnqueued
<1> QED
  BY Invariant, <1>1, PTL DEF Spec, UnchangedWhileQueued
=============================================================================
