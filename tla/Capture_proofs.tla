---------------------------- MODULE Capture_proofs ----------------------------
(***************************************************************************)
(* Proofs about a capture device, for any finite set of threads, any       *)
(* capacity and any blocks: the reference count is exact, the device and   *)
(* the ring buffer outlive whoever works with them, and the ring buffer is *)
(* a bounded queue.  The inductive invariant says which places hold the    *)
(* device's mutex (LockInv), what each phase of the device's life means    *)
(* (LifeInv), and what the capture thread holds (BlockInv).                *)
(***************************************************************************)
EXTENDS Capture, FiniteSetTheorems, SequenceTheorems, TLAPS

Users == {t \in Thread : pc[t] \in Call \cup {"copy", "unlock", "return", "wild"}}
Closing(t) == pc[t] \in {"unlisted", "join", "last"}

LockInv == \A t \in Thread : Mutex = t <=> pc[t] \in {"copy", "unlock", "join", "wild"}

(* Not opened yet; open, or about to be closed by one thread; closed.       *)
LifeInv ==
  /\ at = "none" => ~listed /\ ~ExtraData /\ \A t \in Thread : pc[t] = "idle"
  /\ \A t \in Thread : Closing(t) => ~listed
  /\ \A t, u \in Thread : Closing(t) /\ Closing(u) => t = u
  /\ ExtraData <=> listed \/ \E t \in Thread : pc[t] \in {"unlisted", "join"}
  /\ \A t \in Thread : pc[t] = "join" => killNow
  /\ at # "none" /\ ~ExtraData => at = "ended" /\ killNow
  /\ \A t \in Thread : pc[t] = "wild" => ~ExtraData

BlockInv ==
  /\ at \in {"test", "write"} => block \in Block
  /\ \A t \in Thread : pc[t] \in {"samples", "copy"} => lSamples[t] > 0

CountInv ==
  dref = (IF listed \/ \E t \in Thread : Closing(t) THEN 1 ELSE 0) + Cardinality(Users)

IInv == TypeOK /\ LockInv /\ LifeInv /\ BlockInv /\ CountInv /\ CountedStillThere

-----------------------------------------------------------------------------
(* Positions in the ring.                                                   *)

LEMMA Modulo ==
  ASSUME NEW n \in Nat \ {0}, NEW x \in 0 .. 2 * n - 1
  PROVE  x % n = IF x < n THEN x ELSE x - n
<1>1. CASE x < n
  BY <1>1, SMT
<1>2. CASE x >= n
  BY <1>2, SMT
<1> QED
  BY <1>1, <1>2

(* ... for sums and differences of two positions.                           *)
LEMMA ModuloLength ==
  /\ length \in Nat \ {0}
  /\ \A x \in 0 .. 2 * length - 1 : x % length = IF x < length THEN x ELSE x - length
<1>1. length \in Nat \ {0}
  BY RingAssumption DEF length
<1> HIDE DEF length
<1> QED
  BY <1>1, Modulo

LEMMA DistanceIs ==
  ASSUME NEW from \in Slot, NEW to \in Slot
  PROVE  /\ Distance(from, to) = IF from <= to THEN to - from ELSE to - from + length
         /\ Distance(from, to) \in Slot
<1> DEFINE x == to - from + length
<1>1. x \in 0 .. 2 * length - 1
  BY RingAssumption DEF Slot, length
<1>2. x % length = IF x < length THEN x ELSE x - length
  <2> HIDE DEF x
  <2> QED
    BY <1>1, ModuloLength
<1>3. Distance(from, to) = IF from <= to THEN to - from ELSE to - from + length
  BY <1>1, <1>2, ModuloLength DEF Distance, Slot
<1> QED
  BY <1>3, RingAssumption DEF Slot, length

(* The number of frames, and the room, of which one slot is not counted.    *)
LEMMA SizeIs ==
  ASSUME RingTypeOK
  PROVE  /\ RingBufferSize \in 0 .. Capacity
         /\ RingBufferSize = IF read_pos <= write_pos THEN write_pos - read_pos
                             ELSE write_pos - read_pos + length
         /\ Remain = Capacity - RingBufferSize
<1> DEFINE x == read_pos - write_pos - 1 + length
<1>1. /\ read_pos \in Slot /\ write_pos \in Slot
      /\ x \in 0 .. 2 * length - 1
  BY RingAssumption DEF Slot, length, RingTypeOK
<1>2. RingBufferSize = IF read_pos <= write_pos THEN write_pos - read_pos
                       ELSE write_pos - read_pos + length
  BY <1>1, DistanceIs DEF RingBufferSize
<1>3. x % length = IF x < length THEN x ELSE x - length
  <2> HIDE DEF x
  <2> QED
    BY <1>1, ModuloLength
<1>4. Remain = x % length
  BY DEF Remain
<1> QED
  BY <1>1, <1>2, <1>3, <1>4, RingAssumption DEF Slot, length

LEMMA WrapIs ==
  ASSUME NEW p \in Slot, NEW n \in 0 .. Capacity
  PROVE  /\ Wrap(p + n) \in Slot
         /\ Wrap(p + n) = IF p + n < length THEN p + n ELSE p + n - length
<1> DEFINE x == p + n
<1>1. x \in 0 .. 2 * length - 1
  BY RingAssumption DEF Slot, length
<1>2. x % length = IF x < length THEN x ELSE x - length
  <2> HIDE DEF x
  <2> QED
    BY <1>1, ModuloLength
<1> QED
  BY <1>1, <1>2, ModuloLength DEF Wrap, Slot

-----------------------------------------------------------------------------
(* The frames in the ring, and what writing and reading make of them.       *)

LEMMA FunctionIsSeq ==
  ASSUME NEW S, NEW n \in Nat, NEW f \in [1 .. n -> S]
  PROVE  f \in Seq(S) /\ Len(f) = n
<1>1. f \in Seq(S)
  BY SeqDef
<1>2. Len(f) \in Nat /\ DOMAIN f = 1 .. Len(f)
  BY <1>1, LenProperties
<1> QED
  BY <1>1, <1>2

(* The slot of the n-th frame from position p on.                           *)
At(p, n) == IF p + n - 1 < length THEN p + n - 1 ELSE p + n - 1 - length

LEMMA AtIs ==
  ASSUME NEW p \in Slot, NEW n \in 1 .. length
  PROVE  At(p, n) \in Slot /\ (p + n - 1) % length = At(p, n)
<1> DEFINE x == p + n - 1
<1>1. x \in 0 .. 2 * length - 1
  BY RingAssumption DEF Slot, length
<1>2. x % length = IF x < length THEN x ELSE x - length
  <2> HIDE DEF x
  <2> QED
    BY <1>1, ModuloLength
<1> QED
  BY <1>1, <1>2, RingAssumption DEF At, Slot, length

LEMMA FramesAre ==
  ASSUME NEW m \in [Slot -> Frame], NEW p \in Slot, NEW size \in 0 .. Capacity
  PROVE  LET frames == [n \in 1 .. size |-> m[(p + n - 1) % length]] IN
         /\ frames \in Seq(Frame) /\ Len(frames) = size
         /\ \A n \in 1 .. size : frames[n] = m[At(p, n)]
<1> DEFINE frames == [n \in 1 .. size |-> m[(p + n - 1) % length]]
<1>1. \A n \in 1 .. size : At(p, n) \in Slot /\ (p + n - 1) % length = At(p, n)
  BY AtIs, RingAssumption DEF length
<1>2. frames \in [1 .. size -> Frame] /\ \A n \in 1 .. size : frames[n] = m[At(p, n)]
  BY <1>1
<1> HIDE DEF frames
<1>3. size \in Nat
  BY RingAssumption
<1>4. frames \in Seq(Frame) /\ Len(frames) = size
  BY <1>2, <1>3, FunctionIsSeq
<1> QED
  BY <1>2, <1>4 DEF frames

LEMMA ContentsAre ==
  ASSUME RingTypeOK
  PROVE  /\ Contents \in Seq(Frame)
         /\ Len(Contents) = RingBufferSize
         /\ \A n \in 1 .. RingBufferSize : Contents[n] = mem[At(read_pos, n)]
<1>1. RingBufferSize \in 0 .. Capacity
  BY SizeIs
<1> QED
  BY <1>1, FramesAre DEF Contents, Front, RingTypeOK

LEMMA CreateEmpty ==
  ASSUME CreateRingBuffer
  PROVE  RingTypeOK /\ RingBufferSize = 0 /\ Contents = <<>>
<1>1. RingTypeOK
  BY RingAssumption DEF CreateRingBuffer, RingTypeOK, Slot, length
<1>2. RingBufferSize = 0
  BY <1>1, SizeIs DEF CreateRingBuffer
<1> QED
  BY <1>1, <1>2, ContentsAre, EmptySeq

LEMMA WriteAppends ==
  ASSUME RingTypeOK, NEW data \in Seq(Frame), WriteRingBuffer(data)
  PROVE  LET len == IF Remain < Len(data) THEN Remain ELSE Len(data) IN
         /\ RingTypeOK'
         /\ RingBufferSize' = RingBufferSize + len
         /\ Contents' = Contents \o SubSeq(data, 1, len)
<1> DEFINE len == IF Remain < Len(data) THEN Remain ELSE Len(data)
           size == RingBufferSize
<1>1. /\ size \in 0 .. Capacity /\ Remain = Capacity - size
      /\ Len(data) \in Nat /\ \A n \in 1 .. Len(data) : data[n] \in Frame
      /\ length = Capacity + 1 /\ Capacity \in Nat \ {0}
  BY SizeIs, LenProperties, ElementOfSeq, RingAssumption DEF length
<1>2. len \in 0 .. Capacity /\ len \in 0 .. Len(data) /\ size + len <= Capacity
  BY <1>1
<1> HIDE DEF len
<1>3. /\ write_pos' = Wrap(write_pos + len) /\ read_pos' = read_pos
      /\ mem' = [s \in Slot |-> IF Distance(write_pos, s) < len
                                THEN data[Distance(write_pos, s) + 1] ELSE mem[s]]
  BY DEF WriteRingBuffer, len
<1>4. /\ write_pos' \in Slot
      /\ write_pos' = IF write_pos + len < length THEN write_pos + len
                      ELSE write_pos + len - length
  BY <1>2, <1>3, WrapIs DEF RingTypeOK
<1>5. \A s \in Slot : Distance(write_pos, s) =
        IF write_pos <= s THEN s - write_pos ELSE s - write_pos + length
  BY DistanceIs DEF RingTypeOK
<1>6. RingTypeOK'
  <2>1. mem' \in [Slot -> Frame]
    <3> SUFFICES ASSUME NEW s \in Slot, Distance(write_pos, s) < len
                 PROVE  data[Distance(write_pos, s) + 1] \in Frame
      BY <1>3 DEF RingTypeOK
    <3>1. Distance(write_pos, s) + 1 \in 1 .. Len(data)
      BY <1>1, <1>2, <1>5 DEF RingTypeOK, Slot
    <3> QED
      BY <1>1, <3>1
  <2> QED
    BY <1>3, <1>4, <2>1 DEF RingTypeOK
<1>7. size' = size + len
  <2>1. size' = IF read_pos <= write_pos' THEN write_pos' - read_pos
                ELSE write_pos' - read_pos + length
    BY <1>3, <1>4, DistanceIs DEF RingBufferSize, RingTypeOK
  <2>2. size = IF read_pos <= write_pos THEN write_pos - read_pos
               ELSE write_pos - read_pos + length
    BY SizeIs
  <2> QED
    BY <1>1, <1>2, <1>4, <2>1, <2>2 DEF RingTypeOK, Slot
<1> DEFINE new == Contents \o SubSeq(data, 1, len)
<1>8. /\ new \in Seq(Frame) /\ Len(new) = size + len
      /\ \A n \in 1 .. size + len :
           new[n] = IF n <= size THEN mem[At(read_pos, n)] ELSE data[n - size]
  <2>1. /\ SubSeq(data, 1, len) \in Seq(Frame) /\ Len(SubSeq(data, 1, len)) = len
        /\ \A n \in 1 .. len : SubSeq(data, 1, len)[n] = data[n]
    BY <1>1, <1>2, SubSeqProperties
  <2>2. /\ Contents \in Seq(Frame) /\ Len(Contents) = size
        /\ \A n \in 1 .. size : Contents[n] = mem[At(read_pos, n)]
    BY ContentsAre
  <2> HIDE DEF size
  <2>3. /\ new \in Seq(Frame) /\ Len(new) = size + len
        /\ \A n \in 1 .. size + len :
             new[n] = IF n <= size THEN Contents[n] ELSE SubSeq(data, 1, len)[n - size]
    BY <2>1, <2>2, ConcatProperties
  <2> QED
    BY <1>1, <1>2, <2>1, <2>2, <2>3
<1>9. /\ Contents' \in Seq(Frame) /\ Len(Contents') = size + len
      /\ \A n \in 1 .. size + len : Contents'[n] = mem'[At(read_pos, n)]
  <2>1. Contents' = [n \in 1 .. size + len |-> mem'[(read_pos + n - 1) % length]]
    BY <1>3, <1>7 DEF Contents, Front
  <2>2. mem' \in [Slot -> Frame] /\ read_pos \in Slot /\ size + len \in 0 .. Capacity
    BY <1>1, <1>2, <1>6 DEF RingTypeOK
  <2> QED
    BY <2>1, <2>2, FramesAre
<1>10. ASSUME NEW n \in 1 .. size + len
       PROVE  mem'[At(read_pos, n)] = new[n]
  <2> DEFINE s == At(read_pos, n)
  <2>1. s \in Slot /\ s = IF read_pos + n - 1 < length THEN read_pos + n - 1
                            ELSE read_pos + n - 1 - length
    BY <1>1, <1>2, AtIs DEF At, RingTypeOK
  <2>2. size = IF read_pos <= write_pos THEN write_pos - read_pos
               ELSE write_pos - read_pos + length
    BY SizeIs
  <2> HIDE DEF s
  <2>3. Distance(write_pos, s) = IF n <= size THEN n - 1 + length - size ELSE n - 1 - size
    <3> HIDE DEF size
    <3>1. /\ write_pos \in 0 .. Capacity /\ read_pos \in 0 .. Capacity /\ s \in 0 .. Capacity
      BY <1>1, <2>1 DEF RingTypeOK, Slot
    <3>4. Distance(write_pos, s) =
            IF write_pos <= s THEN s - write_pos ELSE s - write_pos + length
      BY <1>5, <2>1
    <3>2. CASE n <= size
      BY <1>1, <1>2, <2>1, <2>2, <3>1, <3>2, <3>4
    <3>3. CASE n > size
      BY <1>1, <1>2, <2>1, <2>2, <3>1, <3>3, <3>4
    <3> QED
      BY <1>1, <1>2, <3>2, <3>3
  <2>4. mem'[s] = IF Distance(write_pos, s) < len THEN data[Distance(write_pos, s) + 1]
                  ELSE mem[s]
    BY <1>3, <2>1
  <2>5. mem'[s] = IF n <= size THEN mem[s] ELSE data[n - size]
    BY <1>1, <1>2, <2>3, <2>4
  <2> QED
    BY <1>8, <2>5 DEF s
<1> HIDE DEF new
<1>11. Contents' = new
  BY <1>8, <1>9, <1>10, SeqEqual
<1> QED
  BY <1>6, <1>7, <1>11 DEF new, len

LEMMA ReadTakes ==
  ASSUME RingTypeOK, NEW k \in 0 .. RingBufferSize, ReadRingBuffer(k)
  PROVE  /\ RingTypeOK'
         /\ RingBufferSize' = RingBufferSize - k
         /\ Contents' = SubSeq(Contents, k + 1, Len(Contents))
<1> DEFINE size == RingBufferSize
<1>1. /\ size \in 0 .. Capacity /\ length = Capacity + 1 /\ Capacity \in Nat \ {0}
      /\ size = IF read_pos <= write_pos THEN write_pos - read_pos
                ELSE write_pos - read_pos + length
  BY SizeIs, RingAssumption DEF length
<1>2. /\ read_pos' \in Slot /\ write_pos' = write_pos /\ mem' = mem
      /\ read_pos' = IF read_pos + k < length THEN read_pos + k ELSE read_pos + k - length
  BY <1>1, WrapIs DEF ReadRingBuffer, RingTypeOK
<1>3. size' = size - k
  <2>1. size' = IF read_pos' <= write_pos THEN write_pos - read_pos'
                ELSE write_pos - read_pos' + length
    BY <1>2, DistanceIs DEF RingBufferSize, RingTypeOK
  <2> QED
    BY <1>1, <1>2, <2>1 DEF RingTypeOK, Slot
<1> DEFINE rest == SubSeq(Contents, k + 1, Len(Contents))
<1>4. /\ rest \in Seq(Frame) /\ Len(rest) = size - k
      /\ \A n \in 1 .. size - k : rest[n] = mem[At(read_pos, n + k)]
  <2>1. /\ Contents \in Seq(Frame) /\ Len(Contents) = size
        /\ \A n \in 1 .. size : Contents[n] = mem[At(read_pos, n)]
    BY ContentsAre
  <2>2. /\ rest \in Seq(Frame) /\ Len(rest) = IF k + 1 <= size THEN size - (k + 1) + 1 ELSE 0
        /\ \A n \in 1 .. size - (k + 1) + 1 : rest[n] = Contents[k + 1 + n - 1]
    BY <1>1, <2>1, SubSeqProperties
  <2> QED
    BY <1>1, <2>1, <2>2
<1>5. /\ Contents' \in Seq(Frame) /\ Len(Contents') = size - k
      /\ \A n \in 1 .. size - k : Contents'[n] = mem[At(read_pos', n)]
  <2>1. Contents' = [n \in 1 .. size - k |-> mem[(read_pos' + n - 1) % length]]
    BY <1>2, <1>3 DEF Contents, Front
  <2>2. mem \in [Slot -> Frame] /\ read_pos' \in Slot /\ size - k \in 0 .. Capacity
    BY <1>1, <1>2 DEF RingTypeOK
  <2> QED
    BY <2>1, <2>2, FramesAre
<1>6. \A n \in 1 .. size - k : At(read_pos', n) = At(read_pos, n + k)
  BY <1>1, <1>2 DEF At, RingTypeOK, Slot
<1>7. Contents' = rest
  <2> HIDE DEF rest
  <2> QED
    BY <1>4, <1>5, <1>6, SeqEqual
<1> QED
  BY <1>2, <1>3, <1>7 DEF RingTypeOK

-----------------------------------------------------------------------------
(* What a step makes of the ring buffer.                                    *)

Unread ==
  UNCHANGED ring /\ RingBufferSize' = RingBufferSize /\ Contents' = Contents

Written ==
  /\ WorkerWrite /\ block \in Block
  /\ RingBufferSize' >= RingBufferSize
  /\ LET len == IF Remain < Len(block) THEN Remain ELSE Len(block)
     IN Contents' = Contents \o SubSeq(block, 1, len)

Copied(t) ==
  /\ CopySamples(t) /\ lSamples[t] \in 1 .. RingBufferSize
  /\ Contents' = SubSeq(Contents, lSamples[t] + 1, Len(Contents))

LEMMA RingStep ==
  ASSUME IInv, [Next]_vars
  PROVE  RingTypeOK' /\ (Unread \/ Written \/ \E t \in Thread : Copied(t))
<1> USE DEF IInv, TypeOK
<1>1. CASE UNCHANGED ring
  BY <1>1 DEF Unread, ring, RingTypeOK, RingBufferSize, Contents, Front, Distance
<1>2. CASE WorkerWrite
  <2>1. block \in Block /\ block \in Seq(Frame)
    BY <1>2, BlockAssumption DEF WorkerWrite, BlockInv
  <2>2. Remain \in Nat /\ Len(block) \in Nat /\ RingBufferSize \in Nat
    BY <2>1, SizeIs, LenProperties, RingAssumption
  <2> QED
    BY <1>2, <2>1, <2>2, WriteAppends DEF WorkerWrite, Written
<1>3. ASSUME NEW t \in Thread, CopySamples(t)
      PROVE  RingTypeOK' /\ Copied(t)
  <2>1. lSamples[t] \in 1 .. RingBufferSize
    <3>1. lSamples[t] \in Nat /\ lSamples[t] > 0 /\ lSamples[t] <= RingBufferSize
      BY <1>3, RingAssumption DEF CopySamples, BlockInv, CountedStillThere
    <3> QED
      BY <3>1, SizeIs, RingAssumption
  <2>2. lSamples[t] \in 0 .. RingBufferSize /\ ReadRingBuffer(lSamples[t])
    BY <1>3, <2>1, SizeIs DEF CopySamples
  <2> QED
    BY <1>3, <2>1, <2>2, ReadTakes DEF Copied
<1>4. UNCHANGED ring \/ WorkerWrite \/ \E t \in Thread : CopySamples(t)
  <2>1. CASE Worker
    BY <2>1 DEF Worker, WorkerRead, WorkerEnds, WorkerTest, WorkerLost
  <2>2. ASSUME NEW t \in Thread, Begin(t)
        PROVE  UNCHANGED ring
    BY <2>2 DEF Begin, OpenDevice, CloseDevice, VerifyDevice
  <2>3. ASSUME NEW t \in Thread, Step(t)
        PROVE  UNCHANGED ring \/ CopySamples(t)
    BY <2>3 DEF Step, NoData, StartStop, CaptureSamples, Unlock, Return, CloseCapture,
                StopThread, CloseDecRef
  <2> QED
    BY <2>1, <2>2, <2>3 DEF Next, vars
<1> QED
  BY <1>1, <1>2, <1>3, <1>4

-----------------------------------------------------------------------------
(* The invariant, conjunct by conjunct.                                     *)

LEMMA InitInv == Init => IInv
<1> SUFFICES ASSUME Init
             PROVE  IInv
  OBVIOUS
<1> USE DEF Init
<1>1. RingTypeOK
  BY CreateEmpty
<1>2. TypeOK
  <2>1. pc \in [Thread -> {"idle"}] /\ lSamples \in [Thread -> {0}] /\ 0 \in 0 .. Capacity + 1
    BY RingAssumption
  <2>2. /\ pc \in [Thread -> {"idle", "copy", "unlock", "return", "wild", "unlisted", "join",
                              "last"} \cup Call]
        /\ lSamples \in [Thread -> 0 .. Capacity + 1]
    BY <2>1
  <2> QED
    BY <1>1, <2>2, Zenon DEF TypeOK
<1>3. LockInv /\ LifeInv /\ BlockInv /\ CountedStillThere
  BY BlockAssumption DEF LockInv, LifeInv, BlockInv, CountedStillThere, Closing
<1>4. CountInv
  <2>1. Users = {} /\ ~ \E t \in Thread : Closing(t)
    BY DEF Users, Call, Closing
  <2> QED
    BY <2>1, FS_EmptySet DEF CountInv
<1> QED
  BY <1>2, <1>3, <1>4 DEF IInv

LEMMA TypeStep ==
  ASSUME IInv, [Next]_vars
  PROVE  TypeOK'
<1> USE DEF IInv, TypeOK, Call, LockDevice, UnlockDevice, Go
<1>1. RingTypeOK'
  BY RingStep
<1>2. CASE Worker
  BY <1>1, <1>2 DEF Worker, WorkerRead, WorkerEnds, WorkerTest, WorkerWrite, WorkerLost,
                    device, flags, local
<1>3. ASSUME NEW t \in Thread, Begin(t)
      PROVE  TypeOK'
  <2>1. CASE OpenDevice(t)
    BY <1>1, <2>1 DEF OpenDevice, local
  <2>2. CASE CloseDevice(t)
    BY <1>1, <2>2 DEF CloseDevice, Unlist, flags, worker
  <2>3. ASSUME NEW call \in Call, NEW n \in 0 .. Capacity + 1, VerifyDevice(t, call, n)
        PROVE  TypeOK'
    BY <1>1, <2>3 DEF VerifyDevice, flags, worker
  <2> QED
    BY <1>3, <2>1, <2>2, <2>3, RingAssumption DEF Begin
<1>4. ASSUME NEW t \in Thread, Step(t)
      PROVE  TypeOK'
  <2> USE DEF device, flags, worker
  <2>1. CASE Return(t) \/ CloseDecRef(t)
    <3>1. dref > 0
      <4>1. t \in Users \/ Closing(t)
        BY <2>1 DEF Users, Closing, Return, CloseDecRef
      <4>2. IsFiniteSet(Users)
        BY ThreadAssumption, FS_Subset DEF Users
      <4>3. Cardinality(Users) \in Nat /\ (t \in Users => Cardinality(Users) > 0)
        BY <4>2, FS_CardinalityType, FS_EmptySet
      <4> QED
        BY <4>1, <4>3 DEF CountInv
    <3>2. dref' \in Nat
      BY <2>1, <3>1 DEF Return, CloseDecRef
    <3> QED
      BY <1>1, <2>1, <3>2, RingAssumption DEF Return, CloseDecRef
  <2>2. CASE NoData(t) \/ StartStop(t) \/ CaptureSamples(t)
    BY <1>1, <2>2 DEF NoData, StartStop, CaptureSamples
  <2>3. CASE CopySamples(t) \/ Unlock(t)
    BY <1>1, <2>3 DEF CopySamples, Unlock
  <2>4. CASE CloseCapture(t) \/ StopThread(t)
    BY <1>1, <2>4 DEF CloseCapture, StopThread, TellToEnd
  <2> QED
    BY <1>4, <2>1, <2>2, <2>3, <2>4 DEF Step
<1>5. CASE UNCHANGED vars
  BY <1>1, <1>5 DEF vars, device, flags, worker, local
<1> QED
  BY <1>2, <1>3, <1>4, <1>5 DEF Next

(* A thread takes the mutex where it enters the places that hold it.        *)
LEMMA LockStep ==
  ASSUME IInv, [Next]_vars
  PROVE  LockInv'
<1> USE DEF IInv, TypeOK, LockInv, Call, LockDevice, UnlockDevice, Go
<1>1. CASE Worker
  BY <1>1 DEF Worker, WorkerRead, WorkerEnds, WorkerTest, WorkerWrite, WorkerLost, device, local
<1>2. ASSUME NEW t \in Thread, Begin(t)
      PROVE  LockInv'
  BY <1>2 DEF Begin, OpenDevice, CloseDevice, VerifyDevice, local
<1>3. ASSUME NEW t \in Thread, Step(t)
      PROVE  LockInv'
  <2>1. CASE NoData(t) \/ StartStop(t) \/ CaptureSamples(t) \/ CloseCapture(t)
    BY <2>1, BlockAssumption DEF NoData, StartStop, CaptureSamples, CloseCapture
  <2>2. CASE Unlock(t) \/ StopThread(t)
    BY <2>2, BlockAssumption DEF Unlock, StopThread
  <2>3. CASE CopySamples(t) \/ Return(t) \/ CloseDecRef(t)
    BY <2>3 DEF CopySamples, Return, CloseDecRef, device
  <2> QED
    BY <1>3, <2>1, <2>2, <2>3 DEF Step
<1>4. CASE UNCHANGED vars
  BY <1>4 DEF vars, device, local
<1> QED
  BY <1>1, <1>2, <1>3, <1>4 DEF Next

(* While ExtraData is there the device is open or its closing is not done; a*)
(* thread that closes it has taken it off the list, which only one can do.  *)
LEMMA LifeStep ==
  ASSUME IInv, [Next]_vars
  PROVE  LifeInv'
<1> USE DEF IInv, TypeOK, LifeInv, Closing, Call, LockDevice, UnlockDevice, Go
<1>1. CASE Worker
  BY <1>1 DEF Worker, WorkerRead, WorkerEnds, WorkerTest, WorkerWrite, WorkerLost, device, flags,
              local
<1>2. ASSUME NEW t \in Thread, Begin(t)
      PROVE  LifeInv'
  <2>1. CASE OpenDevice(t)
    BY <2>1 DEF OpenDevice, local
  <2>2. CASE CloseDevice(t)
    BY <2>2 DEF CloseDevice, Unlist, flags, worker
  <2>3. ASSUME NEW call \in Call, NEW n \in 0 .. Capacity + 1, VerifyDevice(t, call, n)
        PROVE  LifeInv'
    BY <2>3 DEF VerifyDevice, flags, worker
  <2> QED
    BY <1>2, <2>1, <2>2, <2>3, RingAssumption DEF Begin
<1>3. ASSUME NEW t \in Thread, Step(t)
      PROVE  LifeInv'
  <2> USE DEF device, flags, worker
  <2>1. CASE NoData(t) \/ StartStop(t) \/ CaptureSamples(t)
    BY <2>1 DEF NoData, StartStop, CaptureSamples
  <2>2. CASE CopySamples(t) \/ Unlock(t) \/ Return(t)
    BY <2>2 DEF CopySamples, Unlock, Return
  <2>3. CASE CloseCapture(t)
    BY <2>3 DEF CloseCapture, TellToEnd
  <2>4. CASE StopThread(t)
    BY <2>4 DEF StopThread, Ended
  <2>5. CASE CloseDecRef(t)
    BY <2>5 DEF CloseDecRef
  <2> QED
    BY <1>3, <2>1, <2>2, <2>3, <2>4, <2>5 DEF Step
<1>4. CASE UNCHANGED vars
  BY <1>4 DEF vars, device, flags, worker, local
<1> QED
  BY <1>1, <1>2, <1>3, <1>4 DEF Next

LEMMA BlockStep ==
  ASSUME IInv, [Next]_vars
  PROVE  BlockInv'
<1> USE DEF IInv, TypeOK, BlockInv, Call, Go
<1>1. CASE Worker
  BY <1>1 DEF Worker, WorkerRead, WorkerEnds, WorkerTest, WorkerWrite, WorkerLost, local
<1>2. ASSUME NEW t \in Thread, Begin(t)
      PROVE  BlockInv'
  <2>1. CASE OpenDevice(t) \/ CloseDevice(t)
    BY <2>1 DEF OpenDevice, CloseDevice, local, worker
  <2>2. ASSUME NEW call \in {"start", "stop"}, VerifyDevice(t, call, 0)
        PROVE  BlockInv'
    BY <2>2 DEF VerifyDevice, worker
  <2>3. ASSUME NEW n \in 1 .. Capacity + 1, VerifyDevice(t, "samples", n)
        PROVE  BlockInv'
    BY <2>3, RingAssumption DEF VerifyDevice, worker
  <2> QED
    BY <1>2, <2>1, <2>2, <2>3 DEF Begin
<1>3. ASSUME NEW t \in Thread, Step(t)
      PROVE  BlockInv'
  BY <1>3 DEF Step, NoData, StartStop, CaptureSamples, CopySamples, Unlock, Return, CloseCapture,
              StopThread, CloseDecRef, worker
<1>4. CASE UNCHANGED vars
  BY <1>4 DEF vars, worker, local
<1> QED
  BY <1>1, <1>2, <1>3, <1>4 DEF Next

(* Between the count and the copy the thread has the mutex, and the capture *)
(* thread only adds frames.                                                 *)
LEMMA CountedStep ==
  ASSUME IInv, [Next]_vars
  PROVE  CountedStillThere'
<1> USE DEF IInv, TypeOK, CountedStillThere, Call, Go
<1>1. \/ UNCHANGED RingBufferSize
      \/ WorkerWrite /\ RingBufferSize' >= RingBufferSize
      \/ \E t \in Thread : CopySamples(t)
  BY RingStep DEF Unread, Written, Copied
<1>2. RingBufferSize \in Nat /\ RingBufferSize' \in Nat
  <2>1. RingBufferSize' = Distance(read_pos', write_pos') /\ read_pos' \in Slot /\ write_pos' \in Slot
    BY RingStep DEF RingBufferSize, RingTypeOK
  <2>2. RingBufferSize' \in Slot
    BY <2>1, DistanceIs
  <2> QED
    BY <2>2, SizeIs, RingAssumption DEF Slot, length
<1>3. CASE WorkerWrite /\ RingBufferSize' >= RingBufferSize
  BY <1>2, <1>3, RingAssumption DEF WorkerWrite, local
<1>4. ASSUME NEW t \in Thread, CopySamples(t)
      PROVE  CountedStillThere'
  BY <1>4 DEF CopySamples, LockInv
<1>5. CASE UNCHANGED RingBufferSize
  <2> SUFFICES ASSUME NEW t \in Thread, pc'[t] = "copy"
               PROVE  lSamples'[t] <= RingBufferSize
    BY <1>5
  <2>1. \/ pc[t] = "copy" /\ lSamples'[t] = lSamples[t]
        \/ CaptureSamples(t) /\ lSamples[t] <= RingBufferSize
    <3>1. CASE Worker \/ UNCHANGED vars
      BY <3>1 DEF Worker, WorkerRead, WorkerEnds, WorkerTest, WorkerWrite, WorkerLost, local, vars
    <3>2. ASSUME NEW u \in Thread, Begin(u)
          PROVE  pc[t] = "copy" /\ lSamples'[t] = lSamples[t]
      BY <3>2 DEF Begin, OpenDevice, CloseDevice, VerifyDevice, local
    <3>3. ASSUME NEW u \in Thread, Step(u)
          PROVE  \/ pc[t] = "copy" /\ lSamples'[t] = lSamples[t]
                 \/ CaptureSamples(t) /\ lSamples[t] <= RingBufferSize
      <4>1. CASE CaptureSamples(u)
        BY <4>1 DEF CaptureSamples
      <4>2. CASE ~CaptureSamples(u)
        BY <3>3, <4>2 DEF Step, NoData, StartStop, CopySamples, Unlock, Return, CloseCapture,
                          StopThread, CloseDecRef
      <4> QED
        BY <4>1, <4>2
    <3> QED
      BY <3>1, <3>2, <3>3 DEF Next
  <2> QED
    BY <2>1 DEF CaptureSamples
<1> QED
  BY <1>1, <1>3, <1>4, <1>5

LEMMA UsersStep ==
  ASSUME IInv, [Next]_vars
  PROVE  \/ /\ Users' = Users
            /\ \A t \in Thread : ~Return(t)
            /\ \A t \in Thread, call \in Call, n \in 0 .. Capacity + 1 : ~VerifyDevice(t, call, n)
         \/ \E t \in Thread, call \in Call, n \in 0 .. Capacity + 1 :
              VerifyDevice(t, call, n) /\ t \notin Users /\ Users' = Users \cup {t}
         \/ \E t \in Users : Return(t) /\ Users' = Users \ {t}
<1> USE DEF IInv, TypeOK, Users, Call, Go
<1>1. ASSUME NEW t \in Thread, NEW call \in Call, NEW n \in 0 .. Capacity + 1,
             VerifyDevice(t, call, n)
      PROVE  t \notin Users /\ Users' = Users \cup {t}
  BY <1>1 DEF VerifyDevice
<1>2. ASSUME NEW t \in Thread, Return(t)
      PROVE  t \in Users /\ Users' = Users \ {t}
  BY <1>2 DEF Return
<1> DEFINE Other == \/ UNCHANGED pc
                    \/ \E t \in Thread :
                         \/ CloseDevice(t) \/ NoData(t) \/ StartStop(t) \/ CaptureSamples(t)
                         \/ CopySamples(t) \/ Unlock(t) \/ CloseCapture(t) \/ StopThread(t)
                         \/ CloseDecRef(t)
<1>3. CASE Other
  <2>1. ASSUME UNCHANGED pc
        PROVE  Users' = Users
    BY <2>1
  <2>2. ASSUME NEW t \in Thread,
               CloseDevice(t) \/ CloseCapture(t) \/ StopThread(t) \/ CloseDecRef(t)
        PROVE  Users' = Users
    BY <2>2 DEF CloseDevice, CloseCapture, StopThread, CloseDecRef
  <2>3. ASSUME NEW t \in Thread,
               NoData(t) \/ StartStop(t) \/ CaptureSamples(t) \/ CopySamples(t) \/ Unlock(t)
        PROVE  Users' = Users
    BY <2>3 DEF NoData, StartStop, CaptureSamples, CopySamples, Unlock
  <2>4. Users' = Users
    BY <1>3, <2>1, <2>2, <2>3
  <2>5. \A t \in Thread : Return(t) => Users' # Users
    BY <1>2
  <2>6. \A t \in Thread, call \in Call, n \in 0 .. Capacity + 1 :
          VerifyDevice(t, call, n) => Users' # Users
    BY <1>1
  <2> QED
    BY <2>4, <2>5, <2>6
<1>4. \/ Other
      \/ \E t \in Thread, call \in Call, n \in 0 .. Capacity + 1 : VerifyDevice(t, call, n)
      \/ \E t \in Thread : Return(t)
  <2>1. CASE Worker
    BY <2>1 DEF Worker, WorkerRead, WorkerEnds, WorkerTest, WorkerWrite, WorkerLost, local
  <2>2. ASSUME NEW t \in Thread, Begin(t)
        PROVE  Other \/ \E call \in Call, n \in 0 .. Capacity + 1 : VerifyDevice(t, call, n)
    BY <2>2, RingAssumption DEF Begin, OpenDevice, local
  <2>3. ASSUME NEW t \in Thread, Step(t)
        PROVE  Other \/ Return(t)
    BY <2>3 DEF Step
  <2> QED
    BY <2>1, <2>2, <2>3 DEF Next, vars, local
<1> QED
  BY <1>1, <1>2, <1>3, <1>4

One == IF listed \/ \E t \in Thread : Closing(t) THEN 1 ELSE 0

LEMMA CountStep ==
  ASSUME IInv, [Next]_vars
  PROVE  CountInv'
<1> USE DEF IInv
<1>1. /\ IsFiniteSet(Users) /\ Cardinality(Users) \in Nat
      /\ dref = One + Cardinality(Users) /\ One \in {0, 1}
  BY ThreadAssumption, FS_Subset, FS_CardinalityType DEF Users, CountInv, One
<1>2. SUFFICES dref' = One' + Cardinality(Users')
  BY DEF CountInv, One
<1>3. ASSUME NEW t \in Thread, NEW call \in Call, NEW n \in 0 .. Capacity + 1,
             VerifyDevice(t, call, n), t \notin Users, Users' = Users \cup {t}
      PROVE  dref' = One' + Cardinality(Users')
  <2>1. dref' = dref + 1 /\ One' = One
    BY <1>3 DEF VerifyDevice, One, Closing, Go, TypeOK, Call
  <2>2. Cardinality(Users') = Cardinality(Users) + 1
    BY <1>1, <1>3, FS_AddElement
  <2> QED
    BY <1>1, <2>1, <2>2
<1>4. ASSUME NEW t \in Users, Return(t), Users' = Users \ {t}
      PROVE  dref' = One' + Cardinality(Users')
  <2>1. dref' = dref - 1 /\ One' = One
    BY <1>4 DEF Return, One, Closing, Go, TypeOK, Call, Users
  <2>2. Cardinality(Users') = Cardinality(Users) - 1
    BY <1>1, <1>4, FS_RemoveElement
  <2> QED
    BY <1>1, <2>1, <2>2
<1>5. ASSUME Users' = Users, \A t \in Thread : ~Return(t),
             \A t \in Thread, call \in Call, n \in 0 .. Capacity + 1 : ~VerifyDevice(t, call, n)
      PROVE  dref' = One' + Cardinality(Users')
  <2> USE DEF TypeOK, Call, Closing, One, Go
  <2>1. CASE Worker \/ UNCHANGED vars
    <3>1. dref' = dref /\ One' = One
      BY <2>1 DEF Worker, WorkerRead, WorkerEnds, WorkerTest, WorkerWrite, WorkerLost, device,
                  local, vars
    <3> QED
      BY <1>1, <1>5, <3>1
  <2>2. ASSUME NEW t \in Thread, Begin(t)
        PROVE  dref' = One' + Cardinality(Users')
    <3>1. CASE OpenDevice(t)
      <4>1. Users = {}
        BY <3>1 DEF OpenDevice, LifeInv, Users
      <4>2. dref' = 1 /\ One' = 1 /\ Cardinality(Users') = 0
        BY <1>5, <3>1, <4>1, FS_EmptySet DEF OpenDevice
      <4> QED
        BY <4>2
    <3>2. CASE CloseDevice(t)
      <4>1. dref' = dref /\ One' = 1 /\ One = 1
        BY <3>2 DEF CloseDevice
      <4> QED
        BY <1>1, <1>5, <4>1
    <3> QED
      BY <1>5, <2>2, <3>1, <3>2, RingAssumption DEF Begin
  <2>3. ASSUME NEW t \in Thread, Step(t)
        PROVE  dref' = One' + Cardinality(Users')
    <3>1. CASE CloseDecRef(t)
      <4>1. dref' = dref - 1 /\ One = 1 /\ One' = 0
        BY <3>1 DEF CloseDecRef, LifeInv
      <4> QED
        BY <1>1, <1>5, <4>1
    <3>2. CASE NoData(t) \/ StartStop(t) \/ CaptureSamples(t) \/ CopySamples(t) \/ Unlock(t)
      <4>1. dref' = dref /\ One' = One
        BY <3>2 DEF NoData, StartStop, CaptureSamples, CopySamples, Unlock, device
      <4> QED
        BY <1>1, <1>5, <4>1
    <3>3. CASE CloseCapture(t) \/ StopThread(t)
      <4>1. dref' = dref /\ One' = One
        BY <3>3 DEF CloseCapture, StopThread
      <4> QED
        BY <1>1, <1>5, <4>1
    <3> QED
      BY <1>5, <2>3, <3>1, <3>2, <3>3 DEF Step
  <2> QED
    BY <2>1, <2>2, <2>3 DEF Next
<1> QED
  BY <1>3, <1>4, <1>5, UsersStep DEF Users

LEMMA Invariant == Spec => []IInv
<1>1. IInv /\ [Next]_vars => IInv'
  BY TypeStep, LockStep, LifeStep, BlockStep, CountStep, CountedStep DEF IInv
<1> QED
  BY InitInv, <1>1, PTL DEF Spec

-----------------------------------------------------------------------------
(* The variables stay in their types, for every number of threads, every    *)
(* capacity, and blocks of any length.                                      *)
THEOREM TypeCorrect == Spec => []TypeOK
<1>1. IInv => TypeOK
  BY DEF IInv
<1> QED
  BY Invariant, <1>1, PTL

(* oss_capture_samples copies no more frames than there are, although the   *)
(* capture thread writes between the count and the copy.                    *)
THEOREM Counted == Spec => []CountedStillThere
<1>1. IInv => CountedStillThere
  BY DEF IInv
<1> QED
  BY Invariant, <1>1, PTL

(* The device's reference count is one for alcCaptureOpenDevice and one for *)
(* every call inside; the ring buffer is there while the capture thread     *)
(* runs; and a call finds it gone only after alcCaptureCloseDevice.         *)
THEOREM Outlives == Spec => []DeviceOutlivesCalls
<1>1. IInv => DeviceOutlivesCalls
  <2> SUFFICES ASSUME IInv
               PROVE  DeviceOutlivesCalls
    OBVIOUS
  <2> USE DEF IInv
  <2>1. ASSUME NEW t \in Thread, pc[t] = "wild"
        PROVE  ~listed /\ killNow
    BY <2>1 DEF LifeInv
  <2>2. dref = (IF listed \/ \E t \in Thread : pc[t] \in {"unlisted", "join", "last"} THEN 1 ELSE 0)
               + Cardinality({t \in Thread : pc[t] \in Call \cup {"copy", "unlock", "return", "wild"}})
    BY DEF CountInv, Users, Closing
  <2>3. ASSUME at \notin {"none", "ended"}
        PROVE  dref > 0 /\ ExtraData
    <3>1. ExtraData
      BY <2>3 DEF LifeInv
    <3>2. listed \/ \E t \in Thread : Closing(t)
      BY <3>1 DEF LifeInv, Closing
    <3>3. Cardinality(Users) \in Nat
      BY ThreadAssumption, FS_Subset, FS_CardinalityType DEF Users
    <3> QED
      BY <3>1, <3>2, <3>3 DEF CountInv
  <2> QED
    BY <2>1, <2>2, <2>3 DEF DeviceOutlivesCalls
<1> QED
  BY Invariant, <1>1, PTL

(* The ring buffer is a bounded first-in first-out queue, whatever its      *)
(* capacity, whatever the lengths of the blocks and of the reads, and       *)
(* wherever the positions wrap.                                             *)
THEOREM Implements == Spec => ImplementsFifo
<1>1. Init => Fifo!Init
  BY CreateEmpty DEF Init, Fifo!Init
<1>2. IInv /\ [Next]_vars => [Fifo!Next]_Contents
  <2> SUFFICES ASSUME IInv, [Next]_vars
               PROVE  [Fifo!Next]_Contents
    OBVIOUS
  <2>1. RingTypeOK /\ Len(Contents) = RingBufferSize /\ Remain = Capacity - RingBufferSize
        /\ RingBufferSize \in 0 .. Capacity
    BY ContentsAre, SizeIs DEF IInv, TypeOK
  <2>2. CASE Unread
    BY <2>2 DEF Unread
  <2>3. CASE Written
    <3>1. Len(block) \in Nat
      BY <2>3, BlockAssumption, LenProperties DEF Written
    <3>2. (IF Remain < Len(block) THEN Remain ELSE Len(block))
          = (IF Len(block) <= Capacity - Len(Contents) THEN Len(block)
             ELSE Capacity - Len(Contents))
      BY <2>1, <3>1, RingAssumption
    <3>3. Fifo!Put(block)
      BY <2>3, <3>2 DEF Written, Fifo!Put
    <3> QED
      BY <2>3, <3>3 DEF Written, Fifo!Next
  <2>4. ASSUME NEW t \in Thread, Copied(t)
        PROVE  Fifo!Next
    <3>1. Fifo!Take(lSamples[t]) /\ lSamples[t] \in 1 .. Capacity
      BY <2>1, <2>4, RingAssumption DEF Copied, Fifo!Take
    <3> QED
      BY <3>1 DEF Fifo!Next
  <2> QED
    BY <2>2, <2>3, <2>4, RingStep
<1> QED
  BY Invariant, <1>1, <1>2, PTL DEF Spec, ImplementsFifo, Fifo!Spec
=============================================================================
