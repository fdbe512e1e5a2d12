----------------------------- MODULE RingBuffer ------------------------------
(***************************************************************************)
(* Alc/alcRing.c: the ring buffer between a capture thread and the         *)
(* application.  It has one frame more than its capacity, so that equal    *)
(* positions mean that it is empty.  Each operation holds ring->cs, and is *)
(* one step; ReadRingBuffer leaves it to its caller to ask for no more     *)
(* frames than there are.                                                  *)
(***************************************************************************)
EXTENDS Integers, Sequences

CONSTANTS
  Frame, Silence,          (* what one frame may hold, and its all-zero value  *)
  Capacity                 (* the length asked of CreateRingBuffer             *)

ASSUME RingAssumption == Capacity \in Nat \ {0} /\ Silence \in Frame

VARIABLES mem, read_pos, write_pos

ring == <<mem, read_pos, write_pos>>

length == Capacity + 1
Slot == 0 .. length - 1

RingTypeOK ==
  /\ mem \in [Slot -> Frame]
  /\ read_pos \in Slot /\ write_pos \in Slot

CreateRingBuffer ==
  /\ mem = [s \in Slot |-> Silence]
  /\ read_pos = 0 /\ write_pos = 0

(* Faulty Wrap and Remain: one forgets the end of mem, the other the slot   *)
(* that stays free.                                                         *)
NoWrap(position) == position
RemainAll == length - ((write_pos - read_pos + length) % length)

Wrap(position) == position % length

Distance(from, to) == (to - from + length) % length

RingBufferSize == Distance(read_pos, write_pos)

(* One slot stays free.                                                     *)
Remain == (read_pos - write_pos - 1 + length) % length

(* The frames are copied up to the end of mem and then from its beginning.  *)
WriteRingBuffer(data) ==
  LET len == IF Remain < Len(data) THEN Remain ELSE Len(data)
  IN /\ mem' = [s \in Slot |-> IF Distance(write_pos, s) < len
                               THEN data[Distance(write_pos, s) + 1] ELSE mem[s]]
     /\ write_pos' = Wrap(write_pos + len)
     /\ UNCHANGED read_pos

(* The frames ReadRingBuffer copies out, and what it leaves.                *)
Front(len) == [n \in 1 .. len |-> mem[(read_pos + n - 1) % length]]

ReadRingBuffer(len) ==
  /\ read_pos' = Wrap(read_pos + len)
  /\ UNCHANGED <<mem, write_pos>>

(* The frames in the buffer, oldest first.                                  *)
Contents == Front(RingBufferSize)
=============================================================================
