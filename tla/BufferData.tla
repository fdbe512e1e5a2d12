------------------------------ MODULE BufferData ------------------------------
(***************************************************************************)
(* The data of one OpenAL-Soft buffer as a value (OpenAL32/alBuffer.c): the *)
(* format it is stored in, the format it was given in, its sizes in bytes   *)
(* and its loop points; and the functions that fill it, set its loop points *)
(* and decide which bytes a partial update writes.  Samples are left out.   *)
(* A buffer is one of the types IMA4 (blocks of 65 frames, 36 bytes each    *)
(* per channel) or plain (one frame at a time).                             *)
(***************************************************************************)
EXTENDS Integers

CONSTANT Unset                     (* the zeroes of calloc in FmtType and the like *)

(* BytesFromUserFmt and BytesFromFmt.  IMA4 is asked for 36 by the callers.  *)
BytesFromUserFmt == [UByte |-> 1, Byte |-> 1, Short |-> 2, Float |-> 4, Byte3 |-> 3,
                     Double |-> 8, Mulaw |-> 1, IMA4 |-> 36]
BytesFromFmt == [Byte |-> 1, Short |-> 2, Float |-> 4]


(* alBufferData's choice of NewFormat *)
StoredAs == [UByte |-> "Byte", Byte |-> "Byte", Short |-> "Short", Float |-> "Float",
             Byte3 |-> "Float", Double |-> "Float", Mulaw |-> "Short", IMA4 |-> "Short"]

FramesIn(type) == IF type = "IMA4" THEN 65 ELSE 1

NewData ==
  [size |-> 0, FmtType |-> Unset, Channels |-> 0, OriginalType |-> Unset,
   OriginalSize |-> 0, OriginalAlign |-> 0, LoopStart |-> 0, LoopEnd |-> 0]

(* What two buffers of one queue must share. *)
Format(d) == <<d.OriginalType, d.Channels>>

(* Bytes of a frame as stored *)
FrameSize(d) == d.Channels * BytesFromFmt[d.FmtType]

-----------------------------------------------------------------------------
(* Faulty variants of the operators below: bugs the properties must notice. *)
BlocksOfOneChannel(d, length) == length \div BytesFromUserFmt[d.OriginalType]

Align(type, channels) == BytesFromUserFmt[type] * channels

(* LoadData: units are frames, or blocks of IMA4.  alBufferData keeps the   *)
(* format the samples came in, alBufferSamplesSOFT the one they are kept in.*)
LoadData(type, stored, channels, units, storesrc) ==
  LET frames == units * FramesIn(type)
      orig == IF storesrc THEN type ELSE stored IN
  [size |-> frames * channels * BytesFromFmt[stored], FmtType |-> stored, Channels |-> channels,
   OriginalType |-> orig, OriginalSize |-> units * Align(orig, channels),
   OriginalAlign |-> Align(orig, channels), LoopStart |-> 0, LoopEnd |-> frames]

CanSetLoop(d, start, end) ==
  d.size # 0 /\ start < end /\ end <= d.size \div FrameSize(d)

SetLoop(d, start, end) == [d EXCEPT !.LoopStart = start, !.LoopEnd = end]

-----------------------------------------------------------------------------
(* alBufferSubDataSOFT in the buffer's own format: whether offset and length*)
(* are accepted, and the first byte written and the one after the last.     *)
SubDataAccepted(d, offset, length) ==
  /\ d.OriginalType # Unset
  /\ offset <= d.OriginalSize /\ length <= d.OriginalSize - offset
  /\ offset % d.OriginalAlign = 0 /\ length % d.OriginalAlign = 0

SubDataFrom(d, offset) ==
  IF d.OriginalType = "IMA4" THEN (offset \div 36) * 65 * BytesFromFmt[d.FmtType]
  ELSE (offset \div BytesFromUserFmt[d.OriginalType]) * BytesFromFmt[d.FmtType]

SubDataUnits(d, length) ==
  IF d.OriginalType = "IMA4" THEN length \div d.OriginalAlign
  ELSE length \div (BytesFromUserFmt[d.OriginalType] * d.Channels)

SubDataEnd(d, offset, length) ==
  SubDataFrom(d, offset) + SubDataUnits(d, length) * FramesIn(d.OriginalType) * FrameSize(d)
=============================================================================
