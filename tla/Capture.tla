------------------------------ MODULE Capture --------------------------------
(***************************************************************************)
(* A capture device: the alcCapture* calls (Alc/ALc.c) of any number of    *)
(* application threads, and the OSS backend's capture thread               *)
(* (Alc/backends/oss.c), which fills a ring buffer without holding the     *)
(* device mutex.                                                           *)
(***************************************************************************)
EXTENDS RingBuffer, FiniteSets

CONSTANTS
  Thread,                  (* application threads                              *)
  Block,                   (* what one read() of the sound device may return   *)
  Null

ASSUME ThreadAssumption == IsFiniteSet(Thread)
ASSUME BlockAssumption == Block \subseteq Seq(Frame) \ {<<>>} /\ Null \notin Thread

VARIABLES
  listed,                  \* the device is on g_pDeviceList
  dref,                    \* its reference count
  Mutex,                   \* who holds its mutex
  ExtraData,               \* the backend's state is there (not NULL)
  Connected, doCapture, killNow,
  at, block,               \* the capture thread's place, and what it has read
  pc, lSamples             \* each application thread's place and argument

device == <<listed, dref, Mutex, ExtraData>>
flags == <<Connected, doCapture, killNow>>
worker == <<at, block>>
local == <<pc, lSamples>>
vars == <<ring, device, flags, worker, local>>

Call == {"start", "stop", "samples"}

TypeOK ==
  /\ RingTypeOK
  /\ listed \in BOOLEAN /\ dref \in Nat
  /\ Mutex \in Thread \cup {Null} /\ ExtraData \in BOOLEAN
  /\ Connected \in BOOLEAN /\ doCapture \in BOOLEAN /\ killNow \in BOOLEAN
  /\ at \in {"none", "read", "test", "write", "lost", "ended"} /\ block \in Block \cup {<<>>}
  /\ pc \in [Thread -> {"idle", "copy", "unlock", "return", "wild", "unlisted", "join", "last"} \cup Call]
  /\ lSamples \in [Thread -> 0 .. Capacity + 1]

Init ==
  /\ CreateRingBuffer
  /\ listed = FALSE /\ dref = 0 /\ Mutex = Null /\ ExtraData = FALSE
  /\ Connected = FALSE /\ doCapture = FALSE /\ killNow = FALSE
  /\ at = "none" /\ block = <<>>
  /\ pc = [t \in Thread |-> "idle"] /\ lSamples = [t \in Thread |-> 0]

Go(t, place) == pc' = [pc EXCEPT ![t] = place]

(* Faulty variants of the operators below: bugs the properties must notice. *)
LockDeviceAnyway(t) == Mutex' = t
EndedAnyway == TRUE
TellNothing == UNCHANGED killNow

LockDevice(t) == Mutex = Null /\ Mutex' = t
UnlockDevice(t) == Mutex = t /\ Mutex' = Null

-----------------------------------------------------------------------------
(* alcCaptureOpenDevice, with oss_open_capture: the thread starts at once.  *)
(* Bound: a device is opened once.                                          *)
OpenDevice(t) ==
  /\ pc[t] = "idle" /\ at = "none"
  /\ listed' = TRUE /\ dref' = 1 /\ ExtraData' = TRUE /\ Connected' = TRUE
  /\ at' = "read"
  /\ UNCHANGED <<ring, Mutex, doCapture, killNow, block, local>>

(* A call finds its device on the list and takes a reference ...            *)
VerifyDevice(t, call, n) ==
  /\ pc[t] = "idle" /\ listed
  /\ dref' = dref + 1
  /\ Go(t, call) /\ lSamples' = [lSamples EXCEPT ![t] = n]
  /\ UNCHANGED <<ring, listed, Mutex, ExtraData, flags, worker>>

(* ... locks it, and goes to the backend, whose state may be gone by then.  *)
NoData(t) ==
  /\ pc[t] = "samples" \/ (pc[t] \in {"start", "stop"} /\ Connected)
  /\ LockDevice(t) /\ ~ExtraData
  /\ Go(t, "wild")
  /\ UNCHANGED <<ring, listed, dref, ExtraData, flags, worker, lSamples>>

StartStop(t) ==
  /\ pc[t] \in {"start", "stop"} /\ LockDevice(t) /\ (Connected => ExtraData)
  /\ doCapture' = IF Connected THEN pc[t] = "start" ELSE doCapture
  /\ Go(t, "unlock")
  /\ UNCHANGED <<ring, listed, dref, ExtraData, Connected, killNow, worker, lSamples>>

(* oss_capture_samples: the size is read in one critical section of the ring*)
(* buffer, and the samples in another one; in between the device's mutex is *)
(* all that protects them.                                                  *)
CaptureSamples(t) ==
  /\ pc[t] = "samples" /\ LockDevice(t) /\ ExtraData
  /\ Go(t, IF lSamples[t] <= RingBufferSize THEN "copy" ELSE "unlock")
  /\ UNCHANGED <<ring, listed, dref, ExtraData, flags, worker, lSamples>>

CopySamples(t) ==
  /\ pc[t] = "copy"
  /\ ReadRingBuffer(lSamples[t])
  /\ Go(t, "unlock")
  /\ UNCHANGED <<device, flags, worker, lSamples>>

Unlock(t) ==
  /\ pc[t] = "unlock" /\ UnlockDevice(t)
  /\ Go(t, "return")
  /\ UNCHANGED <<ring, listed, dref, ExtraData, flags, worker, lSamples>>

Return(t) ==
  /\ pc[t] = "return"
  /\ dref' = dref - 1
  /\ Go(t, "idle") /\ lSamples' = [lSamples EXCEPT ![t] = 0]
  /\ UNCHANGED <<ring, listed, Mutex, ExtraData, flags, worker>>

-----------------------------------------------------------------------------
(* alcCaptureCloseDevice: off the list, then, with the device locked, the   *)
(* capture thread is told to end and waited for.                            *)

Unlist == listed' = FALSE

CloseDevice(t) ==
  /\ pc[t] = "idle" /\ listed
  /\ Unlist
  /\ Go(t, "unlisted")
  /\ UNCHANGED <<ring, dref, Mutex, ExtraData, flags, worker, lSamples>>

TellToEnd == killNow' = TRUE

CloseCapture(t) ==
  /\ pc[t] = "unlisted" /\ LockDevice(t)
  /\ TellToEnd
  /\ Go(t, "join")
  /\ UNCHANGED <<ring, listed, dref, ExtraData, Connected, doCapture, worker, lSamples>>

Ended == at = "ended"

StopThread(t) ==
  /\ pc[t] = "join" /\ Ended
  /\ ExtraData' = FALSE
  /\ UnlockDevice(t)
  /\ Go(t, "last")
  /\ UNCHANGED <<ring, listed, dref, flags, worker, lSamples>>

CloseDecRef(t) ==
  /\ pc[t] = "last"
  /\ dref' = dref - 1
  /\ Go(t, "idle")
  /\ UNCHANGED <<ring, listed, Mutex, ExtraData, flags, worker, lSamples>>

-----------------------------------------------------------------------------
(* OSSCaptureProc *)

WorkerRead ==
  /\ at = "read" /\ ~killNow
  /\ \/ at' = "test" /\ block' \in Block
     \/ at' = "lost" /\ UNCHANGED block
  /\ UNCHANGED <<ring, device, flags, local>>

WorkerEnds ==
  /\ at = "read" /\ killNow
  /\ at' = "ended"
  /\ UNCHANGED <<ring, device, flags, block, local>>

WorkerTest ==
  /\ at = "test"
  /\ at' = IF doCapture THEN "write" ELSE "read"
  /\ block' = IF doCapture THEN block ELSE <<>>
  /\ UNCHANGED <<ring, device, flags, local>>

WorkerWrite ==
  /\ at = "write"
  /\ WriteRingBuffer(block)
  /\ at' = "read" /\ block' = <<>>
  /\ UNCHANGED <<device, flags, local>>

(* aluHandleDisconnect, and the loop is left.                               *)
WorkerLost ==
  /\ at = "lost" /\ Mutex = Null
  /\ Connected' = FALSE
  /\ at' = "ended"
  /\ UNCHANGED <<ring, device, doCapture, killNow, block, local>>

-----------------------------------------------------------------------------
Worker == WorkerRead \/ WorkerEnds \/ WorkerTest \/ WorkerWrite \/ WorkerLost

Step(t) ==
  \/ NoData(t) \/ StartStop(t) \/ CaptureSamples(t) \/ CopySamples(t) \/ Unlock(t)
  \/ Return(t) \/ CloseCapture(t) \/ StopThread(t) \/ CloseDecRef(t)

Begin(t) ==
  \/ OpenDevice(t) \/ CloseDevice(t)
  \/ \E call \in {"start", "stop"} : VerifyDevice(t, call, 0)
  \/ \E n \in 1 .. Capacity + 1 : VerifyDevice(t, "samples", n)

Next == Worker \/ \E t \in Thread : Begin(t) \/ Step(t)

Spec == Init /\ [][Next]_vars

(* read() returns, the capture thread runs, and so does a thread inside a   *)
(* call, except where it waits for the device's mutex, which is not fair.   *)
FairSpec ==
  /\ Spec
  /\ WF_vars(Worker)
  /\ \A t \in Thread : WF_vars(StopThread(t)) /\ WF_vars(Unlock(t)) /\ WF_vars(CopySamples(t))

-----------------------------------------------------------------------------
(* What the application sees of the ring buffer is a bounded queue, however *)
(* the capture thread and the alcCapture calls interleave and wherever the  *)
(* positions wrap.                                                          *)
Fifo == INSTANCE BoundedFifo WITH contents <- Contents
ImplementsFifo == Fifo!Spec

(* ReadRingBuffer checks nothing: the frames that oss_capture_samples counted*)
(* must still be there when it copies them.                                 *)
CountedStillThere == \A t \in Thread : pc[t] = "copy" => lSamples[t] <= RingBufferSize

(* The device and its mutex outlive every call that works with them, the    *)
(* ring buffer outlives the capture thread, and a call that verified the    *)
(* device finds the ring buffer freed only when alcCaptureCloseDevice took  *)
(* the device off the list after that.                                      *)
DeviceOutlivesCalls ==
  /\ \A t \in Thread : pc[t] = "wild" => ~listed /\ killNow
  /\ dref = (IF listed \/ \E t \in Thread : pc[t] \in {"unlisted", "join", "last"} THEN 1 ELSE 0)
            + Cardinality({t \in Thread : pc[t] \in Call \cup {"copy", "unlock", "return", "wild"}})
  /\ at \notin {"none", "ended"} => dref > 0 /\ ExtraData

(* Unless the sound device is lost at that moment, closing it ends.         *)
CloseEnds == \A t \in Thread : pc[t] = "join" ~> (pc[t] # "join" \/ at = "lost")
=============================================================================
