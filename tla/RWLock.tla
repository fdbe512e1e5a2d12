------------------------------- MODULE RWLock -------------------------------
(***************************************************************************)
(* The reader-writer spin lock of OpenAL-Soft/Alc/helpers.c: three         *)
(* test-and-set words and two atomic counters.  Every atomic access of the *)
(* code (ExchangeInt, IncrementRef, DecrementRef) is one step; a spin is   *)
(* a step that is not enabled while the word is taken.                     *)
(*                                                                         *)
(* Nothing says which thread holds a word: read_lock in particular is      *)
(* taken by the first writer and given back by the last one, which may be  *)
(* another thread.                                                         *)
(***************************************************************************)
EXTENDS Integers, FiniteSets

CONSTANT Caller

ASSUME CallerAssumption == IsFiniteSet(Caller)

VARIABLES read_count, write_count,                 \* RefCounts
          read_lock, read_entry_lock, write_lock,  \* TRUE while taken
          place                                    \* where each thread is

lockVars == <<read_count, write_count, read_lock, read_entry_lock, write_lock, place>>

(***************************************************************************)
(* The places a thread can be in, named for what it does next.             *)
(***************************************************************************)
ReaderPlaces == {"r_lock", "r_count", "r_write", "r_unlock", "r_exit",
                 "reading", "r_release"}
WriterPlaces == {"w_read", "w_write", "writing", "w_count", "w_release"}
LockPlaces == {"idle"} \cup ReaderPlaces \cup WriterPlaces

At(places) == {t \in Caller : place[t] \in places}

Move(t, from, to) == place[t] = from /\ place' = [place EXCEPT ![t] = to]

LockTypeOK ==
  /\ read_count \in Nat /\ write_count \in Nat
  /\ read_lock \in BOOLEAN /\ read_entry_lock \in BOOLEAN /\ write_lock \in BOOLEAN
  /\ place \in [Caller -> LockPlaces]

LockInit ==
  /\ read_count = 0 /\ write_count = 0
  /\ read_lock = FALSE /\ read_entry_lock = FALSE /\ write_lock = FALSE
  /\ place = [t \in Caller |-> "idle"]

-----------------------------------------------------------------------------
(* Faulty variants of the operators below: bugs the properties must notice. *)
IncrementRefLost(count) == count
LockAnyway(l) == l' = TRUE
NoWriter(count) == FALSE

IncrementRef(count) == count + 1
DecrementRef(count) == count - 1

(* Lock succeeds when its exchange finds the word clear.                    *)
Lock(l) == ~l /\ l' = TRUE
Unlock(l) == l' = FALSE

FirstReader(count) == count = 1
LastReader(count) == count = 0
FirstWriter(count) == count = 1
LastWriter(count) == count = 0

(* ReadLock *)

ReadEntry(t) ==
  /\ Move(t, "idle", "r_lock")
  /\ Lock(read_entry_lock)
  /\ UNCHANGED <<read_count, write_count, read_lock, write_lock>>

ReadTakeReadLock(t) ==
  /\ Move(t, "r_lock", "r_count")
  /\ Lock(read_lock)
  /\ UNCHANGED <<read_count, write_count, read_entry_lock, write_lock>>

ReadCount(t) ==
  /\ read_count' = IncrementRef(read_count)
  /\ Move(t, "r_count", IF FirstReader(read_count') THEN "r_write" ELSE "r_unlock")
  /\ UNCHANGED <<write_count, read_lock, read_entry_lock, write_lock>>

ReadTakeWriteLock(t) ==
  /\ Move(t, "r_write", "r_unlock")
  /\ Lock(write_lock)
  /\ UNCHANGED <<read_count, write_count, read_lock, read_entry_lock>>

ReadDropReadLock(t) ==
  /\ Move(t, "r_unlock", "r_exit")
  /\ Unlock(read_lock)
  /\ UNCHANGED <<read_count, write_count, read_entry_lock, write_lock>>

ReadExit(t) ==
  /\ Move(t, "r_exit", "reading")
  /\ Unlock(read_entry_lock)
  /\ UNCHANGED <<read_count, write_count, read_lock, write_lock>>

(* ReadUnlock: the decrement, and the release when it reached zero *)

ReadUncount(t) ==
  /\ read_count' = DecrementRef(read_count)
  /\ Move(t, "reading", IF LastReader(read_count') THEN "r_release" ELSE "idle")
  /\ UNCHANGED <<write_count, read_lock, read_entry_lock, write_lock>>

ReadDropWriteLock(t) ==
  /\ Move(t, "r_release", "idle")
  /\ Unlock(write_lock)
  /\ UNCHANGED <<read_count, write_count, read_lock, read_entry_lock>>

-----------------------------------------------------------------------------
(* WriteLock: only the writer that raises the count from zero blocks readers *)

WriteCount(t) ==
  /\ write_count' = IncrementRef(write_count)
  /\ Move(t, "idle", IF FirstWriter(write_count') THEN "w_read" ELSE "w_write")
  /\ UNCHANGED <<read_count, read_lock, read_entry_lock, write_lock>>

WriteTakeReadLock(t) ==
  /\ Move(t, "w_read", "w_write")
  /\ Lock(read_lock)
  /\ UNCHANGED <<read_count, write_count, read_entry_lock, write_lock>>

WriteTakeWriteLock(t) ==
  /\ Move(t, "w_write", "writing")
  /\ Lock(write_lock)
  /\ UNCHANGED <<read_count, write_count, read_lock, read_entry_lock>>

(* WriteUnlock *)

WriteDropWriteLock(t) ==
  /\ Move(t, "writing", "w_count")
  /\ Unlock(write_lock)
  /\ UNCHANGED <<read_count, write_count, read_lock, read_entry_lock>>

WriteUncount(t) ==
  /\ write_count' = DecrementRef(write_count)
  /\ Move(t, "w_count", IF LastWriter(write_count') THEN "w_release" ELSE "idle")
  /\ UNCHANGED <<read_count, read_lock, read_entry_lock, write_lock>>

WriteDropReadLock(t) ==
  /\ Move(t, "w_release", "idle")
  /\ Unlock(read_lock)
  /\ UNCHANGED <<read_count, write_count, read_entry_lock, write_lock>>

-----------------------------------------------------------------------------
(* A call that has been made runs to its end, and so does a section under   *)
(* the lock; whether a thread calls at all is its own choice.               *)
Continue(t) ==
  \/ ReadTakeReadLock(t) \/ ReadCount(t) \/ ReadTakeWriteLock(t)
  \/ ReadDropReadLock(t) \/ ReadExit(t) \/ ReadUncount(t) \/ ReadDropWriteLock(t)
  \/ WriteTakeReadLock(t) \/ WriteTakeWriteLock(t) \/ WriteDropWriteLock(t)
  \/ WriteUncount(t) \/ WriteDropReadLock(t)

LockNext == \E t \in Caller : ReadEntry(t) \/ WriteCount(t) \/ Continue(t)

LockSpec == LockInit /\ [][LockNext]_lockVars

FairLockSpec == LockSpec /\ \A t \in Caller : WF_lockVars(Continue(t))

-----------------------------------------------------------------------------
(* Who is in the lock: a reader from the moment the readers own write_lock  *)
(* to its own decrement, a writer from its exchange to its release.         *)
Readers == At({"r_unlock", "r_exit", "reading"})
Writers == At({"writing"})

(* Readers and a writer never share the lock, and neither do two writers:   *)
(* the arrays under it (ThunkArray, every UIntMap) move while it is written.*)
MutualExclusion ==
  /\ Readers = {} \/ Writers = {}
  /\ \A t, u \in Writers : t = u

(* ReadLock/ReadUnlock and WriteLock/WriteUnlock implement the reader-writer*)
(* lock their callers rely on.                                              *)
Abstract == INSTANCE ReadersWriters WITH Thread <- Caller, readers <- Readers, writers <- Writers
ImplementsReadersWriters == Abstract!Spec

(* Once the writers hold read_lock (some writer is past its wait for it and *)
(* none is still waiting) no reader gets in before a writer does.           *)
WritersBlockReaders == At({"w_read"}) = {} /\ At({"w_write", "writing"}) # {}
WriterPreference == [][WritersBlockReaders => Readers' \subseteq Readers]_lockVars

(* Whenever threads wait in ReadLock or WriteLock, some thread enters: the  *)
(* hand-over of read_lock between writers never leaves it taken for nobody. *)
Waiting == At({"r_lock", "r_count", "r_write", "w_read", "w_write"}) # {}
SomeoneEnters == Waiting ~> (Readers \cup Writers # {})
=============================================================================
