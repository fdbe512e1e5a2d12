---------------------------- MODULE RenderLocker ----------------------------
(***************************************************************************)
(* OALRenderLocker (OpenAL-MacOSX/oalSource.h): what keeps the threads of  *)
(* the application from editing a source of the Mac OS X implementation    *)
(* while the render thread works on it.  An editor waits for the render    *)
(* thread; the render thread never waits: while an editor is there, or     *)
(* waits, it leaves the source alone and plays silence.                    *)
(*                                                                         *)
(* An edit is one step, because a mutex (mSourceLock) that every edit      *)
(* takes next keeps the editors apart; so is the work of the render thread,*)
(* which no edit meets.  The flag falls with the work it stood for.  A call*)
(* that calls another takes the lock once more, which raises mAcquireFlag  *)
(* a second time: left out.                                                *)
(***************************************************************************)
EXTENDS Naturals, FiniteSets

CONSTANT Thread                 \* threads of the application

ASSUME ThreadAssumption == IsFiniteSet(Thread)

VARIABLES mAcquireFlag, mTryFlag,  \* editors there are; render threads there are
          edit,                    \* per thread: out, wait, in
          render                   \* out, tried, in

lockVars == <<mAcquireFlag, mTryFlag, edit, render>>

LockTypeOK ==
  /\ mAcquireFlag \in Nat
  /\ mTryFlag \in Nat
  /\ edit \in [Thread -> {"out", "wait", "in"}]
  /\ render \in {"out", "tried", "in"}

LockInit ==
  /\ mAcquireFlag = 0
  /\ mTryFlag = 0
  /\ edit = [t \in Thread |-> "out"]
  /\ render = "out"

-----------------------------------------------------------------------------
(* Faulty variants of the operators below: bugs the properties must notice. *)
AcquiredAnyway == TRUE

Raised(flag) == flag + 1
Lowered(flag) == flag - 1

Move(t, from, to) == edit[t] = from /\ edit' = [edit EXCEPT ![t] = to]
Turn(from, to) == render = from /\ render' = to

(* RenderLocker, outside the render thread: constructor, edit, destructor   *)
Ask(t) ==
  /\ Move(t, "out", "wait")
  /\ mAcquireFlag' = Raised(mAcquireFlag)
  /\ UNCHANGED <<mTryFlag, render>>

Enter(t) ==
  /\ mTryFlag = 0
  /\ Move(t, "wait", "in")
  /\ UNCHANGED <<mAcquireFlag, mTryFlag, render>>

Edit(t) ==
  /\ Move(t, "in", "out")
  /\ mAcquireFlag' = Lowered(mAcquireFlag)
  /\ UNCHANGED <<mTryFlag, render>>

(* RenderTryer: constructor, Acquired, the work if so, destructor           *)
Try ==
  /\ Turn("out", "tried")
  /\ mTryFlag' = Raised(mTryFlag)
  /\ UNCHANGED <<mAcquireFlag, edit>>

Acquired == mAcquireFlag = 0

Acquire ==
  /\ Acquired
  /\ Turn("tried", "in")
  /\ UNCHANGED <<mAcquireFlag, mTryFlag, edit>>

EndTry ==
  /\ mTryFlag' = Lowered(mTryFlag)
  /\ UNCHANGED <<mAcquireFlag, edit>>

Refuse == ~Acquired /\ Turn("tried", "out") /\ EndTry
Render == Turn("in", "out") /\ EndTry

LockNext ==
  \/ \E t \in Thread : Ask(t) \/ Enter(t) \/ Edit(t)
  \/ Try \/ Acquire \/ Refuse \/ Render

LockSpec == LockInit /\ [][LockNext]_lockVars

(* No thread edits a source while the render thread works on it: either     *)
(* the render thread sees the editor's flag, or the editor sees the render  *)
(* thread's.                                                                *)
Exclusion == render = "in" => \A t \in Thread : edit[t] # "in"
=============================================================================
