------------------------- MODULE BootstrapLockProofs -------------------------
(***************************************************************************)
(* The bootstrap lock for any set of pods, any settings and any number of  *)
(* restarts, lost sessions and killed processes.                           *)
(*                                                                         *)
(* The argument: LockIInv says that the lock is on p's session exactly     *)
(* while p is in the block unbroken, and that a run that has not acquired  *)
(* anything yet is unbroken.  It is inductive; mutual exclusion follows    *)
(* because the lock has one holder, and success implies an unbroken run    *)
(* because only a confirmed unlock ends in "done".                         *)
(***************************************************************************)
EXTENDS BootstrapLock, TLAPS

(* The initial state satisfies the inductive invariant.                    *)
LEMMA LockInitIInv == LockInit => LockIInv
BY LockAssumption
   DEF LockInit, LockIInv, LockTypeOK, LockFollowsBody, HeldOnOpenSession,
       FreshUnbroken, SuccessMeansHeld, Phase, InBody

(* Every step of the lock preserves the types.                             *)
LEMMA LockTypePreserved == LockTypeOK /\ [LockNext]_lockVars => LockTypeOK'
<1> SUFFICES ASSUME LockTypeOK, [LockNext]_lockVars PROVE LockTypeOK'
  OBVIOUS
<1> USE LockAssumption DEF LockTypeOK, Phase, Exit
<1>1. ASSUME NEW p \in Pods, AcquireStep(p) PROVE LockTypeOK'
  <2>1. CASE Start(p)
    <3>1. PICK s \in TimeoutSettings :
             /\ ValidTimeout(s)
             /\ \E r \in 0 .. TimeoutSeconds(s) : left' = [left EXCEPT ![p] = r]
      BY <2>1 DEF Start
    <3>2. TimeoutSeconds(s) \in Nat
      BY <3>1 DEF ValidTimeout, TimeoutSeconds
    <3>3. left' \in [Pods -> Nat]
      BY <3>1, <3>2
    <3> QED BY <2>1, <3>3 DEF Start
  <2>2. CASE StartFails(p)
    BY <2>2 DEF StartFails
  <2>3. CASE TryLock(p)
    BY <2>3 DEF TryLock
  <2>4. CASE RetryLater(p)
    BY <2>4 DEF RetryLater
  <2>5. CASE LockTimesOut(p)
    BY <2>5 DEF LockTimesOut
  <2>6. CASE TryLockRaises(p)
    BY <2>6 DEF TryLockRaises
  <2> QED BY <1>1, <2>1, <2>2, <2>3, <2>4, <2>5, <2>6 DEF AcquireStep
<1>2. ASSUME NEW p \in Pods, NEW error \in BOOLEAN, LeaveBody(p, error)
      PROVE  LockTypeOK'
  BY <1>2 DEF LeaveBody
<1>3. ASSUME NEW p \in Pods, ReleaseStep(p) PROVE LockTypeOK'
  BY <1>3 DEF ReleaseStep, Release, ReleaseUnconfirmed, ReleaseRaises
<1>4. ASSUME NEW p \in Pods, LoseSession(p) PROVE LockTypeOK'
  BY <1>4 DEF LoseSession
<1>5. ASSUME NEW p \in Pods, Crash(p) PROVE LockTypeOK'
  BY <1>5 DEF Crash
<1>6. ASSUME NEW p \in Pods, Restart(p) PROVE LockTypeOK'
  BY <1>6 DEF Restart
<1>7. CASE ReapOrphan
  BY <1>7 DEF ReapOrphan
<1>8. CASE UNCHANGED lockVars
  BY <1>8 DEF lockVars
<1> QED BY <1>1, <1>2, <1>3, <1>4, <1>5, <1>6, <1>7, <1>8 DEF LockNext
-----------------------------------------------------------------------------
(* What the inductive invariant says of one pod.                           *)
PodAgrees(q) ==
    /\ lock = q <=> InBody(q) /\ ~broken[q]
    /\ lock = q => conn[q] = "open"
    /\ phase[q] \in {"start", "trying", "done"} => ~broken[q]

(* The invariant speaks of one pod at a time, and so can the proofs.       *)
LEMMA LockIInvPerPod == LockIInv <=> LockTypeOK /\ \A q \in Pods : PodAgrees(q)
BY DEF LockIInv, PodAgrees, LockFollowsBody, HeldOnOpenSession, FreshUnbroken,
       SuccessMeansHeld

(* Every step preserves the agreement between the lock, the block and the  *)
(* history of each pod's run, q being the stepping pod p or another one.   *)
LEMMA PodAgreesPreserved ==
    ASSUME LockIInv, [LockNext]_lockVars, NEW q \in Pods
    PROVE  PodAgrees(q)'
<1>t. LockTypeOK
  BY DEF LockIInv
<1>q. PodAgrees(q)
  BY LockIInvPerPod
<1>1. ASSUME NEW p \in Pods, AcquireStep(p) PROVE PodAgrees(q)'
  <2> USE LockAssumption, <1>t, <1>q DEF LockTypeOK, Phase, Exit, PodAgrees, InBody
  <2>1. CASE Start(p)
    BY <2>1 DEF Start
  <2>2. CASE StartFails(p)
    BY <2>2 DEF StartFails
  <2>3. CASE TryLock(p)
    BY <2>3 DEF TryLock
  <2>4. CASE RetryLater(p)
    BY <2>4 DEF RetryLater
  <2>5. CASE LockTimesOut(p)
    BY <2>5 DEF LockTimesOut
  <2>6. CASE TryLockRaises(p)
    BY <2>6 DEF TryLockRaises
  <2> QED BY <1>1, <2>1, <2>2, <2>3, <2>4, <2>5, <2>6 DEF AcquireStep
<1>2. ASSUME NEW p \in Pods, NEW error \in BOOLEAN, LeaveBody(p, error)
      PROVE  PodAgrees(q)'
  BY <1>2, <1>t, <1>q DEF LeaveBody, LockTypeOK, PodAgrees, InBody, Phase
<1>3. ASSUME NEW p \in Pods, ReleaseStep(p) PROVE PodAgrees(q)'
  <2> USE LockAssumption, <1>t, <1>q DEF LockTypeOK, Phase, Exit, PodAgrees, InBody
  <2>p. PodAgrees(p)
    BY LockIInvPerPod
  <2>1. CASE Release(p)
    BY <2>1 DEF Release
  <2>2. CASE ReleaseUnconfirmed(p)
    BY <2>2 DEF ReleaseUnconfirmed
  <2>3. CASE ReleaseRaises(p)
    BY <2>3, <2>p DEF ReleaseRaises
  <2> QED BY <1>3, <2>1, <2>2, <2>3 DEF ReleaseStep
<1>4. ASSUME NEW p \in Pods, LoseSession(p) PROVE PodAgrees(q)'
  <2> USE LockAssumption, <1>4, <1>t, <1>q
      DEF LoseSession, LockTypeOK, Phase, PodAgrees, InBody
  <2>1. CASE q = p /\ lock = p
    BY <2>1
  <2>2. CASE q = p /\ lock # p
    BY <2>2
  <2>3. CASE q # p
    BY <2>3
  <2> QED BY <2>1, <2>2, <2>3
<1>5. ASSUME NEW p \in Pods, Crash(p) PROVE PodAgrees(q)'
  BY LockAssumption, <1>5, <1>t, <1>q
     DEF Crash, Exit, LockTypeOK, Phase, Ended, PodAgrees, InBody
<1>6. ASSUME NEW p \in Pods, Restart(p) PROVE PodAgrees(q)'
  BY LockAssumption, <1>6, <1>t, <1>q
     DEF Restart, LockTypeOK, Phase, Ended, PodAgrees, InBody
<1>7. CASE ReapOrphan
  BY LockAssumption, <1>7, <1>t, <1>q
     DEF ReapOrphan, LockTypeOK, PodAgrees, InBody
<1>8. CASE UNCHANGED lockVars
  BY <1>8, <1>q DEF lockVars, PodAgrees, InBody
<1> QED BY <1>1, <1>2, <1>3, <1>4, <1>5, <1>6, <1>7, <1>8 DEF LockNext

(* Every step of the lock keeps its invariant.                             *)
LEMMA LockIInvPreserved == LockIInv /\ [LockNext]_lockVars => LockIInv'
<1> SUFFICES ASSUME LockIInv, [LockNext]_lockVars PROVE LockIInv'
  OBVIOUS
<1>1. LockTypeOK'
  BY LockTypePreserved DEF LockIInv
<1>2. \A q \in Pods : PodAgrees(q)'
  BY PodAgreesPreserved
<1> QED BY <1>1, <1>2 DEF LockIInv, PodAgrees, LockFollowsBody,
                          HeldOnOpenSession, FreshUnbroken, SuccessMeansHeld

(* The inductive invariant holds of the lock.                              *)
THEOREM LockInvariance == LockSpec => []LockIInv
BY LockInitIInv, LockIInvPreserved, PTL DEF LockSpec

(* The variables of the lock keep their types.                             *)
THEOREM LockTyping == LockSpec => []LockTypeOK
<1>1. LockIInv => LockTypeOK
  BY DEF LockIInv
<1> QED BY <1>1, LockInvariance, PTL
-----------------------------------------------------------------------------
(* The invariant alone implies mutual exclusion.                           *)
LEMMA LockIInvMutex == LockIInv => MutualExclusion
BY DEF LockIInv, LockFollowsBody, MutualExclusion

(* _bootstrap_lock serialises the setups of any number of pods, up to      *)
(* sessions lost under a pod that is inside.                               *)
THEOREM LockMutex == LockSpec => []MutualExclusion
BY LockIInvMutex, LockInvariance, PTL

(* No path out of the block leaves the lock behind on the pod's session.   *)
THEOREM LockNotLeaked == LockSpec => []LockFollowsBody
<1>1. LockIInv => LockFollowsBody
  BY DEF LockIInv
<1> QED BY <1>1, LockInvariance, PTL

(* Exit status 0 means that the lock was held throughout the setup.        *)
THEOREM LockSuccess == LockSpec => []SuccessMeansHeld
<1>1. LockIInv => SuccessMeansHeld
  BY DEF LockIInv
<1> QED BY <1>1, LockInvariance, PTL
-----------------------------------------------------------------------------
(* Nobody takes the lock from a pod that stays inside and keeps its        *)
(* session: the next state still agrees with LockFollowsBody.              *)
THEOREM LockStable == LockSpec => HoldNotStolen
<1>1. LockIInv /\ LockIInv' =>
        \A p \in Pods : lock = p /\ lock' # p => ~InBody(p)' \/ broken'[p]
  BY DEF LockIInv, LockFollowsBody
<1>2. LockIInv /\ LockIInv' =>
        [\A p \in Pods :
            lock = p /\ lock' # p => ~InBody(p)' \/ broken'[p]]_lockVars
  BY <1>1
<1> QED BY <1>2, LockInvariance, PTL DEF HoldNotStolen
-----------------------------------------------------------------------------
(* What the abstract promise sees of a state.                              *)
Inside == {p \in Pods : InBody(p) /\ ~broken[p]}
Stray == {p \in Pods : InBody(p) /\ broken[p]}
Completed == {p \in Pods : phase[p] = "done"}

(* A step of the promise about pod p, or one it does not see.              *)
PromiseStep(p) ==
    \/ Promise!Begin(p) \/ Promise!Enter(p) \/ Promise!LoseProtection(p)
    \/ Promise!Complete(p) \/ Promise!Abandon(p)
    \/ UNCHANGED <<Inside, Stray, Completed>>

(* Acquiring enters the promised setup, the rest of polling is invisible.  *)
LEMMA AcquireKeepsPromise ==
    ASSUME LockIInv, NEW p \in Pods, AcquireStep(p) PROVE PromiseStep(p)
<1> USE LockAssumption DEF LockIInv, LockTypeOK, Phase, InBody, Inside, Stray, Completed
<1>1. CASE TryLock(p)
  <2>1. Inside = {} /\ p \notin Stray \cup Completed
    BY <1>1 DEF TryLock, LockFollowsBody
  <2>2. Inside' = {p} /\ Stray' = Stray /\ Completed' = Completed
    BY <1>1, <2>1 DEF TryLock, FreshUnbroken
  <2> QED BY <2>1, <2>2 DEF PromiseStep, Promise!Enter
<1>2. CASE \/ Start(p) \/ StartFails(p) \/ RetryLater(p)
           \/ LockTimesOut(p) \/ TryLockRaises(p)
  <2>1. /\ phase[p] \in {"start", "trying"} /\ phase'[p] \in {"trying", "failed"}
        /\ phase' = [phase EXCEPT ![p] = phase'[p]] /\ broken' = broken
    BY <1>2 DEF Start, StartFails, RetryLater, LockTimesOut, TryLockRaises, Exit
  <2>2. UNCHANGED <<Inside, Stray, Completed>>
    BY <2>1
  <2> QED BY <2>2 DEF PromiseStep
<1> QED BY <1>1, <1>2 DEF AcquireStep

(* Only a confirmed unlock of an unbroken run completes.                   *)
LEMMA ReleaseKeepsPromise ==
    ASSUME LockIInv, NEW p \in Pods, ReleaseStep(p) PROVE PromiseStep(p)
<1> USE LockAssumption DEF LockIInv, LockTypeOK, Phase, InBody, Inside, Stray, Completed
<1>1. CASE phase'[p] = "done"
  <2>1. /\ phase[p] = "releasing" /\ lock = p /\ broken' = broken
        /\ phase' = [phase EXCEPT ![p] = "done"]
    BY <1>1 DEF ReleaseStep, Release, ReleaseUnconfirmed, ReleaseRaises, Exit
  <2>2. p \in Inside
    BY <2>1 DEF LockFollowsBody
  <2>3. /\ Inside' = Inside \ {p} /\ Completed' = Completed \cup {p}
        /\ Stray' = Stray
    BY <2>1, <2>2
  <2> QED BY <2>2, <2>3 DEF PromiseStep, Promise!Complete
<1>2. CASE phase'[p] # "done"
  <2>1. /\ phase[p] = "releasing" /\ broken' = broken
        /\ phase' = [phase EXCEPT ![p] = "failed"]
    BY <1>2 DEF ReleaseStep, Release, ReleaseUnconfirmed, ReleaseRaises, Exit
  <2>2. p \in Inside \cup Stray
    BY <2>1
  <2>3. /\ Inside' = Inside \ {p} /\ Stray' = Stray \ {p}
        /\ Completed' = Completed
    BY <2>1
  <2> QED BY <2>2, <2>3 DEF PromiseStep, Promise!Abandon
<1> QED BY <1>1, <1>2

(* A lost session takes the protection away from a run inside, and is not  *)
(* seen otherwise.                                                         *)
LEMMA LossKeepsPromise ==
    ASSUME LockIInv, NEW p \in Pods, LoseSession(p) PROVE PromiseStep(p)
<1> USE LockAssumption DEF LockIInv, LockTypeOK, InBody, Inside, Stray, Completed
<1>1. CASE lock = p
  <2>1. p \in Inside /\ phase' = phase /\ broken' = [broken EXCEPT ![p] = TRUE]
    BY <1>1 DEF LoseSession, LockFollowsBody
  <2>2. /\ Inside' = Inside \ {p} /\ Stray' = Stray \cup {p}
        /\ Completed' = Completed
    BY <2>1
  <2> QED BY <2>1, <2>2 DEF PromiseStep, Promise!LoseProtection
<1>2. CASE lock # p
  <2>1. phase' = phase /\ \A q \in Pods : broken'[q] = broken[q]
    BY <1>2 DEF LoseSession
  <2> QED BY <2>1 DEF PromiseStep
<1> QED BY <1>1, <1>2

(* A killed process abandons the setup if it was inside.                   *)
LEMMA CrashKeepsPromise ==
    ASSUME LockIInv, NEW p \in Pods, Crash(p) PROVE PromiseStep(p)
<1> USE LockAssumption
    DEF LockIInv, LockTypeOK, Phase, Ended, InBody, Inside, Stray, Completed
<1>1. /\ phase[p] # "done" /\ broken' = broken
      /\ phase' = [phase EXCEPT ![p] = "failed"]
  BY DEF Crash, Exit
<1>2. /\ Inside' = Inside \ {p} /\ Stray' = Stray \ {p}
      /\ Completed' = Completed
  BY <1>1
<1>3. CASE p \in Inside \cup Stray
  BY <1>2, <1>3 DEF PromiseStep, Promise!Abandon
<1>4. CASE p \notin Inside \cup Stray
  <2>1. Inside' = Inside /\ Stray' = Stray
    BY <1>2, <1>4
  <2> QED BY <1>2, <2>1 DEF PromiseStep
<1> QED BY <1>3, <1>4

(* A restart forgets a reported success.                                   *)
LEMMA RestartKeepsPromise ==
    ASSUME LockIInv, NEW p \in Pods, Restart(p) PROVE PromiseStep(p)
<1> USE LockAssumption
    DEF LockIInv, LockTypeOK, Phase, Ended, InBody, Inside, Stray, Completed
<1>1. /\ phase[p] \in Ended /\ phase' = [phase EXCEPT ![p] = "start"]
      /\ broken' = [broken EXCEPT ![p] = FALSE]
  BY DEF Restart
<1>2. Inside' = Inside /\ Stray' = Stray /\ Completed' = Completed \ {p}
  BY <1>1
<1>3. CASE p \in Completed
  BY <1>2, <1>3 DEF PromiseStep, Promise!Begin
<1>4. CASE p \notin Completed
  <2>1. Completed' = Completed
    BY <1>2, <1>4
  <2> QED BY <1>2, <2>1 DEF PromiseStep
<1> QED BY <1>3, <1>4

(* Every step of the lock is a step of the promise or invisible to it.     *)
LEMMA StepKeepsPromise ==
    LockIInv /\ [LockNext]_lockVars =>
        [Promise!PromiseNext]_(Promise!promiseVars)
<1> SUFFICES ASSUME LockIInv, [LockNext]_lockVars
             PROVE  \/ \E p \in Pods : PromiseStep(p)
                    \/ UNCHANGED <<Inside, Stray, Completed>>
  BY DEF PromiseStep, Promise!PromiseNext, Promise!promiseVars, Inside, Stray,
         Completed
<1>1. ASSUME NEW p \in Pods, NEW error \in BOOLEAN, LeaveBody(p, error)
      PROVE  UNCHANGED <<Inside, Stray, Completed>>
  BY <1>1 DEF LockIInv, LockTypeOK, LeaveBody, InBody, Inside, Stray, Completed
<1>2. CASE ReapOrphan \/ UNCHANGED lockVars
  BY <1>2 DEF ReapOrphan, lockVars, InBody, Inside, Stray, Completed
<1> QED
  BY <1>1, <1>2, AcquireKeepsPromise, ReleaseKeepsPromise, LossKeepsPromise,
     CrashKeepsPromise, RestartKeepsPromise DEF LockNext

(* The advisory-lock protocol of the script implements the abstract lock.  *)
THEOREM LockImplementsPromise == LockSpec => KeepsPromise
<1>1. LockInit => Promise!PromiseInit
  BY DEF LockInit, Promise!PromiseInit, InBody
<1> QED
  BY <1>1, StepKeepsPromise, LockInvariance, PTL
     DEF LockSpec, KeepsPromise, Promise!PromiseSpec

(* The promise is enough: whatever keeps it, by this protocol or another,  *)
(* has at most one pod in the block that has not lost its protection.      *)
THEOREM PromiseExcludes == KeepsPromise => []MutualExclusion
<1> DEFINE One == \A p, q \in Inside : p = q
<1>1. Promise!PromiseInit => One
  BY DEF Promise!PromiseInit, Inside
<1>2. One /\ [Promise!PromiseNext]_(Promise!promiseVars) => One'
  <2> SUFFICES ASSUME One, [Promise!PromiseNext]_(Promise!promiseVars) PROVE One'
    OBVIOUS
  <2>1. ASSUME NEW p \in Pods, Promise!Enter(p) PROVE One'
    BY <2>1 DEF Promise!Enter, Inside
  <2>2. ASSUME NEW p \in Pods,
               \/ Promise!Begin(p) \/ Promise!LoseProtection(p)
               \/ Promise!Complete(p) \/ Promise!Abandon(p)
        PROVE  One'
    <3>1. Inside' \subseteq Inside
      BY <2>2 DEF Promise!Begin, Promise!LoseProtection, Promise!Complete, Promise!Abandon,
                  Inside
    <3> QED BY <3>1
  <2>3. CASE UNCHANGED Promise!promiseVars
    BY <2>3 DEF Promise!promiseVars, Inside
  <2> QED BY <2>1, <2>2, <2>3 DEF Promise!PromiseNext
<1>3. One => MutualExclusion
  BY DEF Inside, MutualExclusion
<1> QED BY <1>1, <1>2, <1>3, PTL DEF KeepsPromise, Promise!PromiseSpec
-----------------------------------------------------------------------------
(* How many steps a run has ahead of it at most, once its deadline is set: *)
(* the attempts that remain, the setup, the unlock and the exit.           *)
Ahead(p) == CASE phase[p] = "trying"    -> 3 + left[p]
              [] phase[p] = "holding"   -> 2
              [] phase[p] = "releasing" -> 1
              [] OTHER                  -> 0

(* A step the run of p takes by itself.                                    *)
OwnStep(p) ==
    AcquireStep(p) \/ ReleaseStep(p) \/ \E error \in BOOLEAN : LeaveBody(p, error)

(* A pod that is held up by others gives up: each step it takes brings it  *)
(* nearer to its end, and nothing another pod, the server or a lost        *)
(* session does takes it further away from it, so the wait is bounded by   *)
(* the deadline set at its start (66, 88-93).                              *)
THEOREM WaitIsBounded ==
    LockSpec => [][\A p \in Pods :
        /\ OwnStep(p) => phase[p] = "start" \/ Ahead(p)' < Ahead(p)
        /\ phase[p] \notin Ended \cup {"start"} => Ahead(p)' <= Ahead(p)]_lockVars
<1> DEFINE Nearer(p) ==
        /\ OwnStep(p) => phase[p] = "start" \/ Ahead(p)' < Ahead(p)
        /\ phase[p] \notin Ended \cup {"start"} => Ahead(p)' <= Ahead(p)
<1>1. ASSUME LockTypeOK, NEW p \in Pods, OwnStep(p)
      PROVE  /\ phase'[p] \in Ended \/ phase[p] = "start" \/ Ahead(p)' < Ahead(p)
             /\ phase[p] \notin Ended
             /\ \A q \in Pods \ {p} : phase'[q] = phase[q] /\ left'[q] = left[q]
  <2> USE DEF LockTypeOK, Ended, Exit, Ahead
  <2>1. CASE Start(p)
    <3>1. PICK s \in TimeoutSettings :
             \E r \in 0 .. TimeoutSeconds(s) : left' = [left EXCEPT ![p] = r]
      BY <2>1 DEF Start
    <3>2. PICK r \in 0 .. TimeoutSeconds(s) : left' = [left EXCEPT ![p] = r]
      BY <3>1
    <3> QED BY <1>1, <2>1, <3>2 DEF Start
  <2>6. CASE StartFails(p)
    BY <1>1, <2>6 DEF StartFails
  <2>2. CASE TryLock(p) \/ LockTimesOut(p) \/ TryLockRaises(p)
    BY <1>1, <2>2 DEF TryLock, LockTimesOut, TryLockRaises
  <2>3. CASE RetryLater(p)
    <3>1. PICK r \in 0 .. left[p] - 1 : left' = [left EXCEPT ![p] = r]
      BY <2>3 DEF RetryLater
    <3> QED BY <1>1, <2>3, <3>1 DEF RetryLater
  <2>4. CASE ReleaseStep(p)
    BY <1>1, <2>4 DEF ReleaseStep, Release, ReleaseUnconfirmed, ReleaseRaises
  <2>5. CASE \E error \in BOOLEAN : LeaveBody(p, error)
    BY <1>1, <2>5 DEF LeaveBody
  <2> QED BY <1>1, <2>1, <2>2, <2>3, <2>4, <2>5, <2>6 DEF OwnStep, AcquireStep
<1>2. ASSUME LockTypeOK, LockNext, NEW q \in Pods, phase[q] \notin Ended \cup {"start"}
      PROVE  Ahead(q)' <= Ahead(q)
  <2> USE DEF LockTypeOK, Ended
  <2>1. Ahead(q) \in Nat
    BY <1>2 DEF Ahead
  <2>2. ASSUME NEW p \in Pods, OwnStep(p) PROVE Ahead(q)' <= Ahead(q)
    <3>1. CASE p = q
      <4>1. Ahead(q)' < Ahead(q) \/ phase'[q] \in Ended
        BY <1>1, <1>2, <2>2, <3>1
      <4>2. phase'[q] \in Ended => Ahead(q)' = 0
        BY DEF Ahead
      <4> HIDE DEF Ahead
      <4>3. CASE phase'[q] \in Ended
        BY <2>1, <4>2, <4>3
      <4>4. CASE Ahead(q)' < Ahead(q)
        <5>1. Ahead(q)' \in Nat
          BY <1>2, LockTypePreserved DEF Ahead
        <5> QED BY <2>1, <4>4, <5>1
      <4> QED BY <4>1, <4>3, <4>4
    <3>2. CASE p # q
      <4>1. Ahead(q)' = Ahead(q)
        BY <1>1, <1>2, <2>2, <3>2 DEF Ahead
      <4> QED BY <2>1, <4>1
    <3> QED BY <3>1, <3>2
  <2>3. ASSUME NEW p \in Pods, LoseSession(p) \/ Crash(p) \/ Restart(p)
        PROVE  Ahead(q)' <= Ahead(q)
    <3>1. left' = left /\ (phase'[q] = phase[q] \/ phase'[q] \in Ended)
      BY <1>2, <2>3 DEF LoseSession, Crash, Restart, Exit
    <3>2. Ahead(q)' \in {Ahead(q), 0}
      BY <3>1 DEF Ahead
    <3> QED BY <2>1, <3>2
  <2>4. CASE ReapOrphan
    BY <2>1, <2>4 DEF ReapOrphan, Ahead
  <2> QED BY <1>2, <2>2, <2>3, <2>4 DEF LockNext, OwnStep
<1>3. ASSUME LockTypeOK, NEW p \in Pods, OwnStep(p), phase[p] # "start"
      PROVE  Ahead(p)' < Ahead(p)
  <2>1. CASE phase'[p] \in Ended
    <3>1. phase[p] \in {"trying", "holding", "releasing"} /\ left[p] \in Nat
      BY <1>1, <1>3 DEF LockTypeOK, Phase, Ended
    <3>2. Ahead(p) > 0
      BY <3>1 DEF Ahead
    <3>3. Ahead(p)' = 0
      BY <2>1 DEF Ahead, Ended
    <3> QED BY <3>2, <3>3
  <2> QED BY <1>1, <1>3, <2>1
<1>4. LockIInv /\ [LockNext]_lockVars => [\A p \in Pods : Nearer(p)]_lockVars
  BY <1>2, <1>3 DEF LockIInv
<1> QED BY <1>4, LockInvariance, PTL DEF LockSpec
=============================================================================
