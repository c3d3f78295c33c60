--------------------------- MODULE BootstrapProofs ---------------------------
(***************************************************************************)
(* The whole script, for any set of pods, any installation, configuration  *)
(* and waiting times, and any number of restarts and kills.                *)
(*                                                                         *)
(* First, every step of the composition is a step of the lock or invisible *)
(* to it, so the theorems on the lock hold of the script.  Second, as long *)
(* as no pod loses its session at a stage, the lock lets one pod into the  *)
(* setup at a time, and what that pod has read of the workspace stays true *)
(* until it acts on it: the owner is single.                               *)
(***************************************************************************)
EXTENDS Bootstrap, BootstrapLockProofs

(* A stage stays in the block, or leaves it as the lock has it.            *)
LEMMA SetupStepIsLock ==
    ASSUME NEW p \in Pods, SetupStep(p)
    PROVE  (\E error \in BOOLEAN : LeaveBody(p, error)) \/ UNCHANGED lockVars
<1>1. CASE \/ AutoSetup(p) \/ Register(p) \/ ResolveTenant(p)
           \/ EnsureRsa(p) \/ GenerateKeyPair(p) \/ CommitPublicKey(p)
  BY <1>1 DEF AutoSetup, Register, ResolveTenant, EnsureRsa, GenerateKeyPair,
              CommitPublicKey, Advance
<1>2. CASE \/ DaemonAnswers(p) \/ DaemonSilent(p)
           \/ ListPlugins(p) \/ UploadPackage(p) \/ InstallRequest(p)
           \/ PollSucceeds(p) \/ PollPending(p) \/ Provision(p)
  BY <1>2 DEF DaemonAnswers, DaemonSilent, ListPlugins, UploadPackage, InstallRequest,
              PollSucceeds, PollPending, Provision, StartProvisioning, Advance
<1>3. CASE \/ RegisterRaises(p) \/ TenantRefused(p) \/ RsaRaises(p)
           \/ DaemonTimesOut(p) \/ PollEnds(p) \/ PluginRaises(p)
           \/ ProvisionRaises(p) \/ Complete(p)
  BY <1>3 DEF RegisterRaises, TenantRefused, RsaRaises, DaemonTimesOut, PollEnds,
              PluginRaises, ProvisionRaises, Complete, Raise
<1> QED BY <1>1, <1>2, <1>3 DEF SetupStep

(* The simulation of the lock by the script.                               *)
LEMMA NextIsLock == [Next]_vars => [LockNext]_lockVars
<1> SUFFICES ASSUME [Next]_vars PROVE [LockNext]_lockVars
  OBVIOUS
<1>1. ASSUME NEW p \in Pods, Enter(p) \/ Outside(p) \/ Leave(p) \/ Killed(p) \/ Around(p)
      PROVE  LockNext
  BY <1>1 DEF Enter, Outside, Leave, Killed, Around, LockNext, AcquireStep
<1>2. ASSUME NEW p \in Pods, SetupStep(p) PROVE [LockNext]_lockVars
  BY <1>2, SetupStepIsLock DEF LockNext
<1>3. ASSUME NEW p \in Pods, TaskEnds(p) PROVE UNCHANGED lockVars
  BY <1>3 DEF TaskEnds
<1>4. CASE Reap
  BY <1>4 DEF Reap, LockNext
<1>5. CASE UNCHANGED vars
  BY <1>5 DEF vars
<1> QED BY <1>1, <1>2, <1>3, <1>4, <1>5 DEF Next

(* The script implements the lock, whatever its stages do.                 *)
THEOREM BootstrapKeepsLock == Spec => KeepsLock
<1>1. Init => LockInit
  BY DEF Init
<1> QED BY <1>1, NextIsLock, PTL DEF Spec, KeepsLock, LockSpec

(* So pods are in the setup together only when one has lost its session.   *)
THEOREM BootstrapMutex == Spec => []MutualExclusion
BY BootstrapKeepsLock, LockMutex, PTL DEF KeepsLock
-----------------------------------------------------------------------------
(* What the stages need of the types.                                      *)
WorkspaceTypeOK == stage \in [Pods -> Stages] /\ tenants \in Nat

(* Where the pods are, however many sessions are lost.                     *)
StageIInv ==
    /\ LockIInv
    /\ WorkspaceTypeOK
    /\ SetupInBody

(* A pod about to register has found no tenant, and there still is none.   *)
RegisterOnFresh == \A p \in Pods : stage[p] = "register" => tenants = 0

(* The inductive invariant of pods that are in the setup one at a time.    *)
OwnerIInv == StageIInv /\ RegisterOnFresh

(* No pod is at a stage initially.                                         *)
LEMMA OwnerInit == Init => OwnerIInv
<1> SUFFICES ASSUME Init PROVE OwnerIInv
  OBVIOUS
<1>1. LockIInv
  BY LockInitIInv DEF Init
<1>2. tenants \in Nat
  BY BootstrapAssumption DEF Init, World
<1>3. stage = [p \in Pods |-> "idle"]
  BY DEF Init
<1>4. phase = [p \in Pods |-> "start"]
  BY DEF Init, LockInit
<1> QED BY <1>1, <1>2, <1>3, <1>4
        DEF OwnerIInv, StageIInv, WorkspaceTypeOK, Stages, SetupInBody, RegisterOnFresh

(* What a stage does to the pod's place and to the number of tenants.      *)
StageMove(p) ==
    /\ phase[p] = "holding"
    /\ \/ /\ phase' = phase
          /\ \E s \in Stages \ {"idle"} :
                /\ stage' = [stage EXCEPT ![p] = s]
                /\ s = "register" => stage[p] = "auto_setup" /\ ~Installed
       \/ /\ phase' = [phase EXCEPT ![p] = "releasing"]
          /\ stage' = [stage EXCEPT ![p] = "idle"]
    /\ \/ tenants' = tenants
       \/ stage[p] = "register" /\ tenants' = tenants + 1

(* Each stage goes on, under the lock, or leaves; only the registration    *)
(* adds a tenant.                                                          *)
LEMMA SetupStepMoves ==
    ASSUME NEW p \in Pods, SetupStep(p) PROVE StageMove(p)
<1> USE DEF StageMove, At, Goto, Stages, workspace
<1>t. "tenant" \in Stages \ {"idle"} /\ "tenant" # "register"
  OBVIOUS
<1>1. CASE AutoSetup(p)
  <2>1. phase[p] = "holding" /\ phase' = phase /\ tenants' = tenants /\ stage[p] = "auto_setup"
    BY <1>1 DEF AutoSetup, Advance, lockVars
  <2>2. stage' = [stage EXCEPT ![p] = IF Installed THEN "tenant" ELSE "register"]
    BY <1>1 DEF AutoSetup, Advance
  <2>3. CASE Installed
    BY <1>t, <2>1, <2>2, <2>3
  <2>4. CASE ~Installed
    BY <2>1, <2>2, <2>4
  <2> QED BY <2>3, <2>4
<1>2. CASE Register(p)
  <2>1. /\ phase[p] = "holding" /\ phase' = phase
        /\ stage[p] = "register" /\ stage' = [stage EXCEPT ![p] = "tenant"]
        /\ tenants' = tenants + 1
    BY <1>2 DEF Register, Advance, lockVars
  <2> QED BY <1>t, <2>1
<1>3. CASE ResolveTenant(p) \/ EnsureRsa(p) \/ GenerateKeyPair(p) \/ CommitPublicKey(p)
  BY <1>3 DEF ResolveTenant, EnsureRsa, GenerateKeyPair, CommitPublicKey, Advance, lockVars
<1>4. CASE \/ DaemonAnswers(p) \/ DaemonSilent(p) \/ UploadPackage(p)
           \/ PollPending(p) \/ Provision(p)
  BY <1>4 DEF DaemonAnswers, DaemonSilent, UploadPackage, PollPending, Provision,
              Advance, lockVars
<1>5. CASE ListPlugins(p) \/ InstallRequest(p) \/ PollSucceeds(p)
  BY <1>5 DEF ListPlugins, InstallRequest, PollSucceeds, StartProvisioning,
              Advance, lockVars
<1>6. CASE RegisterRaises(p)
  BY <1>6 DEF RegisterRaises, Raise, ForgetLocals, LeaveBody
<1>7. CASE \/ TenantRefused(p) \/ RsaRaises(p) \/ DaemonTimesOut(p) \/ PollEnds(p)
           \/ PluginRaises(p) \/ ProvisionRaises(p)
  BY <1>7 DEF TenantRefused, RsaRaises, DaemonTimesOut, PollEnds, PluginRaises,
              ProvisionRaises, Raise, ForgetLocals, LeaveBody
<1>8. CASE Complete(p)
  BY <1>8 DEF Complete, ForgetLocals, LeaveBody
<1> QED BY <1>1, <1>2, <1>3, <1>4, <1>5, <1>6, <1>7, <1>8 DEF SetupStep

(* A step of the script leads from one stage to another, or leaves the     *)
(* block with its stage; the steps outside leave the stages alone.         *)
LEMMA StagePreserved == ASSUME StageIInv, [Next]_vars PROVE StageIInv'
<1>l. LockIInv'
  BY NextIsLock, LockIInvPreserved DEF StageIInv
<1>f. phase \in [Pods -> Phase]
  BY DEF StageIInv, LockIInv, LockTypeOK
<1> USE DEF StageIInv, WorkspaceTypeOK, SetupInBody
<1>1. ASSUME NEW p \in Pods, SetupStep(p) PROVE StageIInv'
  <2>1. StageMove(p)
    BY <1>1, SetupStepMoves
  <2>2. WorkspaceTypeOK'
    BY <2>1 DEF StageMove, Stages
  <2>3. SetupInBody'
    BY <2>1, <1>f DEF StageMove
  <2> QED BY <1>l, <2>2, <2>3
<1>2. ASSUME NEW p \in Pods, Enter(p) PROVE StageIInv'
  <2>1. /\ phase' = [phase EXCEPT ![p] = "holding"]
        /\ stage' = [stage EXCEPT ![p] = "auto_setup"] /\ tenants' = tenants
    BY <1>2 DEF Enter, TryLock, Goto, workspace
  <2> QED BY <1>l, <1>f, <2>1 DEF Stages
<1>3. ASSUME NEW p \in Pods, Outside(p) \/ Leave(p) \/ Around(p) PROVE StageIInv'
  <2>1. stage' = stage /\ tenants' = tenants
    BY <1>3 DEF Outside, Leave, Around, workspace
  <2>2. \A q \in Pods : phase'[q] = "holding" <=> phase[q] = "holding"
    BY <1>3, <1>f DEF Outside, Leave, Around, Start, StartFails, RetryLater, LockTimesOut,
       TryLockRaises, ReleaseStep, Release, ReleaseUnconfirmed, ReleaseRaises,
       LoseSession, Restart, Exit, Ended
  <2> QED BY <1>l, <2>1, <2>2
<1>4. ASSUME NEW p \in Pods, Killed(p) PROVE StageIInv'
  <2>1. /\ phase' = [phase EXCEPT ![p] = "failed"]
        /\ stage' = [stage EXCEPT ![p] = "idle"] /\ tenants' = tenants
    BY <1>4 DEF Killed, Crash, Exit, ForgetLocals, Goto, workspace
  <2> QED BY <1>l, <1>f, <2>1 DEF Stages
<1>5. ASSUME NEW p \in Pods, TaskEnds(p) PROVE StageIInv'
  BY <1>5, <1>l DEF TaskEnds, lockVars, workspace
<1>6. CASE Reap \/ UNCHANGED vars
  <2>1. UNCHANGED <<phase, stage, tenants>>
    BY <1>6 DEF Reap, ReapOrphan, vars, lockVars, workspace
  <2> QED BY <1>l, <2>1
<1> QED BY <1>1, <1>2, <1>3, <1>4, <1>5, <1>6 DEF Next

(* The stages stay in the protected block, whichever way it is left.       *)
THEOREM StagesInBody == Spec => []SetupInBody
<1>1. Init => StageIInv
  BY OwnerInit DEF OwnerIInv
<1>2. StageIInv /\ [Next]_vars => StageIInv'
  BY StagePreserved
<1>3. StageIInv => SetupInBody
  BY DEF StageIInv
<1> QED BY <1>1, <1>2, <1>3, PTL DEF Spec
-----------------------------------------------------------------------------
(* The lock does for the setup what the stages need, as long as no pod     *)
(* loses its session at a stage: whoever waits for the lock, gives it back *)
(* or dies with it may lose his.                                           *)
THEOREM SetupsSerial == Spec /\ []Protected => []OneInSetup
<1>1. LockIInv /\ Protected => OneInSetup
  BY DEF LockIInv, LockFollowsBody, InBody, Protected, OneInSetup
<1>2. Spec => []LockIInv
  BY BootstrapKeepsLock, LockInvariance, PTL DEF KeepsLock
<1> QED BY <1>1, <1>2, PTL

(* Nobody has lost a session.                                              *)
Unbroken == losses = 0 /\ \A p \in Pods : ~broken[p]

(* Where there are no losses to come it stays so.                          *)
LEMMA UnbrokenPreserved ==
    ASSUME MaxLosses = 0, LockIInv, Unbroken, [LockNext]_lockVars
    PROVE  Unbroken'
<1> USE DEF Unbroken, LockIInv, LockTypeOK
<1>1. ASSUME NEW p \in Pods, AcquireStep(p) \/ ReleaseStep(p) PROVE Unbroken'
  BY <1>1 DEF AcquireStep, Start, StartFails, TryLock, RetryLater, LockTimesOut,
              TryLockRaises, ReleaseStep, Release, ReleaseUnconfirmed, ReleaseRaises
<1>2. ASSUME NEW p \in Pods, NEW error \in BOOLEAN, LeaveBody(p, error) PROVE Unbroken'
  BY <1>2 DEF LeaveBody
<1>3. ASSUME NEW p \in Pods, LoseSession(p) \/ Crash(p) \/ Restart(p) PROVE Unbroken'
  BY <1>3 DEF LoseSession, Crash, Restart
<1>4. CASE ReapOrphan \/ UNCHANGED lockVars
  BY <1>4 DEF ReapOrphan, lockVars
<1> QED BY <1>1, <1>2, <1>3, <1>4 DEF LockNext

(* The case of a database that ends no session of a live client.           *)
THEOREM NoLossProtects == MaxLosses = 0 /\ Spec => []Protected
<1> SUFFICES ASSUME MaxLosses = 0 PROVE Spec => []Protected
  OBVIOUS
<1>1. LockInit => LockIInv /\ Unbroken
  BY LockInitIInv DEF LockInit, Unbroken
<1>2. LockIInv /\ Unbroken /\ [LockNext]_lockVars => LockIInv' /\ Unbroken'
  BY LockIInvPreserved, UnbrokenPreserved
<1>3. Unbroken => Protected
  BY DEF Unbroken, Protected
<1> QED BY <1>1, <1>2, <1>3, BootstrapKeepsLock, PTL DEF KeepsLock, LockSpec
-----------------------------------------------------------------------------
(* Only a pod that has found no tenant adds one, and it is alone.          *)
LEMMA OwnerStep ==
    ASSUME OneInSetup, OwnerIInv, [Next]_vars
    PROVE  OwnerIInv' /\ (tenants' > tenants => tenants = 0)
<1>s. StageIInv'
  BY StagePreserved DEF OwnerIInv
<1> USE DEF OwnerIInv, StageIInv, WorkspaceTypeOK, SetupInBody, RegisterOnFresh
<1>1. ASSUME NEW p \in Pods, SetupStep(p)
      PROVE  RegisterOnFresh' /\ (tenants' > tenants => tenants = 0)
  <2>1. StageMove(p)
    BY <1>1, SetupStepMoves
  <2>2. tenants' > tenants => tenants = 0
    BY <2>1 DEF StageMove
  <2>3. ASSUME NEW q \in Pods, stage'[q] = "register" PROVE tenants' = 0
    <3>1. CASE q = p
      BY <2>1, <2>3, <3>1 DEF StageMove, Installed
    <3>2. CASE q # p
      <4>1. stage[q] = "register" /\ phase[q] = "holding"
        BY <2>1, <2>3, <3>2 DEF StageMove
      <4> QED BY <4>1, <2>1, <3>2 DEF StageMove, OneInSetup
    <3> QED BY <3>1, <3>2
  <2> QED BY <2>2, <2>3
<1>2. ASSUME NEW p \in Pods, Enter(p) \/ Killed(p)
      PROVE  RegisterOnFresh' /\ tenants' = tenants
  <2>1. /\ \E s \in {"auto_setup", "idle"} : stage' = [stage EXCEPT ![p] = s]
        /\ tenants' = tenants
    BY <1>2 DEF Enter, Killed, ForgetLocals, Goto, workspace
  <2> QED BY <2>1
<1>3. ASSUME NEW p \in Pods, Outside(p) \/ Leave(p) \/ Around(p) \/ TaskEnds(p)
      PROVE  RegisterOnFresh' /\ tenants' = tenants
  BY <1>3 DEF Outside, Leave, Around, TaskEnds, workspace
<1>4. CASE Reap \/ UNCHANGED vars
  <2>1. UNCHANGED <<stage, tenants>>
    BY <1>4 DEF Reap, vars, workspace
  <2> QED BY <1>s, <2>1
<1> QED BY <1>s, <1>1, <1>2, <1>3, <1>4 DEF Next

(* Pods that start together, fail, are killed and are started again        *)
(* register a single owner, as long as they are in the setup one at a      *)
(* time.                                                                   *)
THEOREM OwnerIsSingle == Spec /\ []OneInSetup => SingleOwner
<1>1. OneInSetup /\ OwnerIInv /\ [Next]_vars => OwnerIInv'
  BY OwnerStep
<1>2. OneInSetup /\ OwnerIInv /\ [Next]_vars => [tenants' > tenants => tenants = 0]_vars
  BY OwnerStep
<1> QED BY <1>1, <1>2, OwnerInit, PTL DEF Spec, SingleOwner
=============================================================================
