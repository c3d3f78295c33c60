------------------------- MODULE BootstrapKeyProofs -------------------------
(***************************************************************************)
(* The tenant's key pair, what the provisioning finds in place and what it *)
(* has done at its end, for any pods, installation, configuration and      *)
(* waiting times, any behaviour of the plugin daemon, and any number of    *)
(* restarts, kills and lost sessions.                                      *)
(*                                                                         *)
(* The argument: what later stages rely on (a private key, the plugin) is  *)
(* never taken back, whoever else is in the setup.  What a pod has looked  *)
(* up and found missing (no private key, no second tenant) stays missing   *)
(* only as long as the pod is alone; the theorems that need it say so.     *)
(* For the same reason the runs of the provisioning come one after the     *)
(* other, or, without the lock, in any order, and ProvisioningProofs has   *)
(* theorems on either.                                                     *)
(***************************************************************************)
EXTENDS BootstrapProofs

USE DEF Goto, At

(* The stages behind the key pair, and those behind the tenant.            *)
Beyond == {"daemon", "plugins", "upload", "install", "poll", "provision"}
Settled == {"rsa", "generate", "commit"} \cup Beyond

KeyTypeOK ==
    /\ made \in [Pods -> Nat]
    /\ task \in [Pods -> {"none", "running", "success", "failed"}]
    /\ pub \in Nat /\ priv \in Nat /\ keys \in Nat
    /\ plugin \in BOOLEAN

(* What each stage has and nobody takes from it.                           *)
StageHas(p) ==
    /\ stage[p] \in Beyond \cup {"commit"} => priv # NoKey
    /\ stage[p] = "provision" => plugin
    /\ task[p] = "success" => plugin

(* The inductive invariant of pods that may be in the setup together.      *)
ReadyIInv ==
    /\ StageIInv
    /\ KeyTypeOK
    /\ \A p \in Pods : StageHas(p)

(* Every installation to begin with.                                       *)
LEMMA ReadyInit == Init => ReadyIInv
<1> SUFFICES ASSUME Init PROVE ReadyIInv
  OBVIOUS
<1>1. StageIInv
  BY OwnerInit DEF OwnerIInv
<1>2. PICK w \in Worlds : pub = w.key /\ priv = w.key /\ keys = w.key /\ plugin = w.plugin
  BY DEF Init
<1>3. w \in World
  BY BootstrapAssumption
<1>4. /\ made = [p \in Pods |-> NoKey] /\ task = [p \in Pods |-> "none"]
      /\ stage = [p \in Pods |-> "idle"]
  BY DEF Init
<1> QED BY <1>1, <1>2, <1>3, <1>4 DEF ReadyIInv, KeyTypeOK, StageHas, World, NoKey, Beyond

(* A private key, once there, is followed by a private key; and the plugin *)
(* stays.                                                                  *)
LEMMA HasKept ==
    ASSUME ReadyIInv, NEW p \in Pods,
           priv # NoKey => priv' # NoKey, plugin => plugin',
           \A q \in Pods \ {p} : stage'[q] = stage[q] /\ task'[q] = task[q],
           StageHas(p)'
    PROVE  \A q \in Pods : StageHas(q)'
BY DEF ReadyIInv, StageHas

(* What a step has to show.                                                *)
ReadyStep == KeyTypeOK' /\ \A p \in Pods : StageHas(p)'

(* A pod that leaves the setup has nothing any more.                       *)
LEMMA LeavesReady ==
    ASSUME ReadyIInv, NEW p \in Pods, UNCHANGED <<keyPair, daemon>>, ForgetLocals(p)
    PROVE  ReadyStep
<1>1. stage' = [stage EXCEPT ![p] = "idle"] /\ made' = [made EXCEPT ![p] = NoKey]
  BY DEF ForgetLocals
<1>2. StageHas(p)'
  BY <1>1 DEF ReadyIInv, StageIInv, WorkspaceTypeOK, StageHas, Beyond, daemon
<1>3. \A q \in Pods : StageHas(q)'
  BY <1>1, <1>2, HasKept DEF ReadyIInv, StageIInv, WorkspaceTypeOK, keyPair, daemon
<1> QED BY <1>1, <1>3 DEF ReadyStep, ReadyIInv, KeyTypeOK, keyPair, daemon, NoKey

(* The stages up to the key pair.                                          *)
LEMMA EarlyReady ==
    ASSUME ReadyIInv, NEW p \in Pods,
           \/ AutoSetup(p) \/ Register(p) \/ ResolveTenant(p)
           \/ EnsureRsa(p) \/ GenerateKeyPair(p) \/ CommitPublicKey(p)
    PROVE  ReadyStep
<1> USE DEF ReadyIInv, StageIInv, WorkspaceTypeOK, KeyTypeOK
<1>1. CASE AutoSetup(p) \/ ResolveTenant(p) \/ EnsureRsa(p)
  <2>1. /\ UNCHANGED <<keyPair, made, daemon>>
        /\ \E s \in {"register", "tenant", "rsa", "generate", "daemon"} :
              stage' = [stage EXCEPT ![p] = s] /\ (s = "daemon" => priv # NoKey)
    <3>1. CASE AutoSetup(p)
      <4>1. stage' = [stage EXCEPT ![p] = IF Installed THEN "tenant" ELSE "register"]
        BY <3>1 DEF AutoSetup, Advance
      <4>2. \/ stage' = [stage EXCEPT ![p] = "tenant"]
            \/ stage' = [stage EXCEPT ![p] = "register"]
        BY <4>1
      <4> QED BY <3>1, <4>2 DEF AutoSetup, locals
    <3>2. CASE ResolveTenant(p) \/ EnsureRsa(p)
      BY <3>2 DEF ResolveTenant, EnsureRsa, Advance, locals
    <3> QED BY <1>1, <3>1, <3>2
  <2>2. StageHas(p)'
    BY <2>1 DEF StageHas, Beyond, keyPair, daemon
  <2> QED BY <2>1, <2>2, HasKept DEF ReadyStep, keyPair, daemon
<1>2. CASE Register(p)
  <2>1. /\ stage' = [stage EXCEPT ![p] = "tenant"] /\ UNCHANGED <<made, daemon>>
        /\ \/ UNCHANGED keyPair
           \/ keys' = keys + 1 /\ pub' = keys + 1 /\ priv' = keys + 1
    BY <1>2 DEF Register, Advance, locals
  <2>2. KeyTypeOK' /\ (priv # NoKey => priv' # NoKey)
    BY <2>1 DEF keyPair, daemon, NoKey
  <2>3. StageHas(p)'
    BY <2>1 DEF StageHas, Beyond, daemon
  <2> QED BY <2>1, <2>2, <2>3, HasKept DEF ReadyStep, daemon
<1>3. CASE GenerateKeyPair(p)
  <2>1. /\ stage' = [stage EXCEPT ![p] = "commit"]
        /\ keys' = keys + 1 /\ priv' = keys + 1 /\ made' = [made EXCEPT ![p] = keys + 1]
        /\ UNCHANGED <<pub, daemon>>
    BY <1>3 DEF GenerateKeyPair, Advance
  <2>2. KeyTypeOK' /\ priv' # NoKey
    BY <2>1 DEF daemon, NoKey
  <2>3. StageHas(p)'
    BY <2>1, <2>2 DEF StageHas, Beyond, daemon
  <2> QED BY <2>1, <2>2, <2>3, HasKept DEF ReadyStep, daemon
<1>4. CASE CommitPublicKey(p)
  <2>1. /\ stage[p] = "commit" /\ stage' = [stage EXCEPT ![p] = "daemon"]
        /\ pub' = made[p] /\ made' = [made EXCEPT ![p] = NoKey]
        /\ UNCHANGED <<priv, keys, daemon>>
    BY <1>4 DEF CommitPublicKey, Advance
  <2>2. StageHas(p)'
    BY <2>1 DEF StageHas, Beyond, daemon
  <2> QED BY <2>1, <2>2, HasKept DEF ReadyStep, daemon, NoKey
<1> QED BY <1>1, <1>2, <1>3, <1>4

(* The daemon, the plugin and the provisioning.                            *)
LEMMA LateReady ==
    ASSUME ReadyIInv, NEW p \in Pods,
           \/ DaemonAnswers(p) \/ DaemonSilent(p)
           \/ ListPlugins(p) \/ UploadPackage(p) \/ InstallRequest(p)
           \/ PollSucceeds(p) \/ PollPending(p) \/ Provision(p)
    PROVE  ReadyStep
<1> USE DEF ReadyIInv, StageIInv, WorkspaceTypeOK, KeyTypeOK
<1>1. CASE \/ DaemonAnswers(p) \/ DaemonSilent(p) \/ ListPlugins(p) \/ UploadPackage(p)
           \/ PollSucceeds(p) \/ PollPending(p) \/ Provision(p)
  <2>1. /\ stage[p] \in Beyond /\ UNCHANGED <<keyPair, made, daemon>>
        /\ \E s \in Beyond :
              stage' = [stage EXCEPT ![p] = s] /\ (s = "provision" => plugin)
    <3>1. CASE DaemonAnswers(p) \/ DaemonSilent(p) \/ UploadPackage(p) \/ PollPending(p)
      BY <3>1 DEF DaemonAnswers, DaemonSilent, UploadPackage, PollPending, Advance, locals,
                  Beyond
    <3>2. CASE ListPlugins(p) \/ PollSucceeds(p)
      BY <3>2 DEF ListPlugins, PollSucceeds, StartProvisioning, Advance, locals, StageHas,
                  Beyond
    <3>3. CASE Provision(p)
      BY <3>3 DEF Provision, Advance, locals, StageHas, Beyond
    <3> QED BY <1>1, <3>1, <3>2, <3>3
  <2>2. StageHas(p)'
    BY <2>1 DEF StageHas, keyPair, daemon
  <2> QED BY <2>1, <2>2, HasKept DEF ReadyStep, keyPair, daemon
<1>2. CASE InstallRequest(p)
  <2>1. stage[p] = "install" /\ UNCHANGED <<keyPair, made>>
    BY <1>2 DEF InstallRequest, StartProvisioning, Advance
  <2>2. \/ /\ stage' = [stage EXCEPT ![p] = "provision"] /\ plugin /\ UNCHANGED daemon
        \/ /\ stage' = [stage EXCEPT ![p] = "provision"] /\ plugin' = TRUE
           /\ task' = [task EXCEPT ![p] = "success"]
        \/ /\ stage' = [stage EXCEPT ![p] = "poll"] /\ plugin' = plugin
           /\ task' = [task EXCEPT ![p] = "running"]
    BY <1>2 DEF InstallRequest, StartProvisioning, Advance
  <2>3. StageHas(p)'
    BY <2>1, <2>2 DEF StageHas, Beyond, daemon, keyPair
  <2>4. KeyTypeOK' /\ (plugin => plugin')
    BY <2>1, <2>2 DEF keyPair, daemon
  <2> QED BY <2>1, <2>2, <2>3, <2>4, HasKept DEF ReadyStep, keyPair, daemon
<1> QED BY <1>1, <1>2

(* No step takes back what a stage needs, however many pods are in the     *)
(* setup, and however late the daemon finishes whose task.                 *)
LEMMA ReadyPreserved == ASSUME ReadyIInv, [Next]_vars PROVE ReadyIInv'
<1>s. StageIInv'
  BY StagePreserved DEF ReadyIInv
<1> SUFFICES ReadyStep
  BY <1>s DEF ReadyStep, ReadyIInv
<1> USE DEF ReadyIInv, StageIInv, WorkspaceTypeOK, KeyTypeOK
<1>1. ASSUME NEW p \in Pods, SetupStep(p) PROVE ReadyStep
  <2>1. CASE \/ RegisterRaises(p) \/ TenantRefused(p) \/ RsaRaises(p) \/ DaemonTimesOut(p)
             \/ PluginRaises(p) \/ PollEnds(p) \/ ProvisionRaises(p) \/ Complete(p)
    <3>1. UNCHANGED <<keyPair, daemon>> /\ ForgetLocals(p)
      BY <2>1 DEF RegisterRaises, TenantRefused, RsaRaises, DaemonTimesOut, PluginRaises,
                  PollEnds, ProvisionRaises, Complete, Raise
    <3> QED BY <3>1, LeavesReady
  <2> QED BY <1>1, <2>1, EarlyReady, LateReady DEF SetupStep
<1>2. ASSUME NEW p \in Pods, Enter(p) PROVE ReadyStep
  <2>1. /\ UNCHANGED <<keyPair, made, daemon>>
        /\ stage' = [stage EXCEPT ![p] = "auto_setup"]
    BY <1>2 DEF Enter, locals
  <2>2. StageHas(p)'
    BY <2>1 DEF StageHas, Beyond, daemon
  <2> QED BY <2>1, <2>2, HasKept DEF ReadyStep, keyPair, daemon
<1>3. ASSUME NEW p \in Pods, Killed(p) PROVE ReadyStep
  BY <1>3, LeavesReady DEF Killed
<1>4. ASSUME NEW p \in Pods, TaskEnds(p) PROVE ReadyStep
  <2>1. /\ UNCHANGED <<stage, made, keyPair>>
        /\ \E result \in {"success", "failed"} :
              /\ task' = [task EXCEPT ![p] = result]
              /\ plugin' = (plugin \/ result = "success")
    BY <1>4 DEF TaskEnds, locals
  <2>2. KeyTypeOK' /\ (plugin => plugin')
    BY <2>1 DEF keyPair
  <2>3. StageHas(p)'
    BY <2>1 DEF StageHas, keyPair
  <2> QED BY <2>1, <2>2, <2>3, HasKept DEF ReadyStep, keyPair
<1>5. ASSUME NEW p \in Pods, Outside(p) \/ Leave(p) \/ Around(p) PROVE ReadyStep
  <2>1. UNCHANGED <<stage, made, keyPair, daemon>>
    BY <1>5 DEF Outside, Leave, Around, locals
  <2> QED BY <2>1 DEF ReadyStep, StageHas, keyPair, daemon
<1>6. CASE Reap \/ UNCHANGED vars
  <2>1. UNCHANGED <<stage, made, keyPair, daemon>>
    BY <1>6 DEF Reap, vars, locals
  <2> QED BY <2>1 DEF ReadyStep, StageHas, keyPair, daemon
<1> QED BY <1>1, <1>2, <1>3, <1>4, <1>5, <1>6 DEF Next

(* What each stage has, also of pods that have lost the lock.              *)
THEOREM ReadyInvariance == Spec => []ReadyIInv
<1>1. ReadyIInv /\ [Next]_vars => ReadyIInv'
  BY ReadyPreserved
<1> QED BY <1>1, ReadyInit, PTL DEF Spec

(* Provisioning finds key and plugin in place, however many sessions are   *)
(* lost and however late the daemon has finished whose task.               *)
THEOREM ProvisionsReady == Spec => []ReadyToProvision
<1>1. ReadyIInv => ReadyToProvision
  BY DEF ReadyIInv, StageHas, Beyond, ReadyToProvision
<1> QED BY <1>1, ReadyInvariance, PTL
-----------------------------------------------------------------------------
(* Without a tenant there are no keys; a stored public key is the private  *)
(* key's.                                                                  *)
KeysOfTenant ==
    /\ tenants = 0 => priv = NoKey
    /\ KeysNeverMixed

(* What a pod that is alone in the setup knows of what it has looked up.   *)
StageKnows(p) ==
    /\ stage[p] \in Settled => tenants = 1
    /\ stage[p] = "generate" => priv = NoKey
    /\ stage[p] = "commit" => made[p] = priv

(* The inductive invariant of pods that are in the setup one at a time.    *)
KeyIInv ==
    /\ OwnerIInv
    /\ ReadyIInv
    /\ KeysOfTenant
    /\ \A p \in Pods : StageKnows(p)

(* Nothing is known to anybody initially.                                  *)
LEMMA KeyInit == Init => KeyIInv
<1> SUFFICES ASSUME Init PROVE KeyIInv
  OBVIOUS
<1>1. OwnerIInv /\ ReadyIInv
  BY OwnerInit, ReadyInit
<1>2. PICK w \in Worlds : tenants = w.tenants /\ pub = w.key /\ priv = w.key
  BY DEF Init
<1>3. w.tenants = 0 => w.key = NoKey
  BY BootstrapAssumption
<1>4. stage = [p \in Pods |-> "idle"]
  BY DEF Init
<1> QED BY <1>1, <1>2, <1>3, <1>4
        DEF KeyIInv, KeysOfTenant, KeysNeverMixed, StageKnows, NoKey, Settled, Beyond

(* While a pod is at a stage the others are at none.                       *)
LEMMA OthersIdle ==
    ASSUME OneInSetup, StageIInv, NEW p \in Pods, phase[p] = "holding",
           NEW q \in Pods \ {p}
    PROVE  stage[q] = "idle"
BY DEF OneInSetup, StageIInv, SetupInBody

(* What a step leaves of the facts: the key pair is kept or made.          *)
KeyStep ==
    /\ KeysOfTenant'
    /\ priv # NoKey => priv' = priv
    /\ \A p \in Pods : StageKnows(p)'

(* A step of a pod at a stage that leaves the keys alone and takes what    *)
(* the next stage needs from the present one.                              *)
LEMMA KeysKept ==
    ASSUME OneInSetup, KeyIInv, NEW p \in Pods, phase[p] = "holding",
           UNCHANGED keyPair,
           tenants' >= tenants, tenants' \in Nat,
           \A q \in Pods \ {p} : stage'[q] = stage[q],
           StageKnows(p)'
    PROVE  KeyStep
<1>1. KeysOfTenant'
  BY DEF KeyIInv, OwnerIInv, StageIInv, WorkspaceTypeOK, KeysOfTenant, KeysNeverMixed, keyPair
<1>2. ASSUME NEW q \in Pods \ {p} PROVE StageKnows(q)'
  <2>1. stage'[q] = "idle"
    BY OthersIdle DEF KeyIInv, OwnerIInv
  <2> QED BY <2>1 DEF StageKnows, Settled, Beyond
<1> QED BY <1>1, <1>2 DEF KeyStep, keyPair

(* A pod that leaves the setup knows nothing any more.                     *)
LEMMA RaiseKnows ==
    ASSUME KeyIInv, NEW p \in Pods, stage' = [stage EXCEPT ![p] = "idle"]
    PROVE  StageKnows(p)'
BY DEF KeyIInv, OwnerIInv, StageIInv, WorkspaceTypeOK, StageKnows, Settled, Beyond
-----------------------------------------------------------------------------
(* The stages up to the tenant.                                            *)
LEMMA OwnerStages ==
    ASSUME OneInSetup, KeyIInv, NEW p \in Pods,
           \/ AutoSetup(p) \/ Register(p) \/ RegisterRaises(p)
           \/ ResolveTenant(p) \/ TenantRefused(p)
    PROVE  KeyStep
<1> USE DEF KeyIInv, OwnerIInv, StageIInv, WorkspaceTypeOK, ReadyIInv, KeyTypeOK
<1>1. CASE AutoSetup(p) \/ ResolveTenant(p)
  <2>1. /\ phase[p] = "holding" /\ UNCHANGED <<keyPair, tenants>>
        /\ \E s \in {"register", "tenant", "rsa"} :
              /\ stage' = [stage EXCEPT ![p] = s]
              /\ s = "rsa" => tenants = 1
    <3>1. CASE AutoSetup(p)
      <4>1. CASE Installed
        BY <3>1, <4>1 DEF AutoSetup, Advance, workspace
      <4>2. CASE ~Installed
        BY <3>1, <4>2 DEF AutoSetup, Advance, workspace
      <4> QED BY <4>1, <4>2
    <3>2. CASE ResolveTenant(p)
      BY <3>2 DEF ResolveTenant, Advance, workspace
    <3> QED BY <1>1, <3>1, <3>2
  <2>2. StageKnows(p)'
    BY <2>1 DEF StageKnows, Settled, Beyond
  <2> QED BY <2>1, <2>2, KeysKept
<1>2. CASE Register(p)
  <2>1. /\ phase[p] = "holding" /\ stage[p] = "register"
        /\ stage' = [stage EXCEPT ![p] = "tenant"]
        /\ tenants = 0 /\ tenants' = 1
        /\ priv' = keys + 1 /\ pub' = keys + 1 /\ keys' = keys + 1
    BY <1>2 DEF Register, Advance, RegisterOnFresh
  <2>2. ASSUME NEW q \in Pods PROVE StageKnows(q)'
    <3>1. q # p => stage[q] = "idle"
      BY <2>1, OthersIdle
    <3> QED BY <2>1, <3>1 DEF StageKnows, Settled, Beyond
  <2> QED BY <2>1, <2>2 DEF KeyStep, KeysOfTenant, KeysNeverMixed, NoKey
<1>3. CASE RegisterRaises(p) \/ TenantRefused(p)
  <2>1. /\ phase[p] = "holding" /\ UNCHANGED keyPair
        /\ stage' = [stage EXCEPT ![p] = "idle"]
        /\ tenants' \in {tenants, tenants + 1}
    BY <1>3 DEF RegisterRaises, TenantRefused, Raise, LeaveBody, ForgetLocals, workspace
  <2>2. StageKnows(p)'
    BY <2>1, RaiseKnows
  <2> QED BY <2>1, <2>2, KeysKept
<1> QED BY <1>1, <1>2, <1>3

(* The key pair.                                                           *)
LEMMA RsaStages ==
    ASSUME OneInSetup, KeyIInv, NEW p \in Pods,
           EnsureRsa(p) \/ GenerateKeyPair(p) \/ CommitPublicKey(p) \/ RsaRaises(p)
    PROVE  KeyStep
<1> USE DEF KeyIInv, OwnerIInv, StageIInv, WorkspaceTypeOK, ReadyIInv, KeyTypeOK
<1>1. CASE EnsureRsa(p) \/ RsaRaises(p)
  <2>1. /\ phase[p] = "holding" /\ stage[p] \in Settled
        /\ UNCHANGED <<keyPair, tenants>>
        /\ \/ stage' = [stage EXCEPT ![p] = "daemon"]
           \/ stage' = [stage EXCEPT ![p] = "generate"] /\ priv = NoKey
           \/ stage' = [stage EXCEPT ![p] = "idle"]
    BY <1>1 DEF EnsureRsa, RsaRaises, Raise, LeaveBody, ForgetLocals, Advance, workspace,
                Settled
  <2>2. StageKnows(p)'
    BY <2>1 DEF StageKnows, Settled, Beyond, keyPair
  <2> QED BY <2>1, <2>2, KeysKept
<1>2. CASE GenerateKeyPair(p)
  <2>1. /\ phase[p] = "holding" /\ stage[p] = "generate"
        /\ stage' = [stage EXCEPT ![p] = "commit"]
        /\ priv' = keys + 1 /\ made' = [made EXCEPT ![p] = keys + 1]
        /\ UNCHANGED <<pub, tenants>>
    BY <1>2 DEF GenerateKeyPair, Advance, workspace
  <2>2. priv = NoKey /\ pub = NoKey /\ tenants = 1
    BY <2>1 DEF StageKnows, Settled, KeysOfTenant, KeysNeverMixed, NoKey
  <2>3. ASSUME NEW q \in Pods PROVE StageKnows(q)'
    <3>1. q # p => stage[q] = "idle"
      BY <2>1, OthersIdle
    <3> QED BY <2>1, <2>2, <3>1 DEF StageKnows, Settled, Beyond
  <2> QED BY <2>1, <2>2, <2>3 DEF KeyStep, KeysOfTenant, KeysNeverMixed
<1>3. CASE CommitPublicKey(p)
  <2>1. /\ phase[p] = "holding" /\ stage[p] = "commit"
        /\ stage' = [stage EXCEPT ![p] = "daemon"]
        /\ pub' = made[p] /\ UNCHANGED <<priv, tenants>>
    BY <1>3 DEF CommitPublicKey, Advance, workspace
  <2>2. made[p] = priv /\ tenants = 1
    BY <2>1 DEF StageKnows, Settled
  <2>3. ASSUME NEW q \in Pods PROVE StageKnows(q)'
    <3>1. q # p => stage[q] = "idle"
      BY <2>1, OthersIdle
    <3> QED BY <2>1, <2>2, <3>1 DEF StageKnows, Settled, Beyond
  <2> QED BY <2>1, <2>2, <2>3 DEF KeyStep, KeysOfTenant, KeysNeverMixed, NoKey
<1> QED BY <1>1, <1>2, <1>3

(* The daemon, the plugin and the provisioning leave keys and tenant       *)
(* alone.                                                                  *)
LEMMA LaterStages ==
    ASSUME OneInSetup, KeyIInv, NEW p \in Pods,
           \/ DaemonAnswers(p) \/ DaemonSilent(p) \/ DaemonTimesOut(p)
           \/ ListPlugins(p) \/ UploadPackage(p) \/ InstallRequest(p) \/ PluginRaises(p)
           \/ PollSucceeds(p) \/ PollPending(p) \/ PollEnds(p)
           \/ Provision(p) \/ ProvisionRaises(p) \/ Complete(p)
    PROVE  KeyStep
<1> USE DEF KeyIInv, OwnerIInv, StageIInv, WorkspaceTypeOK
<1>1. /\ phase[p] = "holding" /\ stage[p] \in Beyond
      /\ \E s \in Beyond \cup {"idle"} : stage' = [stage EXCEPT ![p] = s]
      /\ UNCHANGED <<keyPair, tenants>>
  <2>1. CASE \/ DaemonAnswers(p) \/ DaemonSilent(p) \/ UploadPackage(p) \/ PollPending(p)
             \/ ListPlugins(p) \/ InstallRequest(p) \/ PollSucceeds(p) \/ Provision(p)
    BY <2>1 DEF DaemonAnswers, DaemonSilent, UploadPackage, PollPending, ListPlugins,
                InstallRequest, PollSucceeds, Provision, StartProvisioning, Advance,
                workspace, Beyond
  <2>2. CASE \/ DaemonTimesOut(p) \/ PluginRaises(p) \/ PollEnds(p)
             \/ ProvisionRaises(p) \/ Complete(p)
    BY <2>2 DEF DaemonTimesOut, PluginRaises, PollEnds, ProvisionRaises, Complete, Raise,
                LeaveBody, ForgetLocals, workspace, Beyond
  <2> QED BY <2>1, <2>2
<1>2. StageKnows(p)'
  BY <1>1 DEF StageKnows, Settled, Beyond
<1> QED BY <1>1, <1>2, KeysKept
-----------------------------------------------------------------------------
(* No step takes back what a stage has found.                              *)
LEMMA KeyPreserved ==
    ASSUME OneInSetup, KeyIInv, [Next]_vars
    PROVE  KeyIInv' /\ (priv # NoKey => priv' = priv)
<1>o. OwnerIInv' /\ ReadyIInv'
  BY OwnerStep, ReadyPreserved DEF KeyIInv
<1> SUFFICES KeyStep
  BY <1>o DEF KeyStep, KeyIInv
<1> USE DEF KeyIInv, OwnerIInv, StageIInv, WorkspaceTypeOK
<1>1. ASSUME NEW p \in Pods, SetupStep(p) PROVE KeyStep
  BY <1>1, OwnerStages, RsaStages, LaterStages DEF SetupStep
<1>2. ASSUME NEW p \in Pods, Enter(p) \/ Killed(p) PROVE KeyStep
  <2>1. /\ UNCHANGED <<keyPair, tenants>>
        /\ \/ stage' = [stage EXCEPT ![p] = "auto_setup"] /\ UNCHANGED made
           \/ stage' = [stage EXCEPT ![p] = "idle"] /\ made' = [made EXCEPT ![p] = NoKey]
    BY <1>2 DEF Enter, Killed, ForgetLocals, workspace, locals
  <2>2. ASSUME NEW q \in Pods PROVE StageKnows(q)'
    BY <2>1 DEF StageKnows, Settled, Beyond, keyPair, ReadyIInv, KeyTypeOK
  <2> QED BY <2>1, <2>2 DEF KeyStep, KeysOfTenant, KeysNeverMixed, keyPair
<1>3. ASSUME NEW p \in Pods, Outside(p) \/ Leave(p) \/ Around(p) \/ TaskEnds(p) PROVE KeyStep
  <2>1. UNCHANGED <<stage, locals, workspace, keyPair>>
    BY <1>3 DEF Outside, Leave, Around, TaskEnds
  <2> QED BY <2>1 DEF KeyStep, KeysOfTenant, KeysNeverMixed, StageKnows, locals,
                      workspace, keyPair
<1>4. CASE Reap \/ UNCHANGED vars
  <2>1. UNCHANGED <<stage, locals, workspace, keyPair>>
    BY <1>4 DEF Reap, vars
  <2> QED BY <2>1 DEF KeyStep, KeysOfTenant, KeysNeverMixed, StageKnows, locals,
                      workspace, keyPair
<1> QED BY <1>1, <1>2, <1>3, <1>4 DEF Next

(* What each stage relies on, at every state.                              *)
THEOREM KeysInvariance == Spec /\ []OneInSetup => []KeyIInv
<1>1. OneInSetup /\ KeyIInv /\ [Next]_vars => KeyIInv'
  BY KeyPreserved
<1> QED BY <1>1, KeyInit, PTL DEF Spec

(* A public key in the database is that of the stored private key,         *)
(* whichever step of its making has failed and been repeated.              *)
THEOREM KeysMatch == Spec /\ []OneInSetup => []KeysNeverMixed
<1>1. KeyIInv => KeysNeverMixed
  BY DEF KeyIInv, KeysOfTenant
<1> QED BY <1>1, KeysInvariance, PTL

(* The private key that credentials are encrypted for is never replaced.   *)
THEOREM PrivateKeyIsKept == Spec /\ []OneInSetup => PrivateKeyKept
<1>1. OneInSetup /\ KeyIInv /\ [Next]_vars => KeyIInv'
  BY KeyPreserved
<1>2. OneInSetup /\ KeyIInv /\ [Next]_vars => [priv # NoKey => priv' = priv]_vars
  BY KeyPreserved
<1> QED BY <1>1, <1>2, KeyInit, PTL DEF Spec, PrivateKeyKept
-----------------------------------------------------------------------------
(* The locals of the provisioning are functions on the pods, and those of  *)
(* a pod at another stage are as they were at the beginning.               *)
OnPods(f) == f = [q \in Pods |-> f[q]]

ProvisioningQuiet ==
    /\ OnPods(at) /\ OnPods(todo) /\ OnPods(cred) /\ OnPods(config) /\ OnPods(disabled)
    /\ \A p \in Pods : stage[p] # "provision" =>
          /\ at[p] = "idle" /\ todo[p] = <<>> /\ cred[p] = 0
          /\ config[p] = <<>> /\ disabled[p] = {}

QuietIInv == KeyIInv /\ ProvisioningQuiet

progress == <<at, todo, cred, config, disabled>>

(* A step of pod p leaves the locals of the others alone.                  *)
LocalsOf(p) ==
    /\ OnPods(at)' /\ OnPods(todo)' /\ OnPods(cred)' /\ OnPods(config)' /\ OnPods(disabled)'
    /\ \A q \in Pods \ {p} :
          /\ at'[q] = at[q] /\ todo'[q] = todo[q] /\ cred'[q] = cred[q]
          /\ config'[q] = config[q] /\ disabled'[q] = disabled[q]

(* A step of the provisioning is one of its pod.                           *)
LEMMA ProvisionLocal ==
    ASSUME NEW p \in Pods, ProvisioningQuiet, Provisioning!ProvisionStep(p)
    PROVE  LocalsOf(p)
<1> USE DEF ProvisioningQuiet, LocalsOf, OnPods, Provisioning!Goto, Provisioning!store
<1>1. CASE Provisioning!Load(p)
  BY <1>1 DEF Provisioning!Load
<1>2. CASE Provisioning!NextEntry(p)
  BY <1>2 DEF Provisioning!NextEntry
<1>3. CASE Provisioning!NoMoreCurrent(p)
  BY <1>3 DEF Provisioning!NoMoreCurrent
<1>4. CASE Provisioning!UpdateCredential(p) \/ Provisioning!CreateCredential(p)
  BY <1>4 DEF Provisioning!UpdateCredential, Provisioning!CreateCredential
<1>5. CASE Provisioning!ResolveCreated(p) \/ Provisioning!AddToModelList(p)
  BY <1>5 DEF Provisioning!ResolveCreated, Provisioning!AddToModelList
<1>6. CASE Provisioning!EnableModel(p)
  BY <1>6 DEF Provisioning!EnableModel
<1>7. CASE Provisioning!SetDefault(p)
  BY <1>7 DEF Provisioning!SetDefault
<1> QED BY <1>1, <1>2, <1>3, <1>4, <1>5, <1>6, <1>7 DEF Provisioning!ProvisionStep

(* The end of a provisioning puts its locals back.                         *)
LEMMA ForgetLocal ==
    ASSUME NEW p \in Pods, ProvisioningQuiet, Provisioning!Forget(p)
    PROVE  /\ LocalsOf(p)
           /\ at'[p] = "idle" /\ todo'[p] = <<>> /\ cred'[p] = 0
           /\ config'[p] = <<>> /\ disabled'[p] = {}
           /\ stage[p] # "provision" => UNCHANGED progress
BY DEF ProvisioningQuiet, LocalsOf, OnPods, Provisioning!Forget, Provisioning!Goto, progress

(* What a stage touches of the tenant's keys, the plugin and the models.   *)
Untouched == UNCHANGED <<keyPair, daemon, provisioning>>

(* A stage in front of the tenant touches them only by the registration.   *)
LEMMA StagesTouch ==
    ASSUME KeyIInv, NEW p \in Pods, SetupStep(p)
    PROVE  \/ stage[p] \in Settled /\ UNCHANGED tenants
           \/ stage[p] = "register" /\ tenants' = tenants + 1 /\ UNCHANGED provisioning
           \/ Untouched
<1> USE DEF Settled, Beyond, Untouched, workspace
<1>1. CASE AutoSetup(p) \/ RegisterRaises(p) \/ ResolveTenant(p) \/ TenantRefused(p)
  BY <1>1 DEF AutoSetup, RegisterRaises, ResolveTenant, TenantRefused
<1>2. CASE Register(p)
  BY <1>2 DEF Register, Advance
<1>3. CASE \/ EnsureRsa(p) \/ GenerateKeyPair(p) \/ CommitPublicKey(p) \/ RsaRaises(p)
           \/ DaemonAnswers(p) \/ DaemonSilent(p) \/ DaemonTimesOut(p)
  BY <1>3 DEF EnsureRsa, GenerateKeyPair, CommitPublicKey, RsaRaises, DaemonAnswers,
              DaemonSilent, DaemonTimesOut, Advance
<1>4. CASE \/ ListPlugins(p) \/ UploadPackage(p) \/ InstallRequest(p) \/ PluginRaises(p)
           \/ PollSucceeds(p) \/ PollPending(p) \/ PollEnds(p)
  BY <1>4 DEF ListPlugins, UploadPackage, InstallRequest, PluginRaises, PollSucceeds,
              PollPending, PollEnds, StartProvisioning, Advance
<1>5. CASE Provision(p) \/ ProvisionRaises(p) \/ Complete(p)
  BY <1>5 DEF Provision, ProvisionRaises, Complete, Advance
<1> QED BY <1>1, <1>2, <1>3, <1>4, <1>5 DEF SetupStep

(* The locals through a stage.                                             *)
LEMMA StagesQuiet ==
    ASSUME QuietIInv, NEW p \in Pods, SetupStep(p)
    PROVE  ProvisioningQuiet'
<1> USE DEF QuietIInv, KeyIInv, OwnerIInv, StageIInv, WorkspaceTypeOK
<1>1. ASSUME LocalsOf(p), NEW s, stage' = [stage EXCEPT ![p] = s],
             s # "provision" =>
                /\ at'[p] = "idle" /\ todo'[p] = <<>> /\ cred'[p] = 0
                /\ config'[p] = <<>> /\ disabled'[p] = {}
      PROVE  ProvisioningQuiet'
  BY <1>1 DEF LocalsOf, ProvisioningQuiet, OnPods
<1>2. ASSUME UNCHANGED provisioning, stage[p] # "provision",
             NEW s, stage' = [stage EXCEPT ![p] = s]
      PROVE  ProvisioningQuiet'
  BY <1>2 DEF ProvisioningQuiet, OnPods, provisioning
<1>3. CASE \/ AutoSetup(p) \/ Register(p) \/ RegisterRaises(p)
           \/ ResolveTenant(p) \/ TenantRefused(p)
  BY <1>2, <1>3 DEF AutoSetup, Register, RegisterRaises, ResolveTenant, TenantRefused,
                    Advance, Raise, ForgetLocals
<1>4. CASE \/ EnsureRsa(p) \/ GenerateKeyPair(p) \/ CommitPublicKey(p) \/ RsaRaises(p)
           \/ DaemonAnswers(p) \/ DaemonSilent(p) \/ DaemonTimesOut(p)
  BY <1>2, <1>4 DEF EnsureRsa, GenerateKeyPair, CommitPublicKey, RsaRaises, DaemonAnswers,
                    DaemonSilent, DaemonTimesOut, Advance, Raise, ForgetLocals
<1>5. CASE UploadPackage(p) \/ PluginRaises(p) \/ PollPending(p) \/ PollEnds(p)
  BY <1>2, <1>5 DEF UploadPackage, PluginRaises, PollPending, PollEnds, Advance, Raise,
                    ForgetLocals
<1>6. CASE ListPlugins(p) \/ InstallRequest(p) \/ PollSucceeds(p)
  <2>1. ASSUME NEW from, from # "provision", StartProvisioning(p, from)
        PROVE  ProvisioningQuiet'
    <3>1. LocalsOf(p)
      BY <2>1 DEF StartProvisioning, Provisioning!BeginProvisioning, Provisioning!Goto,
                  LocalsOf, ProvisioningQuiet, OnPods
    <3> QED BY <1>1, <2>1, <3>1 DEF StartProvisioning, Advance
  <2>2. CASE \E from \in {"plugins", "install", "poll"} : StartProvisioning(p, from)
    BY <2>1, <2>2
  <2>3. CASE \E from \in {"plugins", "install"}, to \in {"upload", "poll"} :
                Advance(p, from, to) /\ UNCHANGED provisioning
    BY <1>2, <2>3 DEF Advance
  <2> QED BY <1>6, <2>2, <2>3 DEF ListPlugins, InstallRequest, PollSucceeds
<1>7. CASE Provision(p)
  <2>1. Provisioning!ProvisionStep(p) /\ stage' = [stage EXCEPT ![p] = "provision"]
    BY <1>7 DEF Provision, Advance
  <2> QED BY <1>1, <2>1, ProvisionLocal
<1>8. CASE ProvisionRaises(p) \/ Complete(p)
  <2>1. Provisioning!Forget(p) /\ stage' = [stage EXCEPT ![p] = "idle"]
    BY <1>8 DEF ProvisionRaises, Complete, Provisioning!ProvisionRaises, ForgetLocals, Raise,
                Provisioning!LoadRefused, Provisioning!Unresolved, Provisioning!ServiceRaises,
                Provisioning!EndProvisioning
  <2> QED BY <1>1, <2>1, ForgetLocal
<1> QED BY <1>3, <1>4, <1>5, <1>6, <1>7, <1>8 DEF SetupStep

(* What a step touches belongs to the sole tenant, or is the daemon's.     *)
LEMMA QuietPreserved ==
    ASSUME OneInSetup, QuietIInv, [Next]_vars
    PROVE  /\ QuietIInv'
           /\ \/ tenants' = 1
              \/ Untouched
              \/ /\ \E p \in Pods : task[p] = "running" /\ task'[p] # "running"
                 /\ UNCHANGED <<stage, keyPair, provisioning>>
<1>k. KeyIInv'
  BY KeyPreserved DEF QuietIInv
<1> USE DEF QuietIInv
<1>1. ASSUME NEW p \in Pods, SetupStep(p)
      PROVE  ProvisioningQuiet' /\ (tenants' = 1 \/ Untouched)
  <2>1. stage[p] = "register" => tenants = 0
    BY DEF KeyIInv, OwnerIInv, RegisterOnFresh
  <2>2. stage[p] \in Settled => tenants = 1
    BY DEF KeyIInv, StageKnows
  <2> QED BY <1>1, <2>1, <2>2, StagesTouch, StagesQuiet
<1>2. ASSUME NEW p \in Pods, Enter(p) \/ Outside(p) \/ Leave(p) \/ Around(p)
      PROVE  ProvisioningQuiet' /\ Untouched
  <2>1. UNCHANGED <<keyPair, daemon, provisioning>>
    BY <1>2 DEF Enter, Outside, Leave, Around
  <2>2. stage' = stage \/ (stage' = [stage EXCEPT ![p] = "auto_setup"] /\ stage[p] = "idle")
    BY <1>2 DEF Enter, TryLock, Outside, Leave, Around, KeyIInv, OwnerIInv, StageIInv, SetupInBody
  <2> QED BY <2>1, <2>2 DEF ProvisioningQuiet, OnPods, provisioning, Untouched,
                            KeyIInv, OwnerIInv, StageIInv, WorkspaceTypeOK
<1>3. ASSUME NEW p \in Pods, Killed(p)
      PROVE  ProvisioningQuiet' /\ (tenants' = 1 \/ Untouched)
  <2>1. /\ UNCHANGED <<workspace, keyPair, daemon, rows, active, enabled, default>>
        /\ Provisioning!Forget(p) /\ stage' = [stage EXCEPT ![p] = "idle"]
    BY <1>3 DEF Killed, ForgetLocals
  <2>2. ProvisioningQuiet'
    BY <2>1, ForgetLocal
       DEF LocalsOf, ProvisioningQuiet, KeyIInv, OwnerIInv, StageIInv, WorkspaceTypeOK
  <2>3. CASE stage[p] = "provision"
    BY <2>1, <2>2, <2>3 DEF KeyIInv, StageKnows, Settled, Beyond, workspace
  <2>4. CASE stage[p] # "provision"
    <3>1. UNCHANGED progress
      BY <2>1, <2>4, ForgetLocal
    <3> QED BY <2>1, <2>2, <3>1 DEF Untouched, provisioning, progress
  <2> QED BY <2>3, <2>4
<1>4. ASSUME NEW p \in Pods, TaskEnds(p)
      PROVE  /\ ProvisioningQuiet' /\ task[p] = "running" /\ task'[p] # "running"
             /\ UNCHANGED <<stage, keyPair, provisioning>>
  <2>1. UNCHANGED <<stage, keyPair, provisioning>>
    BY <1>4 DEF TaskEnds
  <2>2. task[p] = "running" /\ task'[p] # "running"
    BY <1>4 DEF TaskEnds, KeyIInv, ReadyIInv, KeyTypeOK
  <2> QED BY <2>1, <2>2 DEF ProvisioningQuiet, OnPods, provisioning
<1>5. CASE Reap \/ UNCHANGED vars
  <2>1. UNCHANGED <<stage, keyPair, daemon, provisioning>>
    BY <1>5 DEF Reap, vars
  <2> QED BY <1>k, <2>1 DEF ProvisioningQuiet, OnPods, provisioning, Untouched
<1> QED BY <1>k, <1>1, <1>2, <1>3, <1>4, <1>5 DEF Next

(* Nobody provisions initially.                                            *)
LEMMA QuietInit == Init => QuietIInv
<1>1. Init => ProvisioningQuiet
  BY DEF Init, Provisioning!ProvisioningInit, ProvisioningQuiet, OnPods
<1> QED BY <1>1, KeyInit DEF QuietIInv

(* Nothing is done for a workspace nobody chose, whatever tenants there    *)
(* are and however a run ends.                                             *)
THEOREM WorkspaceIsChosen == Spec /\ []OneInSetup => NoImplicitWorkspace
<1>1. Init => QuietIInv
  BY QuietInit
<1>2. OneInSetup /\ QuietIInv /\ [Next]_vars => QuietIInv'
  BY QuietPreserved
<1>3. OneInSetup /\ QuietIInv /\ [Next]_vars =>
         [<<keyPair, daemon, provisioning>>' # <<keyPair, daemon, provisioning>> =>
             \/ tenants' = 1
             \/ /\ \E p \in Pods : task[p] = "running" /\ task'[p] # "running"
                /\ UNCHANGED <<stage, keyPair, provisioning>>]_vars
  BY QuietPreserved DEF Untouched
<1> QED BY <1>1, <1>2, <1>3, PTL DEF Spec, NoImplicitWorkspace
-----------------------------------------------------------------------------
(* The theorems on the provisioning, for the configuration and the stores  *)
(* of the script.                                                          *)
Runs == INSTANCE ProvisioningProofs

(* The last stage, and whatever ends it, is a step of a run.               *)
LEMMA StagesProvision ==
    ASSUME OneInSetup, QuietIInv, NEW p \in Pods, SetupStep(p)
    PROVE  Provisioning!OneByOneNext \/ UNCHANGED provisioning
<1>1. CASE \/ AutoSetup(p) \/ Register(p) \/ RegisterRaises(p)
           \/ ResolveTenant(p) \/ TenantRefused(p)
           \/ EnsureRsa(p) \/ GenerateKeyPair(p) \/ CommitPublicKey(p) \/ RsaRaises(p)
           \/ DaemonAnswers(p) \/ DaemonSilent(p) \/ DaemonTimesOut(p)
           \/ UploadPackage(p) \/ PluginRaises(p) \/ PollPending(p) \/ PollEnds(p)
  BY <1>1 DEF AutoSetup, Register, RegisterRaises, ResolveTenant, TenantRefused, EnsureRsa,
              GenerateKeyPair, CommitPublicKey, RsaRaises, DaemonAnswers, DaemonSilent,
              DaemonTimesOut, UploadPackage, PluginRaises, PollPending, PollEnds
<1>2. CASE ListPlugins(p) \/ InstallRequest(p) \/ PollSucceeds(p)
  <2>1. \/ \E from \in {"plugins", "install", "poll"} : StartProvisioning(p, from)
        \/ UNCHANGED provisioning
    BY <1>2 DEF ListPlugins, InstallRequest, PollSucceeds
  <2>2. ASSUME NEW from \in {"plugins", "install", "poll"}, StartProvisioning(p, from)
        PROVE  Provisioning!BeginAlone(p)
    <3>1. phase[p] = "holding" /\ Provisioning!BeginProvisioning(p)
      BY <2>2 DEF StartProvisioning, Advance
    <3>2. \A q \in Pods \ {p} : stage[q] = "idle"
      BY <3>1, OthersIdle DEF QuietIInv, KeyIInv, OwnerIInv
    <3>3. \A q \in Pods : at[q] = "idle"
      BY <3>1, <3>2 DEF QuietIInv, ProvisioningQuiet, Provisioning!BeginProvisioning
    <3> QED BY <3>1, <3>3 DEF Provisioning!BeginAlone
  <2> QED BY <2>1, <2>2 DEF Provisioning!OneByOneNext
<1>3. CASE Provision(p) \/ ProvisionRaises(p) \/ Complete(p)
  <2>1. Provisioning!Run(p)
    BY <1>3 DEF Provision, ProvisionRaises, Complete, Provisioning!Run
  <2> QED BY <2>1 DEF Provisioning!OneByOneNext
<1> QED BY <1>1, <1>2, <1>3 DEF SetupStep

(* The simulation of the provisioning by the script.                       *)
LEMMA NextIsOneByOne ==
    ASSUME OneInSetup, QuietIInv, [Next]_vars
    PROVE  [Provisioning!OneByOneNext]_(Provisioning!provisioningVars)
<1> USE DEF Provisioning!provisioningVars, Provisioning!store, Provisioning!progress
<1>1. ASSUME NEW p \in Pods, SetupStep(p)
      PROVE  Provisioning!OneByOneNext \/ UNCHANGED provisioning
  BY <1>1, StagesProvision
<1>2. ASSUME NEW p \in Pods, Killed(p) PROVE Provisioning!OneByOneNext
  BY <1>2 DEF Killed, Provisioning!Kill, Provisioning!OneByOneNext
<1>3. ASSUME NEW p \in Pods, Enter(p) \/ Outside(p) \/ Leave(p) \/ Around(p) \/ TaskEnds(p)
      PROVE  UNCHANGED provisioning
  BY <1>3 DEF Enter, Outside, Leave, Around, TaskEnds
<1>4. CASE Reap \/ UNCHANGED vars
  BY <1>4 DEF Reap, vars, provisioning
<1> QED BY <1>1, <1>2, <1>3, <1>4 DEF Next, provisioning

(* Whatever the stages before it do, and whenever pods are killed: no two  *)
(* pods provision side by side, and each one's provisioning is a run.      *)
THEOREM ProvisionsOneByOne == Spec /\ []OneInSetup => Provisioning!OneByOne
<1>1. Init => QuietIInv /\ Provisioning!ProvisioningInit
  BY QuietInit DEF Init
<1>2. OneInSetup /\ QuietIInv /\ [Next]_vars => QuietIInv'
  BY QuietPreserved
<1>3. OneInSetup /\ QuietIInv /\ [Next]_vars => [Provisioning!OneByOneNext]_(Provisioning!provisioningVars)
  BY NextIsOneByOne
<1> QED BY <1>1, <1>2, <1>3, PTL DEF Spec, Provisioning!OneByOne

(* The theorems on the provisioning are about these very steps.            *)
LEMMA SameSteps ==
    ASSUME NEW p \in Pods
    PROVE  /\ Provisioning!BeginAlone(p) => Runs!BeginAlone(p)
           /\ Provisioning!BeginProvisioning(p) => Runs!BeginProvisioning(p)
           /\ Provisioning!Run(p) => Runs!Run(p)
           /\ Provisioning!Kill(p) => Runs!Kill(p)
<1> USE DEF Provisioning!Goto, Runs!Goto, Provisioning!store, Runs!store
<1>1. Provisioning!Forget(p) => Runs!Forget(p)
  BY DEF Provisioning!Forget, Runs!Forget
<1>2. Provisioning!Slot(p) = Runs!Slot(p) /\ Provisioning!Current(p) = Runs!Current(p)
  BY DEF Provisioning!Slot, Runs!Slot, Provisioning!Current, Runs!Current
<1>3. \A s : Provisioning!ResolveCredentialId(s) = Runs!ResolveCredentialId(s)
  BY DEF Provisioning!ResolveCredentialId, Runs!ResolveCredentialId
<1>4. \A c : Provisioning!Accepted(c) <=> Runs!Accepted(c)
  BY DEF Provisioning!Accepted, Runs!Accepted
<1>5. Provisioning!Load(p) => Runs!Load(p)
  BY <1>4 DEF Provisioning!Load, Runs!Load
<1>6. Provisioning!NextEntry(p) \/ Provisioning!NoMoreCurrent(p) =>
         Runs!NextEntry(p) \/ Runs!NoMoreCurrent(p)
  BY <1>2, <1>3 DEF Provisioning!NextEntry, Runs!NextEntry,
                    Provisioning!NoMoreCurrent, Runs!NoMoreCurrent
<1>7. Provisioning!UpdateCredential(p) => Runs!UpdateCredential(p)
  BY <1>2 DEF Provisioning!UpdateCredential, Runs!UpdateCredential
<1>8. Provisioning!CreateCredential(p) => Runs!CreateCredential(p)
  BY <1>2 DEF Provisioning!CreateCredential, Runs!CreateCredential,
              Provisioning!Contains, Runs!Contains
<1>9. Provisioning!ResolveCreated(p) => Runs!ResolveCreated(p)
  BY <1>2, <1>3 DEF Provisioning!ResolveCreated, Runs!ResolveCreated
<1>10. Provisioning!AddToModelList(p) \/ Provisioning!EnableModel(p) \/ Provisioning!SetDefault(p) =>
         Runs!AddToModelList(p) \/ Runs!EnableModel(p) \/ Runs!SetDefault(p)
  BY <1>2 DEF Provisioning!AddToModelList, Runs!AddToModelList,
              Provisioning!EnableModel, Runs!EnableModel,
              Provisioning!SetDefault, Runs!SetDefault
<1>11. Provisioning!ProvisionStep(p) => Runs!ProvisionStep(p)
  BY <1>5, <1>6, <1>7, <1>8, <1>9, <1>10 DEF Provisioning!ProvisionStep, Runs!ProvisionStep
<1>12. Provisioning!ProvisionRaises(p) => Runs!ProvisionRaises(p)
  BY <1>1, <1>2, <1>3, <1>4
     DEF Provisioning!ProvisionRaises, Runs!ProvisionRaises, Provisioning!LoadRefused,
         Runs!LoadRefused, Provisioning!Unresolved, Runs!Unresolved,
         Provisioning!ServiceRaises, Runs!ServiceRaises, Provisioning!ServiceCalls,
         Runs!ServiceCalls
<1>13. Provisioning!EndProvisioning(p) => Runs!EndProvisioning(p)
  BY <1>1 DEF Provisioning!EndProvisioning, Runs!EndProvisioning
<1>14. /\ Provisioning!BeginAlone(p) => Runs!BeginAlone(p)
       /\ Provisioning!BeginProvisioning(p) => Runs!BeginProvisioning(p)
  BY DEF Provisioning!BeginAlone, Runs!BeginAlone, Provisioning!BeginProvisioning,
         Runs!BeginProvisioning
<1> QED BY <1>1, <1>11, <1>12, <1>13, <1>14
        DEF Provisioning!Run, Runs!Run, Provisioning!Kill, Runs!Kill

(* So the theorems on the provisioning hold of the script.                 *)
LEMMA SameOneByOne == Provisioning!OneByOne => Runs!OneByOne
<1>1. Provisioning!ProvisioningInit => Runs!ProvisioningInit
  BY DEF Provisioning!ProvisioningInit, Runs!ProvisioningInit
<1>2. [Provisioning!OneByOneNext]_(Provisioning!provisioningVars) =>
         [Runs!OneByOneNext]_(Runs!provisioningVars)
  BY SameSteps
     DEF Provisioning!OneByOneNext, Runs!OneByOneNext, Provisioning!provisioningVars,
         Runs!provisioningVars, Provisioning!store, Runs!store,
         Provisioning!progress, Runs!progress
<1> QED BY <1>1, <1>2, PTL DEF Provisioning!OneByOne, Runs!OneByOne

(* The configuration is one that the provisioning is proved for.           *)
LEMMA ConfigurationFits ==
    /\ Unmatched \subseteq Slots
    /\ TypeOf \in [Slots -> ModelTypes]
    /\ Configs \subseteq Seq(Runs!Entry) \cup {Unparsable} /\ Unparsable \notin Seq(Runs!Entry)
    /\ Settings \subseteq (SUBSET Slots) \cup {Unparsable}
    /\ NoSlot \notin Slots
    /\ \A s \in Stores : Runs!SoundStore(s)
BY BootstrapConfiguration DEF Provisioning!Entry, Runs!Entry, Provisioning!SoundStore,
                              Runs!SoundStore

(* A setup that returns has put its whole configuration in place, whatever *)
(* pods with other configurations, failed or killed anywhere, have left.   *)
THEOREM SetupApplied == Spec /\ []OneInSetup => []AppliedOnSuccess
<1>1. Runs!OneByOne => []Runs!AppliedAtCompletion
  BY ConfigurationFits, Runs!CompletedIsApplied
<1>2. Runs!AppliedAtCompletion => AppliedOnSuccess
  BY DEF Runs!AppliedAtCompletion, AppliedOnSuccess, Runs!Applied, Provisioning!Applied,
         Runs!SlotsOf, Provisioning!SlotsOf, Runs!LastFor, Provisioning!LastFor,
         Runs!DefaultsOf, Provisioning!DefaultsOf
<1> QED BY <1>1, <1>2, SameOneByOne, ProvisionsOneByOne, PTL

(* Retried and interrupted setups neither pile up credentials nor swap the *)
(* ones in use.                                                            *)
THEOREM SetupsUpsertInPlace == Spec /\ []OneInSetup => Provisioning!UpsertsInPlace
<1>1. Runs!OneByOne => Runs!UpsertsInPlace
  BY ConfigurationFits, Runs!UpsertsStayInPlace
<1>2. Runs!UpsertsInPlace => Provisioning!UpsertsInPlace
  BY DEF Runs!UpsertsInPlace, Provisioning!UpsertsInPlace, Runs!store,
         Provisioning!store, Runs!provisioningVars, Provisioning!provisioningVars,
         Runs!progress, Provisioning!progress
<1> QED BY <1>1, <1>2, SameOneByOne, ProvisionsOneByOne, PTL

(* The end of the argument: if no pod loses its database session while it  *)
(* is at a stage, the lock keeps the setups apart, and so whatever fails,  *)
(* is killed, retried or loses its session elsewhere, there is one owner,  *)
(* one key pair and one configuration in place.                            *)
THEOREM ProtectedSetup ==
    Spec /\ []Protected =>
        /\ SingleOwner
        /\ NoImplicitWorkspace
        /\ []KeysNeverMixed /\ PrivateKeyKept
        /\ []AppliedOnSuccess
BY SetupsSerial, OwnerIsSingle, WorkspaceIsChosen, KeysMatch, PrivateKeyIsKept, SetupApplied,
   PTL
-----------------------------------------------------------------------------
(* What remains when sessions are lost at a stage: the runs of the pods    *)
(* that are in the setup together interleave.                              *)

(* A stage is a step of a run or none.                                     *)
LEMMA StagesInterleave ==
    ASSUME NEW p \in Pods, SetupStep(p)
    PROVE  Provisioning!AnyOrderNext \/ UNCHANGED provisioning
<1>1. CASE \/ AutoSetup(p) \/ Register(p) \/ RegisterRaises(p)
           \/ ResolveTenant(p) \/ TenantRefused(p)
           \/ EnsureRsa(p) \/ GenerateKeyPair(p) \/ CommitPublicKey(p) \/ RsaRaises(p)
           \/ DaemonAnswers(p) \/ DaemonSilent(p) \/ DaemonTimesOut(p)
           \/ UploadPackage(p) \/ PluginRaises(p) \/ PollPending(p) \/ PollEnds(p)
  BY <1>1 DEF AutoSetup, Register, RegisterRaises, ResolveTenant, TenantRefused, EnsureRsa,
              GenerateKeyPair, CommitPublicKey, RsaRaises, DaemonAnswers, DaemonSilent,
              DaemonTimesOut, UploadPackage, PluginRaises, PollPending, PollEnds
<1>2. CASE ListPlugins(p) \/ InstallRequest(p) \/ PollSucceeds(p)
  BY <1>2 DEF ListPlugins, InstallRequest, PollSucceeds, StartProvisioning,
              Provisioning!AnyOrderNext
<1>3. CASE Provision(p) \/ ProvisionRaises(p) \/ Complete(p)
  BY <1>3 DEF Provision, ProvisionRaises, Complete, Provisioning!Run,
              Provisioning!AnyOrderNext
<1> QED BY <1>1, <1>2, <1>3 DEF SetupStep

(* Whatever is lost, each pod's provisioning is a run of its own.          *)
THEOREM ProvisionsInAnyOrder == Spec => Provisioning!AnyOrder
<1>1. Init => Provisioning!ProvisioningInit
  BY DEF Init
<1>2. [Next]_vars => [Provisioning!AnyOrderNext]_(Provisioning!provisioningVars)
  <2> SUFFICES ASSUME [Next]_vars
               PROVE  [Provisioning!AnyOrderNext]_(Provisioning!provisioningVars)
    OBVIOUS
  <2> USE DEF Provisioning!provisioningVars, Provisioning!store, Provisioning!progress
  <2>1. ASSUME NEW p \in Pods, Killed(p) PROVE Provisioning!AnyOrderNext
    BY <2>1 DEF Killed, Provisioning!Kill, Provisioning!AnyOrderNext
  <2>2. ASSUME NEW p \in Pods, Enter(p) \/ Outside(p) \/ Leave(p) \/ Around(p) \/ TaskEnds(p)
        PROVE  UNCHANGED provisioning
    BY <2>2 DEF Enter, Outside, Leave, Around, TaskEnds
  <2>3. CASE Reap \/ UNCHANGED vars
    BY <2>3 DEF Reap, vars, provisioning
  <2> QED BY <2>1, <2>2, <2>3, StagesInterleave DEF Next, provisioning
<1> QED BY <1>1, <1>2, PTL DEF Spec, Provisioning!AnyOrder

(* The instance within Bootstrap is the one ProvisioningProofs is about.   *)
LEMMA SameAnyOrder == Provisioning!AnyOrder => Runs!AnyOrder
<1>1. Provisioning!ProvisioningInit => Runs!ProvisioningInit
  BY DEF Provisioning!ProvisioningInit, Runs!ProvisioningInit
<1>2. [Provisioning!AnyOrderNext]_(Provisioning!provisioningVars) =>
         [Runs!AnyOrderNext]_(Runs!provisioningVars)
  BY SameSteps
     DEF Provisioning!AnyOrderNext, Runs!AnyOrderNext, Provisioning!provisioningVars,
         Runs!provisioningVars, Provisioning!store, Runs!store,
         Provisioning!progress, Runs!progress
<1> QED BY <1>1, <1>2, PTL DEF Provisioning!AnyOrder, Runs!AnyOrder

(* Pods that are in the setup together may overwrite each other's choices, *)
(* but never leave a usable model without a credential.                    *)
THEOREM SetupsLeaveModelsUsable == Spec => []Provisioning!UsableModels
<1>1. Runs!AnyOrder => []Runs!UsableModels
  BY ConfigurationFits, Runs!ModelsUsable
<1>2. Runs!UsableModels => Provisioning!UsableModels
  BY DEF Runs!UsableModels, Provisioning!UsableModels
<1> QED BY <1>1, <1>2, SameAnyOrder, ProvisionsInAnyOrder, PTL

(* Whoever makes a step that writes has looked at all entries of its own   *)
(* configuration and found none malformed.                                 *)
THEOREM SetupsWriteValidated == Spec => Provisioning!WritesOnlyValidated
<1>1. Runs!AnyOrder => Runs!WritesOnlyValidated
  BY ConfigurationFits, Runs!OnlyValidatedWritten
<1>2. Runs!WritesOnlyValidated => Provisioning!WritesOnlyValidated
  BY DEF Runs!WritesOnlyValidated, Provisioning!WritesOnlyValidated, Runs!store,
         Provisioning!store, Runs!provisioningVars, Provisioning!provisioningVars,
         Runs!progress, Provisioning!progress, Runs!ServiceCalls, Provisioning!ServiceCalls
<1> QED BY <1>1, <1>2, SameAnyOrder, ProvisionsInAnyOrder
-----------------------------------------------------------------------------
(* The types that no argument so far has needed.                           *)
WaitTypeOK == wait \in [Pods -> Nat] /\ setup \in BOOLEAN

(* A deadline comes nearer, or is one of the two time-outs.                *)
LEMMA WaitPreserved == ASSUME WaitTypeOK, [Next]_vars PROVE WaitTypeOK'
<1> USE BootstrapAssumption DEF WaitTypeOK, workspace, locals
<1>1. ASSUME NEW p \in Pods,
             \/ wait' = wait
             \/ Wait(p, 0) \/ Wait(p, DaemonPolls) \/ Wait(p, InstallPolls) \/ PollAgain(p)
      PROVE  wait' \in [Pods -> Nat]
  BY <1>1 DEF Wait, PollAgain
<1>2. ASSUME NEW p \in Pods, Raise(p) \/ ForgetLocals(p) PROVE wait' \in [Pods -> Nat]
  <2>1. wait' = [wait EXCEPT ![p] = 0]
    BY <1>2 DEF Raise, ForgetLocals
  <2> QED BY <2>1
<1>3. ASSUME NEW p \in Pods, SetupStep(p) PROVE WaitTypeOK'
  <2>1. CASE AutoSetup(p) \/ Register(p) \/ ResolveTenant(p)
    BY <1>1, <2>1 DEF AutoSetup, Register, ResolveTenant
  <2>2. CASE RegisterRaises(p) \/ TenantRefused(p) \/ RsaRaises(p) \/ DaemonTimesOut(p)
    BY <1>2, <2>2 DEF RegisterRaises, TenantRefused, RsaRaises, DaemonTimesOut
  <2>3. CASE EnsureRsa(p) \/ GenerateKeyPair(p) \/ CommitPublicKey(p)
    BY <1>1, <2>3 DEF EnsureRsa, GenerateKeyPair, CommitPublicKey
  <2>4. CASE DaemonAnswers(p) \/ DaemonSilent(p) \/ ListPlugins(p) \/ UploadPackage(p)
    BY <1>1, <2>4 DEF DaemonAnswers, DaemonSilent, ListPlugins, UploadPackage
  <2>5. CASE InstallRequest(p) \/ PollSucceeds(p) \/ PollPending(p)
    BY <1>1, <2>5 DEF InstallRequest, PollSucceeds, PollPending
  <2>6. CASE PluginRaises(p) \/ PollEnds(p) \/ ProvisionRaises(p) \/ Complete(p)
    BY <1>2, <2>6 DEF PluginRaises, PollEnds, ProvisionRaises, Complete
  <2>7. CASE Provision(p)
    BY <2>7 DEF Provision
  <2> QED BY <1>3, <2>1, <2>2, <2>3, <2>4, <2>5, <2>6, <2>7 DEF SetupStep
<1>4. ASSUME NEW p \in Pods, Killed(p) PROVE WaitTypeOK'
  BY <1>2, <1>4 DEF Killed
<1>5. ASSUME NEW p \in Pods, Enter(p) \/ Outside(p) \/ Leave(p) \/ Around(p) \/ TaskEnds(p)
      PROVE  WaitTypeOK'
  BY <1>5 DEF Enter, Outside, Leave, Around, TaskEnds
<1>6. CASE Reap \/ UNCHANGED vars
  BY <1>6 DEF Reap, vars
<1> QED BY <1>3, <1>4, <1>5, <1>6 DEF Next

(* The types of the whole composition, however many sessions are lost.     *)
THEOREM BootstrapTyping == Spec => []TypeOK
<1>1. Spec => []WaitTypeOK
  <2>1. Init => WaitTypeOK
    BY BootstrapAssumption DEF Init, WaitTypeOK, World
  <2>2. WaitTypeOK /\ [Next]_vars => WaitTypeOK'
    BY WaitPreserved
  <2> QED BY <2>1, <2>2, PTL DEF Spec
<1>2. Runs!AnyOrder => []Runs!ProvisioningTypeOK
  BY ConfigurationFits, Runs!ProvisioningTyping
<1>3. Runs!ProvisioningTypeOK => Provisioning!ProvisioningTypeOK
  BY DEF Runs!ProvisioningTypeOK, Provisioning!ProvisioningTypeOK, Runs!Entry,
         Provisioning!Entry, Runs!Points, Provisioning!Points, Runs!ServiceCalls,
         Provisioning!ServiceCalls
<1>4. ReadyIInv /\ WaitTypeOK /\ Provisioning!ProvisioningTypeOK => TypeOK
  BY DEF ReadyIInv, KeyTypeOK, StageIInv, LockIInv, WorkspaceTypeOK, WaitTypeOK, TypeOK
<1> QED BY <1>1, <1>2, <1>3, <1>4, SameAnyOrder, ProvisionsInAnyOrder, ReadyInvariance, PTL
-----------------------------------------------------------------------------
(* How far a setup is.                                                     *)
Rank(point) ==
    CASE point = "auto_setup" -> 1
      [] point = "register"   -> 2
      [] point = "tenant"     -> 3
      [] point = "rsa"        -> 4
      [] point = "generate"   -> 5
      [] point = "commit"     -> 6
      [] point = "daemon"     -> 7
      [] point = "plugins"    -> 8
      [] point = "upload"     -> 9
      [] point = "install"    -> 10
      [] point = "poll"       -> 11
      [] point = "provision"  -> 12
      [] OTHER                -> 0

(* What is ahead of a pod's setup, in the order of its weight: stages,     *)
(* polls to the deadline, the configuration to load, what to do of it.     *)
Standing(p) == <<stage[p], wait[p], at[p], todo[p]>>

Nearer(p) ==
    \/ stage'[p] = "idle"
    \/ Rank(stage[p]) < Rank(stage'[p])
    \/ stage'[p] = stage[p] /\ wait'[p] < wait[p]
    \/ /\ stage'[p] = stage[p] /\ wait'[p] = wait[p]
       /\ at[p] = "load" /\ at'[p] \in Runs!Loaded
    \/ /\ stage'[p] = stage[p] /\ wait'[p] = wait[p]
       /\ at[p] \in Runs!Loaded /\ at'[p] \in Runs!Loaded
       /\ Runs!StepsLeft(p)' < Runs!StepsLeft(p)

(* What places the locals of a setup.                                      *)
StandingTypeOK ==
    /\ stage \in [Pods -> Stages] /\ wait \in [Pods -> Nat]
    /\ Runs!InterleavedIInv

(* A stage takes its own pod on.                                           *)
LEMMA StageNearer ==
    ASSUME StandingTypeOK, NEW p \in Pods, SetupStep(p)
    PROVE  Nearer(p)
<1> USE DEF StandingTypeOK, Nearer
<1>1. ASSUME NEW from, NEW to, Advance(p, from, to), Rank(from) < Rank(to)
      PROVE  Nearer(p)
  BY <1>1 DEF Advance
<1>2. ASSUME Raise(p) \/ ForgetLocals(p) PROVE Nearer(p)
  BY <1>2 DEF Raise, ForgetLocals
<1>3. ASSUME NEW s, Advance(p, s, s), PollAgain(p) PROVE Nearer(p)
  BY <1>3 DEF Advance, PollAgain, Wait
<1>4. CASE AutoSetup(p)
  <2>1. Advance(p, "auto_setup", "tenant") \/ Advance(p, "auto_setup", "register")
    BY <1>4 DEF AutoSetup
  <2>2. Rank("auto_setup") < Rank("tenant") /\ Rank("auto_setup") < Rank("register")
    BY DEF Rank
  <2> HIDE DEF Nearer
  <2> QED BY <1>1, <2>1, <2>2
<1>5. CASE Register(p) \/ ResolveTenant(p)
  <2>1. Advance(p, "register", "tenant") \/ Advance(p, "tenant", "rsa")
    BY <1>5 DEF Register, ResolveTenant
  <2>2. Rank("register") < Rank("tenant") /\ Rank("tenant") < Rank("rsa")
    BY DEF Rank
  <2> HIDE DEF Nearer
  <2> QED BY <1>1, <2>1, <2>2
<1>6. CASE EnsureRsa(p) \/ GenerateKeyPair(p) \/ CommitPublicKey(p)
  <2>1. \/ Advance(p, "rsa", "daemon") \/ Advance(p, "rsa", "generate")
        \/ Advance(p, "generate", "commit") \/ Advance(p, "commit", "daemon")
    BY <1>6 DEF EnsureRsa, GenerateKeyPair, CommitPublicKey
  <2>2. /\ Rank("rsa") < Rank("daemon") /\ Rank("rsa") < Rank("generate")
        /\ Rank("generate") < Rank("commit") /\ Rank("commit") < Rank("daemon")
    BY DEF Rank
  <2> HIDE DEF Nearer
  <2> QED BY <1>1, <2>1, <2>2
<1>7. CASE DaemonAnswers(p) \/ ListPlugins(p) \/ UploadPackage(p) \/ InstallRequest(p) \/ PollSucceeds(p)
  <2>1. \/ Advance(p, "daemon", "plugins")
        \/ Advance(p, "plugins", "provision") \/ Advance(p, "plugins", "upload")
        \/ Advance(p, "upload", "install")
        \/ Advance(p, "install", "provision") \/ Advance(p, "install", "poll")
        \/ Advance(p, "poll", "provision")
    BY <1>7 DEF DaemonAnswers, ListPlugins, UploadPackage, InstallRequest, PollSucceeds,
                StartProvisioning
  <2>2. /\ Rank("daemon") < Rank("plugins")
        /\ Rank("plugins") < Rank("provision") /\ Rank("plugins") < Rank("upload")
        /\ Rank("upload") < Rank("install")
        /\ Rank("install") < Rank("provision") /\ Rank("install") < Rank("poll")
        /\ Rank("poll") < Rank("provision")
    BY DEF Rank
  <2> HIDE DEF Nearer
  <2> QED BY <1>1, <2>1, <2>2
<1>8. CASE DaemonSilent(p) \/ PollPending(p)
  BY <1>3, <1>8 DEF DaemonSilent, PollPending
<1>9. CASE \/ RegisterRaises(p) \/ TenantRefused(p) \/ RsaRaises(p) \/ DaemonTimesOut(p)
           \/ PluginRaises(p) \/ PollEnds(p) \/ ProvisionRaises(p) \/ Complete(p)
  BY <1>2, <1>9 DEF RegisterRaises, TenantRefused, RsaRaises, DaemonTimesOut, PluginRaises,
                    PollEnds, ProvisionRaises, Complete
<1>10. CASE Provision(p)
  <2>1. stage'[p] = stage[p] /\ wait'[p] = wait[p] /\ Provisioning!ProvisionStep(p)
    BY <1>10 DEF Provision, Advance, locals
  <2>2. \/ at[p] = "load" /\ at'[p] = "next"
        \/ at[p] \in Runs!Loaded /\ at'[p] \in Runs!Loaded
    BY <2>1 DEF Provisioning!ProvisionStep, Provisioning!Load, Provisioning!NextEntry,
                Provisioning!NoMoreCurrent, Provisioning!UpdateCredential,
                Provisioning!CreateCredential, Provisioning!ResolveCreated,
                Provisioning!AddToModelList, Provisioning!EnableModel,
                Provisioning!SetDefault, Provisioning!Goto, Runs!Loaded, Runs!InWork,
                Runs!ServiceCalls, Runs!InterleavedIInv, Runs!ProvisioningTypeOK
  <2>3. Runs!Run(p)
    BY <2>1, SameSteps DEF Provisioning!Run
  <2>4. at[p] \in Runs!Loaded => Runs!StepsLeft(p)' < Runs!StepsLeft(p)
    BY <2>3, ConfigurationFits, Runs!RunGoesForward
  <2> QED BY <2>1, <2>2, <2>4 DEF Runs!Loaded
<1> QED BY <1>4, <1>5, <1>6, <1>7, <1>8, <1>9, <1>10 DEF SetupStep

(* It leaves what is ahead of the others as it is.                         *)
LEMMA StageApart ==
    ASSUME StandingTypeOK, NEW p \in Pods, SetupStep(p), NEW q \in Pods \ {p}
    PROVE  Standing(q)' = Standing(q)
<1> USE DEF StandingTypeOK
<1>1. stage'[q] = stage[q]
  BY SetupStepMoves DEF StageMove
<1>2. wait'[q] = wait[q]
  <2>1. ASSUME Raise(p) \/ ForgetLocals(p) PROVE wait'[q] = wait[q]
    BY <2>1 DEF Raise, ForgetLocals
  <2>2. ASSUME NEW polls, Wait(p, polls) PROVE wait'[q] = wait[q]
    BY <2>2 DEF Wait
  <2>3. CASE \/ AutoSetup(p) \/ Register(p) \/ ResolveTenant(p) \/ EnsureRsa(p)
             \/ GenerateKeyPair(p) \/ CommitPublicKey(p)
    BY <2>2, <2>3 DEF AutoSetup, Register, ResolveTenant, EnsureRsa, GenerateKeyPair,
                      CommitPublicKey, locals
  <2>4. CASE \/ DaemonAnswers(p) \/ DaemonSilent(p) \/ ListPlugins(p) \/ UploadPackage(p)
             \/ InstallRequest(p) \/ PollSucceeds(p) \/ PollPending(p) \/ Provision(p)
    BY <2>2, <2>4 DEF DaemonAnswers, DaemonSilent, ListPlugins, UploadPackage, InstallRequest,
                      PollSucceeds, PollPending, Provision, PollAgain, locals
  <2>5. CASE \/ RegisterRaises(p) \/ TenantRefused(p) \/ RsaRaises(p) \/ DaemonTimesOut(p)
             \/ PluginRaises(p) \/ PollEnds(p) \/ ProvisionRaises(p) \/ Complete(p)
    BY <2>1, <2>5 DEF RegisterRaises, TenantRefused, RsaRaises, DaemonTimesOut, PluginRaises,
                      PollEnds, ProvisionRaises, Complete
  <2> QED BY <2>3, <2>4, <2>5 DEF SetupStep
<1>3. at'[q] = at[q] /\ todo'[q] = todo[q]
  <2>1. UNCHANGED provisioning \/ Provisioning!BeginProvisioning(p) \/ Provisioning!Run(p)
    <3>1. CASE \/ AutoSetup(p) \/ Register(p) \/ RegisterRaises(p)
               \/ ResolveTenant(p) \/ TenantRefused(p)
               \/ EnsureRsa(p) \/ GenerateKeyPair(p) \/ CommitPublicKey(p) \/ RsaRaises(p)
               \/ DaemonAnswers(p) \/ DaemonSilent(p) \/ DaemonTimesOut(p)
               \/ UploadPackage(p) \/ PluginRaises(p) \/ PollPending(p) \/ PollEnds(p)
      BY <3>1 DEF AutoSetup, Register, RegisterRaises, ResolveTenant, TenantRefused, EnsureRsa,
                  GenerateKeyPair, CommitPublicKey, RsaRaises, DaemonAnswers, DaemonSilent,
                  DaemonTimesOut, UploadPackage, PluginRaises, PollPending, PollEnds
    <3>2. CASE ListPlugins(p) \/ InstallRequest(p) \/ PollSucceeds(p)
      BY <3>2 DEF ListPlugins, InstallRequest, PollSucceeds, StartProvisioning
    <3>3. CASE Provision(p) \/ ProvisionRaises(p) \/ Complete(p)
      BY <3>3 DEF Provision, ProvisionRaises, Complete, Provisioning!Run
    <3> QED BY <3>1, <3>2, <3>3 DEF SetupStep
  <2>2. CASE UNCHANGED provisioning
    BY <2>2 DEF provisioning
  <2>3. CASE Runs!BeginProvisioning(p) \/ Runs!Run(p)
    BY <2>3, ConfigurationFits, Runs!RunsApart
  <2> QED BY <2>1, <2>2, <2>3, SameSteps
<1> QED BY <1>1, <1>2, <1>3 DEF Standing

(* A setup never goes in a circle: each of its own steps leads out of it,  *)
(* to a later stage, nearer to the deadline of its wait (379-390, 465-497) *)
(* or nearer to the end of its configuration; and nothing anybody else     *)
(* does, with or without a lock, sends it back.                            *)
THEOREM SetupsGoForward ==
    Spec => [][\A p \in Pods : stage[p] # "idle" =>
        /\ SetupStep(p) => Nearer(p)
        /\ SetupStep(p) \/ stage'[p] = "idle" \/ Standing(p)' = Standing(p)]_vars
<1> DEFINE J == StageIInv /\ WaitTypeOK /\ Runs!InterleavedIInv
           Forward(p) ==
               /\ SetupStep(p) => Nearer(p)
               /\ SetupStep(p) \/ stage'[p] = "idle" \/ Standing(p)' = Standing(p)
<1>1. Spec => []J
  <2>1. Spec => []StageIInv
    BY ReadyInvariance, PTL DEF ReadyIInv
  <2>2. Spec => []WaitTypeOK
    <3>1. Init => WaitTypeOK
      BY BootstrapAssumption DEF Init, WaitTypeOK, World
    <3> QED BY <3>1, WaitPreserved, PTL DEF Spec
  <2>3. Runs!AnyOrder => []Runs!InterleavedIInv
    BY ConfigurationFits, Runs!InterleavedInvariance
  <2> QED BY <2>1, <2>2, <2>3, SameAnyOrder, ProvisionsInAnyOrder, PTL
<1>2. ASSUME J, Next, NEW p \in Pods, stage[p] # "idle" PROVE Forward(p)
  <2> USE <1>2
  <2>0. StandingTypeOK
    BY DEF StandingTypeOK, StageIInv, WorkspaceTypeOK, WaitTypeOK
  <2>1. SetupStep(p) => Nearer(p)
    BY <2>0, StageNearer
  <2>2. ASSUME NEW q \in Pods, SetupStep(q) PROVE q = p \/ Standing(p)' = Standing(p)
    BY <2>0, <2>2, StageApart
  <2>3. ASSUME NEW q \in Pods, Enter(q) PROVE Standing(p)' = Standing(p)
    <3>1. q # p
      BY <2>3 DEF Enter, TryLock, StageIInv, SetupInBody
    <3> QED BY <2>3, <3>1 DEF Enter, Standing, StageIInv, WorkspaceTypeOK, locals, provisioning
  <2>4. ASSUME NEW q \in Pods, Outside(q) \/ Leave(q) \/ Around(q) \/ TaskEnds(q)
        PROVE  Standing(p)' = Standing(p)
    BY <2>4 DEF Outside, Leave, Around, TaskEnds, Standing, locals, provisioning
  <2>5. ASSUME NEW q \in Pods, Killed(q) PROVE stage'[p] = "idle" \/ Standing(p)' = Standing(p)
    <3>1. ForgetLocals(q) /\ Provisioning!Forget(q)
      BY <2>5 DEF Killed
    <3>2. CASE q = p
      BY <3>1, <3>2 DEF ForgetLocals, StageIInv, WorkspaceTypeOK
    <3>3. CASE q # p
      BY <3>1, <3>3
         DEF ForgetLocals, Provisioning!Forget, Provisioning!Goto, Standing, StageIInv,
             WorkspaceTypeOK, WaitTypeOK, Runs!InterleavedIInv, Runs!ProvisioningTypeOK
    <3> QED BY <3>2, <3>3
  <2>6. ASSUME Reap PROVE Standing(p)' = Standing(p)
    BY <2>6 DEF Reap, Standing, locals, provisioning
  <2> QED BY <2>1, <2>2, <2>3, <2>4, <2>5, <2>6 DEF Next
<1>3. J /\ [Next]_vars => [\A p \in Pods : stage[p] # "idle" => Forward(p)]_vars
  BY <1>2
<1> QED BY <1>1, <1>3, PTL DEF Spec
=============================================================================
