------------------------------ MODULE Bootstrap ------------------------------
(***************************************************************************)
(* The whole of overlay/scripts/setup_model_provider.py (_run, lines       *)
(* 525-557): under the bootstrap lock, the break-glass owner is registered *)
(* on a fresh installation, the sole tenant resolved, its RSA key pair     *)
(* ensured, the plugin daemon waited for, the bundled plugin installed and *)
(* the configured models provisioned.                                      *)
(*                                                                         *)
(* The module composes BootstrapLock, whose protected block the stages     *)
(* fill, and Provisioning, the last stage.  The database, the private key  *)
(* storage and the plugin daemon outlive the pods.                         *)
(***************************************************************************)
EXTENDS BootstrapLock, Sequences

CONSTANTS
    Slots, Unmatched, Secrets, ModelTypes, TypeOf, Configs, Settings,
    Unparsable, NoSlot, Stores,  \* of Provisioning
    Worlds,                      \* installations the pods may start on
    DaemonPolls,                 \* _DAEMON_WAIT_TIMEOUT, in polls
    InstallPolls                 \* _PLUGIN_INSTALL_TIMEOUT, in polls

(* Keys are numbered as they are made; a key pair is one number.           *)
NoKey == 0

World == [tenants : Nat, setup : BOOLEAN, key : Nat, plugin : BOOLEAN]

(* The key pair is a tenant's: the public key is a column of its row.      *)
ASSUME BootstrapAssumption ==
    /\ Worlds \subseteq World
    /\ \A w \in Worlds : w.tenants = 0 => w.key = NoKey
    /\ DaemonPolls \in Nat \ {0} /\ InstallPolls \in Nat \ {0}

VARIABLES
    stage,             \* where each pod's setup is
    made,              \* the public key a pod has generated and not stored
    wait,              \* polls left before the deadline of the current wait
    tenants,           \* number of tenants in the database
    setup,             \* the DifySetup row exists
    pub,               \* public key in the tenant's row, or NoKey
    priv,              \* private key in the storage, or NoKey
    keys,              \* number of the last key pair made
    plugin,            \* the daemon has the bundled plugin installed
    task,              \* the install task of each pod at the daemon
    rows, active, enabled, default, at, todo, cred, config, disabled

Provisioning == INSTANCE Provisioning

(* What the provisioning assumes of its constants.                         *)
ASSUME BootstrapConfiguration ==
    /\ Unmatched \subseteq Slots
    /\ TypeOf \in [Slots -> ModelTypes]
    /\ Configs \subseteq Seq(Provisioning!Entry) \cup {Unparsable}
    /\ Unparsable \notin Seq(Provisioning!Entry)
    /\ Settings \subseteq (SUBSET Slots) \cup {Unparsable}
    /\ NoSlot \notin Slots
    /\ \A s \in Stores : Provisioning!SoundStore(s)

workspace == <<tenants, setup>>
keyPair == <<pub, priv, keys>>
daemon == <<plugin, task>>
locals == <<made, wait>>
provisioning == <<rows, active, enabled, default, at, todo, cred, config, disabled>>
vars == <<lockVars, stage, locals, workspace, keyPair, daemon, provisioning>>

Stages == {"idle", "auto_setup", "register", "tenant", "rsa", "generate", "commit",
           "daemon", "plugins", "upload", "install", "poll", "provision"}

TypeOK ==
    /\ LockTypeOK
    /\ Provisioning!ProvisioningTypeOK
    /\ stage \in [Pods -> Stages]
    /\ made \in [Pods -> Nat] /\ wait \in [Pods -> Nat]
    /\ tenants \in Nat /\ setup \in BOOLEAN
    /\ pub \in Nat /\ priv \in Nat /\ keys \in Nat
    /\ plugin \in BOOLEAN
    /\ task \in [Pods -> {"none", "running", "success", "failed"}]

Init ==
    /\ LockInit
    /\ Provisioning!ProvisioningInit
    /\ stage = [p \in Pods |-> "idle"]
    /\ made = [p \in Pods |-> NoKey]
    /\ wait = [p \in Pods |-> 0]
    /\ task = [p \in Pods |-> "none"]
    /\ \E w \in Worlds :
          /\ tenants = w.tenants /\ setup = w.setup
          /\ pub = w.key /\ priv = w.key /\ keys = w.key
          /\ plugin = w.plugin
-----------------------------------------------------------------------------
(* The setup is inside the with-block, at a stage.                         *)
At(p, s) == phase[p] = "holding" /\ stage[p] = s

Goto(p, s) == stage' = [stage EXCEPT ![p] = s]

(* A stage is left for the next one, still under the lock.                 *)
Advance(p, from, to) == At(p, from) /\ Goto(p, to) /\ UNCHANGED lockVars

(* The locals of the setup go with it.                                     *)
ForgetLocals(p) ==
    /\ Goto(p, "idle")
    /\ made' = [made EXCEPT ![p] = NoKey]
    /\ wait' = [wait EXCEPT ![p] = 0]

(* Mutant: the process exits at once, and the finally clause is not run.   *)
Raise_Exits(p) ==
    /\ phase[p] = "holding"
    /\ Exit(p, "failed")
    /\ ForgetLocals(p)
    /\ UNCHANGED <<lock, left, raising, broken, runs, losses, crashes>>

(* An exception leaves the setup, and the with-block with it.              *)
Raise(p) == LeaveBody(p, TRUE) /\ ForgetLocals(p)

Wait(p, polls) == wait' = [wait EXCEPT ![p] = polls]

(* Mutant: the loop does not look at the clock.                            *)
PollAgain_Overdue(p) == Wait(p, wait[p] - 1)

(* One poll fails; what it and the sleep take is at least one interval.    *)
PollAgain(p) == \E w \in 0 .. wait[p] - 1 : Wait(p, w)
-----------------------------------------------------------------------------
(* Mutant: only the setup row is looked for.                               *)
Installed_RowOnly == setup

(* _auto_setup leaves an installation alone that has a setup row or any    *)
(* tenant.                                                                 *)
Installed == setup \/ tenants > 0

AutoSetup(p) ==
    /\ Advance(p, "auto_setup", IF Installed THEN "tenant" ELSE "register")
    /\ UNCHANGED <<locals, workspace, keyPair, daemon, provisioning>>

(* RegisterService.setup makes the owner's tenant with its key pair, and   *)
(* the setup row.  The key pair is the first tenant's.                     *)
Register(p) ==
    /\ Advance(p, "register", "tenant")
    /\ tenants' = tenants + 1
    /\ setup' = TRUE
    /\ IF tenants = 0
       THEN keys' = keys + 1 /\ pub' = keys + 1 /\ priv' = keys + 1
       ELSE UNCHANGED keyPair
    /\ UNCHANGED <<locals, daemon, provisioning>>

(* The owner's credentials are not configured, or the service fails, with  *)
(* everything undone or with a tenant left behind that has no keys.        *)
RegisterRaises(p) ==
    /\ At(p, "register")
    /\ tenants' \in {tenants, tenants + 1}
    /\ Raise(p)
    /\ UNCHANGED <<setup, keyPair, daemon, provisioning>>

(* Mutant: the first of several tenants is taken.                          *)
ResolveTenant_First(p) ==
    /\ tenants > 0
    /\ Advance(p, "tenant", "rsa")
    /\ UNCHANGED <<locals, workspace, keyPair, daemon, provisioning>>

(* There is exactly one tenant, and the gateway credential is configured.  *)
ResolveTenant(p) ==
    /\ tenants = 1
    /\ Advance(p, "tenant", "rsa")
    /\ UNCHANGED <<locals, workspace, keyPair, daemon, provisioning>>

(* There is not, or the credential is missing.                             *)
TenantRefused(p) ==
    /\ At(p, "tenant")
    /\ Raise(p)
    /\ UNCHANGED <<workspace, keyPair, daemon, provisioning>>
-----------------------------------------------------------------------------
(* Mutant: the stored private key is not looked for.                       *)
EnsureRsa_Always(p) ==
    /\ Advance(p, "rsa", "generate")
    /\ UNCHANGED <<locals, workspace, keyPair, daemon, provisioning>>

(* _ensure_tenant_rsa: a stored private key is taken for a key pair.       *)
EnsureRsa(p) ==
    /\ IF priv # NoKey
       THEN Advance(p, "rsa", "daemon") /\ Wait(p, DaemonPolls) /\ UNCHANGED made
       ELSE Advance(p, "rsa", "generate") /\ UNCHANGED locals
    /\ UNCHANGED <<workspace, keyPair, daemon, provisioning>>

(* generate_key_pair stores the private key and returns the public one.    *)
GenerateKeyPair(p) ==
    /\ Advance(p, "generate", "commit")
    /\ keys' = keys + 1
    /\ priv' = keys + 1
    /\ made' = [made EXCEPT ![p] = keys + 1]
    /\ UNCHANGED <<pub, wait, workspace, daemon, provisioning>>

(* The public key is committed with the tenant's row.                      *)
CommitPublicKey(p) ==
    /\ Advance(p, "commit", "daemon")
    /\ pub' = made[p]
    /\ made' = [made EXCEPT ![p] = NoKey]
    /\ Wait(p, DaemonPolls)
    /\ UNCHANGED <<priv, keys, workspace, daemon, provisioning>>

(* The storage or the commit fails.                                        *)
RsaRaises(p) ==
    /\ \E s \in {"rsa", "generate", "commit"} : At(p, s)
    /\ Raise(p)
    /\ UNCHANGED <<workspace, keyPair, daemon, provisioning>>
-----------------------------------------------------------------------------
(* _wait_for_daemon: an attempt is made as long as time remains.           *)
DaemonAnswers(p) ==
    /\ wait[p] > 0
    /\ Advance(p, "daemon", "plugins")
    /\ Wait(p, 0)
    /\ UNCHANGED <<made, workspace, keyPair, daemon, provisioning>>

DaemonSilent(p) ==
    /\ Advance(p, "daemon", "daemon")
    /\ PollAgain(p)
    /\ UNCHANGED <<made, workspace, keyPair, daemon, provisioning>>

DaemonTimesOut(p) ==
    /\ At(p, "daemon") /\ wait[p] = 0
    /\ Raise(p)
    /\ UNCHANGED <<workspace, keyPair, daemon, provisioning>>
-----------------------------------------------------------------------------
(* The plugin is there: the models are provisioned.                        *)
StartProvisioning(p, from) ==
    /\ Advance(p, from, "provision")
    /\ Provisioning!BeginProvisioning(p)

(* _ensure_plugins: the bundled plugin is installed unless it is listed.   *)
ListPlugins(p) ==
    /\ IF plugin
       THEN StartProvisioning(p, "plugins")
       ELSE Advance(p, "plugins", "upload") /\ UNCHANGED provisioning
    /\ UNCHANGED <<locals, workspace, keyPair, daemon>>

UploadPackage(p) ==
    /\ Advance(p, "upload", "install")
    /\ UNCHANGED <<locals, workspace, keyPair, daemon, provisioning>>

(* The daemon answers that the plugin is installed, or has an install task *)
(* for it, which it may have finished at once.                             *)
InstallRequest(p) ==
    /\ \/ /\ plugin
          /\ StartProvisioning(p, "install")
          /\ UNCHANGED <<wait, daemon>>
       \/ /\ plugin' = TRUE
          /\ task' = [task EXCEPT ![p] = "success"]
          /\ StartProvisioning(p, "install")
          /\ UNCHANGED wait
       \/ /\ ~plugin
          /\ Advance(p, "install", "poll")
          /\ task' = [task EXCEPT ![p] = "running"]
          /\ Wait(p, InstallPolls)
          /\ UNCHANGED <<plugin, provisioning>>
    /\ UNCHANGED <<made, workspace, keyPair>>

(* Mutant: a task that no longer runs is taken for a success.              *)
PollSucceeds_NotRunning(p) ==
    /\ wait[p] > 0 /\ task[p] # "running"
    /\ StartProvisioning(p, "poll")
    /\ Wait(p, 0)
    /\ UNCHANGED <<made, workspace, keyPair, daemon>>

PollSucceeds(p) ==
    /\ wait[p] > 0 /\ task[p] = "success"
    /\ StartProvisioning(p, "poll")
    /\ Wait(p, 0)
    /\ UNCHANGED <<made, workspace, keyPair, daemon>>

(* The task still runs, or its state cannot be fetched.                    *)
PollPending(p) ==
    /\ Advance(p, "poll", "poll")
    /\ PollAgain(p)
    /\ UNCHANGED <<made, workspace, keyPair, daemon, provisioning>>

(* Mutant: only a failure ends the wait, not the deadline.                 *)
PollEnds_NoDeadline(p) ==
    /\ At(p, "poll") /\ task[p] = "failed"
    /\ Raise(p)
    /\ UNCHANGED <<workspace, keyPair, daemon, provisioning>>

(* The task has failed, or the deadline has passed.                        *)
PollEnds(p) ==
    /\ At(p, "poll") /\ (task[p] = "failed" \/ wait[p] = 0)
    /\ Raise(p)
    /\ UNCHANGED <<workspace, keyPair, daemon, provisioning>>

(* The package is missing, or a request to the daemon fails.               *)
PluginRaises(p) ==
    /\ \E s \in {"plugins", "upload", "install"} : At(p, s)
    /\ Raise(p)
    /\ UNCHANGED <<workspace, keyPair, daemon, provisioning>>

(* The daemon finishes a task, also after its pod has given up waiting.    *)
TaskEnds(p) ==
    /\ task[p] = "running"
    /\ \E result \in {"success", "failed"} :
          /\ task' = [task EXCEPT ![p] = result]
          /\ plugin' = (plugin \/ result = "success")
    /\ UNCHANGED <<lockVars, stage, locals, workspace, keyPair, provisioning>>
-----------------------------------------------------------------------------
Provision(p) ==
    /\ Advance(p, "provision", "provision")
    /\ Provisioning!ProvisionStep(p)
    /\ UNCHANGED <<locals, workspace, keyPair, daemon>>

ProvisionRaises(p) ==
    /\ At(p, "provision")
    /\ Provisioning!ProvisionRaises(p)
    /\ Raise(p)
    /\ UNCHANGED <<workspace, keyPair, daemon>>

(* The setup returns.                                                      *)
Complete(p) ==
    /\ At(p, "provision")
    /\ Provisioning!EndProvisioning(p)
    /\ LeaveBody(p, FALSE)
    /\ ForgetLocals(p)
    /\ UNCHANGED <<workspace, keyPair, daemon>>

SetupStep(p) ==
    \/ AutoSetup(p) \/ Register(p) \/ RegisterRaises(p)
    \/ ResolveTenant(p) \/ TenantRefused(p)
    \/ EnsureRsa(p) \/ GenerateKeyPair(p) \/ CommitPublicKey(p) \/ RsaRaises(p)
    \/ DaemonAnswers(p) \/ DaemonSilent(p) \/ DaemonTimesOut(p)
    \/ ListPlugins(p) \/ UploadPackage(p) \/ InstallRequest(p) \/ PluginRaises(p)
    \/ PollSucceeds(p) \/ PollPending(p) \/ PollEnds(p)
    \/ Provision(p) \/ ProvisionRaises(p) \/ Complete(p)
-----------------------------------------------------------------------------
(* The steps of the lock: acquiring it opens the setup, a kill ends it,    *)
(* the others leave it alone.                                              *)
Enter(p) ==
    /\ TryLock(p)
    /\ Goto(p, "auto_setup")
    /\ UNCHANGED <<locals, workspace, keyPair, daemon, provisioning>>

Outside(p) ==
    /\ \/ Start(p) \/ StartFails(p)
       \/ RetryLater(p) \/ LockTimesOut(p) \/ TryLockRaises(p)
    /\ UNCHANGED <<stage, locals, workspace, keyPair, daemon, provisioning>>

Leave(p) ==
    /\ ReleaseStep(p)
    /\ UNCHANGED <<stage, locals, workspace, keyPair, daemon, provisioning>>

Killed(p) ==
    /\ Crash(p)
    /\ ForgetLocals(p)
    /\ Provisioning!Forget(p)
    /\ UNCHANGED <<workspace, keyPair, daemon, rows, active, enabled, default>>

Around(p) ==
    /\ LoseSession(p) \/ Restart(p)
    /\ UNCHANGED <<stage, locals, workspace, keyPair, daemon, provisioning>>

Reap ==
    /\ ReapOrphan
    /\ UNCHANGED <<stage, locals, workspace, keyPair, daemon, provisioning>>

Next ==
    \/ \E p \in Pods :
          \/ Enter(p) \/ Outside(p) \/ SetupStep(p) \/ Leave(p)
          \/ Killed(p) \/ Around(p)
          \/ TaskEnds(p)
    \/ Reap

Spec == Init /\ [][Next]_vars

(* A live pod goes on running: its calls return or raise.  Nothing is      *)
(* assumed of the daemon, of crashes, lost sessions and restarts.          *)
FairSpec ==
    /\ Spec
    /\ \A p \in Pods :
          WF_vars(Enter(p) \/ Outside(p)) /\ WF_vars(SetupStep(p)) /\ WF_vars(Leave(p))
    /\ WF_vars(Reap)
-----------------------------------------------------------------------------
(* The composition is an instance of the lock: every stage, return and     *)
(* exception of the setup is a step of LockSpec or invisible to it, so all *)
(* that is shown of the lock holds here.                                   *)
KeepsLock == LockSpec

(* The break-glass owner is single: pods starting together on a fresh      *)
(* installation, retries after a registration that failed half-way, and    *)
(* kills never add a tenant to one that is there.                          *)
SingleOwner == [][tenants' > tenants => tenants = 0]_vars

(* Models are provisioned, the key pair touched and the plugin's           *)
(* installation requested only for a sole tenant.  Only what the daemon    *)
(* makes of a request, with no setup moving on, may come when there are    *)
(* more.                                                                   *)
NoImplicitWorkspace ==
    [][<<keyPair, daemon, provisioning>>' # <<keyPair, daemon, provisioning>> =>
          \/ tenants' = 1
          \/ /\ \E p \in Pods : task[p] = "running" /\ task'[p] # "running"
             /\ UNCHANGED <<stage, keyPair, provisioning>>]_vars

(* A private key is never replaced: what was encrypted for the tenant can  *)
(* still be decrypted, and the public key in the database belongs to it.   *)
KeysNeverMixed == pub # NoKey => pub = priv
PrivateKeyKept == [][priv # NoKey => priv' = priv]_vars

(* Provisioning, which decrypts credentials and calls the provider, runs   *)
(* with the private key stored and the plugin installed.                   *)
ReadyToProvision ==
    \A p \in Pods : stage[p] = "provision" => priv # NoKey /\ plugin

(* A setup that returns has put its configuration in place; the next one   *)
(* starts after it, so nothing else was written in between.                *)
AppliedOnSuccess ==
    \A p \in Pods : at[p] = "complete" => Provisioning!Applied(config[p])

(* The stages run in the protected block, whichever way it is left.        *)
SetupInBody == \A p \in Pods : stage[p] # "idle" <=> phase[p] = "holding"

(* What the stages need of the lock: the setup is entered by one pod at a  *)
(* time.                                                                   *)
OneInSetup ==
    \A p, q \in Pods : phase[p] = "holding" /\ phase[q] = "holding" => p = q

(* What the lock needs of the database for that: no pod loses its session  *)
(* while it is at a stage.  Sessions lost by pods that wait for the lock   *)
(* or give it back do no harm.                                             *)
Protected == \A p \in Pods : phase[p] = "holding" => ~broken[p]

(* What _ensure_tenant_rsa says (lines 396-401): after it the tenant has a *)
(* key pair, and it may be run again.                                      *)
KeyPairEnsured ==
    \A p \in Pods :
       stage[p] \in {"daemon", "plugins", "upload", "install", "poll", "provision"} =>
          pub # NoKey /\ pub = priv
=============================================================================
