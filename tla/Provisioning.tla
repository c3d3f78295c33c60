---------------------------- MODULE Provisioning ----------------------------
(***************************************************************************)
(* Provisioning of the model credentials, the last part of the setup in    *)
(* overlay/scripts/setup_model_provider.py: loading the configuration      *)
(* (lines 155-206, 550-554), resolving a credential id (209-248) and the   *)
(* upsert of one entry (_provision, 251-363).                              *)
(*                                                                         *)
(* A slot is one (tenant, provider, model type, model).  For each slot the *)
(* database has the credential rows in the order of their creation, a      *)
(* credential id being a position there, and the credential and the        *)
(* enabled flag of the active model list.  It may hold some before the     *)
(* first run: those of earlier releases, and of users.  Dify's             *)
(* ModelProviderService is not part of the repository: its calls are       *)
(* modelled by what the script says of them.                               *)
(***************************************************************************)
EXTENDS Integers, Sequences, SequencesExt

CONSTANTS
    Pods,              \* processes running the script
    Slots,             \* what a configuration entry names
    Unmatched,         \* slots Dify stores under a name the script never looks up
    Secrets,           \* credentials
    ModelTypes,
    TypeOf,            \* the model type of a slot
    Configs,           \* MODEL_PROVIDER_CREDENTIALS a pod may find
    Settings,          \* MODEL_SETTINGS a pod may find: the disabled slots
    Unparsable,        \* ... not a JSON object
    NoSlot,            \* no default model has been chosen
    Stores             \* what the database may hold before the first run

(* An entry is well-formed when _provider_entries accepts it.              *)
Entry == [slot : Slots, secret : Secrets, asDefault : BOOLEAN, wellFormed : BOOLEAN]

(* What users leave behind: a model in use has a stored credential, and a  *)
(* default model is in use.                                                *)
SoundStore(s) ==
    /\ s.rows \in [Slots -> Seq(Secrets)]
    /\ s.active \in [Slots -> Nat] /\ s.enabled \in [Slots -> BOOLEAN]
    /\ s.default \in [ModelTypes -> Slots \cup {NoSlot}]
    /\ \A m \in Slots :
          s.active[m] <= Len(s.rows[m]) /\ (s.enabled[m] => s.active[m] # 0)
    /\ \A t \in ModelTypes : s.default[t] # NoSlot => s.enabled[s.default[t]]

ASSUME ProvisioningAssumption ==
    /\ Unmatched \subseteq Slots
    /\ TypeOf \in [Slots -> ModelTypes]
    /\ Configs \subseteq Seq(Entry) \cup {Unparsable} /\ Unparsable \notin Seq(Entry)
    /\ Settings \subseteq (SUBSET Slots) \cup {Unparsable}
    /\ NoSlot \notin Slots
    /\ \A s \in Stores : SoundStore(s)

VARIABLES
    rows,              \* the stored secrets of each slot, oldest first
    active,            \* id of the credential in the active model list, or 0
    enabled,           \* the model may be used
    default,           \* the default model of each type
    at,                \* where each pod's provisioning is
    todo,              \* entries the pod has not finished
    cred,              \* credential id the pod has resolved, or 0
    config,            \* the configuration the pod has loaded
    disabled           \* slots the pod's MODEL_SETTINGS disable

store == <<rows, active, enabled, default>>
progress == <<at, todo, cred, config, disabled>>
provisioningVars == <<store, progress>>

ServiceCalls == {"update", "create", "add", "enable", "default"}
Points == {"idle", "load", "next", "resolve", "complete"} \cup ServiceCalls

ProvisioningTypeOK ==
    /\ rows \in [Slots -> Seq(Secrets)]
    /\ active \in [Slots -> Nat]
    /\ \A s \in Slots : active[s] <= Len(rows[s])
    /\ enabled \in [Slots -> BOOLEAN]
    /\ default \in [ModelTypes -> Slots \cup {NoSlot}]
    /\ at \in [Pods -> Points]
    /\ todo \in [Pods -> Seq(Entry)]
    /\ cred \in [Pods -> Nat]
    /\ config \in [Pods -> Seq(Entry)]
    /\ disabled \in [Pods -> SUBSET Slots]

ProvisioningInit ==
    /\ \E s \in Stores :
          /\ rows = s.rows /\ active = s.active
          /\ enabled = s.enabled /\ default = s.default
    /\ at = [p \in Pods |-> "idle"]
    /\ todo = [p \in Pods |-> <<>>]
    /\ cred = [p \in Pods |-> 0]
    /\ config = [p \in Pods |-> <<>>]
    /\ disabled = [p \in Pods |-> {}]
-----------------------------------------------------------------------------
Current(p) == Head(todo[p])
Slot(p) == Current(p).slot

Goto(p, point) == at' = [at EXCEPT ![p] = point]

(* The locals of a run go with it.                                         *)
Forget(p) ==
    /\ Goto(p, "idle")
    /\ todo' = [todo EXCEPT ![p] = <<>>]
    /\ cred' = [cred EXCEPT ![p] = 0]
    /\ config' = [config EXCEPT ![p] = <<>>]
    /\ disabled' = [disabled EXCEPT ![p] = {}]

(* Mutant: the id is taken from the active model list only.                *)
ResolveCredentialId_ActiveOnly(s) == IF s \in Unmatched THEN 0 ELSE active[s]

(* Mutant: the newest credential is taken, whichever is active.            *)
ResolveCredentialId_Newest(s) == IF s \in Unmatched THEN 0 ELSE Len(rows[s])

(* _resolve_credential_id: the active credential, else the newest stored   *)
(* one; neither is found when the names looked for are not the stored one. *)
ResolveCredentialId(s) ==
    IF s \in Unmatched THEN 0
    ELSE IF active[s] # 0 THEN active[s]
    ELSE Len(rows[s])

(* Mutant: entries are not validated before the first is provisioned.      *)
Accepted_ParsesOnly(c) == c # Unparsable

(* Mutant: JSON that is not an object is passed on.                        *)
Accepted_NotAnObject(c) == c = Unparsable \/ \A i \in DOMAIN c : c[i].wellFormed

(* The whole configuration is validated before anything is provisioned.    *)
Accepted(c) == c # Unparsable /\ \A i \in DOMAIN c : c[i].wellFormed

(* The settings are parsed and dropped, the configuration is parsed and    *)
(* its entries normalised into the list to work through.                   *)
Load(p) ==
    /\ at[p] = "load"
    /\ \E c \in Configs, d \in Settings :
          /\ d # Unparsable /\ Accepted(c)
          /\ todo' = [todo EXCEPT ![p] = c]
          /\ config' = [config EXCEPT ![p] = c]
          /\ disabled' = [disabled EXCEPT ![p] = d]
    /\ Goto(p, "next")
    /\ UNCHANGED <<store, cred>>

LoadRefused(p) ==
    /\ at[p] = "load"
    /\ Unparsable \in Settings \/ \E c \in Configs : ~Accepted(c)
    /\ Forget(p)
    /\ UNCHANGED store

(* An entry starts with the id of the credential it will update, if any.   *)
NextEntry(p) ==
    /\ at[p] = "next" /\ todo[p] # <<>>
    /\ LET id == ResolveCredentialId(Slot(p)) IN
          /\ cred' = [cred EXCEPT ![p] = id]
          /\ Goto(p, IF id # 0 THEN "update" ELSE "create")
    /\ UNCHANGED <<store, todo, config, disabled>>

NoMoreCurrent(p) ==
    /\ at[p] = "next" /\ todo[p] = <<>>
    /\ Goto(p, "complete")
    /\ UNCHANGED <<store, todo, cred, config, disabled>>
-----------------------------------------------------------------------------
(* Mutant: an existing credential is left as it is.                        *)
UpdateCredential_Skipped(p) ==
    /\ at[p] = "update"
    /\ Goto(p, "add")
    /\ UNCHANGED <<store, todo, cred, config, disabled>>

(* The service overwrites the stored secret, or refuses because the stored *)
(* credential is the same; the script goes on either way.                  *)
UpdateCredential(p) ==
    /\ at[p] = "update"
    /\ \/ rows' = [rows EXCEPT ![Slot(p)][cred[p]] = Current(p).secret]
       \/ rows[Slot(p)][cred[p]] = Current(p).secret /\ UNCHANGED rows
    /\ Goto(p, "add")
    /\ UNCHANGED <<active, enabled, default, todo, cred, config, disabled>>

(* The service stores a new credential, and may put it into an active list *)
(* that has none; or it refuses a secret that is already stored.           *)
CreateCredential(p) ==
    /\ at[p] = "create"
    /\ \/ /\ rows' = [rows EXCEPT ![Slot(p)] = Append(@, Current(p).secret)]
          /\ \/ UNCHANGED active
             \/ /\ active[Slot(p)] = 0
                /\ active' = [active EXCEPT ![Slot(p)] = Len(rows[Slot(p)]) + 1]
       \/ /\ Contains(rows[Slot(p)], Current(p).secret)
          /\ UNCHANGED <<rows, active>>
    /\ Goto(p, "resolve")
    /\ UNCHANGED <<enabled, default, todo, cred, config, disabled>>

(* Mutant: a new credential is taken to be in the active model list.       *)
ResolveCreated_SkipsList(p) ==
    /\ at[p] = "resolve" /\ ResolveCredentialId(Slot(p)) # 0
    /\ cred' = [cred EXCEPT ![p] = ResolveCredentialId(Slot(p))]
    /\ Goto(p, "enable")
    /\ UNCHANGED <<store, todo, config, disabled>>

(* After a create the id is looked up again.                               *)
ResolveCreated(p) ==
    /\ at[p] = "resolve" /\ ResolveCredentialId(Slot(p)) # 0
    /\ cred' = [cred EXCEPT ![p] = ResolveCredentialId(Slot(p))]
    /\ Goto(p, "add")
    /\ UNCHANGED <<store, todo, config, disabled>>

(* Mutant: the run goes on without an id.                                  *)
Unresolved_GoesOn(p) ==
    /\ at[p] = "resolve" /\ ResolveCredentialId(Slot(p)) = 0
    /\ Goto(p, "enable")
    /\ UNCHANGED <<store, todo, cred, config, disabled>>

(* No id after a create is an error.                                       *)
Unresolved(p) ==
    /\ at[p] = "resolve" /\ ResolveCredentialId(Slot(p)) = 0
    /\ Forget(p)
    /\ UNCHANGED store

(* The credential becomes the active one, if it is not already.            *)
AddToModelList(p) ==
    /\ at[p] = "add"
    /\ active' = [active EXCEPT ![Slot(p)] = cred[p]]
    /\ Goto(p, "enable")
    /\ UNCHANGED <<rows, enabled, default, todo, cred, config, disabled>>

(* Mutant: the entry stays at the head of the list.                        *)
EnableModel_SameEntry(p) ==
    /\ at[p] = "enable"
    /\ enabled' = [enabled EXCEPT ![Slot(p)] = TRUE]
    /\ Goto(p, IF Current(p).asDefault THEN "default" ELSE "next")
    /\ UNCHANGED <<rows, active, default, todo, cred, config, disabled>>

(* The model is enabled, if it is not already; an entry that is not to be  *)
(* the default is finished with it.                                        *)
EnableModel(p) ==
    /\ at[p] = "enable"
    /\ enabled' = [enabled EXCEPT ![Slot(p)] = TRUE]
    /\ IF Current(p).asDefault
       THEN Goto(p, "default") /\ UNCHANGED todo
       ELSE Goto(p, "next") /\ todo' = [todo EXCEPT ![p] = Tail(@)]
    /\ UNCHANGED <<rows, active, default, cred, config, disabled>>

(* Mutant: a default that has been chosen once is kept.                    *)
SetDefault_KeepsFirst(p) ==
    /\ at[p] = "default"
    /\ default' = [default EXCEPT ![TypeOf[Slot(p)]] = IF @ = NoSlot THEN Slot(p) ELSE @]
    /\ Goto(p, "next")
    /\ todo' = [todo EXCEPT ![p] = Tail(@)]
    /\ UNCHANGED <<rows, active, enabled, cred, config, disabled>>

SetDefault(p) ==
    /\ at[p] = "default"
    /\ default' = [default EXCEPT ![TypeOf[Slot(p)]] = Slot(p)]
    /\ Goto(p, "next")
    /\ todo' = [todo EXCEPT ![p] = Tail(@)]
    /\ UNCHANGED <<rows, active, enabled, cred, config, disabled>>

(* A service call raises any other error: the run ends where it is.  An    *)
(* error after the call's commit is the error of the next call.            *)
ServiceRaises(p) ==
    /\ at[p] \in ServiceCalls
    /\ Forget(p)
    /\ UNCHANGED store
-----------------------------------------------------------------------------
ProvisionStep(p) ==
    \/ Load(p) \/ NextEntry(p) \/ NoMoreCurrent(p)
    \/ UpdateCredential(p) \/ CreateCredential(p) \/ ResolveCreated(p)
    \/ AddToModelList(p) \/ EnableModel(p) \/ SetDefault(p)

ProvisionRaises(p) == LoadRefused(p) \/ Unresolved(p) \/ ServiceRaises(p)

(* The provisioning of a run begins, and ends with it.                     *)
BeginProvisioning(p) ==
    /\ at[p] = "idle"
    /\ Goto(p, "load")
    /\ UNCHANGED <<store, todo, cred, config, disabled>>

EndProvisioning(p) ==
    /\ at[p] = "complete"
    /\ Forget(p)
    /\ UNCHANGED store

(* Provisioning under the promise of the bootstrap lock: one run after the *)
(* other, each with an environment of its own, each of which may be killed *)
(* between any two of its steps.                                           *)
BeginAlone(p) == (\A q \in Pods : at[q] = "idle") /\ BeginProvisioning(p)

(* A run takes its next step: a step of its provisioning, an error that    *)
(* ends it, or its regular end.                                            *)
Run(p) == ProvisionStep(p) \/ ProvisionRaises(p) \/ EndProvisioning(p)

Kill(p) == Forget(p) /\ UNCHANGED store

OneByOneNext == \E p \in Pods : BeginAlone(p) \/ Run(p) \/ Kill(p)

OneByOne == ProvisioningInit /\ [][OneByOneNext]_provisioningVars

(* Provisioning by pods of which some have lost the lock: the calls of     *)
(* several runs interleave.                                                *)
AnyOrderNext == \E p \in Pods : BeginProvisioning(p) \/ Run(p) \/ Kill(p)

AnyOrder == ProvisioningInit /\ [][AnyOrderNext]_provisioningVars
-----------------------------------------------------------------------------
SlotsOf(c) == {c[i].slot : i \in DOMAIN c}
LastFor(c, s) ==
    CHOOSE i \in DOMAIN c : c[i].slot = s /\ \A j \in DOMAIN c : c[j].slot = s => j <= i
DefaultsOf(c, t) == {i \in DOMAIN c : c[i].asDefault /\ TypeOf[c[i].slot] = t}

(* The database says what the configuration asked for: the last entry of   *)
(* each slot is the active credential of an enabled model, and the last    *)
(* default of each type is the default.                                    *)
Applied(c) ==
    /\ \A s \in SlotsOf(c) :
          /\ active[s] # 0
          /\ rows[s][active[s]] = c[LastFor(c, s)].secret
          /\ enabled[s]
    /\ \A t \in ModelTypes :
          \A i \in DefaultsOf(c, t) :
             (\A j \in DefaultsOf(c, t) : j <= i) => default[t] = c[i].slot

(* A run that completes has put its whole configuration in place, whatever *)
(* earlier runs with other configurations, cut short anywhere, have left   *)
(* behind.                                                                 *)
AppliedAtCompletion ==
    \A p \in Pods : at[p] = "complete" => Applied(config[p])

(* Interrupted and repeated runs do not pile up credentials, nor swap what *)
(* users have chosen: a slot the script can resolve gets a row only if it  *)
(* has none, and a slot with an active credential keeps that one active,   *)
(* its other rows left as they are.                                        *)
UpsertsInPlace ==
    [][\A s \in Slots :
          /\ s \notin Unmatched /\ rows[s] # <<>> => Len(rows'[s]) = Len(rows[s])
          /\ active[s] # 0 =>
                /\ active'[s] = active[s]
                /\ \A i \in DOMAIN rows[s] \ {active[s]} : rows'[s][i] = rows[s][i]]_provisioningVars

(* The order of the calls: a model that may be used has a credential, and  *)
(* a default model may be used, also between the calls of a run.           *)
UsableModels ==
    /\ \A s \in Slots : enabled[s] => active[s] # 0
    /\ \A t \in ModelTypes : default[t] # NoSlot => enabled[default[t]]

(* A run with a malformed entry, wherever it is in the list, writes        *)
(* nothing: the run that makes the step has a configuration that is valid  *)
(* to the end, whatever others are doing.                                  *)
WritesOnlyValidated ==
    [][store' # store =>
          \E p \in Pods :
             /\ at[p] \in ServiceCalls /\ at'[p] # at[p]
             /\ \A q \in Pods \ {p} : at'[q] = at[q]
             /\ \A i \in DOMAIN config[p] : config[p][i].wellFormed]_provisioningVars

(* What the module docstring (lines 23-29) says of MODEL_SETTINGS: the     *)
(* enabled flag there overrides the default.                               *)
DisabledStaysDisabled ==
    \A p \in Pods : at[p] = "complete" => \A s \in disabled[p] : ~enabled[s]
=============================================================================
