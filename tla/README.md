# A verification project for the Dify CE builder

These TLA+ modules model the parts of this repository that carry state across
failures and concurrent processes, TLC checks them on small instances, and TLAPS
proves the most important results for every instance. Paths are relative to the
repository; line numbers without a file are of
`overlay/scripts/setup_model_provider.py`.

## The system

| Part | Where | State | Operations | Model |
| --- | --- | --- | --- | --- |
| Bootstrap lock | lines 46-118 | an advisory lock on a PostgreSQL session | poll, hold, unlock | `BootstrapLock`, `LockPromise` |
| Bootstrap stages | 121-152, 373-557 | tenants, setup row, key pair, plugin | register the owner, resolve the tenant, ensure keys, wait for the daemon, install the plugin | `Bootstrap` |
| Model provisioning | 155-363 | credential rows, active list, enabled flags, default models | load, resolve id, update or create, add, enable, set default | `Provisioning`, `SerialProvisioning` |
| Index migration | `overlay/api/migrations/versions/…4474872b0ee6…` | index, column, recorded revision | upgrade, downgrade | `IndexMigration` |
| Release | `deploy.sh`, `scripts/ghcr_preflight.py` | worktree, main branch, registry tags | check, preflight, push | `Release` |
| Keycloak login | `overlay/api/neurwerk_sso.py`, `neurwerk_settings.py` | accounts, links, memberships, sessions, browser nonce, claims | start, callback, login, registration, revocation | `BrowserState`, `KeycloakSso`, `AccessPromise` |
| Source patching | `overlay/scripts/patch_dify.py` | the source tree during a container build | guarded replacements | not modelled |
| Source verification | `scripts/verify-sources.sh` | none | compare downloads with pinned digests | not modelled |
| Sign-in countdown | `overlay/web/app/signin/components/sso-redirect.tsx` | a countdown | tick, redirect | not modelled |
| Image recipes | `docker/` | none | build | not modelled |

How they interact. Every API pod that starts runs the setup script once
(`main`, 560-570). `_run` (525-557) takes the bootstrap lock and runs, inside
it, the stages in a fixed order, and then the provisioning of each configured
model. The database, the private key storage and the plugin daemon are shared
by the pods and outlive them. Dify's own migrations run before that and include
the overlay's. Releases are made by operators at their workstations, who share
the canonical repository and the registry. The login code runs in the pods, one
request of the callback at a time per login, on Dify's claims (leases), tables
and token store; the workspace it puts its users into is the one the bootstrap
registers, with its owner.

What is hard: pods that start together; a lock that belongs to a session which
may end under its holder; kills between any two steps; service calls that commit
and steps that fail after them; waits with deadlines on a daemon that may answer
late; index statements that commit on their own and go on after their client is
dead; a registry without transactions; logins and revocations of one user at a
time, with roles that were read earlier, under claims that may run out, on two
stores. `PROJECT.json` lists the hazards one by one, with the line where each
bites and the properties for it.

What makes each part correct:

- the lock: at most one pod is in the setup, unless one of them has lost its
  session, and that one is never reported a success; no way out of the block
  leaves the lock behind; every wait ends;
- the stages: one owner, one tenant, no key pair replaced, provisioning only
  with key and plugin in place, an end in every case;
- the provisioning: upserts that converge from whatever an earlier run has left;
- the migration: a recorded revision means index and column; retries converge;
- the release: tags are immutable, labels are true, versions are of one commit;
- the login: a state is honoured in its own browser and for the start that
  stands there, an account is one subject's, access is what the token says, a
  session is a member's, and whoever loses a claim does not go on as if it had
  it.

## Modules

`BootstrapLock` models `_bootstrap_lock` and what surrounds it. `lock` is the
server's view, `phase` the program counter (`start`, `trying` the loop 76-97,
`holding` the `yield`, `releasing` the `finally` clause, then `done` or
`failed` with the exit status), `conn` the pod's dedicated connection, `left`
the poll intervals to the deadline. Each attempt, each failure and each way of
leaving is an action. The environment may end or replace the database session
of a live pod (`LoseSession`), kill the process (`Crash`), notice a dead client
(`ReapOrphan`) and start a pod again (`Restart`). An acquisition whose answer
never arrives leaves the lock with a session nobody uses (`Orphan`). `broken`
is a history variable: this run had the lock and lost it.

`LockPromise` is the abstract specification of the lock: processes inside,
strays whose protection has ended, completed runs. `KeepsPromise` is the
refinement, with `inside` the pods in the block that have not lost the lock.

`Provisioning` models the loading of the configuration and `_provision`. A slot
is a (tenant, provider, type, model); a credential id is a position in the
slot's rows. Each call to Dify's ModelProviderService is one action, since a
run can die between any two; the service, which is external, is modelled by
what the script says of it: the "same credential" errors (lines 294-300,
311-317, 335-338) are possible exactly when the credential is there already.
`Stores` is what the database may hold before the first run, since users add
credentials too: in particular a slot whose active credential is not its newest.
`OneByOne` lets runs follow each other with kills anywhere, which is what the
lock promises; `SerialProvisioning` bounds their number for TLC. `AnyOrder` lets
them interleave, as they may once a pod has lost the lock.

`Bootstrap` composes both: it extends `BootstrapLock`, whose protected block
its stages fill, and instantiates `Provisioning` for the last stage. Each stage
is one or more actions, split where the code commits or waits: the check for an
installation and the registration; looking for the private key, storing it and
committing the public one; each poll of the daemon and of the install task,
whose end the daemon decides (`TaskEnds`), if need be after the pod has gone.
Every stage may raise, which takes the pod through the `finally` clause.

`IndexMigration` models `upgrade` and `downgrade` on PostgreSQL: inspecting,
the decision of `_postgresql_index_action`, the concurrent statements as
intervals (`ddl`, during which the index is invalid) that end, fail or lose
their client, and the transaction with column and revision.

`Release` models an operator's run from the clean worktree check to the last
push, with any selection of packages, while main advances, worktrees are
touched and other operators work. The checks of the preflight are one step per
package, in the order of the code: access to all, absence of all, then the
pushes.

`BrowserState` models the state parameter (58-71 and 149-166 of
`neurwerk_sso.py`, and `patch_dify.py` 37-49, which puts it into the callback):
the nonce is in Flask's session, which is a cookie. A request works on the copy
it was sent with (`Begin`, `Decode`), and what it changes reaches the browser with
its answer (`AnswerStart`, `AnswerCallback`), in whatever order answers arrive, or
never. `nonce` is the cookie of each browser, `arrived` the starts answered,
`heard` the callbacks answered. Whoever has a state may present it again, in any
browser.

`KeycloakSso` extends it with everything behind the callback. `stage` is a
login's program counter, `req` what it has read: start, browser and subject, and
with the token a snapshot of address and roles, which the directory may have
changed since (`Edit`). With the role `dify-user` a login takes the claim on its
identity (`Resolve`), registers and links an account if there is none
(`Register`, committed before `Link`), takes the claim on the account and finds
one workspace, or is refused (`ClaimAccount`), commits the membership and looks
at the claim again (`CommitMember`), and gets its session (`IssueTokens`).
Without it `_revoke_workspace_access` is `ShutClaim`, `ShutAccount`,
`DeleteMember` and `RevokeTokens`. Any step may fail, a pod may be killed (its
claims stay until `LeasesRunOut`), and a live login may lose a claim. `lost` is
a history variable: logins that lost a claim they still have to look at. An
account is named by the address it was created with.

`AccessPromise` is the abstract specification of access: a table of members and
one of sessions, without browsers, subjects, addresses or claims. A removal takes
the membership and then the session, and nobody joins or opens a session for the
account in between; one that is cut off there is remembered. `KeepsAccess` is the
refinement, with the accounts of logins at `revoke` as those being removed.

`MC*` modules only give constants values. Operators marked "Mutant" are
plausible bugs, one or more per property; substituted for the definition that
follows them they make TLC report the property violated, which shows that the
property does depend on the code. They are not used by any specification.

## Runs

| Run | Shows |
| --- | --- |
| `lock_safety` (`MCBootstrapLock.cfg`) | `LockFollowsBody`, `MutualExclusion`, `SuccessMeansHeld`, the inductive invariant, and the refinement of `LockPromise` |
| `provisioning` (`MCSerialProvisioning.cfg`) | a completed run has applied its whole configuration, whatever came before; a slot that has rows gets no further one, and the active credential stays the active one; nothing enabled without a credential; a run writes nothing unless its configuration is well-formed to the end; every run ends |
| `bootstrap` (`MCBootstrap.cfg`) | the composition: single owner, nothing done by a setup without a sole tenant, keys never mixed or replaced, readiness, configuration applied, and every behaviour one of the lock |
| `bootstrap_progress` (`MCBootstrapLive.cfg`) | every run of the script ends, whatever the daemon does; the lock comes free again |
| `index` (`IndexMigration.cfg`) | in each regime: a revision is recorded iff its column is there, and has its index at any moment (`serial`) or once all migrators have ended (no fault); a conflicting index is not touched, a downgrade leaves no index, retrying converges |
| `sso` (`MCKeycloakSso.cfg`) | logins side by side: a state is honoured only in the browser that began it, for the last start answered there, and not after a callback for it has been answered; accounts and subjects correspond however addresses move; a membership or session is changed only for the account of the token's subject and as its roles say; a session is a member's unless a revocation is or was between its two stores; a lost claim is noticed; no login blocks another for good; the refinement of `AccessPromise` |
| `release` (`MCRelease.cfg`) | immutable tags, true labels, labels from main, no predictable partial release, one commit per version, each under the agreement it needs |

Five runs are expected to find a violation. Each checks what a docstring or the
README says and is reported as a finding:

- `key_pair`: `_ensure_tenant_rsa` (395-417) is called idempotent, but a failure
  after the private key is stored leaves the tenant without a public key for
  good, since the private key alone is taken for the pair.
- `settings_ignored`: `MODEL_SETTINGS` is documented (23-29) to disable models;
  it is parsed and dropped (550).
- `second_owner`: a pod whose lock session is lost between the check (506) and
  the registration (515) registers a second owner; it fails only at the unlock.
- `index_downgrade`: a downgrade that fails after its `DROP INDEX` can never be
  retried; the README (15-16) calls the migration retry-safe.
- `release_recovery`: the completion of a partial release that the README
  (121-123) prescribes is refused once main has advanced (`deploy.sh` 115-120).

### Bounds, and why they are enough

- Lock: three pods, each started twice, two lost sessions, one kill, time-outs
  of 0 to 2 polls. Three pods are the least for a holder, an orphan and a
  waiter; two losses let the lock be lost twice in one history. The proofs
  remove the bounds.
- Provisioning: three runs, three slots in two model types, two secrets, seven
  configurations, and three databases to begin with: an empty one, and a slot with
  two credentials of which the older or none is in use. A third run meets what two
  different interrupted runs left.
- Bootstrap: two pods started twice with one kill, five installations (fresh,
  running, without keys, without tenant, with two tenants), none with stored
  credentials. The waits are one poll long; their loops have no state but the
  deadline. In `bootstrap` a session may be lost, but histories end (`CONSTRAINT
  Protected`) where a pod at a stage has lost its own, since `SingleOwner` is
  false from there on (`second_owner`): 774,100 distinct states. In
  `bootstrap_progress` they go on.
- Migration: two migrators, up to three faults, all four states of the index to
  begin with, all three regimes of the caller.
- Logins: two at a time, two browsers, two users with one role or the other, two
  addresses and the owner's, three directories to begin with. After one start, up
  to two lost claims or one and a kill, and an edit of the directory; after a
  second start, one of these in all (`FewFaults`): 1.05 million distinct states.
  One start suffices for two logins side by side, as its state may be presented
  again until the first is answered; two starts are the least for one to supersede
  the other. Two losses show that `SessionMeansMember` and `KeepsAccess`, which
  promise something up to one loss, are tight: with `losses <= 2` in their place
  TLC finds them violated. Two logins meet at every pair of points, of one user or
  of two that share an address; the edit moves an address or takes a role away
  between token and claim. Logins and browsers are symmetric. The proofs remove
  the bounds.
- Release: two operators, two packages, one version, two commits of main and a
  local one, four combinations of agreements. Versions do not interact.

### Fairness

A live process goes on running, because its calls return or raise: weak fairness
of the steps a pod takes by itself. The server notices dead clients
(`ReapOrphan`) and ends the statements it executes (`StatementEnds`). A failed
migration is run again, which the deployment does. Nothing is assumed of the
plugin daemon, of crashes, losses and restarts, or of an operator going on with
a release. No fairness is stated for logins: each has finitely many steps, and
what could keep it from its end is a wait for a claim, which `SomeLoginMoves`
is about: some login can go on, or the lease of a dead one runs out.

Deadlock checking is off everywhere: all these programs end.

## Proofs

Everything in this section holds for any values of the constants: any number of
pods, logins, slots, operators, any bounds on restarts, kills and losses.

### The lock

`BootstrapLockProofs` proves everything `lock_safety` checks. The inductive
invariant `LockIInv` is the type invariant with

- `LockFollowsBody`: the lock is on a pod's session iff the pod is in the block
  and has not lost it. It gives mutual exclusion, as the lock has one value;
- `HeldOnOpenSession`: a pod whose connection is broken does not have the lock.
  Needed where the unlock raises on a broken connection and nothing is released;
- `FreshUnbroken`: a run that has not acquired has not lost. Needed where the
  lock is acquired, to re-establish `LockFollowsBody`;
- `SuccessMeansHeld`.

One lemma shows that each action preserves them; `HoldNotStolen` (nobody but the
holder or the loss of its session ends a hold) and the refinement follow from
the invariant, one action at a time. `PromiseExcludes` derives mutual exclusion
from the promise alone. `WaitIsBounded` is the safety half of termination: the
attempts left to the deadline, plus the steps behind them, go down with each
step of the run and never up by anybody else's.

### The stages

`BootstrapProofs` carries this over to the whole script: each stage either stays
in the block or is `LeaveBody`, so `Spec` implies `LockSpec` (`KeepsLock`), and
with it mutual exclusion. The stages run only in the block (`StagesInBody`).

What they need of the lock is that one pod at most is in the block (`OneInSetup`),
and what the lock needs for that is that no pod at a stage has lost its session
(`Protected`): `SetupsSerial`. Sessions lost while a pod waits, or after its
setup, do no harm; where none is lost, every pod is protected
(`NoLossProtects`). The results are therefore of two kinds.

Under `[]OneInSetup`: a single owner (`OwnerIsSingle`), keys neither mixed nor
replaced (`KeysMatch`, `PrivateKeyIsKept`), nothing done by a setup without a
sole tenant (`WorkspaceIsChosen`: keys, requests for the plugin, provisioning; a
request may end in the daemon later), provisioning runs one after the other
(`ProvisionsOneByOne`), and hence a configuration in place (`SetupApplied`) and
credentials updated in place (`SetupsUpsertInPlace`). Without it none is promised:
`second_owner` shows what a session lost at a stage does to the first.
`ProtectedSetup` puts them together for `[]Protected`. The argument: what a pod
has looked for and found missing (a tenant, a private key, a second tenant) stays
missing because it is alone. `OwnerIInv` says so of the tenants
(`RegisterOnFresh`), `KeyIInv` of keys.

Unconditionally, whatever sessions are lost: the types (`BootstrapTyping`);
`ProvisionsReady`, that the provisioning finds private key and plugin in place;
and that the provisioning calls of the pods are those of some interleaving of
runs (`ProvisionsInAnyOrder`), so that no model is usable without a credential
(`SetupsLeaveModelsUsable`) and the pod that writes has a configuration that is
well-formed to the end, whatever the others have (`SetupsWriteValidated`). The
argument is that what these rest on is never taken back: private key, plugin,
rows, active credential, enabled flag. `ReadyIInv` is the inductive invariant.

### The provisioning

`ProvisioningProofs` is about `OneByOne` and `AnyOrder`: any slots,
configurations, secrets, runs and kills. One run at a time, `ProvisioningIInv`
says that the run inside has finished a prefix of its configuration and that, for
the last entry of each slot in it, the database says what that entry asks for,
unless the entry in work is for the same slot; at the end the prefix is
everything, which is `AppliedAtCompletion`. That every slot has a last entry
(`HaveLast`) is part of the invariant, since the existence of a maximum would
need induction. `UpsertsStayInPlace` rests on `KnowsSlot`: a run creates only where
a slot has no row, and what it updates and adds is the active credential wherever
there is one.

In any order, `InterleavedIInv` says what a run knows however many others there
are: its configuration is well-formed, its credential id is that of a row, the
slot it enables has an active credential, the slot it makes the default is
enabled. A lemma (`OthersKnow`) shows that these are stable under whatever only
lets the store grow. Types, `UsableModels` and `WritesOnlyValidated`, which
names the run that makes the step as the one that is well-formed, follow, and by
`SerialIsAnOrder` hold one run at a time, where TLC checks them. `RunsGoForward`
gives a measure, six steps for an entry at most, which each step of a run lowers
and no other run raises. `SetupsGoForward` (`BootstrapKeyProofs`) carries it to
the script: each step of a setup leads out of it, to a later stage, nearer to
the deadline of its wait for the daemon or the installation, or to fewer
provisioning steps left, and nobody else changes where a pod stands, except by
its own end. It needs no lock.

### The migration

`IndexMigrationProofs` takes any number of migrators and faults. `UpgradeSound`
proves the three parts of `RecordedMeansUsable`, each with an invariant of its own:

- in every regime the revision is recorded iff the column is there (`Recording`):
  who is about to commit has added the column, and only one migrator at a time is;
- in regime `serial` (one migrator at a time, no downgrade) a recorded revision has
  its exact index at any moment. A statement left by a killed migrator could change
  the index later, so `MigrationIInv` adds that an index under a statement is
  invalid and the revision not recorded, that one migrator at most is active, and
  that past the index stage the index is exact and nothing is in execution;
- with migrators side by side, or downgrades, the index is exact once all have
  ended, if nothing failed (`Settling`): where the index under a recorded revision
  is missing or invalid, a migrator is still there that creates it, or removes the
  revision. Without `faults = 0` this is false, as TLC shows: the migrator that
  has dropped the other's index may be killed.

`UpgradesGoForward` is a measure for regime `serial`: unless a conflicting index is
in the way, each step, whether of a migrator, the server or a fault, lowers a
natural number below 21·(`MaxFaults` + 1). Upgrades therefore take fewer steps
than that in all, without any fairness; that they take those they can is the
part of `UpgradeConverges` TLC checks.

Two further results have invariants of their own. A conflicting index stays, in every
regime, because nobody gets past the inspection while it is there (`NobodyPast`);
and a downgrade that has ended leaves no index (`Downgradable`: what each of its
points knows of the index and of the statements in execution).

### The logins

`KeycloakSsoProofs` takes any users, browsers, logins, edits, lost claims and
kills. `StageKnows` is what a login has read and still holds: an account that is
looked up stays its subject's, as links are never changed. With it come the
types and `SsoAccounts`, for which `LinkFresh` is needed: the account a login is
about to link has no subject and nobody else is about to link it, because it has
registered that account itself. Nothing is assumed of claims there. `SsoHonours`
rests on `NonceStands`: the nonce in a browser's cookie is that of the last start
answered there, and no callback for that start has been answered. For that
`StartsKnown` says that the answer still due to a callback that matched goes to the
browser of its start, whose cookie it clears.

`KeycloakClaimProofs` is about what the claims are for. `ClaimsOf` says that a login
holds nothing but what is due at its stage, all of it while no claim has been
lost, and that one that lost a claim it still looks at is held up by that; this
gives `SettledUnderClaims`, with any losses. `OneClaimMissing` says that after a
single loss what is missing is missing from one claim of one login. So two logins
are never past the claim on one account together (`AccountExclusive`): both would
need the claim on its subject and the claim on the account, and a single loss
takes one of the two only. Whoever is about to get a session
therefore still is a member (`TokensMean`), and `SessionMeansMember` follows for
up to one lost claim. With two it is false, as TLC shows: the claim on the account is
a second line of defence, not a redundant one.

`AccessIsKept` is the refinement of `AccessPromise`. Each step of a login is
mapped to a step on members and sessions or to none; that nobody joins or opens a
session in the middle of a removal is `AccountExclusive` again. `AccessSuffices`
derives `SessionMeansMember` from the promise alone.

`NobodyWaitsInCircles` is deadlock freedom without `ENABLED`: as long as a login
runs, some login waits for nothing, or a dead one has leases left to run out.
Whoever holds an identity waits at most for an account, and whoever holds an
account waits for nothing (`HolderMoves`). `SomeLoginMoves`, checked by TLC, says it
of the actions. With `LoginsGoForward`, by which each step of a login takes it to
a later stage, a login whose calls return or raise ends.

`SsoFollowsTokens` is about steps: what changes a membership or a session is a login
whose subject the account is linked to, and it changes it as its token says. It
takes `StageKnows` for the account and `TokenKept` for the roles: from the token on,
logins with the role are on the way in, the others on the way out.

### The release

`ReleaseProofs` takes any operators, packages, versions and commits.
`ReleaseIInv` says what a run has checked and still knows: of the tags as long as
it is the only run, since only runs push; of its worktree as long as that is left
alone; and that its revision is on the main branch in any case, as main only
grows. Each property follows under the agreement it names.

### What is assumed and what is only model-checked

Assumed are the modules' assumptions on their constants, which TLC evaluates on
the instances: `LockAssumption`, `ProvisioningAssumption` (among others: before
the first run a model in use has a credential and a default model is in use,
`SoundStore`), `BootstrapAssumption` (among others: an installation without a
tenant has no key), `BootstrapConfiguration` (what `Provisioning` asks of its
constants), `MigrationAssumption`, `ReleaseAssumption`, `BrowserAssumption` and
`SsoAssumption`; and `[]OneInSetup` or `[]Protected` where a theorem says so.

Of the passing runs' properties, five are only model-checked: the four of
liveness (`EveryProvisioningEnds`, `EveryRunEnds`, `LockComesFree`,
`UpgradeConverges`), which TLAPS does not treat, and `SomeLoginMoves`, which needs
`ENABLED`. The theorems on measures (`WaitIsBounded`, `SetupsGoForward`,
`RunsGoForward`, `UpgradesGoForward`, `LoginsGoForward`) and on waiting
(`NobodyWaitsInCircles`) are the parts of them that can be stated without
fairness and `ENABLED`.

## Assumptions about what is not in the repository

- RegisterService, ModelProviderService and PluginService are modelled by how
  the script uses them. Their calls return or raise. A registration makes
  tenant, key pair and setup row, or leaves nothing or a bare tenant.
- An error of a service call after its commit is the same as an error of the
  next call; a kill may come anywhere.
- Migrators are serialised by Dify's upgrade command. With concurrent ones a
  recorded revision may be without its index, since one may drop as unfinished what
  the other is building: for a while if nothing fails, for good if the one that
  has dropped it is killed. The column is not affected. A statement that a killed
  client has queued but that has not begun is not executed later.
- PostgreSQL only: the migration's branch for other databases is one
  transactional statement.
- Operators may agree to release one at a time, as the README (129-131) requires,
  to leave a worktree alone during a run, and to complete a partial version only
  from its commit (121-127). Nothing enforces it: `practice` is chosen
  initially, and each property says which agreement it needs. Two operators who
  release side by side may both find a tag absent and push it: no property covers
  that race, which only the agreement excludes. The clean check
  and `git rev-parse HEAD` are one step.
- Dify's login code is seen through the overlay: one call takes the claims on
  subject and address together, another the claim on the account; the upstream
  code links the subject after the registration has committed and raises if the
  subject has an account already; the session is issued while both claims are
  held. Frozen addresses, seat limits, invalid tokens and unreachable services
  are a step that fails (`Fail`).
- Flask's session is its default, a signed cookie: each request has its own copy,
  and sets the cookie with its answer if it has changed it. Nothing but the overlay
  uses the key of the nonce. Two callbacks for one start may therefore both be
  honoured, if the second is sent before the first is answered; that Keycloak
  accepts an authorization code once is not modelled.
- How many workspaces there are is not up to the logins: the check for a sole one
  (`neurwerk_sso.py` 174-176) may pass or refuse at any login.
  A workspace that appears between the check and the commit is not noticed by that
  login, and no property says it is.
- The directory may change between the token and what the login does with it.
  So a login with an older token may join again a user whom a login with a newer
  one has removed; no property excludes it, as the next login corrects it. And a
  registration that is cut before the link leaves an account without a subject:
  later logins with its address are refused (`neurwerk_sso.py`
  323-324), and it takes an administrator to resolve that.

## Not modelled

- `patch_dify.py`, except for the hook it puts into the callback: a guard that
  fails fails the container build, and no state survives. That the guards match
  the upstream files is a question about those files, which are not here.
- `verify-sources.sh` (downloads compared with digests), `sso-redirect.tsx` (one
  timer), the Docker recipes, tests and workflows: no state to interleave.
- Of `deploy.sh` the version rules, the digest report and local `--load` builds;
  of the preflight the parsing of responses (any ambiguity is `Fails`).
- Log messages everywhere; the non-PostgreSQL branch of the migration.

## Plan

Done: lock and promise, provisioning, stages, migration, release, logins,
access; proofs of the safety of each, of what remains without the lock or with
migrators side by side, and of a measure for the runs that have to end. What is
left is out of the prover's reach: liveness under fairness, and `ENABLED`. A
measure for migrators side by side is open; TLC checks for two that their
upgrades converge.
