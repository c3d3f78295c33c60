---------------------------- MODULE IndexMigration ----------------------------
(***************************************************************************)
(* The database migration 4474872b0ee6 of overlay/api/migrations/versions: *)
(* an index made with CREATE INDEX CONCURRENTLY, which commits on its own, *)
(* and a column added in the transaction that also records the revision.   *)
(*                                                                         *)
(* A migrator may fail or be killed anywhere and be run again.  The server *)
(* goes on with a statement whose client was killed, so a retry can find   *)
(* an index that is still being dropped or built.  Alembic and PostgreSQL  *)
(* are not part of the repository; concurrent index statements on a table  *)
(* exclude each other there, and one that fails leaves an invalid index.   *)
(***************************************************************************)
EXTENDS Integers

CONSTANTS
    Migrators,         \* processes that run the migrations
    Nobody,            \* no client waits for the statement
    Regimes,           \* how the caller may run the migrators
    MaxFaults          \* bound: statements failed and processes killed

(* The caller runs upgrades one at a time, or several at once, or both     *)
(* upgrades and downgrades one at a time.                                  *)
Regime == {"serial", "concurrent", "downgrades"}

ASSUME MigrationAssumption ==
    /\ Nobody \notin Migrators
    /\ Regimes \subseteq Regime
    /\ MaxFaults \in Nat

VARIABLES
    regime,            \* how the caller runs the migrators
    index,             \* the index of that name on the table
    column,            \* the column is committed
    applied,           \* the revision is recorded as applied
    pc,                \* where each migrator is
    ddl,               \* the concurrent index statement in execution
    client,            \* the migrator waiting for it, if it still lives
    faults             \* what the bound has used up

migrationVars == <<regime, index, column, applied, pc, ddl, client, faults>>

Upgrading == {"inspect", "replace", "create", "column", "commit"}
Downgrading == {"drop", "remove"}
Active(m) == pc[m] \in Upgrading \cup Downgrading

MigrationTypeOK ==
    /\ regime \in Regimes
    /\ index \in {"absent", "invalid", "exact", "conflicting"}
    /\ column \in BOOLEAN
    /\ applied \in BOOLEAN
    /\ pc \in [Migrators -> {"idle", "failed"} \cup Upgrading \cup Downgrading]
    /\ ddl \in {"none", "dropping", "creating"}
    /\ client \in Migrators \cup {Nobody}
    /\ faults \in 0 .. MaxFaults

(* An index of that name may be there already: left by a failed attempt,   *)
(* made by hand, or one with another definition.                           *)
MigrationInit ==
    /\ regime \in Regimes
    /\ index \in {"absent", "invalid", "exact", "conflicting"}
    /\ column = FALSE
    /\ applied = FALSE
    /\ pc = [m \in Migrators |-> "idle"]
    /\ ddl = "none"
    /\ client = Nobody
    /\ faults = 0

Goto(m, point) == pc' = [pc EXCEPT ![m] = point]
MayBegin(m) == /\ pc[m] \in {"idle", "failed"}
               /\ regime # "concurrent" => \A n \in Migrators : ~Active(n)
Fault == faults < MaxFaults /\ faults' = faults + 1
-----------------------------------------------------------------------------
(* Mutant: the index is forgotten.                                         *)
Downgrade_KeepsIndex(m) ==
    /\ regime = "downgrades" /\ MayBegin(m) /\ applied
    /\ Goto(m, "remove")
    /\ UNCHANGED <<regime, index, column, applied, ddl, client, faults>>

(* Alembic runs the upgrade when the revision is not recorded.             *)
Upgrade(m) ==
    /\ MayBegin(m) /\ ~applied
    /\ Goto(m, "inspect")
    /\ UNCHANGED <<regime, index, column, applied, ddl, client, faults>>

(* Mutant: whatever is there is made anew.                                 *)
IndexAction_ReplaceAll ==
    IF index = "absent" THEN "create" ELSE "replace"

(* Mutant: an index of that name is taken for the finished one.            *)
IndexAction_ByName ==
    IF index = "absent" THEN "create" ELSE "column"

(* Mutant: an unfinished index is created without dropping it first.       *)
IndexAction_NoReplace ==
    CASE index \in {"absent", "invalid"} -> "create"
      [] index = "exact" -> "column"
      [] index = "conflicting" -> "failed"

(* Mutant: the expected index ends the upgrade.                            *)
IndexAction_Done ==
    CASE index = "absent" -> "create"
      [] index = "invalid" -> "replace"
      [] index = "exact" -> "reuse"
      [] index = "conflicting" -> "failed"

(* _postgresql_index_action: a missing index is created, an unfinished one *)
(* replaced, the expected one reused, and any other one refused.           *)
IndexAction ==
    CASE index = "absent" -> "create"
      [] index = "invalid" -> "replace"
      [] index = "exact" -> "column"
      [] index = "conflicting" -> "failed"

Inspect(m) ==
    /\ pc[m] = "inspect"
    /\ Goto(m, IndexAction)
    /\ UNCHANGED <<regime, index, column, applied, ddl, client, faults>>

(* The server runs one concurrent index statement on the table at a time.  *)
Execute(m, statement) ==
    /\ ddl = "none"
    /\ ddl' = statement
    /\ client' = m
    /\ index' = "invalid"
    /\ UNCHANGED <<regime, column, applied, pc, faults>>

Waiting(m) == ddl # "none" /\ client = m

(* The index is gone, or there again, since it was inspected.              *)
StatementRefused(m) ==
    /\ ddl = "none"
    /\ \/ pc[m] \in {"replace", "drop"} /\ index = "absent"
       \/ pc[m] = "create" /\ index # "absent"
    /\ Goto(m, "failed")
    /\ UNCHANGED <<regime, index, column, applied, ddl, client, faults>>

DropIndex(m) ==
    /\ pc[m] \in {"replace", "drop"} /\ index # "absent"
    /\ Execute(m, "dropping")

CreateIndex(m) ==
    /\ pc[m] = "create" /\ index = "absent"
    /\ Execute(m, "creating")

StatementOver == ddl # "none" /\ ddl' = "none" /\ client' = Nobody

(* The client, if there still is one, goes on with what comes next.        *)
AfterStatement(place) ==
    CASE place = "replace" -> "create"
      [] place = "create" -> "column"
      [] OTHER -> "remove"

StatementEnds ==
    /\ StatementOver
    /\ index' = IF ddl = "creating" THEN "exact" ELSE "absent"
    /\ pc' = [m \in Migrators |-> IF m = client THEN AfterStatement(pc[m]) ELSE pc[m]]
    /\ UNCHANGED <<regime, column, applied, faults>>

(* It fails, leaving an invalid index, and the client with it.             *)
StatementFails ==
    /\ StatementOver /\ Fault
    /\ pc' = [m \in Migrators |-> IF m = client THEN "failed" ELSE pc[m]]
    /\ UNCHANGED <<regime, index, column, applied>>
-----------------------------------------------------------------------------
(* The column is added in the transaction that is committed with the       *)
(* revision; adding it waits for another transaction that has done so.     *)
AddColumn(m) ==
    /\ pc[m] = "column" /\ \A n \in Migrators : pc[n] \notin {"commit", "remove"}
    /\ Goto(m, IF column THEN "failed" ELSE "commit")
    /\ UNCHANGED <<regime, index, column, applied, ddl, client, faults>>

Commit(m) ==
    /\ pc[m] = "commit"
    /\ column' = TRUE
    /\ applied' = TRUE
    /\ Goto(m, "idle")
    /\ UNCHANGED <<regime, index, ddl, client, faults>>

(* This or a later migration of the same transaction fails: rolled back.   *)
RollBack(m) ==
    /\ pc[m] \in {"inspect", "column", "commit", "remove"} /\ Fault
    /\ Goto(m, "failed")
    /\ UNCHANGED <<regime, index, column, applied, ddl, client>>

(* Downgrading drops the index on its own as well, and removes the column  *)
(* and the revision in a transaction.                                      *)
Downgrade(m) ==
    /\ regime = "downgrades" /\ MayBegin(m) /\ applied
    /\ Goto(m, "drop")
    /\ UNCHANGED <<regime, index, column, applied, ddl, client, faults>>

RemoveColumn(m) ==
    /\ pc[m] = "remove" /\ \A n \in Migrators : pc[n] # "commit"
    /\ column' = FALSE
    /\ applied' = FALSE
    /\ Goto(m, "idle")
    /\ UNCHANGED <<regime, index, ddl, client, faults>>

(* The process is killed: its transaction is rolled back, its concurrent   *)
(* statement goes on.                                                      *)
Kill(m) ==
    /\ Active(m) /\ Fault
    /\ Goto(m, "failed")
    /\ client' = IF client = m THEN Nobody ELSE client
    /\ UNCHANGED <<regime, index, column, applied, ddl>>
-----------------------------------------------------------------------------
(* What a migrator does by itself, being run again until it succeeds.      *)
MigratorStep(m) ==
    \/ Upgrade(m) \/ Inspect(m) \/ StatementRefused(m)
    \/ ~Waiting(m) /\ (DropIndex(m) \/ CreateIndex(m))
    \/ AddColumn(m) \/ Commit(m)

DowngradeStep(m) == Downgrade(m) \/ RemoveColumn(m)

MigrationNext ==
    \/ \E m \in Migrators :
          MigratorStep(m) \/ DowngradeStep(m) \/ RollBack(m) \/ Kill(m)
    \/ StatementEnds \/ StatementFails

MigrationSpec == MigrationInit /\ [][MigrationNext]_migrationVars

(* The migrators are run again until the revision is recorded, and the     *)
(* server ends what it executes.                                           *)
FairMigrationSpec ==
    /\ MigrationSpec
    /\ \A m \in Migrators : WF_migrationVars(MigratorStep(m) \/ DowngradeStep(m))
    /\ WF_migrationVars(StatementEnds)
-----------------------------------------------------------------------------
(* Recording the revision means that its work is done: with the column     *)
(* always; with a valid index of the expected definition at any moment     *)
(* when upgrades are serialised, whatever failure, kill, retry or          *)
(* statement left running there is; and in any regime, if nothing fails    *)
(* and nobody is killed, by the time every migrator has ended: before      *)
(* that, one may be replacing the index another has just built.            *)
RecordedMeansUsable ==
    /\ applied <=> column
    /\ regime = "serial" => (applied => index = "exact")
    /\ faults = 0 /\ applied /\ (\A m \in Migrators : ~Active(m)) => index = "exact"

(* The upgrade fails closed: a valid index with another definition is not  *)
(* touched, whatever state it was in when the migrator looked.             *)
ConflictingKept == [][index = "conflicting" => index' = "conflicting"]_migrationVars

(* A downgrade that removes the revision has removed the index before: a   *)
(* later upgrade does not find a finished index of an older state.         *)
DowngradeLeavesNothing == [][applied /\ ~applied' => index = "absent"]_migrationVars

(* Retrying converges: unless a conflicting index is in the way, the       *)
(* revision is recorded once the faults are over.                          *)
UpgradeConverges == index # "conflicting" ~> applied

(* The same of downgrading, as the README (lines 15-16) calls the whole    *)
(* migration retry-safe: a downgrade that was begun ends.                  *)
DowngradeConverges ==
    \A m \in Migrators : pc[m] \in Downgrading ~> ~applied
=============================================================================
