------------------------- MODULE IndexMigrationProofs -------------------------
(***************************************************************************)
(* The migration for any set of migrators and any number of failures and    *)
(* kills: upgrades that run one at a time, then conflicting indexes in any  *)
(* regime, then downgrades, then what the revision stands for in every      *)
(* regime, and last how many steps serialised upgrades can still take.      *)
(*                                                                          *)
(* RecordedMeansUsable is not inductive.  One migrator at a time: a         *)
(* statement left behind by a killed migrator could still change the index. *)
(* The invariant (Agreement) adds that an index under such a statement is   *)
(* invalid, so that a migrator that has found or made the exact index knows *)
(* that nothing is in execution, and that no other migrator is there to     *)
(* start anything.  Side by side: the column goes with the revision         *)
(* (Recording), and where nothing has failed somebody is still there to     *)
(* finish an index that is not as it should be (Settling).                  *)
(***************************************************************************)
EXTENDS IndexMigration, TLAPS

(* The restriction to serialised upgrades, without downgrades.             *)
SerialUpgrades == regime = "serial"

(* What the revision stands for.                                           *)
Usable == applied => index = "exact" /\ column

(* One at a time, as the caller of the migrations has it.                  *)
Serial == \A m, n \in Migrators : Active(m) /\ Active(n) => m = n

(* What a statement in execution says of the index.                        *)
StatementHidesIndex == ddl # "none" => index = "invalid" /\ ~applied

(* What the place of a migrator says of the rest.                          *)
MigratorKnows(m) ==
    /\ Active(m) => pc[m] \in Upgrading /\ ~applied
    /\ pc[m] \in {"column", "commit"} => index = "exact" /\ ddl = "none"
    /\ Waiting(m) => pc[m] = IF ddl = "creating" THEN "create" ELSE "replace"

Agreement ==
    /\ Usable
    /\ Serial
    /\ StatementHidesIndex
    /\ \A m \in Migrators : MigratorKnows(m)

(* The inductive invariant.                                                *)
MigrationIInv == MigrationTypeOK /\ Agreement

(* Nobody is active and nothing is recorded initially.                     *)
LEMMA MigrationInitIInv == MigrationInit => MigrationIInv
<1> SUFFICES ASSUME MigrationInit PROVE MigrationIInv
  OBVIOUS
<1>1. MigrationTypeOK
  <2>1. column \in BOOLEAN /\ applied \in BOOLEAN
    BY DEF MigrationInit
  <2>2. faults \in 0 .. MaxFaults
    BY MigrationAssumption DEF MigrationInit
  <2>3. pc \in [Migrators -> {"idle", "failed"} \cup Upgrading \cup Downgrading]
    BY DEF MigrationInit
  <2> QED BY <2>1, <2>2, <2>3 DEF MigrationInit, MigrationTypeOK
<1>2. Usable /\ StatementHidesIndex
  BY DEF MigrationInit, Usable, StatementHidesIndex
<1>3. \A m \in Migrators : ~Active(m) /\ MigratorKnows(m)
  BY DEF MigrationInit, Active, Waiting, MigratorKnows, Upgrading, Downgrading
<1> QED BY <1>1, <1>2, <1>3 DEF MigrationIInv, Agreement, Serial

(* A migrator that moves to another place, being the active one or there   *)
(* being none, leaves the migrators serial.                                *)
LEMMA SerialKept ==
    ASSUME MigrationTypeOK, Serial, NEW m \in Migrators, NEW point,
           Active(m) \/ (\A n \in Migrators : ~Active(n)),
           pc' = [pc EXCEPT ![m] = point]
    PROVE  Serial'
<1>1. \A n \in Migrators : n # m => (Active(n)' <=> Active(n))
  BY DEF MigrationTypeOK, Active
<1>2. \A n \in Migrators : n # m => ~Active(n)
  BY DEF Serial
<1> QED BY <1>1, <1>2 DEF Serial

(* Every step preserves the types.                                         *)
LEMMA MigrationTypePreserved ==
    MigrationTypeOK /\ [MigrationNext]_migrationVars => MigrationTypeOK'
<1> SUFFICES ASSUME MigrationTypeOK, [MigrationNext]_migrationVars
             PROVE  MigrationTypeOK'
  OBVIOUS
<1> USE MigrationAssumption DEF MigrationTypeOK, Upgrading, Downgrading, Goto, Fault
<1>1. ASSUME NEW m \in Migrators, MigratorStep(m) PROVE MigrationTypeOK'
  <2>1. CASE Upgrade(m) \/ Inspect(m)
    BY <2>1 DEF Upgrade, Inspect, IndexAction
  <2>2. CASE StatementRefused(m)
    BY <2>2 DEF StatementRefused
  <2>3. CASE DropIndex(m) \/ CreateIndex(m)
    BY <2>3 DEF DropIndex, CreateIndex, Execute
  <2>4. CASE AddColumn(m) \/ Commit(m)
    BY <2>4 DEF AddColumn, Commit
  <2> QED BY <1>1, <2>1, <2>2, <2>3, <2>4 DEF MigratorStep
<1>2. ASSUME NEW m \in Migrators, DowngradeStep(m) PROVE MigrationTypeOK'
  BY <1>2 DEF DowngradeStep, Downgrade, RemoveColumn
<1>3. ASSUME NEW m \in Migrators, RollBack(m) \/ Kill(m) PROVE MigrationTypeOK'
  BY <1>3 DEF RollBack, Kill
<1>4. CASE StatementEnds \/ StatementFails
  BY <1>4 DEF StatementEnds, StatementFails, StatementOver, AfterStatement
<1>5. CASE UNCHANGED migrationVars
  BY <1>5 DEF migrationVars
<1> QED BY <1>1, <1>2, <1>3, <1>4, <1>5 DEF MigrationNext
-----------------------------------------------------------------------------
(* A serialised upgrade keeps what each migrator knows.  The steps of a    *)
(* migrator change what only that migrator knows, because no other one is  *)
(* active; the end of a statement, what its client waits for.              *)
LEMMA MigrationIInvPreserved ==
    SerialUpgrades /\ MigrationIInv /\ [MigrationNext]_migrationVars => MigrationIInv'
<1> SUFFICES ASSUME SerialUpgrades, MigrationIInv, [MigrationNext]_migrationVars
             PROVE  MigrationIInv'
  OBVIOUS
<1>t. MigrationTypeOK /\ MigrationTypeOK'
  BY MigrationTypePreserved DEF MigrationIInv, Agreement
<1>a. ASSUME NEW m \in Migrators, Active(m)
      PROVE  \A n \in Migrators : n # m => ~Active(n)
  BY <1>a DEF MigrationIInv, Agreement, Serial
<1>1. ASSUME NEW m \in Migrators, MigratorStep(m) PROVE Agreement'
  <2> USE MigrationAssumption, <1>t DEF MigrationTypeOK, Goto
  <2>s. ASSUME NEW point, Active(m) \/ (\A n \in Migrators : ~Active(n)),
               pc' = [pc EXCEPT ![m] = point]
        PROVE  Serial'
    BY <2>s, SerialKept DEF MigrationIInv, Agreement
  <2>n. ASSUME NEW n \in Migrators, n # m,
               Active(m) \/ (\A k \in Migrators : ~Active(k)),
               pc'[n] = pc[n]
        PROVE  ~Active(n) /\ ~Active(n)'
    BY <2>n, <1>a DEF Active
  <2> USE DEF MigrationIInv, Agreement, MigratorKnows, StatementHidesIndex,
              Usable, Active, Waiting, Upgrading, Downgrading
  <2>1. CASE Upgrade(m)
    BY <2>1, <2>s, <2>n DEF Upgrade, MayBegin, SerialUpgrades
  <2>2. CASE Inspect(m)
    BY <2>2, <2>s, <2>n DEF Inspect, IndexAction
  <2>3. CASE StatementRefused(m)
    BY <2>3, <2>s, <2>n DEF StatementRefused
  <2>4. CASE DropIndex(m) \/ CreateIndex(m)
    BY <2>4, <2>n DEF DropIndex, CreateIndex, Execute, Serial
  <2>5. CASE AddColumn(m)
    BY <2>5, <2>s, <2>n DEF AddColumn
  <2>6. CASE Commit(m)
    BY <2>6, <2>s, <2>n DEF Commit
  <2> QED BY <1>1, <2>1, <2>2, <2>3, <2>4, <2>5, <2>6 DEF MigratorStep
<1>2. ASSUME NEW m \in Migrators, DowngradeStep(m) PROVE FALSE
  BY <1>2 DEF DowngradeStep, Downgrade, RemoveColumn, SerialUpgrades,
              MigrationIInv, Agreement, MigratorKnows, Active, Upgrading, Downgrading
<1>3. ASSUME NEW m \in Migrators, RollBack(m) \/ Kill(m) PROVE Agreement'
  <2>1. Active(m) /\ Goto(m, "failed") /\ UNCHANGED <<index, column, applied, ddl>>
    BY <1>3 DEF RollBack, Kill, Active, Upgrading, Downgrading
  <2>2. client' \in {client, Nobody}
    BY <1>3 DEF RollBack, Kill
  <2>3. Serial'
    BY <2>1, <1>t, SerialKept DEF MigrationIInv, Agreement, Goto
  <2>4. Agreement'
    <3>1. \A n \in Migrators : MigratorKnows(n)'
      <4> SUFFICES ASSUME NEW n \in Migrators PROVE MigratorKnows(n)'
        OBVIOUS
      <4>1. MigratorKnows(n)
        BY DEF MigrationIInv, Agreement
      <4>2. CASE n = m
        <5>1. pc'[m] = "failed"
          BY <2>1, <1>t DEF Goto, MigrationTypeOK
        <5>2. ~Waiting(m)'
          BY <1>3, <2>1, <1>t, <4>2, <4>1, MigrationAssumption
             DEF RollBack, Kill, Waiting, MigratorKnows
        <5> QED BY <4>2, <5>1, <5>2 DEF MigratorKnows, Active, Upgrading, Downgrading
      <4>3. CASE n # m
        BY <4>1, <4>3, <2>1, <2>2, <1>t, MigrationAssumption
           DEF MigratorKnows, Goto, MigrationTypeOK, Active, Waiting
      <4> QED BY <4>2, <4>3
    <3> QED BY <2>1, <2>3, <3>1 DEF MigrationIInv, Agreement, Usable, StatementHidesIndex
  <2> QED BY <2>4
<1>4. CASE StatementEnds \/ StatementFails
  <2> USE MigrationAssumption, <1>t
      DEF MigrationIInv, Agreement, MigrationTypeOK, MigratorKnows, StatementHidesIndex,
          Usable, Waiting
  <2>1. ASSUME NEW n \in Migrators
        PROVE  /\ Active(n)' => Active(n)
               /\ MigratorKnows(n)'
    <3>1. CASE n = client
      BY <1>4, <3>1 DEF StatementEnds, StatementFails, StatementOver,
                        AfterStatement, Active, Upgrading, Downgrading
    <3>2. CASE n # client /\ Active(n)
      BY <1>4, <3>2, <1>a DEF StatementEnds, StatementFails, StatementOver,
                              Active, Upgrading, Downgrading
    <3>3. CASE n # client /\ ~Active(n)
      BY <1>4, <3>3 DEF StatementEnds, StatementFails, StatementOver,
                        Active, Upgrading, Downgrading
    <3> QED BY <3>1, <3>2, <3>3
  <2>2. Serial'
    BY <2>1 DEF Serial
  <2>3. Usable' /\ StatementHidesIndex'
    BY <1>4 DEF StatementEnds, StatementFails, StatementOver
  <2> QED BY <2>1, <2>2, <2>3
<1>5. CASE UNCHANGED migrationVars
  <2> USE <1>5 DEF migrationVars, MigrationIInv, Agreement
  <2>1. \A n \in Migrators : (Active(n)' <=> Active(n)) /\ (Waiting(n)' <=> Waiting(n))
    BY DEF Active, Waiting
  <2>2. Serial' /\ \A n \in Migrators : MigratorKnows(n)'
    BY <2>1 DEF Serial, MigratorKnows
  <2>3. Usable' /\ StatementHidesIndex'
    BY DEF Usable, StatementHidesIndex
  <2> QED BY <1>t, <2>2, <2>3
<1> QED BY <1>t, <1>1, <1>2, <1>3, <1>4, <1>5 DEF MigrationNext, MigrationIInv

(* The caller does not change its ways in between.                         *)
LEMMA RegimeKept == [MigrationNext]_migrationVars => regime' = regime
BY DEF MigrationNext, migrationVars, MigratorStep, DowngradeStep, Upgrade, Inspect,
       StatementRefused, DropIndex, CreateIndex, Execute, AddColumn, Commit,
       Downgrade, RemoveColumn, RollBack, Kill, StatementEnds, StatementFails

(* The variables of the migration keep their types.                        *)
THEOREM MigrationTyping == MigrationSpec => []MigrationTypeOK
<1>1. MigrationInit => MigrationTypeOK
  BY MigrationInitIInv DEF MigrationIInv, Agreement
<1> QED BY <1>1, MigrationTypePreserved, PTL DEF MigrationSpec
-----------------------------------------------------------------------------
(* A conflicting index is the one that was there to begin with: nobody has *)
(* been past the inspection, and nothing is in execution.                  *)
NobodyPast ==
    index = "conflicting" =>
       /\ ddl = "none" /\ ~applied
       /\ \A m \in Migrators : pc[m] \in {"idle", "failed", "inspect"}

(* However many migrators upgrade side by side, none of them goes on.      *)
LEMMA ConflictingStep ==
    ASSUME MigrationTypeOK, NobodyPast, [MigrationNext]_migrationVars
    PROVE  NobodyPast' /\ (index = "conflicting" => index' = "conflicting")
<1> USE DEF MigrationTypeOK, NobodyPast, Goto
<1>1. ASSUME NEW m \in Migrators, MigratorStep(m)
      PROVE  NobodyPast' /\ (index = "conflicting" => index' = "conflicting")
  <2>1. CASE Upgrade(m) \/ Inspect(m)
    BY <2>1 DEF Upgrade, Inspect, IndexAction
  <2>2. CASE StatementRefused(m) \/ AddColumn(m) \/ Commit(m)
    BY <2>2 DEF StatementRefused, AddColumn, Commit
  <2>3. CASE DropIndex(m) \/ CreateIndex(m)
    BY <2>3 DEF DropIndex, CreateIndex, Execute
  <2> QED BY <1>1, <2>1, <2>2, <2>3 DEF MigratorStep
<1>2. ASSUME NEW m \in Migrators, DowngradeStep(m) \/ RollBack(m) \/ Kill(m)
      PROVE  NobodyPast' /\ (index = "conflicting" => index' = "conflicting")
  BY <1>2 DEF DowngradeStep, Downgrade, RemoveColumn, RollBack, Kill
<1>3. CASE StatementEnds \/ StatementFails
  BY <1>3 DEF StatementEnds, StatementFails, StatementOver
<1>4. CASE UNCHANGED migrationVars
  BY <1>4 DEF migrationVars
<1> QED BY <1>1, <1>2, <1>3, <1>4 DEF MigrationNext

(* A valid index with another definition is not touched, in any regime.    *)
THEOREM ConflictStays == MigrationSpec => ConflictingKept
<1>1. MigrationInit => MigrationTypeOK /\ NobodyPast
  BY MigrationInitIInv DEF MigrationIInv, MigrationInit, NobodyPast
<1>2. MigrationTypeOK /\ NobodyPast /\ [MigrationNext]_migrationVars =>
         MigrationTypeOK' /\ NobodyPast'
  BY MigrationTypePreserved, ConflictingStep
<1>3. MigrationTypeOK /\ NobodyPast /\ [MigrationNext]_migrationVars =>
         [index = "conflicting" => index' = "conflicting"]_migrationVars
  BY ConflictingStep
<1> QED BY <1>1, <1>2, <1>3, PTL DEF MigrationSpec, ConflictingKept
-----------------------------------------------------------------------------
(* What downgrades of serialised migrators rest on: an index is invalid    *)
(* while a statement is in execution, a migrator waits for its own, and    *)
(* one about to remove the column has seen its drop end.                   *)
DropKnows(m) ==
    /\ pc[m] = "remove" => index = "absent" /\ ddl = "none"
    /\ Waiting(m) => pc[m] \in IF ddl = "creating" THEN {"create"} ELSE {"replace", "drop"}

Downgradable ==
    /\ regime # "downgrades" => \A m \in Migrators : pc[m] \notin Downgrading
    /\ regime = "downgrades" => Serial /\ \A m \in Migrators : DropKnows(m)
    /\ \A m \in Migrators : Waiting(m) => pc[m] \in {"create", "replace", "drop"}

(* The step of a migrator, while the others are not active.                *)
LEMMA DowngradableKept ==
    ASSUME MigrationTypeOK, Downgradable, NEW m \in Migrators, NEW point,
           regime' = regime, pc' = [pc EXCEPT ![m] = point],
           regime = "downgrades" => Active(m) \/ \A n \in Migrators : ~Active(n),
           ddl' = ddl, client' \in {client, Nobody}, index' = index, ~Waiting(m)',
           point \in Downgrading => regime = "downgrades",
           point # "remove"
    PROVE  Downgradable'
<1> USE MigrationAssumption DEF MigrationTypeOK
<1>1. pc'[m] = point /\ \A n \in Migrators \ {m} : pc'[n] = pc[n] /\ (Waiting(n)' => Waiting(n))
  BY DEF Waiting
<1>2. regime = "downgrades" => Serial'
  BY SerialKept DEF Downgradable
<1>3. regime = "downgrades" => \A n \in Migrators : DropKnows(n)'
  BY <1>1 DEF Downgradable, DropKnows
<1> QED BY <1>1, <1>2, <1>3 DEF Downgradable

(* Every step keeps it, and takes the revision back only with the index.   *)
LEMMA DowngradableStep ==
    ASSUME MigrationTypeOK, Downgradable, [MigrationNext]_migrationVars
    PROVE  Downgradable' /\ (applied /\ ~applied' => index = "absent")
<1> USE MigrationAssumption DEF MigrationTypeOK, Goto, Upgrading, Downgrading
<1>0. ASSUME NEW m \in Migrators, pc[m] \notin {"create", "replace", "drop"}
      PROVE  ~Waiting(m)
  BY <1>0 DEF Downgradable
<1>1. ASSUME NEW m \in Migrators, MigratorStep(m)
      PROVE  Downgradable' /\ (applied => applied')
  <2>1. CASE Upgrade(m) \/ Inspect(m) \/ StatementRefused(m) \/ AddColumn(m) \/ Commit(m)
    <3>1. PICK point \in {"inspect", "replace", "create", "column", "commit", "failed", "idle"} :
             pc' = [pc EXCEPT ![m] = point]
      BY <2>1 DEF Upgrade, Inspect, IndexAction, StatementRefused, AddColumn, Commit
    <3>2. UNCHANGED <<regime, index, ddl, client>> /\ (applied => applied') /\ ~Waiting(m)'
      BY <1>0, <2>1 DEF Upgrade, MayBegin, Inspect, StatementRefused, AddColumn, Commit, Waiting
    <3>3. regime = "downgrades" => Active(m) \/ \A n \in Migrators : ~Active(n)
      BY <2>1 DEF Upgrade, MayBegin, Inspect, StatementRefused, AddColumn, Commit, Active
    <3> QED BY <3>1, <3>2, <3>3, DowngradableKept
  <2>2. CASE DropIndex(m) \/ CreateIndex(m)
    <3>1. /\ ddl = "none" /\ client' = m /\ UNCHANGED <<regime, applied, pc>>
          /\ \/ pc[m] \in {"replace", "drop"} /\ ddl' = "dropping"
             \/ pc[m] = "create" /\ ddl' = "creating"
      BY <2>2 DEF DropIndex, CreateIndex, Execute
    <3>2. \A n \in Migrators \ {m} : ~Waiting(n)'
      BY <3>1 DEF Waiting
    <3>3. regime = "downgrades" => \A n \in Migrators : pc[n] # "remove"
      BY <3>1 DEF Downgradable, Serial, Active
    <3>4. regime = "downgrades" => Serial'
      BY <3>1 DEF Downgradable, Serial, Active
    <3> QED BY <3>1, <3>2, <3>3, <3>4 DEF Downgradable, DropKnows
  <2> QED BY <1>1, <2>1, <2>2 DEF MigratorStep
<1>2. ASSUME NEW m \in Migrators, Downgrade(m) \/ RemoveColumn(m) \/ RollBack(m) \/ Kill(m)
      PROVE  Downgradable' /\ (applied /\ ~applied' => index = "absent")
  <2>1. PICK point \in {"drop", "idle", "failed"} : pc' = [pc EXCEPT ![m] = point]
    BY <1>2 DEF Downgrade, RemoveColumn, RollBack, Kill
  <2>2. /\ UNCHANGED <<regime, index, ddl>> /\ client' \in {client, Nobody} /\ ~Waiting(m)'
        /\ point = "drop" => regime = "downgrades"
    BY <1>0, <1>2, <2>1 DEF Downgrade, MayBegin, RemoveColumn, RollBack, Kill, Waiting
  <2>3. regime = "downgrades" => Active(m) \/ \A n \in Migrators : ~Active(n)
    BY <1>2 DEF Downgrade, MayBegin, RemoveColumn, RollBack, Kill, Active
  <2>4. Downgradable'
    BY <2>1, <2>2, <2>3, DowngradableKept
  <2>5. applied /\ ~applied' => index = "absent"
    BY <1>2 DEF Downgrade, RemoveColumn, RollBack, Kill, Downgradable, DropKnows
  <2> QED BY <2>4, <2>5
<1>3. CASE StatementEnds \/ StatementFails
  <2>1. /\ ddl # "none" /\ ddl' = "none" /\ UNCHANGED <<regime, applied>>
        /\ \A n \in Migrators : n # client => pc'[n] = pc[n]
    BY <1>3 DEF StatementEnds, StatementFails, StatementOver
  <2>2. \A n \in Migrators : ~Waiting(n)'
    BY <2>1 DEF Waiting
  <2>3. ASSUME NEW n \in Migrators
        PROVE  /\ Active(n)' => Active(n)
               /\ pc'[n] \in Downgrading => pc[n] \in Downgrading
               /\ pc'[n] = "remove" /\ regime = "downgrades" => index' = "absent"
    <3>1. CASE n # client
      BY <2>1, <3>1 DEF Active, Downgradable, DropKnows
    <3>2. CASE n = client
      <4>1. pc[n] \in {"create", "replace", "drop"}
        BY <2>1, <3>2 DEF Downgradable, Waiting
      <4>2. regime = "downgrades" => pc[n] \in IF ddl = "creating" THEN {"create"} ELSE {"replace", "drop"}
        BY <2>1, <3>2 DEF Downgradable, DropKnows, Waiting
      <4>3. CASE StatementEnds
        BY <3>2, <4>1, <4>2, <4>3 DEF StatementEnds, AfterStatement, Active
      <4>4. CASE StatementFails
        BY <3>2, <4>1, <4>4 DEF StatementFails, Active
      <4> QED BY <1>3, <4>3, <4>4
    <3> QED BY <3>1, <3>2
  <2>4. regime = "downgrades" => Serial'
    BY <2>1, <2>3 DEF Downgradable, Serial
  <2> QED BY <2>1, <2>2, <2>3, <2>4 DEF Downgradable, DropKnows
<1>4. CASE UNCHANGED migrationVars
  BY <1>4 DEF migrationVars, Downgradable, DropKnows, Waiting, Serial, Active
<1> QED BY <1>1, <1>2, <1>3, <1>4 DEF MigrationNext, DowngradeStep

(* A downgrade that takes the revision back has dropped the index before,  *)
(* whatever has failed and been repeated.                                  *)
THEOREM DowngradeDrops == MigrationSpec => DowngradeLeavesNothing
<1>1. MigrationInit => MigrationTypeOK /\ Downgradable
  <2>1. MigrationInit => Downgradable
    BY DEF MigrationInit, Downgradable, DropKnows, Waiting, Serial, Active, Upgrading, Downgrading
  <2> QED BY <2>1, MigrationInitIInv DEF MigrationIInv
<1>2. MigrationTypeOK /\ Downgradable /\ [MigrationNext]_migrationVars =>
         MigrationTypeOK' /\ Downgradable'
  BY MigrationTypePreserved, DowngradableStep
<1>3. MigrationTypeOK /\ Downgradable /\ [MigrationNext]_migrationVars =>
         [applied /\ ~applied' => index = "absent"]_migrationVars
  BY DowngradableStep
<1> QED BY <1>1, <1>2, <1>3, PTL DEF MigrationSpec, DowngradeLeavesNothing
-----------------------------------------------------------------------------
(* In any regime the column comes and goes with the revision: who is about *)
(* to commit has added it, and nobody else is about to.                    *)
Recording ==
    /\ applied <=> column
    /\ \A m \in Migrators : pc[m] = "commit" => ~column
    /\ \A m, n \in Migrators : pc[m] = "commit" /\ pc[n] = "commit" => m = n

(* The transactions with the column exclude each other.                    *)
LEMMA RecordingStep ==
    ASSUME MigrationTypeOK, Recording, [MigrationNext]_migrationVars
    PROVE  Recording'
<1> USE DEF MigrationTypeOK, Recording, Goto
<1>1. ASSUME NEW m \in Migrators, MigratorStep(m) PROVE Recording'
  <2>1. CASE Upgrade(m) \/ Inspect(m) \/ StatementRefused(m)
    BY <2>1 DEF Upgrade, Inspect, IndexAction, StatementRefused
  <2>2. CASE DropIndex(m) \/ CreateIndex(m)
    BY <2>2 DEF DropIndex, CreateIndex, Execute
  <2>3. CASE AddColumn(m)
    BY <2>3 DEF AddColumn
  <2>4. CASE Commit(m)
    BY <2>4 DEF Commit
  <2> QED BY <1>1, <2>1, <2>2, <2>3, <2>4 DEF MigratorStep
<1>2. ASSUME NEW m \in Migrators, DowngradeStep(m) \/ RollBack(m) \/ Kill(m)
      PROVE  Recording'
  BY <1>2 DEF DowngradeStep, Downgrade, RemoveColumn, RollBack, Kill
<1>3. CASE StatementEnds \/ StatementFails
  <2>1. UNCHANGED <<column, applied>>
    BY <1>3 DEF StatementEnds, StatementFails
  <2>2. \A n \in Migrators : pc'[n] = "commit" => pc[n] = "commit"
    BY <1>3 DEF StatementEnds, StatementFails, AfterStatement
  <2> QED BY <2>1, <2>2
<1>4. CASE UNCHANGED migrationVars
  BY <1>4 DEF migrationVars
<1> QED BY <1>1, <1>2, <1>3, <1>4 DEF MigrationNext

(* Where nothing fails, an index that is not as the revision promises it   *)
(* is being replaced by somebody who is still there: whoever has dropped   *)
(* the index of another migrator goes on to create it again.               *)
Settling ==
    /\ ddl # "none" =>
          /\ client \in Migrators
          /\ pc[client] \in IF ddl = "creating" THEN {"create"} ELSE {"replace", "drop"}
    /\ applied \/ (\E m \in Migrators : pc[m] \in {"column", "commit"}) =>
          \/ index = "exact" \/ ddl # "none"
          \/ index = "absent" /\ \E m \in Migrators : pc[m] \in {"create", "remove"}

(* Only a failure or a kill leaves an unfinished index to nobody.          *)
LEMMA SettlingStep ==
    ASSUME MigrationTypeOK, Downgradable, Settling, faults' = faults,
           [MigrationNext]_migrationVars
    PROVE  Settling'
<1> USE MigrationAssumption DEF MigrationTypeOK, Goto
<1>1. ASSUME NEW m \in Migrators, MigratorStep(m) PROVE Settling'
  <2> USE DEF Settling
  <2>1. CASE Upgrade(m)
    BY <2>1 DEF Upgrade, MayBegin
  <2>2. CASE Inspect(m)
    BY <2>2 DEF Inspect, IndexAction
  <2>3. CASE StatementRefused(m)
    BY <2>3 DEF StatementRefused
  <2>4. CASE DropIndex(m) \/ CreateIndex(m)
    BY <2>4 DEF DropIndex, CreateIndex, Execute
  <2>5. CASE AddColumn(m)
    BY <2>5 DEF AddColumn
  <2>6. CASE Commit(m)
    BY <2>6 DEF Commit
  <2> QED BY <1>1, <2>1, <2>2, <2>3, <2>4, <2>5, <2>6 DEF MigratorStep
<1>2. ASSUME NEW m \in Migrators, Downgrade(m) PROVE Settling'
  BY <1>2 DEF Downgrade, MayBegin, Settling
<1>3. ASSUME NEW m \in Migrators, RemoveColumn(m) PROVE Settling'
  <2>1. \A n \in Migrators \ {m} : ~Active(n)
    BY <1>3 DEF RemoveColumn, Downgradable, Serial, Active, Downgrading
  <2> QED BY <1>3, <2>1 DEF RemoveColumn, Settling, Active, Upgrading, Downgrading
<1>4. ASSUME NEW m \in Migrators, RollBack(m) \/ Kill(m) PROVE FALSE
  BY <1>4 DEF RollBack, Kill, Fault
<1>5. CASE StatementEnds
  BY <1>5 DEF StatementEnds, StatementOver, AfterStatement, Settling
<1>6. CASE StatementFails
  BY <1>6 DEF StatementFails, Fault
<1>7. CASE UNCHANGED migrationVars
  BY <1>7 DEF migrationVars, Settling
<1> QED BY <1>1, <1>2, <1>3, <1>4, <1>5, <1>6, <1>7 DEF MigrationNext, DowngradeStep

(* No step takes a fault back.                                             *)
LEMMA FaultsGrow ==
    ASSUME MigrationTypeOK, [MigrationNext]_migrationVars
    PROVE  faults' = faults \/ faults' = faults + 1
BY DEF MigrationNext, migrationVars, MigratorStep, DowngradeStep, Upgrade, Inspect,
       StatementRefused, DropIndex, CreateIndex, Execute, AddColumn, Commit,
       Downgrade, RemoveColumn, RollBack, Kill, StatementEnds, StatementFails, Fault

(* Recording the revision 4474872b0ee6 means that its work is done, as far *)
(* as the caller serialises the upgrades or nothing fails under them.      *)
THEOREM UpgradeSound == MigrationSpec => []RecordedMeansUsable
<1> DEFINE J == /\ MigrationTypeOK /\ Downgradable /\ Recording
                /\ SerialUpgrades => Agreement
                /\ faults = 0 => Settling
<1>1. MigrationInit => J
  <2> SUFFICES ASSUME MigrationInit PROVE J
    OBVIOUS
  <2>1. Downgradable
    BY DEF MigrationInit, Downgradable, DropKnows, Waiting, Serial, Active, Upgrading, Downgrading
  <2>2. Recording /\ Settling
    BY DEF MigrationInit, Recording, Settling
  <2> QED BY <2>1, <2>2, MigrationInitIInv DEF MigrationIInv
<1>2. J /\ [MigrationNext]_migrationVars => J'
  <2> SUFFICES ASSUME J, [MigrationNext]_migrationVars PROVE J'
    OBVIOUS
  <2>1. MigrationTypeOK' /\ Downgradable' /\ Recording'
    BY MigrationTypePreserved, DowngradableStep, RecordingStep
  <2>2. SerialUpgrades' => Agreement'
    BY MigrationIInvPreserved, RegimeKept DEF MigrationIInv, SerialUpgrades
  <2>3. faults' = 0 => faults = 0 /\ faults' = faults
    BY FaultsGrow, MigrationAssumption DEF MigrationTypeOK
  <2>4. faults' = 0 => Settling'
    BY <2>3, SettlingStep
  <2> QED BY <2>1, <2>2, <2>4
<1>3. J => RecordedMeansUsable
  <2> SUFFICES ASSUME J PROVE RecordedMeansUsable
    OBVIOUS
  <2>1. regime = "serial" => (applied => index = "exact")
    BY DEF Agreement, Usable, SerialUpgrades
  <2>2. ASSUME faults = 0, applied, \A m \in Migrators : ~Active(m) PROVE index = "exact"
    BY <2>2 DEF Settling, Active, Upgrading, Downgrading
  <2> QED BY <2>1, <2>2 DEF Recording, RecordedMeansUsable
<1> QED BY <1>1, <1>2, <1>3, PTL DEF MigrationSpec
-----------------------------------------------------------------------------
Waited == ddl # "none" /\ client # Nobody
Left == ddl # "none" /\ client = Nobody

(* Where the upgrade is: the place of the migrator that is at it.          *)
Place ==
    IF \E m \in Migrators : pc[m] \in Upgrading
    THEN CHOOSE point \in Upgrading : \E m \in Migrators : pc[m] = point
    ELSE "idle"

(* How many steps are ahead of serialised upgrades at most, until the      *)
(* revision is recorded, if nothing fails.  A migrator that comes to drop  *)
(* or create what is not, or is, there any more has to begin anew, and a   *)
(* statement nobody waits for can bring it there.                          *)
StepsFrom(place, there, waited) ==
    CASE place = "inspect" -> 8
      [] place = "replace" -> IF waited THEN 6 ELSE IF there # "absent" THEN 7 ELSE 10
      [] place = "create"  -> IF waited THEN 4 ELSE IF there = "absent" THEN 5 ELSE 10
      [] place = "column"  -> 3
      [] place = "commit"  -> 2
      [] OTHER             -> 9

StepsAhead ==
    IF applied THEN 0
    ELSE StepsFrom(Place, index, Waited) + IF Left THEN 10 ELSE 0

(* The steps ahead before and after a step by which one migrator moves.    *)
LEMMA OneMoves ==
    ASSUME MigrationTypeOK, MigrationTypeOK', NEW m \in Migrators,
           \A n \in Migrators \ {m} : pc[n] \in {"idle", "failed"} /\ pc'[n] = pc[n]
    PROVE  /\ Place = IF pc[m] \in Upgrading THEN pc[m] ELSE "idle"
           /\ Place' = IF pc'[m] \in Upgrading THEN pc'[m] ELSE "idle"
<1> USE DEF Place, Upgrading
<1>1. Place = IF pc[m] \in Upgrading THEN pc[m] ELSE "idle"
  OBVIOUS
<1>2. Place' = IF pc'[m] \in Upgrading THEN pc'[m] ELSE "idle"
  OBVIOUS
<1> QED BY <1>1, <1>2

(* A step of a migrator while nobody else upgrades.                        *)
LEMMA MigratorAhead ==
    ASSUME MigrationIInv, MigrationTypeOK', Recording, regime = "serial",
           index # "conflicting", NEW m \in Migrators, MigratorStep(m)
    PROVE  StepsAhead' < StepsAhead
<1> USE MigrationAssumption DEF MigrationTypeOK
<1>1. \A n \in Migrators \ {m} : pc[n] \in {"idle", "failed"} /\ pc'[n] = pc[n]
  <2>1. Active(m) \/ \A n \in Migrators : ~Active(n)
    BY DEF MigratorStep, Upgrade, MayBegin, Inspect, StatementRefused, DropIndex,
           CreateIndex, AddColumn, Commit, Active, Upgrading, Downgrading
  <2>2. \A n \in Migrators \ {m} : ~Active(n)
    BY <2>1 DEF MigrationIInv, Agreement, Serial
  <2>3. \A n \in Migrators \ {m} : pc'[n] = pc[n]
    BY DEF MigratorStep, Upgrade, Inspect, StatementRefused, DropIndex, CreateIndex,
           Execute, AddColumn, Commit, Goto, MigrationIInv
  <2> QED BY <2>2, <2>3 DEF MigrationIInv, Active
<1>2. /\ Place = IF pc[m] \in Upgrading THEN pc[m] ELSE "idle"
      /\ Place' = IF pc'[m] \in Upgrading THEN pc'[m] ELSE "idle"
  BY <1>1, OneMoves DEF MigrationIInv
<1>3. Active(m) => ~applied
  BY DEF MigrationIInv, Agreement, MigratorKnows
<1>4. CASE Upgrade(m)
  <2>1. /\ ~applied /\ pc[m] \in {"idle", "failed"} /\ pc'[m] = "inspect"
        /\ UNCHANGED <<index, applied, ddl, client>>
    BY <1>4 DEF Upgrade, MayBegin, Goto, MigrationIInv
  <2>2. Place = "idle" /\ Place' = "inspect" /\ (Left' <=> Left)
    BY <1>2, <2>1 DEF Upgrading, Left
  <2>3. StepsFrom(Place, index, Waited) = 9 /\ StepsFrom(Place', index', Waited') = 8
    BY <2>2 DEF StepsFrom
  <2> QED BY <2>1, <2>2, <2>3 DEF StepsAhead
<1>5. CASE Inspect(m)
  <2>1. /\ ~applied /\ pc[m] = "inspect" /\ UNCHANGED <<index, applied, ddl, client>>
        /\ ~Waiting(m)
    BY <1>3, <1>5 DEF Inspect, Active, Upgrading, MigrationIInv, Agreement, MigratorKnows
  <2>2. \/ index = "absent" /\ pc'[m] = "create"
        \/ index = "invalid" /\ pc'[m] = "replace"
        \/ index = "exact" /\ pc'[m] = "column"
    BY <1>5 DEF Inspect, IndexAction, Goto, MigrationIInv
  <2>3. Place = "inspect" /\ Place' = pc'[m] /\ (Left' <=> Left)
    BY <1>2, <2>1, <2>2 DEF Upgrading, Left
  <2>4. StepsFrom(Place, index, Waited) = 8
    BY <2>3 DEF StepsFrom
  <2>5. StepsFrom(Place', index', Waited') \in 3 .. 7
    <3>1. ~Waited'
      BY <1>1, <2>1 DEF Waited, Waiting, MigrationIInv, Agreement, MigratorKnows
    <3> QED BY <2>1, <2>2, <2>3, <3>1 DEF StepsFrom
  <2> QED BY <2>1, <2>3, <2>4, <2>5 DEF StepsAhead
<1>6. CASE StatementRefused(m)
  <2>1. /\ ~applied /\ ddl = "none" /\ pc'[m] = "failed"
        /\ \/ pc[m] = "replace" /\ index = "absent"
           \/ pc[m] = "create" /\ index # "absent"
        /\ UNCHANGED <<index, applied, ddl, client>>
    BY <1>3, <1>6 DEF StatementRefused, Goto, Active, Upgrading, Downgrading, MigrationIInv,
                      Agreement, MigratorKnows
  <2>2. Place = pc[m] /\ Place' = "idle" /\ (Left' <=> Left) /\ ~Waited
    BY <1>2, <2>1 DEF Upgrading, Left, Waited
  <2>3. StepsFrom(Place, index, Waited) = 10
    BY <2>1, <2>2 DEF StepsFrom
  <2>4. StepsFrom(Place', index', Waited') = 9
    BY <2>2 DEF StepsFrom
  <2> QED BY <2>1, <2>2, <2>3, <2>4 DEF StepsAhead
<1>7. CASE DropIndex(m) \/ CreateIndex(m)
  <2>1. /\ ~applied /\ ddl = "none" /\ ddl' # "none" /\ client' = m
        /\ \/ pc[m] = "replace" /\ index # "absent"
           \/ pc[m] = "create" /\ index = "absent"
        /\ UNCHANGED <<applied, pc>>
    BY <1>3, <1>7 DEF DropIndex, CreateIndex, Execute, Active, Upgrading, Downgrading,
                      MigrationIInv, Agreement, MigratorKnows
  <2>2. Place = pc[m] /\ Place' = pc[m] /\ ~Left /\ ~Left' /\ ~Waited /\ Waited'
    BY <1>2, <2>1 DEF Upgrading, Left, Waited
  <2>3. /\ StepsFrom(Place, index, Waited) = IF pc[m] = "replace" THEN 7 ELSE 5
        /\ StepsFrom(Place', index', Waited') = IF pc[m] = "replace" THEN 6 ELSE 4
    BY <2>1, <2>2 DEF StepsFrom
  <2>4. StepsFrom(Place', index', Waited') < StepsFrom(Place, index, Waited)
    BY <2>1, <2>3
  <2>5. StepsAhead = StepsFrom(Place, index, Waited) + 0
    BY <2>1, <2>2 DEF StepsAhead
  <2>6. StepsAhead' = StepsFrom(Place', index', Waited') + 0
    BY <2>1, <2>2 DEF StepsAhead
  <2> QED BY <2>1, <2>3, <2>4, <2>5, <2>6
<1>8. CASE AddColumn(m)
  <2>1. /\ ~applied /\ pc[m] = "column" /\ pc'[m] = "commit"
        /\ UNCHANGED <<index, applied, ddl, client>>
    BY <1>3, <1>8 DEF AddColumn, Goto, Active, Upgrading, Recording, MigrationIInv
  <2>2. Place = "column" /\ Place' = "commit" /\ (Left' <=> Left)
    BY <1>2, <2>1 DEF Upgrading, Left
  <2>3. StepsFrom(Place, index, Waited) = 3 /\ StepsFrom(Place', index', Waited') = 2
    BY <2>2 DEF StepsFrom
  <2> QED BY <2>1, <2>2, <2>3 DEF StepsAhead
<1>9. CASE Commit(m)
  <2>1. ~applied /\ pc[m] = "commit" /\ applied'
    BY <1>3, <1>9 DEF Commit, Active, Upgrading
  <2>2. StepsFrom(Place, index, Waited) = 2
    BY <1>2, <2>1 DEF StepsFrom, Upgrading
  <2> QED BY <2>1, <2>2 DEF StepsAhead
<1> QED BY <1>4, <1>5, <1>6, <1>7, <1>8, <1>9 DEF MigratorStep

(* The end of a statement, whoever started it.                             *)
LEMMA StatementAhead ==
    ASSUME MigrationIInv, MigrationTypeOK', StatementEnds
    PROVE  StepsAhead' < StepsAhead
<1> USE MigrationAssumption DEF MigrationIInv, MigrationTypeOK
<1>1. /\ ddl # "none" /\ ddl' = "none" /\ index = "invalid" /\ ~applied /\ ~applied'
      /\ index' = IF ddl = "creating" THEN "exact" ELSE "absent"
  BY DEF StatementEnds, StatementOver, Agreement, StatementHidesIndex
<1>2. ~Left' /\ ~Waited' /\ (Left <=> client = Nobody) /\ (Waited <=> client # Nobody)
  BY <1>1 DEF Left, Waited
<1>3. CASE client = Nobody
  <2>1. StepsFrom(Place, index, Waited) \in 2 .. 10
    BY DEF StepsFrom
  <2>2. StepsFrom(Place', index', Waited') \in 2 .. 10
    BY DEF StepsFrom
  <2> QED BY <1>1, <1>2, <1>3, <2>1, <2>2 DEF StepsAhead
<1>4. CASE client # Nobody
  <2>1. client \in Migrators /\ Waiting(client)
    BY <1>1, <1>4 DEF Waiting
  <2>2. pc[client] = IF ddl = "creating" THEN "create" ELSE "replace"
    BY <2>1 DEF Agreement, MigratorKnows
  <2>3. pc'[client] = IF ddl = "creating" THEN "column" ELSE "create"
    <3>1. pc'[client] = AfterStatement(pc[client])
      BY <2>1 DEF StatementEnds
    <3>2. AfterStatement("create") = "column" /\ AfterStatement("replace") = "create"
      BY DEF AfterStatement
    <3> QED BY <2>2, <3>1, <3>2
  <2>4. \A n \in Migrators \ {client} : pc[n] \in {"idle", "failed"} /\ pc'[n] = pc[n]
    <3>1. \A n \in Migrators \ {client} : pc'[n] = pc[n]
      BY DEF StatementEnds
    <3>2. \A n \in Migrators \ {client} : ~Active(n)
      BY <2>1, <2>2 DEF Agreement, Serial, Active, Upgrading
    <3> QED BY <3>1, <3>2 DEF Active
  <2>5. /\ Place = IF ddl = "creating" THEN "create" ELSE "replace"
        /\ Place' = IF ddl = "creating" THEN "column" ELSE "create"
    BY <2>1, <2>2, <2>3, <2>4, OneMoves DEF Upgrading
  <2>6. /\ StepsFrom(Place, index, Waited) = IF ddl = "creating" THEN 4 ELSE 6
        /\ StepsFrom(Place', index', Waited') = IF ddl = "creating" THEN 3 ELSE 5
    BY <1>1, <1>2, <1>4, <2>5 DEF StepsFrom
  <2> QED BY <1>1, <1>2, <1>4, <2>6 DEF StepsAhead
<1> QED BY <1>3, <1>4

(* With the faults that may still come, all the steps there can be.        *)
AllStepsAhead == 21 * (MaxFaults - faults) + StepsAhead

(* Serialised upgrades come to an end by themselves, as long as no         *)
(* conflicting index is in the way: each step, of whichever migrator or of *)
(* the server, leaves fewer of them, and each fault is one of the faults   *)
(* that were to come.  Nothing is tried again without an end.              *)
THEOREM UpgradesGoForward ==
    MigrationSpec => [][regime = "serial" /\ index # "conflicting" =>
        AllStepsAhead \in Nat /\ AllStepsAhead' \in Nat /\ AllStepsAhead' < AllStepsAhead]_migrationVars
<1> DEFINE J == MigrationTypeOK /\ Recording /\ (SerialUpgrades => Agreement)
           Sooner == regime = "serial" /\ index # "conflicting" =>
               AllStepsAhead \in Nat /\ AllStepsAhead' \in Nat /\ AllStepsAhead' < AllStepsAhead
<1>1. MigrationInit => J
  <2>1. MigrationInit => Recording
    BY DEF MigrationInit, Recording
  <2> QED BY <2>1, MigrationInitIInv DEF MigrationIInv
<1>2. J /\ [MigrationNext]_migrationVars => J'
  BY MigrationTypePreserved, MigrationIInvPreserved, RecordingStep, RegimeKept
     DEF MigrationIInv, SerialUpgrades
<1>3. J /\ J' /\ MigrationNext => Sooner
  <2> SUFFICES ASSUME J, J', MigrationNext, regime = "serial", index # "conflicting"
               PROVE  /\ AllStepsAhead \in Nat /\ AllStepsAhead' \in Nat
                      /\ AllStepsAhead' < AllStepsAhead
    OBVIOUS
  <2>1. MigrationIInv /\ MigrationTypeOK'
    BY DEF MigrationIInv, SerialUpgrades
  <2>2. StepsAhead \in 0 .. 20 /\ StepsAhead' \in 0 .. 20
    <3>1. \A place, there : \A waited \in BOOLEAN : StepsFrom(place, there, waited) \in 2 .. 10
      BY DEF StepsFrom
    <3>2. Waited \in BOOLEAN /\ Waited' \in BOOLEAN
      BY DEF Waited
    <3> QED BY <3>1, <3>2 DEF StepsAhead
  <2>3. faults \in 0 .. MaxFaults /\ faults' \in 0 .. MaxFaults /\ MaxFaults \in Nat
    BY MigrationAssumption DEF MigrationTypeOK
  <2>4. \/ faults' = faults + 1
        \/ faults' = faults /\ StepsAhead' < StepsAhead
    <3>1. ASSUME NEW m \in Migrators, MigratorStep(m) PROVE faults' = faults
      BY <3>1 DEF MigratorStep, Upgrade, Inspect, StatementRefused, DropIndex, CreateIndex,
                  Execute, AddColumn, Commit
    <3>2. ASSUME NEW m \in Migrators, MigratorStep(m) PROVE StepsAhead' < StepsAhead
      BY <2>1, <3>2, MigratorAhead
    <3>3. ASSUME NEW m \in Migrators, DowngradeStep(m) PROVE FALSE
      BY <2>1, <3>3 DEF DowngradeStep, Downgrade, RemoveColumn, MigrationIInv, Agreement,
                        MigratorKnows, Active, Upgrading, Downgrading
    <3>4. ASSUME NEW m \in Migrators, RollBack(m) \/ Kill(m) PROVE faults' = faults + 1
      BY <3>4 DEF RollBack, Kill, Fault
    <3>5. CASE StatementEnds
      BY <2>1, <3>5, StatementAhead DEF StatementEnds
    <3>6. CASE StatementFails
      BY <3>6 DEF StatementFails, Fault
    <3> QED BY <3>1, <3>2, <3>3, <3>4, <3>5, <3>6 DEF MigrationNext
  <2>5. ASSUME NEW a \in 0 .. 20, NEW b \in 0 .. 20,
               NEW f \in 0 .. MaxFaults, NEW g \in 0 .. MaxFaults,
               g = f + 1 \/ (g = f /\ b < a)
        PROVE  /\ 21 * (MaxFaults - f) + a \in Nat /\ 21 * (MaxFaults - g) + b \in Nat
               /\ 21 * (MaxFaults - g) + b < 21 * (MaxFaults - f) + a
    BY <2>3, <2>5
  <2> HIDE DEF J
  <2> QED BY <2>2, <2>3, <2>4, <2>5 DEF AllStepsAhead
<1>4. J /\ J' /\ [MigrationNext]_migrationVars => [Sooner]_migrationVars
  BY <1>3
<1> QED BY <1>1, <1>2, <1>4, PTL DEF MigrationSpec
=============================================================================
