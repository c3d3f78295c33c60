\* Two migrators, in each regime, three faults.
CONSTANTS
    Migrators = {m1, m2}
    Nobody = Nobody
    Regimes = {"serial", "concurrent", "downgrades"}
    MaxFaults = 3
SPECIFICATION FairMigrationSpec
INVARIANTS
    MigrationTypeOK
    RecordedMeansUsable
PROPERTIES
    ConflictingKept
    DowngradeLeavesNothing
    UpgradeConverges
CHECK_DEADLOCK FALSE
