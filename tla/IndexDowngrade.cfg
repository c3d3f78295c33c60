\* Upgrades and downgrades, one fault.
CONSTANTS
    Migrators = {m1}
    Nobody = Nobody
    Regimes = {"downgrades"}
    MaxFaults = 1
SPECIFICATION FairMigrationSpec
PROPERTIES
    DowngradeConverges
CHECK_DEADLOCK FALSE
