CONSTANTS
    HasMigrator = FALSE
    MaxRetries = 1
    MaxFaults = 1
    MaxAdminOps = 0
    ConfigMaps <- MCConfigMaps
    OldVersion = "1.0"
    NewVersion = "2.0"
    Inherited = TRUE
    MaxUserOps = 0
    MaxConfigOps = 1
    MaxGhosts = 1
    MaxOutages = 1
SPECIFICATION FairSpec
INVARIANTS TypeOK ConversionChecked
PROPERTIES ImplementsHandshake DurableUnlessStale UpgradeCompletes
