CONSTANTS
    HasMigrator = TRUE
    MaxRetries = 1
    MaxFaults = 0
    MaxAdminOps = 0
    ConfigMaps <- NoPlatform
    OldVersion = "1.0"
    NewVersion = "2.0"
    Inherited = FALSE
    MaxUserOps = 0
    MaxConfigOps = 0
    MaxGhosts = 1
    MaxOutages = 1
SPECIFICATION FairSpec
PROPERTIES OutageReported UpgradeCompletes
