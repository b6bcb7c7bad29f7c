CONSTANTS
    HasMigrator = TRUE
    MaxRetries = 1
    MaxFaults = 1
    MaxAdminOps = 0
    ConfigMaps <- NoPlatform
    OldVersion = "1.0"
    NewVersion = "1.0"
    Inherited = TRUE
    MaxUserOps = 1
    MaxConfigOps = 0
    MaxGhosts = 1
    MaxOutages = 0
SPECIFICATION FairSpec
PROPERTIES RemovalCompletes UninstallClean
