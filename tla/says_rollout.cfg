CONSTANTS
    HasMigrator = FALSE
    MaxRetries = 1
    MaxFaults = 0
    MaxAdminOps = 0
    ConfigMaps <- NoPlatform
    OldVersion = "1.0"
    NewVersion = "2.0"
    Inherited = TRUE
    MaxUserOps = 0
    MaxConfigOps = 0
    MaxGhosts = 0
    MaxOutages = 0
SPECIFICATION Spec
PROPERTIES RecordedAfterRollout
