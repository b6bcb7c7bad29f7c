CONSTANTS
    HasMigrator = TRUE
    MaxRetries = 1
    MaxFaults = 1
    MaxAdminOps = 0
    ConfigMaps <- NoPlatform
    OldVersion = "1.0"
    NewVersion = "1.0"
    Inherited = FALSE
    MaxUserOps = 2
    MaxConfigOps = 0
    MaxGhosts = 0
    MaxOutages = 0
SPECIFICATION Spec
INVARIANTS RemovedMeansGone ReadyMeansManaged RestsWhenDone
