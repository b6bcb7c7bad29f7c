CONSTANTS
    HasMigrator = TRUE
    MaxRetries = 3
    MaxFaults = 2
    MaxAdminOps = 1
SPECIFICATION FairLoopSpec
INVARIANTS LoopTypeOK CompletionHonest RetryBudget RetryDeletesFailed
PROPERTIES EvidenceKept MigrationDecided OutcomeReported
