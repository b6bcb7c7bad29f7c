CONSTANTS
    HasMigrator = TRUE
    MaxRetries = 2
    MaxFaults = 1
    MaxAdminOps = 0
SPECIFICATION LoopSpec
INVARIANTS BudgetSurvivesRecreate
