CONSTANTS
    Objects = {1, 2, 3}
    PageLimit = 1
    MaxRestarts = 3
    MaxPages = 3
    MaxChanges = 3
SPECIFICATION FairSpec
INVARIANTS BoundedWork
PROPERTIES ImplementsGate GateOpens
CHECK_DEADLOCK FALSE
