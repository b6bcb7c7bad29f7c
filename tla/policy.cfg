CONSTANTS
    Policies <- MCPolicies
    UsableCiphers = {"aes", "chacha"}
    UsableGroups = {"x25519"}
    Settings <- MCSettings
    Steps = 3
    MaxEdits = 2
    MaxFaults = 3
SPECIFICATION FairSpec
INVARIANTS PolicyTypeOK FailClosed WebhooksTrusted ManagerCoherent
PROPERTIES ListenerFollows OperandFollows
CHECK_DEADLOCK FALSE
