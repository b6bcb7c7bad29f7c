CONSTANTS
    Policies <- MCPolicies
    UsableCiphers = {"aes", "chacha"}
    UsableGroups = {"x25519"}
    Settings <- MCSettings
    Steps = 3
    MaxEdits = 0
    MaxFaults = 0
SPECIFICATION Spec
INVARIANTS ScrapesTrusted
CHECK_DEADLOCK FALSE
