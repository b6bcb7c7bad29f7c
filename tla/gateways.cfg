CONSTANTS
    Extensions <- OneExtension
    Gateways <- OneGateway
    Specs <- MCSpecs
    ListenerSets <- MCListenerSets
    MaxFaults = 1
    MaxEdits = 3
SPECIFICATION FairSpec
INVARIANTS DiscoveryTypeOK
PROPERTIES NeverDropped GatewaysReported WatchesSuffice
