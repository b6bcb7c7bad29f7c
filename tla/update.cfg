CONSTANTS
    N = 3
    ModuleFiles = {"go.mod", "go.sum"}
    MaxFaults = 3
    MaxManifests = 3
    Commits <- MCCommits
    Versions <- MCVersions
    VersionCommit <- MCVersionCommit
    Digests <- MCDigests
    Content <- MCContent
    OldTrees <- MCOldTrees
SPECIFICATION FairSync
INVARIANTS UpdateTypeOK OriginalKept AllOrNothing ResolveTypeOK ImageFromSource Synchronized VerifiedIsProduct
PROPERTY ResolveEnds
CHECK_DEADLOCK FALSE
