SPECIFICATION Spec
CONSTANTS
    NoObject = NoObject
    Refs <- MCRefs
    Shape <- MCShape
    InitialClusters <- MCInitialClusters
    Volatile <- MCVolatile
    MaxRevision = 4
    Foci <- MCFoci
    MaxFailures = 0
INVARIANTS
    UIDDecidesOwnership
CHECK_DEADLOCK FALSE
