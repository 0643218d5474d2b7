SPECIFICATION Spec
CONSTANTS
    NoObject = NoObject
    Refs <- MCRefs
    Shape <- MCShape
    InitialClusters <- MCInitialClusters
    Volatile <- MCVolatile
    MaxRevision = 3
    Foci <- MCFoci
    MaxFailures = 1
INVARIANTS
    TypeOK
    MissingIsDefinite
    NoSilentGap
    EvaluatedIsCurrent
    DeadlineBlocksHealth
    HandsOverCollectedGraph
    NoHpaPassedOver
CHECK_DEADLOCK FALSE
