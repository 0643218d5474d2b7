SPECIFICATION FairSpec
CONSTANTS
    NoObject = NoObject
    Refs <- MCRefs
    Shape <- MCShape
    InitialClusters <- MCInitialClusters
    Volatile <- MCVolatile
    MaxRevision = 4
    Foci <- MCFoci
    MaxFailures = 1
INVARIANTS
    ExactOwners
    StableMeansUndisturbed
    NoForeignEvents
PROPERTIES
    InspectionEnds
    PromiseKept
    OnlyLatestRun
CHECK_DEADLOCK FALSE
