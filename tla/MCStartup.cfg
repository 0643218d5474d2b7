SPECIFICATION Spec
CONSTANTS
    NoObject = NoObject
    Refs <- MCRefs
    Foci <- MCFoci
    MaxLag = 1
    MaxFailures = 1
INVARIANTS
    NothingInferredFromGaps
    PendingImpactMatchesLink
    DelayedBindingIsNoOutage
    SoleObstacleIsRoot
    ConfigErrorIsExplained
CHECK_DEADLOCK FALSE
