SPECIFICATION Spec
CONSTANTS
    NoObject = NoObject
    Refs <- MCRefs
    Foci <- MCFoci
    Declaring = {1}
    Histories <- MCHistories
    MaxEdits = 2
    MaxLag = 3
INVARIANTS
    BlockerRunsCurrentTemplate
    OlderPodsExplainUnavailability
    EverySymptomHasARoot
    ChainIsLongest
    TypedPathIsWalk
    BlockersAreNotCollapsed
    UnroutedPodIsExplained
CHECK_DEADLOCK FALSE
