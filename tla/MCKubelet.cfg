SPECIFICATION Spec
CONSTANTS
    NoObject = NoObject
    Refs <- MCRefs
    Containers <- MCContainers
    Specs <- MCSpecs
    MaxTerminations = 3
    MaxLag = 1
INVARIANTS
    OomWasAKill
    KubeletKillIsNoMystery
    OnlyCurrentTerminationsExplainNotReady
    CurrentTerminationIsDown
    OomLoopIsExplained
CHECK_DEADLOCK FALSE
