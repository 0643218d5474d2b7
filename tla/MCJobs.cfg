SPECIFICATION Spec
CONSTANTS
    NoObject = NoObject
    Refs <- MCRefs
    Foci <- MCFoci
    Limits = {0, 1}
    MaxPods = 3
    MaxLag = 2
INVARIANTS
    LatestRunFailureIsExplained
    CulpritIsBlamed
    OnlySpentBudgetIsBlamed
CHECK_DEADLOCK FALSE
