SPECIFICATION Spec
CONSTANTS
    NoObject = NoObject
    Refs <- MCRefs
    Rules <- MCRules
    Types <- MCTypes
    Emissions <- MCEmissions
    Graphs <- MCGraphs
    Minors = {33, 34, 37, 38}
INVARIANTS
    HealthyIsEarned
    DegradedIsProved
    WholeUnlessPartial
CHECK_DEADLOCK FALSE
