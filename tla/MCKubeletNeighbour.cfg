SPECIFICATION Spec
CONSTANTS
    NoObject = NoObject
    Refs <- MCRefs
    Containers <- MCContainers
    Specs <- MCSpecs
    MaxTerminations = 3
    MaxLag = 1
INVARIANT OomExplainsItsOwnContainer
CHECK_DEADLOCK FALSE
