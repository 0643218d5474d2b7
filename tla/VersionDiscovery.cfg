SPECIFICATION Spec
INVARIANTS
    VersionIsDiscovered
PROPERTIES
    CollectorReturns
    ProbeNeverStuck
CHECK_DEADLOCK FALSE
