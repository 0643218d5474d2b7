SPECIFICATION Spec
CONSTANTS
    MaxJobs = 3
    Stamps = {1, 2, 3}
INVARIANTS
    ScanFindsLatestRun
CHECK_DEADLOCK FALSE
