CONSTANTS
    NumBlobs = 3
    Signed = {1, 3}
    Enforcing = {TRUE, FALSE}
    Rollback = FALSE
    ManualSync = TRUE
    FaultKinds = {{"net", "io", "crash", "power"}, {"net", "io", "crash", "dir"}}
    MaxStarts = 3
    MaxFaults = 2
SPECIFICATION FairSpec
INVARIANTS LiveIntact ServedSigned CacheIsServed TagNotNewer
PROPERTIES NoStepBack CatchesUp
CHECK_DEADLOCK FALSE
