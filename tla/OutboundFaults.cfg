SPECIFICATION Spec
CONSTANTS
    j1 = j1  j2 = j2  w1 = w1  w2 = w2  alice = alice
    Jobs = {j1}
    Workers = {w1, w2}
    From <- MCFrom
    MaxAttempts = 2
    FreezeThreshold = 2
    BounceLimit = 1
    Prefetch = 2
    MXHosts = 1
    MaxCrashes = 1
    MaxShutdowns = 1
    MaxTimeouts = 1
    MaxOld = 1
    MaxFaults = 1
SYMMETRY MCSymmetry
INVARIANTS NothingForgotten BounceJustified BlobsOutliveRetries
CHECK_DEADLOCK FALSE
