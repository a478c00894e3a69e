SPECIFICATION Spec
CONSTANTS
    j1 = j1  j2 = j2  w1 = w1  w2 = w2  alice = alice
    Jobs = {j1}
    Workers = {w1}
    From <- MCFrom
    MaxAttempts = 2
    FreezeThreshold = 2
    BounceLimit = 1
    Prefetch = 2
    MXHosts = 1
    MaxCrashes = 0
    MaxShutdowns = 1
    MaxTimeouts = 0
    MaxOld = 0
    MaxFaults = 0
INVARIANTS DrainLosesNothing
CHECK_DEADLOCK FALSE
