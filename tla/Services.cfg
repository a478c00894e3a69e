SPECIFICATION ServicesSpec
CONSTANTS
    Null = Null  Gone = Gone
    Callers = {c1, c2, c3}
    Keyless = {c3}
    QueueSize = 2
    MaxBatch = 2
    Users = {u1}
    Grace = 1
    Lapse = 1
    Dormant = 1
    ListLimit = 1
    MaxNow = 4
    MaxCalls = 4
    MaxFaults = 1
    MaxMisses = 2
    MaxPings = 4
 
PROPERTIES SubmitsReturn DeletionsCarriedOut DeadBrokerNoticed
CHECK_DEADLOCK FALSE
