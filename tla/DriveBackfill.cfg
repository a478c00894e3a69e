SPECIFICATION SharesSpec
CONSTANTS
    Owner = o
    Friends = {u1}
    Clients = {w1}
    DriveDocs = {x1}
    NoShare = NoShare
    MaxAdvances = 3
INVARIANT WrapsFitEpochs
CHECK_DEADLOCK FALSE
