SPECIFICATION RaceSpec
CONSTANTS
    p1 = p1  p2 = p2  t1 = t1  t2 = t2  h1 = h1  h2 = h2
    Primaries = {p1}
    Tokens = {t1, t2}
    Handlers = {h1, h2}
    MaxFaults = 0
    MaxCrashes = 0
    MaxKeyLoss = 0
INVARIANTS NoPartialState
CHECK_DEADLOCK FALSE
