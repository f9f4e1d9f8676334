SPECIFICATION FairSpec
CONSTANTS
    Workers = {w1, w2, w3}
    Jobs = {j1, j2, j3}
    None = None
CHECK_DEADLOCK FALSE
INVARIANTS RunOnce SomeoneAwake OneExit
PROPERTY Drains
