SPECIFICATION Spec
CONSTANTS
    Threads = {t1, t2, t3, t4}
    pool_size = 3
CHECK_DEADLOCK FALSE
INVARIANTS ListIntact ObjectIntact
PROPERTY Implements
