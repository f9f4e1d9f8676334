SPECIFICATION FairSpec
CONSTANTS
    Threads = {t1, t2, t3}
    NoThread = NoThread
    MAX_SPIN_COUNT = 2
INVARIANTS HolderCanUnlock OwnerHolds
PROPERTIES Implements Progress
