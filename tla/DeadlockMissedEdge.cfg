SPECIFICATION FairSpec
CONSTANTS
    N = 3
    Threads <- MCThreads
    Locks <- MCThreads
    Program <- MCProgram
INVARIANT EdgeToHolder
