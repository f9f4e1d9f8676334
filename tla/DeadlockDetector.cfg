SPECIFICATION DetectorsSpec
CONSTANTS
    N = 3
    MAX = 6
    Threads <- MCThreads
    Locks <- MCThreads
    Program <- MCProgram
INVARIANTS EdgesHaveVertices NoFalseAlarm RowsMatch
PROPERTY Reported
