SPECIFICATION ServerSpec
CONSTANTS
    Workers = {w1}
    MainThread = main
    None = None
    Clients = {c1, c2}
    NoClient = NoClient
    Fds = {1, 2}
    Listener = Listener
    MAX_BUFFER = 2
    MaxBytes = 2
    LetterA = {1}
    OneByte = {c2}
    RunLimit = 1
    JobsPerFd = 2
    Jobs <- FdJobs
INVARIANTS NoLostEdge BytesOnce
 
CHECK_DEADLOCK FALSE
