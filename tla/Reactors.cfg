SPECIFICATION ReactorsSpec
CONSTANTS
    Clients = {c1, c2}
    NoClient = NoClient
    Fds = {1, 2}
    Listener = Listener
    BUFFER_LENGTH = 2
    MaxBytes = 3
    BufferLength = 2
    UringBytes = 2
INVARIANTS Echoes Requests NoBlockingCall
PROPERTIES EveryoneAnswered Closed
CHECK_DEADLOCK FALSE
