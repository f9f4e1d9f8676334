SPECIFICATION RedisSpec
CONSTANTS
    Clients = {c1, c2}
    NoClient = NoClient
    Fds = {1, 2}
    Listener = Listener
    MAX_CONN = 7
    BufferSize = 2
    MaxBytes = 3
    Served = {0, 4}
INVARIANTS EventsSound Survives
CHECK_DEADLOCK FALSE
