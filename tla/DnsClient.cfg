SPECIFICATION Spec
CONSTANTS
    Requests = {1, 2, 3}
    Fds = {1, 2}
    Ports = {p, q}
    Nobody = Nobody
    MaxCopies = 1
    ASYNC_CLIENT_NUM = 2
INVARIANTS CalledOnce OwnAnswer
PROPERTY CallbackComes
CHECK_DEADLOCK FALSE
