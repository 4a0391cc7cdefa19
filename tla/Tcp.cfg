SPECIFICATION Spec
CONSTANTS
    SOCK_MAX = 3
    ACCEPT_SLOTS = 1
    STREAM_BYTES = 1
    TRIES = 2
    FD_MAX = 2
    Threads = {t1, t2}
    Clients = {}
    Servers = {v1}
    Port = 1
    Ephemeral <- MCEphemeral
    NULL = NULL
    MaxSockets = 1
    MaxIss = 1
    DataIn = 2
    DataOut = 1
SYMMETRY Alike
INVARIANTS
    StreamInOrder
    SentIsReceived
CHECK_DEADLOCK FALSE
