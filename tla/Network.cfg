SPECIFICATION NetworkSpec
CONSTANTS
    d1 = d1
    d2 = d2
    srv1 = srv1
    srv2 = srv2
    hostA = hostA
    hostB = hostB
    SOCK_MAX = 3
    ACCEPT_SLOTS = 1
    STREAM_BYTES = 1
    TRIES = 2
    FD_MAX = 2
    Threads = {t1}
    Clients = {c1, c2}
    Servers = {}
    Port = 1
    Ephemeral <- MCEphemeral
    NULL = NULL
    MaxSockets = 1
    MaxIss = 2
    DataIn = 0
    DataOut = 0
    DSOCK_MAX = 2
    RX_SLOTS = 2
    Callers <- MCCallers
    NoCaller = NoCaller
    Wanted = {7}
    LowPort = 7
    HighPort = 9
    Remotes <- MCRemotes
    Friends <- MCFriends
    MaxPackets = 3
    MaxCalls = 3
    DhcpServers <- MCServers
    Static = Static
    NoAddress = NoAddress
    DHCP_RETRIES = 2
    BATCH = 2
    MaxRenews = 2
    Hosts <- MCHosts
    NoHost = NoHost
    RXQ_SIZE = 2
    TXQ_SIZE = 4
    RX_BUFS = 2
    ARP_CACHE_MAX = 1
    MaxFrames = 2
    MaxSends = 2
SYMMETRY Alike
INVARIANTS
    ConnectionsSound DatagramsSound LeaseIsAcked 
CHECK_DEADLOCK FALSE
