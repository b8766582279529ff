SPECIFICATION FairSpec
CONSTANTS
    Fd = {f1, f2}
    Gid = {c1, c2}
    None = None
    tunnel_fd = tunnel_fd
    timeout = 2
    Capacities = {1, 2}
    Pollers = {"epoll", "kqueue"}
    Failures = {"add", "ssl"}
INVARIANTS
    DescriptorsExact
    CountExact
    EventsToOwner
    PollerExact
    TimersExact
    AppExact
PROPERTY
    HandshakeEnds
