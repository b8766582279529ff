SPECIFICATION Spec
CONSTANTS
    Fd = {f1, f2}
    Gid = {c1, c2, c3}
    None = None
    tunnel_fd = tunnel_fd
    timeout = 1
    Capacities = {2}
    Pollers = {"kqueue"}
    Failures = {"add", "ssl"}
SYMMETRY Symmetry
INVARIANT
    ClosedEventsDropped
