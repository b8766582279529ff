CONSTANTS
    p1 = p1
    p2 = p2
    Package = {p1, p2}
    None = None
    size <- MCsize
    socket_capacity = 3
    buffer_size = 3
    max_send_buffer = 2
SPECIFICATION FairSpec
INVARIANTS
    Framing
PROPERTIES
    NoSpin
    ImplementsChannel
