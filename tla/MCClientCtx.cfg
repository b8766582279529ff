SPECIFICATION Spec
CONSTANTS
    max_body_size = 4
    block_size = 2
    Faults <- Fallible
    Request <- Requests
    FileSystem <- Sizes
    recv_units = 2
    socket_units = 2
    max_buffer = 9
    Unparsable <- Refused
    Frame <- Frames
    Package <- Packages
    recv_bytes = 5
    socket_bytes = 3
    max_transfers = 2
INVARIANTS
    ResponseExact
    ReleasedOnce
    Reassembled
    PackagesFramed
PROPERTY
    Served
CHECK_DEADLOCK FALSE
