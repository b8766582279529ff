SPECIFICATION Spec
CONSTANTS
    Descriptor <- Protocol
    Registered <- Factory
    Message <- Received
    Echoed <- Long
    Keys <- AllKeys
    Junk <- Wrong
    c_str <- UpToNul
    prefix <- Digits
CHECK_DEADLOCK FALSE
INVARIANTS
    TableExact
    Converted
PROPERTY
    Terminates
