CONSTANTS
    Worker = {w1}
    Other = other
    pipe_capacity = 1
    drain_limit = 1
SPECIFICATION Spec
CHECK_DEADLOCK FALSE
INVARIANTS
    ThreadsFinished
