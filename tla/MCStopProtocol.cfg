CONSTANTS
    Worker = {w1}
    Other = other
    pipe_capacity = 2
    drain_limit = 1
SPECIFICATION FairSpec
CHECK_DEADLOCK FALSE
INVARIANTS
    ExitAfterLoops
    WriteHitsPipe
PROPERTIES
    StopEnds
    ReloadServed
