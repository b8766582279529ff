SPECIFICATION FairSpec
CONSTANTS
    worker_cnt = 2
    Gid <- TwoOnOneWorker
    Start <- Starts
    Speaker <- AloneOnItsWorker
INVARIANTS
    VMViewExact
    DeliveredOnce
    SourceOrder
    Accounted
PROPERTIES
    Delivered
    VMLearnsClose
CHECK_DEADLOCK FALSE
