SPECIFICATION FairSpec
CONSTANTS
    w0 = w0
    w1 = w1
    s0 = s0
    s1 = s1
    sch = sch
    Worker <- MCWorker
    Server <- MCServer
    Scheduler = sch
    Rank0 = w0
    OwnServer <- MCOwnServer
    Inits = 1
    Controls = 1
    NumEth <- MCNumEth
    Addresses <- MCAddresses
INVARIANTS BarrierSafe StartBarrierSafe SyncBeforeTraining ServersOutliveTraining NothingLeftBehind
PROPERTIES AllReachStop
CHECK_DEADLOCK FALSE
CONSTRAINT StartOnly
