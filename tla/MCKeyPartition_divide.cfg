SPECIFICATION Spec
CONSTANTS
    Workers = {w1, w2, w3}
    Rank0 = w1
    NumServers = 3
    NumKeys = 4
    Size <- SmallFirst
    bigarray_bound = 2
    Perfs <- SomePerfs
    MaxRounds = 4
    cpu_worker_nthreads = 1
    Precision = 16
INVARIANTS PartitionsAgree PiecesApart LoadFollowsPolicy
CHECK_DEADLOCK FALSE
