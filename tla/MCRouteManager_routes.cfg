SPECIFICATION Spec
CONSTANTS
    num_nodes = 4
    num_enable_server = 2
    enable_muti_trace = TRUE
    enable_random = FALSE
    Unit = 6
    Speeds = {1, 6}
    InitTps <- MCInitTps
    MaxReports = 1
INVARIANTS BestPathFirst PathsAreDisjoint ServersReadTheirRoutes ParentsFormTree
PROPERTIES Adapts
CHECK_DEADLOCK FALSE
