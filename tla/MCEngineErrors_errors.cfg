SPECIFICATION ErrSpec
CONSTANTS
    x = x
    y = y
    Var <- MCVar
    MaxOps = 3
    MaxWorkers = 2
INVARIANTS NoSilentGarbage QuietAfterWaitForAll
SYMMETRY Symmetry
CHECK_DEADLOCK FALSE
