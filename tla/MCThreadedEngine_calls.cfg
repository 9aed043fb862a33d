SPECIFICATION FairSpec
CONSTANTS
    x = x
    y = y
    main = main
    other = other
    Var <- OneVar
    Thread <- TwoThreads
    MaxOps = 3
    Kinds = {"normal", "wait", "delete", "shutdown"}
INVARIANTS ReadyMeansWritten NoRaces DeletedLast
PROPERTIES CallsReturn
CHECK_DEADLOCK FALSE
