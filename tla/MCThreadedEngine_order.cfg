SPECIFICATION FairSpec
CONSTANTS
    x = x
    y = y
    main = main
    other = other
    Var <- MCVar
    Thread <- OneThread
    MaxOps = 3
    Kinds = {"normal"}
INVARIANTS EngineChecks
PROPERTIES ImplementsDepOrder
CHECK_DEADLOCK FALSE
