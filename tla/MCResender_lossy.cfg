SPECIFICATION Spec
CONSTANTS
    MaxMsgs = 2
    KeyOut <- OwnKeys
    KeyIn <- OwnKeys
    Stamped = {1, 2}
    Named = {1, 2}
    max_num_retry = 5
    MaxLoss = 2
    MaxLate = 1
INVARIANTS ProcessedOnce NotGivenUp
PROPERTIES BufferDrains ImplementsNetwork
CHECK_DEADLOCK FALSE
