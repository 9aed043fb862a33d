SPECIFICATION Spec
CONSTANTS
    s1 = s1
    s2 = s2
    w1 = w1
    w2 = w2
    Server = {s1, s2}
    Worker = {w1, w2}
    Own <- MCOwn
    Mortal = {s1, w2}
    MaxCrashes = 2
INVARIANTS UniqueIds
 
CHECK_DEADLOCK FALSE
