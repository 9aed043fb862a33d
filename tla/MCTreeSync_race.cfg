SPECIFICATION Spec
CONSTANTS
    s1 = s1
    s2 = s2
    s3 = s3
    k1 = k1
    k2 = k2
    Star = Star
    ViaC = ViaC
    Chain = Chain
    NoPolicy = NoPolicy
    Node = {s1, s2, s3}
    Key = {k1}
    RootOf <- MCRootOf
    Policies = {Star, ViaC}
    NextHop <- MCNextHop
    MaxIter = 2
    TimelyRelease = FALSE
INVARIANT SumComplete
CHECK_DEADLOCK FALSE
