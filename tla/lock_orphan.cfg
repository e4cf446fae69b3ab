SPECIFICATION FairSpec
CONSTANTS
    c1 = c1
    c2 = c2
    c3 = c3
    Caller <- MCCaller
    Nobody = Nobody
    Timout = 3
    MaxHold = 2
    MayCrash = FALSE
INVARIANT LockAlwaysExpires
