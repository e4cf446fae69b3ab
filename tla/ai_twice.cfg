SPECIFICATION FairSpec
CONSTANTS
    a1 = a1
    a2 = a2
    r1 = r1
    v1 = v1
    v2 = v2
    w1 = w1
    NoAidrs = NoAidrs
    AI <- MCAI
    VM <- MCVM
    home <- MCHome
    Aidrs = {r1}
    submitter <- MCByHand
    AiMax = 1
    VmMax = 3
    MaxAis = 1
INVARIANT ReservationsCoverAIs
