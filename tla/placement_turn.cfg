SPECIFICATION FairSpec
CONSTANTS
    a1 = a1
    v1 = v1
    v2 = v2
    w1 = w1
    NoAI = NoAI
    VM <- MCVM
    AI = {a1}
    home <- MCHome
    PoolSize = 2
    Explicit = {3}
    Workers = {2}
    Methods <- MCRoundRobin
    LockFails = FALSE
    MaxShrink = 0
PROPERTY WaitsForDecisionsOnly
