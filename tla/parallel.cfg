SPECIFICATION FairSpec
CONSTANTS
    c1 = c1  c2 = c2
    v1 = v1  v2 = v2  v3 = v3
    w1 = w1  w2 = w2
    Callers = {c1, c2}
    VMs = {v1, v2, v3}
    VmsOf <- MCVmsOf
    Threads = {w1, w2}
    None = None
INVARIANTS SuccessIsTrue OwnResults
PROPERTIES EveryCallReturns
CHECK_DEADLOCK FALSE
