SPECIFICATION FairSpec
CONSTANTS
    v1 = v1
    v2 = v2
    v3 = v3
    d1 = d1
    d2 = d2
    m1 = m1
    m2 = m2
    None = None
    VM <- MCVM2
    Detach <- MCDetach2
    VMC <- MCVMC2
    VmMax = 1
    VmcMax <- MCVmcMax
    MCVmcLimit = 1
    Recreate = 2
    Overlap = FALSE
    LockFails = FALSE
INVARIANTS NoOrphanInstance PendingIsInProgress LimitRespected
PROPERTIES ImplementsSlotPool EveryCallReturns
