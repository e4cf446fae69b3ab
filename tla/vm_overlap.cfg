SPECIFICATION Spec
CONSTANTS
    v1 = v1
    v2 = v2
    v3 = v3
    d1 = d1
    d2 = d2
    m1 = m1
    m2 = m2
    None = None
    VM <- MCVM2
    Detach <- MCDetach2
    VMC <- MCVMC1
    VmMax = 1
    VmcMax <- MCVmcMax
    MCVmcLimit = 1
    Recreate = 1
    Overlap = TRUE
    LockFails = TRUE
SYMMETRY Symmetry2
INVARIANTS ReservationsAddUp VmcCountersAddUp
