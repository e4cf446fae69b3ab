SPECIFICATION Spec
CONSTANTS
    HostsOf <- MCHostsOf
    Limits <- MCLimits
    Procs <- MCProcs
    Scenarios <- MCScenarios
INVARIANTS
    FoundIsWhole
    WholeAtRest
    CountsAddUp
    VmIsWhereItSays
    NothingPending
    CleanAfterDetach
    StatesSettle
    ParallelismKept
    StopsInTime
PROPERTIES
    DaemonsLast
    OverdueGoes
CHECK_DEADLOCK FALSE
