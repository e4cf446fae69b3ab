SPECIFICATION FairSpec
CONSTANTS
    Names = {"osk", "ec2", "gce", "pdm", "pcm", "plm", "slr", "csk", "ntnx", "kub", "lc", "as", "nop", "sim"}
    MaxFaults = 1
    RecreateAttempts = 2
INVARIANTS TestMeansSupplied UndoneIsGone DetachedIsGone CleanedIsClean
PROPERTIES DetachFailsForAReason RunStateTold CaptureKeepsOne EveryOperationEnds
CHECK_DEADLOCK FALSE
