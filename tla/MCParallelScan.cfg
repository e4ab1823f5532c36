\* Two systems compete for four hardware threads.
CONSTANTS
    s1 = s1
    s2 = s2
    Owners <- MCSystems
    NumHardwareThreads = 4
    Attempts <- MCAttempts
    Disconnected = {3}
    MaxScans <- MCMaxScans
SPECIFICATION Spec
INVARIANTS
    TypeOK
    PoolConserved
    SuccessIsComplete
    ScansStartClean
    ReasonIsRight
PROPERTIES
    FirstErrorKept
    ScansEnd
    AbortsAreNoticed
CHECK_DEADLOCK FALSE
