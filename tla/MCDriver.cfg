CONSTANTS
    Proc = {p1, p2}
    NumRegs = 3
    MaxCalls = 3
    Signals = TRUE
    SharedLine = TRUE
    EarlyOpen = FALSE
    MayFail <- ReportedFailures
SPECIFICATION Spec
INVARIANTS
    TypeOK
    ReleasesWhatIsHeld
    ProvidersOutliveUsers
    OwnershipMatchesReturn
    
    WakeUpComing
    QuietLaunchIntact
PROPERTIES
    QuietReturnsAfterCompletion
    IoctlReturns
