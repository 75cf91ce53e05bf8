CONSTANTS
    Proc = {p1}
    NumRegs = 2
    MaxCalls = 1
    Signals = FALSE
    SharedLine = FALSE
    EarlyOpen = FALSE
    MayFail <- AllFailures
SPECIFICATION Spec
INVARIANTS
    OwnershipMatchesReturn
