CONSTANTS
    Proc = {p1, p2}
    NumRegs = 2
    MaxCalls = 1
    Signals = FALSE
    SharedLine = FALSE
    EarlyOpen = FALSE
    MayFail <- NoFailures
SPECIFICATION Spec
INVARIANTS
    LaunchIntact
