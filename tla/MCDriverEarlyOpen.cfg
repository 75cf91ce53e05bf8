CONSTANTS
    Proc = {p1}
    NumRegs = 2
    MaxCalls = 1
    Signals = FALSE
    SharedLine = FALSE
    EarlyOpen = TRUE
    MayFail <- NoFailures
SPECIFICATION Spec
PROPERTIES
    IoctlReturns
CHECK_DEADLOCK FALSE
