CONSTANTS
    Proc = {p1}
    NumRegs = 2
    MaxCalls = 1
    Signals = FALSE
    SharedLine = TRUE
    EarlyOpen = FALSE
    MayFail <- NoFailures
SPECIFICATION Spec
PROPERTIES
    ReturnsAfterCompletion
