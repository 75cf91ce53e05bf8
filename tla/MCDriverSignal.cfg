CONSTANTS
    Proc = {p1}
    NumRegs = 2
    MaxCalls = 1
    Signals = TRUE
    SharedLine = FALSE
    EarlyOpen = FALSE
    MayFail <- NoFailures
SPECIFICATION Spec
PROPERTIES
    ReturnsAfterCompletion
