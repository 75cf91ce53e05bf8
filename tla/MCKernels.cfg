CONSTANTS
    Rounds = 2
    LaneElems = 2
    VramWords = 156
    VocabSize = 5
    Launches <- MCLaunches
    Logits <- MCLogits
SPECIFICATION Spec
INVARIANTS
    ShuffleConverged
    ComputesTheOperation
    
PROPERTY KernelEnds
\* A launch comes to its end.
CHECK_DEADLOCK FALSE
