CONSTANTS
    BUDDY_MAX_ORDER = 5
    PAGE_SIZE = 2
    VramPages = 10
    Sizes = {0,3,8,9,17}
    Pages <- MCPages
SPECIFICATION Spec
INVARIANTS
    TypeOK
    BlocksDisjoint
    NoPageLost
    OrderKept
    Coalesced
    AllocComplete
    AllFreedIsInitial
PROPERTY ImplementsVram
