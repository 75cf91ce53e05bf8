CONSTANTS
    BUDDY_MAX_ORDER = 4
    PAGE_SIZE = 2
    VramPages = 8
    Sizes = {2,3,8,9,17}
    Pages <- MCPages
SPECIFICATION Spec
INVARIANTS
    LinksMutual
    MergeBounded
PROPERTY ImplementsBuddy
