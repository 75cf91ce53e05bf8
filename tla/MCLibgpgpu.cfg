CONSTANTS
    BUDDY_MAX_ORDER = 3
    PAGE_SIZE = 4
    VramPages = 4
    Pages <- MCPages
    ObjectSizes <- MCObjectSizes
    Marker <- MCMarker
    Sizes = {1, 2, 3, 5}
    MaxLive = 5
    Closed = Closed
SPECIFICATION Spec
INVARIANTS
    TypeOK
    MetaFound
    SlotsAccounted
    PagesAccounted
    RoutesBack
    NothingLeaked
PROPERTY ImplementsVram
