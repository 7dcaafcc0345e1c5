SPECIFICATION PagingSpec
CONSTANTS
    s1 = s1
    s2 = s2
    Spaces = {s1, s2}
    Nobody = Nobody
    NUM_PHYS_PAGES = 2
    TLB_SIZE = 2
    PAGE_SIZE = 2
    Layouts <- MCLayouts
    StoreOffsets = {1}
    Written = {1}
    Builds = {"userprog", "vmem", "filesys"}
SYMMETRY MCSymmetry
CONSTRAINT Followed
INVARIANT TranslationsAreOwned
PROPERTY PagingIsInvisible
CHECK_DEADLOCK FALSE
