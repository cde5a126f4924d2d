SPECIFICATION Spec
CONSTANTS
    ENTRIES_PER_PAGE = 4
    ProcessFrames <- EightFrames
    Pool <- TwoPools
    PAGE_SIZE = 2
    MaxSize = 3
INVARIANTS
    TypeOK
    FramesAccounted
    StructuresIntact
    NoStaleTranslation
    OnlyRegionsMapped
    
PROPERTIES
    ImplementsAllocator
    AccessCompletes
