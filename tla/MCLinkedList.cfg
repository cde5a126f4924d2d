SPECIFICATION Spec
CONSTANTS
    NULL = NULL
    Data = {t1, t2}
    MaxNodes = 4
INVARIANTS
    WellLinked
PROPERTIES
    ImplementsSequence
