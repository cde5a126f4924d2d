\* Two threads use the disk.
SPECIFICATION Spec
CONSTANTS
    t1 = t1
    t2 = t2
    t3 = t3
    NULL = NULL
    Thread = {t1, t2, t3}
    User = {t2, t3}
    NB_ITERATIONS = 5
    NBlocks = 3
PROPERTIES
    TransfersItsOwnBlock
\* A failed assertion stops the kernel.
CHECK_DEADLOCK FALSE
