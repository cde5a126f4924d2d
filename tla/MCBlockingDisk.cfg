\* As in kernel.C: one thread uses the disk.
SPECIFICATION Spec
CONSTANTS
    t1 = t1
    t2 = t2
    t3 = t3
    NULL = NULL
    Thread = {t1, t2, t3}
    User = {t2}
    NB_ITERATIONS = 5
    NBlocks = 3
INVARIANTS
    TypeOK
    QueuedOnce
    ReadBackMatches
PROPERTIES
    TransfersItsOwnBlock
    YieldsWhileWaiting
    JobsFinish
