\* P6: thread_start enables interrupts, only thread1 runs for ever.
SPECIFICATION Spec
CONSTANTS
    t1 = t1
    t2 = t2
    t3 = t3
    t4 = t4
    NULL = NULL
    Thread = {t1, t2, t3, t4}
    First = t1
    Forever <- P6Forever
    NB_ITERATIONS = 2
    StartEnables = TRUE
INVARIANTS
    TypeOK
    NoThreadLost
    CpuStaysInCode
    InterruptFlagKept
PROPERTIES
    StarvationFree
    TimerAlive
    RoundRobinOrder
