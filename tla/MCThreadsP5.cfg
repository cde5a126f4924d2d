\* P5: thread_start does nothing, fun1 and fun2 return.
SPECIFICATION Spec
CONSTANTS
    t1 = t1
    t2 = t2
    t3 = t3
    t4 = t4
    NULL = NULL
    Thread = {t1, t2, t3, t4}
    First = t1
    Forever <- P5Forever
    NB_ITERATIONS = 2
    StartEnables = FALSE
PROPERTIES
    TimerAlive
