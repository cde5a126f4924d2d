\* P6: threads run with interrupts enabled.
SPECIFICATION Spec
CONSTANTS
    t1 = t1
    t2 = t2
    t3 = t3
    Thread = {t1, t2, t3}
    First = t1
    Forever = {t1}
    StartEnables = TRUE
    StackWords = 24
INVARIANTS
    SwitchReturns
