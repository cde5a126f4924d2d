\* P5: threads run with interrupts disabled.
SPECIFICATION Spec
CONSTANTS
    t1 = t1
    t2 = t2
    t3 = t3
    Thread = {t1, t2, t3}
    First = t1
    Forever = {t3}
    StartEnables = FALSE
    StackWords = 24
INVARIANTS
    SwitchReturns
    
    StartChain
