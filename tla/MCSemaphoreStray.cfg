SPECIFICATION Spec
CONSTANTS
    t1 = t1
    t2 = t2
    t3 = t3
    t4 = t4
    Tid = {t1, t2, t3}
    System = System
    Permits = 1
    StrayWoken <- OneTask
INVARIANT
    NoLostWakeup
