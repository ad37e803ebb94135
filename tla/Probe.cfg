SPECIFICATION Spec
CONSTANTS
    Threads = {t1, t2}
    Hooks = 2
    RingSize = 1
    QueueCap = 2
INVARIANTS ProbeAccounted OvertakenWereQueued
PROPERTIES RingDrained FirstDropWarned
CHECK_DEADLOCK FALSE
