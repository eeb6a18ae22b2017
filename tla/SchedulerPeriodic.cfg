SPECIFICATION Spec
CONSTANTS
    Threads = {t1, t2}
    Jobs = {j1, j2}
    MaxDelay = 2
    NoEntry = NoEntry
PROPERTY
    PeriodicTaskRepeats
