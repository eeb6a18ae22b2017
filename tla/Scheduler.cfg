SPECIFICATION Spec
CONSTANTS
    Threads = {t1, t2}
    Jobs = {j1, j2, j3}
    MaxDelay = 2
    NoEntry = NoEntry
INVARIANTS
    TypeOK
    OneTimer
    NoStrandedTask
    NoOverlap
PROPERTIES
    ScheduledTaskRuns
    ShutdownCompletes
