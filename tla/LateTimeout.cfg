SPECIFICATION Spec
CONSTANTS
    MAX_TASKS = 2
    MAX_TASK_PRI = 3
    TIMER_PERIOD = 10
    RELTIME_MOD = 256
    task_pri <- OneAndPairs
    DelayTimes <- OneDelay
    Timeouts <- NoTimes
    MaxWakeups = 0
PROPERTY
    TickReleasesAllExpired
