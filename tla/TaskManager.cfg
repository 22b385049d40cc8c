SPECIFICATION FairSpec
CONSTANTS
    MAX_TASKS = 3
    MAX_TASK_PRI = 3
    TIMER_PERIOD = 10
    RELTIME_MOD = 256
    task_pri <- OneAndPairs
    DelayTimes <- Delays
    Timeouts <- SleepTimes
    MaxWakeups = 1
INVARIANTS
    TypeOK
    QueuesMatchStates
    RunningIsHighest
    IdleMeansNobodyReady
    NoSleeperHasWakeup
PROPERTIES
    NoEarlyTimeout
    TickMakesProgress
    TickKeepsReadyTasks
    TimedWaitEnds
    TimeSlicing
    ImplementsPriorityScheduler
