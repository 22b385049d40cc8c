SPECIFICATION EventSpec
CONSTANTS
    MAX_TASKS = 3
    MAX_TASK_PRI = 3
    TIMER_PERIOD = 10
    RELTIME_MOD = 256
    task_pri <- OneAndPairs
    DelayTimes <- NoTimes
    Timeouts <- NoTimes
    MaxWakeups = 0
    MAX_FLAGS = 1
    MAX_SEMAPHORES = 1
    FlagInfos <- NoBits
    FlagSets <- TwoBits
    FlagClears <- NoBits
    FlagWaits <- BitWaits
    FlagWaiters <- OneTask
    SemaphoreInfos <- Pools
    Counts <- One
    EventTimeouts <- Waits
INVARIANTS
    EventTypeOK
    QueuesMatchStates
    RunningIsHighest
    SemaphoreInRange
    NoIdleUnits
    NoMissedFlag
PROPERTIES
    NoEarlyTimeout
    FlagWaitIsSatisfied
