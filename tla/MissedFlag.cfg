SPECIFICATION EventSpec
CONSTANTS
    MAX_TASKS = 3
    MAX_TASK_PRI = 3
    TIMER_PERIOD = 10
    RELTIME_MOD = 256
    task_pri <- OneAndPairs
    DelayTimes <- NoTimes
    Timeouts <- NoTimes
    MaxWakeups = 0
    MAX_FLAGS = 1
    MAX_SEMAPHORES = 0
    FlagInfos <- NoBits
    FlagSets <- TwoBits
    FlagClears <- NoTimes
    FlagWaits <- LedWaits
    FlagWaiters <- AllTasks
    SemaphoreInfos <- NoTimes
    Counts <- NoTimes
    EventTimeouts <- Waits
INVARIANT
    NoMissedFlag
