SPECIFICATION ExamplesSpec
CONSTANTS
    MAX_TASKS = 4
    MAX_TASK_PRI = 3
    TIMER_PERIOD = 10
    RELTIME_MOD = 256
    task_pri <- Priority
    DelayTimes <- Delays
    Timeouts <- WithoutTimeout
    MaxWakeups = 3
    MAX_FLAGS = 1
    MAX_SEMAPHORES = 1
    FlagInfos <- NoBits
    FlagSets <- ButtonBits
    FlagClears <- Unused
    FlagWaits <- LedWaits
    FlagWaiters <- Everybody
    SemaphoreInfos <- Units
    Counts = {1}
    EventTimeouts <- WithoutTimeout
    Enabled <- OnlyEvents
    Writers <- Everybody
    Keys <- Typed
    LINE_LEN = 5
    Second = 25
    HalfSecond = 15
PROPERTY
    TickKeepsReadyTasks
