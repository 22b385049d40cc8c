SPECIFICATION LcdSpec
CONSTANTS
    MAX_TASKS = 3
    MAX_TASK_PRI = 3
    TIMER_PERIOD = 10
    RELTIME_MOD = 256
    task_pri <- Priority
    DelayTimes <- Unused
    Timeouts <- Unused
    MaxWakeups = 0
    MAX_FLAGS = 0
    MAX_SEMAPHORES = 3
    FlagInfos <- Unused
    FlagSets <- Unused
    FlagClears <- Unused
    FlagWaits <- Unused
    FlagWaiters <- Unused
    SemaphoreInfos <- UnitInfos
    Counts <- SingleUnit
    EventTimeouts <- NoTimeout
    Devices <- BothUnits
    OpenModes <- Unused
    Sizes <- TwoBytes
    PollDelay = 1
    LcdTimeout = 100
    ShowDelay = 150
INVARIANTS
    OneLcdTask
