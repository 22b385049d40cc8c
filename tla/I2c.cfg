SPECIFICATION I2cSpec
CONSTANTS
    MAX_TASKS = 3
    MAX_TASK_PRI = 3
    TIMER_PERIOD = 10
    RELTIME_MOD = 256
    task_pri <- OneAndPairs
    DelayTimes <- OneDelay
    Timeouts <- Unused
    MaxWakeups = 0
    MAX_FLAGS = 0
    MAX_SEMAPHORES = 1
    FlagInfos <- Unused
    FlagSets <- Unused
    FlagClears <- Unused
    FlagWaits <- Unused
    FlagWaiters <- Unused
    SemaphoreInfos <- UnitInfos
    Counts <- SingleUnit
    EventTimeouts <- NoTimeout
    Devices <- Iica
    OpenModes <- BothModes
    Sizes <- Few
INVARIANTS
    OneTransfer
    TransferIsOwn
    UnitComesBack
