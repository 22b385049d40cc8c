SPECIFICATION ExamplesSpec
CONSTANTS
    MAX_TASKS = 3
    MAX_TASK_PRI = 3
    TIMER_PERIOD = 10
    RELTIME_MOD = 256
    task_pri <- Priority
    DelayTimes <- Delays
    Timeouts <- WithoutTimeout
    MaxWakeups = 3
    MAX_FLAGS = 0
    MAX_SEMAPHORES = 1
    FlagInfos <- Unused
    FlagSets <- Unused
    FlagClears <- Unused
    FlagWaits <- Unused
    FlagWaiters <- Unused
    SemaphoreInfos <- Units
    Counts = {1}
    EventTimeouts <- WithoutTimeout
    Enabled <- TwoTasksOrShell
    Writers <- Everybody
    Keys <- Typed
    LINE_LEN = 5
    Second = 25
    HalfSecond = 15
INVARIANTS
    LinesStayWhole
    EchoShowsArgument
PROPERTIES
    BothPrint
    SleepEnds
