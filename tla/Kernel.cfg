CONSTANTS
    NThreads = 3
    RT_TICK_MAX = 7
    Threads <- MCThreads
    init_priority <- MCPriority
    mutex_flag = "RT_IPC_FLAG_PRIO"
    event_flag = "RT_IPC_FLAG_FIFO"
    Bits = {"a", "b"}
    Receives <- MCReceives
    TakeTimes <- MCTimes
    RecvTimes = {0, 2}
    SleepTimes = {1}
    RT_NULL = RT_NULL
    Receivers = {1, 3}
    Sleepers = {2}
    timer = timer
    init_tick = 1
    MaxHold = 2
    MaxLate = 0
SPECIFICATION Spec
INVARIANTS TypeOK NobodyWaitsForFree Inherits Restored NoMissedEvent TimersOfSuspended
PROPERTIES MostUrgentNext Outcome EventConserved OnTime
VIEW WithoutMoved
