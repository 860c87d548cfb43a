\* GetAsks when a worker is still running as its launcher's loop ends.
CONSTANTS
    m1 = m1
    m2 = m2
    m3 = m3
    MinerList <- MCMinerList
    Powered <- MCPowered
    Throttle = 1
SPECIFICATION AQSpec
INVARIANT ReadsAfterWorkers
\* GetAsks returns or fails: the caller has no next step then.
CHECK_DEADLOCK FALSE
