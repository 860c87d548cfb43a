\* Whether a StateWaitMsg error in a lane's goroutine ends the process.
CONSTANTS
    Lanes <- MCLanes
    MaxAmount = 2
    MaxNonce = 2
    MaxRequests = 1
    Window = 3
    MaxHeight = 4
    Confidence = 1
    Faults <- WaitFaults
SPECIFICATION SSpec
INVARIANT WaitErrorLogged
CHECK_DEADLOCK FALSE
