\* Whether a FlowchVoucherSubmit error for one lane leaves the later lanes unsubmitted.
CONSTANTS
    Lanes <- MCLanes
    MaxAmount = 2
    MaxNonce = 2
    MaxRequests = 1
    Window = 3
    MaxHeight = 4
    Confidence = 1
    Faults <- PushFaults
SPECIFICATION SSpec
INVARIANT PartialFailureTolerant
CHECK_DEADLOCK FALSE
