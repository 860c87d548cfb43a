\* The settler with the channel when no call fails: each handler run
\* returns, submits one message per lane, and the handler re-fired on the
\* window's later heads picks up lanes that become spendable after the
\* first.
CONSTANTS
    Lanes <- MCLanes
    MaxAmount = 2
    MaxNonce = 2
    MaxRequests = 1
    Window = 3
    MaxHeight = 4
    Confidence = 1
    Faults <- NoFaults
SPECIFICATION SSpec
 
PROPERTY HandlerTerminates
PROPERTY SpendableLanesPickedUp
\* All actions are bounded events of the users and the chain: a channel
\* whose heights and requests are used up is a legal end.
CHECK_DEADLOCK FALSE
