\* The settler with the channel when pushes, waits and the matcher may
\* fail, and two funding requests (one may queue behind the other): the
\* manager's accounting and the chain's lanes stay right whatever fails.
CONSTANTS
    Lanes <- MCLanes
    MaxAmount = 2
    MaxNonce = 2
    MaxRequests = 2
    Window = 3
    MaxHeight = 4
    Confidence = 1
    Faults <- AllFaults
SPECIFICATION SSpec
INVARIANT SettlerTypeOK TypeOK FundsAccounting LaneAgreement
INVARIANT OneSubmissionUntilPushError
PROPERTY NoLaneRegression
\* All actions are bounded events of the users and the chain: a channel
\* whose heights and requests are used up is a legal end.
CHECK_DEADLOCK FALSE
