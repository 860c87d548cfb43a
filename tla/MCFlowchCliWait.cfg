\* settle and collect when StateWaitMsg may fail.
CONSTANTS
    Lanes <- MCLanes
    MaxAmount = 2
    MaxNonce = 1
    MaxRequests = 1
    Window = 1
    MaxHeight = 3
    CliCmds <- SettleCollect
    CliFaults <- WaitOnly
SPECIFICATION CSpec
INVARIANT CliReportsTruthfully
\* Every command and chain event is bounded; a channel whose commands,
\* requests and heights are used up is a legal end.
CHECK_DEADLOCK FALSE
