\* The wizard's find path with GetAsks's goroutines, one throttle slot.
CONSTANTS
    m1 = m1
    m2 = m2
    m3 = m3
    bad = bad
    Miners <- MCMiners
    Bad = bad
    MinSize <- MCMinSize
    MaxSize <- MCMaxSize
    Sizes = {1, 2}
    Counts <- PositiveCounts
    MaxAnswer = 2
    MaxRounds = 2
    MinerList <- MCMinerList
    Powered <- MCPowered
    Throttle = 1
SPECIFICATION DFSpec
INVARIANT WizardTypeOK FindDealsFit FindDealsDistinct AQTypeOK
PROPERTY FindEnds
\* interactiveDeal returns: a returned wizard, and GetAsks's goroutines
\* once they are done, have no next step.
CHECK_DEADLOCK FALSE
