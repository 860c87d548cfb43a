\* Whether add-miner accepts a preseal file of two miners with the next ids.
CONSTANTS
    k1 = k1  k2 = k2  k3 = k3
    Keys <- MCKeys
    PresealFiles <- NextPreseals
    CsvFiles <- GoodCsvs
    MinerStart = 0
    MinerBalance = 1
    Special <- MCSpecial
    BuiltinBalance = 1
    TotalEpk = 6
    IdStart = 100
    MaxEdits = 2
SPECIFICATION GSpec
INVARIANT AddMinerAcceptsNextIds
\* Genesis ends: the built tree ("done") or an error.
CHECK_DEADLOCK FALSE
