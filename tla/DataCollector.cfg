SPECIFICATION FairSpec
CONSTANTS
    Kospi = kospi
    Kosdaq = kosdaq
    Tickers = {1, 2, 3}
    MarketOf <- ByCode
    Listed <- NewOne
    BatchSize = 2
    LastDay = 2
    MaxFailures = 1
CHECK_DEADLOCK FALSE
INVARIANTS
    RunComplete
    NoLockCycle
PROPERTY
    RunsEnd
