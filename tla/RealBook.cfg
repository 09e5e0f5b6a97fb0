SPECIFICATION Spec
CONSTANTS
    rich = rich
    poor = poor
    full = full
    sim = sim
    t1 = t1
    t2 = t2
    t3 = t3
    NoAccount = NoAccount
    Keyed = {k1}
    BookOrders = {b1}
    Accounts = {rich, poor, full, sim}
    Account <- FourAccounts
    Tickers = {t1, t2, t3}
    Requests <- SomeRequests
    BookRequests <- SoundRequests
    SingleOrderLimit = 50
    MaxPositionPct = 30
    MaxPositions = 2
    DailyLossLimit = 10
INVARIANT
    SoundOrdersTraded
