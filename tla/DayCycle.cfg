SPECIFICATION ActivationSpec
CONSTANTS
    a1 = a1
    a2 = a2
    s1 = s1
    c1 = c1
    s2 = s2
    u1 = u1
    u2 = u2
    NoPair = NoPair
    Activations = {a1, a2}
    Strategies = {s1, s2}
    Known = {s1}
    StrategyOf <- OneStrategy
    Accounts = {c1}
    AccountOf <- OneAccount
    Owners = {u1, u2}
    OwnerOf <- TwoOwners
    Tickers = {t1}
    LastDay = 3
    Requests = {r1, r2}
INVARIANTS
    SettledAtFirstRun
    PricedAfterSignal
    OneOrderPerBar
    OneActiveUnlessRaced
    OneOrderPerStrategy
