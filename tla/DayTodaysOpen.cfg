SPECIFICATION Spec
CONSTANTS
    a1 = a1
    s1 = s1
    c1 = c1
    Activations = {a1}
    Strategies = {s1}
    Known = {s1}
    StrategyOf <- OneStrategy
    Accounts = {c1}
    AccountOf <- OneAccount
    Tickers = {t1}
    LastDay = 3
INVARIANT
    FilledAtTodaysOpen
