SPECIFICATION FairSpec
CONSTANTS
    a1 = a1
    a2 = a2
    t1 = t1
    t2 = t2
    Accounts = {a1}
    Tickers = {t1, t2}
    Orders = {o1, o2}
    Prices = {2000}
    Quantities = {1}
    InitialCash <- OneAccount
    InitialQty <- OneAccountRows
    Scale = 100000
    BuyFee = 15
    SellFee = 215
    MaxFailures = 1
INVARIANTS
    Solvent
    ExactlyOnce
PROPERTY
    TerminalStatus
    RunsEnd
