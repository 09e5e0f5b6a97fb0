SPECIFICATION BacktestSpec
CONSTANTS
    r1 = r1
    r2 = r2
    p1 = p1
    p2 = p2
    Runs = {r1, r2}
    Pollers = {p1, p2}
    Shown <- FirstRun
    NoRun = NoRun
    MaxRetries = 1
    Rows = 9
    Prices = {7, 10, 16}
    Splits = {1, 3, 4, 10}
    MinFold = 2
    InitialCapital = 32
    PositionSize = 10
    StopLoss = 5
    TakeProfit = 3
    Commission = 1
    Tax = 1
    Slippage = 1
    Scale = 10
CHECK_DEADLOCK FALSE
INVARIANTS
    OutcomeTold
    RowHasTask
    SimTypeOK
    TradesPaired
    BalanceExplained
    StopHonoured
PROPERTIES
    ReportSpec
    RunSettles
    TasksEnd
    FoldsInOrder
