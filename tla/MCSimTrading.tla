---------------------------- MODULE MCSimTrading ----------------------------
(* Small instances of SimTrading, with the fees of kis_service.py.         *)
EXTENDS SimTrading

CONSTANTS a1, a2, t1, t2

OneAccount == [a \in {a1} |-> 4000]
OneAccountRows == [r \in {a1} \X {t1, t2} |-> IF r = <<a1, t1>> THEN 2 ELSE 0]
TwoAccounts == [a \in {a1, a2} |-> 3000]
TwoAccountRows == [r \in {a1, a2} \X {t1, t2} |-> IF r = <<a1, t1>> THEN 1 ELSE 0]

LedgerRequests == [account : Accounts, ticker : Tickers, side : Sides, qty : 1..4]

Ledger == INSTANCE SimLedger WITH
    Requests <- LedgerRequests, Cost <- CostOf, Proceeds <- ProceedsOf

(* When the two jobs do not overlap, a committed run is one step of        *)
(* SimLedger: all its fills or none, and the exact sums.                   *)
LedgerSpec == Ledger!Spec
=============================================================================
