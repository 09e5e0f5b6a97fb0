----------------------------- MODULE SimTrading -----------------------------
(***************************************************************************)
(* Paper trading on the SIM accounts: the two scheduled jobs of the        *)
(* backend that move money, running against one PostgreSQL database.       *)
(*                                                                         *)
(*   executor   execute_pending_orders()   (workers/trading_scheduler.py)  *)
(*   anomaly    check_anomalies()          (workers/anomaly_detector.py)   *)
(*                                                                         *)
(* Both trade through place_sim_order() (services/kis_service.py).  Each   *)
(* job is one coroutine with one SQLAlchemy session and one transaction    *)
(* at READ COMMITTED; an action below is what happens between two points   *)
(* at which the coroutine waits for the database, or for a row lock.       *)
(*                                                                         *)
(* A row has two versions: the committed one (cash, qty) and the newest    *)
(* one (cashNew, qtyNew), which differ only while a transaction holds the  *)
(* row's lock.  What a session keeps of a row is a third copy: ORM objects *)
(* are not refreshed when a query returns a row already loaded, not even   *)
(* by SELECT ... FOR UPDATE, so `cache' and `seen' may be stale.           *)
(*                                                                         *)
(* average and current prices, P&L, wording and notifications are left     *)
(* out; the price of an order is any member of Prices.                     *)
(***************************************************************************)
EXTENDS Integers

CONSTANTS
    Accounts,     \* SIM accounts
    Tickers,      \* stock codes
    Orders,       \* identities of the rows the signal job may queue
    Prices,       \* prices a daily bar may carry, in won
    Quantities,   \* order sizes the signal job may choose for a BUY
    InitialCash,  \* accounts.initial_balance
    InitialQty,   \* shares held at the start
    Scale,        \* denominator of the fees (100000)
    BuyFee,       \* commission_pct * Scale (15)
    SellFee,      \* (commission_pct + tax_pct) * Scale (215)
    MaxFailures   \* bound: transactions lost to a crash or a database error

Rows == Accounts \X Tickers    \* the unique index of table positions

ASSUME SimAssumption ==
    /\ Accounts # {} /\ Tickers # {} /\ Orders # {}
    /\ Prices # {} /\ Prices \subseteq Nat \ {0}
    /\ Quantities # {} /\ Quantities \subseteq Nat \ {0}
    /\ InitialCash \in [Accounts -> Nat]
    /\ InitialQty \in [Rows -> Nat]
    /\ Scale \in Nat \ {0} /\ BuyFee \in Nat /\ SellFee \in 0..Scale
    /\ MaxFailures \in Nat

Executor == "executor"
Anomaly == "anomaly"
Jobs == {Executor, Anomaly}
Unlocked == "unlocked"
NotLoaded == -1     \* no ORM object for this row in the session

VARIABLES
    \* committed tables
    cash, qty,          \* accounts.cash_balance, positions.qty (0: no row)
    book, status,       \* orders: what is asked for, and orders.status
    fills,              \* FILLED rows place_sim_order inserted, per queued order
    net, held,          \* what all FILLED rows add up to: money, shares
    \* newest version and lock of each row
    cashNew, cashLock, qtyNew, qtyLock,
    \* the session of each job
    pc, cache, seen, deal, netNew, heldNew,
    \* locals of execute_pending_orders
    batch, current, mark, inserted,
    \* locals of check_anomalies
    accountsLeft, scanned, tickersLeft, dirty,
    failures

tables == <<cash, qty, book, status, fills, net, held>>
cashRows == <<cashNew, cashLock>>
qtyRows == <<qtyNew, qtyLock>>
sums == <<netNew, heldNew>>
executorVars == <<batch, current, mark, inserted>>
anomalyVars == <<accountsLeft, scanned, tickersLeft, dirty>>
vars == <<tables, cashRows, qtyRows, pc, cache, seen, deal, sums,
          executorVars, anomalyVars, failures>>
-----------------------------------------------------------------------------
Sides == {"BUY", "SELL"}
Requests == [account : Accounts, ticker : Tickers, side : Sides, qty : Nat \ {0}]
Deals == [account : Accounts, ticker : Tickers, side : Sides, qty : Nat, price : Prices]

NoRequest == [account |-> CHOOSE a \in Accounts : TRUE,
              ticker |-> CHOOSE t \in Tickers : TRUE, side |-> "BUY", qty |-> 1]
NoDeal == [account |-> CHOOSE a \in Accounts : TRUE,
           ticker |-> CHOOSE t \in Tickers : TRUE, side |-> "BUY", qty |-> 0,
           price |-> CHOOSE p \in Prices : TRUE]
NoOrder == CHOOSE o \in Orders : TRUE
NoAccount == CHOOSE a \in Accounts : TRUE

(* int(total_cost) and int(proceeds): the amounts the balance moves by.    *)
CostScaled(d) == d.qty * d.price * (Scale + BuyFee)
CostOf(q, p) == (q * p * (Scale + BuyFee)) \div Scale
ProceedsOf(q, p) == (q * p * (Scale - SellFee)) \div Scale
Cost(d) == CostOf(d.qty, d.price)
Proceeds(d) == ProceedsOf(d.qty, d.price)
Money(d) == IF d.side = "BUY" THEN -Cost(d) ELSE Proceeds(d)
Shares(d) == IF d.side = "BUY" THEN d.qty ELSE -d.qty
Row(d) == <<d.account, d.ticker>>

(* READ COMMITTED: a statement sees its own transaction's writes and       *)
(* otherwise the last committed version.                                   *)
VisibleCash(j, a) == IF cashLock[a] = j THEN cashNew[a] ELSE cash[a]
VisibleQty(j, r) == IF qtyLock[r] = j THEN qtyNew[r] ELSE qty[r]
MayLock(lock, j) == lock \in {j, Unlocked}

Nothing(S, v) == [x \in S |-> v]

TypeOK ==
    /\ cash \in [Accounts -> Int] /\ cashNew \in [Accounts -> Int]
    /\ qty \in [Rows -> Int] /\ qtyNew \in [Rows -> Int]
    /\ cashLock \in [Accounts -> Jobs \cup {Unlocked}]
    /\ qtyLock \in [Rows -> Jobs \cup {Unlocked}]
    /\ book \in [Orders -> Requests]
    /\ status \in [Orders -> {"NONE", "PENDING", "FILLED", "FAILED"}]
    /\ fills \in [Orders -> Nat]
    /\ net \in [Accounts -> Int] /\ held \in [Rows -> Int]
    /\ pc \in [Jobs -> {"idle", "loop", "buy", "sell", "account", "position"}]
    /\ cache \in [Jobs -> [Accounts -> Int]]
    /\ seen \in [Jobs -> [Tickers -> Int]]
    /\ deal \in [Jobs -> Deals]
    /\ netNew \in [Jobs -> [Accounts -> Int]]
    /\ heldNew \in [Jobs -> [Rows -> Int]]
    /\ batch \subseteq Orders /\ current \in Orders /\ inserted \subseteq Orders
    /\ mark \in [Orders -> {"KEEP", "FILLED", "FAILED"}]
    /\ accountsLeft \subseteq Accounts /\ scanned \in Accounts
    /\ tickersLeft \subseteq Tickers /\ dirty \subseteq Rows
    /\ failures \in 0..MaxFailures

Init ==
    /\ cash = InitialCash /\ cashNew = InitialCash
    /\ qty = InitialQty /\ qtyNew = InitialQty
    /\ cashLock = Nothing(Accounts, Unlocked)
    /\ qtyLock = Nothing(Rows, Unlocked)
    /\ book = Nothing(Orders, NoRequest)
    /\ status = Nothing(Orders, "NONE")
    /\ fills = Nothing(Orders, 0)
    /\ net = Nothing(Accounts, 0) /\ held = Nothing(Rows, 0)
    /\ pc = Nothing(Jobs, "idle")
    /\ cache = Nothing(Jobs, Nothing(Accounts, NotLoaded))
    /\ seen = Nothing(Jobs, Nothing(Tickers, 0))
    /\ deal = Nothing(Jobs, NoDeal)
    /\ netNew = Nothing(Jobs, Nothing(Accounts, 0))
    /\ heldNew = Nothing(Jobs, Nothing(Rows, 0))
    /\ batch = {} /\ current = NoOrder /\ inserted = {}
    /\ mark = Nothing(Orders, "KEEP")
    /\ accountsLeft = {} /\ scanned = NoAccount /\ tickersLeft = {} /\ dirty = {}
    /\ failures = 0
-----------------------------------------------------------------------------
(* The database releases a transaction's row locks when it ends.           *)
ReleaseLocks(j) ==
    /\ cashLock' = [a \in Accounts |-> IF cashLock[a] = j THEN Unlocked ELSE cashLock[a]]
    /\ qtyLock' = [r \in Rows |-> IF qtyLock[r] = j THEN Unlocked ELSE qtyLock[r]]

(* End of a session: the coroutine leaves `async with` and its objects go. *)
ForgetSession(j) ==
    /\ pc' = [pc EXCEPT ![j] = "idle"]
    /\ cache' = [cache EXCEPT ![j] = Nothing(Accounts, NotLoaded)]
    /\ seen' = [seen EXCEPT ![j] = Nothing(Tickers, 0)]
    /\ deal' = [deal EXCEPT ![j] = NoDeal]
    /\ netNew' = [netNew EXCEPT ![j] = Nothing(Accounts, 0)]
    /\ heldNew' = [heldNew EXCEPT ![j] = Nothing(Rows, 0)]
    /\ ReleaseLocks(j)
    /\ IF j = Executor
         THEN /\ batch' = {} /\ current' = NoOrder /\ inserted' = {}
              /\ mark' = Nothing(Orders, "KEEP")
              /\ UNCHANGED anomalyVars
         ELSE /\ accountsLeft' = {} /\ scanned' = NoAccount
              /\ tickersLeft' = {} /\ dirty' = {}
              /\ UNCHANGED executorVars

(* The transaction is lost as a whole.  After an error every later         *)
(* statement of the session fails too, and so does its final commit.       *)
Rollback(j) ==
    /\ cashNew' = [a \in Accounts |-> IF cashLock[a] = j THEN cash[a] ELSE cashNew[a]]
    /\ qtyNew' = [r \in Rows |-> IF qtyLock[r] = j THEN qty[r] ELSE qtyNew[r]]
    /\ ForgetSession(j)
    /\ UNCHANGED tables

(* `await db.commit()' at the end of either job. *)
Commit(j) ==
    /\ cash' = [a \in Accounts |-> VisibleCash(j, a)]
    /\ qty' = [r \in Rows |-> VisibleQty(j, r)]
    /\ net' = [a \in Accounts |-> net[a] + netNew[j][a]]
    /\ held' = [r \in Rows |-> held[r] + heldNew[j][r]]
    /\ IF j = Executor
         THEN /\ status' = [o \in Orders |-> IF mark[o] = "KEEP" THEN status[o] ELSE mark[o]]
              /\ fills' = [o \in Orders |-> IF o \in inserted THEN fills[o] + 1 ELSE fills[o]]
         ELSE UNCHANGED <<status, fills>>
    /\ ForgetSession(j)
    /\ UNCHANGED <<book, cashNew, qtyNew, failures>>
-----------------------------------------------------------------------------
(***************************************************************************)
(* The signal job (generate_signals_and_queue_orders, 15:35) as far as     *)
(* trading sees it: a PENDING order appears.  A BUY is sized by            *)
(* int(cash * position_size_pct / price), so it costs at most the balance  *)
(* at the signal's price; a SELL is for the whole position.  Only the      *)
(* executor reads PENDING rows, so the insert is placed at the read.       *)
(***************************************************************************)
QueueOrder(o) ==
    /\ status[o] = "NONE"
    /\ \E a \in Accounts, t \in Tickers :
         \/ \E q \in Quantities, p \in Prices :
              /\ q * p <= cash[a]
              /\ book' = [book EXCEPT ![o] =
                    [account |-> a, ticker |-> t, side |-> "BUY", qty |-> q]]
         \/ /\ qty[<<a, t>>] > 0
            /\ book' = [book EXCEPT ![o] =
                  [account |-> a, ticker |-> t, side |-> "SELL", qty |-> qty[<<a, t>>]]]
    /\ status' = [status EXCEPT ![o] = "PENDING"]
    /\ UNCHANGED <<cash, qty, fills, net, held, cashRows, qtyRows, pc, cache, seen,
                   deal, sums, executorVars, anomalyVars, failures>>
-----------------------------------------------------------------------------
(***************************************************************************)
(* place_sim_order, called by either job j with the parameters deal[j].    *)
(* It returns to the caller's loop; a ValueError is the caller's to handle *)
(* (the executor marks the order FAILED, the anomaly job goes on).         *)
(***************************************************************************)
(* Mutants: the order is tried again at once; it is taken for a filled     *)
(* one.                                                                    *)
RefuseAndRetry(j) ==
    /\ mark' = IF j = Executor THEN [mark EXCEPT ![current] = "FAILED"] ELSE mark
    /\ UNCHANGED <<pc, deal, cache, seen>>
RefuseAsFilled(j) ==
    /\ pc' = [pc EXCEPT ![j] = "loop"]
    /\ deal' = [deal EXCEPT ![j] = NoDeal]
    /\ mark' = IF j = Executor THEN [mark EXCEPT ![current] = "FILLED"] ELSE mark
    /\ UNCHANGED <<cache, seen>>

(* `except ValueError' of the caller. *)
Refuse(j) ==
    /\ pc' = [pc EXCEPT ![j] = "loop"]
    /\ deal' = [deal EXCEPT ![j] = NoDeal]
    /\ mark' = IF j = Executor THEN [mark EXCEPT ![current] = "FAILED"] ELSE mark
    /\ UNCHANGED <<cache, seen>>

(* BUY: SELECT ... FOR UPDATE on the account; the balance compared and     *)
(* debited is the object's, not the locked row's.  The query for the       *)
(* position autoflushes the debit.                                         *)
LockAccountToBuy(j) ==
    LET d == deal[j]
        a == d.account
    IN  /\ pc[j] = "buy"
        /\ MayLock(cashLock[a], j)
        /\ cashLock' = [cashLock EXCEPT ![a] = j]
        /\ \/ /\ CostScaled(d) > cache[j][a] * Scale
              /\ Refuse(j)
              /\ UNCHANGED cashNew
           \/ /\ CostScaled(d) <= cache[j][a] * Scale
              /\ cache' = [cache EXCEPT ![j][a] = @ - Cost(d)]
              /\ cashNew' = [cashNew EXCEPT ![a] = cache'[j][a]]
              /\ seen' = [seen EXCEPT ![j][d.ticker] = VisibleQty(j, Row(d)) + d.qty]
              /\ pc' = [pc EXCEPT ![j] = "position"]
              /\ UNCHANGED <<deal, mark>>
        /\ UNCHANGED <<tables, qtyRows, sums, batch, current, inserted,
                       anomalyVars, failures>>

(* The shares a position object shows to a SELL: the anomaly job still     *)
(* holds the object its account's query returned, the executor holds none. *)
ObjectQty(j, d) ==
    IF j = Anomaly THEN seen[j][d.ticker] ELSE VisibleQty(j, Row(d))

(* `not position or position.qty < qty', negated.                          *)
(* Mutant: the holding is not compared with the order's quantity.          *)
SellableAnyQty(j, d) == VisibleQty(j, Row(d)) # 0
Sellable(j, d) == VisibleQty(j, Row(d)) # 0 /\ ObjectQty(j, d) >= d.qty

(* SELL: SELECT of the position, no lock; credit and deduction happen in   *)
(* the objects.  The query autoflushes first, so no price may be unsaved.  *)
ReadPositionToSell(j) ==
    LET d == deal[j]
    IN  /\ pc[j] = "sell"
        /\ j = Anomaly => dirty = {}
        /\ \/ /\ ~Sellable(j, d)
              /\ Refuse(j)
           \/ /\ Sellable(j, d)
              /\ cache' = [cache EXCEPT ![j][d.account] = @ + Proceeds(d)]
              /\ seen' = [seen EXCEPT ![j][d.ticker] = ObjectQty(j, d) - d.qty]
              /\ pc' = [pc EXCEPT ![j] = "account"]
              /\ UNCHANGED <<deal, mark>>
        /\ UNCHANGED <<tables, cashRows, qtyRows, sums, batch, current, inserted,
                       anomalyVars, failures>>

(* db.flush(), first statement: UPDATE accounts SET cash_balance = object. *)
FlushAccount(j) ==
    LET a == deal[j].account
    IN  /\ pc[j] = "account"
        /\ MayLock(cashLock[a], j)
        /\ cashLock' = [cashLock EXCEPT ![a] = j]
        /\ cashNew' = [cashNew EXCEPT ![a] = cache[j][a]]
        /\ pc' = [pc EXCEPT ![j] = "position"]
        /\ UNCHANGED <<tables, qtyRows, cache, seen, deal, sums, executorVars,
                       anomalyVars, failures>>

(* Writing the position back fails when the row the object stands for has  *)
(* been deleted (StaleDataError) or when a row to INSERT already exists    *)
(* (unique index).  DELETE of a deleted row is only a warning.             *)
IsNewRow(d, target) == d.side = "BUY" /\ target = d.qty
RowConflict(j) ==
    LET d == deal[j]
        target == seen[j][d.ticker]
    IN  IF IsNewRow(d, target) THEN VisibleQty(j, Row(d)) # 0
        ELSE target # 0 /\ VisibleQty(j, Row(d)) = 0

(* db.flush(), the rest: the position row (INSERT, UPDATE or DELETE) and   *)
(* the FILLED order row; the executor then marks the queued order FILLED.  *)
FlushPosition(j) ==
    LET d == deal[j]
        r == Row(d)
    IN  /\ pc[j] = "position"
        /\ MayLock(qtyLock[r], j)
        /\ ~RowConflict(j)
        /\ qtyLock' = [qtyLock EXCEPT ![r] = j]
        /\ qtyNew' = [qtyNew EXCEPT ![r] = seen[j][d.ticker]]
        /\ netNew' = [netNew EXCEPT ![j][d.account] = @ + Money(d)]
        /\ heldNew' = [heldNew EXCEPT ![j][r] = @ + Shares(d)]
        /\ pc' = [pc EXCEPT ![j] = "loop"]
        /\ deal' = [deal EXCEPT ![j] = NoDeal]
        /\ IF j = Executor
             THEN /\ inserted' = inserted \cup {current}
                  /\ mark' = [mark EXCEPT ![current] = "FILLED"]
             ELSE UNCHANGED <<inserted, mark>>
        /\ UNCHANGED <<tables, cashRows, cache, seen, batch, current,
                       anomalyVars, failures>>

FlushPositionFails(j) ==
    /\ pc[j] = "position"
    /\ MayLock(qtyLock[Row(deal[j])], j)
    /\ RowConflict(j)
    /\ Rollback(j)
    /\ UNCHANGED failures
-----------------------------------------------------------------------------
(* execute_pending_orders: SELECT the PENDING orders, no ORDER BY.         *)
(* Mutants: FAILED orders are tried again; any order is.                   *)
SelectedOrFailed == {o \in Orders : status[o] \in {"PENDING", "FAILED"}}
SelectedAll == {o \in Orders : status[o] # "NONE"}
Selected == {o \in Orders : status[o] = "PENDING"}

StartExecutor ==
    /\ pc[Executor] = "idle"
    /\ pc' = [pc EXCEPT ![Executor] = "loop"]
    /\ batch' = Selected
    /\ UNCHANGED <<tables, cashRows, qtyRows, cache, seen, deal, sums, current,
                   mark, inserted, anomalyVars, failures>>

(* The account object of the previous turn is still referenced, so the     *)
(* same account is not read again; any other account is.                   *)
(* Mutant: accounts are read in a session of their own.                    *)
LoadedCashElsewhere(a) == cash[a]
LoadedCash(a) ==
    IF cache[Executor][a] = NotLoaded THEN VisibleCash(Executor, a)
    ELSE cache[Executor][a]

(* No price: FAILED.  Mutant: the order is only skipped. *)
SkipOrder(o) == UNCHANGED mark
FailOrder(o) == mark' = [mark EXCEPT ![o] = "FAILED"]

(* One turn of the loop. *)
NextOrder(o) ==
    /\ pc[Executor] = "loop"
    /\ o \in batch
    /\ batch' = batch \ {o}
    /\ current' = o
    /\ \/ /\ FailOrder(o)
          /\ UNCHANGED <<pc, cache, deal>>
       \/ LET a == book[o].account
          IN  /\ cache' = [cache EXCEPT ![Executor] =
                    [Nothing(Accounts, NotLoaded) EXCEPT ![a] = LoadedCash(a)]]
              /\ \E p \in Prices :
                   deal' = [deal EXCEPT ![Executor] =
                     [account |-> a, ticker |-> book[o].ticker, side |-> book[o].side,
                      qty |-> book[o].qty, price |-> p]]
              /\ pc' = [pc EXCEPT ![Executor] =
                          IF book[o].side = "BUY" THEN "buy" ELSE "sell"]
              /\ UNCHANGED mark
    /\ UNCHANGED <<tables, cashRows, qtyRows, seen, sums, inserted, anomalyVars,
                   failures>>

CommitExecutor ==
    /\ pc[Executor] = "loop"
    /\ batch = {}
    /\ Commit(Executor)
-----------------------------------------------------------------------------
(* check_anomalies: every active account is loaded once, for the whole run. *)
StartAnomaly ==
    /\ pc[Anomaly] = "idle"
    /\ pc' = [pc EXCEPT ![Anomaly] = "loop"]
    /\ cache' = [cache EXCEPT ![Anomaly] = cash]
    /\ accountsLeft' = Accounts
    /\ UNCHANGED <<tables, cashRows, qtyRows, seen, deal, sums, executorVars,
                   scanned, tickersLeft, dirty, failures>>

(* The session is about to flush: before the positions of the next account *)
(* are selected, before the position of an emergency sell is selected, and *)
(* at the commit.                                                          *)
AtFlush == pc[Anomaly] = "sell" \/ (pc[Anomaly] = "loop" /\ tickersLeft = {})

(* UPDATE positions SET current_price, unrealized_pnl: it leaves qty alone *)
(* and keeps the row lock until the end of the run.                        *)
FlushPrice(r) ==
    /\ AtFlush
    /\ r \in dirty
    /\ MayLock(qtyLock[r], Anomaly)
    /\ VisibleQty(Anomaly, r) # 0
    /\ qtyLock' = [qtyLock EXCEPT ![r] = Anomaly]
    /\ dirty' = dirty \ {r}
    /\ UNCHANGED <<tables, cashRows, qtyNew, pc, cache, seen, deal, sums,
                   executorVars, accountsLeft, scanned, tickersLeft, failures>>

(* The row is gone: UPDATE matches 0 rows, StaleDataError. *)
FlushPriceFails(r) ==
    /\ AtFlush
    /\ r \in dirty
    /\ MayLock(qtyLock[r], Anomaly)
    /\ VisibleQty(Anomaly, r) = 0
    /\ Rollback(Anomaly)
    /\ UNCHANGED failures

(* Next account: skipped when its user wants no alerts, otherwise its      *)
(* positions are loaded.                                                   *)
ScanAccount(a) ==
    /\ pc[Anomaly] = "loop"
    /\ tickersLeft = {} /\ dirty = {}
    /\ a \in accountsLeft
    /\ accountsLeft' = accountsLeft \ {a}
    /\ \/ UNCHANGED <<scanned, seen, tickersLeft>>
       \/ /\ scanned' = a
          /\ seen' = [seen EXCEPT ![Anomaly] =
                        [t \in Tickers |-> VisibleQty(Anomaly, <<a, t>>)]]
          /\ tickersLeft' = {t \in Tickers : VisibleQty(Anomaly, <<a, t>>) > 0}
    /\ UNCHANGED <<tables, cashRows, qtyRows, pc, cache, deal, sums, executorVars,
                   dirty, failures>>

(* Next position: no price or the price it already had (nothing to save),  *)
(* or a new price; then, after a crash of the price and with auto-sell     *)
(* enabled, an emergency sell of every share the object shows.             *)
CheckPosition(t) ==
    /\ pc[Anomaly] = "loop"
    /\ t \in tickersLeft
    /\ tickersLeft' = tickersLeft \ {t}
    /\ dirty' \in {dirty, dirty \cup {<<scanned, t>>}}
    /\ \/ UNCHANGED <<pc, deal>>
       \/ /\ pc' = [pc EXCEPT ![Anomaly] = "sell"]
          /\ \E p \in Prices :
               deal' = [deal EXCEPT ![Anomaly] =
                 [account |-> scanned, ticker |-> t, side |-> "SELL",
                  qty |-> seen[Anomaly][t], price |-> p]]
    /\ UNCHANGED <<tables, cashRows, qtyRows, cache, seen, sums, executorVars,
                   accountsLeft, scanned, failures>>

CommitAnomaly ==
    /\ pc[Anomaly] = "loop"
    /\ accountsLeft = {} /\ tickersLeft = {} /\ dirty = {}
    /\ Commit(Anomaly)
-----------------------------------------------------------------------------
(* Job j waits for a row that job k has locked. *)
WaitsFor(j, k) ==
    \/ pc[j] \in {"buy", "account"} /\ cashLock[deal[j].account] = k
    \/ pc[j] = "position" /\ qtyLock[Row(deal[j])] = k
    \/ j = Anomaly /\ AtFlush /\ \E r \in dirty : qtyLock[r] = k

(* PostgreSQL breaks a cycle by failing one of the statements. *)
BreakDeadlock(j) ==
    /\ \E k \in Jobs \ {j} : WaitsFor(j, k) /\ WaitsFor(k, j)
    /\ Rollback(j)
    /\ UNCHANGED failures

(* The process dies or the database fails in the middle of a job. *)
LoseTransaction(j) ==
    /\ pc[j] # "idle"
    /\ failures < MaxFailures
    /\ failures' = failures + 1
    /\ Rollback(j)

PlaceSimOrder(j) ==
    \/ LockAccountToBuy(j)
    \/ ReadPositionToSell(j)
    \/ FlushAccount(j)
    \/ FlushPosition(j)
    \/ FlushPositionFails(j)

RunExecutor ==
    \/ \E o \in Orders : NextOrder(o)
    \/ PlaceSimOrder(Executor)
    \/ CommitExecutor

RunAnomaly ==
    \/ \E a \in Accounts : ScanAccount(a)
    \/ \E t \in Tickers : CheckPosition(t)
    \/ \E r \in Rows : FlushPrice(r) \/ FlushPriceFails(r)
    \/ PlaceSimOrder(Anomaly)
    \/ CommitAnomaly

Next ==
    \/ \E o \in Orders : QueueOrder(o)
    \/ StartExecutor
    \/ StartAnomaly
    \/ RunExecutor
    \/ RunAnomaly
    \/ \E j \in Jobs : BreakDeadlock(j) \/ LoseTransaction(j)

(* 09:05 and every five minutes: the jobs may overlap. *)
Spec == Init /\ [][Next]_vars

(* A day on which the anomaly run of 09:05 is over before the executor     *)
(* starts, and so on: at most one job has a session.                       *)
OneJob == pc[Executor] = "idle" \/ pc[Anomaly] = "idle"
SerialSpec == Init /\ [][Next /\ OneJob']_vars
-----------------------------------------------------------------------------
(* A row lock is granted in the order in which it was asked for, so a job  *)
(* that keeps waiting gets its row; a deadlock is noticed after a second.  *)
FairSpec ==
    /\ Spec
    /\ SF_vars(RunExecutor) /\ SF_vars(RunAnomaly)
    /\ \A j \in Jobs : WF_vars(BreakDeadlock(j))

(* The cron trigger of 09:05 fires every day; anomaly runs end by themselves. *)
FairSerialSpec ==
    /\ SerialSpec
    /\ SF_vars(StartExecutor /\ OneJob')
    /\ WF_vars(RunExecutor /\ OneJob') /\ WF_vars(RunAnomaly /\ OneJob')
-----------------------------------------------------------------------------
(* Neither the balance nor a position is ever negative, whatever stale     *)
(* object the row was overwritten from: kis_service.py checks the object,  *)
(* and writes what is left of that same object.                            *)
Solvent ==
    /\ \A a \in Accounts : cash[a] >= 0 /\ cashNew[a] >= 0
    /\ \A r \in Rows : qty[r] >= 0 /\ qtyNew[r] >= 0

(* A queued order is filled once: it is FILLED exactly when one FILLED row *)
(* of place_sim_order stands for it, through retries on the next day,      *)
(* overlapping jobs, rollbacks and crashes before the final commit.        *)
ExactlyOnce ==
    \A o \in Orders : fills[o] = IF status[o] = "FILLED" THEN 1 ELSE 0

(* A FILLED or FAILED order is never reopened or changed. *)
TerminalStatus ==
    [][\A o \in Orders : status[o] \in {"FILLED", "FAILED"} =>
            status'[o] = status[o] /\ book'[o] = book[o]]_vars

(* The books balance: the balance is the initial one plus what the FILLED  *)
(* rows say was earned and minus what they say was spent, and a position   *)
(* is what they say was bought less what was sold.                         *)
LedgerBalanced ==
    /\ \A a \in Accounts : cash[a] = InitialCash[a] + net[a]
    /\ \A r \in Rows : qty[r] = InitialQty[r] + held[r]

(* "Lock the account row to prevent concurrent double-spend": what was     *)
(* spent never exceeds what there was to spend.                            *)
NoDoubleSpend == \A a \in Accounts : InitialCash[a] + net[a] >= 0

(* Every run of a job ends, in a commit or a rollback: no job waits for    *)
(* ever for a row the other one holds.                                     *)
RunsEnd == \A j \in Jobs : pc[j] # "idle" ~> pc[j] = "idle"

(* Every queued order is eventually FILLED or FAILED, also when            *)
(* transactions were lost before.                                          *)
PendingSettles ==
    \A o \in Orders : status[o] = "PENDING" ~> status[o] \in {"FILLED", "FAILED"}
-----------------------------------------------------------------------------
(* When the two jobs do not overlap, they implement SimBooks: the copy of  *)
(* the books a run works on is the committed rows and what its session has *)
(* written so far, whether an amount is still an object, a locked row or   *)
(* nowhere but in a FILLED row to be inserted.                             *)
Runner == IF pc[Executor] # "idle" THEN Executor
          ELSE IF pc[Anomaly] # "idle" THEN Anomaly ELSE "nobody"
Work == [a \in Accounts |-> cash[a] + netNew[Executor][a] + netNew[Anomaly][a]]
Stock == [r \in Rows |-> qty[r] + heldNew[Executor][r] + heldNew[Anomaly][r]]

Books == INSTANCE SimBooks WITH
    Cost <- CostOf, Proceeds <- ProceedsOf, Nobody <- "nobody",
    runner <- Runner, work <- Work, stock <- Stock, outcome <- mark

BooksSpec == Books!Spec
=============================================================================
