-------------------------- MODULE SimTradingProofs --------------------------
(***************************************************************************)
(* Theorems about SimTrading, for every value of its constants.            *)
(***************************************************************************)
EXTENDS SimTrading, TLAPS

(* The default values of a session are values of their types. *)
LEMMA NoDealType == NoDeal \in Deals
BY SimAssumption DEF NoDeal, Deals, Sides

LEMMA NoRequestType == NoRequest \in Requests
BY SimAssumption DEF NoRequest, Requests, Sides

(* int() of a non-negative amount: integer division. *)
LEMMA DivFact ==
    ASSUME NEW n \in Nat, NEW d \in Nat \ {0}
    PROVE  n \div d \in Nat
OBVIOUS

LEMMA DivBound ==
    ASSUME NEW n \in Nat, NEW d \in Nat \ {0}, NEW c \in Int, n <= c * d
    PROVE  n \div d <= c
OBVIOUS

LEMMA CostRounded ==
    ASSUME NEW x
    PROVE  Cost(x) = CostScaled(x) \div Scale
BY DEF Cost, CostOf, CostScaled

(* A trade moves whole, non-negative amounts. *)
LEMMA DealMoney ==
    ASSUME NEW x \in Deals
    PROVE  /\ CostScaled(x) \in Nat /\ Cost(x) \in Nat /\ Proceeds(x) \in Nat
           /\ Money(x) \in Int /\ Shares(x) \in Int
           /\ Row(x) \in Rows
<1>1. x.qty \in Nat /\ x.price \in Nat /\ x.account \in Accounts /\ x.ticker \in Tickers
  BY SimAssumption DEF Deals
<1>2. x.qty * x.price \in Nat
  BY <1>1
<1>3. Scale + BuyFee \in Nat /\ Scale - SellFee \in Nat
  BY SimAssumption
<1>4. CostScaled(x) \in Nat
  BY <1>2, <1>3 DEF CostScaled
<1>5. x.qty * x.price * (Scale - SellFee) \in Nat
  BY <1>2, <1>3
<1>6. Cost(x) \in Nat /\ Proceeds(x) \in Nat
  <2>1. Proceeds(x) = (x.qty * x.price * (Scale - SellFee)) \div Scale
    BY DEF Proceeds, ProceedsOf
  <2>2. QED
    BY <1>4, <1>5, <2>1, CostRounded, DivFact, SimAssumption
<1>7. QED
  BY <1>1, <1>4, <1>6 DEF Money, Shares, Row, Rows
-----------------------------------------------------------------------------
LEMMA InitType == Init => TypeOK
<1> SUFFICES ASSUME Init PROVE TypeOK
  OBVIOUS
<1> QED
  BY NoDealType, NoRequestType, SimAssumption
  DEF Init, TypeOK, Nothing, Rows, Jobs, Executor, Anomaly, NoOrder, NoAccount, NotLoaded,
      Unlocked

(* Leaving a session resets its locals to values of their types. *)
LEMMA ForgetType ==
    ASSUME TypeOK, NEW j \in Jobs, ForgetSession(j)
    PROVE  /\ pc' \in [Jobs -> {"idle", "loop", "buy", "sell", "account", "position"}]
           /\ cache' \in [Jobs -> [Accounts -> Int]]
           /\ seen' \in [Jobs -> [Tickers -> Int]]
           /\ deal' \in [Jobs -> Deals]
           /\ netNew' \in [Jobs -> [Accounts -> Int]]
           /\ heldNew' \in [Jobs -> [Rows -> Int]]
           /\ cashLock' \in [Accounts -> Jobs \cup {Unlocked}]
           /\ qtyLock' \in [Rows -> Jobs \cup {Unlocked}]
           /\ batch' \subseteq Orders /\ current' \in Orders /\ inserted' \subseteq Orders
           /\ mark' \in [Orders -> {"KEEP", "FILLED", "FAILED"}]
           /\ accountsLeft' \subseteq Accounts /\ scanned' \in Accounts
           /\ tickersLeft' \subseteq Tickers /\ dirty' \subseteq Rows
<1>1. NoOrder \in Orders /\ NoAccount \in Accounts
  BY SimAssumption DEF NoOrder, NoAccount
<1>2. CASE j = Executor
  BY <1>1, <1>2, NoDealType DEF TypeOK, ForgetSession, ReleaseLocks, Nothing, NotLoaded, anomalyVars
<1>3. CASE j # Executor
  BY <1>1, <1>3, NoDealType
  DEF TypeOK, ForgetSession, ReleaseLocks, Nothing, NotLoaded, executorVars
<1> QED
  BY <1>2, <1>3

LEMMA RollbackType ==
    ASSUME TypeOK, NEW j \in Jobs, Rollback(j), failures' \in 0..MaxFailures
    PROVE  TypeOK'
<1>1. ForgetSession(j) /\ UNCHANGED tables
  BY DEF Rollback
<1>2. cashNew' \in [Accounts -> Int] /\ qtyNew' \in [Rows -> Int]
  BY DEF Rollback, TypeOK
<1> QED
  BY <1>1, <1>2, ForgetType DEF TypeOK, tables

LEMMA CommitType ==
    ASSUME TypeOK, NEW j \in Jobs, Commit(j)
    PROVE  TypeOK'
<1>1. ForgetSession(j)
  BY DEF Commit
<1>2. cash' \in [Accounts -> Int] /\ qty' \in [Rows -> Int]
  BY DEF Commit, TypeOK, VisibleCash, VisibleQty
<1>3. net' \in [Accounts -> Int] /\ held' \in [Rows -> Int]
  BY DEF Commit, TypeOK
<1>4. /\ status' \in [Orders -> {"NONE", "PENDING", "FILLED", "FAILED"}]
      /\ fills' \in [Orders -> Nat]
  <2>1. CASE j = Executor
    <3>1. status' = [o \in Orders |-> IF mark[o] = "KEEP" THEN status[o] ELSE mark[o]]
      BY <2>1 DEF Commit
    <3>2. fills' = [o \in Orders |-> IF o \in inserted THEN fills[o] + 1 ELSE fills[o]]
      BY <2>1 DEF Commit
    <3> QED
      BY <3>1, <3>2 DEF TypeOK
  <2>2. CASE j # Executor
    BY <2>2 DEF Commit, TypeOK
  <2> QED
    BY <2>1, <2>2
<1>5. UNCHANGED <<book, cashNew, qtyNew, failures>>
  BY DEF Commit
<1> QED
  BY <1>1, <1>2, <1>3, <1>4, <1>5, ForgetType DEF TypeOK
-----------------------------------------------------------------------------
(* Each action keeps the types. *)
LEMMA QueueOrderType ==
    ASSUME TypeOK, NEW o \in Orders, QueueOrder(o)
    PROVE  TypeOK'
<1>1. book' \in [Orders -> Requests]
  <2>1. \E req \in Requests : book' = [book EXCEPT ![o] = req]
    <3>1. PICK a \in Accounts, t \in Tickers :
           \/ \E q \in Quantities :
                 book' = [book EXCEPT ![o] =
                    [account |-> a, ticker |-> t, side |-> "BUY", qty |-> q]]
           \/ /\ qty[<<a, t>>] > 0
              /\ book' = [book EXCEPT ![o] =
                    [account |-> a, ticker |-> t, side |-> "SELL", qty |-> qty[<<a, t>>]]]
      BY DEF QueueOrder
    <3>2. \A q \in Nat \ {0}, s \in Sides :
              [account |-> a, ticker |-> t, side |-> s, qty |-> q] \in Requests
      BY DEF Requests
    <3>3. <<a, t>> \in Rows /\ qty[<<a, t>>] \in Int
      BY DEF Rows, TypeOK
    <3>4. CASE \E q \in Quantities :
                 book' = [book EXCEPT ![o] =
                    [account |-> a, ticker |-> t, side |-> "BUY", qty |-> q]]
      BY <3>2, <3>4, SimAssumption DEF Sides
    <3>5. CASE /\ qty[<<a, t>>] > 0
               /\ book' = [book EXCEPT ![o] =
                    [account |-> a, ticker |-> t, side |-> "SELL", qty |-> qty[<<a, t>>]]]
      <4>1. qty[<<a, t>>] \in Nat \ {0}
        BY <3>3, <3>5
      <4>2. [account |-> a, ticker |-> t, side |-> "SELL", qty |-> qty[<<a, t>>]]
                \in Requests
        BY <3>2, <4>1 DEF Sides
      <4> QED
        BY <3>5, <4>2
    <3> QED
      BY <3>1, <3>4, <3>5
  <2> QED
    BY <2>1 DEF TypeOK
<1>2. status' \in [Orders -> {"NONE", "PENDING", "FILLED", "FAILED"}]
  BY DEF QueueOrder, TypeOK
<1> QED
  BY <1>1, <1>2 DEF QueueOrder, TypeOK, cashRows, qtyRows, sums, executorVars, anomalyVars

LEMMA StartExecutorType ==
    ASSUME TypeOK, StartExecutor
    PROVE  TypeOK'
BY DEF StartExecutor, Selected, TypeOK, tables, cashRows, qtyRows, sums, anomalyVars

LEMMA NextOrderType ==
    ASSUME TypeOK, NEW o \in Orders, NextOrder(o)
    PROVE  TypeOK'
<1>1. Executor \in Jobs /\ book[o] \in Requests /\ book[o].account \in Accounts
  BY DEF Jobs, TypeOK, Requests
<1>2. /\ pc' \in [Jobs -> {"idle", "loop", "buy", "sell", "account", "position"}]
      /\ mark' \in [Orders -> {"KEEP", "FILLED", "FAILED"}]
  BY <1>1 DEF NextOrder, FailOrder, TypeOK
<1>3. deal' \in [Jobs -> Deals]
  <2>1. CASE UNCHANGED deal
    BY <2>1 DEF TypeOK
  <2>2. CASE ~UNCHANGED deal
    <3>1. PICK p \in Prices :
            deal' = [deal EXCEPT ![Executor] =
              [account |-> book[o].account, ticker |-> book[o].ticker,
               side |-> book[o].side, qty |-> book[o].qty, price |-> p]]
      BY <2>2 DEF NextOrder
    <3>2. [account |-> book[o].account, ticker |-> book[o].ticker,
           side |-> book[o].side, qty |-> book[o].qty, price |-> p] \in Deals
      BY <1>1 DEF Requests, Deals
    <3> QED
      BY <1>1, <3>1, <3>2 DEF TypeOK
  <2> QED
    BY <2>1, <2>2
<1>4. cache' \in [Jobs -> [Accounts -> Int]]
  <2>1. CASE UNCHANGED cache
    BY <2>1 DEF TypeOK
  <2>2. CASE ~UNCHANGED cache
    <3> DEFINE a == book[o].account
               c == [Nothing(Accounts, NotLoaded) EXCEPT ![a] = LoadedCash(a)]
    <3>1. cache' = [cache EXCEPT ![Executor] = c]
      BY <2>2 DEF NextOrder
    <3>2. c \in [Accounts -> Int]
      BY <1>1 DEF TypeOK, LoadedCash, VisibleCash, Nothing, NotLoaded
    <3> QED
      BY <1>1, <3>1, <3>2 DEF TypeOK
  <2> QED
    BY <2>1, <2>2
<1>5. batch' \subseteq Orders /\ current' \in Orders
  BY DEF NextOrder, TypeOK
<1> QED
  BY <1>2, <1>3, <1>4, <1>5
  DEF NextOrder, TypeOK, tables, cashRows, qtyRows, sums, anomalyVars

LEMMA StartAnomalyType ==
    ASSUME TypeOK, StartAnomaly
    PROVE  TypeOK'
BY DEF StartAnomaly, TypeOK, tables, cashRows, qtyRows, sums, executorVars

LEMMA FlushPriceType ==
    ASSUME TypeOK, NEW r \in Rows, FlushPrice(r)
    PROVE  TypeOK'
BY DEF FlushPrice, TypeOK, tables, cashRows, sums, executorVars, Jobs

LEMMA ScanAccountType ==
    ASSUME TypeOK, NEW a \in Accounts, ScanAccount(a)
    PROVE  TypeOK'
<1>1. \A t \in Tickers : VisibleQty(Anomaly, <<a, t>>) \in Int
  BY DEF TypeOK, VisibleQty, Rows
<1>2. /\ seen' \in [Jobs -> [Tickers -> Int]]
      /\ scanned' \in Accounts /\ tickersLeft' \subseteq Tickers
  <2>1. CASE UNCHANGED <<scanned, seen, tickersLeft>>
    BY <2>1 DEF TypeOK
  <2>2. CASE ~UNCHANGED <<scanned, seen, tickersLeft>>
    <3> DEFINE f == [t \in Tickers |-> VisibleQty(Anomaly, <<a, t>>)]
    <3>1. /\ scanned' = a
          /\ seen' = [seen EXCEPT ![Anomaly] = f]
          /\ tickersLeft' \subseteq Tickers
      BY <2>2 DEF ScanAccount
    <3>2. f \in [Tickers -> Int]
      BY <1>1
    <3> HIDE DEF f
    <3> QED
      BY <3>1, <3>2 DEF TypeOK
  <2> QED
    BY <2>1, <2>2
<1> QED
  BY <1>2 DEF ScanAccount, TypeOK, tables, cashRows, qtyRows, sums, executorVars

LEMMA CheckPositionType ==
    ASSUME TypeOK, NEW t \in Tickers, CheckPosition(t),
           seen[Anomaly][t] \in Nat
    PROVE  TypeOK'
<1>1. /\ pc' \in [Jobs -> {"idle", "loop", "buy", "sell", "account", "position"}]
      /\ deal' \in [Jobs -> Deals]
  <2>1. CASE UNCHANGED <<pc, deal>>
    BY <2>1 DEF TypeOK
  <2>2. CASE ~UNCHANGED <<pc, deal>>
    <3>1. PICK p \in Prices :
            /\ pc' = [pc EXCEPT ![Anomaly] = "sell"]
            /\ deal' = [deal EXCEPT ![Anomaly] =
                 [account |-> scanned, ticker |-> t, side |-> "SELL",
                  qty |-> seen[Anomaly][t], price |-> p]]
      BY <2>2 DEF CheckPosition
    <3>2. [account |-> scanned, ticker |-> t, side |-> "SELL",
           qty |-> seen[Anomaly][t], price |-> p] \in Deals
      BY DEF TypeOK, Deals, Sides
    <3> QED
      BY <3>1, <3>2 DEF TypeOK
  <2> QED
    BY <2>1, <2>2
<1>2. tickersLeft' \subseteq Tickers /\ dirty' \subseteq Rows
  BY DEF CheckPosition, TypeOK, Rows
<1> QED
  BY <1>1, <1>2 DEF CheckPosition, TypeOK, tables, cashRows, qtyRows, sums, executorVars

LEMMA DealType ==
    ASSUME TypeOK, NEW j \in Jobs
    PROVE  /\ deal[j] \in Deals /\ deal[j].account \in Accounts
           /\ deal[j].ticker \in Tickers /\ deal[j].qty \in Nat
           /\ Row(deal[j]) \in Rows
           /\ VisibleQty(j, Row(deal[j])) \in Int
           /\ ObjectQty(j, deal[j]) \in Int
<1>1. deal[j] \in Deals
  BY DEF TypeOK
<1>2. /\ deal[j].account \in Accounts /\ deal[j].ticker \in Tickers
      /\ deal[j].qty \in Nat
  BY <1>1 DEF Deals
<1>3. Row(deal[j]) \in Rows
  BY <1>2 DEF Row, Rows
<1>4. VisibleQty(j, Row(deal[j])) \in Int
  BY <1>3 DEF TypeOK, VisibleQty
<1>5. ObjectQty(j, deal[j]) \in Int
  BY <1>2, <1>4 DEF TypeOK, ObjectQty
<1> QED
  BY <1>1, <1>2, <1>3, <1>4, <1>5

LEMMA RefuseType ==
    ASSUME TypeOK, NEW j \in Jobs, Refuse(j)
    PROVE  /\ pc' \in [Jobs -> {"idle", "loop", "buy", "sell", "account", "position"}]
           /\ deal' \in [Jobs -> Deals]
           /\ mark' \in [Orders -> {"KEEP", "FILLED", "FAILED"}]
           /\ UNCHANGED <<cache, seen>>
BY NoDealType DEF Refuse, TypeOK

LEMMA LockAccountToBuyType ==
    ASSUME TypeOK, NEW j \in Jobs, LockAccountToBuy(j)
    PROVE  TypeOK'
<1> DEFINE d == deal[j]
           a == deal[j].account
<1>1. cashLock' \in [Accounts -> Jobs \cup {Unlocked}]
  BY DEF LockAccountToBuy, TypeOK
<1>2. UNCHANGED <<tables, qtyRows, sums, batch, current, inserted, anomalyVars, failures>>
  BY DEF LockAccountToBuy
<1>3. CASE Refuse(j) /\ UNCHANGED cashNew
  BY <1>1, <1>2, <1>3, RefuseType DEF TypeOK, tables, qtyRows, sums, anomalyVars
<1>4. CASE ~(Refuse(j) /\ UNCHANGED cashNew)
  <2>1. /\ cache' = [cache EXCEPT ![j][a] = @ - Cost(d)]
        /\ cashNew' = [cashNew EXCEPT ![a] = cache'[j][a]]
        /\ seen' = [seen EXCEPT ![j][d.ticker] = VisibleQty(j, Row(d)) + d.qty]
        /\ pc' = [pc EXCEPT ![j] = "position"]
        /\ UNCHANGED <<deal, mark>>
    BY <1>4 DEF LockAccountToBuy
  <2>2. /\ d \in Deals /\ a \in Accounts /\ Cost(d) \in Int
        /\ VisibleQty(j, Row(d)) + d.qty \in Int
    BY DealType, DealMoney
  <2> HIDE DEF d, a
  <2>3. cache' \in [Jobs -> [Accounts -> Int]]
    BY <2>1, <2>2 DEF TypeOK
  <2>4. cashNew' \in [Accounts -> Int]
    BY <2>1, <2>2, <2>3 DEF TypeOK
  <2>5. /\ seen' \in [Jobs -> [Tickers -> Int]]
        /\ pc' \in [Jobs -> {"idle", "loop", "buy", "sell", "account", "position"}]
    BY <2>1, <2>2 DEF TypeOK
  <2> QED
    BY <1>1, <1>2, <2>1, <2>3, <2>4, <2>5 DEF TypeOK, tables, qtyRows, sums, anomalyVars
<1> QED
  BY <1>3, <1>4

LEMMA ReadPositionToSellType ==
    ASSUME TypeOK, NEW j \in Jobs, ReadPositionToSell(j)
    PROVE  TypeOK'
<1> DEFINE d == deal[j]
<1>1. UNCHANGED <<tables, cashRows, qtyRows, sums, batch, current, inserted, anomalyVars,
                  failures>>
  BY DEF ReadPositionToSell
<1>2. CASE Refuse(j)
  BY <1>1, <1>2, RefuseType DEF TypeOK, tables, cashRows, qtyRows, sums, anomalyVars
<1>3. CASE ~Refuse(j)
  <2>1. /\ cache' = [cache EXCEPT ![j][d.account] = @ + Proceeds(d)]
        /\ seen' = [seen EXCEPT ![j][d.ticker] = ObjectQty(j, d) - d.qty]
        /\ pc' = [pc EXCEPT ![j] = "account"]
        /\ UNCHANGED <<deal, mark>>
    BY <1>3 DEF ReadPositionToSell
  <2>2. /\ Proceeds(d) \in Int /\ ObjectQty(j, d) - d.qty \in Int
        /\ d.account \in Accounts /\ d.ticker \in Tickers
    BY DealType, DealMoney
  <2> HIDE DEF d
  <2>3. /\ cache' \in [Jobs -> [Accounts -> Int]]
        /\ seen' \in [Jobs -> [Tickers -> Int]]
        /\ pc' \in [Jobs -> {"idle", "loop", "buy", "sell", "account", "position"}]
    BY <2>1, <2>2 DEF TypeOK
  <2> QED
    BY <1>1, <2>1, <2>3 DEF TypeOK, tables, cashRows, qtyRows, sums, anomalyVars
<1> QED
  BY <1>2, <1>3

LEMMA FlushAccountType ==
    ASSUME TypeOK, NEW j \in Jobs, FlushAccount(j)
    PROVE  TypeOK'
BY DealType DEF FlushAccount, TypeOK, tables, qtyRows, sums, executorVars, anomalyVars

LEMMA FlushPositionType ==
    ASSUME TypeOK, NEW j \in Jobs, FlushPosition(j)
    PROVE  TypeOK'
<1> DEFINE d == deal[j]
           r == Row(deal[j])
<1>1. /\ d \in Deals /\ r \in Rows /\ seen[j][d.ticker] \in Int
      /\ Money(d) \in Int /\ Shares(d) \in Int /\ d.account \in Accounts
  BY DealType, DealMoney DEF TypeOK
<1>2. /\ qtyLock' = [qtyLock EXCEPT ![r] = j]
      /\ qtyNew' = [qtyNew EXCEPT ![r] = seen[j][d.ticker]]
      /\ netNew' = [netNew EXCEPT ![j][d.account] = @ + Money(d)]
      /\ heldNew' = [heldNew EXCEPT ![j][r] = @ + Shares(d)]
      /\ pc' = [pc EXCEPT ![j] = "loop"]
      /\ deal' = [deal EXCEPT ![j] = NoDeal]
      /\ UNCHANGED <<tables, cashRows, cache, seen, batch, current, anomalyVars, failures>>
  BY DEF FlushPosition
<1>3. /\ inserted' \subseteq Orders
      /\ mark' \in [Orders -> {"KEEP", "FILLED", "FAILED"}]
  <2>1. CASE j = Executor
    BY <2>1 DEF FlushPosition, TypeOK
  <2>2. CASE j # Executor
    BY <2>2 DEF FlushPosition, TypeOK
  <2> QED
    BY <2>1, <2>2
<1> HIDE DEF d, r
<1>4. /\ qtyLock' \in [Rows -> Jobs \cup {Unlocked}]
      /\ qtyNew' \in [Rows -> Int]
      /\ netNew' \in [Jobs -> [Accounts -> Int]]
      /\ heldNew' \in [Jobs -> [Rows -> Int]]
      /\ pc' \in [Jobs -> {"idle", "loop", "buy", "sell", "account", "position"}]
      /\ deal' \in [Jobs -> Deals]
  BY <1>1, <1>2, NoDealType DEF TypeOK
<1> QED
  BY <1>2, <1>3, <1>4 DEF TypeOK, tables, cashRows, anomalyVars
-----------------------------------------------------------------------------
(***************************************************************************)
(* Solvent is inductive together with what the sessions hold: no object    *)
(* shows a negative balance or position, and a trade in progress has its   *)
(* account loaded (NotLoaded is negative).                                 *)
(***************************************************************************)
Trading(j) == pc[j] \in {"buy", "sell", "account", "position"}

Covered ==
    /\ Solvent
    /\ \A j \in Jobs, t \in Tickers : seen[j][t] >= 0
    /\ \A j \in Jobs, a \in Accounts : cache[j][a] >= NotLoaded
    /\ pc[Anomaly] # "idle" => \A a \in Accounts : cache[Anomaly][a] >= 0
    /\ \A j \in Jobs : Trading(j) => cache[j][deal[j].account] >= 0

Inv == TypeOK /\ Covered

LEMMA InitCovered == Init => Covered
BY SimAssumption
DEF Init, Covered, Solvent, Trading, Nothing, NotLoaded, Rows, Jobs, Executor, Anomaly

(* The values a transaction sees are never negative either. *)
LEMMA VisibleCovered ==
    ASSUME TypeOK, Solvent, NEW j \in Jobs
    PROVE  /\ \A a \in Accounts : VisibleCash(j, a) >= 0
           /\ \A r \in Rows : VisibleQty(j, r) >= 0
BY DEF TypeOK, Solvent, VisibleCash, VisibleQty

LEMMA ForgetCovered ==
    ASSUME TypeOK, Covered, NEW j \in Jobs, ForgetSession(j), Solvent'
    PROVE  Covered'
<1>1. /\ pc' = [pc EXCEPT ![j] = "idle"]
      /\ cache' = [cache EXCEPT ![j] = Nothing(Accounts, NotLoaded)]
      /\ seen' = [seen EXCEPT ![j] = Nothing(Tickers, 0)]
      /\ deal' = [deal EXCEPT ![j] = NoDeal]
  BY DEF ForgetSession, ReleaseLocks
<1>2. \A k \in Jobs, t \in Tickers : seen'[k][t] >= 0
  BY <1>1 DEF Covered, TypeOK, Nothing
<1>3. \A k \in Jobs, a \in Accounts : cache'[k][a] >= NotLoaded
  BY <1>1 DEF Covered, TypeOK, Nothing, NotLoaded
<1>4. pc'[Anomaly] # "idle" => \A a \in Accounts : cache'[Anomaly][a] >= 0
  BY <1>1 DEF Covered, TypeOK, Jobs
<1>5. \A k \in Jobs : Trading(k)' => cache'[k][deal'[k].account] >= 0
  BY <1>1 DEF Covered, TypeOK, Trading
<1> QED
  BY <1>2, <1>3, <1>4, <1>5 DEF Covered

LEMMA RollbackCovered ==
    ASSUME TypeOK, Covered, NEW j \in Jobs, Rollback(j)
    PROVE  Covered'
<1>1. Solvent'
  BY DEF Rollback, tables, Covered, Solvent, TypeOK
<1> QED
  BY <1>1, ForgetCovered DEF Rollback

LEMMA CommitCovered ==
    ASSUME TypeOK, Covered, NEW j \in Jobs, Commit(j)
    PROVE  Covered'
<1>1. Solvent'
  BY VisibleCovered DEF Commit, Covered, Solvent, TypeOK
<1> QED
  BY <1>1, ForgetCovered DEF Commit

LEMMA QueueOrderCovered ==
    ASSUME TypeOK, Covered, NEW o \in Orders, QueueOrder(o)
    PROVE  Covered'
BY DEF QueueOrder, Covered, Solvent, Trading, cashRows, qtyRows

LEMMA StartExecutorCovered ==
    ASSUME TypeOK, Covered, StartExecutor
    PROVE  Covered'
BY DEF StartExecutor, Covered, Solvent, Trading, TypeOK, tables, cashRows, qtyRows, Jobs,
       Executor, Anomaly

LEMMA NextOrderCovered ==
    ASSUME TypeOK, Covered, NEW o \in Orders, NextOrder(o)
    PROVE  Covered'
<1>1. UNCHANGED <<tables, cashRows, qtyRows, seen>>
  BY DEF NextOrder
<1>2. CASE UNCHANGED <<pc, cache, deal>>
  BY <1>1, <1>2 DEF Covered, Solvent, Trading, tables, cashRows, qtyRows
<1>3. CASE ~UNCHANGED <<pc, cache, deal>>
  <2> DEFINE a == book[o].account
             v == LoadedCash(a)
             c == [Nothing(Accounts, NotLoaded) EXCEPT ![a] = v]
  <2>1. /\ cache' = [cache EXCEPT ![Executor] = c]
        /\ deal'[Executor].account = a
        /\ \A k \in Jobs \ {Executor} : deal'[k] = deal[k]
        /\ \A k \in Jobs \ {Executor} : pc'[k] = pc[k]
    BY <1>3 DEF NextOrder, TypeOK, Jobs
  <2>2. a \in Accounts
    BY DEF TypeOK, Requests
  <2>3. v >= 0 /\ v \in Int
    BY <2>2, VisibleCovered DEF Covered, TypeOK, NotLoaded, Jobs, VisibleCash, LoadedCash
  <2> HIDE DEF a, v
  <2>4. \A x \in Accounts : c[x] = IF x = a THEN v ELSE NotLoaded
    BY <2>2 DEF Nothing
  <2> HIDE DEF c
  <2>5. Executor \in Jobs /\ Anomaly \in Jobs /\ Executor # Anomaly
    BY DEF Jobs, Executor, Anomaly
  <2>6. /\ cache'[Executor] = c
        /\ \A k \in Jobs \ {Executor} : cache'[k] = cache[k]
    BY <2>1, <2>5 DEF TypeOK
  <2>7. \A k \in Jobs, x \in Accounts : cache'[k][x] >= NotLoaded
    BY <2>3, <2>4, <2>6 DEF Covered, NotLoaded
  <2>8. pc'[Anomaly] # "idle" => \A x \in Accounts : cache'[Anomaly][x] >= 0
    BY <2>1, <2>5, <2>6 DEF Covered
  <2>9. \A k \in Jobs : Trading(k)' => cache'[k][deal'[k].account] >= 0
    BY <2>1, <2>2, <2>3, <2>4, <2>6 DEF Covered, Trading
  <2> QED
    BY <1>1, <2>7, <2>8, <2>9 DEF Covered, Solvent, tables, cashRows, qtyRows
<1> QED
  BY <1>2, <1>3

LEMMA StartAnomalyCovered ==
    ASSUME TypeOK, Covered, StartAnomaly
    PROVE  Covered'
<1>1. /\ UNCHANGED <<tables, cashRows, qtyRows, seen, deal>>
      /\ pc' = [pc EXCEPT ![Anomaly] = "loop"]
      /\ cache' = [cache EXCEPT ![Anomaly] = cash]
  BY DEF StartAnomaly
<1>2. Anomaly \in Jobs
  BY DEF Jobs
<1>3. /\ cache'[Anomaly] = cash
      /\ \A k \in Jobs \ {Anomaly} : cache'[k] = cache[k] /\ pc'[k] = pc[k]
      /\ pc'[Anomaly] = "loop"
  BY <1>1, <1>2 DEF TypeOK
<1>4. \A a \in Accounts : cash[a] >= 0 /\ cash[a] \in Int
  BY DEF Covered, Solvent, TypeOK
<1>5. \A k \in Jobs, a \in Accounts : cache'[k][a] >= NotLoaded
  BY <1>3, <1>4 DEF Covered, NotLoaded
<1>6. \A k \in Jobs : Trading(k)' => cache'[k][deal'[k].account] >= 0
  BY <1>1, <1>3 DEF Covered, Trading
<1> QED
  BY <1>1, <1>3, <1>4, <1>5, <1>6 DEF Covered, Solvent, tables, cashRows, qtyRows

LEMMA FlushPriceCovered ==
    ASSUME TypeOK, Covered, NEW r \in Rows, FlushPrice(r)
    PROVE  Covered'
BY DEF FlushPrice, Covered, Solvent, Trading, tables, cashRows

LEMMA ScanAccountCovered ==
    ASSUME TypeOK, Covered, NEW a \in Accounts, ScanAccount(a)
    PROVE  Covered'
<1>1. UNCHANGED <<tables, cashRows, qtyRows, pc, cache, deal>>
  BY DEF ScanAccount
<1>2. \A k \in Jobs, t \in Tickers : seen'[k][t] >= 0
  <2>1. CASE UNCHANGED seen
    BY <2>1 DEF Covered
  <2>2. CASE ~UNCHANGED seen
    <3>1. seen' = [seen EXCEPT ![Anomaly] = [t \in Tickers |-> VisibleQty(Anomaly, <<a, t>>)]]
      BY <2>2 DEF ScanAccount
    <3>2. \A t \in Tickers : VisibleQty(Anomaly, <<a, t>>) >= 0
      BY VisibleCovered DEF Covered, Jobs, Rows
    <3> QED
      BY <3>1, <3>2 DEF Covered, TypeOK
  <2> QED
    BY <2>1, <2>2
<1> QED
  BY <1>1, <1>2 DEF Covered, Solvent, Trading, tables, cashRows, qtyRows

LEMMA CheckPositionCovered ==
    ASSUME TypeOK, Covered, NEW t \in Tickers, CheckPosition(t)
    PROVE  Covered'
<1>1. UNCHANGED <<tables, cashRows, qtyRows, cache, seen>>
  BY DEF CheckPosition
<1>2. CASE UNCHANGED <<pc, deal>>
  BY <1>1, <1>2 DEF Covered, Solvent, Trading, tables, cashRows, qtyRows
<1>3. CASE ~UNCHANGED <<pc, deal>>
  <2>1. /\ pc[Anomaly] = "loop"
        /\ pc'[Anomaly] = "sell"
        /\ \A k \in Jobs \ {Anomaly} : pc'[k] = pc[k] /\ deal'[k] = deal[k]
        /\ deal'[Anomaly].account = scanned
    BY <1>3 DEF CheckPosition, TypeOK, Jobs
  <2>2. \A a \in Accounts : cache[Anomaly][a] >= 0
    BY <2>1 DEF Covered
  <2>3. \A k \in Jobs : Trading(k)' => cache'[k][deal'[k].account] >= 0
    BY <1>1, <2>1, <2>2 DEF Covered, Trading, TypeOK
  <2> QED
    BY <1>1, <2>2, <2>3 DEF Covered, Solvent, tables, cashRows, qtyRows
<1> QED
  BY <1>2, <1>3

LEMMA RefuseCovered ==
    ASSUME TypeOK, Covered, NEW j \in Jobs, Trading(j), Refuse(j),
           UNCHANGED <<tables, cashRows, qtyRows>> \/ Solvent'
    PROVE  Covered'
<1>1. /\ UNCHANGED <<cache, seen>>
      /\ pc' = [pc EXCEPT ![j] = "loop"]
      /\ deal' = [deal EXCEPT ![j] = NoDeal]
  BY DEF Refuse
<1>2. Solvent'
  BY DEF Covered, Solvent, tables, cashRows, qtyRows
<1>3. pc'[Anomaly] # "idle" => pc[Anomaly] # "idle"
  BY <1>1 DEF TypeOK, Trading, Jobs
<1>4. \A k \in Jobs : Trading(k)' => cache'[k][deal'[k].account] >= 0
  BY <1>1 DEF Covered, Trading, TypeOK
<1> QED
  BY <1>1, <1>2, <1>3, <1>4 DEF Covered

LEMMA LockAccountToBuyCovered ==
    ASSUME TypeOK, Covered, NEW j \in Jobs, LockAccountToBuy(j)
    PROVE  Covered'
<1> DEFINE d == deal[j]
           a == deal[j].account
           left == cache[j][a] - Cost(d)
           shares == VisibleQty(j, Row(d)) + d.qty
<1>1. /\ Trading(j) /\ pc[j] # "idle"
      /\ UNCHANGED <<tables, qtyRows>>
  BY DEF LockAccountToBuy, Trading
<1>2. CASE Refuse(j) /\ UNCHANGED cashNew
  <2>1. Solvent'
    BY <1>1, <1>2 DEF Covered, Solvent, tables, qtyRows
  <2> QED
    BY <1>1, <1>2, <2>1, RefuseCovered
<1>3. CASE ~(Refuse(j) /\ UNCHANGED cashNew)
  <2>1. /\ CostScaled(d) <= cache[j][a] * Scale
        /\ cache' = [cache EXCEPT ![j][a] = left]
        /\ cashNew' = [cashNew EXCEPT ![a] = cache'[j][a]]
        /\ seen' = [seen EXCEPT ![j][d.ticker] = shares]
        /\ pc' = [pc EXCEPT ![j] = "position"]
        /\ UNCHANGED deal
    BY <1>3 DEF LockAccountToBuy
  <2>2. /\ a \in Accounts /\ d.ticker \in Tickers
        /\ cache[j][a] \in Int /\ Cost(d) \in Nat /\ CostScaled(d) \in Nat
    BY DealType, DealMoney DEF TypeOK
  <2>3. left >= 0 /\ left \in Int
    BY <2>1, <2>2, DivBound, CostRounded, SimAssumption
  <2>4. shares >= 0 /\ shares \in Int
    BY DealType, VisibleCovered DEF Covered
  <2> HIDE DEF left, shares, a, d
  <2>5. cache'[j][a] = left
    BY <2>1, <2>2 DEF TypeOK
  <2>6. Solvent'
    BY <1>1, <2>1, <2>2, <2>3, <2>5 DEF Covered, Solvent, TypeOK, tables, qtyRows
  <2>7. \A k \in Jobs, t \in Tickers : seen'[k][t] >= 0
    BY <2>1, <2>2, <2>4 DEF Covered, TypeOK
  <2>8. \A k \in Jobs, x \in Accounts :
           cache'[k][x] = cache[k][x] \/ cache'[k][x] = left
    BY <2>1, <2>2 DEF TypeOK
  <2>9. pc'[Anomaly] # "idle" => pc[Anomaly] # "idle"
    BY <1>1, <2>1 DEF TypeOK, Jobs
  <2>10. \A k \in Jobs : Trading(k)' => cache'[k][deal'[k].account] >= 0
    <3> SUFFICES ASSUME NEW k \in Jobs, Trading(k)'
                 PROVE  cache'[k][deal'[k].account] >= 0
      OBVIOUS
    <3>1. Trading(k) /\ deal'[k] = deal[k] /\ deal[k].account \in Accounts
      BY <1>1, <2>1, DealType DEF Trading, TypeOK
    <3> QED
      BY <2>3, <2>8, <3>1 DEF Covered
  <2>11. \A k \in Jobs, x \in Accounts : cache'[k][x] >= NotLoaded
    BY <2>3, <2>8 DEF Covered, NotLoaded
  <2>12. pc'[Anomaly] # "idle" => \A x \in Accounts : cache'[Anomaly][x] >= 0
    BY <2>3, <2>8, <2>9 DEF Covered, Jobs
  <2> QED
    BY <2>6, <2>7, <2>10, <2>11, <2>12 DEF Covered
<1> QED
  BY <1>2, <1>3

LEMMA ReadPositionToSellCovered ==
    ASSUME TypeOK, Covered, NEW j \in Jobs, ReadPositionToSell(j)
    PROVE  Covered'
<1> DEFINE d == deal[j]
           a == deal[j].account
           paid == cache[j][a] + Proceeds(d)
           shares == ObjectQty(j, d) - d.qty
<1>1. /\ Trading(j) /\ pc[j] # "idle"
      /\ UNCHANGED <<tables, cashRows, qtyRows>>
  BY DEF ReadPositionToSell, Trading
<1>2. CASE Refuse(j)
  BY <1>1, <1>2, RefuseCovered
<1>3. CASE ~Refuse(j)
  <2>1. /\ ObjectQty(j, d) >= d.qty
        /\ cache' = [cache EXCEPT ![j][a] = paid]
        /\ seen' = [seen EXCEPT ![j][d.ticker] = shares]
        /\ pc' = [pc EXCEPT ![j] = "account"]
        /\ UNCHANGED deal
    BY <1>3 DEF ReadPositionToSell, Sellable
  <2>2. /\ a \in Accounts /\ d.ticker \in Tickers
        /\ cache[j][a] \in Int /\ Proceeds(d) \in Nat
    BY DealType, DealMoney DEF TypeOK
  <2>3. paid >= 0 /\ paid \in Int
    BY <1>1, <2>2 DEF Covered
  <2>4. shares >= 0 /\ shares \in Int
    BY <2>1, DealType
  <2> HIDE DEF paid, shares, a, d
  <2>5. Solvent'
    BY <1>1 DEF Covered, Solvent, tables, cashRows, qtyRows
  <2>6. \A k \in Jobs, t \in Tickers : seen'[k][t] >= 0
    BY <2>1, <2>2, <2>4 DEF Covered, TypeOK
  <2>7. \A k \in Jobs, x \in Accounts :
           cache'[k][x] = cache[k][x] \/ cache'[k][x] = paid
    BY <2>1, <2>2 DEF TypeOK
  <2>8. pc'[Anomaly] # "idle" => pc[Anomaly] # "idle"
    BY <1>1, <2>1 DEF TypeOK, Jobs
  <2>9. \A k \in Jobs : Trading(k)' => cache'[k][deal'[k].account] >= 0
    <3> SUFFICES ASSUME NEW k \in Jobs, Trading(k)'
                 PROVE  cache'[k][deal'[k].account] >= 0
      OBVIOUS
    <3>1. Trading(k) /\ deal'[k] = deal[k] /\ deal[k].account \in Accounts
      BY <1>1, <2>1, DealType DEF Trading, TypeOK
    <3> QED
      BY <2>3, <2>7, <3>1 DEF Covered
  <2>10. \A k \in Jobs, x \in Accounts : cache'[k][x] >= NotLoaded
    BY <2>3, <2>7 DEF Covered, NotLoaded
  <2>11. pc'[Anomaly] # "idle" => \A x \in Accounts : cache'[Anomaly][x] >= 0
    BY <2>3, <2>7, <2>8 DEF Covered, Jobs
  <2> QED
    BY <2>5, <2>6, <2>9, <2>10, <2>11 DEF Covered
<1> QED
  BY <1>2, <1>3

LEMMA FlushAccountCovered ==
    ASSUME TypeOK, Covered, NEW j \in Jobs, FlushAccount(j)
    PROVE  Covered'
<1> DEFINE a == deal[j].account
<1>1. /\ pc[j] = "account"
      /\ cashNew' = [cashNew EXCEPT ![a] = cache[j][a]]
      /\ pc' = [pc EXCEPT ![j] = "position"]
      /\ UNCHANGED <<tables, qtyRows, cache, seen, deal>>
  BY DEF FlushAccount
<1>2. a \in Accounts /\ cache[j][a] >= 0
  BY <1>1, DealType DEF Covered, Trading
<1>3. Solvent'
  BY <1>1, <1>2 DEF Covered, Solvent, TypeOK, tables, qtyRows
<1>4. \A k \in Jobs : Trading(k)' => Trading(k)
  BY <1>1 DEF Trading, TypeOK
<1>5. pc'[Anomaly] # "idle" => pc[Anomaly] # "idle"
  BY <1>1 DEF TypeOK, Jobs
<1> QED
  BY <1>1, <1>3, <1>4, <1>5 DEF Covered

LEMMA FlushPositionCovered ==
    ASSUME TypeOK, Covered, NEW j \in Jobs, FlushPosition(j)
    PROVE  Covered'
<1> DEFINE r == Row(deal[j])
<1>1. /\ pc[j] = "position"
      /\ qtyNew' = [qtyNew EXCEPT ![r] = seen[j][deal[j].ticker]]
      /\ pc' = [pc EXCEPT ![j] = "loop"]
      /\ deal' = [deal EXCEPT ![j] = NoDeal]
      /\ UNCHANGED <<tables, cashRows, cache, seen>>
  BY DEF FlushPosition
<1>2. seen[j][deal[j].ticker] >= 0
  BY DealType DEF Covered
<1>3. Solvent'
  BY <1>1, <1>2 DEF Covered, Solvent, TypeOK, tables, cashRows
<1>4. \A k \in Jobs : Trading(k)' => Trading(k) /\ deal'[k] = deal[k]
  BY <1>1 DEF Trading, TypeOK
<1>5. pc'[Anomaly] # "idle" => pc[Anomaly] # "idle"
  BY <1>1 DEF TypeOK, Jobs
<1> QED
  BY <1>1, <1>3, <1>4, <1>5 DEF Covered
-----------------------------------------------------------------------------
LEMMA PlaceSimOrderInv ==
    ASSUME Inv, NEW j \in Jobs, PlaceSimOrder(j)
    PROVE  Inv'
<1> USE DEF Inv
<1>1. CASE LockAccountToBuy(j)
  BY <1>1, LockAccountToBuyType, LockAccountToBuyCovered
<1>2. CASE ReadPositionToSell(j)
  BY <1>2, ReadPositionToSellType, ReadPositionToSellCovered
<1>3. CASE FlushAccount(j)
  BY <1>3, FlushAccountType, FlushAccountCovered
<1>4. CASE FlushPosition(j)
  BY <1>4, FlushPositionType, FlushPositionCovered
<1>5. CASE FlushPositionFails(j)
  BY <1>5, RollbackType, RollbackCovered DEF FlushPositionFails, TypeOK
<1> QED
  BY <1>1, <1>2, <1>3, <1>4, <1>5 DEF PlaceSimOrder

LEMMA NextInv == Inv /\ [Next]_vars => Inv'
<1> SUFFICES ASSUME Inv, [Next]_vars PROVE Inv'
  OBVIOUS
<1>1. Executor \in Jobs /\ Anomaly \in Jobs
  BY DEF Jobs
<1>2. CASE \E o \in Orders : QueueOrder(o)
  BY <1>2, QueueOrderType, QueueOrderCovered DEF Inv
<1>3. CASE StartExecutor
  BY <1>3, StartExecutorType, StartExecutorCovered DEF Inv
<1>4. CASE StartAnomaly
  BY <1>4, StartAnomalyType, StartAnomalyCovered DEF Inv
<1>5. CASE RunExecutor
  <2>1. CASE \E o \in Orders : NextOrder(o)
    BY <2>1, NextOrderType, NextOrderCovered DEF Inv
  <2>2. CASE CommitExecutor
    BY <1>1, <2>2, CommitType, CommitCovered DEF Inv, CommitExecutor
  <2> QED
    BY <1>1, <1>5, <2>1, <2>2, PlaceSimOrderInv DEF RunExecutor
<1>6. CASE RunAnomaly
  <2>1. CASE \E a \in Accounts : ScanAccount(a)
    BY <2>1, ScanAccountType, ScanAccountCovered DEF Inv
  <2>2. CASE \E t \in Tickers : CheckPosition(t)
    <3>1. PICK t \in Tickers : CheckPosition(t)
      BY <2>2
    <3>2. seen[Anomaly][t] \in Nat
      BY <1>1 DEF Inv, Covered, TypeOK
    <3> QED
      BY <3>1, <3>2, CheckPositionType, CheckPositionCovered DEF Inv
  <2>3. CASE \E r \in Rows : FlushPrice(r)
    BY <2>3, FlushPriceType, FlushPriceCovered DEF Inv
  <2>4. CASE \E r \in Rows : FlushPriceFails(r)
    BY <1>1, <2>4, RollbackType, RollbackCovered DEF Inv, FlushPriceFails, TypeOK
  <2>5. CASE CommitAnomaly
    BY <1>1, <2>5, CommitType, CommitCovered DEF Inv, CommitAnomaly
  <2> QED
    BY <1>1, <1>6, <2>1, <2>2, <2>3, <2>4, <2>5, PlaceSimOrderInv DEF RunAnomaly
<1>7. CASE \E j \in Jobs : BreakDeadlock(j)
  BY <1>7, RollbackType, RollbackCovered DEF Inv, BreakDeadlock, TypeOK
<1>8. CASE \E j \in Jobs : LoseTransaction(j)
  <2>1. PICK j \in Jobs : LoseTransaction(j)
    BY <1>8
  <2>2. failures' \in 0..MaxFailures
    BY <2>1, SimAssumption DEF Inv, TypeOK, LoseTransaction
  <2> QED
    BY <2>1, <2>2, RollbackType, RollbackCovered DEF Inv, LoseTransaction
<1>9. CASE UNCHANGED vars
  BY <1>9 DEF Inv, TypeOK, Covered, Solvent, Trading, vars, tables, cashRows, qtyRows, sums,
              executorVars, anomalyVars
<1> QED
  BY <1>2, <1>3, <1>4, <1>5, <1>6, <1>7, <1>8, <1>9 DEF Next

(* The types of every variable, whatever the two jobs do. *)
THEOREM TypeCorrect == Spec => []TypeOK
<1>1. Init => Inv
  BY InitType, InitCovered DEF Inv
<1>2. Inv => TypeOK
  BY DEF Inv
<1> QED
  BY <1>1, <1>2, NextInv, PTL DEF Spec

(* No balance and no position is ever negative, however the executor and   *)
(* the anomaly job overlap and however stale the objects they write back.  *)
THEOREM SolventAlways == Spec => []Solvent
<1>1. Init => Inv
  BY InitType, InitCovered DEF Inv
<1>2. Inv => Solvent
  BY DEF Inv, Covered
<1> QED
  BY <1>1, <1>2, NextInv, PTL DEF Spec
-----------------------------------------------------------------------------
(***************************************************************************)
(* ExactlyOnce is inductive together with what the executor's session      *)
(* holds: the FILLED rows it inserted are the orders it marked FILLED, and *)
(* whatever it has marked or has still to do is PENDING in the database.   *)
(***************************************************************************)
SessionAgrees ==
    /\ \A o \in Orders : o \in inserted <=> mark[o] = "FILLED"
    /\ \A o \in Orders : mark[o] # "KEEP" => status[o] = "PENDING"
    /\ \A o \in batch : status[o] = "PENDING" /\ mark[o] = "KEEP"
    /\ Trading(Executor) =>
         status[current] = "PENDING" /\ mark[current] = "KEEP" /\ current \notin batch
    /\ pc[Executor] = "idle" => \A o \in Orders : mark[o] = "KEEP"

Once == ExactlyOnce /\ SessionAgrees

orderVars == <<status, fills, mark, inserted, batch, current>>

(* Whatever leaves the orders and the executor's place in its loop alone. *)
LEMMA OnceFrame ==
    ASSUME Once, UNCHANGED orderVars, Trading(Executor)' => Trading(Executor),
           pc'[Executor] = "idle" => pc[Executor] = "idle"
    PROVE  Once'
BY DEF Once, ExactlyOnce, SessionAgrees, orderVars

LEMMA InitOnce == Init => Once
BY DEF Init, Once, ExactlyOnce, SessionAgrees, Trading, Nothing, Jobs

LEMMA RollbackOnce ==
    ASSUME TypeOK, Once, NEW j \in Jobs, Rollback(j)
    PROVE  Once'
<1>1. /\ pc' = [pc EXCEPT ![j] = "idle"] /\ UNCHANGED <<status, fills>>
  BY DEF Rollback, ForgetSession, ReleaseLocks, tables
<1>2. CASE j = Executor
  <2>1. batch' = {} /\ inserted' = {} /\ mark' = Nothing(Orders, "KEEP")
    BY <1>2 DEF Rollback, ForgetSession, ReleaseLocks
  <2>2. ~Trading(Executor)'
    BY <1>1, <1>2 DEF TypeOK, Trading
  <2> QED
    BY <1>1, <2>1, <2>2 DEF Once, ExactlyOnce, SessionAgrees, Nothing
<1>3. CASE j # Executor
  <2>1. UNCHANGED executorVars
    BY <1>3 DEF Rollback, ForgetSession, ReleaseLocks
  <2>2. pc'[Executor] = pc[Executor]
    BY <1>1, <1>3 DEF TypeOK
  <2> QED
    BY <1>1, <2>1, <2>2, OnceFrame DEF orderVars, executorVars, Trading
<1> QED
  BY <1>2, <1>3

LEMMA CommitAnomalyOnce ==
    ASSUME TypeOK, Once, CommitAnomaly
    PROVE  Once'
<1>1. Anomaly # Executor
  BY DEF Anomaly, Executor
<1>2. UNCHANGED <<status, fills>> /\ UNCHANGED executorVars
  BY <1>1 DEF CommitAnomaly, Commit, ForgetSession, ReleaseLocks
<1>3. pc'[Executor] = pc[Executor]
  BY <1>1 DEF CommitAnomaly, Commit, ForgetSession, ReleaseLocks, TypeOK
<1> QED
  BY <1>2, <1>3, OnceFrame DEF orderVars, executorVars, Trading

(* The commit publishes the marks and the rows together. *)
LEMMA CommitExecutorOnce ==
    ASSUME TypeOK, Once, CommitExecutor
    PROVE  Once'
<1>1. /\ status' = [o \in Orders |-> IF mark[o] = "KEEP" THEN status[o] ELSE mark[o]]
      /\ fills' = [o \in Orders |-> IF o \in inserted THEN fills[o] + 1 ELSE fills[o]]
      /\ pc' = [pc EXCEPT ![Executor] = "idle"]
      /\ batch' = {} /\ inserted' = {} /\ mark' = Nothing(Orders, "KEEP")
  BY DEF CommitExecutor, Commit, ForgetSession, ReleaseLocks
<1>2. ~Trading(Executor)'
  BY <1>1 DEF TypeOK, Trading, Jobs
<1>3. ExactlyOnce'
  <2> SUFFICES ASSUME NEW o \in Orders
               PROVE  fills'[o] = IF status'[o] = "FILLED" THEN 1 ELSE 0
    BY DEF ExactlyOnce
  <2>1. fills[o] = IF status[o] = "FILLED" THEN 1 ELSE 0
    BY DEF Once, ExactlyOnce
  <2>2. mark[o] \in {"KEEP", "FILLED", "FAILED"}
    BY DEF TypeOK
  <2>3. CASE mark[o] = "KEEP"
    BY <1>1, <2>1, <2>3 DEF Once, SessionAgrees
  <2>4. CASE mark[o] = "FILLED"
    BY <1>1, <2>1, <2>4 DEF Once, SessionAgrees
  <2>5. CASE mark[o] = "FAILED"
    BY <1>1, <2>1, <2>5 DEF Once, SessionAgrees
  <2> QED
    BY <2>2, <2>3, <2>4, <2>5
<1> QED
  BY <1>1, <1>2, <1>3 DEF Once, SessionAgrees, Nothing

LEMMA QueueOrderOnce ==
    ASSUME TypeOK, Once, NEW o \in Orders, QueueOrder(o)
    PROVE  Once'
<1>1. /\ status[o] = "NONE" /\ status' = [status EXCEPT ![o] = "PENDING"]
      /\ UNCHANGED <<fills, mark, inserted, batch, current, pc>>
  BY DEF QueueOrder, executorVars
<1>2. \A x \in Orders : x # o => status'[x] = status[x]
  BY <1>1 DEF TypeOK
<1>3. status'[o] = "PENDING" /\ mark[o] = "KEEP" /\ o \notin batch
  BY <1>1 DEF TypeOK, Once, SessionAgrees
<1>4. ExactlyOnce'
  BY <1>1, <1>2, <1>3 DEF Once, ExactlyOnce
<1>5. batch \subseteq Orders /\ current \in Orders
  BY DEF TypeOK
<1> QED
  BY <1>1, <1>2, <1>3, <1>4, <1>5 DEF Once, SessionAgrees, Trading

LEMMA StartExecutorOnce ==
    ASSUME TypeOK, Once, StartExecutor
    PROVE  Once'
<1>1. /\ pc[Executor] = "idle" /\ pc' = [pc EXCEPT ![Executor] = "loop"]
      /\ batch' = {o \in Orders : status[o] = "PENDING"}
      /\ UNCHANGED <<status, fills, mark, inserted>>
  BY DEF StartExecutor, Selected, tables
<1>2. pc'[Executor] = "loop"
  BY <1>1 DEF TypeOK, Jobs
<1> QED
  BY <1>1, <1>2 DEF Once, ExactlyOnce, SessionAgrees, Trading

LEMMA NextOrderOnce ==
    ASSUME TypeOK, Once, NEW o \in Orders, NextOrder(o)
    PROVE  Once'
<1>1. /\ pc[Executor] = "loop" /\ o \in batch /\ batch' = batch \ {o} /\ current' = o
      /\ UNCHANGED <<status, fills, inserted>>
      /\ \/ mark' = [mark EXCEPT ![o] = "FAILED"] /\ UNCHANGED pc
         \/ UNCHANGED mark /\ pc'[Executor] # "idle"
  BY DEF NextOrder, FailOrder, tables, TypeOK, Jobs
<1>2. status[o] = "PENDING" /\ mark[o] = "KEEP"
  BY <1>1 DEF Once, SessionAgrees
<1>3. CASE mark' = [mark EXCEPT ![o] = "FAILED"] /\ UNCHANGED pc
  BY <1>1, <1>2, <1>3 DEF Once, ExactlyOnce, SessionAgrees, TypeOK, Trading
<1>4. CASE UNCHANGED mark /\ pc'[Executor] # "idle"
  BY <1>1, <1>2, <1>4 DEF Once, ExactlyOnce, SessionAgrees, TypeOK
<1> QED
  BY <1>1, <1>3, <1>4

LEMMA RefuseOnce ==
    ASSUME TypeOK, Once, NEW j \in Jobs, Trading(j), Refuse(j),
           UNCHANGED <<status, fills, inserted, batch, current>>
    PROVE  Once'
<1>1. pc' = [pc EXCEPT ![j] = "loop"]
  BY DEF Refuse
<1>2. CASE j = Executor
  <2>1. /\ mark' = [mark EXCEPT ![current] = "FAILED"]
        /\ pc'[Executor] = "loop"
        /\ status[current] = "PENDING" /\ mark[current] = "KEEP" /\ current \notin batch
    BY <1>1, <1>2 DEF Refuse, Once, SessionAgrees, TypeOK
  <2> QED
    BY <2>1 DEF Once, ExactlyOnce, SessionAgrees, TypeOK, Trading
<1>3. CASE j # Executor
  <2>1. mark' = mark /\ pc'[Executor] = pc[Executor]
    BY <1>1, <1>3 DEF Refuse, TypeOK
  <2> QED
    BY <2>1, OnceFrame DEF orderVars, Trading
<1> QED
  BY <1>2, <1>3

LEMMA PlaceSimOrderOnce ==
    ASSUME TypeOK, Once, NEW j \in Jobs, PlaceSimOrder(j)
    PROVE  Once'
<1>1. CASE LockAccountToBuy(j) \/ ReadPositionToSell(j)
  <2>1. Trading(j) /\ UNCHANGED <<status, fills, inserted, batch, current>>
    BY <1>1 DEF LockAccountToBuy, ReadPositionToSell, Trading, tables
  <2>2. CASE Refuse(j)
    BY <2>1, <2>2, RefuseOnce
  <2>3. CASE ~Refuse(j)
    <3>1. /\ UNCHANGED mark
          /\ pc' = [pc EXCEPT ![j] = "position"] \/ pc' = [pc EXCEPT ![j] = "account"]
      BY <1>1, <2>3 DEF LockAccountToBuy, ReadPositionToSell
    <3>2. Trading(Executor)' => Trading(Executor)
      BY <2>1, <3>1 DEF Trading, TypeOK, Jobs
    <3>3. pc'[Executor] = "idle" => pc[Executor] = "idle"
      BY <3>1 DEF TypeOK, Jobs
    <3> QED
      BY <2>1, <3>1, <3>2, <3>3, OnceFrame DEF orderVars
  <2> QED
    BY <2>2, <2>3
<1>2. CASE FlushAccount(j)
  <2>1. /\ UNCHANGED orderVars
        /\ pc[j] = "account" /\ pc' = [pc EXCEPT ![j] = "position"]
    BY <1>2 DEF FlushAccount, orderVars, tables, executorVars
  <2> QED
    BY <2>1, OnceFrame DEF Trading, TypeOK
<1>3. CASE FlushPosition(j)
  <2>1. /\ pc[j] = "position" /\ pc' = [pc EXCEPT ![j] = "loop"]
        /\ UNCHANGED <<status, fills, batch, current>>
    BY <1>3 DEF FlushPosition, tables
  <2>2. CASE j = Executor
    <3>1. /\ inserted' = inserted \cup {current}
          /\ mark' = [mark EXCEPT ![current] = "FILLED"]
          /\ pc'[Executor] = "loop"
      BY <1>3, <2>1, <2>2 DEF FlushPosition, TypeOK
    <3>2. status[current] = "PENDING" /\ current \notin batch
      BY <2>1, <2>2 DEF Once, SessionAgrees, Trading
    <3> QED
      BY <2>1, <3>1, <3>2 DEF Once, ExactlyOnce, SessionAgrees, TypeOK, Trading
  <2>3. CASE j # Executor
    <3>1. UNCHANGED <<inserted, mark>> /\ pc'[Executor] = pc[Executor]
      BY <1>3, <2>1, <2>3 DEF FlushPosition, TypeOK
    <3> QED
      BY <2>1, <3>1, OnceFrame DEF orderVars, Trading
  <2> QED
    BY <2>2, <2>3
<1>4. CASE FlushPositionFails(j)
  BY <1>4, RollbackOnce DEF FlushPositionFails
<1> QED
  BY <1>1, <1>2, <1>3, <1>4 DEF PlaceSimOrder

LEMMA NextOnce == TypeOK /\ Once /\ [Next]_vars => Once'
<1> SUFFICES ASSUME TypeOK, Once, [Next]_vars PROVE Once'
  OBVIOUS
<1>1. Executor \in Jobs /\ Anomaly \in Jobs /\ Anomaly # Executor
  BY DEF Jobs, Executor, Anomaly
<1>2. CASE \E o \in Orders : QueueOrder(o)
  BY <1>2, QueueOrderOnce
<1>3. CASE StartExecutor
  BY <1>3, StartExecutorOnce
<1>4. CASE \/ StartAnomaly
           \/ \E a \in Accounts : ScanAccount(a)
           \/ \E t \in Tickers : CheckPosition(t)
           \/ \E r \in Rows : FlushPrice(r)
  <2>1. UNCHANGED orderVars
    BY <1>4 DEF StartAnomaly, ScanAccount, CheckPosition, FlushPrice, orderVars, tables,
                executorVars
  <2>2. \/ UNCHANGED pc
        \/ pc' = [pc EXCEPT ![Anomaly] = "loop"]
        \/ pc' = [pc EXCEPT ![Anomaly] = "sell"]
    BY <1>4 DEF StartAnomaly, ScanAccount, CheckPosition, FlushPrice
  <2>3. pc'[Executor] = pc[Executor]
    BY <1>1, <2>2 DEF TypeOK
  <2> QED
    BY <2>1, <2>3, OnceFrame DEF Trading
<1>5. CASE RunExecutor
  BY <1>1, <1>5, NextOrderOnce, PlaceSimOrderOnce, CommitExecutorOnce DEF RunExecutor
<1>6. CASE PlaceSimOrder(Anomaly) \/ CommitAnomaly
  BY <1>1, <1>6, PlaceSimOrderOnce, CommitAnomalyOnce
<1>7. CASE \/ \E r \in Rows : FlushPriceFails(r)
           \/ \E j \in Jobs : BreakDeadlock(j) \/ LoseTransaction(j)
  BY <1>1, <1>7, RollbackOnce DEF FlushPriceFails, BreakDeadlock, LoseTransaction
<1>8. CASE UNCHANGED vars
  BY <1>8, OnceFrame DEF vars, tables, executorVars, orderVars, Trading
<1> QED
  BY <1>2, <1>3, <1>4, <1>5, <1>6, <1>7, <1>8 DEF Next, RunAnomaly

LEMMA OnceAlways == Spec => [](TypeOK /\ Once)
<1>1. TypeOK /\ Once /\ TypeOK' /\ [Next]_vars => Once'
  BY NextOnce
<1> QED
  BY <1>1, InitOnce, TypeCorrect, PTL DEF Spec

(* A queued order is FILLED exactly when one fill of it is recorded,       *)
(* whatever was rolled back, lost or overlapped on the way.                *)
THEOREM ExactlyOnceAlways == Spec => []ExactlyOnce
BY OnceAlways, PTL DEF Once

(* The outcome of an order is final. *)
THEOREM TerminalStatusAlways == Spec => TerminalStatus
<1> DEFINE Kept == \A o \in Orders : status[o] \in {"FILLED", "FAILED"} =>
                     status'[o] = status[o] /\ book'[o] = book[o]
<1>1. ASSUME TypeOK, Once, [Next]_vars
      PROVE  [Kept]_vars
  <2>1. CASE \E o \in Orders : QueueOrder(o)
    BY <1>1, <2>1 DEF QueueOrder, TypeOK
  <2>2. CASE CommitExecutor
    BY <1>1, <2>2 DEF CommitExecutor, Commit, Once, SessionAgrees
  <2>3. CASE CommitAnomaly
    BY <1>1, <2>3 DEF CommitAnomaly, Commit, Anomaly, Executor
  <2>4. CASE \/ \E r \in Rows : FlushPriceFails(r)
             \/ \E j \in Jobs : BreakDeadlock(j) \/ LoseTransaction(j)
    BY <2>4 DEF FlushPriceFails, BreakDeadlock, LoseTransaction, Rollback, tables
  <2>5. CASE \/ StartExecutor \/ StartAnomaly
             \/ \E o \in Orders : NextOrder(o)
             \/ \E a \in Accounts : ScanAccount(a)
             \/ \E t \in Tickers : CheckPosition(t)
             \/ \E r \in Rows : FlushPrice(r)
    BY <2>5 DEF StartExecutor, StartAnomaly, NextOrder, ScanAccount, CheckPosition, FlushPrice,
                tables
  <2>6. CASE \E j \in Jobs : PlaceSimOrder(j)
    BY <2>6 DEF PlaceSimOrder, LockAccountToBuy, ReadPositionToSell, FlushAccount,
                FlushPosition, FlushPositionFails, Rollback, tables
  <2> QED
    BY <1>1, <2>1, <2>2, <2>3, <2>4, <2>5, <2>6
    DEF Next, RunExecutor, RunAnomaly, Jobs
<1> QED
  BY <1>1, OnceAlways, PTL DEF Spec, TerminalStatus
-----------------------------------------------------------------------------
(***************************************************************************)
(* One job at a time.  LedgerBalanced is inductive together with where the *)
(* money of a running job is: what its transaction sees of a row is the    *)
(* committed row and what its fills so far add up to, and an object shows  *)
(* the same, but for the trade in progress, which changes the object       *)
(* first, then the account's row, then the position's.                     *)
(***************************************************************************)
InHand(j, a) == IF a = deal[j].account THEN Money(deal[j]) ELSE 0

CashAgrees(j, a) ==
    /\ VisibleCash(j, a) =
         cash[a] + netNew[j][a] + (IF pc[j] = "position" THEN InHand(j, a) ELSE 0)
    /\ cache[j][a] # NotLoaded =>
         cache[j][a] = cash[a] + netNew[j][a]
                         + (IF pc[j] \in {"account", "position"} THEN InHand(j, a) ELSE 0)

QtyAgrees(j, r) == VisibleQty(j, r) = qty[r] + heldNew[j][r]

DealAgrees(j) ==
    /\ pc[j] = "buy" => deal[j].side = "BUY"
    /\ pc[j] \in {"sell", "account"} => deal[j].side = "SELL"
    /\ pc[j] \in {"account", "position"} =>
         seen[j][deal[j].ticker] = VisibleQty(j, Row(deal[j])) + Shares(deal[j])

(* A job that does not run has written nothing and read nothing. *)
Rests(j) ==
    /\ \A a \in Accounts : cashLock[a] # j /\ netNew[j][a] = 0 /\ cache[j][a] = NotLoaded
    /\ \A r \in Rows : qtyLock[r] # j /\ heldNew[j][r] = 0

SessionBooks(j) ==
    /\ pc[j] = "idle" => Rests(j)
    /\ \A a \in Accounts : CashAgrees(j, a)
    /\ \A r \in Rows : QtyAgrees(j, r)
    /\ DealAgrees(j)

(* Only a locked row has a version that is not committed. *)
FreeRows ==
    /\ \A a \in Accounts : cashLock[a] = Unlocked => cashNew[a] = cash[a]
    /\ \A r \in Rows : qtyLock[r] = Unlocked => qtyNew[r] = qty[r]

(* The executor trades what the order asks for. *)
TradesOrder ==
    Trading(Executor) =>
        LET d == deal[Executor]
            b == book[current]
        IN  d.account = b.account /\ d.ticker = b.ticker /\ d.side = b.side /\ d.qty = b.qty

(* The anomaly job knows the positions it has still to look at, and sells  *)
(* the whole of one.                                                       *)
Known(t) == seen[Anomaly][t] = VisibleQty(Anomaly, <<scanned, t>>) /\ seen[Anomaly][t] > 0
SellsWhole ==
    /\ \A t \in tickersLeft : pc[Anomaly] # "idle" /\ Known(t)
    /\ Trading(Anomaly) =>
         LET d == deal[Anomaly] IN
         /\ d.account = scanned /\ d.ticker \notin tickersLeft
         /\ d.side = "SELL" /\ d.qty > 0 /\ d.qty = VisibleQty(Anomaly, Row(d))
         /\ pc[Anomaly] = "sell" => Known(d.ticker)

BooksInv ==
    /\ OneJob /\ LedgerBalanced /\ FreeRows
    /\ \A j \in Jobs : SessionBooks(j)
    /\ TradesOrder /\ SellsWhole

AllInv == Inv /\ Once /\ BooksInv

LEMMA InitBooks == Init => BooksInv
<1> SUFFICES ASSUME Init PROVE BooksInv
  OBVIOUS
<1>1. \A a \in Accounts : cash[a] \in Int /\ net[a] = 0 /\ cash[a] = InitialCash[a]
  BY SimAssumption DEF Init, Nothing
<1>2. \A r \in Rows : qty[r] \in Int /\ held[r] = 0 /\ qty[r] = InitialQty[r]
  BY SimAssumption DEF Init, Nothing
<1>3. LedgerBalanced
  BY <1>1, <1>2 DEF LedgerBalanced
<1>4. \A j \in Jobs : pc[j] = "idle" /\ Rests(j)
  BY DEF Init, Nothing, Rests, Jobs, Executor, Anomaly, Unlocked
<1>5. \A j \in Jobs : SessionBooks(j)
  BY <1>1, <1>2, <1>4
  DEF SessionBooks, CashAgrees, QtyAgrees, DealAgrees, VisibleCash, VisibleQty, Rests
<1>6. QED
  BY <1>3, <1>4, <1>5 DEF Init, BooksInv, OneJob, FreeRows, TradesOrder, SellsWhole, Trading, Jobs

LEMMA OneRuns ==
    ASSUME BooksInv
    PROVE  /\ Executor \in Jobs /\ Anomaly \in Jobs /\ Executor # Anomaly
           /\ pc[Executor] # "idle" => pc[Anomaly] = "idle"
           /\ pc[Anomaly] # "idle" => pc[Executor] = "idle"
BY DEF BooksInv, OneJob, Jobs, Executor, Anomaly

(* The job that does not run keeps resting, whatever the other one does.   *)
LEMMA OtherBooks ==
    ASSUME TypeOK', BooksInv, NEW j \in Jobs, NEW k \in Jobs \ {j}, pc[k] = "idle",
           pc'[k] = pc[k], netNew'[k] = netNew[k], heldNew'[k] = heldNew[k],
           cache'[k] = cache[k],
           \A a \in Accounts : cashLock'[a] \in {cashLock[a], j, Unlocked},
           \A r \in Rows : qtyLock'[r] \in {qtyLock[r], j, Unlocked}
    PROVE  SessionBooks(k)'
<1>1. Rests(k)
  BY DEF BooksInv, SessionBooks
<1>2. k # Unlocked
  BY DEF Jobs, Executor, Anomaly, Unlocked
<1>3. Rests(k)'
  BY <1>1, <1>2 DEF Rests
<1>4. \A a \in Accounts : cash'[a] \in Int
  BY DEF TypeOK
<1>5. \A r \in Rows : qty'[r] \in Int
  BY DEF TypeOK
<1>6. QED
  BY <1>3, <1>4, <1>5
  DEF SessionBooks, CashAgrees, QtyAgrees, DealAgrees, VisibleCash, VisibleQty, Rests

(* A session that ends leaves a job that rests. *)
LEMMA ForgetBooks ==
    ASSUME TypeOK, TypeOK', NEW j \in Jobs, ForgetSession(j)
    PROVE  SessionBooks(j)' /\ pc'[j] = "idle"
<1>1. /\ pc'[j] = "idle"
      /\ \A a \in Accounts : cache'[j][a] = NotLoaded /\ netNew'[j][a] = 0
      /\ \A r \in Rows : heldNew'[j][r] = 0
  BY DEF ForgetSession, TypeOK, Nothing
<1>2. j # Unlocked
  BY DEF Jobs, Executor, Anomaly, Unlocked
<1>3. /\ \A a \in Accounts : cashLock'[a] # j
      /\ \A r \in Rows : qtyLock'[r] # j
  BY <1>2 DEF ForgetSession, ReleaseLocks
<1>4. Rests(j)'
  BY <1>1, <1>3 DEF Rests
<1>5. \A a \in Accounts : cash'[a] \in Int
  BY DEF TypeOK
<1>6. \A r \in Rows : qty'[r] \in Int
  BY DEF TypeOK
<1>7. QED
  BY <1>1, <1>3, <1>4, <1>5, <1>6
  DEF SessionBooks, CashAgrees, QtyAgrees, DealAgrees, VisibleCash, VisibleQty

LEMMA EndBooks ==
    ASSUME TypeOK, TypeOK', BooksInv, NEW j \in Jobs, pc[j] # "idle", ForgetSession(j),
           FreeRows', LedgerBalanced'
    PROVE  BooksInv'
<1>1. SessionBooks(j)' /\ pc'[j] = "idle"
  BY ForgetBooks
<1>2. \A k \in Jobs \ {j} : pc[k] = "idle"
  BY DEF BooksInv, OneJob, Jobs
<1>3. ASSUME NEW k \in Jobs \ {j}
      PROVE  SessionBooks(k)' /\ pc'[k] = "idle"
  <2>1. /\ pc'[k] = pc[k] /\ netNew'[k] = netNew[k] /\ heldNew'[k] = heldNew[k]
        /\ cache'[k] = cache[k]
    BY DEF ForgetSession, TypeOK
  <2>2. /\ \A a \in Accounts : cashLock'[a] \in {cashLock[a], j, Unlocked}
        /\ \A r \in Rows : qtyLock'[r] \in {qtyLock[r], j, Unlocked}
    BY DEF ForgetSession, ReleaseLocks
  <2>3. QED
    BY <1>2, <2>1, <2>2, OtherBooks
<1>4. \A k \in Jobs : pc'[k] = "idle" /\ SessionBooks(k)'
  BY <1>1, <1>3
<1>5. tickersLeft' = {}
  <2>1. CASE j = Executor
    <3>1. tickersLeft' = tickersLeft /\ pc[Anomaly] = "idle"
      BY <1>2, <2>1, OneRuns DEF ForgetSession, anomalyVars
    <3>2. QED
      BY <3>1 DEF BooksInv, SellsWhole
  <2>2. CASE j # Executor
    BY <2>2 DEF ForgetSession
  <2>3. QED
    BY <2>1, <2>2
<1>6. OneJob' /\ TradesOrder' /\ SellsWhole'
  BY <1>4, <1>5 DEF OneJob, TradesOrder, SellsWhole, Trading, Jobs
<1>7. QED
  BY <1>4, <1>6 DEF BooksInv

LEMMA RollbackBooks ==
    ASSUME TypeOK, TypeOK', BooksInv, NEW j \in Jobs, pc[j] # "idle", Rollback(j)
    PROVE  BooksInv'
<1>1. ForgetSession(j) /\ UNCHANGED <<cash, qty, net, held>>
  BY DEF Rollback, tables
<1>2. LedgerBalanced'
  BY <1>1 DEF BooksInv, LedgerBalanced
<1>3. /\ \A a \in Accounts :
           /\ cashLock'[a] = IF cashLock[a] = j THEN Unlocked ELSE cashLock[a]
           /\ cashNew'[a] = IF cashLock[a] = j THEN cash[a] ELSE cashNew[a]
      /\ \A r \in Rows :
           /\ qtyLock'[r] = IF qtyLock[r] = j THEN Unlocked ELSE qtyLock[r]
           /\ qtyNew'[r] = IF qtyLock[r] = j THEN qty[r] ELSE qtyNew[r]
  BY <1>1 DEF Rollback, ForgetSession, ReleaseLocks
<1>4. FreeRows'
  BY <1>1, <1>3 DEF BooksInv, FreeRows
<1>5. QED
  BY <1>1, <1>2, <1>4, EndBooks

(* The commit publishes the rows and the sums of the fills together. *)
LEMMA CommitBooks ==
    ASSUME TypeOK, TypeOK', BooksInv, NEW j \in Jobs, pc[j] = "loop", Commit(j)
    PROVE  BooksInv'
<1>1. ForgetSession(j) /\ UNCHANGED <<cashNew, qtyNew>>
  BY DEF Commit
<1>2. /\ \A a \in Accounts :
           /\ cashLock'[a] = IF cashLock[a] = j THEN Unlocked ELSE cashLock[a]
           /\ cash'[a] = VisibleCash(j, a)
           /\ net'[a] = net[a] + netNew[j][a]
      /\ \A r \in Rows :
           /\ qtyLock'[r] = IF qtyLock[r] = j THEN Unlocked ELSE qtyLock[r]
           /\ qty'[r] = VisibleQty(j, r)
           /\ held'[r] = held[r] + heldNew[j][r]
  BY <1>1 DEF Commit, ForgetSession, ReleaseLocks
<1>3. FreeRows'
  BY <1>1, <1>2 DEF BooksInv, FreeRows, VisibleCash, VisibleQty
<1>4. ASSUME NEW a \in Accounts PROVE cash'[a] = InitialCash[a] + net'[a]
  <2>1. cash'[a] = cash[a] + netNew[j][a] /\ cash[a] = InitialCash[a] + net[a]
    <3>1. CashAgrees(j, a) /\ cash[a] = InitialCash[a] + net[a]
      BY DEF BooksInv, SessionBooks, LedgerBalanced
    <3>2. cash[a] + netNew[j][a] \in Int
      BY DEF TypeOK
    <3>3. QED
      BY <1>2, <3>1, <3>2 DEF CashAgrees
  <2>2. /\ InitialCash[a] \in Int /\ net[a] \in Int /\ netNew[j][a] \in Int
    BY SimAssumption DEF TypeOK
  <2>3. QED
    BY <1>2, <2>1, <2>2
<1>5. ASSUME NEW r \in Rows PROVE qty'[r] = InitialQty[r] + held'[r]
  <2>1. qty'[r] = qty[r] + heldNew[j][r] /\ qty[r] = InitialQty[r] + held[r]
    BY <1>2 DEF BooksInv, SessionBooks, LedgerBalanced, QtyAgrees
  <2>2. /\ InitialQty[r] \in Int /\ held[r] \in Int /\ heldNew[j][r] \in Int
    BY SimAssumption DEF TypeOK
  <2>3. QED
    BY <1>2, <2>1, <2>2
<1>6. QED
  BY <1>1, <1>3, <1>4, <1>5, EndBooks DEF LedgerBalanced
-----------------------------------------------------------------------------
(* Steps that leave the rows alone: only what the job itself knows moves.  *)
LEMMA SameRows ==
    ASSUME TypeOK, TypeOK', BooksInv, UNCHANGED <<cash, qty, net, held, cashRows, qtyRows>>
    PROVE  /\ FreeRows' /\ LedgerBalanced'
           /\ \A j \in Jobs : /\ \A a \in Accounts : VisibleCash(j, a)' = VisibleCash(j, a)
                              /\ \A r \in Rows : VisibleQty(j, r)' = VisibleQty(j, r)
BY DEF BooksInv, FreeRows, LedgerBalanced, VisibleCash, VisibleQty, cashRows, qtyRows

LEMMA QueueOrderBooks ==
    ASSUME TypeOK, TypeOK', Once, BooksInv, NEW o \in Orders, QueueOrder(o)
    PROVE  BooksInv'
<1>1. /\ UNCHANGED <<cash, qty, net, held, cashRows, qtyRows, pc, cache, seen, deal, sums,
                     current, scanned, tickersLeft>>
      /\ status[o] = "NONE"
  BY DEF QueueOrder, executorVars, anomalyVars
<1>2. FreeRows' /\ LedgerBalanced' /\ OneJob'
  BY <1>1, SameRows DEF BooksInv, OneJob
<1>3. \A j \in Jobs : SessionBooks(j)'
  BY <1>1 DEF BooksInv, SessionBooks, Rests, CashAgrees, QtyAgrees, DealAgrees, InHand, VisibleCash,
         VisibleQty, Money, Shares, Row, cashRows, qtyRows, sums
<1>4. TradesOrder'
  <2>1. Trading(Executor) => book'[current] = book[current]
    BY <1>1 DEF Once, SessionAgrees, QueueOrder, TypeOK
  <2>2. QED
    BY <1>1, <2>1 DEF BooksInv, TradesOrder, Trading
<1>5. SellsWhole'
  BY <1>1 DEF BooksInv, SellsWhole, Known, Trading, VisibleQty, Row, qtyRows
<1>6. QED
  BY <1>2, <1>3, <1>4, <1>5 DEF BooksInv
-----------------------------------------------------------------------------
(* A step of job j while the other one rests.                              *)
OthersRest(j) ==
    \A k \in Jobs \ {j} :
        /\ pc[k] = "idle" /\ pc'[k] = pc[k] /\ cache'[k] = cache[k]
        /\ netNew'[k] = netNew[k] /\ heldNew'[k] = heldNew[k]

LEMMA StepBooks ==
    ASSUME TypeOK, TypeOK', BooksInv, NEW j \in Jobs, OthersRest(j),
           \A a \in Accounts : cashLock'[a] \in {cashLock[a], j},
           \A r \in Rows : qtyLock'[r] \in {qtyLock[r], j},
           FreeRows', LedgerBalanced', SessionBooks(j)',
           IF j = Executor THEN TradesOrder' /\ tickersLeft' = tickersLeft ELSE SellsWhole'
    PROVE  BooksInv'
<1>1. \A k \in Jobs \ {j} : SessionBooks(k)' /\ pc'[k] = "idle"
  BY OtherBooks DEF OthersRest
<1>2. OneJob'
  BY <1>1, OneRuns DEF OneJob
<1>3. CASE j = Executor
  <2>1. pc'[Anomaly] = "idle" /\ pc[Anomaly] = "idle"
    BY <1>1, <1>3, OneRuns DEF OthersRest
  <2>2. SellsWhole'
    BY <1>3, <2>1 DEF BooksInv, SellsWhole, Trading
  <2>3. QED
    BY <1>1, <1>2, <1>3, <2>2 DEF BooksInv
<1>4. CASE j # Executor
  <2>1. pc'[Executor] = "idle"
    BY <1>1, <1>4, OneRuns
  <2>2. TradesOrder'
    BY <2>1 DEF TradesOrder, Trading
  <2>3. QED
    BY <1>1, <1>2, <1>4, <2>2 DEF BooksInv
<1>5. QED
  BY <1>3, <1>4

LEMMA StartExecutorBooks ==
    ASSUME TypeOK, TypeOK', BooksInv, StartExecutor, OneJob'
    PROVE  BooksInv'
<1>1. /\ UNCHANGED <<cash, qty, net, held, cashRows, qtyRows, cache, seen, deal, sums, tickersLeft>>
      /\ pc[Executor] = "idle" /\ pc' = [pc EXCEPT ![Executor] = "loop"]
  BY DEF StartExecutor, tables, anomalyVars
<1>2. pc'[Executor] = "loop" /\ pc'[Anomaly] = pc[Anomaly]
  BY <1>1, OneRuns DEF TypeOK
<1>3. OthersRest(Executor)
  BY <1>1, <1>2 DEF OthersRest, OneJob, Jobs, sums
<1>4. FreeRows' /\ LedgerBalanced'
      /\ \A a \in Accounts : VisibleCash(Executor, a)' = VisibleCash(Executor, a)
      /\ \A r \in Rows : VisibleQty(Executor, r)' = VisibleQty(Executor, r)
  BY <1>1, SameRows, OneRuns
<1>5. SessionBooks(Executor)'
  <2>1. SessionBooks(Executor) /\ cash' = cash /\ qty' = qty /\ cache' = cache
        /\ netNew' = netNew /\ heldNew' = heldNew
    BY <1>1, OneRuns DEF BooksInv, sums
  <2>2. \A a \in Accounts : CashAgrees(Executor, a)'
    BY <1>1, <1>2, <1>4, <2>1 DEF SessionBooks, CashAgrees
  <2>3. \A r \in Rows : QtyAgrees(Executor, r)'
    BY <1>1, <2>1 DEF SessionBooks, QtyAgrees, VisibleQty, qtyRows
  <2>4. QED
    BY <1>2, <2>2, <2>3 DEF SessionBooks, DealAgrees
<1>6. TradesOrder'
  BY <1>2 DEF TradesOrder, Trading
<1>7. QED
  BY <1>1, <1>3, <1>4, <1>5, <1>6, StepBooks, OneRuns DEF cashRows, qtyRows

LEMMA StartAnomalyBooks ==
    ASSUME TypeOK, TypeOK', BooksInv, StartAnomaly, OneJob'
    PROVE  BooksInv'
<1>1. /\ UNCHANGED <<cash, qty, net, held, cashRows, qtyRows, seen, deal, sums, tickersLeft>>
      /\ pc[Anomaly] = "idle" /\ pc' = [pc EXCEPT ![Anomaly] = "loop"]
      /\ cache' = [cache EXCEPT ![Anomaly] = cash]
  BY DEF StartAnomaly, tables
<1>2. /\ pc'[Anomaly] = "loop" /\ pc'[Executor] = pc[Executor]
      /\ cache'[Anomaly] = cash /\ cache'[Executor] = cache[Executor]
  BY <1>1, OneRuns DEF TypeOK
<1>3. OthersRest(Anomaly)
  BY <1>1, <1>2 DEF OthersRest, OneJob, Jobs, sums
<1>4. FreeRows' /\ LedgerBalanced'
      /\ \A a \in Accounts : VisibleCash(Anomaly, a)' = VisibleCash(Anomaly, a)
      /\ \A r \in Rows : VisibleQty(Anomaly, r)' = VisibleQty(Anomaly, r)
  BY <1>1, SameRows, OneRuns
<1>5. Rests(Anomaly)
  BY <1>1, OneRuns DEF BooksInv, SessionBooks
<1>6. SessionBooks(Anomaly)'
  <2>1. \A a \in Accounts : cash'[a] \in Int /\ netNew'[Anomaly][a] = 0
                            /\ cache'[Anomaly][a] = cash'[a]
    BY <1>1, <1>2, <1>5 DEF Rests, TypeOK, sums
  <2>2. \A a \in Accounts : CashAgrees(Anomaly, a)'
    BY <1>1, <1>2, <1>4, <1>5, <2>1, OneRuns DEF BooksInv, SessionBooks, CashAgrees, sums
  <2>3. ASSUME NEW r \in Rows PROVE QtyAgrees(Anomaly, r)'
    <3>1. QtyAgrees(Anomaly, r)
      BY OneRuns DEF BooksInv, SessionBooks
    <3>2. qty' = qty /\ heldNew' = heldNew
      BY <1>1 DEF sums
    <3>3. QED
      BY <1>1, <3>1, <3>2 DEF QtyAgrees, VisibleQty, qtyRows
  <2>4. QED
    BY <1>2, <2>2, <2>3 DEF SessionBooks, DealAgrees
<1>7. SellsWhole'
  BY <1>1, <1>2 DEF BooksInv, SellsWhole, Trading
<1>8. QED
  BY <1>1, <1>3, <1>4, <1>6, <1>7, StepBooks, OneRuns DEF cashRows, qtyRows

LEMMA SameQty ==
    ASSUME BooksInv, NEW j \in Jobs, UNCHANGED <<qty, qtyRows, heldNew>>
    PROVE  \A r \in Rows : QtyAgrees(j, r)'
BY DEF BooksInv, SessionBooks, QtyAgrees, VisibleQty, qtyRows

(* One turn of the executor's loop: the account is read, or was read in    *)
(* the previous turn and shows the fill of that turn too.                  *)
LEMMA NextOrderBooks ==
    ASSUME TypeOK, TypeOK', BooksInv, NEW o \in Orders, NextOrder(o)
    PROVE  BooksInv'
<1>1. /\ UNCHANGED <<cash, qty, net, held, cashRows, qtyRows, seen, sums, tickersLeft, book>>
      /\ pc[Executor] = "loop" /\ current' = o
  BY DEF NextOrder, tables, anomalyVars
<1>2. pc'[Anomaly] = pc[Anomaly] /\ cache'[Anomaly] = cache[Anomaly]
  BY OneRuns DEF NextOrder, TypeOK
<1>3. OthersRest(Executor)
  BY <1>1, <1>2, OneRuns DEF OthersRest, Jobs, sums
<1>4. FreeRows' /\ LedgerBalanced'
      /\ \A a \in Accounts : VisibleCash(Executor, a)' = VisibleCash(Executor, a)
      /\ \A r \in Rows : VisibleQty(Executor, r)' = VisibleQty(Executor, r)
  BY <1>1, SameRows, OneRuns
<1>5. SessionBooks(Executor) /\ cash' = cash /\ netNew' = netNew /\ heldNew' = heldNew
  BY <1>1, OneRuns DEF BooksInv, sums
<1>6. \A r \in Rows : QtyAgrees(Executor, r)'
  BY <1>1, <1>5, SameQty, OneRuns
<1>7. CASE UNCHANGED <<pc, cache, deal>>
  <2>1. \A a \in Accounts : CashAgrees(Executor, a)'
    BY <1>4, <1>5, <1>7 DEF SessionBooks, CashAgrees, InHand, Money
  <2>2. SessionBooks(Executor)' /\ TradesOrder'
    BY <1>1, <1>6, <1>7, <2>1 DEF SessionBooks, DealAgrees, TradesOrder, Trading
  <2>3. QED
    BY <1>1, <1>3, <1>4, <2>2, StepBooks, OneRuns DEF cashRows, qtyRows
<1>8. CASE ~UNCHANGED <<pc, cache, deal>>
  <2> DEFINE b == book[o]
             c == [Nothing(Accounts, NotLoaded) EXCEPT ![b.account] = LoadedCash(b.account)]
  <2>1. PICK p \in Prices :
           deal' = [deal EXCEPT ![Executor] =
             [account |-> b.account, ticker |-> b.ticker, side |-> b.side,
              qty |-> b.qty, price |-> p]]
    BY <1>8 DEF NextOrder
  <2>2. /\ pc' = [pc EXCEPT ![Executor] = IF b.side = "BUY" THEN "buy" ELSE "sell"]
        /\ cache' = [cache EXCEPT ![Executor] = c]
    BY <1>8 DEF NextOrder
  <2>3. b \in Requests
    BY DEF TypeOK
  <2>4. /\ deal'[Executor].account = b.account /\ deal'[Executor].ticker = b.ticker
        /\ deal'[Executor].side = b.side /\ deal'[Executor].qty = b.qty
        /\ pc'[Executor] = IF b.side = "BUY" THEN "buy" ELSE "sell"
        /\ cache'[Executor] = c
    BY <2>1, <2>2, OneRuns DEF TypeOK
  <2>5. b.account \in Accounts /\ b.side \in Sides
    BY <2>3 DEF Requests
  <2>6. \A a \in Accounts :
          c[a] = IF a = b.account THEN LoadedCash(a) ELSE NotLoaded
    BY <2>5 DEF Nothing
  <2> HIDE DEF b, c
  <2>7. ASSUME NEW a \in Accounts PROVE CashAgrees(Executor, a)'
    <3>1. /\ VisibleCash(Executor, a) = cash[a] + netNew[Executor][a]
          /\ cash[a] + netNew[Executor][a] \in Int
      BY <1>1, <1>5, OneRuns DEF SessionBooks, CashAgrees, TypeOK
    <3>2. cache[Executor][a] # NotLoaded => cache[Executor][a] = cash[a] + netNew[Executor][a]
      BY <1>1, <1>5, <3>1, OneRuns DEF SessionBooks, CashAgrees, TypeOK
    <3>3. cache'[Executor][a] # NotLoaded => cache'[Executor][a] = cash[a] + netNew[Executor][a]
      BY <2>4, <2>6, <3>1, <3>2 DEF LoadedCash
    <3>4. pc'[Executor] \notin {"account", "position"}
      BY <2>4
    <3>5. QED
      BY <1>4, <1>5, <3>1, <3>3, <3>4 DEF CashAgrees
  <2>8. DealAgrees(Executor)' /\ pc'[Executor] # "idle"
    BY <2>4, <2>5 DEF DealAgrees, Sides
  <2>9. SessionBooks(Executor)'
    BY <1>6, <2>7, <2>8 DEF SessionBooks
  <2>10. TradesOrder'
    BY <1>1, <2>4 DEF TradesOrder, b
  <2>11. QED
    BY <1>1, <1>3, <1>4, <2>9, <2>10, StepBooks, OneRuns DEF cashRows, qtyRows
<1>9. QED
  BY <1>7, <1>8

LEMMA ScanAccountBooks ==
    ASSUME TypeOK, TypeOK', BooksInv, NEW a \in Accounts, ScanAccount(a)
    PROVE  BooksInv'
<1>1. /\ UNCHANGED <<cash, qty, net, held, cashRows, qtyRows, pc, cache, deal, sums>>
      /\ pc[Anomaly] = "loop"
  BY DEF ScanAccount, tables
<1>2. OthersRest(Anomaly)
  BY <1>1, OneRuns DEF OthersRest, Jobs, sums
<1>3. FreeRows' /\ LedgerBalanced'
      /\ \A x \in Accounts : VisibleCash(Anomaly, x)' = VisibleCash(Anomaly, x)
      /\ \A r \in Rows : VisibleQty(Anomaly, r)' = VisibleQty(Anomaly, r)
  BY <1>1, SameRows, OneRuns
<1>4. SessionBooks(Anomaly) /\ cash' = cash /\ netNew' = netNew /\ heldNew' = heldNew
  BY <1>1, OneRuns DEF BooksInv, sums
<1>5. \A r \in Rows : QtyAgrees(Anomaly, r)'
  BY <1>1, <1>4, SameQty, OneRuns
<1>6. \A x \in Accounts : CashAgrees(Anomaly, x)'
  BY <1>1, <1>3, <1>4 DEF SessionBooks, CashAgrees, InHand, Money
<1>7. SessionBooks(Anomaly)'
  BY <1>1, <1>5, <1>6 DEF SessionBooks, DealAgrees
<1>8. SellsWhole'
  <2>1. CASE UNCHANGED <<scanned, seen, tickersLeft>>
    BY <1>1, <2>1, OneRuns DEF BooksInv, SellsWhole, Known, Trading, VisibleQty, qtyRows
  <2>2. CASE ~UNCHANGED <<scanned, seen, tickersLeft>>
    <3>1. /\ scanned' = a
          /\ seen' = [seen EXCEPT ![Anomaly] = [t \in Tickers |-> VisibleQty(Anomaly, <<a, t>>)]]
          /\ tickersLeft' = {t \in Tickers : VisibleQty(Anomaly, <<a, t>>) > 0}
      BY <2>2 DEF ScanAccount
    <3>2. \A t \in Tickers : seen'[Anomaly][t] = VisibleQty(Anomaly, <<a, t>>)
                             /\ VisibleQty(Anomaly, <<a, t>>)' = VisibleQty(Anomaly, <<a, t>>)
      BY <1>1, <3>1, OneRuns DEF TypeOK, VisibleQty, qtyRows
    <3>3. \A t \in tickersLeft' : Known(t)'
      BY <3>1, <3>2 DEF Known
    <3>4. QED
      BY <1>1, <3>3 DEF SellsWhole, Trading
  <2>3. QED
    BY <2>1, <2>2
<1>9. QED
  BY <1>1, <1>2, <1>3, <1>7, <1>8, StepBooks, OneRuns DEF cashRows, qtyRows

LEMMA CheckPositionBooks ==
    ASSUME TypeOK, TypeOK', BooksInv, NEW t \in Tickers, CheckPosition(t)
    PROVE  BooksInv'
<1>1. /\ UNCHANGED <<cash, qty, net, held, cashRows, qtyRows, cache, seen, sums, scanned>>
      /\ pc[Anomaly] = "loop" /\ t \in tickersLeft /\ tickersLeft' = tickersLeft \ {t}
  BY DEF CheckPosition, tables
<1>2. \/ UNCHANGED <<pc, deal>>
      \/ /\ pc' = [pc EXCEPT ![Anomaly] = "sell"]
         /\ \E p \in Prices :
              deal' = [deal EXCEPT ![Anomaly] =
                 [account |-> scanned, ticker |-> t, side |-> "SELL",
                  qty |-> seen[Anomaly][t], price |-> p]]
  BY DEF CheckPosition
<1>3. /\ pc'[Executor] = pc[Executor]
      /\ \/ pc'[Anomaly] = "loop"
         \/ /\ pc'[Anomaly] = "sell"
            /\ deal'[Anomaly].account = scanned /\ deal'[Anomaly].ticker = t
            /\ deal'[Anomaly].side = "SELL" /\ deal'[Anomaly].qty = seen[Anomaly][t]
  BY <1>1, <1>2, OneRuns DEF TypeOK
<1>4. OthersRest(Anomaly)
  BY <1>1, <1>3, OneRuns DEF OthersRest, Jobs, sums
<1>5. FreeRows' /\ LedgerBalanced'
      /\ \A a \in Accounts : VisibleCash(Anomaly, a)' = VisibleCash(Anomaly, a)
  BY <1>1, SameRows, OneRuns
<1>6. SessionBooks(Anomaly) /\ cash' = cash /\ netNew' = netNew /\ cache' = cache
      /\ heldNew' = heldNew
  BY <1>1, OneRuns DEF BooksInv, sums
<1>7. \A r \in Rows : QtyAgrees(Anomaly, r)'
  BY <1>1, <1>6, SameQty, OneRuns
<1>8. \A a \in Accounts : CashAgrees(Anomaly, a)'
  BY <1>1, <1>3, <1>5, <1>6 DEF SessionBooks, CashAgrees
<1>9. SessionBooks(Anomaly)'
  BY <1>3, <1>7, <1>8 DEF SessionBooks, DealAgrees
<1>10. \A u \in Tickers : Known(u)' <=> Known(u)
  BY <1>1 DEF Known, VisibleQty, qtyRows
<1>11. Known(t) /\ \A u \in tickersLeft' : Known(u)'
  BY <1>1, <1>10 DEF BooksInv, SellsWhole, TypeOK
<1>12. SellsWhole'
  <2>1. CASE pc'[Anomaly] = "loop"
    BY <1>11, <2>1 DEF SellsWhole, Trading
  <2>2. CASE pc'[Anomaly] = "sell"
    <3>1. Row(deal'[Anomaly]) = <<scanned, t>>
      BY <1>3, <2>2 DEF Row
    <3>2. deal'[Anomaly].qty > 0 /\ deal'[Anomaly].qty = VisibleQty(Anomaly, <<scanned, t>>)
      BY <1>3, <1>11, <2>2 DEF Known
    <3>3. VisibleQty(Anomaly, <<scanned, t>>)' = VisibleQty(Anomaly, <<scanned, t>>)
      BY <1>1 DEF VisibleQty, qtyRows
    <3>4. Row(deal[Anomaly])' = <<scanned', t>>
      BY <1>1, <1>3, <2>2 DEF Row
    <3>5. deal'[Anomaly].qty = VisibleQty(Anomaly, Row(deal[Anomaly]))'
      BY <1>1, <3>2, <3>4 DEF VisibleQty, qtyRows
    <3>6. QED
      BY <1>1, <1>3, <1>10, <1>11, <2>2, <3>2, <3>5 DEF SellsWhole
  <2>3. QED
    BY <1>3, <2>1, <2>2
<1>13. QED
  BY <1>1, <1>4, <1>5, <1>9, <1>12, StepBooks, OneRuns DEF cashRows, qtyRows

(* A price is saved: the row is locked, and keeps its quantity. *)
LEMMA FlushPriceBooks ==
    ASSUME TypeOK, TypeOK', BooksInv, NEW r \in Rows, FlushPrice(r)
    PROVE  BooksInv'
<1>1. /\ UNCHANGED <<cash, qty, net, held, cashRows, qtyNew, pc, cache, deal, sums, seen,
                     scanned, tickersLeft>>
      /\ pc[Anomaly] # "idle"
      /\ qtyLock[r] \in {Anomaly, Unlocked} /\ qtyLock' = [qtyLock EXCEPT ![r] = Anomaly]
  BY DEF FlushPrice, tables, AtFlush, MayLock
<1>2. OthersRest(Anomaly)
  BY <1>1, OneRuns DEF OthersRest, Jobs, sums
<1>3. /\ qtyLock'[r] = Anomaly
      /\ \A x \in Rows \ {r} : qtyLock'[x] = qtyLock[x]
  BY <1>1 DEF TypeOK
<1>4. Anomaly # Unlocked
  BY DEF Anomaly, Unlocked
<1>5. FreeRows' /\ LedgerBalanced'
  BY <1>1, <1>3, <1>4 DEF BooksInv, FreeRows, LedgerBalanced, cashRows
<1>6. \A x \in Rows : VisibleQty(Anomaly, x)' = VisibleQty(Anomaly, x)
  BY <1>1, <1>3, <1>4 DEF BooksInv, FreeRows, VisibleQty
<1>7. \A a \in Accounts : VisibleCash(Anomaly, a)' = VisibleCash(Anomaly, a)
  BY <1>1 DEF VisibleCash, cashRows
<1>8. SessionBooks(Anomaly) /\ heldNew' = heldNew /\ netNew' = netNew
  BY <1>1, OneRuns DEF BooksInv, sums
<1>9. ASSUME NEW x \in Rows PROVE QtyAgrees(Anomaly, x)'
  <2>1. VisibleQty(Anomaly, x) = qty[x] + heldNew[Anomaly][x]
    BY <1>8 DEF SessionBooks, QtyAgrees
  <2>2. VisibleQty(Anomaly, x)' = qty'[x] + heldNew'[Anomaly][x]
    BY <1>1, <1>6, <1>8, <2>1
  <2>3. QED
    BY <2>2 DEF QtyAgrees
<1>10. \A a \in Accounts : CashAgrees(Anomaly, a)'
  BY <1>1, <1>7, <1>8 DEF SessionBooks, CashAgrees, InHand, Money
<1>11. Trading(Anomaly) => Row(deal[Anomaly]) \in Rows /\ Row(deal[Anomaly])' = Row(deal[Anomaly])
  BY <1>1, DealType, DealMoney, OneRuns DEF Row
<1>12. Trading(Anomaly) =>
         VisibleQty(Anomaly, Row(deal[Anomaly]))' = VisibleQty(Anomaly, Row(deal[Anomaly]))
  BY <1>6, <1>11, <1>1, <1>3, <1>4 DEF VisibleQty, Row, BooksInv, FreeRows
<1>13. SessionBooks(Anomaly)'
  <2>1. DealAgrees(Anomaly)'
    BY <1>1, <1>8, <1>12 DEF SessionBooks, DealAgrees, Trading, Shares
  <2>2. QED
    BY <1>1, <1>9, <1>10, <2>1 DEF SessionBooks
<1>14. \A t \in Tickers : Known(t)' <=> Known(t)
  <2>1. \A t \in Tickers : <<scanned, t>> \in Rows
    BY DEF TypeOK, Rows
  <2>2. \A t \in Tickers :
          VisibleQty(Anomaly, <<scanned, t>>)' = VisibleQty(Anomaly, <<scanned, t>>)
    BY <1>1, <1>3, <1>4, <2>1 DEF VisibleQty, BooksInv, FreeRows
  <2>3. QED
    BY <1>1, <2>2 DEF Known
<1>15. SellsWhole'
  <2>1. \A t \in tickersLeft : t \in Tickers
    BY DEF TypeOK
  <2>2. Trading(Anomaly) => deal[Anomaly].ticker \in Tickers
    BY DealType, OneRuns
  <2>3. QED
    BY <1>1, <1>12, <1>14, <2>1, <2>2 DEF BooksInv, SellsWhole, Trading
<1>16. QED
  BY <1>1, <1>2, <1>3, <1>5, <1>13, <1>15, StepBooks, OneRuns DEF cashRows
-----------------------------------------------------------------------------
(* Taking a row's lock shows nothing new: a row that nobody has locked has *)
(* one version only.                                                       *)
LEMMA TakeCash ==
    ASSUME TypeOK, BooksInv, NEW j \in Jobs, NEW a \in Accounts,
           MayLock(cashLock[a], j), cashLock' = [cashLock EXCEPT ![a] = j], cash' = cash,
           \A x \in Accounts \ {a} : cashNew'[x] = cashNew[x]
    PROVE  /\ cashNew[a] = VisibleCash(j, a) /\ VisibleCash(j, a)' = cashNew'[a]
           /\ \A x \in Accounts \ {a} : VisibleCash(j, x)' = VisibleCash(j, x)
           /\ \A x \in Accounts : /\ cashLock'[x] \in {cashLock[x], j}
                                  /\ cashLock'[x] = Unlocked => cashNew'[x] = cash'[x]
<1>1. j # Unlocked
  BY DEF Jobs, Executor, Anomaly, Unlocked
<1>2. cashLock'[a] = j /\ \A x \in Accounts \ {a} : cashLock'[x] = cashLock[x]
  BY DEF TypeOK
<1>3. QED
  BY <1>1, <1>2 DEF BooksInv, FreeRows, VisibleCash, MayLock

LEMMA TakeQty ==
    ASSUME TypeOK, BooksInv, NEW j \in Jobs, NEW r \in Rows,
           MayLock(qtyLock[r], j), qtyLock' = [qtyLock EXCEPT ![r] = j], qty' = qty,
           \A x \in Rows \ {r} : qtyNew'[x] = qtyNew[x]
    PROVE  /\ VisibleQty(j, r)' = qtyNew'[r]
           /\ \A x \in Rows \ {r} : VisibleQty(j, x)' = VisibleQty(j, x)
           /\ \A x \in Rows : /\ qtyLock'[x] \in {qtyLock[x], j}
                              /\ qtyLock'[x] = Unlocked => qtyNew'[x] = qty'[x]
<1>1. j # Unlocked
  BY DEF Jobs, Executor, Anomaly, Unlocked
<1>2. qtyLock'[r] = j /\ \A x \in Rows \ {r} : qtyLock'[x] = qtyLock[x]
  BY DEF TypeOK
<1>3. QED
  BY <1>1, <1>2 DEF BooksInv, FreeRows, VisibleQty, MayLock

(* The amounts of a job that trades, before its step. *)
LEMMA TradeFacts ==
    ASSUME TypeOK, Covered, BooksInv, NEW j \in Jobs, Trading(j)
    PROVE  /\ deal[j].account \in Accounts /\ deal[j].ticker \in Tickers
           /\ Row(deal[j]) \in Rows /\ Row(deal[j]) = <<deal[j].account, deal[j].ticker>>
           /\ Money(deal[j]) \in Int /\ Shares(deal[j]) \in Int
           /\ cache[j][deal[j].account] # NotLoaded
           /\ \A a \in Accounts : /\ cash[a] \in Int /\ netNew[j][a] \in Int
                                  /\ cache[j][a] \in Int /\ InHand(j, a) \in Int
           /\ \A r \in Rows : /\ qty[r] \in Int /\ heldNew[j][r] \in Int
                              /\ VisibleQty(j, r) \in Int
           /\ SessionBooks(j) /\ pc[j] # "idle"
           /\ \A k \in Jobs \ {j} : pc[k] = "idle"
<1>1. /\ deal[j] \in Deals /\ deal[j].account \in Accounts /\ deal[j].ticker \in Tickers
      /\ Row(deal[j]) \in Rows /\ Money(deal[j]) \in Int /\ Shares(deal[j]) \in Int
  BY DealType, DealMoney
<1>2. cache[j][deal[j].account] # NotLoaded
  BY <1>1 DEF Covered, NotLoaded, TypeOK
<1>3. \A a \in Accounts : /\ cash[a] \in Int /\ netNew[j][a] \in Int
                          /\ cache[j][a] \in Int /\ InHand(j, a) \in Int
  BY <1>1 DEF TypeOK, InHand
<1>4. \A r \in Rows : /\ qty[r] \in Int /\ heldNew[j][r] \in Int /\ VisibleQty(j, r) \in Int
  BY DEF TypeOK, VisibleQty
<1>5. SessionBooks(j) /\ pc[j] # "idle" /\ \A k \in Jobs \ {j} : pc[k] = "idle"
  BY DEF BooksInv, OneJob, Trading, Jobs
<1>6. QED
  BY <1>1, <1>2, <1>3, <1>4, <1>5 DEF Row

(* `except ValueError': the trade is given up before it has changed an     *)
(* object; a lock it has taken stays.                                      *)
LEMMA RefuseBooks ==
    ASSUME TypeOK, TypeOK', Covered, BooksInv, NEW j \in Jobs, pc[j] \in {"buy", "sell"},
           Refuse(j),
           UNCHANGED <<tables, qtyRows, cashNew, sums, anomalyVars>>,
           \/ UNCHANGED cashLock
           \/ /\ MayLock(cashLock[deal[j].account], j)
              /\ cashLock' = [cashLock EXCEPT ![deal[j].account] = j]
    PROVE  BooksInv'
<1>1. /\ UNCHANGED <<cash, qty, net, held, qtyRows, cashNew, netNew, heldNew, cache, seen,
                     scanned, tickersLeft>>
      /\ pc' = [pc EXCEPT ![j] = "loop"]
  BY DEF Refuse, tables, sums, anomalyVars
<1>2. Trading(j)
  BY DEF Trading
<1>3. pc'[j] = "loop" /\ \A k \in Jobs \ {j} : pc'[k] = pc[k]
  BY <1>1 DEF TypeOK
<1>4. OthersRest(j)
  BY <1>1, <1>2, <1>3, TradeFacts DEF OthersRest
<1>5. /\ \A a \in Accounts : /\ VisibleCash(j, a)' = VisibleCash(j, a)
                             /\ cashLock'[a] \in {cashLock[a], j}
                             /\ cashLock'[a] = Unlocked => cashNew'[a] = cash'[a]
  <2>1. CASE UNCHANGED cashLock
    BY <1>1, <2>1 DEF BooksInv, FreeRows, VisibleCash
  <2>2. CASE ~UNCHANGED cashLock
    BY <1>1, <1>2, <2>2, TradeFacts, TakeCash
  <2>3. QED
    BY <2>1, <2>2
<1>6. FreeRows' /\ LedgerBalanced'
  BY <1>1, <1>5 DEF BooksInv, FreeRows, LedgerBalanced, qtyRows
<1>7. \A a \in Accounts : CashAgrees(j, a)'
  BY <1>1, <1>2, <1>3, <1>5, TradeFacts DEF SessionBooks, CashAgrees
<1>8. SessionBooks(j)'
  BY <1>1, <1>3, <1>7, SameQty DEF SessionBooks, DealAgrees
<1>9. IF j = Executor THEN TradesOrder' /\ tickersLeft' = tickersLeft ELSE SellsWhole'
  <2>1. CASE j = Executor
    BY <1>1, <1>3, <2>1 DEF TradesOrder, Trading
  <2>2. CASE j = Anomaly
    <3>1. \A t \in Tickers : Known(t)' <=> Known(t)
      BY <1>1 DEF Known, VisibleQty, qtyRows
    <3>2. QED
      BY <1>1, <1>3, <2>2, <3>1, OneRuns DEF BooksInv, SellsWhole, Trading, TypeOK
  <2>3. QED
    BY <2>1, <2>2 DEF Jobs
<1>10. QED
  BY <1>1, <1>4, <1>5, <1>6, <1>8, <1>9, StepBooks DEF qtyRows

(* A BUY is the executor's. *)
LEMMA LockAccountToBuyBooks ==
    ASSUME TypeOK, TypeOK', Covered, BooksInv, NEW j \in Jobs, LockAccountToBuy(j)
    PROVE  BooksInv'
<1>0. PICK d \in Deals, a \in Accounts : d = deal[j] /\ a = deal[j].account
  BY DealType
<1>1. /\ UNCHANGED <<cash, qty, net, held, tables, qtyRows, netNew, heldNew, sums, current,
                     anomalyVars, tickersLeft, book>>
      /\ pc[j] = "buy"
      /\ MayLock(cashLock[a], j) /\ cashLock' = [cashLock EXCEPT ![a] = j]
  BY <1>0 DEF LockAccountToBuy, tables, sums, anomalyVars
<1>2. CASE Refuse(j) /\ UNCHANGED cashNew
  BY <1>0, <1>1, <1>2, RefuseBooks
<1>3. CASE ~(Refuse(j) /\ UNCHANGED cashNew)
  <2>1. /\ cache' = [cache EXCEPT ![j][a] = @ - Cost(d)]
        /\ cashNew' = [cashNew EXCEPT ![a] = cache'[j][a]]
        /\ seen' = [seen EXCEPT ![j][d.ticker] = VisibleQty(j, Row(d)) + d.qty]
        /\ pc' = [pc EXCEPT ![j] = "position"]
        /\ UNCHANGED <<deal, mark>>
    BY <1>0, <1>3 DEF LockAccountToBuy
  <2>2. Trading(j)
    BY <1>1 DEF Trading
  <2>3. /\ a \in Accounts /\ d.ticker \in Tickers /\ Row(d) \in Rows /\ d.side = "BUY"
        /\ Cost(d) \in Int
    BY <1>0, <1>1, <2>2, TradeFacts, DealType, DealMoney DEF SessionBooks, DealAgrees
  <2>4. j = Executor
    BY <1>0, <2>2, <2>3 DEF BooksInv, SellsWhole, Jobs
  <2>5. /\ pc'[j] = "position"
        /\ cache'[j][a] = cache[j][a] - Cost(d)
        /\ \A x \in Accounts \ {a} : cache'[j][x] = cache[j][x]
        /\ seen'[j][d.ticker] = VisibleQty(j, Row(d)) + d.qty
        /\ cashNew'[a] = cache'[j][a]
        /\ \A x \in Accounts \ {a} : cashNew'[x] = cashNew[x]
        /\ \A k \in Jobs \ {j} : pc'[k] = pc[k] /\ cache'[k] = cache[k]
    BY <2>1, <2>3 DEF TypeOK
  <2>6. OthersRest(j)
    BY <1>1, <2>2, <2>5, TradeFacts DEF OthersRest
  <2>7. /\ VisibleCash(j, a)' = cashNew'[a]
        /\ \A x \in Accounts \ {a} : VisibleCash(j, x)' = VisibleCash(j, x)
        /\ \A x \in Accounts : /\ cashLock'[x] \in {cashLock[x], j}
                               /\ cashLock'[x] = Unlocked => cashNew'[x] = cash'[x]
    BY <1>1, <2>3, <2>5, TakeCash
  <2>8. FreeRows' /\ LedgerBalanced'
    BY <1>1, <2>7 DEF BooksInv, FreeRows, LedgerBalanced, qtyRows
  <2>9. /\ \A x \in Accounts : InHand(j, x)' = IF x = a THEN Money(d) ELSE 0
        /\ Money(d) = -Cost(d) /\ Shares(d) = d.qty
    BY <1>0, <2>1, <2>3 DEF InHand, Money, Shares
  <2>10. \A x \in Accounts : CashAgrees(j, x)'
    <3>1. CashAgrees(j, a)'
      BY <1>0, <1>1, <2>2, <2>3, <2>5, <2>7, <2>9, TradeFacts DEF SessionBooks, CashAgrees
    <3>2. ASSUME NEW x \in Accounts \ {a} PROVE CashAgrees(j, x)'
      BY <1>1, <2>2, <2>5, <2>7, <2>9, TradeFacts DEF SessionBooks, CashAgrees
    <3>3. QED
      BY <3>1, <3>2
  <2>11. DealAgrees(j)'
    <3>1. deal'[j] = d /\ Row(deal[j])' = Row(d) /\ Shares(deal[j])' = d.qty
      BY <1>0, <2>1, <2>3 DEF Row, Shares
    <3>2. VisibleQty(j, Row(deal[j]))' = VisibleQty(j, Row(d))
      BY <1>1, <3>1 DEF VisibleQty, qtyRows
    <3>3. QED
      BY <2>5, <3>1, <3>2 DEF DealAgrees
  <2>12. SessionBooks(j)'
    BY <1>1, <2>5, <2>10, <2>11, SameQty DEF SessionBooks
  <2>13. TradesOrder'
    BY <1>1, <2>1, <2>2, <2>4 DEF BooksInv, TradesOrder
  <2>14. QED
    BY <1>1, <2>4, <2>6, <2>7, <2>8, <2>12, <2>13, StepBooks DEF qtyRows
<1>4. QED
  BY <1>2, <1>3

(* A SELL: what the position's object shows is what the row holds.         *)
LEMMA ReadPositionToSellBooks ==
    ASSUME TypeOK, TypeOK', Covered, BooksInv, NEW j \in Jobs, ReadPositionToSell(j)
    PROVE  BooksInv'
<1>0. PICK d \in Deals, a \in Accounts : d = deal[j] /\ a = deal[j].account
  BY DealType
<1>1. /\ UNCHANGED <<cash, qty, net, held, tables, cashRows, qtyRows, netNew, heldNew, sums,
                     current, anomalyVars, tickersLeft, scanned, book>>
      /\ pc[j] = "sell"
  BY DEF ReadPositionToSell, tables, sums, anomalyVars
<1>2. CASE Refuse(j)
  BY <1>1, <1>2, RefuseBooks DEF cashRows
<1>3. CASE ~Refuse(j)
  <2>1. /\ cache' = [cache EXCEPT ![j][a] = @ + Proceeds(d)]
        /\ seen' = [seen EXCEPT ![j][d.ticker] = ObjectQty(j, d) - d.qty]
        /\ pc' = [pc EXCEPT ![j] = "account"]
        /\ UNCHANGED <<deal, mark>>
    BY <1>0, <1>3 DEF ReadPositionToSell
  <2>2. Trading(j)
    BY <1>1 DEF Trading
  <2>3. /\ a \in Accounts /\ d.ticker \in Tickers /\ Row(d) \in Rows /\ d.side = "SELL"
        /\ Proceeds(d) \in Int
    BY <1>0, <1>1, <2>2, TradeFacts, DealType, DealMoney DEF SessionBooks, DealAgrees
  <2>4. ObjectQty(j, d) = VisibleQty(j, Row(d))
    <3>1. CASE j = Anomaly
      <4>1. Known(d.ticker) /\ d.account = scanned
        BY <1>0, <1>1, <2>2, <3>1 DEF BooksInv, SellsWhole
      <4>2. QED
        BY <3>1, <4>1 DEF Known, ObjectQty, Row
    <3>2. CASE j # Anomaly
      BY <3>2 DEF ObjectQty
    <3>3. QED
      BY <3>1, <3>2
  <2>5. /\ pc'[j] = "account"
        /\ cache'[j][a] = cache[j][a] + Proceeds(d)
        /\ \A x \in Accounts \ {a} : cache'[j][x] = cache[j][x]
        /\ seen'[j][d.ticker] = VisibleQty(j, Row(d)) - d.qty
        /\ \A t \in Tickers \ {d.ticker} : seen'[j][t] = seen[j][t]
        /\ \A k \in Jobs \ {j} : pc'[k] = pc[k] /\ cache'[k] = cache[k]
    BY <2>1, <2>3, <2>4 DEF TypeOK
  <2>6. OthersRest(j)
    BY <1>1, <2>2, <2>5, TradeFacts DEF OthersRest
  <2>7. /\ FreeRows' /\ LedgerBalanced'
        /\ \A x \in Accounts : VisibleCash(j, x)' = VisibleCash(j, x)
    BY <1>1, SameRows
  <2>8. /\ \A x \in Accounts : InHand(j, x)' = IF x = a THEN Money(d) ELSE 0
        /\ Money(d) = Proceeds(d) /\ Shares(d) = -d.qty
        /\ deal'[j] = d /\ Row(deal[j])' = Row(d) /\ Shares(deal[j])' = -d.qty
    BY <1>0, <2>1, <2>3 DEF InHand, Money, Shares, Row
  <2>9. \A x \in Accounts : CashAgrees(j, x)'
    <3>1. CashAgrees(j, a)'
      BY <1>0, <1>1, <2>2, <2>3, <2>5, <2>7, <2>8, TradeFacts DEF SessionBooks, CashAgrees
    <3>2. ASSUME NEW x \in Accounts \ {a} PROVE CashAgrees(j, x)'
      BY <1>1, <2>2, <2>5, <2>7, <2>8, TradeFacts DEF SessionBooks, CashAgrees
    <3>3. QED
      BY <3>1, <3>2
  <2>10. VisibleQty(j, Row(d)) = VisibleQty(j, Row(deal[j]))'
    BY <1>1, <2>8 DEF VisibleQty, qtyRows
  <2>11. DealAgrees(j)'
    <3>1. VisibleQty(j, Row(d)) \in Int /\ d.qty \in Int
      BY <1>0, DealType
    <3>2. QED
      BY <2>3, <2>5, <2>8, <2>10, <3>1 DEF DealAgrees
  <2>12. SessionBooks(j)'
    BY <1>1, <2>5, <2>9, <2>11, SameQty DEF SessionBooks
  <2>13. CASE j = Executor
    <3>1. TradesOrder'
      BY <1>1, <2>1, <2>2, <2>13 DEF BooksInv, TradesOrder
    <3>2. QED
      BY <1>1, <2>6, <2>7, <2>12, <2>13, <3>1, StepBooks DEF cashRows, qtyRows
  <2>14. CASE j = Anomaly
    <3>1. /\ d.account = scanned /\ d.ticker \notin tickersLeft /\ d.qty > 0
          /\ d.qty = VisibleQty(Anomaly, Row(d))
          /\ \A t \in tickersLeft : t \in Tickers /\ Known(t)
      BY <1>0, <2>2, <2>14 DEF BooksInv, SellsWhole, TypeOK
    <3>2. \A t \in tickersLeft' : Known(t)'
      BY <1>1, <2>5, <2>14, <3>1 DEF Known, VisibleQty, qtyRows
    <3>3. SellsWhole'
      BY <1>1, <2>3, <2>5, <2>8, <2>10, <2>14, <3>1, <3>2 DEF SellsWhole
    <3>4. QED
      BY <1>1, <2>6, <2>7, <2>12, <2>14, <3>3, StepBooks, OneRuns DEF cashRows, qtyRows
  <2>15. QED
    BY <2>13, <2>14 DEF Jobs
<1>4. QED
  BY <1>2, <1>3

(* The credit reaches the account's row. *)
LEMMA FlushAccountBooks ==
    ASSUME TypeOK, TypeOK', Covered, BooksInv, NEW j \in Jobs, FlushAccount(j)
    PROVE  BooksInv'
<1>0. PICK d \in Deals, a \in Accounts : d = deal[j] /\ a = deal[j].account
  BY DealType
<1>1. /\ UNCHANGED <<cash, qty, net, held, tables, qtyRows, cache, seen, deal, netNew, heldNew,
                     sums, current, tickersLeft, scanned, book>>
      /\ pc[j] = "account" /\ pc' = [pc EXCEPT ![j] = "position"]
      /\ MayLock(cashLock[a], j) /\ cashLock' = [cashLock EXCEPT ![a] = j]
      /\ cashNew' = [cashNew EXCEPT ![a] = cache[j][a]]
  BY <1>0 DEF FlushAccount, tables, sums, executorVars, anomalyVars
<1>2. Trading(j)
  BY <1>1 DEF Trading
<1>3. /\ pc'[j] = "position" /\ \A k \in Jobs \ {j} : pc'[k] = pc[k]
      /\ cashNew'[a] = cache[j][a] /\ \A x \in Accounts \ {a} : cashNew'[x] = cashNew[x]
  BY <1>1 DEF TypeOK
<1>4. OthersRest(j)
  BY <1>1, <1>2, <1>3, TradeFacts DEF OthersRest
<1>5. /\ VisibleCash(j, a)' = cashNew'[a]
      /\ \A x \in Accounts \ {a} : VisibleCash(j, x)' = VisibleCash(j, x)
      /\ \A x \in Accounts : /\ cashLock'[x] \in {cashLock[x], j}
                             /\ cashLock'[x] = Unlocked => cashNew'[x] = cash'[x]
  BY <1>1, <1>3, TakeCash
<1>6. FreeRows' /\ LedgerBalanced'
  BY <1>1, <1>5 DEF BooksInv, FreeRows, LedgerBalanced, qtyRows
<1>7. /\ \A x \in Accounts : InHand(j, x)' = InHand(j, x)
      /\ \A x \in Accounts \ {a} : InHand(j, x) = 0
  BY <1>0, <1>1 DEF InHand, Money
<1>8. \A x \in Accounts : CashAgrees(j, x)'
  <2>1. CashAgrees(j, a)'
    BY <1>0, <1>1, <1>2, <1>3, <1>5, <1>7, TradeFacts DEF SessionBooks, CashAgrees
  <2>2. ASSUME NEW x \in Accounts \ {a} PROVE CashAgrees(j, x)'
    BY <1>1, <1>2, <1>3, <1>5, <1>7, TradeFacts DEF SessionBooks, CashAgrees
  <2>3. QED
    BY <2>1, <2>2
<1>9. deal'[j] = d /\ Row(deal[j])' = Row(d) /\ Shares(deal[j])' = Shares(d)
      /\ VisibleQty(j, Row(deal[j]))' = VisibleQty(j, Row(d))
  BY <1>0, <1>1 DEF Row, Shares, VisibleQty, qtyRows
<1>10. DealAgrees(j)'
  BY <1>0, <1>1, <1>2, <1>3, <1>9, TradeFacts DEF SessionBooks, DealAgrees
<1>11. SessionBooks(j)'
  BY <1>1, <1>3, <1>8, <1>10, SameQty DEF SessionBooks
<1>12. CASE j = Executor
  <2>1. TradesOrder'
    BY <1>1, <1>2, <1>12 DEF BooksInv, TradesOrder
  <2>2. QED
    BY <1>1, <1>4, <1>5, <1>6, <1>11, <1>12, <2>1, StepBooks DEF qtyRows
<1>13. CASE j = Anomaly
  <2>1. \A t \in Tickers : Known(t)' <=> Known(t)
    BY <1>1 DEF Known, VisibleQty, qtyRows
  <2>2. \A t \in tickersLeft : t \in Tickers
    BY DEF TypeOK
  <2>3. SellsWhole'
    BY <1>0, <1>1, <1>2, <1>3, <1>9, <1>13, <2>1, <2>2 DEF BooksInv, SellsWhole
  <2>4. QED
    BY <1>1, <1>4, <1>5, <1>6, <1>11, <1>13, <2>3, StepBooks, OneRuns DEF qtyRows
<1>14. QED
  BY <1>12, <1>13 DEF Jobs

(* The position's row and the FILLED row: the trade is in the sums now. *)
LEMMA FlushPositionBooks ==
    ASSUME TypeOK, TypeOK', Covered, BooksInv, NEW j \in Jobs, FlushPosition(j)
    PROVE  BooksInv'
<1>0. PICK d \in Deals, a \in Accounts, r \in Rows :
        d = deal[j] /\ a = deal[j].account /\ r = Row(deal[j])
  BY DealType
<1>1. /\ UNCHANGED <<cash, qty, net, held, tables, cashRows, cache, seen, current,
                     tickersLeft, scanned, book>>
      /\ pc[j] = "position" /\ pc' = [pc EXCEPT ![j] = "loop"]
      /\ MayLock(qtyLock[r], j) /\ qtyLock' = [qtyLock EXCEPT ![r] = j]
      /\ qtyNew' = [qtyNew EXCEPT ![r] = seen[j][d.ticker]]
      /\ netNew' = [netNew EXCEPT ![j][a] = @ + Money(d)]
      /\ heldNew' = [heldNew EXCEPT ![j][r] = @ + Shares(d)]
  BY <1>0 DEF FlushPosition, tables, anomalyVars
<1>2. Trading(j)
  BY <1>1 DEF Trading
<1>3. /\ pc'[j] = "loop"
      /\ netNew'[j][a] = netNew[j][a] + Money(d)
      /\ \A x \in Accounts \ {a} : netNew'[j][x] = netNew[j][x]
      /\ heldNew'[j][r] = heldNew[j][r] + Shares(d)
      /\ \A x \in Rows \ {r} : heldNew'[j][x] = heldNew[j][x]
      /\ qtyNew'[r] = seen[j][d.ticker] /\ \A x \in Rows \ {r} : qtyNew'[x] = qtyNew[x]
      /\ \A k \in Jobs \ {j} :
           pc'[k] = pc[k] /\ netNew'[k] = netNew[k] /\ heldNew'[k] = heldNew[k]
  BY <1>1 DEF TypeOK
<1>4. OthersRest(j)
  BY <1>1, <1>2, <1>3, TradeFacts DEF OthersRest
<1>5. /\ VisibleQty(j, r)' = qtyNew'[r]
      /\ \A x \in Rows \ {r} : VisibleQty(j, x)' = VisibleQty(j, x)
      /\ \A x \in Rows : /\ qtyLock'[x] \in {qtyLock[x], j}
                         /\ qtyLock'[x] = Unlocked => qtyNew'[x] = qty'[x]
  BY <1>1, <1>3, TakeQty
<1>6. FreeRows' /\ LedgerBalanced'
  BY <1>1, <1>5 DEF BooksInv, FreeRows, LedgerBalanced, cashRows
<1>7. /\ \A x \in Accounts : VisibleCash(j, x)' = VisibleCash(j, x)
      /\ \A x \in Accounts : InHand(j, x) = IF x = a THEN Money(d) ELSE 0
      /\ Money(d) \in Int /\ Shares(d) \in Int
  BY <1>0, <1>1, DealMoney DEF VisibleCash, cashRows, InHand
<1>8. \A x \in Accounts : CashAgrees(j, x)'
  <2>1. CashAgrees(j, a)'
    <3>1. cash[a] + netNew'[j][a] = cash[a] + netNew[j][a] + Money(d)
      BY <1>2, <1>3, <1>7, TradeFacts
    <3>2. CashAgrees(j, a) /\ cash' = cash /\ cache' = cache
      BY <1>1, <1>2, TradeFacts DEF SessionBooks
    <3>3. /\ VisibleCash(j, a) = cash[a] + netNew[j][a] + Money(d)
          /\ cache[j][a] # NotLoaded => cache[j][a] = cash[a] + netNew[j][a] + Money(d)
      BY <1>1, <1>7, <3>2 DEF CashAgrees
    <3>4. /\ cash[a] + netNew'[j][a] + 0 = cash[a] + netNew'[j][a]
          /\ VisibleCash(j, a)' = VisibleCash(j, a)
      BY <1>2, <1>3, <1>7, TradeFacts
    <3>5. QED
      BY <1>3, <3>1, <3>2, <3>3, <3>4 DEF CashAgrees
  <2>2. ASSUME NEW x \in Accounts \ {a} PROVE CashAgrees(j, x)'
    BY <1>1, <1>2, <1>3, <1>7, TradeFacts DEF SessionBooks, CashAgrees
  <2>3. QED
    BY <2>1, <2>2
<1>9. \A x \in Rows : QtyAgrees(j, x)'
  <2>1. QtyAgrees(j, r)'
    <3>1. /\ seen[j][d.ticker] = VisibleQty(j, r) + Shares(d)
          /\ VisibleQty(j, r) = qty[r] + heldNew[j][r]
      BY <1>0, <1>1, <1>2, TradeFacts DEF SessionBooks, DealAgrees, QtyAgrees
    <3>2. qty[r] + heldNew[j][r] + Shares(d) = qty'[r] + heldNew'[j][r]
      BY <1>1, <1>2, <1>3, <1>7, TradeFacts
    <3>3. VisibleQty(j, r)' = qty'[r] + heldNew'[j][r]
      BY <1>3, <1>5, <3>1, <3>2
    <3>4. QED
      BY <3>3 DEF QtyAgrees
  <2>2. ASSUME NEW x \in Rows \ {r} PROVE QtyAgrees(j, x)'
    <3>1. VisibleQty(j, x) = qty[x] + heldNew[j][x]
      BY <1>2, TradeFacts DEF SessionBooks, QtyAgrees
    <3>2. VisibleQty(j, x)' = qty'[x] + heldNew'[j][x]
      BY <1>1, <1>3, <1>5, <3>1
    <3>3. QED
      BY <3>2 DEF QtyAgrees
  <2>3. QED
    BY <2>1, <2>2
<1>10. SessionBooks(j)'
  BY <1>3, <1>8, <1>9 DEF SessionBooks, DealAgrees
<1>11. CASE j = Executor
  <2>1. TradesOrder'
    BY <1>3, <1>11 DEF TradesOrder, Trading
  <2>2. QED
    BY <1>1, <1>4, <1>5, <1>6, <1>10, <1>11, <2>1, StepBooks DEF cashRows
<1>12. CASE j = Anomaly
  <2>1. /\ d.account = scanned /\ d.ticker \notin tickersLeft /\ r = <<scanned, d.ticker>>
        /\ \A t \in tickersLeft : t \in Tickers /\ Known(t)
    BY <1>0, <1>2, <1>12 DEF BooksInv, SellsWhole, TypeOK, Row
  <2>2. ASSUME NEW t \in tickersLeft PROVE Known(t)'
    <3>1. <<scanned, t>> \in Rows /\ <<scanned, t>> # r
      BY <2>1 DEF Rows, TypeOK
    <3>2. qtyNew'[<<scanned, t>>] = qtyNew[<<scanned, t>>]
      BY <1>3, <3>1
    <3>3. VisibleQty(Anomaly, <<scanned, t>>)' = VisibleQty(Anomaly, <<scanned, t>>)
      <4> DEFINE x == <<scanned, t>>
      <4>1. x' = x
        BY <1>1
      <4>2. qtyLock'[x] = qtyLock[x] /\ qtyNew'[x] = qtyNew[x] /\ qty' = qty
        BY <1>1, <3>1, <3>2 DEF TypeOK
      <4>3. QED
        BY <1>1, <4>2 DEF VisibleQty
    <3>4. QED
      BY <1>1, <2>1, <3>3 DEF Known
  <2>3. SellsWhole'
    BY <1>1, <1>3, <1>12, <2>2 DEF SellsWhole, Trading
  <2>4. QED
    BY <1>1, <1>4, <1>5, <1>6, <1>10, <1>12, <2>3, StepBooks, OneRuns DEF cashRows
<1>13. QED
  BY <1>11, <1>12 DEF Jobs

LEMMA PlaceSimOrderBooks ==
    ASSUME TypeOK, TypeOK', Covered, BooksInv, NEW j \in Jobs, PlaceSimOrder(j)
    PROVE  BooksInv'
<1>1. CASE FlushPositionFails(j)
  BY <1>1, RollbackBooks DEF FlushPositionFails
<1>2. QED
  BY <1>1, LockAccountToBuyBooks, ReadPositionToSellBooks, FlushAccountBooks, FlushPositionBooks
  DEF PlaceSimOrder

(* A job that waits for a lock runs. *)
LEMMA WaitingRuns ==
    ASSUME NEW j \in Jobs, NEW k \in Jobs, WaitsFor(j, k)
    PROVE  pc[j] # "idle"
BY DEF WaitsFor, AtFlush

LEMMA NextBooks == AllInv /\ [Next /\ OneJob']_vars => AllInv'
<1> SUFFICES ASSUME AllInv, [Next /\ OneJob']_vars PROVE AllInv'
  OBVIOUS
<1>1. TypeOK /\ Covered /\ Once /\ BooksInv /\ [Next]_vars
  BY DEF AllInv, Inv
<1>2. Inv' /\ TypeOK'
  BY <1>1, NextInv DEF Inv
<1>3. Once'
  BY <1>1, NextOnce
<1>4. CASE UNCHANGED vars
  <2>1. UNCHANGED <<cash, qty, net, held, cashRows, qtyRows, cashNew, cashLock, qtyNew, qtyLock,
                    pc, cache, seen, deal, netNew, heldNew, book, current, scanned, tickersLeft>>
    BY <1>4 DEF vars, tables, cashRows, qtyRows, sums, executorVars, anomalyVars
  <2>2. OneJob' /\ LedgerBalanced' /\ FreeRows' /\ TradesOrder'
    BY <1>1, <2>1 DEF BooksInv, OneJob, LedgerBalanced, FreeRows, TradesOrder, Trading
  <2>3. \A j \in Jobs : SessionBooks(j)'
    BY <1>1, <2>1 DEF BooksInv, SessionBooks, Rests, CashAgrees, QtyAgrees, DealAgrees, InHand,
      VisibleCash, VisibleQty, Money, Shares, Row
  <2>4. SellsWhole'
    BY <1>1, <2>1 DEF BooksInv, SellsWhole, Known, Trading, VisibleQty, Row
  <2>5. QED
    BY <1>2, <1>3, <2>2, <2>3, <2>4 DEF AllInv, BooksInv
<1>5. CASE Next /\ OneJob'
  <2> SUFFICES BooksInv'
    BY <1>2, <1>3 DEF AllInv
  <2>1. CASE (\E o \in Orders : QueueOrder(o)) \/ StartExecutor \/ StartAnomaly
    BY <1>1, <1>2, <1>5, <2>1, QueueOrderBooks, StartExecutorBooks, StartAnomalyBooks
  <2>2. CASE RunExecutor
    <3>1. CASE CommitExecutor
      BY <1>1, <1>2, <3>1, CommitBooks, OneRuns DEF CommitExecutor
    <3>2. QED
      BY <1>1, <1>2, <2>2, <3>1, NextOrderBooks, PlaceSimOrderBooks, OneRuns DEF RunExecutor
  <2>3. CASE RunAnomaly
    <3>1. CASE CommitAnomaly
      BY <1>1, <1>2, <3>1, CommitBooks, OneRuns DEF CommitAnomaly
    <3>2. CASE \E r \in Rows : FlushPriceFails(r)
      BY <1>1, <1>2, <3>2, RollbackBooks, OneRuns DEF FlushPriceFails, AtFlush
    <3>3. CASE (\E a \in Accounts : ScanAccount(a)) \/ (\E t \in Tickers : CheckPosition(t))
      BY <1>1, <1>2, <3>3, ScanAccountBooks, CheckPositionBooks
    <3>4. CASE (\E r \in Rows : FlushPrice(r)) \/ PlaceSimOrder(Anomaly)
      BY <1>1, <1>2, <3>4, FlushPriceBooks, PlaceSimOrderBooks, OneRuns
    <3>5. QED
      BY <2>3, <3>1, <3>2, <3>3, <3>4 DEF RunAnomaly
  <2>4. CASE \E j \in Jobs : BreakDeadlock(j) \/ LoseTransaction(j)
    BY <1>1, <1>2, <2>4, RollbackBooks, WaitingRuns DEF BreakDeadlock, LoseTransaction
  <2>5. QED
    BY <1>5, <2>1, <2>2, <2>3, <2>4 DEF Next
<1>6. QED
  BY <1>4, <1>5

LEMMA AllInvAlways == SerialSpec => []AllInv
<1>1. Init => AllInv
  BY InitType, InitCovered, InitOnce, InitBooks DEF AllInv, Inv
<1> QED
  BY <1>1, NextBooks, PTL DEF SerialSpec

(* While the two jobs do not overlap, no won and no share appears or       *)
(* disappears: the committed balances and positions are exactly what the   *)
(* FILLED rows account for, through every refused order, rollback, crash   *)
(* and stale object of place_sim_order's callers.                          *)
THEOREM LedgerBalancedAlways == SerialSpec => []LedgerBalanced
<1>1. AllInv => LedgerBalanced
  BY DEF AllInv, BooksInv
<1> QED
  BY <1>1, AllInvAlways, PTL

(* ... and so nothing is spent twice: what the FILLED rows spent was there *)
(* to be spent.  The overlapping jobs break this (SimDoubleSpend.cfg).     *)
THEOREM SerialNoDoubleSpend == SerialSpec => []NoDoubleSpend
<1>1. AllInv => NoDoubleSpend
  BY DEF AllInv, BooksInv, LedgerBalanced, Inv, Covered, Solvent, NoDoubleSpend
<1> QED
  BY <1>1, AllInvAlways, PTL
-----------------------------------------------------------------------------
(***************************************************************************)
(* SerialSpec implements SimBooks.                                         *)
(***************************************************************************)
LEMMA InitImplements == Init => Books!Init
<1> SUFFICES ASSUME Init PROVE Books!Init
  OBVIOUS
<1>1. Runner = "nobody"
  BY DEF Init, Runner, Nothing, Jobs, Executor, Anomaly
<1>2. Work = cash
  BY SimAssumption DEF Init, Work, Nothing, Jobs, Executor, Anomaly
<1>3. Stock = qty
  BY SimAssumption DEF Init, Stock, Nothing, Jobs, Executor, Anomaly
<1>4. book \in [Orders -> Requests]
  BY NoRequestType DEF Init, Nothing
<1>5. QED
  BY <1>1, <1>2, <1>3, <1>4 DEF Books!Init, Books!Undecided, Init, Nothing

LEMMA RunnerIs ==
    ASSUME BooksInv
    PROVE  /\ \A j \in Jobs : pc[j] # "idle" => Runner = j
           /\ (\A j \in Jobs : pc[j] = "idle") => Runner = "nobody"
           /\ \A j \in Jobs : j # "nobody"
BY OneRuns DEF Runner, Jobs, Executor, Anomaly

(* The abstract copy of the books is what the running transaction sees,    *)
(* but for the money of the trade in progress.                             *)
LEMMA CopyIs ==
    ASSUME TypeOK, BooksInv
    PROVE  /\ \A j \in Jobs : pc[j] # "idle" =>
                /\ \A a \in Accounts : Work[a] = cash[a] + netNew[j][a]
                /\ \A r \in Rows : Stock[r] = qty[r] + heldNew[j][r]
                                   /\ Stock[r] = VisibleQty(j, r)
           /\ (\A j \in Jobs : pc[j] = "idle") => Work = cash /\ Stock = qty
<1>1. \A j \in Jobs : pc[j] = "idle" =>
         /\ \A a \in Accounts : netNew[j][a] = 0
         /\ \A r \in Rows : heldNew[j][r] = 0
  BY DEF BooksInv, SessionBooks, Rests
<1>2. /\ \A a \in Accounts : Work[a] = cash[a] + netNew[Executor][a] + netNew[Anomaly][a]
      /\ \A r \in Rows : Stock[r] = qty[r] + heldNew[Executor][r] + heldNew[Anomaly][r]
  BY DEF Work, Stock
<1>3. /\ \A a \in Accounts : cash[a] \in Int /\ \A j \in Jobs : netNew[j][a] \in Int
      /\ \A r \in Rows : qty[r] \in Int /\ \A j \in Jobs : heldNew[j][r] \in Int
  BY DEF TypeOK
<1>4. ASSUME NEW j \in Jobs, pc[j] # "idle"
      PROVE  /\ \A a \in Accounts : Work[a] = cash[a] + netNew[j][a]
             /\ \A r \in Rows : Stock[r] = qty[r] + heldNew[j][r]
  <2>1. CASE j = Executor
    BY <1>1, <1>2, <1>3, <1>4, <2>1, OneRuns
  <2>2. CASE j = Anomaly
    BY <1>1, <1>2, <1>3, <1>4, <2>2, OneRuns
  <2>3. QED
    BY <2>1, <2>2 DEF Jobs
<1>5. ASSUME NEW j \in Jobs, pc[j] # "idle", NEW r \in Rows
      PROVE  Stock[r] = VisibleQty(j, r)
  BY <1>4, <1>5 DEF BooksInv, SessionBooks, QtyAgrees
<1>6. ASSUME \A j \in Jobs : pc[j] = "idle"
      PROVE  Work = cash /\ Stock = qty
  <2>1. /\ \A a \in Accounts : netNew[Executor][a] = 0 /\ netNew[Anomaly][a] = 0
        /\ \A r \in Rows : heldNew[Executor][r] = 0 /\ heldNew[Anomaly][r] = 0
    BY <1>1, <1>6, OneRuns
  <2>2. ASSUME NEW a \in Accounts PROVE Work[a] = cash[a]
    <3>1. Work[a] = cash[a] + 0 + 0
      BY <1>2, <2>1
    <3>2. QED
      BY <1>3, <3>1
  <2>3. ASSUME NEW r \in Rows PROVE Stock[r] = qty[r]
    <3>1. Stock[r] = qty[r] + 0 + 0
      BY <1>2, <2>1
    <3>2. QED
      BY <1>3, <3>1
  <2>4. QED
    BY <2>2, <2>3 DEF Work, Stock, TypeOK
<1>7. QED
  BY <1>4, <1>5, <1>6

(* A step within a run that decides nothing and books nothing. *)
LEMMA QuietImplements ==
    ASSUME AllInv, AllInv', NEW j \in Jobs, pc[j] # "idle", pc'[j] # "idle",
           UNCHANGED <<cash, qty, book, status, mark, netNew, heldNew>>
    PROVE  UNCHANGED Books!vars
<1>1. Runner' = Runner
  <2>1. Runner = j
    BY RunnerIs DEF AllInv
  <2>2. BooksInv'
    BY DEF AllInv
  <2>3. Runner' = j
    BY <2>2, OneRuns DEF BooksInv, OneJob, Runner, Jobs
  <2>4. QED
    BY <2>1, <2>3
<1>2. Work' = Work /\ Stock' = Stock
  BY DEF Work, Stock
<1>3. QED
  BY <1>1, <1>2 DEF Books!vars

LEMMA FailImplements ==
    ASSUME AllInv, AllInv', pc[Executor] # "idle", pc'[Executor] # "idle",
           NEW o \in Orders, status[o] = "PENDING", mark[o] = "KEEP",
           mark' = [mark EXCEPT ![o] = "FAILED"],
           UNCHANGED <<cash, qty, book, status, netNew, heldNew>>
    PROVE  Books!Fail(o)
<1>1. Runner = Executor /\ Runner' = Executor
  BY DEF Runner
<1>2. Work' = Work /\ Stock' = Stock
  BY DEF Work, Stock
<1>3. QED
  BY <1>1, <1>2 DEF Books!Fail, Books!Decides

LEMMA QueueOrderImplements ==
    ASSUME AllInv, AllInv', NEW o \in Orders, QueueOrder(o)
    PROVE  Books!Queue(o)
<1>1. UNCHANGED <<cash, qty, pc, netNew, heldNew, mark>> /\ status[o] = "NONE"
      /\ status' = [status EXCEPT ![o] = "PENDING"]
  BY DEF QueueOrder, sums, executorVars
<1>2. Runner' = Runner /\ Work' = Work /\ Stock' = Stock
  BY <1>1 DEF Runner, Work, Stock
<1>3. book' = [book EXCEPT ![o] = book'[o]] /\ book'[o] \in Requests
  <2>1. PICK b : book' = [book EXCEPT ![o] = b]
    BY DEF QueueOrder
  <2>2. book'[o] = b
    BY <2>1 DEF AllInv, Inv, TypeOK
  <2>3. book'[o] \in Requests
    BY DEF AllInv, Inv, TypeOK
  <2>4. QED
    BY <2>1, <2>2, <2>3
<1>4. QED
  BY <1>1, <1>2, <1>3 DEF Books!Queue

LEMMA StartImplements ==
    ASSUME AllInv, AllInv', StartExecutor \/ StartAnomaly
    PROVE  \E j \in Jobs : Books!Start(j)
<1>1. PICK j \in Jobs : pc[j] = "idle" /\ pc' = [pc EXCEPT ![j] = "loop"]
  BY DEF StartExecutor, StartAnomaly, Jobs
<1>2. UNCHANGED <<cash, qty, book, status, netNew, heldNew, mark>>
  BY DEF StartExecutor, StartAnomaly, tables, sums, executorVars
<1>3. pc'[j] = "loop" /\ \A k \in Jobs \ {j} : pc'[k] = pc[k]
  BY <1>1 DEF AllInv, Inv, TypeOK
<1>4. Runner = "nobody"
  <2>1. \A k \in Jobs : pc[k] = "idle"
    BY <1>1, <1>3 DEF AllInv, BooksInv, OneJob, Jobs
  <2>2. QED
    BY <2>1, RunnerIs DEF AllInv
<1>5. Runner' = j
  <2>1. BooksInv'
    BY DEF AllInv
  <2>2. \A k \in Jobs \ {j} : pc'[k] = "idle"
    BY <1>3, <2>1 DEF BooksInv, OneJob, Jobs
  <2>3. QED
    BY <1>3, <2>2 DEF Runner, Jobs, Executor, Anomaly
<1>6. Work' = Work /\ Stock' = Stock
  BY <1>2 DEF Work, Stock
<1>7. QED
  BY <1>2, <1>4, <1>5, <1>6 DEF Books!Start

(* A session ends: nobody runs, and the copy is the committed books. *)
LEMMA EndCopy ==
    ASSUME AllInv, AllInv', NEW j \in Jobs, pc[j] # "idle", ForgetSession(j)
    PROVE  /\ Runner # "nobody" /\ Runner' = "nobody"
           /\ Work' = cash' /\ Stock' = qty' /\ mark' = Books!Undecided
           /\ j # Executor => mark = Books!Undecided
<1>1. pc'[j] = "idle" /\ \A k \in Jobs \ {j} : pc[k] = "idle" /\ pc'[k] = "idle"
  BY DEF ForgetSession, AllInv, Inv, TypeOK, BooksInv, OneJob, Jobs
<1>2. BooksInv /\ BooksInv' /\ TypeOK' /\ \A k \in Jobs : pc'[k] = "idle"
  BY <1>1 DEF AllInv, Inv
<1>3. Runner # "nobody"
  BY <1>2, RunnerIs
<1>4. Runner' = "nobody" /\ (\A k \in Jobs : k # "nobody")
  BY <1>2 DEF Runner, Jobs, Executor, Anomaly
<1>5. Work' = cash' /\ Stock' = qty'
  <2>1. \A k \in Jobs : /\ \A a \in Accounts : netNew'[k][a] = 0
                        /\ \A r \in Rows : heldNew'[k][r] = 0
    BY <1>2 DEF BooksInv, SessionBooks, Rests
  <2>2. /\ \A a \in Accounts : cash'[a] \in Int
        /\ \A r \in Rows : qty'[r] \in Int
    BY <1>2 DEF TypeOK
  <2>3. /\ \A a \in Accounts : Work'[a] = cash'[a]
        /\ \A r \in Rows : Stock'[r] = qty'[r]
    BY <2>1, <2>2 DEF Work, Stock, Jobs
  <2>4. QED
    BY <1>2, <2>3 DEF Work, Stock, TypeOK
<1>6. mark' = Books!Undecided /\ (j # Executor => mark = Books!Undecided)
  <2>1. CASE j = Executor
    BY <2>1 DEF ForgetSession, Books!Undecided, Nothing
  <2>2. CASE j # Executor
    <3>1. mark' = mark
      BY <2>2 DEF ForgetSession, executorVars
    <3>2. mark \in [Orders -> {"KEEP", "FILLED", "FAILED"}] /\ \A o \in Orders : mark[o] = "KEEP"
      BY <1>1, <2>2 DEF AllInv, Inv, TypeOK, Once, SessionAgrees, Jobs
    <3>3. QED
      BY <2>2, <3>1, <3>2 DEF Books!Undecided
  <2>3. QED
    BY <2>1, <2>2
<1>7. QED
  BY <1>3, <1>4, <1>5, <1>6

LEMMA RollbackImplements ==
    ASSUME AllInv, AllInv', NEW j \in Jobs, pc[j] # "idle", Rollback(j)
    PROVE  Books!Abandon
<1>1. ForgetSession(j) /\ UNCHANGED <<cash, qty, book, status>>
  BY DEF Rollback, tables
<1>2. QED
  BY <1>1, EndCopy DEF Books!Abandon

LEMMA CommitImplements ==
    ASSUME AllInv, AllInv', NEW j \in Jobs, pc[j] = "loop", Commit(j)
    PROVE  Books!Commit
<1>1. ForgetSession(j) /\ book' = book
      /\ cash' = [a \in Accounts |-> VisibleCash(j, a)]
      /\ qty' = [r \in Rows |-> VisibleQty(j, r)]
  BY DEF Commit
<1>2. /\ Runner # "nobody" /\ Runner' = "nobody"
      /\ Work' = cash' /\ Stock' = qty' /\ mark' = Books!Undecided
      /\ j # Executor => mark = Books!Undecided
  BY <1>1, EndCopy
<1>3. cash' = Work /\ qty' = Stock
  <2>1. \A a \in Accounts : VisibleCash(j, a) = Work[a]
    <3>1. TypeOK /\ BooksInv /\ \A a \in Accounts : CashAgrees(j, a)
      BY DEF AllInv, Inv, BooksInv, SessionBooks
    <3>2. \A a \in Accounts : cash[a] + netNew[j][a] \in Int
      BY <3>1 DEF TypeOK
    <3>3. QED
      BY <3>1, <3>2, CopyIs DEF CashAgrees
  <2>2. \A r \in Rows : VisibleQty(j, r) = Stock[r]
    BY CopyIs DEF AllInv, Inv
  <2>3. QED
    BY <1>1, <2>1, <2>2 DEF Work, Stock
<1>4. status' = [o \in Orders |-> IF mark[o] = "KEEP" THEN status[o] ELSE mark[o]]
  <2>1. CASE j = Executor
    BY <2>1 DEF Commit
  <2>2. CASE j # Executor
    <3>1. status' = status /\ \A o \in Orders : mark[o] = "KEEP"
      BY <1>2, <2>2 DEF Commit, Books!Undecided
    <3>2. status = [o \in Orders |-> status[o]]
      BY DEF AllInv, Inv, TypeOK
    <3>3. QED
      BY <3>1, <3>2
  <2>3. QED
    BY <2>1, <2>2
<1>5. QED
  BY <1>1, <1>2, <1>3, <1>4 DEF Books!Commit

(* One trade: the copy moves by what it is worth, and stays covered.       *)
LEMMA FlushPositionMoves ==
    ASSUME AllInv, AllInv', NEW j \in Jobs, FlushPosition(j)
    PROVE  /\ Books!Moves(deal[j].account, deal[j].ticker, Money(deal[j]), Shares(deal[j]))
           /\ Runner = j /\ Runner' = j
           /\ Stock[Row(deal[j])] = VisibleQty(j, Row(deal[j]))
<1>0. PICK d \in Deals, a \in Accounts, r \in Rows :
        d = deal[j] /\ a = deal[j].account /\ r = Row(deal[j])
  BY DealType DEF AllInv, Inv
<1>1. /\ UNCHANGED <<cash, qty>>
      /\ pc[j] = "position" /\ pc' = [pc EXCEPT ![j] = "loop"]
      /\ netNew' = [netNew EXCEPT ![j][a] = @ + Money(d)]
      /\ heldNew' = [heldNew EXCEPT ![j][r] = @ + Shares(d)]
  BY <1>0 DEF FlushPosition, tables
<1>2. /\ TypeOK /\ Covered /\ BooksInv /\ BooksInv' /\ Trading(j)
  BY <1>1 DEF AllInv, Inv, Trading
<1>3. /\ r = <<a, d.ticker>> /\ Money(d) \in Int /\ Shares(d) \in Int
      /\ cash[a] \in Int /\ netNew[j][a] \in Int /\ pc[j] # "idle" /\ pc'[j] # "idle"
  BY <1>0, <1>1, <1>2, TradeFacts DEF TypeOK
<1>4. Runner = j /\ Runner' = j
  <2>1. Runner = j
    BY <1>2, <1>3, RunnerIs
  <2>2. \A k \in Jobs \ {j} : pc'[k] = "idle"
    BY <1>2, <1>3 DEF BooksInv, OneJob, Jobs
  <2>3. QED
    BY <1>3, <2>1, <2>2 DEF Runner, Jobs, Executor, Anomaly
<1>5. Work[a] + Money(d) >= 0
  <2>1. VisibleCash(j, a) = cash[a] + netNew[j][a] + Money(d)
    BY <1>0, <1>1, <1>2, TradeFacts DEF SessionBooks, CashAgrees, InHand
  <2>2. VisibleCash(j, a) >= 0
    BY <1>2 DEF Covered, Solvent, VisibleCash
  <2>3. Work[a] = cash[a] + netNew[j][a]
    BY <1>2, <1>3, CopyIs
  <2>4. QED
    BY <2>1, <2>2, <2>3
<1>6. Stock[r] = VisibleQty(j, r)
  BY <1>2, <1>3, CopyIs
<1>7. Stock[r] + Shares(d) >= 0
  <2>1. seen[j][d.ticker] = VisibleQty(j, r) + Shares(d) /\ seen[j][d.ticker] >= 0
    BY <1>0, <1>1, <1>2, TradeFacts DEF SessionBooks, DealAgrees, Covered
  <2>2. QED
    BY <1>6, <2>1
<1>8. Work' = [Work EXCEPT ![a] = @ + Money(d)]
  <2>1. \A k \in Jobs, x \in Accounts :
          netNew'[k][x] = IF k = j /\ x = a THEN netNew[k][x] + Money(d) ELSE netNew[k][x]
    BY <1>1, <1>2 DEF TypeOK
  <2>2. \A x \in Accounts : /\ cash[x] \in Int
                            /\ netNew[Executor][x] \in Int /\ netNew[Anomaly][x] \in Int
    BY <1>2, OneRuns DEF TypeOK
  <2>3. ASSUME NEW x \in Accounts
        PROVE  Work'[x] = IF x = a THEN Work[x] + Money(d) ELSE Work[x]
    <3>1. /\ Work'[x] = cash[x] + netNew'[Executor][x] + netNew'[Anomaly][x]
          /\ Work[x] = cash[x] + netNew[Executor][x] + netNew[Anomaly][x]
      BY <1>1 DEF Work
    <3>2. /\ netNew'[Executor][x] = IF Executor = j /\ x = a THEN netNew[Executor][x] + Money(d)
                                    ELSE netNew[Executor][x]
          /\ netNew'[Anomaly][x] = IF Anomaly = j /\ x = a THEN netNew[Anomaly][x] + Money(d)
                                   ELSE netNew[Anomaly][x]
      BY <1>2, <2>1, OneRuns
    <3>3. CASE j = Executor
      BY <1>2, <1>3, <2>2, <3>1, <3>2, <3>3, OneRuns
    <3>4. CASE j = Anomaly
      BY <1>2, <1>3, <2>2, <3>1, <3>2, <3>4, OneRuns
    <3>5. QED
      BY <3>3, <3>4 DEF Jobs
  <2>4. QED
    BY <2>3 DEF Work
<1>9. Stock' = [Stock EXCEPT ![r] = @ + Shares(d)]
  <2>1. \A k \in Jobs, x \in Rows :
          heldNew'[k][x] = IF k = j /\ x = r THEN heldNew[k][x] + Shares(d) ELSE heldNew[k][x]
    BY <1>1, <1>2 DEF TypeOK
  <2>2. \A x \in Rows : /\ qty[x] \in Int
                        /\ heldNew[Executor][x] \in Int /\ heldNew[Anomaly][x] \in Int
    BY <1>2, OneRuns DEF TypeOK
  <2>3. ASSUME NEW x \in Rows
        PROVE  Stock'[x] = IF x = r THEN Stock[x] + Shares(d) ELSE Stock[x]
    <3>1. /\ Stock'[x] = qty[x] + heldNew'[Executor][x] + heldNew'[Anomaly][x]
          /\ Stock[x] = qty[x] + heldNew[Executor][x] + heldNew[Anomaly][x]
      BY <1>1 DEF Stock
    <3>2. /\ heldNew'[Executor][x] = IF Executor = j /\ x = r THEN heldNew[Executor][x] + Shares(d)
                                     ELSE heldNew[Executor][x]
          /\ heldNew'[Anomaly][x] = IF Anomaly = j /\ x = r THEN heldNew[Anomaly][x] + Shares(d)
                                    ELSE heldNew[Anomaly][x]
      BY <1>2, <2>1, OneRuns
    <3>3. CASE j = Executor
      BY <1>2, <1>3, <2>2, <3>1, <3>2, <3>3, OneRuns
    <3>4. CASE j = Anomaly
      BY <1>2, <1>3, <2>2, <3>1, <3>2, <3>4, OneRuns
    <3>5. QED
      BY <3>3, <3>4 DEF Jobs
  <2>4. QED
    BY <2>3 DEF Stock
<1>10. QED
  BY <1>0, <1>3, <1>4, <1>5, <1>6, <1>7, <1>8, <1>9 DEF Books!Moves

LEMMA FlushPositionImplements ==
    ASSUME AllInv, AllInv', NEW j \in Jobs, FlushPosition(j)
    PROVE  Books!Next
<1>0. PICK d \in Deals : d = deal[j]
  BY DealType DEF AllInv, Inv
<1>1. /\ UNCHANGED <<cash, qty, book, status>> /\ pc[j] = "position"
  BY DEF FlushPosition, tables
<1>2. /\ Books!Moves(d.account, d.ticker, Money(d), Shares(d))
      /\ Runner = j /\ Runner' = j /\ Stock[Row(d)] = VisibleQty(j, Row(d))
  BY <1>0, FlushPositionMoves
<1>3. d.account \in Accounts /\ d.ticker \in Tickers /\ d.price \in Prices /\ d.side \in Sides
  BY DEF Deals
<1>4. Trading(j)
  BY <1>1 DEF Trading
<1>5. CASE j = Executor
  <2>1. /\ d.account = book[current].account /\ d.ticker = book[current].ticker
        /\ d.side = book[current].side /\ d.qty = book[current].qty
    BY <1>0, <1>4, <1>5 DEF AllInv, BooksInv, TradesOrder
  <2>2. /\ current \in Orders /\ status[current] = "PENDING" /\ mark[current] = "KEEP"
        /\ mark' = [mark EXCEPT ![current] = "FILLED"]
    BY <1>4, <1>5 DEF AllInv, Inv, TypeOK, Once, SessionAgrees, FlushPosition
  <2>3. IF book[current].side = "BUY"
          THEN Money(d) = -CostOf(book[current].qty, d.price) /\ Shares(d) = book[current].qty
          ELSE /\ Money(d) = ProceedsOf(book[current].qty, d.price)
               /\ Shares(d) = -book[current].qty
    BY <2>1 DEF Money, Shares, Cost, Proceeds
  <2>4. Books!Fill(current, d.price)
    BY <1>1, <1>2, <1>5, <2>1, <2>2, <2>3 DEF Books!Fill, Books!Decides
  <2>5. QED
    BY <1>3, <2>2, <2>4 DEF Books!Next
<1>6. CASE j = Anomaly
  <2>1. d.side = "SELL" /\ d.qty > 0 /\ d.qty = VisibleQty(Anomaly, Row(d))
    BY <1>0, <1>4, <1>6 DEF AllInv, BooksInv, SellsWhole
  <2>2. /\ Stock[<<d.account, d.ticker>>] = d.qty
        /\ Money(d) = ProceedsOf(d.qty, d.price) /\ Shares(d) = -d.qty
    BY <1>2, <1>6, <2>1 DEF Row, Money, Shares, Proceeds
  <2>3. UNCHANGED mark
    BY <1>6, OneRuns DEF FlushPosition, AllInv
  <2>4. Books!EmergencySell(d.account, d.ticker, d.price)
    BY <1>1, <1>2, <1>6, <2>1, <2>2, <2>3 DEF Books!EmergencySell
  <2>5. QED
    BY <1>3, <2>4 DEF Books!Next
<1>7. QED
  BY <1>5, <1>6 DEF Jobs

LEMMA PlaceSimOrderImplements ==
    ASSUME AllInv, AllInv', NEW j \in Jobs, PlaceSimOrder(j)
    PROVE  [Books!Next]_Books!vars
<1>1. CASE LockAccountToBuy(j) \/ ReadPositionToSell(j)
  <2>1. /\ UNCHANGED <<cash, qty, book, status, netNew, heldNew>> /\ Trading(j) /\ pc[j] # "idle"
    BY <1>1 DEF LockAccountToBuy, ReadPositionToSell, tables, sums, Trading
  <2>2. pc'[j] # "idle"
    BY <1>1 DEF LockAccountToBuy, ReadPositionToSell, Refuse, AllInv, Inv, TypeOK
  <2>3. CASE j = Executor /\ Refuse(j)
    <3>1. /\ current \in Orders /\ status[current] = "PENDING" /\ mark[current] = "KEEP"
          /\ mark' = [mark EXCEPT ![current] = "FAILED"]
      BY <2>1, <2>3 DEF AllInv, Inv, TypeOK, Once, SessionAgrees, Refuse
    <3>2. Books!Fail(current)
      BY <2>1, <2>2, <2>3, <3>1, FailImplements
    <3>3. QED
      BY <3>1, <3>2 DEF Books!Next
  <2>4. CASE ~(j = Executor /\ Refuse(j))
    <3>1. UNCHANGED mark
      BY <1>1, <2>4 DEF LockAccountToBuy, ReadPositionToSell, Refuse
    <3>2. QED
      BY <2>1, <2>2, <3>1, QuietImplements
  <2>5. QED
    BY <2>3, <2>4
<1>2. CASE FlushAccount(j)
  <2>1. /\ UNCHANGED <<cash, qty, book, status, mark, netNew, heldNew>>
        /\ pc[j] # "idle" /\ pc'[j] # "idle"
    BY <1>2 DEF FlushAccount, tables, sums, executorVars, AllInv, Inv, TypeOK
  <2>2. QED
    BY <2>1, QuietImplements
<1>3. CASE FlushPosition(j)
  BY <1>3, FlushPositionImplements
<1>4. CASE FlushPositionFails(j)
  <2>1. Books!Abandon
    BY <1>4, RollbackImplements DEF FlushPositionFails
  <2>2. QED
    BY <2>1 DEF Books!Next
<1>5. QED
  BY <1>1, <1>2, <1>3, <1>4 DEF PlaceSimOrder

LEMMA NextOrderImplements ==
    ASSUME AllInv, AllInv', NEW o \in Orders, NextOrder(o)
    PROVE  [Books!Next]_Books!vars
<1>1. /\ UNCHANGED <<cash, qty, book, status, netNew, heldNew>> /\ pc[Executor] # "idle"
      /\ status[o] = "PENDING" /\ mark[o] = "KEEP"
  BY DEF NextOrder, tables, sums, AllInv, Once, SessionAgrees
<1>2. pc'[Executor] # "idle"
  BY OneRuns DEF NextOrder, AllInv, Inv, TypeOK
<1>3. CASE FailOrder(o)
  <2>1. Books!Fail(o)
    BY <1>1, <1>2, <1>3, FailImplements DEF FailOrder
  <2>2. QED
    BY <2>1 DEF Books!Next
<1>4. CASE ~FailOrder(o)
  <2>1. UNCHANGED mark
    BY <1>4 DEF NextOrder
  <2>2. QED
    BY <1>1, <1>2, <2>1, QuietImplements, OneRuns DEF AllInv
<1>5. QED
  BY <1>3, <1>4

LEMMA RunAnomalyImplements ==
    ASSUME AllInv, AllInv', RunAnomaly
    PROVE  [Books!Next]_Books!vars
<1>0. Anomaly \in Jobs
  BY DEF Jobs
<1>1. CASE \/ \E a \in Accounts : ScanAccount(a)
           \/ \E t \in Tickers : CheckPosition(t)
           \/ \E r \in Rows : FlushPrice(r)
  <2>1. UNCHANGED <<cash, qty, book, status, mark, netNew, heldNew>>
    BY <1>1 DEF ScanAccount, CheckPosition, FlushPrice, tables, sums, executorVars
  <2>2. /\ pc[Anomaly] # "idle"
        /\ UNCHANGED pc \/ pc' = [pc EXCEPT ![Anomaly] = "sell"]
    BY <1>1 DEF ScanAccount, CheckPosition, FlushPrice, AtFlush
  <2>3. pc'[Anomaly] # "idle"
    BY <1>0, <2>2 DEF AllInv, Inv, TypeOK
  <2>4. QED
    BY <1>0, <2>1, <2>2, <2>3, QuietImplements
<1>2. CASE \E r \in Rows : FlushPriceFails(r)
  <2>1. Books!Abandon
    BY <1>0, <1>2, RollbackImplements DEF FlushPriceFails, AtFlush
  <2>2. QED
    BY <2>1 DEF Books!Next
<1>3. CASE PlaceSimOrder(Anomaly)
  BY <1>0, <1>3, PlaceSimOrderImplements
<1>4. CASE CommitAnomaly
  <2>1. Books!Commit
    BY <1>0, <1>4, CommitImplements DEF CommitAnomaly
  <2>2. QED
    BY <2>1 DEF Books!Next
<1>5. QED
  BY <1>1, <1>2, <1>3, <1>4 DEF RunAnomaly

(* Every step of the two jobs is a step of the books: an order is queued,  *)
(* a run starts, one order is filled or failed as a whole, a position is   *)
(* sold as a whole, a run is published or thrown away; or nothing that the *)
(* books tell apart.                                                       *)
LEMMA NextImplements ==
    AllInv /\ AllInv' /\ [Next /\ OneJob']_vars => [Books!Next]_Books!vars
<1> SUFFICES ASSUME AllInv, AllInv', [Next /\ OneJob']_vars
             PROVE  [Books!Next]_Books!vars
  OBVIOUS
<1>1. CASE UNCHANGED vars
  BY <1>1 DEF vars, tables, cashRows, qtyRows, sums, executorVars, anomalyVars, Books!vars,
              Runner, Work, Stock
<1>2. CASE Next
  <2>1. CASE \E o \in Orders : QueueOrder(o)
    BY <2>1, QueueOrderImplements DEF Books!Next
  <2>2. CASE StartExecutor \/ StartAnomaly
    BY <2>2, StartImplements DEF Books!Next, Jobs
  <2>3. CASE RunExecutor
    <3>1. CASE CommitExecutor
      <4>1. Books!Commit
        BY <3>1, CommitImplements DEF CommitExecutor, Jobs
      <4>2. QED
        BY <4>1 DEF Books!Next
    <3>2. QED
      BY <2>3, <3>1, NextOrderImplements, PlaceSimOrderImplements DEF RunExecutor, Jobs
  <2>4. CASE RunAnomaly
    BY <2>4, RunAnomalyImplements
  <2>5. CASE \E j \in Jobs : BreakDeadlock(j) \/ LoseTransaction(j)
    <3>1. Books!Abandon
      BY <2>5, RollbackImplements, WaitingRuns DEF BreakDeadlock, LoseTransaction
    <3>2. QED
      BY <3>1 DEF Books!Next
  <2>6. QED
    BY <1>2, <2>1, <2>2, <2>3, <2>4, <2>5 DEF Next
<1>3. QED
  BY <1>1, <1>2

(* One job at a time, the sessions, the objects, the row locks and the     *)
(* order in which a trade reaches the rows cannot be told from a run that  *)
(* works on a private copy of the books and publishes it in one step.      *)
THEOREM SerialImplementsBooks == SerialSpec => BooksSpec
<1>1. SerialSpec => Books!Init
  BY InitImplements DEF SerialSpec
<1> QED
  BY <1>1, AllInvAlways, NextImplements, PTL DEF SerialSpec, BooksSpec, Books!Spec
=============================================================================
