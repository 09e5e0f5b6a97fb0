------------------------------- MODULE SimBooks -------------------------------
(***************************************************************************)
(* What paper trading promises of one run at a time, fill by fill and      *)
(* without sessions, objects or row locks.  A run works on a copy of the   *)
(* books: the executor fills or fails its PENDING orders one by one, each  *)
(* at some price and only if money and shares suffice; the anomaly run     *)
(* sells whole positions.  The copy becomes the books in one step, with    *)
(* the outcome of every order, or is thrown away.                          *)
(***************************************************************************)
EXTENDS Integers

CONSTANTS Accounts, Tickers, Orders, Prices, Requests,
          Cost(_, _), Proceeds(_, _),       \* of a quantity at a price
          InitialCash, InitialQty,
          Executor, Anomaly, Nobody

VARIABLES
    cash, qty, book, status,    \* the books
    runner,                     \* whose run is in progress
    work, stock, outcome        \* its copy; what it has made of the orders
vars == <<cash, qty, book, status, runner, work, stock, outcome>>

Rows == Accounts \X Tickers
Undecided == [o \in Orders |-> "KEEP"]

Init ==
    /\ cash = InitialCash /\ qty = InitialQty
    /\ book \in [Orders -> Requests]
    /\ status = [o \in Orders |-> "NONE"]
    /\ runner = Nobody
    /\ work = cash /\ stock = qty /\ outcome = Undecided

Queue(o) ==
    /\ status[o] = "NONE"
    /\ book'[o] \in Requests /\ book' = [book EXCEPT ![o] = book'[o]]
    /\ status' = [status EXCEPT ![o] = "PENDING"]
    /\ UNCHANGED <<cash, qty, runner, work, stock, outcome>>

Start(j) ==
    /\ runner = Nobody
    /\ runner' = j
    /\ UNCHANGED <<cash, qty, book, status, work, stock, outcome>>
-----------------------------------------------------------------------------
(* The copy moves by exactly what one trade is worth, and never below zero. *)
Moves(a, t, money, shares) ==
    /\ work[a] + money >= 0 /\ stock[<<a, t>>] + shares >= 0
    /\ work' = [work EXCEPT ![a] = @ + money]
    /\ stock' = [stock EXCEPT ![<<a, t>>] = @ + shares]

Decides(o, result) ==
    /\ runner = Executor
    /\ status[o] = "PENDING" /\ outcome[o] = "KEEP"
    /\ outcome' = [outcome EXCEPT ![o] = result]

Fill(o, p) ==
    LET b == book[o] IN
    /\ Decides(o, "FILLED")
    /\ IF b.side = "BUY" THEN Moves(b.account, b.ticker, -Cost(b.qty, p), b.qty)
       ELSE Moves(b.account, b.ticker, Proceeds(b.qty, p), -b.qty)
    /\ UNCHANGED <<cash, qty, book, status, runner>>

Fail(o) ==
    /\ Decides(o, "FAILED")
    /\ UNCHANGED <<cash, qty, book, status, runner, work, stock>>

EmergencySell(a, t, p) ==
    /\ runner = Anomaly
    /\ stock[<<a, t>>] > 0
    /\ Moves(a, t, Proceeds(stock[<<a, t>>], p), -stock[<<a, t>>])
    /\ UNCHANGED <<cash, qty, book, status, runner, outcome>>
-----------------------------------------------------------------------------
Commit ==
    /\ runner # Nobody /\ runner' = Nobody
    /\ cash' = work /\ qty' = stock
    /\ status' = [o \in Orders |-> IF outcome[o] = "KEEP" THEN status[o] ELSE outcome[o]]
    /\ outcome' = Undecided
    /\ UNCHANGED <<book, work, stock>>

Abandon ==
    /\ runner # Nobody /\ runner' = Nobody
    /\ work' = cash /\ stock' = qty /\ outcome' = Undecided
    /\ UNCHANGED <<cash, qty, book, status>>

Next ==
    \/ \E o \in Orders : Queue(o) \/ Fail(o) \/ \E p \in Prices : Fill(o, p)
    \/ \E j \in {Executor, Anomaly} : Start(j)
    \/ \E a \in Accounts, t \in Tickers, p \in Prices : EmergencySell(a, t, p)
    \/ Commit \/ Abandon

Spec == Init /\ [][Next]_vars
=============================================================================
