------------------------------ MODULE SimLedger ------------------------------
(***************************************************************************)
(* What paper trading promises, without sessions, locks or rows in         *)
(* flight: orders are queued; a run of the executor settles a set of       *)
(* PENDING orders in one step, each FILLED at some price or FAILED; an     *)
(* anomaly run sells whole positions in one step.  A step moves every      *)
(* balance and every position by exactly what its fills add up to, and     *)
(* leaves none of them negative.                                           *)
(***************************************************************************)
EXTENDS Integers, FiniteSetsExt

CONSTANTS Accounts, Tickers, Orders, Prices, Requests,
          Cost(_, _), Proceeds(_, _),       \* of a quantity at a price
          InitialCash, InitialQty

VARIABLES cash, qty, book, status
vars == <<cash, qty, book, status>>

Rows == Accounts \X Tickers
Row(o) == <<book[o].account, book[o].ticker>>

Init ==
    /\ cash = InitialCash /\ qty = InitialQty
    /\ book \in [Orders -> Requests]
    /\ status = [o \in Orders |-> "NONE"]

Queue(o) ==
    /\ status[o] = "NONE"
    /\ \E r \in Requests : book' = [book EXCEPT ![o] = r]
    /\ status' = [status EXCEPT ![o] = "PENDING"]
    /\ UNCHANGED <<cash, qty>>

Money(o, p) == IF book[o].side = "BUY" THEN -Cost(book[o].qty, p)
               ELSE Proceeds(book[o].qty, p)
Shares(o) == IF book[o].side = "BUY" THEN book[o].qty ELSE -book[o].qty

Settle(filled, failed) ==
    \E price \in [filled -> Prices] :
        /\ cash' = [a \in Accounts |-> cash[a] +
                MapThenSumSet(LAMBDA o : Money(o, price[o]),
                              {o \in filled : book[o].account = a})]
        /\ qty' = [r \in Rows |-> qty[r] +
                MapThenSumSet(Shares, {o \in filled : Row(o) = r})]
        /\ \A a \in Accounts : cash'[a] >= 0
        /\ \A r \in Rows : qty'[r] >= 0
        /\ status' = [o \in Orders |-> IF o \in filled THEN "FILLED"
                                       ELSE IF o \in failed THEN "FAILED"
                                       ELSE status[o]]
        /\ UNCHANGED book

EmergencySell(sold) ==
    \E price \in [sold -> Prices] :
        /\ cash' = [a \in Accounts |-> cash[a] +
                MapThenSumSet(LAMBDA r : Proceeds(qty[r], price[r]),
                              {r \in sold : r[1] = a})]
        /\ qty' = [r \in Rows |-> IF r \in sold THEN 0 ELSE qty[r]]
        /\ UNCHANGED <<book, status>>

Pending == {o \in Orders : status[o] = "PENDING"}
Held == {r \in Rows : qty[r] > 0}

Next ==
    \/ \E o \in Orders : Queue(o)
    \/ \E filled \in SUBSET Pending :
         \E failed \in SUBSET (Pending \ filled) : Settle(filled, failed)
    \/ \E sold \in SUBSET Held : EmergencySell(sold)

Spec == Init /\ [][Next]_vars
=============================================================================
