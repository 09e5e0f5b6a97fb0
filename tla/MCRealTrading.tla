--------------------------- MODULE MCRealTrading ---------------------------
(* A small instance of RealTrading, with the limits 50 for an order, 30 of *)
(* 100 for a position and 2 positions.  Of the REAL accounts, rich has the *)
(* cash for any order and holds 20 of t2, poor has 10 in cash, and full    *)
(* holds two tickers.  Each check of an order has a request that fails it  *)
(* alone, and one next to it that passes, except the daily loss, which no  *)
(* order of the program can fail.                                          *)
EXTENDS RealTrading

CONSTANTS rich, poor, full, sim, t1, t2, t3

Owns(a, t) ==
    CASE a = rich /\ t = t2 -> 20
      [] a = full /\ t \in {t2, t3} -> 10
      [] OTHER -> 0

FourAccounts ==
    [a \in {rich, poor, full, sim} |->
        [type |-> IF a = sim THEN "SIM" ELSE "REAL",
         cash |-> IF a = poor THEN 10 ELSE 100, initial |-> 100,
         held |-> [t \in {t1, t2, t3} |-> Owns(a, t)]]]

Ask(a, t, side, value) == [account |-> a, ticker |-> t, side |-> side, value |-> value]
SomeRequests ==
    {Ask(rich, t1, "BUY", 30), Ask(rich, t1, "BUY", 31),        \* a position
     Ask(rich, t2, "BUY", 10), Ask(rich, t2, "BUY", 11),        \* with what is held
     Ask(poor, t1, "BUY", 10), Ask(poor, t1, "BUY", 11),        \* the cash
     Ask(full, t2, "BUY", 10), Ask(full, t1, "BUY", 10),        \* the positions
     Ask(rich, t1, "SELL", 50), Ask(rich, t1, "SELL", 51),      \* an order
     Ask(rich, t1, "OTHER", 50), Ask(rich, t1, "BUY", -5),
     Ask(rich, t1, "QUERY", 0), Ask(sim, t1, "BUY", 20), Ask(NoAccount, t1, "BUY", 20)}
SoundRequests == {Ask(rich, t1, "BUY", 30)}
==============================================================================
