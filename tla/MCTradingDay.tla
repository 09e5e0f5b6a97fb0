---------------------------- MODULE MCTradingDay ----------------------------
(* A small instance of TradingDay: one activation.                         *)
EXTENDS TradingDay

CONSTANTS a1, s1, c1

OneStrategy == [a \in {a1} |-> s1]
OneAccount == [a \in {a1} |-> c1]
=============================================================================
