-------------------------- MODULE MCDataCollector --------------------------
(* A small instance of DataCollector: two markets, of which the first has  *)
(* the tickers with an odd code, and a ticker that is listed on the second *)
(* day.                                                                    *)
EXTENDS DataCollector

NewOne == [d \in Days |-> IF d = 1 THEN Tickers \ {3} ELSE Tickers]
ByCode == [t \in Tickers |-> IF t % 2 = 1 THEN Kospi ELSE Kosdaq]
=============================================================================
