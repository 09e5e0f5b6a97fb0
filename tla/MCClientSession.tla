--------------------------- MODULE MCClientSession ---------------------------
(* A small instance of ClientSession.                                      *)
EXTENDS ClientSession

CONSTANTS c1, c2, tab1, tab2

TwoTabs == [c \in {c1, c2} |-> IF c = c1 THEN tab1 ELSE tab2]
==============================================================================
