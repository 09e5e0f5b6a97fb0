---------------------------- MODULE MCActivation ----------------------------
(* A small instance of Activation: two rows for the strategy s1 of user u1 *)
(* on the user's account, and a strategy of another user and of a type     *)
(* that never signals.                                                     *)
EXTENDS Activation

CONSTANTS a1, a2, s1, s2, c1, u1, u2

OneStrategy == [a \in {a1, a2} |-> s1]
OneAccount == [a \in {a1, a2} |-> c1]
TwoOwners == [x \in {s1, s2, c1} |-> IF x = s2 THEN u2 ELSE u1]
=============================================================================
