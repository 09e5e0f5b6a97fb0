------------------------------- MODULE MCAuth -------------------------------
(* Small instances of Auth.                                                *)
EXTENDS Auth, TLC

AnyToken == Permutations(Tokens) \cup Permutations(Requests) \cup Permutations(Secrets)
=============================================================================
