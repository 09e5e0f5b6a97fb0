------------------------------- MODULE RunReport -------------------------------
(***************************************************************************)
(* What the backend promises of its backtest runs, without workers,        *)
(* retries, expiring results and overlapping polls.  A run that is         *)
(* accepted has a task; the task comes to one end; the row and the         *)
(* websocket may tell that end late or never, but nothing else, once, and  *)
(* for good.  The tasks of a request that is refused run all the same.     *)
(* The exception is a task that was torn in a retry: it counts as failed   *)
(* beside what becomes of it, and its row may tell the one or the other.   *)
(***************************************************************************)
CONSTANT Runs

VARIABLES row,        \* what the page of a run shows
          outcome,    \* what has become of its task
          told,       \* what its websocket has said
          torn        \* tasks that were killed after they were sent again
vars == <<row, outcome, told, torn>>

Init ==
    /\ row = [r \in Runs |-> "none"]
    /\ outcome = [r \in Runs |-> "none"]
    /\ told = [r \in Runs |-> "polling"]
    /\ torn = {}

Send(r) ==
    /\ outcome[r] = "none" /\ row[r] = "none"
    /\ outcome' = [outcome EXCEPT ![r] = "open"]
    /\ UNCHANGED <<row, told, torn>>

Accept(R) ==
    /\ \A r \in R : row[r] = "none" /\ outcome[r] # "none"
    /\ row' = [r \in Runs |-> IF r \in R THEN "RUNNING" ELSE row[r]]
    /\ UNCHANGED <<outcome, told, torn>>

End(r, how) ==
    /\ outcome[r] = "open"
    /\ outcome' = [outcome EXCEPT ![r] = how]
    /\ UNCHANGED <<row, told, torn>>

Tear(r) ==
    /\ outcome[r] = "open"
    /\ torn' = torn \cup {r}
    /\ UNCHANGED <<row, outcome, told>>

Failed(r) == outcome[r] = "failed" \/ r \in torn

Settle(r) ==
    /\ row[r] # "none" /\ (row[r] = "RUNNING" \/ r \in torn)
    /\ \/ outcome[r] = "succeeded" /\ row' = [row EXCEPT ![r] = "DONE"]
       \/ Failed(r) /\ row' = [row EXCEPT ![r] = "FAILED"]
    /\ UNCHANGED <<outcome, told, torn>>

Tell(r) ==
    /\ row[r] # "none" /\ told[r] = "polling"
    /\ \/ outcome[r] = "succeeded" /\ told' = [told EXCEPT ![r] = "done"]
       \/ Failed(r) /\ told' = [told EXCEPT ![r] = "failed"]
    /\ UNCHANGED <<row, outcome, torn>>

Next ==
    \/ \E r \in Runs : Send(r) \/ Tear(r) \/ End(r, "succeeded") \/ End(r, "failed")
    \/ \E R \in SUBSET Runs : Accept(R)
    \/ \E r \in Runs : Settle(r) \/ Tell(r)

Spec == Init /\ [][Next]_vars
================================================================================
