------------------------------ MODULE MCBacktest ------------------------------
(* Small instances of BacktestRun and BacktestSim in one run: a behaviour  *)
(* is one of the protocol around the tasks, or one of the simulation that  *)
(* a task makes, which share no variable.                                  *)
EXTENDS BacktestRun, BacktestSim

CONSTANTS r1, r2, p1, p2

FirstRun == [p \in {p1, p2} |-> r1]

NothingSent == asked \cup sent = {} /\ \A r \in Runs : task[r] = "none"
NothingSimulated == mode = 0 /\ fold = 0

BacktestInit == Init /\ SimInit

BacktestSpec ==
    /\ BacktestInit
    /\ [][\/ NothingSimulated /\ Next /\ UNCHANGED simulation
          \/ NothingSent /\ SimNext /\ UNCHANGED vars]_<<vars, simulation>>
    /\ Fairness
===============================================================================
