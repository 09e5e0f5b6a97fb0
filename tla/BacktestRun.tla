----------------------------- MODULE BacktestRun -----------------------------
(***************************************************************************)
(* A backtest run from the request to its result: the row the backend      *)
(* keeps (routers/backtest.py, services/backtest_service.py), the task the *)
(* Celery worker executes (worker/tasks.py), and the status and result of  *)
(* the task that both meet in (Redis, external).                           *)
(*                                                                         *)
(* A request creates one row or several (compare, counterfactual) and      *)
(* sends their tasks inside one transaction.  Polls copy the outcome of    *)
(* the task into the row; nothing else does.                               *)
(*                                                                         *)
(* Left out: what is computed (BacktestSim), the wait of the websocket,    *)
(* run_custom_backtest_task, which has no caller, and the removal of rows  *)
(* with their strategy.                                                    *)
(***************************************************************************)
EXTENDS Integers, FiniteSets

CONSTANTS Runs, NoRun,
          Pollers, Shown,       \* pages that poll, and the run each shows
          MaxRetries            \* max_retries of run_backtest_task (3)

ASSUME RunAssumption ==
    MaxRetries \in Nat /\ NoRun \notin Runs /\ Shown \in [Pollers -> Runs]

VARIABLES
    asked, sent,    \* runs of the request in progress: to be sent, sent
    row,            \* committed status of each run
    task, attempts, \* its task, and how often it was started
    meta,           \* the status of the task that is stored in Redis
    poll,           \* each poll: the run it read as RUNNING, and what its
                    \*   task's status said
    told,           \* the last message of the run's websocket
    torn            \* history: runs whose task was killed between the two
                    \*   halves of a retry

request == <<asked, sent>>
worker == <<task, attempts, meta>>
vars == <<request, row, worker, poll, told, torn>>

(* "unreadable" is FAILURE with the dict of tasks.py:67 for an exception.  *)
Ready == {"success", "failure"}
Metas == {"none", "started", "unreadable", "retry"} \cup Ready
Ended == {"succeeded", "failed"}
Tasks == {"none", "queued", "running", "failing", "resent"} \cup Ended
Idle == [run |-> NoRun, knows |-> "nothing"]

TypeOK ==
    /\ asked \subseteq Runs /\ sent \subseteq Runs
    /\ row \in [Runs -> {"none", "RUNNING", "DONE", "FAILED"}]
    /\ task \in [Runs -> Tasks]
    /\ attempts \in [Runs -> 0 .. MaxRetries + 1]
    /\ meta \in [Runs -> Metas]
    /\ poll \in [Pollers -> [run : Runs \cup {NoRun}, knows : {"nothing"} \cup Ready]]
    /\ told \in [Runs -> {"polling", "done", "failed"}]
    /\ torn \subseteq Runs

Init ==
    /\ asked = {} /\ sent = {}
    /\ row = [r \in Runs |-> "none"]
    /\ task = [r \in Runs |-> "none"]
    /\ attempts = [r \in Runs |-> 0]
    /\ meta = [r \in Runs |-> "none"]
    /\ poll = [p \in Pollers |-> Idle]
    /\ told = [r \in Runs |-> "polling"]
    /\ torn = {}
-----------------------------------------------------------------------------
(* The request.  Requests touch only rows of their own, so that one at a   *)
(* time is enough.                                                         *)
Ask(R) ==
    /\ asked = {} /\ sent = {}
    /\ R # {} /\ \A r \in R : task[r] = "none"
    /\ asked' = R
    /\ UNCHANGED <<sent, row, worker, poll, told, torn>>

(* The row is flushed, its task sent, and the row flushed again. *)
SendTask(r) ==
    /\ r \in asked
    /\ asked' = asked \ {r} /\ sent' = sent \cup {r}
    /\ task' = [task EXCEPT ![r] = "queued"]
    /\ UNCHANGED <<row, attempts, meta, poll, told, torn>>

CommitRequest ==
    /\ asked = {} /\ sent # {}
    /\ sent' = {}
    /\ row' = [r \in Runs |-> IF r \in sent THEN "RUNNING" ELSE row[r]]
    /\ UNCHANGED <<asked, worker, poll, told, torn>>

(* A later strategy is not found, the broker does not answer, the process  *)
(* dies: the rows are rolled back, the tasks already sent are not.         *)
(* Mutant: the error is caught, and what was flushed is committed.         *)
RefuseRequestCaught ==
    /\ asked \cup sent # {}
    /\ asked' = {} /\ sent' = {}
    /\ row' = [r \in Runs |-> IF r \in asked \cup sent THEN "RUNNING" ELSE row[r]]
    /\ UNCHANGED <<worker, poll, told, torn>>
RefuseRequest ==
    /\ asked \cup sent # {}
    /\ asked' = {} /\ sent' = {}
    /\ UNCHANGED <<row, worker, poll, told, torn>>
-----------------------------------------------------------------------------
(* Celery reads the stored status before it replaces it, and may therefore *)
(* fail to replace one that it cannot read.                                *)
Stores(r, status) ==
    \/ meta' = [meta EXCEPT ![r] = status]
    \/ meta[r] = "unreadable" /\ UNCHANGED meta

(* The message is acknowledged before the task starts; a start that cannot *)
(* be stored ends it.  Mutant: a message may be delivered once more.       *)
StartTaskAgain(r) ==
    /\ task[r] \in {"queued"} \cup Ended
    /\ attempts[r] <= MaxRetries
    /\ task' = [task EXCEPT ![r] = "running"]
    /\ attempts' = [attempts EXCEPT ![r] = @ + 1]
    /\ meta' = [meta EXCEPT ![r] = "started"]
    /\ UNCHANGED <<request, row, poll, told, torn>>
StartTask(r) ==
    /\ task[r] = "queued"
    /\ attempts' = [attempts EXCEPT ![r] = @ + 1]
    /\ \/ /\ task' = [task EXCEPT ![r] = "running"]
          /\ meta' = [meta EXCEPT ![r] = "started"]
       \/ /\ meta[r] = "unreadable"
          /\ task' = [task EXCEPT ![r] = "failed"]
          /\ UNCHANGED meta
    /\ UNCHANGED <<request, row, poll, told, torn>>

FinishTask(r) ==
    /\ task[r] = "running"
    /\ task' = [task EXCEPT ![r] = "succeeded"]
    /\ meta' = [meta EXCEPT ![r] = "success"]
    /\ UNCHANGED <<request, row, attempts, poll, told, torn>>

(* An error of the task, the soft time limit included: update_state ... *)
RaiseError(r) ==
    /\ task[r] = "running"
    /\ task' = [task EXCEPT ![r] = "failing"]
    /\ meta' = [meta EXCEPT ![r] = "unreadable"]
    /\ UNCHANGED <<request, row, attempts, poll, told, torn>>

(* ... and then self.retry, which sends the message of the next attempt,   *)
(* due in five seconds, and raises Retry ...  Mutant: it does not count.   *)
RetryUncounted(r) ==
    /\ task[r] = "failing"
    /\ task' = [task EXCEPT ![r] = "resent"]
    /\ attempts' = [attempts EXCEPT ![r] = @ - 1]
    /\ UNCHANGED <<request, row, meta, poll, told, torn>>
Retry(r) ==
    /\ task[r] = "failing" /\ attempts[r] <= MaxRetries
    /\ task' = [task EXCEPT ![r] = "resent"]
    /\ UNCHANGED <<request, row, attempts, meta, poll, told, torn>>

(* ... on which Celery stores RETRY. *)
StoreRetry(r) ==
    /\ task[r] = "resent"
    /\ task' = [task EXCEPT ![r] = "queued"]
    /\ Stores(r, "retry")
    /\ UNCHANGED <<request, row, attempts, poll, told, torn>>

GiveUp(r) ==
    /\ task[r] = "failing" /\ attempts[r] > MaxRetries
    /\ task' = [task EXCEPT ![r] = "failed"]
    /\ Stores(r, "failure")
    /\ UNCHANGED <<request, row, attempts, poll, told, torn>>

(* The hard time limit ends the task, or its worker dies with it: for good *)
(* unless the message of the next attempt is out.  Such a task is reported *)
(* as failed although it is tried again.                                   *)
Kill(r) ==
    /\ \/ /\ task[r] \in {"running", "failing"}
          /\ task' = [task EXCEPT ![r] = "failed"]
          /\ UNCHANGED torn
       \/ /\ task[r] = "resent"
          /\ task' = [task EXCEPT ![r] = "queued"]
          /\ torn' = torn \cup {r}
    /\ Stores(r, "failure") \/ UNCHANGED meta
    /\ UNCHANGED <<request, row, attempts, poll, told>>

(* result_expires: a day after it was stored. *)
Expire(r) ==
    /\ meta[r] # "none" /\ task[r] \in {"queued"} \cup Ended
    /\ meta' = [meta EXCEPT ![r] = "none"]
    /\ UNCHANGED <<request, row, task, attempts, poll, told, torn>>
-----------------------------------------------------------------------------
(* get_backtest_run: the row, then the status of its task, then the row.   *)
ReadRow(p, r) ==
    /\ Shown[p] = r
    /\ poll[p] = Idle /\ row[r] = "RUNNING"
    /\ poll' = [poll EXCEPT ![p] = [run |-> r, knows |-> "nothing"]]
    /\ UNCHANGED <<request, row, worker, told, torn>>

(* A task that is not ready, or whose status cannot be read (an error      *)
(* answer), leaves the row alone.  Mutant: FAILURE is enough.              *)
ReadMetaAnyFailure(p) ==
    /\ poll[p].run # NoRun /\ poll[p].knows = "nothing"
    /\ LET status == meta[poll[p].run] IN
       poll' = [poll EXCEPT ![p] =
                  IF status = "success" THEN [run |-> @.run, knows |-> "success"]
                  ELSE IF status \in {"failure", "unreadable"}
                  THEN [run |-> @.run, knows |-> "failure"] ELSE Idle]
    /\ UNCHANGED <<request, row, worker, told, torn>>
ReadMeta(p) ==
    /\ poll[p].run # NoRun /\ poll[p].knows = "nothing"
    /\ LET status == meta[poll[p].run] IN
       poll' = [poll EXCEPT ![p] =
                  IF status \in Ready THEN [run |-> @.run, knows |-> status] ELSE Idle]
    /\ UNCHANGED <<request, row, worker, told, torn>>

(* Mutant: it settles only what succeeded. *)
WriteSuccess(p) ==
    /\ poll[p].knows \in Ready
    /\ row' = IF poll[p].knows = "success"
              THEN [row EXCEPT ![poll[p].run] = "DONE"] ELSE row
    /\ poll' = [poll EXCEPT ![p] = Idle]
    /\ UNCHANGED <<request, worker, told, torn>>
WriteRow(p) ==
    /\ poll[p].knows \in Ready
    /\ row' = [row EXCEPT ![poll[p].run] =
                 IF poll[p].knows = "success" THEN "DONE" ELSE "FAILED"]
    /\ poll' = [poll EXCEPT ![p] = Idle]
    /\ UNCHANGED <<request, worker, told, torn>>

LosePoll(p) ==
    /\ poll[p] # Idle
    /\ poll' = [poll EXCEPT ![p] = Idle]
    /\ UNCHANGED <<request, row, worker, told, torn>>

(* backtest_ws, of a run whose row it has found. *)
Watch(r) ==
    /\ row[r] # "none" /\ told[r] = "polling"
    /\ meta[r] \in Ready
    /\ told' = [told EXCEPT ![r] = IF meta[r] = "success" THEN "done" ELSE "failed"]
    /\ UNCHANGED <<request, row, worker, poll, torn>>
-----------------------------------------------------------------------------
Request ==
    \/ \E R \in SUBSET Runs : Ask(R)
    \/ \E r \in Runs : SendTask(r)
    \/ CommitRequest
    \/ RefuseRequest

Work(r) ==
    \/ StartTask(r) \/ FinishTask(r) \/ RaiseError(r)
    \/ Retry(r) \/ StoreRetry(r) \/ GiveUp(r) \/ Kill(r)

(* The three steps of the polls of run r. *)
Look(r) == \E p \in Pollers : ReadRow(p, r)
Learn(r) == \E p \in Pollers : poll[p].run = r /\ ReadMeta(p)
Settle(r) == \E p \in Pollers : poll[p].run = r /\ WriteRow(p)

Next ==
    \/ Request
    \/ \E r \in Runs : Work(r) \/ Expire(r) \/ Watch(r)
    \/ \E r \in Runs : Look(r) \/ Learn(r) \/ Settle(r)
    \/ \E p \in Pollers : LosePoll(p)

Spec == Init /\ [][Next]_vars

(* A worker is there; the page of a run asks again every three seconds     *)
(* while it is RUNNING, and the polls of a run are not lost for ever.      *)
Fairness ==
    /\ \A r \in Runs :
         /\ WF_vars(Work(r))
         /\ SF_vars(Look(r)) /\ SF_vars(Learn(r)) /\ SF_vars(Settle(r))

FairSpec == Spec /\ Fairness
-----------------------------------------------------------------------------
(* What a row or a websocket says of a run is what became of its task, for *)
(* good: a task that is tried again is never reported as failed, however   *)
(* late a poll writes what it read, unless it was killed in its retry.     *)
OutcomeTold ==
    \A r \in Runs :
        /\ row[r] = "DONE" \/ told[r] = "done" => task[r] = "succeeded"
        /\ row[r] = "FAILED" \/ told[r] = "failed" => task[r] = "failed" \/ r \in torn

(* No run waits for a task that was never sent. *)
RowHasTask == \A r \in Runs : row[r] # "none" => task[r] # "none"

(* A run that a page shows settles when its task has a result, unless the  *)
(* result expires before a poll has come through.                          *)
RunSettles ==
    \A r \in {Shown[p] : p \in Pollers} :
        row[r] = "RUNNING" /\ task[r] \in Ended /\ meta[r] \in Ready ~>
            row[r] # "RUNNING" \/ meta[r] = "none"

(* The retries of a task come to an end.                                   *)
TasksEnd == \A r \in Runs : task[r] = "queued" ~> task[r] \in Ended
-----------------------------------------------------------------------------
(* The rows, the tasks and the websockets implement RunReport: the outcome *)
(* of a task is open until its last attempt has ended, however often it is *)
(* tried, and whatever is stored of it, read of it, or expires meanwhile.  *)
Outcome == [r \in Runs |-> IF task[r] = "none" THEN "none"
                           ELSE IF task[r] \in Ended THEN task[r] ELSE "open"]

Report == INSTANCE RunReport WITH outcome <- Outcome

ReportSpec == Report!Spec
=============================================================================
