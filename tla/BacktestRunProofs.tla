-------------------------- MODULE BacktestRunProofs --------------------------
(***************************************************************************)
(* The invariants of BacktestRun for any runs, polls and number of         *)
(* retries.  Inv carries the outcome of a task along the way it takes:     *)
(* from the task to its stored status, to a poll that has read it, to the  *)
(* row; and it counts the attempts that are left.                          *)
(***************************************************************************)
EXTENDS BacktestRun, TLAPS

AttemptsLeft ==
    \A r \in Runs :
        /\ task[r] = "none" => attempts[r] = 0 /\ r \notin torn
        /\ task[r] \in {"queued", "resent"} => attempts[r] <= MaxRetries

InRequest ==
    /\ \A r \in asked : task[r] = "none"
    /\ \A r \in sent : task[r] # "none"

(* A status that is ready is the outcome of a task that has ended, unless  *)
(* it was torn in its retry.                                               *)
Failed(r) == task[r] = "failed" \/ r \in torn

OutcomeStored ==
    \A r \in Runs :
        /\ meta[r] = "success" => task[r] = "succeeded"
        /\ meta[r] = "failure" => Failed(r)

OutcomeRead ==
    \A p \in Pollers :
        /\ poll[p].knows = "success" => poll[p].run \in Runs /\ task[poll[p].run] = "succeeded"
        /\ poll[p].knows = "failure" => poll[p].run \in Runs /\ Failed(poll[p].run)

Inv ==
    /\ TypeOK
    /\ AttemptsLeft
    /\ InRequest
    /\ OutcomeStored /\ OutcomeRead
    /\ OutcomeTold
    /\ RowHasTask

Outcomes == OutcomeStored /\ OutcomeRead /\ OutcomeTold
-----------------------------------------------------------------------------
LEMMA InitInv == ASSUME RunAssumption, Init PROVE Inv
<1>1. TypeOK
  BY SMT DEF RunAssumption, Init, TypeOK, Tasks, Metas, Idle, Ready, Ended
<1>2. AttemptsLeft /\ InRequest /\ RowHasTask
  BY SMT DEF RunAssumption, Init, AttemptsLeft, InRequest, RowHasTask
<1>3. Outcomes
  BY SMT DEF Init, Outcomes, OutcomeStored, OutcomeRead, OutcomeTold, Failed, Idle
<1> QED
  BY <1>1, <1>2, <1>3 DEF Inv, Outcomes

LEMMA RequestInv == ASSUME RunAssumption, Inv, Request PROVE Inv'
<1>1. ASSUME NEW R \in SUBSET Runs, Ask(R) PROVE Inv'
  <2>1. UNCHANGED <<sent, row, task, attempts, meta, poll, told, torn>>
    BY <1>1 DEF Ask, worker
  <2>2. (TypeOK /\ InRequest)'
    BY <1>1, <2>1 DEF Ask, Inv, TypeOK, InRequest
  <2> QED
    BY <2>1, <2>2 DEF Inv, AttemptsLeft, OutcomeStored, OutcomeRead, OutcomeTold, Failed, RowHasTask
<1>2. ASSUME NEW r \in Runs, SendTask(r) PROVE Inv'
  <2>1. /\ UNCHANGED <<row, attempts, meta, poll, told, torn>>
        /\ task' = [task EXCEPT ![r] = "queued"] /\ task[r] = "none"
        /\ asked' = asked \ {r} /\ sent' = sent \cup {r}
    BY <1>2 DEF SendTask, Inv, InRequest
  <2>2. TypeOK' /\ InRequest'
    BY <2>1, SMT DEF Inv, TypeOK, InRequest, Tasks
  <2>3. AttemptsLeft' /\ RowHasTask'
    BY <2>1, SMT DEF RunAssumption, Inv, TypeOK, AttemptsLeft, RowHasTask
  <2>4. Outcomes'
    BY <2>1, SMT DEF Inv, TypeOK, Outcomes, OutcomeStored, OutcomeRead, OutcomeTold, Failed
  <2> QED
    BY <2>2, <2>3, <2>4 DEF Inv, Outcomes
<1>3. ASSUME CommitRequest PROVE Inv'
  <2>1. /\ UNCHANGED <<asked, task, attempts, meta, poll, told, torn>>
        /\ row' = [r \in Runs |-> IF r \in sent THEN "RUNNING" ELSE row[r]]
        /\ sent' = {}
    BY <1>3 DEF CommitRequest, worker
  <2>2. (TypeOK /\ InRequest /\ AttemptsLeft /\ RowHasTask)'
    BY <2>1, SMT DEF Inv, TypeOK, InRequest, AttemptsLeft, RowHasTask
  <2>3. Outcomes'
    BY <2>1, SMT DEF Inv, TypeOK, Outcomes, OutcomeStored, OutcomeRead, OutcomeTold, Failed
  <2> QED
    BY <2>2, <2>3 DEF Inv, Outcomes
<1>4. ASSUME RefuseRequest PROVE Inv'
  BY <1>4, SMT DEF RefuseRequest, worker, Inv, TypeOK, InRequest, AttemptsLeft,
     OutcomeStored, OutcomeRead, OutcomeTold, Failed, RowHasTask
<1> QED
  BY <1>1, <1>2, <1>3, <1>4 DEF Request

(* What the steps of the worker have in common: the task was not ended     *)
(* before, and what they store of it is its new state.                     *)
TaskBecomes(r, t, s, n) ==
    /\ UNCHANGED <<request, row, poll, told>>
    /\ torn' \in {torn, torn \cup {r}}
    /\ task[r] \notin Ended \cup {"none"}
    /\ t \in Tasks \ {"none"} /\ task' = [task EXCEPT ![r] = t]
    /\ s \in Metas /\ (meta' = [meta EXCEPT ![r] = s] \/ UNCHANGED meta)
    /\ (s = "success" => t = "succeeded") /\ (s = "failure" => t = "failed" \/ r \in torn')
    /\ n \in 0 .. MaxRetries + 1 /\ attempts' = [attempts EXCEPT ![r] = n]
    /\ (t \in {"queued", "resent"} => n <= MaxRetries)

LEMMA WorkerInv ==
  ASSUME RunAssumption, Inv, NEW r \in Runs, NEW t, NEW s, NEW n,
         TaskBecomes(r, t, s, n)
  PROVE  Inv'
<1> USE DEF TaskBecomes
<1>1. UNCHANGED <<asked, sent, row, poll, told>> /\ torn \subseteq torn'
  BY DEF request
<1>2. TypeOK'
  BY <1>1, SMT DEF Inv, TypeOK
<1>3. AttemptsLeft' /\ InRequest' /\ RowHasTask'
  BY <1>1, SMT DEF Inv, TypeOK, AttemptsLeft, InRequest, RowHasTask
<1>4. meta[r] # "success" /\ (meta[r] = "failure" => r \in torn)
  BY SMT DEF Inv, OutcomeStored, Failed, Ended
<1>5. OutcomeStored'
  BY <1>1, <1>4, SMT DEF Inv, TypeOK, OutcomeStored, Failed
<1>6. OutcomeRead'
  BY <1>1, SMT DEF Inv, TypeOK, OutcomeRead, Failed, Ended
<1>7. OutcomeTold'
  BY <1>1, SMT DEF Inv, TypeOK, OutcomeTold, Ended
<1> QED
  BY <1>2, <1>3, <1>5, <1>6, <1>7 DEF Inv

LEMMA WorkInv == ASSUME RunAssumption, Inv, NEW r \in Runs, Work(r) PROVE Inv'
<1>1. /\ attempts \in [Runs -> 0 .. MaxRetries + 1] /\ MaxRetries \in Nat
      /\ task[r] \in {"queued", "resent"} => attempts[r] <= MaxRetries
  BY DEF RunAssumption, Inv, TypeOK, AttemptsLeft
<1>2. attempts = [attempts EXCEPT ![r] = attempts[r]]
  BY <1>1
<1>3. CASE StartTask(r)
  <2>1. attempts[r] + 1 \in 0 .. MaxRetries + 1
    BY <1>1, <1>3, SMT DEF StartTask
  <2>2. \/ TaskBecomes(r, "running", "started", attempts[r] + 1)
        \/ TaskBecomes(r, "failed", "started", attempts[r] + 1)
    BY <1>3, <2>1, SMT DEF StartTask, TaskBecomes, Ended, Tasks, Metas
  <2> QED
    BY <2>2, WorkerInv
<1>4. CASE FinishTask(r)
  <2>1. TaskBecomes(r, "succeeded", "success", attempts[r])
    BY <1>1, <1>2, <1>4, SMT DEF TaskBecomes, FinishTask, Ended, Tasks, Metas, Ready
  <2> QED
    BY <2>1, WorkerInv
<1>5. CASE RaiseError(r)
  <2>1. TaskBecomes(r, "failing", "unreadable", attempts[r])
    BY <1>1, <1>2, <1>5, SMT DEF TaskBecomes, RaiseError, Ended, Tasks, Metas, Ready
  <2> QED
    BY <2>1, WorkerInv
<1>6. CASE Retry(r)
  <2>1. TaskBecomes(r, "resent", "retry", attempts[r])
    BY <1>1, <1>2, <1>6, SMT DEF TaskBecomes, Retry, Ended, Tasks, Metas, Ready
  <2> QED
    BY <2>1, WorkerInv
<1>9. CASE StoreRetry(r)
  <2>1. TaskBecomes(r, "queued", "retry", attempts[r])
    BY <1>1, <1>2, <1>9, SMT DEF TaskBecomes, StoreRetry, Stores, Ended, Tasks, Metas, Ready
  <2> QED
    BY <2>1, WorkerInv
<1>7. CASE GiveUp(r)
  <2>1. TaskBecomes(r, "failed", "failure", attempts[r])
    BY <1>1, <1>2, <1>7, SMT DEF TaskBecomes, GiveUp, Stores, Ended, Tasks, Metas, Ready
  <2> QED
    BY <2>1, WorkerInv
<1>8. CASE Kill(r)
  <2>1. \/ TaskBecomes(r, "failed", "failure", attempts[r])
        \/ TaskBecomes(r, "queued", "failure", attempts[r])
    BY <1>1, <1>2, <1>8, SMT DEF TaskBecomes, Kill, Stores, Ended, Tasks, Metas, Ready
  <2> QED
    BY <2>1, WorkerInv
<1> QED
  BY <1>3, <1>4, <1>5, <1>6, <1>7, <1>8, <1>9 DEF Work

LEMMA PollInv ==
  ASSUME Inv, NEW p \in Pollers, NEW r \in Runs,
         ReadRow(p, r) \/ ReadMeta(p) \/ WriteRow(p) \/ LosePoll(p)
  PROVE  Inv'
<1>1. poll \in [Pollers -> [run : Runs \cup {NoRun}, knows : {"nothing"} \cup Ready]]
  BY DEF Inv, TypeOK
<1>2. Idle \in [run : Runs \cup {NoRun}, knows : {"nothing"} \cup Ready]
      /\ Idle.knows = "nothing"
  BY DEF Idle
<1>3. ASSUME NEW q \in [run : Runs \cup {NoRun}, knows : {"nothing"} \cup Ready],
             q.knows = "success" => q.run \in Runs /\ task[q.run] = "succeeded",
             q.knows = "failure" => q.run \in Runs /\ Failed(q.run),
             poll' = [poll EXCEPT ![p] = q],
             UNCHANGED <<request, row, worker, told, torn>>
      PROVE  Inv'
  <2>1. UNCHANGED <<asked, sent, row, task, attempts, meta, told, torn>>
    BY <1>3 DEF request, worker
  <2>2. TypeOK'
    BY <1>3, <2>1 DEF Inv, TypeOK
  <2>3. OutcomeRead'
    BY <1>1, <1>3, <2>1 DEF Inv, OutcomeRead, Failed
  <2> QED
    BY <2>1, <2>2, <2>3 DEF Inv, AttemptsLeft, InRequest, OutcomeStored, OutcomeTold, RowHasTask,
       Failed
<1>4. CASE ReadRow(p, r)
  <2> DEFINE q == [run |-> r, knows |-> "nothing"]
  <2>1. q \in [run : Runs \cup {NoRun}, knows : {"nothing"} \cup Ready] /\ q.knows = "nothing"
    OBVIOUS
  <2> QED
    BY <1>3, <1>4, <2>1 DEF ReadRow
<1>5. CASE ReadMeta(p)
  <2> DEFINE run == poll[p].run
             status == meta[run]
             q == [run |-> run, knows |-> status]
  <2>1. run \in Runs /\ UNCHANGED <<request, row, worker, told, torn>>
    BY <1>1, <1>5 DEF ReadMeta
  <2>2. CASE status \in Ready
    <3>1. poll' = [poll EXCEPT ![p] = q]
      BY <1>5, <2>2 DEF ReadMeta
    <3>2. q \in [run : Runs \cup {NoRun}, knows : {"nothing"} \cup Ready]
          /\ q.knows = status /\ q.run = run
      BY <2>1, <2>2
    <3>3. /\ status = "success" => task[run] = "succeeded"
          /\ status = "failure" => Failed(run)
      BY <2>1 DEF Inv, OutcomeStored
    <3> HIDE DEF q, run, status
    <3> QED
      BY <1>3, <2>1, <3>1, <3>2, <3>3
  <2>3. CASE status \notin Ready
    BY <1>2, <1>3, <1>5, <2>1, <2>3 DEF ReadMeta
  <2> QED
    BY <2>2, <2>3
<1>6. CASE WriteRow(p)
  <2> DEFINE run == poll[p].run
             status == IF poll[p].knows = "success" THEN "DONE" ELSE "FAILED"
  <2>1. /\ UNCHANGED <<asked, sent, task, attempts, meta, told, torn>>
        /\ row' = [row EXCEPT ![run] = status]
        /\ poll' = [poll EXCEPT ![p] = Idle]
    BY <1>6 DEF WriteRow, request, worker
  <2>2. /\ run \in Runs
        /\ status = "DONE" => task[run] = "succeeded"
        /\ status = "FAILED" => Failed(run)
    BY <1>6 DEF WriteRow, Inv, OutcomeRead, Ready
  <2>3. status \in {"DONE", "FAILED"}
    OBVIOUS
  <2> HIDE DEF run, status
  <2>4. TypeOK'
    BY <1>2, <2>1, <2>3 DEF Inv, TypeOK
  <2>5. OutcomeRead'
    BY <1>1, <1>2, <2>1 DEF Inv, OutcomeRead, Failed
  <2>6. OutcomeTold' /\ RowHasTask'
    <3>1. \A x \in Runs : row'[x] = IF x = run THEN status ELSE row[x]
      BY <2>1 DEF Inv, TypeOK
    <3>2. OutcomeTold'
      BY <2>1, <2>2, <3>1 DEF Inv, OutcomeTold, Failed
    <3>3. RowHasTask'
      BY <2>1, <2>2, <2>3, <3>1 DEF Inv, RowHasTask, Failed, AttemptsLeft
    <3>4. QED
      BY <3>2, <3>3
  <2>7. AttemptsLeft' /\ InRequest' /\ OutcomeStored'
    BY <2>1 DEF Inv, AttemptsLeft, InRequest, OutcomeStored, Failed
  <2> QED
    BY <2>4, <2>5, <2>6, <2>7 DEF Inv
<1>7. CASE LosePoll(p)
  BY <1>2, <1>3, <1>7 DEF LosePoll
<1> QED
  BY <1>4, <1>5, <1>6, <1>7

LEMMA StepInv == RunAssumption /\ Inv /\ [Next]_vars => Inv'
<1> SUFFICES ASSUME RunAssumption, Inv, [Next]_vars
             PROVE  Inv'
  OBVIOUS
<1>1. CASE Request
  BY <1>1, RequestInv
<1>2. ASSUME NEW r \in Runs, Work(r) PROVE Inv'
  BY <1>2, WorkInv
<1>3. ASSUME NEW r \in Runs, Expire(r) PROVE Inv'
  <2>1. /\ UNCHANGED <<asked, sent, row, task, attempts, poll, told, torn>>
        /\ meta' = [meta EXCEPT ![r] = "none"]
    BY <1>3 DEF Expire, request
  <2>2. TypeOK' /\ OutcomeStored'
    BY <2>1, SMT DEF Inv, TypeOK, OutcomeStored, Metas, Failed
  <2> QED
    BY <2>1, <2>2 DEF Inv, AttemptsLeft, InRequest, OutcomeRead, OutcomeTold, RowHasTask, Failed
<1>4. ASSUME NEW r \in Runs, Watch(r) PROVE Inv'
  <2>1. /\ UNCHANGED <<asked, sent, row, task, attempts, meta, poll, torn>>
        /\ meta[r] \in Ready
        /\ told' = [told EXCEPT ![r] = IF meta[r] = "success" THEN "done" ELSE "failed"]
    BY <1>4 DEF Watch, request, worker
  <2>2. TypeOK' /\ OutcomeTold'
    BY <2>1, SMT DEF Inv, TypeOK, OutcomeTold, OutcomeStored, Ready, Failed
  <2> QED
    BY <2>1, <2>2 DEF Inv, AttemptsLeft, InRequest, OutcomeStored, OutcomeRead, RowHasTask, Failed
<1>5. ASSUME NEW r \in Runs, Look(r) \/ Learn(r) \/ Settle(r) PROVE Inv'
  BY <1>5, PollInv DEF Look, Learn, Settle
<1>6. ASSUME NEW p \in Pollers, LosePoll(p) PROVE Inv'
  <2>1. poll \in [Pollers -> [run : Runs \cup {NoRun}, knows : {"nothing"} \cup Ready]]
    BY DEF Inv, TypeOK
  <2>2. /\ UNCHANGED <<asked, sent, row, task, attempts, meta, told, torn>>
        /\ poll' = [poll EXCEPT ![p] = Idle]
    BY <1>6 DEF LosePoll, request, worker
  <2>3. Idle \in [run : Runs \cup {NoRun}, knows : {"nothing"} \cup Ready]
        /\ Idle.knows = "nothing"
    BY DEF Idle
  <2>4. TypeOK' /\ OutcomeRead'
    BY <2>1, <2>2, <2>3 DEF Inv, TypeOK, OutcomeRead, Failed
  <2> QED
    BY <2>2, <2>4 DEF Inv, AttemptsLeft, InRequest, OutcomeStored, OutcomeTold, RowHasTask, Failed
<1>7. CASE UNCHANGED vars
  BY <1>7 DEF vars, request, worker, Inv, TypeOK, AttemptsLeft, InRequest,
     OutcomeStored, OutcomeRead, OutcomeTold, Failed, RowHasTask
<1> QED
  BY <1>1, <1>2, <1>3, <1>4, <1>5, <1>6, <1>7 DEF Next

(* Inv holds in every state, for any runs, polls and number of retries.    *)
THEOREM InvAlways == Spec => []Inv
<1>1. Init => Inv
  BY RunAssumption, InitInv
<1>2. Inv /\ [Next]_vars => Inv'
  BY RunAssumption, StepInv
<1> QED
  BY <1>1, <1>2, PTL DEF Spec

(* The variables keep their types; no task starts more than MaxRetries + 1 *)
(* times (tasks.py 13, 68).                                                *)
THEOREM TypeCorrect == Spec => []TypeOK
<1>1. Inv => TypeOK
  BY DEF Inv
<1> QED
  BY <1>1, InvAlways, PTL

(* What a row or a websocket says of a run is what became of its task      *)
(* (backtest.py 200-217, 304-312).                                         *)
THEOREM OutcomeToldAlways == Spec => []OutcomeTold
<1>1. Inv => OutcomeTold
  BY DEF Inv
<1> QED
  BY <1>1, InvAlways, PTL

(* Every committed row has a task that was sent (backtest.py 117-156).     *)
THEOREM RowHasTaskAlways == Spec => []RowHasTask
<1>1. Inv => RowHasTask
  BY DEF Inv
<1> QED
  BY <1>1, InvAlways, PTL
-----------------------------------------------------------------------------
(***************************************************************************)
(* Spec implements RunReport.  A request commits rows that were not there, *)
(* and a poll writes to a row that was.                                    *)
(***************************************************************************)
RowsFollow ==
    /\ \A r \in asked \cup sent : row[r] = "none"
    /\ \A p \in Pollers : poll[p].run # NoRun => row[poll[p].run] # "none"

PollRecord == [run : Runs \cup {NoRun}, knows : {"nothing"} \cup Ready]

LEMMA InitRowsFollow == Init => RowsFollow
BY DEF Init, RowsFollow, Idle

LEMMA RowsFollowStep ==
    ASSUME Inv, Inv', RowsFollow, [Next]_vars
    PROVE  RowsFollow'
<1>1. \A p \in Pollers : poll[p] \in PollRecord /\ (poll[p].run \in Runs \/ poll[p].run = NoRun)
  BY DEF Inv, TypeOK, PollRecord
<1>2. ASSUME NEW R \in SUBSET Runs, Ask(R) PROVE RowsFollow'
  BY <1>2 DEF Ask, Inv, RowHasTask, RowsFollow
<1>3. CASE (\E r \in Runs : SendTask(r)) \/ RefuseRequest
  BY <1>3 DEF SendTask, RefuseRequest, RowsFollow
<1>4. CASE CommitRequest
  <2>1. /\ asked' = {} /\ sent' = {} /\ poll' = poll
        /\ row' = [r \in Runs |-> IF r \in sent THEN "RUNNING" ELSE row[r]]
    BY <1>4 DEF CommitRequest
  <2>2. \A r \in Runs : row[r] # "none" => row'[r] # "none"
    BY <2>1
  <2>3. QED
    BY <1>1, <2>1, <2>2 DEF RowsFollow
<1>5. CASE \/ \E r \in Runs : Work(r) \/ Expire(r) \/ Watch(r)
           \/ UNCHANGED vars
  <2>1. UNCHANGED <<asked, sent, row, poll>>
    BY <1>5 DEF Work, StartTask, FinishTask, RaiseError, Retry, StoreRetry, GiveUp, Kill, Expire, Watch,
                request, vars
  <2>2. QED
    BY <2>1 DEF RowsFollow
<1>6. ASSUME NEW p \in Pollers, NEW q,
             poll' = [poll EXCEPT ![p] = q] /\ UNCHANGED <<request, row>>,
             q.run # NoRun => row[q.run] # "none"
      PROVE  RowsFollow'
  <2>1. \A x \in Pollers : poll'[x] = IF x = p THEN q ELSE poll[x]
    BY <1>6 DEF Inv, TypeOK
  <2>2. QED
    BY <1>6, <2>1 DEF RowsFollow, request
<1>7. Idle.run = NoRun
  BY DEF Idle
<1>8. ASSUME NEW r \in Runs, Look(r) PROVE RowsFollow'
  <2>1. PICK p \in Pollers : ReadRow(p, r)
    BY <1>8 DEF Look
  <2>2. QED
    BY <1>6, <2>1 DEF ReadRow
<1>9. ASSUME NEW r \in Runs, Learn(r) PROVE RowsFollow'
  <2>1. PICK p \in Pollers : poll[p].run = r /\ ReadMeta(p)
    BY <1>9 DEF Learn
  <2>2. UNCHANGED <<request, row>>
        /\ \/ poll' = [poll EXCEPT ![p] = [run |-> r, knows |-> meta[r]]]
           \/ poll' = [poll EXCEPT ![p] = Idle]
    BY <2>1 DEF ReadMeta
  <2>3. row[r] # "none"
    BY <2>1, RunAssumption DEF RowsFollow
  <2>4. QED
    BY <1>6, <1>7, <2>2, <2>3
<1>10. ASSUME NEW r \in Runs, Settle(r) PROVE RowsFollow'
  <2>1. PICK p \in Pollers : poll[p].run = r /\ WriteRow(p)
    BY <1>10 DEF Settle
  <2>2. /\ poll' = [poll EXCEPT ![p] = Idle] /\ UNCHANGED <<asked, sent>>
        /\ row' = [row EXCEPT ![r] = IF poll[p].knows = "success" THEN "DONE" ELSE "FAILED"]
    BY <2>1 DEF WriteRow, request
  <2>3. row[r] # "none"
    BY <2>1, RunAssumption DEF RowsFollow
  <2>4. /\ \A x \in Runs \ {r} : row'[x] = row[x]
        /\ row'[r] # "none"
        /\ \A x \in Pollers : poll'[x] = IF x = p THEN Idle ELSE poll[x]
    BY <2>2 DEF Inv, TypeOK
  <2>5. asked \cup sent \subseteq Runs
    BY DEF Inv, TypeOK
  <2>6. QED
    BY <1>1, <1>7, <2>2, <2>3, <2>4, <2>5 DEF RowsFollow
<1>11. ASSUME NEW p \in Pollers, LosePoll(p) PROVE RowsFollow'
  BY <1>6, <1>7, <1>11 DEF LosePoll
<1> QED
  BY <1>2, <1>3, <1>4, <1>5, <1>8, <1>9, <1>10, <1>11 DEF Next, Request

LEMMA OutcomeIs ==
    ASSUME Inv, NEW r \in Runs
    PROVE  /\ Outcome[r] = "none" <=> task[r] = "none"
           /\ Outcome[r] = "succeeded" <=> task[r] = "succeeded"
           /\ Outcome[r] = "failed" <=> task[r] = "failed"
           /\ Outcome[r] = "open" <=> task[r] \notin Ended \cup {"none"}
BY DEF Outcome, Inv, TypeOK, Tasks, Ended

(* A step of the worker leaves the outcome open, or ends or tears it. *)
LEMMA WorkImplements ==
    ASSUME Inv, Inv', NEW r \in Runs, Work(r)
    PROVE  \/ UNCHANGED Report!vars \/ Report!Tear(r)
           \/ Report!End(r, "succeeded") \/ Report!End(r, "failed")
<1>1. PICK t \in Tasks \ {"none"} : task' = [task EXCEPT ![r] = t]
  BY DEF Work, StartTask, FinishTask, RaiseError, Retry, StoreRetry, GiveUp, Kill, Tasks, Ended
<1>2. UNCHANGED <<row, told>> /\ task[r] \notin Ended \cup {"none"}
  BY DEF Work, StartTask, FinishTask, RaiseError, Retry, StoreRetry, GiveUp, Kill, Ended
<1>3. task'[r] = t /\ \A x \in Runs \ {r} : task'[x] = task[x]
  BY <1>1 DEF Inv, TypeOK
<1>4. Outcome[r] = "open"
  BY <1>2, OutcomeIs
<1>5. torn' = torn \/ (torn' = torn \cup {r} /\ task'[r] = "queued")
  BY <1>3 DEF Work, StartTask, FinishTask, RaiseError, Retry, StoreRetry, GiveUp, Kill, Inv,
              TypeOK
<1>6. CASE t \in Ended
  <2>1. Outcome' = [Outcome EXCEPT ![r] = t] /\ torn' = torn
    BY <1>3, <1>5, <1>6 DEF Outcome, Ended
  <2>2. QED
    BY <1>2, <1>4, <1>6, <2>1 DEF Report!End, Ended
<1>7. CASE t \notin Ended
  <2>1. Outcome'[r] = "open" /\ \A x \in Runs \ {r} : Outcome'[x] = Outcome[x]
    BY <1>1, <1>3, <1>7 DEF Outcome
  <2>2. Outcome' = Outcome
    BY <1>4, <2>1 DEF Outcome
  <2>3. QED
    BY <1>2, <1>4, <1>5, <2>2 DEF Report!vars, Report!Tear
<1> QED
  BY <1>6, <1>7

(* A poll writes the outcome into a row that is RUNNING or of a torn task, *)
(* or once more into a row that shows it.                                  *)
LEMMA SettleImplements ==
    ASSUME Inv, Inv', RowsFollow, NEW r \in Runs, Settle(r)
    PROVE  UNCHANGED Report!vars \/ Report!Settle(r)
<1>1. PICK p \in Pollers : poll[p].run = r /\ WriteRow(p)
  BY DEF Settle
<1>2. /\ row' = [row EXCEPT ![r] = IF poll[p].knows = "success" THEN "DONE" ELSE "FAILED"]
      /\ poll[p].knows \in Ready /\ UNCHANGED <<task, told, torn>>
  BY <1>1 DEF WriteRow, worker
<1>3. Outcome' = Outcome
  BY <1>2 DEF Outcome
<1>4. row[r] \in {"RUNNING", "DONE", "FAILED"}
  BY <1>1, RunAssumption DEF RowsFollow, Inv, TypeOK
<1>5. /\ row[r] = "DONE" => task[r] = "succeeded"
      /\ row[r] = "FAILED" => Failed(r)
  BY DEF Inv, OutcomeTold, Failed
<1>6. CASE poll[p].knows = "success"
  <2>1. task[r] = "succeeded" /\ Outcome[r] = "succeeded" /\ row' = [row EXCEPT ![r] = "DONE"]
    BY <1>1, <1>2, <1>6, OutcomeIs DEF Inv, OutcomeRead
  <2>2. CASE row[r] = "DONE"
    <3>1. row' = row
      BY <2>1, <2>2 DEF Inv, TypeOK
    <3>2. QED
      BY <1>2, <1>3, <3>1 DEF Report!vars
  <2>3. CASE row[r] # "DONE"
    <3>1. row[r] = "RUNNING" \/ r \in torn
      BY <1>4, <1>5, <2>1, <2>3 DEF Failed
    <3>2. QED
      BY <1>2, <1>3, <1>4, <2>1, <3>1 DEF Report!Settle
  <2>4. QED
    BY <2>2, <2>3
<1>7. CASE poll[p].knows # "success"
  <2>1. Failed(r) /\ row' = [row EXCEPT ![r] = "FAILED"]
    BY <1>1, <1>2, <1>7 DEF Inv, OutcomeRead, Ready
  <2>2. Report!Failed(r)
    BY <2>1, OutcomeIs DEF Failed, Report!Failed
  <2>3. CASE row[r] = "FAILED"
    <3>1. row' = row
      BY <2>1, <2>3 DEF Inv, TypeOK
    <3>2. QED
      BY <1>2, <1>3, <3>1 DEF Report!vars
  <2>4. CASE row[r] # "FAILED"
    <3>1. row[r] = "RUNNING" \/ r \in torn
      BY <1>4, <1>5, <2>1, <2>4 DEF Failed
    <3>2. QED
      BY <1>2, <1>3, <1>4, <2>1, <2>2, <3>1 DEF Report!Settle
  <2>5. QED
    BY <2>3, <2>4
<1> QED
  BY <1>6, <1>7

LEMMA RequestImplements ==
    ASSUME Inv, Inv', RowsFollow, Request
    PROVE  [Report!Next]_Report!vars
<1>1. CASE (\E R \in SUBSET Runs : Ask(R)) \/ RefuseRequest
  BY <1>1 DEF Ask, RefuseRequest, worker, Outcome, Report!vars
<1>2. ASSUME NEW r \in Runs, SendTask(r) PROVE Report!Next
  <2>1. /\ task' = [task EXCEPT ![r] = "queued"] /\ UNCHANGED <<row, told, torn>>
        /\ task[r] = "none" /\ row[r] = "none"
    BY <1>2 DEF SendTask, Inv, InRequest, RowsFollow
  <2>2. task'[r] = "queued" /\ \A x \in Runs \ {r} : task'[x] = task[x]
    BY <2>1 DEF Inv, TypeOK
  <2>3. Outcome[r] = "none" /\ Outcome' = [Outcome EXCEPT ![r] = "open"]
    BY <2>1, <2>2 DEF Outcome, Ended
  <2>4. Report!Send(r)
    BY <2>1, <2>3 DEF Report!Send
  <2>5. QED
    BY <2>4 DEF Report!Next
<1>3. ASSUME CommitRequest PROVE Report!Next
  <2>1. /\ row' = [r \in Runs |-> IF r \in sent THEN "RUNNING" ELSE row[r]]
        /\ UNCHANGED <<task, told, torn>>
    BY <1>3 DEF CommitRequest, worker
  <2>2. \A r \in sent : r \in Runs /\ row[r] = "none" /\ task[r] # "none"
    BY DEF Inv, TypeOK, InRequest, RowsFollow
  <2>3. \A r \in sent : Outcome[r] # "none"
    BY <2>2, OutcomeIs
  <2>4. Outcome' = Outcome
    BY <2>1 DEF Outcome
  <2>5. Report!Accept(sent) /\ sent \in SUBSET Runs
    BY <2>1, <2>2, <2>3, <2>4 DEF Report!Accept
  <2>6. QED
    BY <2>5 DEF Report!Next
<1> QED
  BY <1>1, <1>2, <1>3 DEF Request

LEMMA StepImplements ==
    ASSUME Inv, Inv', RowsFollow, [Next]_vars
    PROVE  [Report!Next]_Report!vars
<1>1. CASE Request
  BY <1>1, RequestImplements
<1>2. ASSUME NEW r \in Runs, Work(r) PROVE [Report!Next]_Report!vars
  BY <1>2, WorkImplements DEF Report!Next
<1>3. ASSUME NEW r \in Runs, Watch(r) PROVE Report!Next
  <2>1. /\ row[r] # "none" /\ told[r] = "polling" /\ UNCHANGED <<row, task, torn>>
        /\ told' = [told EXCEPT ![r] = IF meta[r] = "success" THEN "done" ELSE "failed"]
        /\ \/ meta[r] = "success" /\ task[r] = "succeeded"
           \/ meta[r] = "failure" /\ Failed(r)
    BY <1>3 DEF Watch, worker, Ready, Inv, OutcomeStored
  <2>2. Outcome' = Outcome
    BY <2>1 DEF Outcome
  <2>3. Report!Tell(r)
    BY <2>1, <2>2, OutcomeIs DEF Report!Tell, Report!Failed, Failed
  <2>4. QED
    BY <2>3 DEF Report!Next
<1>4. CASE \/ \E r \in Runs : Expire(r) \/ Look(r) \/ Learn(r)
           \/ \E p \in Pollers : LosePoll(p)
           \/ UNCHANGED vars
  BY <1>4 DEF Expire, Look, Learn, ReadRow, ReadMeta, LosePoll, worker, vars, Outcome,
              Report!vars
<1>5. ASSUME NEW r \in Runs, Settle(r) PROVE [Report!Next]_Report!vars
  BY <1>5, SettleImplements DEF Report!Next
<1> QED
  BY <1>1, <1>2, <1>3, <1>4, <1>5 DEF Next

(* Seen from its page and its websocket a run is accepted with a task,     *)
(* comes to one end, and shows that end for good, unless it was killed in  *)
(* a retry: retries, unreadable and expired results and late polls cannot  *)
(* be told from a task that takes long (backtest.py 99-217, 263-320; tasks.py 13-68).     *)
THEOREM ImplementsReport == Spec => ReportSpec
<1>1. Init => Report!Init
  BY DEF Init, Report!Init, Outcome
<1>2. Inv /\ Inv' /\ RowsFollow /\ [Next]_vars => RowsFollow' /\ [Report!Next]_Report!vars
  BY RowsFollowStep, StepImplements
<1> QED
  BY <1>1, <1>2, InitRowsFollow, InvAlways, PTL DEF Spec, ReportSpec, Report!Spec
=============================================================================
