---------------------------- MODULE DataCollector ----------------------------
(***************************************************************************)
(* The data collector: one process whose jobs are coroutines over one      *)
(* database.                                                               *)
(*                                                                         *)
(*   load    startup_check: the bulk load of an empty database             *)
(*   daily   daily_job, at 16:00                                           *)
(*   list    stock_list_job, on Mondays                                    *)
(*                                                                         *)
(* Prices are upserted in batches of tickers, a transaction each; a row    *)
(* that is written stays locked until then.  Bars are dates: 0 stands for  *)
(* the three years before day 1.  KRX may have no data for a ticker or     *)
(* fail.  Fundamentals follow the prices; their table, which no job reads, *)
(* is left out.                                                            *)
(***************************************************************************)
EXTENDS Integers, FiniteSets

CONSTANTS Tickers,              \* stock codes, ordered
          Kospi, Kosdaq, MarketOf,
          Listed,               \* what KRX lists on a day
          BatchSize,            \* batch_size (50)
          LastDay,              \* bound: the days considered are 1..LastDay
          MaxFailures           \* bound: crashes and errors of the database

Markets == {Kospi, Kosdaq}

ASSUME CollectorAssumption ==
    /\ Tickers \subseteq Int
    /\ MarketOf \in [Tickers -> Markets]
    /\ Listed \in [1..LastDay -> SUBSET Tickers]
    /\ BatchSize \in Nat \ {0} /\ LastDay \in Nat \ {0} /\ MaxFailures \in Nat

Load == "load"
Daily == "daily"
List == "list"
Jobs == {Load, Daily, List}
PriceJobs == {Load, Daily}
Days == 1..LastDay               \* weekdays, from a Monday
Monday(d) == d % 5 = 1

VARIABLES
    day,
    stocks, stored,     \* committed: tickers of stocks, <<ticker, bar>> of price_daily
    pc,                 \* the step each job is at; "done" after a normal end
    marketsLeft,        \* its loop over KOSPI and KOSDAQ: those still to come
    listing,            \* the tickers its open transaction has put into stocks
    today,              \* the day of the run of each job
    asked, todo,        \* the tickers it has read, and those that are left
    batch,              \* the tickers of the transaction that is open
    missing,            \* the tickers it has written no bar of, or lost them
    poisoned,           \* its transaction has failed and takes no statement
    failures

tables == <<stocks, stored>>
locals == <<today, asked, todo, batch, missing, poisoned>>
vars == <<day, tables, pc, marketsLeft, listing, locals, failures>>

Places == {"idle", "check", "stocks", "market", "tickers", "prices", "funds", "done"}
Running(j) == pc[j] \notin {"idle", "done"}

(* The type invariant; a transaction has the tickers of one batch at most. *)
TypeOK ==
    /\ day \in Days
    /\ stocks \subseteq Tickers /\ stored \subseteq Tickers \X (0..LastDay)
    /\ pc \in [Jobs -> Places]
    /\ pc[Daily] \notin {"check", "stocks", "market"}
    /\ marketsLeft \in [Jobs -> SUBSET Markets]
    /\ listing \in [Jobs -> SUBSET Tickers]
    /\ today \in [Jobs -> 0..LastDay]
    /\ asked \in [PriceJobs -> SUBSET Tickers] /\ todo \in [PriceJobs -> SUBSET Tickers]
    /\ batch \in [PriceJobs -> SUBSET Tickers] /\ missing \in [PriceJobs -> SUBSET Tickers]
    /\ \A j \in PriceJobs : Cardinality(batch[j]) <= BatchSize
    /\ poisoned \in [PriceJobs -> BOOLEAN]
    /\ failures \in 0..MaxFailures

Init ==
    /\ day = 1 /\ stocks = {} /\ stored = {}
    /\ pc = [j \in Jobs |-> IF j = Load THEN "check" ELSE "idle"]
    /\ marketsLeft = [j \in Jobs |-> {}] /\ listing = [j \in Jobs |-> {}]
    /\ today = [j \in Jobs |-> 0]
    /\ asked = [j \in PriceJobs |-> {}] /\ todo = [j \in PriceJobs |-> {}]
    /\ batch = [j \in PriceJobs |-> {}] /\ missing = [j \in PriceJobs |-> {}]
    /\ poisoned = [j \in PriceJobs |-> FALSE]
    /\ failures = 0
-----------------------------------------------------------------------------
(* What a price job asks KRX for, of ticker t, and the rows of table       *)
(* price_daily that its open transaction has written, and so has locked.   *)
Bars(j, t) == {t} \X (IF j = Load THEN 0 .. today[j] ELSE {today[j]})
Locked(j) == UNION {Bars(j, t) : t \in batch[j] \ missing[j]}

(* get_all_tickers has an ORDER BY.  Mutant: it has none. *)
IsNextAny(j, t) == t \in todo[j]
IsNext(j, t) == t \in todo[j] /\ \A u \in todo[j] : t <= u

(* An upsert waits for the transaction that has written the row.           *)
MustWait(j, k, t) == j # k /\ ~poisoned[j] /\ Bars(j, t) \cap Locked(k) # {}
WaitsFor(j, k) ==
    /\ pc[j] = "prices" /\ Cardinality(batch[j]) < BatchSize
    /\ \E t \in todo[j] : IsNext(j, t) /\ MustWait(j, k, t)
-----------------------------------------------------------------------------
(* is_database_empty, and the dates of initial_bulk_load. *)
CheckEmpty ==
    /\ pc[Load] = "check"
    /\ pc' = [pc EXCEPT ![Load] = IF stored = {} THEN "stocks" ELSE "done"]
    /\ marketsLeft' = [marketsLeft EXCEPT ![Load] = IF stored = {} THEN Markets ELSE {}]
    /\ today' = [today EXCEPT ![Load] = day]
    /\ UNCHANGED <<day, tables, listing, asked, todo, batch, missing, poisoned, failures>>

StartDaily ==
    /\ ~Running(Daily) /\ today[Daily] < day
    /\ pc' = [pc EXCEPT ![Daily] = "tickers"]
    /\ today' = [today EXCEPT ![Daily] = day]
    /\ UNCHANGED <<day, tables, marketsLeft, listing, asked, todo, batch, missing, poisoned,
                   failures>>

StartList ==
    /\ ~Running(List) /\ today[List] < day /\ Monday(day)
    /\ pc' = [pc EXCEPT ![List] = "stocks"]
    /\ marketsLeft' = [marketsLeft EXCEPT ![List] = Markets]
    /\ today' = [today EXCEPT ![List] = day]
    /\ UNCHANGED <<day, tables, listing, asked, todo, batch, missing, poisoned, failures>>

(* KOSPI first, then KOSDAQ. *)
NextMarket(j, m) ==
    /\ m \in marketsLeft[j]
    /\ m = Kosdaq => Kospi \notin marketsLeft[j]
    /\ marketsLeft' = [marketsLeft EXCEPT ![j] = @ \ {m}]

(* collect_stock_list: a transaction for each market upserts the tickers   *)
(* that KRX lists on that day, in KRX's order: of two jobs at one market   *)
(* the second waits at its first ticker ...                                *)
OpenMarket(j, m) ==
    /\ pc[j] = "stocks" /\ NextMarket(j, m)
    /\ LET listed == {t \in Listed[day] : MarketOf[t] = m} IN
         /\ \A k \in Jobs : listing[k] \cap listed = {}
         /\ listing' = [listing EXCEPT ![j] = listed]
    /\ pc' = [pc EXCEPT ![j] = "market"]
    /\ UNCHANGED <<day, tables, locals, failures>>

(* ... and commits them.  Nothing takes one out of the table again.        *)
SaveMarket(j) ==
    /\ pc[j] = "market"
    /\ stocks' = stocks \cup listing[j]
    /\ listing' = [listing EXCEPT ![j] = {}]
    /\ pc' = [pc EXCEPT ![j] = IF marketsLeft[j] # {} THEN "stocks"
                              ELSE IF j = Load THEN "tickers" ELSE "done"]
    /\ UNCHANGED <<day, stored, marketsLeft, locals, failures>>

ReadTickers(j) ==
    /\ pc[j] = "tickers"
    /\ pc' = [pc EXCEPT ![j] = "prices"]
    /\ asked' = [asked EXCEPT ![j] = stocks]
    /\ todo' = [todo EXCEPT ![j] = stocks]
    /\ batch' = [batch EXCEPT ![j] = {}]
    /\ missing' = [missing EXCEPT ![j] = {}]
    /\ poisoned' = [poisoned EXCEPT ![j] = FALSE]
    /\ UNCHANGED <<day, tables, marketsLeft, listing, today, failures>>

(* The next ticker of the batch. *)
Turn(j, t) ==
    /\ pc[j] = "prices" /\ Cardinality(batch[j]) < BatchSize
    /\ IsNext(j, t)
    /\ todo' = [todo EXCEPT ![j] = @ \ {t}]
    /\ batch' = [batch EXCEPT ![j] = @ \cup {t}]
    /\ UNCHANGED <<day, tables, pc, marketsLeft, listing, today, asked>>

(* The bars of a ticker are written. *)
Write(j, t) ==
    /\ Turn(j, t)
    /\ ~poisoned[j] /\ \A k \in PriceJobs : ~MustWait(j, k, t)
    /\ UNCHANGED <<missing, poisoned, failures>>

(* `continue': KRX has no data or fails, or the transaction has failed.    *)
(* Mutant: the ticker is tried again.                                      *)
SkipAndRetry(j, t) ==
    /\ pc[j] = "prices" /\ Cardinality(batch[j]) < BatchSize
    /\ IsNext(j, t)
    /\ UNCHANGED vars
Skip(j, t) ==
    /\ Turn(j, t)
    /\ missing' = [missing EXCEPT ![j] = @ \cup {t}]
    /\ UNCHANGED <<poisoned, failures>>

(* A statement fails: the error is caught and logged, but the transaction  *)
(* takes no further statement, and its commit is a rollback.               *)
Poison(j, t) ==
    /\ Turn(j, t)
    /\ ~poisoned[j] /\ failures < MaxFailures
    /\ poisoned' = [poisoned EXCEPT ![j] = TRUE]
    /\ missing' = [missing EXCEPT ![j] = @ \cup batch[j] \cup {t}]
    /\ failures' = failures + 1

(* Mutant: a batch that is not full is not committed. *)
BatchFull(j) == Cardinality(batch[j]) = BatchSize
BatchEnds(j) == BatchFull(j) \/ (todo[j] = {} /\ batch[j] # {})
CommitBatch(j) ==
    /\ pc[j] = "prices" /\ BatchEnds(j)
    /\ stored' = stored \cup Locked(j)
    /\ batch' = [batch EXCEPT ![j] = {}]
    /\ poisoned' = [poisoned EXCEPT ![j] = FALSE]
    /\ UNCHANGED <<day, stocks, pc, marketsLeft, listing, today, asked, todo, missing,
                   failures>>

(* After the prices. *)
StartFundamentals(j) ==
    /\ pc[j] = "prices" /\ todo[j] = {} /\ ~BatchEnds(j)
    /\ pc' = [pc EXCEPT ![j] = "funds"]
    /\ UNCHANGED <<day, tables, marketsLeft, listing, locals, failures>>

(* collect_fundamentals catches its errors; both jobs write the rows in    *)
(* the order of KRX's tables.  Then the job is over.                       *)
SaveFundamentals(j) ==
    /\ pc[j] = "funds"
    /\ pc' = [pc EXCEPT ![j] = "done"]
    /\ asked' = [asked EXCEPT ![j] = {}]
    /\ missing' = [missing EXCEPT ![j] = {}]
    /\ UNCHANGED <<day, tables, marketsLeft, listing, today, todo, batch, poisoned, failures>>
-----------------------------------------------------------------------------
(* The jobs in J are over: their transactions are rolled back. *)
Dropped(v, J) == [j \in PriceJobs |-> IF j \in J THEN {} ELSE v[j]]
Drop(J) ==
    /\ asked' = Dropped(asked, J) /\ todo' = Dropped(todo, J)
    /\ batch' = Dropped(batch, J) /\ missing' = Dropped(missing, J)
    /\ poisoned' = [j \in PriceJobs |-> j \notin J /\ poisoned[j]]
    /\ marketsLeft' = [j \in Jobs |-> IF j \in J THEN {} ELSE marketsLeft[j]]
    /\ listing' = [j \in Jobs |-> IF j \in J THEN {} ELSE listing[j]]
    /\ failures < MaxFailures /\ failures' = failures + 1
    /\ UNCHANGED <<day, tables, today>>

(* An error that no handler catches: KRX fails in collect_stock_list, the  *)
(* database outside the loop over the tickers.  The scheduler, and         *)
(* startup_check, log it.                                                  *)
Fail(j) ==
    /\ Running(j)
    /\ pc' = [pc EXCEPT ![j] = "idle"]
    /\ Drop({j})

(* The process dies; Docker starts it again. *)
Restart ==
    /\ pc' = [j \in Jobs |-> IF j = Load THEN "check" ELSE "idle"]
    /\ Drop(Jobs)

NextDay ==
    /\ day < LastDay
    /\ day' = day + 1
    /\ UNCHANGED <<tables, pc, marketsLeft, listing, locals, failures>>

Collect(j) ==
    \/ ReadTickers(j) \/ CommitBatch(j) \/ StartFundamentals(j) \/ SaveFundamentals(j)
    \/ \E t \in Tickers : Write(j, t) \/ Skip(j, t) \/ Poison(j, t)

Step(j) ==
    \/ j = Load /\ CheckEmpty
    \/ \E m \in Markets : OpenMarket(j, m)
    \/ SaveMarket(j)
    \/ j \in PriceJobs /\ Collect(j)

Next ==
    \/ StartDaily \/ StartList
    \/ \E j \in Jobs : Step(j) \/ Fail(j)
    \/ Restart \/ NextDay

Spec == Init /\ [][Next]_vars

(* The event loop gives every coroutine its turn.  A job that waits for a  *)
(* row is not assumed to be rescued by an answer of KRX: a ticker is       *)
(* skipped in fairness only when the transaction has failed.               *)
Proceed(j) ==
    /\ Step(j)
    /\ j \in PriceJobs /\ missing'[j] # missing[j] => poisoned[j] \/ pc[j] # "prices"
FairSpec == Spec /\ \A j \in Jobs : WF_vars(Proceed(j))
-----------------------------------------------------------------------------
(* A price job that is through with its prices has stored the bars of      *)
(* every ticker it has read, but for those that KRX or a failed            *)
(* transaction has lost: the batches and the other job at the same rows    *)
(* leave no gap of their own.                                              *)
RunComplete ==
    \A j \in PriceJobs : pc[j] = "funds" =>
        \A t \in asked[j] \ missing[j] : Bars(j, t) \subseteq stored

(* The bulk load and the daily run never wait for each other's rows. *)
NoLockCycle == ~(WaitsFor(Load, Daily) /\ WaitsFor(Daily, Load))

(* Every run of a job ends. *)
RunsEnd == \A j \in Jobs : Running(j) ~> ~Running(j)
=============================================================================
