# kis-trader: formal models

This directory models the trading back end of kis-trader in TLA+, checks it with
TLC on small instances and proves the most important results for every instance
with TLAPS. A module is written from the source; every definition that stands
for code is listed with its lines in `PROJECT.json` ("map").

## 1. Inventory of the system

kis-trader trades Korean stocks on behalf of its users, on paper (SIM accounts)
or through the broker KIS (REAL accounts). It is a set of processes around one
PostgreSQL database (READ COMMITTED, the default) and one Redis.

| Component | State it keeps | Operations |
|---|---|---|
| **paper trading jobs** (`trading_scheduler.execute_pending_orders`, `anomaly_detector.check_anomalies`, `kis_service.place_sim_order`) | `accounts.cash_balance`, `positions`, `orders`; in each job one session with its ORM objects and one transaction | execute the PENDING orders at 09:05; every five minutes save new prices and sell positions that crash |
| **signal generation** (`generate_signals_and_queue_orders`, cron jobs of `main.lifespan`) | `orders`, `strategy_activations.last_signal_*` | at 15:35 turn signals of active activations into PENDING orders |
| **data collector** (`data-collector/`) | `stocks`, `price_daily`, `stock_fundamentals` | initial bulk load if the table is empty; daily update at 16:00; stock list on Mondays |
| **authentication** (`auth_service`, `routers/auth`, `deps`, `database.get_db`) | `users` (fail count, lock, TOTP), `refresh_tokens` | register, login, refresh (rotation), logout, TOTP setup and verification |
| **client session** (`frontend/src/lib/api.ts`, login page, dashboard layout) | the tokens in localStorage; requests in flight | attach the token, refresh once on 401, give up and go to the login page |
| **backtest runs** (`routers/backtest`, `backtest_service`, `worker/tasks`) | `backtest_runs`; the Celery task and its result in Redis | create a run and send the task; run, retry, time out; copy the result into the row when somebody polls; stream progress |
| **backtest simulation** (`algorithms/base`, `algorithms/multi`) | capital, position, average price of one simulation | a pass over daily bars with stop-loss and take-profit; metrics |
| **real trading service** (`real-trading/`, `kis_token_refresher`) | `orders` of REAL accounts; the KIS token | risk check, daily loss check, send the order to KIS, record it |
| **activations, accounts, strategies** (`routers/trading`, `accounts`, `strategies`) | `strategy_activations`, `accounts.is_active`, `strategies` | activate, deactivate, settings, CRUD |
| **result stream** (`routers/backtest.backtest_ws`, `lib/websocket.ts`, result page) | a socket, its reconnect timer | poll the task and push its state; reconnect |
| **legacy engines** (`src/live_engine`, `src/backtest_engine`, `src/strategies`) | token cache; capital and holdings in SQLite and in memory | orders, simulations |
| market API, audit, analytics, Slack, pages, deployment | read-only queries or write-only side effects | |

**How they interact.** The backend is one process with one event loop; its HTTP
handlers and its six cron jobs are coroutines that interleave at every `await`,
so at every SQL statement. They share nothing in memory but a great deal in the
database, and each has its own session: a *transaction* and an *identity map* of
ORM objects that a later query does not refresh. The collector writes the price
tables the jobs read, on its own clock. Backtests go to a Celery worker on
another machine through Redis and come back only when a client asks. Orders of
REAL accounts go by HTTP to the real trading service, which has its own
transaction and calls KIS.

**What is hard.** Two jobs on the same rows with objects loaded at different
times (stale writes, lock order, deadlock); a batch that is one transaction
(crash or error in the middle, with external effects already done); a request
that is rolled back as a whole when it answers with an error; cron jobs whose
order in the day decides which bar is "today's"; task results that expire,
retries that look like failures; refresh tokens rotated by two tabs at once.

**What makes each part correct.**

* paper trading: no negative balance or position; every order filled at most once, its outcome final; balances equal to what the FILLED rows add up to; every run ends; every order settles.
* signal generation: an order settles at the first run of the executor after the day it was queued, never at a bar older than its signal's; one bar makes one order, unless no other arrives.
* data collector: a run that ends has stored what it has fetched, except in a batch that failed; two runs never wait for each other in a circle; every run ends.
* authentication: a refresh token that was traded is revoked and stays refused; while requests do not overlap, a login has one usable token, a logout ends it, and a second factor that is on is one the user has shown. (Five bad passwords are said to lock the account: they do not.)
* client session: no dead refresh token in the store, unless the page that was to store its successor is gone; calls made one at a time do not lose the session; every call ends.
* backtest runs: a row or a websocket says what has become of the task, for good; no row without a task; a result that is read in time settles the row; retries end.
* backtest simulation: nothing is spent that is not there, the balance is explained by the trades, sales pair with purchases, stops overrule the strategy, folds do not overlap.
* real trading: no order reaches KIS that breaks a limit against the rows; table `orders` and the answers agree with what KIS did unless a fault struck; every request ends. (REAL orders of the book are said to be traded: they are not.)
* activations: a strategy is active on an account once, and two activations of it do not queue for the same ticker and day, unless two requests overlapped.

The hazards of the code, each at its line and with the property that watches it,
are in `PROJECT.json` ("hazards").

## 2. The modules

| Module | Models | Extends / uses |
|---|---|---|
| `SimTrading` | the two jobs that trade on SIM accounts, against one database | |
| `SimBooks` | what they promise of one run at a time, fill by fill: a copy of the books, published or thrown away | |
| `SimLedger` | what they promise of a whole run: a ledger without sessions, locks or rows in flight | |
| `TradingDay` | the daily cycle of executor, signal job and collector | |
| `Activation` | overlapping activation requests in front of that cycle | `TradingDay` |
| `RealTrading` | the real trading service, its broker, and the executor's posts to it | |
| `Auth` | users, refresh tokens, the requests of `routers/auth.py` | |
| `ClientSession` | the tabs of a browser in front of `Auth` | `Auth` |
| `BacktestRun` | a run from request to result: row, task, broker, polls | |
| `RunReport` | what the backend promises of its runs: one end of a task, shown for good | |
| `BacktestSim` | folds and simulation of one backtest task | |
| `DataCollector` | the three jobs of the collector, their transactions and locks | |
| `*Proofs` | theorems about the module of that name | the module, `TLAPS` |
| `MC*` | constants of the instances that TLC checks | the module |

Mutants stand in the modules, each before the definition it is a faulty version
of (comment "Mutant"); nothing but that definition's mutation refers to them.

### 2.1 SimTrading, SimBooks, SimLedger

*State.* A row of `accounts` or `positions` has a committed version (`cash`,
`qty`) and a newest one with its lock (`cashNew`, `cashLock`, `qtyNew`,
`qtyLock`). A job's session keeps copies of its own (`cache`: the ORM accounts
it has loaded; `seen`: positions), which no later query refreshes - that is what
SQLAlchemy's identity map does, also under `SELECT ... FOR UPDATE`, and what
most of the module is about. `net` and `held` are history: what the FILLED rows
add up to.

*Actions.* One action is what a coroutine does between two waits for the
database: `NextOrder`, `LockAccountToBuy`, `ReadPositionToSell`,
`FlushAccount`, `FlushPosition`, `CommitExecutor`, `ScanAccount`,
`CheckPosition`, `FlushPrice`, `CommitAnomaly`. Failures: a flush that the
database refuses and that poisons the session, a crash (`LoseTransaction`), a
deadlock, of which PostgreSQL breaks one side (`BreakDeadlock`).

*Abstract specifications.* `SimTrading` implements both as long as the two jobs
do not overlap. With overlap it implements neither: `SimBooks` has one run at a
time, and what breaks `SimLedger` is the finding of `sim_double_spend`.

* `SimBooks` has no sessions, objects or locks. A run works on a copy of the
  books; each order is filled or failed as a whole, in one step, at some price
  and only if money and shares suffice; an emergency sale sells all that is
  there; `Commit` publishes the copy with the outcome of every order, `Abandon`
  throws it away. The mapping is at the end of `SimTrading`: the runner is the
  job with a session, the copy is the committed rows and what the session's
  FILLED rows add up to (`Work`, `Stock`), the outcomes are `mark`. So a trade
  happens at `FlushPosition`; the steps before it, in which the money is an
  object or a locked row only, are stutters. `BooksSpec` is checked, and proved.
* `SimLedger` settles a set of orders in one step and moves each balance by the
  sum of its fills. `MCSimTrading` checks it (`LedgerSpec`).

### 2.2 TradingDay

Each cron job is one step here; days are weekdays. What matters is the order of
the hours (09:05 execute, 15:35 signal, 16:00 collect), which bars are stored
when a job reads "the newest", and which runs are missed: the schedulers keep
their jobs in memory and make nothing up. An order remembers the bar its signal
came from and the bar it was filled at.

What a strategy thinks of a ticker (`signal`) is arbitrary, changes with a new
bar (`CollectDailyUpdate`) or with the strategy's parameters
(`UpdateStrategy`), and is shared by all activations of the strategy. A strategy
outside `Known` never signals: `_generate_signal_simple` knows MA_CROSS, RSI,
MACD and BOLLINGER, while strategies of the other types can be activated as
well. Deleting a strategy only clears its `is_active`, which neither the jobs
nor the activation look at, so it goes on trading; that is why `UpdateStrategy`
stands for the deletion too.

### 2.3 Activation

`POST /trading/activate` looks for an ACTIVE row of its strategy on its account
(`CheckActive`) and inserts one in a later step of the same transaction
(`Insert`); no constraint of the table keeps two rows of a pair apart. The other
requests and the jobs are those of `TradingDay`, which the module extends and
implements (`Implements` in `TradingDayProofs`). `raced` is history: the pairs
that were inserted while another request had found them free.

### 2.4 Auth

A request is a read step, with everything decided from what it has read, and a
write step with the commit; requests interleave between the two. An answer with
an error rolls back everything the request had flushed (`get_db`). `pred`,
`root`, `loggedOut`, `proved`, `badPasswords` and `overlapped` are history
variables that the properties speak of; no action of the code reads them, with
the exception of `badPasswords`, which is capped at `MaxLoginFailures`.

### 2.5 ClientSession

Calls pass through the interceptors of `lib/api.ts`: sent with the stored token,
judged by `get_current_user`, refreshed at most once on 401, given up with a
reload of `/login`. Call `c` is request `c` of `Auth`, so the server of that
module answers it, and every step is one of `Auth` or leaves its state alone
(`ClientImplements`). The login page may be used during a session; its 401 goes
through the same interceptor. History are `alone` (one call at a time so far),
`excused` (what may legitimately end a session) and `orphaned` (the tokens that
were being traded by a page when it was unloaded: the server revokes such a
token, and the store keeps it until a refresh with it is refused).

### 2.6 BacktestRun, RunReport, BacktestSim

`BacktestRun`: a request creates rows and sends their tasks in one transaction
(`SendTask`, `CommitRequest`, `RefuseRequest`); the worker starts, fails,
retries, gives up or is killed; a poll is three steps (read the row, read the
task's status, write the row), several polls interleave, and results expire.
`self.retry` first sends the next attempt (`Retry`) and then Celery stores RETRY
(`StoreRetry`): a task killed in between is reported as failed and is tried again
all the same (`torn`, a history variable), the one case in which a row may say
FAILED of a task that succeeds.
`tasks.py:67` stores a dict where Celery expects an exception; such a status
cannot be read (`"unreadable"`), and whether the retry replaces it at once is
left open.

*Abstract specification.* `RunReport` knows of a run its row, the end of its task
and the last word of its websocket; a run is accepted with a task, the task comes
to one end, and row and websocket tell that end, once and for good, a torn task
counting as failed beside what becomes of it. `Outcome` in
`BacktestRun` maps a task to it: open until the last attempt has ended. Every
retry, stored or expired status, and read of a poll is a stutter, and so is a
second poll's write of what the row shows already. `ReportSpec` is checked, and
proved.

`BacktestSim`: `_simulate` row by row, with an arbitrary close and an arbitrary
signal for each, for the folds of SIMPLE and WALK_FORWARD. Money is exact (units
of 1/Scale and 1/Scale^2) where the code uses floats: the properties are about
the decisions and the sums, not about rounding.

### 2.7 DataCollector

Bulk load, daily run and stock list are coroutines of one process. A price job
takes its tickers in the order of `get_all_tickers`, in batches that are a
transaction each; a row it has written stays locked until the commit
(`Locked`), and the other job waits for it (`MustWait`). An error of the
database is caught for its ticker, but the transaction is then over: the other
tickers of the batch are lost with it (`Poison`). KRX is external: any ticker
may have no data or fail (`Skip`). The stock list is a transaction per market,
opened by its first row (`OpenMarket`), which a second job at the same market
waits for, and committed (`SaveMarket`) or lost with the job.

Fundamentals are collected after the prices, market by market; their table is
left out, since no job reads it. `Listed` says what KRX lists on a day, so that
a ticker may be new.

### 2.8 RealTrading

*State.* A request of a caller, or of the executor for one of its orders, is at
a place of the handler (`at`) and may be anywhere in it while others are too.
`kis` is what the broker made of its order, `rows` what this service committed
to `orders`, `hit` (history) the requests that a fault has struck. `book`,
`running` and `marks` are the executor's orders, its transaction and what it has
noted in it. A request has any integer for its value and any string for its
side: a value below zero breaks no limit, a side that is not BUY skips the checks
of a purchase, and one that is neither BUY nor SELL (`"OTHER"`) is sold by KIS
and then has no row, because the column is an enum (`InsertRow`, a fault of the
request).

*Actions.* One per await of `place_order`: the gate (`TrustedHostMiddleware`,
the key), the risk check, the daily loss, the client and its token (a client
starts with the stored one but does not know when it expires, so it always
fetches another: `KnownToken`), the order to KIS, the answer (`HearKis`) or its absence (`MissKis`), the row, its commit.
KIS decides when it likes. The process may die (`Crash`); the executor may fail
an order before it posts it (`FailUnposted`: no price, no account, no
connection), and the batch may be rolled back after orders were posted
(`RollbackBatch`).

*What the code makes of it.* The executor sends no `X-Internal-Key`
(`trading_scheduler.py:324`), which the service requires (`real-trading/app/main.py:33`), and the
name it is reached by, `real-trading`, is not among the hosts it admits
(`main.py:24` there): no order of the backend's book is traded, against what the
repository says (`SoundOrdersTraded`, run `real_book`).
No code updates cash, positions or P&L of a REAL account, so these rows are a
constant, and the limits bind an order against the rows but not several orders
together; the daily loss adds up a column that is always NULL. A crash or a
timeout after KIS has accepted leaves an order without a row, and a body that is
no JSON is answered 400 although KIS may have accepted: `RowsMatchKis` and
`AnswerTrue` say that nothing else can lead there.

## 3. The runs

| Run | Instance | What it shows |
|---|---|---|
| `sim_overlap` | 1 account of 4,000 won, 2 tickers (one held), 2 orders, 1 price, 1 failure | the jobs overlap, deadlock, crash and roll back, and still nothing goes below zero (`Solvent`), an order is filled exactly once (`ExactlyOnce`) and for good (`TerminalStatus`), and every run ends (`RunsEnd`) |
| `sim_serial` | 2 accounts of 3,000 won, 2 prices, 2 orders, 1 failure | without overlap: runs on a copy of the books (`BooksSpec`), the ledger (`LedgerSpec`), balanced books (`LedgerBalanced`), every order settles (`PendingSettles`) |
| `sim_double_spend` | 1 account, 2 prices, no failure | *violation*: with overlap the same money is spent twice (`NoDoubleSpend`) |
| `day_cycle` | 3 weekdays, 2 activation rows of 1 strategy, a foreign strategy of an unknown type, 2 requests, 1 account, 1 ticker | when an order settles (`SettledAtFirstRun`) and at which bar (`PricedAfterSignal`), when one is queued (`OneOrderPerBar`); a strategy is active once and queues one order a day, unless two activations overlapped (`OneActiveUnlessRaced`, `OneOrderPerStrategy`) |
| `day_todays_open` | 3 weekdays | *violation*: the 09:05 fill is not at today's open (`FilledAtTodaysOpen`) |
| `auth_overlap` | 1 user, 3 interchangeable tokens, 2 secrets, 2 requests | rotation and refusal of used tokens under every overlap of two requests (`Rotated`, `UsedTokenRejected`); one usable token per login (`OneLiveToken`), none after a logout (`LogoutEnds`), a second factor the user has shown (`EnabledSecretProved`), until requests overlap |
| `auth_lock` | 1 request at a time, 5 failures | *violation*: five wrong passwords do not lock (`LockedAfterFailures`) |
| `client_calls` | 2 tabs with a call each, 3 tokens | no dead token is in the store unless the page that was to replace it is gone (`StoredUsable`), calls one at a time keep the session (`SessionKept`), every call ends (`CallsEnd`) |
| `backtests` | protocol: 2 runs, 2 polls of one of them, 1 retry; simulation: 9 rows, closes 7, 10 and 16, SIMPLE and 1, 3, 4 and 10 splits | rows and messages tell what became of the task (`OutcomeTold`), a row has a task (`RowHasTask`), both for good (`ReportSpec`), results settle (`RunSettles`), retries end (`TasksEnd`); nothing is overspent (`SimTypeOK`), the balance is explained by the trades, trades pair up, stops are honoured, folds do not overlap |
| `real_trading` | a caller with the key, 2 orders of the book, 3 REAL accounts and a SIM one, 15 requests: for each limit one that hits it and one that alone breaks it, except the daily loss, which nothing can break | rows and KIS agree (`RowsMatchKis`), answers are true (`AnswerTrue`), nothing goes out that breaks a limit (`OnlyChecked`), every request ends and every order of the book settles (`RequestsEnd`) |
| `real_book` | the same, 1 order of the book | *violation*: an order of the book that breaks no limit is refused without a fault and never reaches KIS (`SoundOrdersTraded`) |
| `data_collector` | 3 tickers in 2 markets, one of them new on the second day, batches of 2, 2 days, 1 failure | what was asked for is stored (`RunComplete`), the two price jobs never wait for each other (`NoLockCycle`), every run ends |

Deadlock is checked except in `backtests`, `data_collector` and `real_trading`,
which really end: all runs are over, the last row is
simulated, the last day's jobs are done, every request is answered and every
order settled.

The types of `SimTrading`, `Auth`, `ClientSession`, `TradingDay`, `BacktestRun`,
`DataCollector` and `RealTrading` are proved (section 4), so their runs spend nothing on them.

### Bounds, and why they are enough

* *Two actors.* Races here are between two sessions: two jobs, two requests,
  two calls, two polls. A third would only repeat the role of one of the two.
* *SimTrading*: an account whose money is enough for one of two purchases (4,000
  won and prices of 2,000 plus fees; 3,000 in `sim_serial`), so that the second
  fails unless an emergency sale of the shares it holds comes first; two orders
  so that one follows another in a batch, and one failure, after which everything
  can happen again.
  The overlap needs one account; the ledger needs two, so that a fill can hit
  the wrong one.
* *TradingDay, Activation*: 3 days are an order, a missed run or a holiday, its
  fill, and a second order meanwhile. Two rows are what an overlap or a stop and
  a second activation need, two requests what overlaps; a third of either would
  play the part of one of the two.
* *Auth*: 3 tokens are one login and two rotations of it, or one rotation and
  another login. In *ClientSession* a call is made only while there is a token
  for whatever the calls in flight may yet be given (`EnoughTokens`): two
  refreshes, a login during a session, or a login beside a call after a sign-out.
* *RealTrading*: two orders of the book, so that a batch is rolled back between
  them; a caller whose request is in the handler meanwhile; the accounts are such
  that each limit is broken by an order that keeps all others.
* *BacktestRun*: one retry, so that a task fails, is tried again, and fails for
  good or not; two runs in one request, so that a later one can fail; both polls
  show the same run, the other run is one that nobody looks at. The protocol and
  the simulation share no variable and are two parts of one run (`MCBacktest`: a
  behaviour is one of the one or of the other).
* *BacktestSim*: prices fall and rise past both limits, with a purchase of more
  than one share; 9 rows divide by 3 and leave rows over for 4; 10 splits are
  more than rows; folds shorter than `MinFold` are skipped.
* *DataCollector*: 2 and, from the second day, 3 tickers in batches of 2 are a
  full and a short batch; two days, so that the bulk load spans the day on which the daily run writes.

### Fairness

* `SimTrading.FairSpec`: strong fairness of each running job. PostgreSQL grants
  a row lock in the order it was asked for, so a job that waits for a row is not
  overtaken for ever by the runs of the other job (which are restarted every
  five minutes); weak fairness of the deadlock detector. `FairSerialSpec` adds
  the cron trigger of 09:05, which fires every day.
* `ClientSession.FairClientSpec`: the server answers, and the event loop of the
  browser handles answers. Nothing makes a user act.
* `BacktestRun.FairSpec`: a worker is there; the result page asks again every
  three seconds while a run is RUNNING (`refetchInterval`), so that looking,
  learning and writing are strongly fair per run that a page shows (`Shown`); a
  run that nobody looks at need not settle. No fairness for expiry, requests or
  crashes.
* `RealTrading.FairSpec`: the event loop resumes each handler, and httpx gives
  up on KIS after 30 seconds, so that `MissKis` is always a way on; nothing is
  assumed of KIS. The executor's job comes every day (weak fairness of
  `StartBatch`), and no one step of it is the point before which every batch is
  rolled back (strong fairness of posting, hearing and committing). No fairness
  of crashes and rollbacks.
* `DataCollector.FairSpec`: the event loop resumes every coroutine. A job that
  waits for a row must not count on KRX having no data for its ticker:
  `Proceed` excludes it, so `RunsEnd` does rest on the order of the locks.

## 4. What is proved

Assumptions are those on the constants (`SimAssumption`, `DayAssumption`, ...):
sizes and types, no bound of the instances above. Every invariant is a
conjunction of named parts; each action preserves each part.

* **SimTradingProofs** (any accounts, tickers, orders, prices, fees).
  `TypeCorrect`, `SolventAlways`: from `Inv == TypeOK /\ Covered`. `Covered`
  says that no object in a session, stale or not, shows a negative balance or
  position, and that a trade in progress has its account loaded: an overwriting
  flush then writes nothing negative either. `ExactlyOnceAlways`,
  `TerminalStatusAlways`: from `Once == ExactlyOnce /\ SessionAgrees`, which
  ties the fills and marks in flight in the executor's session to the orders it
  has yet to commit.

  For the jobs that do not overlap (`SerialSpec`): `LedgerBalancedAlways`,
  `SerialNoDoubleSpend`, and the refinement `SerialImplementsBooks`. The
  balance of the committed rows says nothing of a run in progress, so the
  invariant `AllInv == Inv /\ Once /\ BooksInv` adds where the money of a
  trade is at each place of `place_sim_order`. In `BooksInv`, `CashAgrees` and
  `QtyAgrees` say that what the transaction sees of a row, and what an object
  shows, is the committed row and the sums of its fills, plus the trade in hand
  from the step that changes it on; `DealAgrees` does so for the position's
  object; `FreeRows` says that only a locked row has an uncommitted version;
  `TradesOrder` and `SellsWhole` that the executor trades what the order asks
  for and the anomaly job all there is; `Rests` that a job without a session
  holds nothing. `TradeFacts`, `TakeCash`, `TakeQty`, `StepBooks` and `EndBooks`
  carry it through the steps. Each step then maps to one of `SimBooks` or to a
  stutter (`NextImplements`).
* **TradingDayProofs** (any days, activations, tickers). `Inv` adds to the types
  that the newest bar is the last one stored (`Bars`), and for each order from
  which bar it was queued, where it settled, and that no run was between
  (`OrderInv`). From it `SettledAtFirstRunAlways`, `PricedAfterSignalAlways`,
  `OneOrderPerBarAlways`.
  For `Activation` (any rows, requests, owners), `Implements`: every step
  with the requests in front is a step of `TradingDay` or none, so its theorems
  hold here as well. `OneActiveAlways`: what a request has found free has
  got an ACTIVE row since only if two had found it free together
  (`StaleOnlyIfRaced`).
  `OneOrderAlways`: an order of today belongs to a row that was active at 15:35,
  and the hour of signals is over by the time another row could be.
* **RealTradingProofs** (any accounts, limits, callers, orders). The invariant
  says, for each place of the handler, what the request has passed: the key
  (`Gated`), the limits (`Screened`), the type of the account (`RealOnly`), and
  how its place, KIS, its row and its answer go together (`Traded`, `Sent`,
  `Filed`, `Told`). From it `RowsMatchKisAlways`, `AnswerTrueAlways`,
  `OnlyCheckedAlways`, `TypeCorrect`.
* **AuthProofs** (any users, tokens, requests). `RotatedAlways`,
  `UsedTokenRejectedAlways`, `EnabledHasSecretAlways` under every overlap (two
  refreshes of one token that overlap may both answer with a successor: no
  theorem says otherwise); `OneLiveTokenAlways`, `LogoutEndsAlways`, `EnabledSecretProvedAlways` until
  requests overlap, from an invariant that says what the one request in
  flight has read is still so.
* **ClientSessionProofs** (any tabs, tokens, users; it extends `AuthProofs`).
  `ClientImplements`: a step of browser and server is a step of `Auth` or leaves
  its state alone, so `Rotated` and `UsedTokenRejected` hold of the requests a
  browser sends (`ClientTokensAlways`). `StoredUsableAlways` (whatever overlaps;
  the only exception is a token in `orphaned`) and `SessionKeptAlways`: from `ClientInv`, which adds to `Auth`'s invariant what
  the server knows of the tokens and requests of the browser (`ServerSide`) and
  what a call and its request agree on at each place of the interceptor, with
  the store and the pair on its way (`BrowserSide`). `ClientTypeCorrect`.
* **BacktestRunProofs** (any runs, polls, retries). `OutcomeToldAlways` and
  `RowHasTaskAlways`: the stored status is that of the task (`OutcomeStored`),
  and what a poll carries in its hands was final when it was read
  (`OutcomeRead`), a torn task excepted in each. `ImplementsReport`: with that, and with rows that are there
  before a poll and not before the commit (`RowsFollow`), each step is one of
  `RunReport` or a stutter.
* **BacktestSimProofs** (any prices, percentages, rows, splits).
  `TypeCorrect` - nothing is ever overspent -, `BalanceExplainedAlways`,
  `StopHonouredAlways`, `TradesPairedAlways`, `FoldsInOrderAlways`.
* **DataCollectorProofs** (any tickers, batch size, days, failures).
  `RunCompleteAlways`: a ticker that was read is left, in the open batch, lost
  or stored (`Accounted`). `NoLockCycleAlways`: the tickers of an open batch
  come before those that are left (`Ordered`), so two jobs waiting for each
  other would need `t < u` and `u < t`. `TypeCorrect`.

**Only model-checked.** Everything under fairness (`RunsEnd`, `PendingSettles`,
`CallsEnd`, `RunSettles`, `TasksEnd`, `RequestsEnd`): liveness and ENABLED are
out of the prover's reach. The refinement `LedgerSpec`, whose sums over sets of
fills need an induction over them; `SimBooks`, which takes the fills one by one,
is the promise that can be proved for every number of orders. Every invariant
and every other action property of a run is a theorem.

## 5. What the runs found

| Run | The code says | It does |
|---|---|---|
| `sim_double_spend` | `kis_service.py:29` "Lock the account row to prevent concurrent double-spend" | only a BUY locks, and the lock does not refresh the object; an emergency sell writes back a balance read before another job's purchase |
| `day_todays_open` | `trading_scheduler.py:259` "at today's open price" | at 09:05 the newest bar is that of the previous stored day |
| `real_book` | `trading_scheduler.py:261` "For REAL: call real-trading service", `config.py:27` "Inter-service auth (backend ↔ real-trading)", `src/README.md:348`, `test_scheduler_full.py:323` | the POST carries no `X-Internal-Key` and a host name the service does not admit: every REAL order of the book is answered 403 or 400 and ends FAILED |
| `auth_lock` | `test_auth_flow.py:87` five consecutive failures lock the account | the count is rolled back with the error answer that reports the failure; the test overrides `get_db` with one that does not roll back |

## 6. What is not modelled

* Arithmetic of indicators, order sizes, metrics and equity curves: floating
  point without decisions of its own; signals are arbitrary instead.
* Average prices and P&L of positions; no step of the jobs depends on them.
* Wall-clock time. Hours are an order of steps, expiry is an event; the
  websocket's ten-minute wait and the collector's rate limits are left out.
* More than one backend process: the deployment runs one.
* A list of tickers that names one twice: `schemas/trading.py:8` does not forbid
  it, and the activation then queues an order for each time. Tickers are a set in
  `TradingDay`, so its properties say nothing of such an activation.
* Read-only and write-only parts (market API, audit, analytics, Slack, pages).
* Collector: the rows of `stock_fundamentals`, which no job reads.
* Real trading: `/real/trading/activate` and `/real/ws`, which echo their input;
  `get_current_price` (no caller); the job of 08:30 that stores tokens, whose
  outcome is any stored token here, since a new client never uses one; which
  day a row belongs to (the daily loss, whose sum is of NULLs).
* Backtests: `_run_optimize`, which repeats a SIMPLE run per combination and
  compares floating-point ratios; the custom-code task and its container, which
  nothing sends.
* The socket class `lib/websocket.ts` of the frontend: it has no caller.
* The legacy engines under `src/src`: loops that are started by hand and share
  neither database nor process with the rest.
* Creation of accounts and strategies, which are constants of the modules.

## 7. Plan

Done: SimTrading, SimBooks, SimLedger, TradingDay, Activation, Auth,
ClientSession, BacktestRun, RunReport, BacktestSim, DataCollector, RealTrading, each with
its proofs.

What is left, in the order of importance:

1. Theorems: what of `LedgerBalanced` survives the overlap of the two jobs; the
   promise of the collector, of the real trading service and of the login as
   abstract specifications, and the proofs that they are kept.
2. The promise of `scheduler.py:59`, that a failed bulk load is tried again, as
   a property that `DataCollector` violates.
3. `RealTrading` and `SimTrading` in one batch: an error of one branch rolls
   back the other's orders.
4. The legacy strategies' capital and holdings across restarts.
