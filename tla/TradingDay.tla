----------------------------- MODULE TradingDay -----------------------------
(***************************************************************************)
(* The daily cycle of three cron jobs in two processes:                    *)
(*                                                                         *)
(*   09:05  execute_pending_orders             backend                     *)
(*   15:35  generate_signals_and_queue_orders  backend                     *)
(*   16:00  collect_daily_update               data collector              *)
(*                                                                         *)
(* Days are weekdays.  Each job is one step of this module: what happens   *)
(* inside execute_pending_orders is the matter of SimTrading.  A job whose *)
(* minute passes while its process is down, or whose transaction is lost,  *)
(* is missed: the schedulers keep their jobs in memory and make nothing up *)
(* on the next start.  A market holiday is a weekday without bars.         *)
(*                                                                         *)
(* Sides, quantities and prices are left out: a bar is its date, and an    *)
(* order remembers the bar its signal was computed from and the bar whose  *)
(* open it was filled at.  An activation names each of its tickers once:   *)
(* the request's list may repeat one, and would then be given an order for *)
(* each time it does.                                                      *)
(***************************************************************************)
EXTENDS Integers

CONSTANTS
    Activations,   \* rows of table strategy_activations
    Strategies, StrategyOf,   \* the strategy of an activation
    Known,         \* strategies of a type that _generate_signal_simple knows
    Accounts, AccountOf,      \* the account it trades on
    Tickers,
    LastDay        \* bound: the weekdays considered are 1..LastDay

ASSUME DayAssumption ==
    /\ StrategyOf \in [Activations -> Strategies]
    /\ Known \subseteq Strategies
    /\ AccountOf \in [Activations -> Accounts]
    /\ LastDay \in Nat

Days == 1..LastDay
History == 0       \* the last bar of the initial bulk load
BarDates == Days \cup {History}
NotYet == 0        \* filled on no day, priced at no bar

VARIABLES
    day, due,        \* today, and the job whose hour comes next
    bars,            \* price_daily since day 1: the dates with a bar, per ticker
    lastBar,         \* per ticker: SELECT ... ORDER BY date DESC LIMIT 1
    signal,          \* whether a strategy wants to trade a ticker
    activation,      \* strategy_activations.status
    closed,          \* accounts with is_active = false
    orders,          \* the rows of table orders that the signal job queued
    missed           \* days without a committed run of the executor

vars == <<day, due, bars, lastBar, signal, activation, closed, orders, missed>>

(* What _generate_signal_simple may say of pairs of a strategy and a       *)
(* ticker: nothing of a type other than MA_CROSS, RSI, MACD and BOLLINGER, *)
(* although strategies of the other five types can be activated as well.   *)
Views(pairs) == {f \in [pairs -> BOOLEAN] : \A p \in pairs : f[p] => p[1] \in Known}

OrderRows ==
    [activation : Activations, ticker : Tickers,
     queued : Days, signalBar : BarDates,
     status : {"PENDING", "FILLED", "FAILED"},
     settled : Days \cup {NotYet}, priceBar : BarDates]

TypeOK ==
    /\ day \in Days \cup {LastDay + 1}
    /\ due \in {"execute", "signal", "collect"}
    /\ bars \in [Tickers -> SUBSET Days]
    /\ lastBar \in [Tickers -> BarDates]
    /\ signal \in Views(Strategies \X Tickers)
    /\ activation \in [Activations -> {"NONE", "ACTIVE", "STOPPED"}]
    /\ closed \subseteq Accounts
    /\ orders \subseteq OrderRows
    /\ missed \subseteq Days

Init ==
    /\ day = 1 /\ due = "execute"
    /\ bars = [t \in Tickers |-> {}]
    /\ lastBar = [t \in Tickers |-> History]
    /\ signal \in Views(Strategies \X Tickers)
    /\ activation = [a \in Activations |-> "NONE"]
    /\ closed = {} /\ orders = {} /\ missed = {}
-----------------------------------------------------------------------------
(* Requests of users, at any hour.  A new row of strategy_activations; a   *)
(* stopped activation is never started again.  Module Activation tells     *)
(* which requests get that far.                                            *)
Activate(a) ==
    /\ day \in Days
    /\ activation[a] = "NONE"
    /\ activation' = [activation EXCEPT ![a] = "ACTIVE"]
    /\ UNCHANGED <<day, due, bars, lastBar, signal, closed, orders, missed>>

Stop(a) ==
    /\ day \in Days
    /\ activation[a] = "ACTIVE"
    /\ activation' = [activation EXCEPT ![a] = "STOPPED"]
    /\ UNCHANGED <<day, due, bars, lastBar, signal, closed, orders, missed>>

(* PUT /strategies: other parameters, other signals.  DELETE /strategies   *)
(* clears is_active, which neither the jobs nor activate_strategy look at. *)
UpdateStrategy(s) ==
    /\ day \in Days
    /\ \E view \in Views({s} \X Tickers) :
         signal' = [p \in Strategies \X Tickers |-> IF p[1] = s THEN view[p] ELSE signal[p]]
    /\ UNCHANGED <<day, due, bars, lastBar, activation, closed, orders, missed>>

CloseAccount(c) ==
    /\ day \in Days
    /\ c \notin closed
    /\ closed' = closed \cup {c}
    /\ UNCHANGED <<day, due, bars, lastBar, signal, activation, orders, missed>>
-----------------------------------------------------------------------------
Pending == {o \in orders : o.status = "PENDING"}

(* An order o as it leaves the run of today.  Mutant: filled at the price  *)
(* the signal was computed from (orders.price).                            *)
Settled(o, status, bar) ==
    [activation |-> o.activation, ticker |-> o.ticker, queued |-> o.queued,
     signalBar |-> o.signalBar, status |-> status, settled |-> day, priceBar |-> bar]
FilledAtSignal(o) == Settled(o, "FILLED", o.signalBar)
Filled(o) == Settled(o, "FILLED", lastBar[o.ticker])
Failed(o) == Settled(o, "FAILED", NotYet)

(* Mutant: only the orders queued on the day before are selected.          *)
DueYesterday == {o \in Pending : o.queued = day - 1}
DueOrders == Pending

(* 09:05: every PENDING order, of whichever day, is filled at the open of  *)
(* the last stored bar, or FAILED.  Neither the activation's status nor    *)
(* the account's is_active is looked at.                                   *)
Execute ==
    /\ day \in Days /\ due = "execute"
    /\ \E filled \in SUBSET DueOrders :
         orders' = (orders \ DueOrders) \cup {Filled(o) : o \in filled}
                                        \cup {Failed(o) : o \in DueOrders \ filled}
    /\ due' = "signal"
    /\ UNCHANGED <<day, bars, lastBar, signal, activation, closed, missed>>

MissExecute ==
    /\ day \in Days /\ due = "execute"
    /\ missed' = missed \cup {day}
    /\ due' = "signal"
    /\ UNCHANGED <<day, bars, lastBar, signal, activation, closed, orders>>
-----------------------------------------------------------------------------
(* The (activation, ticker) pairs that signal.  Mutant: every activation   *)
(* that was ever started is considered.                                    *)
SignallingEver == {p \in Activations \X Tickers :
    /\ activation[p[1]] # "NONE" /\ AccountOf[p[1]] \notin closed
    /\ signal[<<StrategyOf[p[1]], p[2]>>]}
Signalling == {p \in Activations \X Tickers :
    /\ activation[p[1]] = "ACTIVE" /\ AccountOf[p[1]] \notin closed
    /\ signal[<<StrategyOf[p[1]], p[2]>>]}

(* Mutant: the signal is computed from the bars up to the one before.      *)
QueuedFromOlder(p) ==
    [activation |-> p[1], ticker |-> p[2], queued |-> day,
     signalBar |-> IF lastBar[p[2]] = History THEN History ELSE lastBar[p[2]] - 1,
     status |-> "PENDING", settled |-> NotYet, priceBar |-> NotYet]
Queued(p) ==
    [activation |-> p[1], ticker |-> p[2], queued |-> day,
     signalBar |-> lastBar[p[2]], status |-> "PENDING", settled |-> NotYet,
     priceBar |-> NotYet]

(* 15:35: a signal becomes an order, unless the balance buys no share, the *)
(* position to sell does not exist, or the activation raises.  Queuing no  *)
(* order at all is also what a missed run looks like.                      *)
GenerateSignals ==
    /\ day \in Days /\ due = "signal"
    /\ \E pairs \in SUBSET Signalling :
         orders' = orders \cup {Queued(p) : p \in pairs}
    /\ due' = "collect"
    /\ UNCHANGED <<day, bars, lastBar, signal, activation, closed, missed>>
-----------------------------------------------------------------------------
(* 16:00: today's bar of each ticker is stored, or not: a holiday, a fetch *)
(* that failed, a batch that was lost, a collector that was down.  Earlier *)
(* days are never asked for again.  A strategy may change its mind about a *)
(* ticker when there is a new bar, and only then.                          *)
CollectDailyUpdate ==
    /\ day \in Days /\ due = "collect"
    /\ \E stored \in SUBSET Tickers :
         /\ bars' = [t \in Tickers |-> IF t \in stored THEN bars[t] \cup {day} ELSE bars[t]]
         /\ lastBar' = [t \in Tickers |-> IF t \in stored THEN day ELSE lastBar[t]]
         /\ \E view \in Views(Strategies \X stored) :
              signal' = [p \in Strategies \X Tickers |->
                            IF p[2] \in stored THEN view[p] ELSE signal[p]]
    /\ day' = day + 1
    /\ due' = "execute"
    /\ UNCHANGED <<activation, closed, orders, missed>>

(* The bound is reached. *)
NoMoreDays == day = LastDay + 1 /\ UNCHANGED vars

Next ==
    \/ \E a \in Activations : Activate(a) \/ Stop(a)
    \/ \E s \in Strategies : UpdateStrategy(s)
    \/ \E c \in Accounts : CloseAccount(c)
    \/ Execute
    \/ MissExecute
    \/ GenerateSignals
    \/ CollectDailyUpdate
    \/ NoMoreDays

Spec == Init /\ [][Next]_vars
-----------------------------------------------------------------------------
(* T+1: an order settles on the first later day on which the executor runs *)
(* (trading_scheduler.py, "Create pending orders for T+1 execution").      *)
SettledAtFirstRun ==
    \A o \in orders : \A d \in Days :
        o.queued < d /\ d < (IF o.status = "PENDING" THEN day ELSE o.settled) => d \in missed

(* An order is never filled at a bar older than the one its signal was     *)
(* computed from; at that same bar only when no later one was stored       *)
(* between signal and fill (holiday, collector down).                      *)
PricedAfterSignal ==
    \A o \in orders : o.status = "FILLED" =>
        /\ o.queued < o.settled
        /\ o.priceBar >= o.signalBar
        /\ o.priceBar = o.signalBar =>
             \A d \in bars[o.ticker] : ~(o.queued <= d /\ d < o.settled)

(* One bar makes an activation queue at most one order for a ticker,       *)
(* except on consecutive days without a new bar: last_signal_date is       *)
(* written but never read, so on such days the old signal is taken again.  *)
OneOrderPerBar ==
    \A o, p \in orders :
        o.activation = p.activation /\ o.ticker = p.ticker
          /\ o.signalBar = p.signalBar /\ o.queued < p.queued =>
        \A d \in bars[o.ticker] : ~(o.queued <= d /\ d < p.queued)

(* "Execute all PENDING orders at today's open price."                     *)
FilledAtTodaysOpen == \A o \in orders : o.status = "FILLED" => o.priceBar = o.settled
=============================================================================
