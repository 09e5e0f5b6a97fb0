-------------------------- MODULE TradingDayProofs --------------------------
(***************************************************************************)
(* Theorems about TradingDay, for every number of activations, tickers and *)
(* days.  One inductive invariant carries all of them: what is known of    *)
(* the stored bars (Bars), of when an order was queued and from what       *)
(* (QueuedFrom), of when and at what it was settled (SettledAt), and of    *)
(* the executor runs in between (NoRunBetween).                            *)
(*                                                                         *)
(* The second part is about Activation, for any number of rows and of      *)
(* overlapping requests.  It implements TradingDay, whose invariant        *)
(* therefore holds there; what is added is that a request which goes by an *)
(* outdated lookup has been raced.                                         *)
(***************************************************************************)
EXTENDS Activation, TLAPS

Bars ==
    \A t \in Tickers :
        /\ lastBar[t] < day
        /\ \A d \in bars[t] : d <= lastBar[t]

(* The signal came from the last bar there was, and today's orders appear  *)
(* after the executor's hour.                                              *)
QueuedFrom(o) ==
    /\ o.queued <= day
    /\ o.queued = day => due = "collect"
    /\ o.signalBar < o.queued
    /\ o.signalBar <= lastBar[o.ticker]
    /\ \A d \in bars[o.ticker] : d <= o.signalBar \/ d >= o.queued

SettledAt(o) ==
    o.status # "PENDING" =>
        /\ o.queued < o.settled /\ o.settled <= day
        /\ o.settled = day => due # "execute"
        /\ o.status = "FILLED" =>
             /\ o.priceBar >= o.signalBar
             /\ \A d \in bars[o.ticker] : d <= o.priceBar \/ d >= o.settled

NoRunBetween(o) ==
    \A d \in Days :
        /\ o.queued < d
        /\ IF o.status = "PENDING" THEN d < day \/ (d = day /\ due # "execute")
           ELSE d < o.settled
        => d \in missed

OrderInv(o) ==
    QueuedFrom(o) /\ SettledAt(o) /\ NoRunBetween(o)

Inv == TypeOK /\ Bars /\ \A o \in orders : OrderInv(o)
-----------------------------------------------------------------------------
LEMMA InitInv == Init => Inv
<1> SUFFICES ASSUME Init PROVE Inv
  OBVIOUS
<1>1. TypeOK
  BY DayAssumption DEF Init, TypeOK, Days, BarDates, History, NotYet
<1>2. Bars
  BY DEF Init, Bars, History
<1>3. QED
  BY <1>1, <1>2 DEF Init, Inv

(* An order of the table is a row. *)
LEMMA RowType ==
    ASSUME NEW o \in OrderRows
    PROVE  /\ o.activation \in Activations /\ o.ticker \in Tickers
           /\ o.queued \in Days /\ o.signalBar \in BarDates
           /\ o.status \in {"PENDING", "FILLED", "FAILED"}
           /\ o.settled \in Days \cup {NotYet} /\ o.priceBar \in BarDates
           /\ o.queued \in Int /\ o.signalBar \in Int
           /\ o.settled \in Int /\ o.priceBar \in Int
BY DayAssumption DEF OrderRows, Days, BarDates, History, NotYet

(* Requests of users touch no order.                                       *)
LEMMA RequestInv ==
    ASSUME Inv, NEW a \in Activations, Activate(a) \/ Stop(a)
    PROVE  Inv'
<1> USE DayAssumption
<1>1. TypeOK'
  BY DEF Inv, TypeOK, Activate, Stop
<1>2. Bars'
  BY DEF Inv, Bars, Activate, Stop
<1>3. ASSUME NEW o \in orders' PROVE OrderInv(o)'
  <2>1. o \in orders /\ OrderInv(o) /\ o \in OrderRows
    BY <1>3 DEF Inv, TypeOK, Activate, Stop
  <2>2. QueuedFrom(o)' /\ SettledAt(o)' /\ NoRunBetween(o)'
    BY <2>1 DEF OrderInv, QueuedFrom, SettledAt, NoRunBetween, Activate, Stop
  <2>3. QED
    BY <2>2 DEF OrderInv
<1>4. QED
  BY <1>1, <1>2, <1>3 DEF Inv

LEMMA UpdateInv ==
    ASSUME Inv, NEW s \in Strategies, UpdateStrategy(s)
    PROVE  Inv'
<1>1. TypeOK'
  BY DEF Inv, TypeOK, Views, UpdateStrategy
<1>2. QED
  BY <1>1 DEF Inv, Bars, OrderInv, QueuedFrom, SettledAt, NoRunBetween, UpdateStrategy

LEMMA CloseInv ==
    ASSUME Inv, NEW c \in Accounts, CloseAccount(c)
    PROVE  Inv'
<1>1. TypeOK'
  BY DEF Inv, TypeOK, CloseAccount
<1>2. QED
  BY <1>1 DEF Inv, Bars, OrderInv, QueuedFrom, SettledAt, NoRunBetween,
      CloseAccount
-----------------------------------------------------------------------------
(* The executor: no order queued today is there yet, so every order it     *)
(* settles was queued on an earlier day.                                   *)
LEMMA ExecuteInv ==
    ASSUME Inv, Execute
    PROVE  Inv'
<1> USE DayAssumption
<1>1. PICK filled \in SUBSET DueOrders :
        orders' = (orders \ DueOrders) \cup {Filled(o) : o \in filled}
                                       \cup {Failed(o) : o \in DueOrders \ filled}
  BY DEF Execute
<1>2. day \in Days /\ day \in Int /\ due = "execute" /\ due' = "signal" /\ day' = day
      /\ UNCHANGED <<bars, lastBar, signal, activation, closed, missed>>
  BY DEF Execute, Days
<1>3. \A o \in orders : o \in OrderRows /\ OrderInv(o)
  BY DEF Inv, TypeOK
<1>4. ASSUME NEW o \in orders, o.status = "PENDING", NEW s \in {Filled(o), Failed(o)}
      PROVE  s \in OrderRows /\ OrderInv(s)'
  <2>1. o \in OrderRows /\ QueuedFrom(o) /\ NoRunBetween(o)
    BY <1>3, <1>4 DEF OrderInv
  <2>2. lastBar[o.ticker] \in BarDates /\ lastBar[o.ticker] \in Int
        /\ \A d \in bars[o.ticker] : d \in Int /\ d <= lastBar[o.ticker]
    BY <2>1, RowType DEF Inv, TypeOK, Bars, BarDates, Days, History
  <2>3. o.queued < day /\ o.queued \in Int /\ o.signalBar \in Int
    BY <1>2, <2>1, RowType DEF QueuedFrom
  <2>4. Filled(o) \in OrderRows /\ Failed(o) \in OrderRows
    BY <1>2, <2>1, <2>2, RowType
    DEF Filled, Failed, Settled, OrderRows, BarDates, NotYet, History
  <2>5. /\ s.activation = o.activation /\ s.ticker = o.ticker /\ s.queued = o.queued
        /\ s.signalBar = o.signalBar /\ s.settled = day
        /\ s.status \in {"FILLED", "FAILED"}
        /\ s.status = "FILLED" => s.priceBar = lastBar[o.ticker]
    BY <1>4 DEF Filled, Failed, Settled
  <2>6. QueuedFrom(s)'
    BY <1>2, <2>1, <2>3, <2>5 DEF QueuedFrom
  <2>7. SettledAt(s)'
    BY <1>2, <2>1, <2>2, <2>3, <2>5 DEF SettledAt, QueuedFrom
  <2>8. NoRunBetween(s)'
    BY <1>2, <1>4, <2>1, <2>3, <2>5 DEF NoRunBetween, Days
  <2>9. QED
    BY <1>4, <2>4, <2>6, <2>7, <2>8 DEF OrderInv
<1>5. ASSUME NEW o \in orders, o \notin DueOrders
      PROVE  OrderInv(o)'
  <2>1. o \in OrderRows /\ OrderInv(o) /\ o.status # "PENDING"
    BY <1>3, <1>5 DEF DueOrders, Pending
  <2>2. QED
    BY <1>2, <2>1, RowType
    DEF OrderInv, QueuedFrom, SettledAt, NoRunBetween
<1>6. TypeOK'
  <2>1. orders' \subseteq OrderRows
    BY <1>1, <1>3, <1>4 DEF DueOrders, Pending
  <2>2. QED
    BY <1>2, <2>1 DEF Inv, TypeOK
<1>7. Bars'
  BY <1>2 DEF Inv, Bars
<1>8. ASSUME NEW s \in orders' PROVE OrderInv(s)'
  <2>1. s \in orders \ DueOrders
        \/ \E o \in orders : o.status = "PENDING" /\ s \in {Filled(o), Failed(o)}
    BY <1>1, <1>8 DEF DueOrders, Pending
  <2>2. QED
    BY <1>4, <1>5, <2>1
<1>9. QED
  BY <1>6, <1>7, <1>8 DEF Inv

LEMMA MissExecuteInv ==
    ASSUME Inv, MissExecute
    PROVE  Inv'
<1> USE DayAssumption
<1>1. TypeOK'
  BY DEF Inv, TypeOK, MissExecute
<1>2. Bars'
  BY DEF Inv, Bars, MissExecute
<1>3. ASSUME NEW o \in orders PROVE OrderInv(o)'
  <2>1. OrderInv(o) /\ o \in OrderRows /\ day \in Int
    BY <1>3 DEF Inv, TypeOK, Days
  <2>2. QueuedFrom(o)' /\ SettledAt(o)'
    BY <2>1, RowType DEF OrderInv, QueuedFrom, SettledAt, MissExecute
  <2>3. NoRunBetween(o)'
    BY <2>1, RowType DEF OrderInv, NoRunBetween, MissExecute, Days
  <2>4. QED
    BY <2>2, <2>3 DEF OrderInv
<1>4. QED
  BY <1>1, <1>2, <1>3 DEF Inv, MissExecute
-----------------------------------------------------------------------------
(* The signal job: a new order stems from the last bar, and a stopped      *)
(* activation has none.                                                    *)
LEMMA GenerateInv ==
    ASSUME Inv, GenerateSignals
    PROVE  Inv'
<1> USE DayAssumption
<1>1. PICK pairs \in SUBSET Signalling : orders' = orders \cup {Queued(p) : p \in pairs}
  BY DEF GenerateSignals
<1>2. day \in Days /\ day \in Int /\ due = "signal" /\ due' = "collect" /\ day' = day
      /\ UNCHANGED <<bars, lastBar, signal, activation, closed, missed>>
  BY DEF GenerateSignals, Days
<1>3. ASSUME NEW p \in pairs, NEW q, q = Queued(p) PROVE q \in OrderRows /\ OrderInv(q)'
  <2>1. p[1] \in Activations /\ p[2] \in Tickers /\ activation[p[1]] = "ACTIVE"
    BY DEF Signalling
  <2>2. lastBar[p[2]] \in BarDates /\ lastBar[p[2]] \in Int /\ lastBar[p[2]] < day
        /\ \A d \in bars[p[2]] : d \in Int /\ d <= lastBar[p[2]]
    BY <2>1 DEF Inv, TypeOK, Bars, BarDates, Days, History
  <2>3. q \in OrderRows
    BY <1>2, <1>3, <2>1, <2>2 DEF Queued, OrderRows, BarDates, NotYet, History
  <2>4. OrderInv(q)'
    BY <1>2, <1>3, <2>1, <2>2
    DEF Queued, OrderInv, QueuedFrom, SettledAt, NoRunBetween, Days
  <2>5. QED
    BY <2>3, <2>4
<1>4. ASSUME NEW o \in orders PROVE o \in OrderRows /\ OrderInv(o)'
  <2>1. OrderInv(o) /\ o \in OrderRows
    BY <1>4 DEF Inv, TypeOK
  <2>2. QED
    BY <1>2, <2>1, RowType
    DEF OrderInv, QueuedFrom, SettledAt, NoRunBetween
<1>5. TypeOK'
  <2>1. orders' \subseteq OrderRows
    BY <1>1, <1>3, <1>4
  <2>2. QED
    BY <1>2, <2>1 DEF Inv, TypeOK
<1>6. Bars'
  BY <1>2 DEF Inv, Bars
<1>7. QED
  BY <1>1, <1>3, <1>4, <1>5, <1>6 DEF Inv

(* The collector: a new bar is today's, so it is after every signal and    *)
(* not before any settlement.                                              *)
LEMMA CollectInv ==
    ASSUME Inv, CollectDailyUpdate
    PROVE  Inv'
<1> USE DayAssumption
<1>1. PICK stored \in SUBSET Tickers :
        /\ bars' = [t \in Tickers |-> IF t \in stored THEN bars[t] \cup {day} ELSE bars[t]]
        /\ lastBar' = [t \in Tickers |-> IF t \in stored THEN day ELSE lastBar[t]]
        /\ \E view \in Views(Strategies \X stored) :
             signal' = [p \in Strategies \X Tickers |->
                           IF p[2] \in stored THEN view[p] ELSE signal[p]]
  BY DEF CollectDailyUpdate
<1>2. day \in Days /\ day \in Int /\ due = "collect" /\ day' = day + 1 /\ due' = "execute"
      /\ UNCHANGED <<activation, closed, orders, missed>>
  BY DEF CollectDailyUpdate, Days
<1>3. TypeOK'
  <2>1. signal' \in Views(Strategies \X Tickers)
    BY <1>1 DEF Inv, TypeOK, Views
  <2>2. day' \in Days \cup {LastDay + 1}
    BY <1>2 DEF Days
  <2>3. bars' \in [Tickers -> SUBSET Days] /\ lastBar' \in [Tickers -> BarDates]
    BY <1>1, <1>2 DEF Inv, TypeOK, BarDates
  <2>4. QED
    BY <1>2, <2>1, <2>2, <2>3 DEF Inv, TypeOK
<1>4. \A t \in Tickers : /\ lastBar[t] \in Int /\ lastBar[t] < day
                         /\ \A d \in bars[t] : d \in Int /\ d <= lastBar[t]
  BY DEF Inv, TypeOK, Bars, BarDates, Days, History
<1>5. Bars'
  BY <1>1, <1>2, <1>4 DEF Bars
<1>6. ASSUME NEW o \in orders PROVE OrderInv(o)'
  <2>1. OrderInv(o) /\ o \in OrderRows
    BY <1>6 DEF Inv, TypeOK
  <2>2. QueuedFrom(o)'
    BY <1>1, <1>2, <1>4, <2>1, RowType DEF OrderInv, QueuedFrom
  <2>3. SettledAt(o)'
    BY <1>1, <1>2, <2>1, RowType DEF OrderInv, SettledAt
  <2>4. NoRunBetween(o)'
    BY <1>2, <2>1, RowType DEF OrderInv, NoRunBetween, Days
  <2>5. QED
    BY <2>2, <2>3, <2>4 DEF OrderInv
<1>7. QED
  BY <1>2, <1>3, <1>5, <1>6 DEF Inv
-----------------------------------------------------------------------------
LEMMA StutterInv == Inv /\ UNCHANGED vars => Inv'
BY DEF Inv, TypeOK, Bars, OrderInv, QueuedFrom, SettledAt, NoRunBetween, vars

LEMMA NextInv == Inv /\ [Next]_vars => Inv'
BY RequestInv, UpdateInv, CloseInv, ExecuteInv, MissExecuteInv, GenerateInv, CollectInv, StutterInv
DEF Next, NoMoreDays

(* The invariant holds in every behaviour. *)
THEOREM InvAlways == Spec => []Inv
BY InitInv, NextInv, PTL DEF Spec

(* Every variable of the daily cycle keeps its type; in particular only a  *)
(* strategy of a type that _generate_signal_simple knows ever signals.     *)
THEOREM TypeCorrect == Spec => []TypeOK
BY InvAlways, PTL DEF Inv

(* T+1, whatever runs of the executor are missed. *)
THEOREM SettledAtFirstRunAlways == Spec => []SettledAtFirstRun
<1>1. Inv => SettledAtFirstRun
  BY DEF Inv, OrderInv, NoRunBetween, SettledAtFirstRun, TypeOK, Days
<1>2. QED
  BY <1>1, InvAlways, PTL

(* No fill at a bar older than the signal's, none at the signal's own bar  *)
(* unless no later bar was stored.                                         *)
THEOREM PricedAfterSignalAlways == Spec => []PricedAfterSignal
<1>1. Inv => PricedAfterSignal
  <2> SUFFICES ASSUME Inv, NEW o \in orders, o.status = "FILLED"
               PROVE  /\ o.queued < o.settled
                      /\ o.priceBar >= o.signalBar
                      /\ o.priceBar = o.signalBar =>
                           \A d \in bars[o.ticker] : ~(o.queued <= d /\ d < o.settled)
    BY DEF PricedAfterSignal
  <2>1. o \in OrderRows /\ QueuedFrom(o) /\ SettledAt(o)
    BY DEF Inv, OrderInv, TypeOK
  <2>2. \A d \in bars[o.ticker] : d \in Int
    BY <2>1, RowType DEF Inv, TypeOK, Days
  <2>3. QED
    BY <2>1, <2>2, RowType DEF QueuedFrom, SettledAt
<1>2. QED
  BY <1>1, InvAlways, PTL

(* One bar, one order, except over days without a bar. *)
THEOREM OneOrderPerBarAlways == Spec => []OneOrderPerBar
<1>1. Inv => OneOrderPerBar
  <2> SUFFICES ASSUME Inv, NEW o \in orders, NEW p \in orders, o.ticker = p.ticker,
                      o.signalBar = p.signalBar, o.queued < p.queued,
                      NEW d \in bars[o.ticker]
               PROVE  ~(o.queued <= d /\ d < p.queued)
    BY DEF OneOrderPerBar
  <2>1. o \in OrderRows /\ p \in OrderRows /\ QueuedFrom(o) /\ QueuedFrom(p)
    BY DEF Inv, OrderInv, TypeOK
  <2>2. d \in Int
    BY <2>1, RowType DEF Inv, TypeOK, Days
  <2>3. QED
    BY <2>1, <2>2, RowType DEF QueuedFrom
<1>2. QED
  BY <1>1, InvAlways, PTL
-----------------------------------------------------------------------------
(* A pair that a request has found free and that is not free any more. *)
StaleOnlyIfRaced ==
    \A r \in Requests : checked[r] # NoPair /\ ActiveRows(checked[r]) # {}
                        => checked[r] \in raced

RowsInv == RequestsOK /\ StaleOnlyIfRaced /\ OneActiveUnlessRaced

(* Every step of the composition is one of the daily cycle, or leaves it.  *)
LEMMA StepImplements == [ActivationNext]_allVars => [Next]_vars
BY DEF ActivationNext, allVars, Next, Request, CheckActive, Insert, Drop, vars

(* Activation implements TradingDay. *)
THEOREM Implements == ActivationSpec => Spec
<1>1. ActivationInit => Init
  BY DEF ActivationInit
<1>2. QED
  BY <1>1, StepImplements, PTL DEF ActivationSpec, Spec
-----------------------------------------------------------------------------
LEMMA CheckRows ==
    ASSUME TypeOK, RowsInv, NEW r \in Requests, NEW p \in Pairs, CheckActive(r, p)
    PROVE  RowsInv'
<1>1. RequestsOK'
  BY DEF RowsInv, RequestsOK, CheckActive
<1>2. StaleOnlyIfRaced'
  BY DEF RowsInv, RequestsOK, StaleOnlyIfRaced, CheckActive, ActiveRows, PairOf, vars
<1>3. OneActiveUnlessRaced'
  BY DEF RowsInv, OneActiveUnlessRaced, CheckActive, PairOf, vars
<1>4. QED
  BY <1>1, <1>2, <1>3 DEF RowsInv

(* The inserted row is the pair's only one, or the lookup was outdated; and *)
(* the lookups that are outdated by it are those of requests it races.      *)
LEMMA InsertRows ==
    ASSUME TypeOK, RowsInv, NEW r \in Requests, Insert(r)
    PROVE  RowsInv'
<1>1. PICK a \in Activations : PairOf(a) = checked[r] /\ Activate(a)
  BY DEF Insert
<1>2. activation' = [activation EXCEPT ![a] = "ACTIVE"]
      /\ activation \in [Activations -> {"NONE", "ACTIVE", "STOPPED"}]
  BY <1>1 DEF Activate, TypeOK
<1>3. /\ checked[r] # NoPair /\ checked[r] \in Pairs
      /\ checked \in [Requests -> Pairs \cup {NoPair}] /\ raced \subseteq Pairs
      /\ checked' = [checked EXCEPT ![r] = NoPair]
      /\ raced' = raced \cup {p \in {checked[r]} : \E q \in Requests \ {r} : checked[q] = p}
  BY DEF Insert, RowsInv, RequestsOK
<1>4. RequestsOK'
  BY <1>3 DEF RequestsOK
<1>5. \A b \in Activations : activation'[b] = "ACTIVE" => b = a \/ activation[b] = "ACTIVE"
  BY <1>2
<1>6. ASSUME NEW q \in Requests, checked'[q] # NoPair,
             NEW b \in Activations, activation'[b] = "ACTIVE", PairOf(b) = checked'[q]
      PROVE  checked'[q] \in raced'
  <2>1. q # r /\ checked'[q] = checked[q]
    BY <1>3, <1>6
  <2>2. CASE b = a
    BY <1>1, <1>3, <1>6, <2>1, <2>2
  <2>3. CASE activation[b] = "ACTIVE"
    <3>1. b \in ActiveRows(checked[q])
      BY <1>6, <2>1, <2>3 DEF ActiveRows
    <3>2. checked[q] \in raced
      BY <1>6, <2>1, <3>1 DEF RowsInv, StaleOnlyIfRaced
    <3>3. QED
      BY <1>3, <2>1, <3>2
  <2>4. QED
    BY <1>5, <1>6, <2>2, <2>3
<1>7. StaleOnlyIfRaced'
  BY <1>6 DEF StaleOnlyIfRaced, ActiveRows, PairOf
<1>8. ASSUME NEW b \in Activations, activation[b] = "ACTIVE", PairOf(b) = PairOf(a)
      PROVE  PairOf(a) \in raced
  <2>1. b \in ActiveRows(checked[r])
    BY <1>1, <1>8 DEF ActiveRows
  <2>2. QED
    BY <1>1, <1>3, <2>1 DEF RowsInv, StaleOnlyIfRaced
<1>9. ASSUME NEW b \in Activations, NEW c \in Activations, b # c,
             activation'[b] = "ACTIVE", activation'[c] = "ACTIVE", PairOf(b) = PairOf(c)
      PROVE  PairOf(b) \in raced'
  <2>1. CASE b = a
    BY <1>3, <1>5, <1>8, <1>9, <2>1
  <2>2. CASE c = a
    BY <1>3, <1>5, <1>8, <1>9, <2>2
  <2>3. CASE activation[b] = "ACTIVE" /\ activation[c] = "ACTIVE"
    BY <1>3, <1>9, <2>3 DEF RowsInv, OneActiveUnlessRaced
  <2>4. QED
    BY <1>5, <1>9, <2>1, <2>2, <2>3
<1>10. OneActiveUnlessRaced'
  BY <1>9 DEF OneActiveUnlessRaced, PairOf
<1>11. QED
  BY <1>4, <1>7, <1>10 DEF RowsInv

LEMMA DropRows ==
    ASSUME TypeOK, RowsInv, NEW r \in Requests, Drop(r)
    PROVE  RowsInv'
<1>1. RequestsOK'
  BY DEF RowsInv, RequestsOK, Drop
<1>2. StaleOnlyIfRaced'
  BY DEF RowsInv, RequestsOK, StaleOnlyIfRaced, Drop, ActiveRows, PairOf, vars
<1>3. OneActiveUnlessRaced'
  BY DEF RowsInv, OneActiveUnlessRaced, Drop, PairOf, vars
<1>4. QED
  BY <1>1, <1>2, <1>3 DEF RowsInv

(* A stop can only free a pair. *)
LEMMA StopRows ==
    ASSUME TypeOK, RowsInv, NEW a \in Activations, Stop(a), UNCHANGED requests
    PROVE  RowsInv'
<1>1. \A b \in Activations : activation'[b] = "ACTIVE" => activation[b] = "ACTIVE"
  BY DEF TypeOK, Stop
<1>2. checked' = checked /\ raced' = raced
  BY DEF requests
<1>3. RequestsOK'
  BY <1>2 DEF RowsInv, RequestsOK
<1>4. StaleOnlyIfRaced'
  BY <1>1, <1>2 DEF RowsInv, StaleOnlyIfRaced, ActiveRows, PairOf
<1>5. OneActiveUnlessRaced'
  BY <1>1, <1>2 DEF RowsInv, OneActiveUnlessRaced, PairOf
<1>6. QED
  BY <1>3, <1>4, <1>5 DEF RowsInv

(* Nothing else touches the rows. *)
LEMMA KeepRows ==
    ASSUME RowsInv, UNCHANGED <<activation, requests>>
    PROVE  RowsInv'
BY DEF RowsInv, RequestsOK, StaleOnlyIfRaced, OneActiveUnlessRaced, ActiveRows, PairOf, requests

LEMMA NextRows ==
    ASSUME TypeOK, RowsInv, [ActivationNext]_allVars
    PROVE  RowsInv'
<1>1. ASSUME NEW r \in Requests, Request(r) PROVE RowsInv'
  BY <1>1, CheckRows, InsertRows, DropRows DEF Request
<1>2. ASSUME NEW a \in Activations, Stop(a), UNCHANGED requests PROVE RowsInv'
  BY <1>2, StopRows
<1>3. ASSUME UNCHANGED <<activation, requests>> PROVE RowsInv'
  BY <1>3, KeepRows
<1>4. CASE (\E s \in Strategies : UpdateStrategy(s)) /\ UNCHANGED requests
  BY <1>3, <1>4 DEF UpdateStrategy
<1>5. CASE (\E c \in Accounts : CloseAccount(c)) /\ UNCHANGED requests
  BY <1>3, <1>5 DEF CloseAccount
<1>6. CASE (Execute \/ MissExecute) /\ UNCHANGED requests
  BY <1>3, <1>6 DEF Execute, MissExecute
<1>7. CASE (GenerateSignals \/ CollectDailyUpdate) /\ UNCHANGED requests
  BY <1>3, <1>7 DEF GenerateSignals, CollectDailyUpdate
<1>8. CASE NoMoreDays /\ UNCHANGED requests
  BY <1>3, <1>8 DEF NoMoreDays, vars
<1>9. CASE UNCHANGED allVars
  BY <1>3, <1>9 DEF allVars, vars
<1>10. QED
  BY <1>1, <1>2, <1>4, <1>5, <1>6, <1>7, <1>8, <1>9 DEF ActivationNext

LEMMA InitRows == ActivationInit => RowsInv
BY ActivationAssumption
DEF ActivationInit, Init, RowsInv, RequestsOK, StaleOnlyIfRaced, OneActiveUnlessRaced

(* At most one ACTIVE row of a strategy on an account, unless two requests *)
(* overlapped.                                                             *)
THEOREM OneActiveAlways == ActivationSpec => []OneActiveUnlessRaced
<1>1. Inv => TypeOK
  BY DEF Inv
<1>2. RowsInv => OneActiveUnlessRaced
  BY DEF RowsInv
<1>3. Inv /\ RowsInv /\ [ActivationNext]_allVars => RowsInv'
  BY <1>1, NextRows
<1>4. QED
  BY <1>2, <1>3, InitRows, Implements, InvAlways, PTL DEF ActivationSpec
-----------------------------------------------------------------------------
(* The orders of the day are queued in one step, from the rows that are    *)
(* ACTIVE at that step; the other steps queue none.                        *)
LEMMA GenerateOnce ==
    ASSUME Inv, RowsInv, OneOrderPerStrategy, GenerateSignals, UNCHANGED requests
    PROVE  OneOrderPerStrategy'
<1>1. PICK pairs \in SUBSET Signalling : orders' = orders \cup {Queued(s) : s \in pairs}
  BY DEF GenerateSignals
<1>2. raced' = raced /\ due = "signal"
  BY DEF requests, GenerateSignals
<1>3. ASSUME NEW o \in orders PROVE o.queued # day
  BY <1>2 DEF Inv, OrderInv, QueuedFrom
<1>4. ASSUME NEW s \in pairs
      PROVE  LET o == Queued(s) IN /\ o.activation = s[1] /\ o.queued = day
                                   /\ s[1] \in Activations /\ activation[s[1]] = "ACTIVE"
  BY DEF Queued, Signalling
<1>5. ASSUME NEW o \in orders', NEW p \in orders',
             o.activation # p.activation, PairOf(o.activation) = PairOf(p.activation),
             o.ticker = p.ticker, o.queued = p.queued
      PROVE  PairOf(o.activation) \in raced
  <2>1. CASE o \in orders /\ p \in orders
    BY <1>5, <2>1 DEF OneOrderPerStrategy
  <2>2. CASE o \notin orders /\ p \notin orders
    <3>1. PICK s \in pairs, t \in pairs : o = Queued(s) /\ p = Queued(t)
      BY <1>1, <1>5, <2>2
    <3>2. QED
      BY <1>4, <1>5, <3>1 DEF RowsInv, OneActiveUnlessRaced
  <2>3. ASSUME NEW x \in orders, NEW y \in orders', y \notin orders
        PROVE  x.queued # y.queued
    BY <1>1, <1>3, <1>4, <2>3
  <2>4. QED
    BY <1>5, <2>1, <2>2, <2>3
<1>6. QED
  BY <1>2, <1>5 DEF OneOrderPerStrategy, PairOf

LEMMA ExecuteOnce ==
    ASSUME OneOrderPerStrategy, Execute, UNCHANGED requests
    PROVE  OneOrderPerStrategy'
<1>1. PICK filled \in SUBSET DueOrders :
        orders' = (orders \ DueOrders) \cup {Filled(o) : o \in filled}
                                       \cup {Failed(o) : o \in DueOrders \ filled}
  BY DEF Execute
<1>2. ASSUME NEW s \in orders'
      PROVE  \E o \in orders : /\ o.activation = s.activation
                               /\ o.ticker = s.ticker /\ o.queued = s.queued
  BY <1>1 DEF DueOrders, Pending, Filled, Failed, Settled
<1>3. raced' = raced
  BY DEF requests
<1>4. QED
  BY <1>2, <1>3 DEF OneOrderPerStrategy, PairOf

LEMMA KeepOnce ==
    ASSUME OneOrderPerStrategy, orders' = orders, raced \subseteq raced'
    PROVE  OneOrderPerStrategy'
BY DEF OneOrderPerStrategy, PairOf

LEMMA NextOnce ==
    ASSUME Inv, RowsInv, OneOrderPerStrategy, [ActivationNext]_allVars
    PROVE  OneOrderPerStrategy'
<1>1. ASSUME NEW r \in Requests, Request(r) PROVE OneOrderPerStrategy'
  <2>1. orders' = orders /\ raced \subseteq raced'
    BY <1>1 DEF Request, CheckActive, Insert, Drop, Activate, vars
  <2>2. QED
    BY <2>1, KeepOnce
<1>2. CASE (\E a \in Activations : Stop(a)) /\ UNCHANGED requests
  BY <1>2, KeepOnce DEF Stop, requests
<1>3. CASE (\E s \in Strategies : UpdateStrategy(s)) /\ UNCHANGED requests
  BY <1>3, KeepOnce DEF UpdateStrategy, requests
<1>4. CASE (\E c \in Accounts : CloseAccount(c)) /\ UNCHANGED requests
  BY <1>4, KeepOnce DEF CloseAccount, requests
<1>5. CASE Execute /\ UNCHANGED requests
  BY <1>5, ExecuteOnce
<1>6. CASE GenerateSignals /\ UNCHANGED requests
  BY <1>6, GenerateOnce
<1>7. CASE (MissExecute \/ CollectDailyUpdate) /\ UNCHANGED requests
  BY <1>7, KeepOnce DEF MissExecute, CollectDailyUpdate, requests
<1>8. CASE NoMoreDays /\ UNCHANGED requests
  BY <1>8, KeepOnce DEF NoMoreDays, vars, requests
<1>9. CASE UNCHANGED allVars
  BY <1>9, KeepOnce DEF allVars, vars, requests
<1>10. QED
  BY <1>1, <1>2, <1>3, <1>4, <1>5, <1>6, <1>7, <1>8, <1>9 DEF ActivationNext

(* One order a day of a strategy, account and ticker, unless two requests  *)
(* overlapped.                                                             *)
THEOREM OneOrderAlways == ActivationSpec => []OneOrderPerStrategy
<1>1. Inv => TypeOK
  BY DEF Inv
<1>2. Inv /\ RowsInv /\ [ActivationNext]_allVars => RowsInv'
  BY <1>1, NextRows
<1>3. ActivationInit => OneOrderPerStrategy
  BY DEF ActivationInit, Init, OneOrderPerStrategy
<1>4. Inv /\ RowsInv /\ OneOrderPerStrategy /\ [ActivationNext]_allVars => OneOrderPerStrategy'
  BY NextOnce
<1>5. QED
  BY <1>2, <1>3, <1>4, InitRows, Implements, InvAlways, PTL DEF ActivationSpec
=============================================================================
