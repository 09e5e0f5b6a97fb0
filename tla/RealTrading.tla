----------------------------- MODULE RealTrading -----------------------------
(***************************************************************************)
(* Orders of REAL accounts: the internal service real-trading/ (its gate,  *)
(* its risk checks, its client of the broker KIS, its row in table         *)
(* orders), and the REAL branch of execute_pending_orders that posts to    *)
(* it.  KIS is external.                                                   *)
(*                                                                         *)
(* A request is handled in steps that end where the handler awaits.  Any   *)
(* number of requests are in progress at once; each has a database session *)
(* of its own.  The rows of accounts and positions are a constant: no code *)
(* of the repository changes those of a REAL account, this service least   *)
(* of all.                                                                 *)
(*                                                                         *)
(* A request is its account, ticker, side and value (qty * price), which   *)
(* the service takes as they come: any integers, and any string for a side *)
(* ("OTHER" stands for those that are not BUY or SELL).  GET /real/balance *)
(* and /real/positions are requests of side "QUERY".                       *)
(***************************************************************************)
EXTENDS Integers, FiniteSets, FiniteSetsExt

CONSTANTS
    Keyed,         \* requests that carry the header X-Internal-Key
    BookOrders,    \* PENDING orders of REAL accounts in the backend's book
    Accounts, Account,    \* the rows of accounts and positions
    NoAccount,     \* an id without a row
    Tickers,
    Requests,      \* what callers may ask for
    BookRequests,  \* what the orders of the book ask for
    SingleOrderLimit, MaxPositionPct, MaxPositions, DailyLossLimit

Posts == Keyed \cup BookOrders
Trade == {"BUY", "SELL"}

ASSUME RealAssumption ==
    /\ Keyed \cap BookOrders = {}
    /\ NoAccount \notin Accounts
    /\ Account \in [Accounts -> [type : {"REAL", "SIM"}, cash : Nat, initial : Nat,
                                 held : [Tickers -> Nat]]]
    /\ Requests \subseteq [account : Accounts \cup {NoAccount}, ticker : Tickers,
                           side : Trade \cup {"OTHER", "QUERY"}, value : Int]
    /\ BookRequests \subseteq [account : {a \in Accounts : Account[a].type = "REAL"},
                               ticker : Tickers, side : Trade, value : Nat]
    /\ {SingleOrderLimit, MaxPositionPct, MaxPositions, DailyLossLimit} \subseteq Nat

VARIABLES
    order,         \* what each request asks for
    at,            \* where its handler is
    answer,        \* the status code it was answered with
    kis,           \* what KIS made of its order
    rows,          \* committed rows of this service in table orders
    hit,           \* history: requests that a fault has struck
    token,         \* the token a request's KISClient holds
    book, running, marks   \* the executor: orders.status, its session, its batch

service == <<order, at, answer, kis, rows, hit, token>>
executor == <<book, running, marks>>
vars == <<service, executor>>

InHandler == {"gate", "check", "loss", "client", "token", "send", "kis", "insert", "commit"}
Codes == {"none", "200", "400", "403", "500", "lost"}
TokenStates == {"none", "stored", "fetched"}

IsReal(a) == a \in Accounts /\ Account[a].type = "REAL"

(* A row has no P&L (NULL, which the SUM of check_daily_loss skips). *)
NoPnl == 0
Row(p) == [post |-> p, account |-> order[p].account, pnl |-> NoPnl]

TypeOK ==
    /\ order \in [Posts -> Requests \cup BookRequests]
    /\ at \in [Posts -> {"idle", "done"} \cup InHandler]
    /\ answer \in [Posts -> Codes]
    /\ kis \in [Posts -> {"none", "asked", "accepted", "refused"}]
    /\ rows \subseteq {Row(p) : p \in Posts}
    /\ hit \subseteq Posts
    /\ token \in [Posts -> TokenStates]
    /\ book \in [BookOrders -> {"PENDING", "FILLED", "FAILED"}]
    /\ running \in BOOLEAN
    /\ marks \in [BookOrders -> {"none", "FILLED", "FAILED"}]

Init ==
    /\ order \in [Posts -> Requests \cup BookRequests]
    /\ \A p \in Posts : order[p] \in IF p \in BookOrders THEN BookRequests ELSE Requests
    /\ at = [p \in Posts |-> "idle"] /\ answer = [p \in Posts |-> "none"]
    /\ kis = [p \in Posts |-> "none"] /\ token = [p \in Posts |-> "none"]
    /\ rows = {} /\ hit = {}
    /\ book = [o \in BookOrders |-> "PENDING"]
    /\ running = FALSE /\ marks = [o \in BookOrders |-> "none"]
-----------------------------------------------------------------------------
Goes(p, place) == at' = [at EXCEPT ![p] = place]
Ends(p, code) == Goes(p, "done") /\ answer' = [answer EXCEPT ![p] = code]
Strikes(p) == hit' = hit \cup {p}

(* A caller with the key sends its request. *)
Post(p) ==
    /\ p \notin BookOrders
    /\ at[p] = "idle"
    /\ Goes(p, "gate")
    /\ UNCHANGED <<order, answer, kis, rows, hit, token, executor>>

(* The executor sends no X-Internal-Key. *)
HoldsKey(p) == p \notin BookOrders

(* TrustedHostMiddleware, which knows localhost and *.local but not the    *)
(* name "real-trading" the backend is deployed with, and then the key.     *)
Gate(p) ==
    /\ at[p] = "gate"
    /\ \/ /\ HoldsKey(p)
          /\ Goes(p, IF order[p].side = "QUERY" THEN "client" ELSE "check")
          /\ UNCHANGED answer
       \/ ~HoldsKey(p) /\ Ends(p, "403")
       \/ p \in BookOrders /\ Ends(p, "400")
    /\ UNCHANGED <<order, kis, rows, hit, token, executor>>
-----------------------------------------------------------------------------
HeldTickers(a) == {t \in Tickers : Account[a].held[t] > 0}

(* RiskManager.check_order.  execute_real_order passes initial_balance as  *)
(* the portfolio's value.  Mutant: what is held already is not counted.    *)
CheckOrderAlone(o) ==
    LET row == Account[o.account] IN
    /\ o.value <= SingleOrderLimit
    /\ o.side = "BUY" =>
         /\ o.value <= row.cash
         /\ row.initial > 0 => 100 * o.value <= MaxPositionPct * row.initial
         /\ row.held[o.ticker] = 0 => Cardinality(HeldTickers(o.account)) < MaxPositions
CheckOrder(o) ==
    LET row == Account[o.account] IN
    /\ o.value <= SingleOrderLimit
    /\ o.side = "BUY" =>
         /\ o.value <= row.cash
         /\ row.initial > 0 =>
              100 * (row.held[o.ticker] + o.value) <= MaxPositionPct * row.initial
         /\ row.held[o.ticker] = 0 => Cardinality(HeldTickers(o.account)) < MaxPositions

CheckRisk(p) ==
    /\ at[p] = "check"
    /\ IF order[p].account \in Accounts /\ CheckOrder(order[p])
       THEN Goes(p, "loss") /\ UNCHANGED answer
       ELSE Ends(p, "400")
    /\ UNCHANGED <<order, kis, rows, hit, token, executor>>

(* No code writes the P&L of a row, so that this check refuses nothing. *)
DailyPnl(a) == MapThenSumSet(LAMBDA r : r.pnl, {r \in rows : r.account = a})

CheckDailyLoss(p) ==
    /\ at[p] = "loss"
    /\ IF DailyPnl(order[p].account) < -DailyLossLimit
       THEN Ends(p, "400")
       ELSE Goes(p, "client") /\ UNCHANGED answer
    /\ UNCHANGED <<order, kis, rows, hit, token, executor>>

(* _get_kis_client finds REAL accounts only.  The client starts with the   *)
(* stored token, if there is one: the job of 08:30 (kis_token_refresher)   *)
(* may have renewed it or failed to.                                       *)
BuildClient(p) ==
    /\ at[p] = "client"
    /\ IF IsReal(order[p].account)
       THEN /\ Goes(p, "token")
            /\ \E first \in {"none", "stored"} : token' = [token EXCEPT ![p] = first]
            /\ UNCHANGED answer
       ELSE Ends(p, "400") /\ UNCHANGED token
    /\ UNCHANGED <<order, kis, rows, hit, executor>>

(* A client knows when its token expires only of one it has fetched, and a *)
(* client serves one request: it asks for another, although one is stored. *)
KnownToken(p) == token[p] = "fetched"
EnsureToken(p) ==
    /\ at[p] = "token"
    /\ IF KnownToken(p) THEN UNCHANGED token
       ELSE token' = [token EXCEPT ![p] = "fetched"]
    /\ Goes(p, "send")
    /\ UNCHANGED <<order, answer, kis, rows, hit, executor>>

(* An error before the order is out: of the database, of the decryption,   *)
(* of the request for a token.  A ValueError is answered 400, others 500.  *)
FailEarly(p) ==
    /\ at[p] \in {"check", "loss", "client", "token"}
    /\ \E code \in {"400", "500"} : Ends(p, code)
    /\ Strikes(p)
    /\ UNCHANGED <<order, kis, rows, token, executor>>
-----------------------------------------------------------------------------
(* The order goes out; from here on KIS may accept it at any time. *)
SendOrder(p) ==
    /\ at[p] = "send" /\ order[p].side # "QUERY"
    /\ kis' = [kis EXCEPT ![p] = "asked"]
    /\ Goes(p, "kis")
    /\ UNCHANGED <<order, answer, rows, hit, token, executor>>

KisDecides(p) ==
    /\ kis[p] = "asked"
    /\ \E d \in {"accepted", "refused"} : kis' = [kis EXCEPT ![p] = d]
    /\ UNCHANGED <<order, at, answer, rows, hit, token, executor>>

(* rt_cd "0", or a ValueError.  Mutant: rt_cd is not looked at. *)
HearKisAnything(p) ==
    /\ at[p] = "kis" /\ kis[p] \in {"accepted", "refused"}
    /\ Goes(p, "insert")
    /\ UNCHANGED <<order, answer, kis, rows, hit, token, executor>>
HearKis(p) ==
    /\ at[p] = "kis"
    /\ \/ kis[p] = "accepted" /\ Goes(p, "insert") /\ UNCHANGED answer
       \/ kis[p] = "refused" /\ Ends(p, "400")
    /\ UNCHANGED <<order, kis, rows, hit, token, executor>>

(* 30 seconds without an answer, a broken connection, an HTTP error (500), *)
(* or a body that is no JSON, which is a ValueError (400).  Mutant: no     *)
(* timeout, only an answer is waited for.                                  *)
MissKisPatiently(p) ==
    /\ at[p] = "kis" /\ kis[p] \in {"accepted", "refused"}
    /\ \E code \in {"400", "500"} : Ends(p, code)
    /\ Strikes(p)
    /\ UNCHANGED <<order, kis, rows, token, executor>>
MissKis(p) ==
    /\ at[p] = "kis"
    /\ \/ Ends(p, "500")
       \/ kis[p] # "asked" /\ Ends(p, "400")
    /\ Strikes(p)
    /\ UNCHANGED <<order, kis, rows, token, executor>>

(* get_balance turns a refusal of KIS into a 400; get_positions does not   *)
(* look at rt_cd and answers 200 with an empty list.                       *)
AskKis(p) ==
    /\ at[p] = "send" /\ order[p].side = "QUERY"
    /\ \E code \in {"200", "400", "500"} : Ends(p, code)
    /\ UNCHANGED <<order, kis, rows, hit, token, executor>>

(* The row of what KIS accepted: inserted, unless it has a side that the   *)
(* table does not know (KIS has sold then) ...                             *)
InsertRow(p) ==
    /\ at[p] = "insert"
    /\ \/ order[p].side \in Trade /\ Goes(p, "commit") /\ UNCHANGED <<answer, hit>>
       \/ Ends(p, "500") /\ Strikes(p)
    /\ UNCHANGED <<order, kis, rows, token, executor>>

(* ... and committed, before the caller is answered.  A commit that fails  *)
(* may have taken place.  Mutant: the commit is forgotten.                 *)
CommitForgotten(p) ==
    /\ at[p] = "commit"
    /\ Ends(p, "200")
    /\ UNCHANGED <<order, kis, rows, hit, token, executor>>
CommitRow(p) ==
    /\ at[p] = "commit"
    /\ \/ rows' = rows \cup {Row(p)} /\ Ends(p, "200") /\ UNCHANGED hit
       \/ rows' \in {rows, rows \cup {Row(p)}} /\ Ends(p, "500") /\ Strikes(p)
    /\ UNCHANGED <<order, kis, token, executor>>

InProgress == {p \in Posts : at[p] \in InHandler}

(* The process dies with all requests in progress. *)
Crash ==
    /\ InProgress # {}
    /\ at' = [p \in Posts |-> IF p \in InProgress THEN "done" ELSE at[p]]
    /\ answer' = [p \in Posts |-> IF p \in InProgress THEN "lost" ELSE answer[p]]
    /\ hit' = hit \cup InProgress
    /\ UNCHANGED <<order, kis, rows, token, executor>>
-----------------------------------------------------------------------------
(* 09:05: the PENDING orders are posted one after another, each a request  *)
(* of its own, inside the transaction of the batch.                        *)
AtRest(o) == at[o] \in {"idle", "done"}

StartBatch ==
    /\ ~running
    /\ \E o \in BookOrders : book[o] = "PENDING"
    /\ \A o \in BookOrders : AtRest(o)
    /\ running' = TRUE
    /\ marks' = [o \in BookOrders |-> "none"]
    /\ at' = [p \in Posts |-> IF p \in BookOrders /\ book[p] = "PENDING" THEN "idle" ELSE at[p]]
    /\ answer' = [p \in Posts |-> IF p \in BookOrders /\ book[p] = "PENDING"
                                  THEN "none" ELSE answer[p]]
    /\ UNCHANGED <<order, kis, rows, hit, token, book>>

Unmarked == {o \in BookOrders : book[o] = "PENDING" /\ marks[o] = "none"}
NextOrder == CHOOSE o \in Unmarked : TRUE

PostOrder(o) ==
    /\ running /\ o \in Unmarked /\ o = NextOrder
    /\ at[o] = "idle"
    /\ Goes(o, "gate")
    /\ UNCHANGED <<order, answer, kis, rows, hit, token, executor>>

(* No price is stored for the ticker, the account is gone, or the service  *)
(* cannot be reached.                                                      *)
FailUnposted(o) ==
    /\ running /\ o \in Unmarked /\ o = NextOrder
    /\ at[o] = "idle"
    /\ marks' = [marks EXCEPT ![o] = "FAILED"]
    /\ UNCHANGED <<service, book, running>>

(* The answer, or none within 30 seconds. *)
HearService(o) ==
    /\ running /\ o \in Unmarked
    /\ at[o] # "idle"
    /\ marks' = [marks EXCEPT ![o] =
                   IF at[o] = "done" /\ answer[o] = "200" THEN "FILLED" ELSE "FAILED"]
    /\ UNCHANGED <<service, book, running>>

CommitBatch ==
    /\ running /\ Unmarked = {}
    /\ book' = [o \in BookOrders |-> IF book[o] = "PENDING" THEN marks[o] ELSE book[o]]
    /\ running' = FALSE
    /\ UNCHANGED <<service, marks>>

(* The backend dies, or an error of the database has spoilt the session:   *)
(* the orders are PENDING again, and posted again by the next batch.       *)
RollbackBatch ==
    /\ running
    /\ running' = FALSE
    /\ UNCHANGED <<service, book, marks>>
-----------------------------------------------------------------------------
(* POST /real/order and the queries, without the faults of the process. *)
Handle(p) ==
    \/ Gate(p) \/ CheckRisk(p) \/ CheckDailyLoss(p)
    \/ BuildClient(p) \/ EnsureToken(p) \/ FailEarly(p)
    \/ SendOrder(p) \/ HearKis(p) \/ MissKis(p) \/ AskKis(p)
    \/ InsertRow(p) \/ CommitRow(p)

Execute ==
    \/ StartBatch
    \/ \E o \in BookOrders : PostOrder(o) \/ FailUnposted(o) \/ HearService(o)
    \/ CommitBatch
    \/ RollbackBatch

Next ==
    \/ \E p \in Posts : Post(p) \/ Handle(p) \/ KisDecides(p)
    \/ Crash
    \/ Execute

Spec == Init /\ [][Next]_vars

(* The event loop resumes every handler; httpx waits 30 seconds for KIS,   *)
(* which owes nobody an answer.  The executor runs every day, and no step  *)
(* of it is the one before which every batch is rolled back.               *)
FairSpec ==
    /\ Spec
    /\ \A p \in Posts : WF_vars(Handle(p))
    /\ WF_vars(StartBatch) /\ SF_vars(CommitBatch)
    /\ \A o \in BookOrders : SF_vars(PostOrder(o)) /\ SF_vars(HearService(o))
-----------------------------------------------------------------------------
Trades == {p \in Posts : order[p].side # "QUERY"}

(* What table orders says was filled, KIS has accepted; what KIS has       *)
(* accepted has its row, unless a fault struck between the two calls.      *)
RowsMatchKis ==
    \A p \in Trades :
        /\ Row(p) \in rows => kis[p] = "accepted"
        /\ kis[p] = "accepted" /\ at[p] = "done" /\ p \notin hit => Row(p) \in rows

(* The caller can go by the answer: 200 means that there is a row, and an  *)
(* error that KIS has not the order, nor ever will, unless a fault struck. *)
AnswerTrue ==
    \A p \in Trades : at[p] = "done" =>
        /\ answer[p] = "200" => Row(p) \in rows
        /\ answer[p] # "200" /\ p \notin hit => kis[p] \in {"none", "refused"}

(* risk_manager.py: "All orders must pass these checks before execution."  *)
(* KIS sees an order only of a keyed caller and on a REAL account, below   *)
(* the limit of an order, and no purchase that is more than the cash,      *)
(* leaves more of a ticker than the limit of a position, or opens one      *)
(* position too many.  It says nothing of several orders together, whose   *)
(* rows the service does not read.                                         *)
OnlyChecked ==
    \A p \in Posts : kis[p] # "none" =>
        LET o == order[p]
            row == Account[o.account]
        IN  /\ p \in Keyed /\ IsReal(o.account) /\ o.value <= SingleOrderLimit
            /\ o.side = "BUY" =>
                 /\ o.value <= row.cash
                 /\ row.initial = 0 \/ 100 * (row.held[o.ticker] + o.value)
                                         <= MaxPositionPct * row.initial
                 /\ row.held[o.ticker] > 0
                      \/ Cardinality(HeldTickers(o.account)) < MaxPositions

(* execute_pending_orders: "For REAL: call real-trading service."  An      *)
(* order of the book that is FAILED, although the service has answered it  *)
(* without a fault, was refused by KIS or breaks a limit.                  *)
SoundOrdersTraded ==
    \A o \in BookOrders :
        book[o] = "FAILED" /\ at[o] = "done" /\ o \notin hit =>
            kis[o] # "none" \/ ~CheckOrder(order[o])

(* Every request is answered, whatever KIS does, and every order of the    *)
(* book is settled.                                                        *)
RequestsEnd ==
    /\ \A p \in Keyed : at[p] = "gate" ~> at[p] = "done"
    /\ \A o \in BookOrders : book[o] = "PENDING" ~> book[o] # "PENDING"
=============================================================================
