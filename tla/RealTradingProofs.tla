-------------------------- MODULE RealTradingProofs --------------------------
(***************************************************************************)
(* Theorems about RealTrading, for any callers, orders, accounts and       *)
(* limits.  The invariant says of each request what must be so at the      *)
(* place it has reached: it has the key (Gated), it was checked            *)
(* (Screened), its account is a REAL one (RealOnly), what KIS can know of  *)
(* it (Sent), and what its row and its answer say (Filed, Told).           *)
(***************************************************************************)
EXTENDS RealTrading, TLAPS

Early == {"idle", "gate", "check", "loss", "client", "token", "send"}
Checked == {"loss", "client", "token", "send", "kis", "insert", "commit"}

IsTrade(p) == order[p].side # "QUERY"
HasRow(p) == Row(p) \in rows

Gated(p) ==
    at[p] \in InHandler \ {"gate"} \/ kis[p] # "none" \/ answer[p] = "200" => p \in Keyed
Screened(p) ==
    (at[p] \in Checked /\ IsTrade(p)) \/ kis[p] # "none" =>
        order[p].account \in Accounts /\ CheckOrder(order[p])
RealOnly(p) ==
    at[p] \in {"token", "send", "kis", "insert", "commit"} \/ kis[p] # "none" =>
        IsReal(order[p].account)
Traded(p) == at[p] \in {"check", "loss", "kis", "insert", "commit"} => IsTrade(p)
Sent(p) ==
    /\ at[p] \in Early => kis[p] = "none"
    /\ at[p] \in {"insert", "commit"} => kis[p] = "accepted"
Filed(p) == HasRow(p) => kis[p] = "accepted" /\ at[p] = "done"
Told(p) ==
    at[p] = "done" /\ IsTrade(p) =>
        /\ answer[p] = "200" => HasRow(p)
        /\ answer[p] # "200" /\ p \notin hit => kis[p] \in {"none", "refused"}

PostInv(p) ==
    /\ Gated(p) /\ Screened(p) /\ RealOnly(p)
    /\ Traded(p) /\ Sent(p) /\ Filed(p) /\ Told(p)

Inv == TypeOK /\ (\A p \in Posts : PostInv(p))
-----------------------------------------------------------------------------
(* What a step leaves alone of a request. *)
Same(q) ==
    /\ at'[q] = at[q] /\ answer'[q] = answer[q] /\ kis'[q] = kis[q] /\ token'[q] = token[q]
    /\ q \in hit' <=> q \in hit
    /\ Row(q) \in rows' <=> Row(q) \in rows

LEMMA SameInv ==
    ASSUME NEW q \in Posts, PostInv(q), Same(q), order' = order
    PROVE  PostInv(q)'
<1>1. HasRow(q)' <=> HasRow(q)
  BY DEF Same, HasRow, Row
<1>2. IsTrade(q)' <=> IsTrade(q)
  BY DEF IsTrade
<1>3. Gated(q)' /\ RealOnly(q)' /\ Traded(q)' /\ Sent(q)'
  BY <1>2 DEF PostInv, Same, Gated, RealOnly, Traded, Sent
<1>4. Screened(q)'
  BY <1>2 DEF PostInv, Same, Screened
<1>5. Filed(q)' /\ Told(q)'
  BY <1>1, <1>2 DEF PostInv, Same, Filed, Told
<1>6. QED
  BY <1>3, <1>4, <1>5 DEF PostInv

(* A step of one request, which leaves the executor alone. *)
LEMMA OneRequest ==
    ASSUME Inv, NEW p \in Posts, TypeOK', PostInv(p)', UNCHANGED <<order, executor>>,
           \A q \in Posts \ {p} : Same(q)
    PROVE  Inv'
<1>1. ASSUME NEW q \in Posts PROVE PostInv(q)'
  <2>1. CASE q = p
    BY <2>1
  <2>2. CASE q # p
    BY <2>2, SameInv DEF Inv
  <2>3. QED
    BY <2>1, <2>2
<1>2. QED
  BY <1>1 DEF Inv

LEMMA RowsDiffer == ASSUME NEW p, NEW q, p # q PROVE Row(p) # Row(q)
<1>1. Row(p).post = p /\ Row(q).post = q
  BY DEF Row
<1>2. QED
  BY <1>1

LEMMA PostsApart == ASSUME NEW p \in Posts PROVE p \in Keyed <=> p \notin BookOrders
BY RealAssumption DEF Posts

LEMMA InitInv == Init => Inv
<1> SUFFICES ASSUME Init PROVE Inv
  OBVIOUS
<1>1. TypeOK
  BY DEF Init, TypeOK, Posts, Codes, TokenStates
<1>2. ASSUME NEW p \in Posts PROVE PostInv(p)
  <2>1. at[p] = "idle" /\ answer[p] = "none" /\ kis[p] = "none" /\ rows = {}
    BY DEF Init
  <2>2. QED
    BY <2>1 DEF PostInv, Gated, Screened, RealOnly, Traded, Sent, Filed, Told, HasRow,
      InHandler, Early, Checked
<1>3. QED
  BY <1>1, <1>2 DEF Inv
-----------------------------------------------------------------------------
(* Until the order is sent.  Each step moves its request to a place where  *)
(* as much is known of it, or ends it with an error.                       *)
LEMMA PostStep == ASSUME Inv, NEW p \in Posts, Post(p) PROVE Inv'
<1>1. TypeOK'
  BY DEF Inv, TypeOK, Post, Goes, InHandler, executor, Row
<1>2. \A q \in Posts \ {p} : Same(q)
  BY DEF Inv, TypeOK, Post, Goes, Same
<1>3. at'[p] = "gate" /\ at[p] = "idle" /\ UNCHANGED <<order, answer, kis, rows, hit, token>>
  BY DEF Inv, TypeOK, Post, Goes
<1>4. PostInv(p)'
  BY <1>3 DEF Inv, PostInv, Gated, Screened, RealOnly, Traded, Sent, Filed, Told,
     HasRow, IsTrade, Row, InHandler, Early, Checked
<1>5. QED
  BY <1>1, <1>2, <1>4, OneRequest DEF Post

LEMMA GateStep == ASSUME Inv, NEW p \in Posts, Gate(p) PROVE Inv'
<1>1. TypeOK'
  BY DEF Inv, TypeOK, Gate, Goes, Ends, InHandler, Codes, executor, Row
<1>2. \A q \in Posts \ {p} : Same(q)
  BY DEF Inv, TypeOK, Gate, Goes, Ends, Same
<1>3. at[p] = "gate" /\ kis[p] = "none" /\ ~HasRow(p)
      /\ UNCHANGED <<order, kis, rows, hit, token>>
  BY DEF Inv, PostInv, Sent, Filed, Early, Gate
<1>4. \/ p \in Keyed /\ at'[p] = (IF IsTrade(p) THEN "check" ELSE "client") /\ answer' = answer
      \/ at'[p] = "done" /\ answer'[p] \in {"400", "403"}
  BY PostsApart DEF Inv, TypeOK, Gate, Goes, Ends, HoldsKey, IsTrade
<1>5. ~HasRow(p)' /\ (IsTrade(p)' <=> IsTrade(p)) /\ kis'[p] = "none"
  BY <1>3 DEF HasRow, IsTrade, Row
<1>6. answer[p] = "200" => p \in Keyed
  BY DEF Inv, PostInv, Gated
<1>7. PostInv(p)'
  BY <1>4, <1>5, <1>6 DEF PostInv, Gated, Screened, RealOnly, Traded, Sent, Filed, Told,
     InHandler, Early, Checked
<1>8. QED
  BY <1>1, <1>2, <1>7, OneRequest DEF Gate

LEMMA RiskStep == ASSUME Inv, NEW p \in Posts, CheckRisk(p) PROVE Inv'
<1>1. TypeOK'
  BY DEF Inv, TypeOK, CheckRisk, Goes, Ends, InHandler, Codes, executor, Row
<1>2. \A q \in Posts \ {p} : Same(q)
  BY DEF Inv, TypeOK, CheckRisk, Goes, Ends, Same
<1>3. at[p] = "check" /\ kis[p] = "none" /\ ~HasRow(p) /\ IsTrade(p) /\ p \in Keyed
      /\ UNCHANGED <<order, kis, rows, hit, token>>
  BY DEF Inv, PostInv, Sent, Filed, Traded, Gated, InHandler, Early, CheckRisk
<1>4. \/ at'[p] = "loss" /\ order[p].account \in Accounts /\ CheckOrder(order[p])
      \/ at'[p] = "done" /\ answer'[p] = "400"
  BY DEF Inv, TypeOK, CheckRisk, Goes, Ends
<1>5. ~HasRow(p)' /\ IsTrade(p)' /\ kis'[p] = "none"
  BY <1>3 DEF HasRow, IsTrade, Row
<1>6. PostInv(p)'
  BY <1>3, <1>4, <1>5 DEF PostInv, Gated, Screened, RealOnly, Traded, Sent, Filed, Told,
     InHandler, Early, Checked
<1>7. QED
  BY <1>1, <1>2, <1>6, OneRequest DEF CheckRisk

LEMMA LossStep == ASSUME Inv, NEW p \in Posts, CheckDailyLoss(p) PROVE Inv'
<1>1. TypeOK'
  BY DEF Inv, TypeOK, CheckDailyLoss, Goes, Ends, InHandler, Codes, executor, Row
<1>2. \A q \in Posts \ {p} : Same(q)
  BY DEF Inv, TypeOK, CheckDailyLoss, Goes, Ends, Same
<1>3. at[p] = "loss" /\ kis[p] = "none" /\ ~HasRow(p) /\ IsTrade(p) /\ p \in Keyed
      /\ order[p].account \in Accounts /\ CheckOrder(order[p])
      /\ UNCHANGED <<order, kis, rows, hit, token>>
  BY DEF Inv, PostInv, Sent, Filed, Traded, Gated, Screened, InHandler, Early, Checked,
     CheckDailyLoss
<1>4. at'[p] = "client" \/ (at'[p] = "done" /\ answer'[p] = "400")
  BY DEF Inv, TypeOK, CheckDailyLoss, Goes, Ends
<1>5. ~HasRow(p)' /\ IsTrade(p)' /\ kis'[p] = "none"
  BY <1>3 DEF HasRow, IsTrade, Row
<1>6. PostInv(p)'
  BY <1>3, <1>4, <1>5 DEF PostInv, Gated, Screened, RealOnly, Traded, Sent, Filed, Told,
     InHandler, Early, Checked
<1>7. QED
  BY <1>1, <1>2, <1>6, OneRequest DEF CheckDailyLoss

LEMMA ClientStep == ASSUME Inv, NEW p \in Posts, BuildClient(p) PROVE Inv'
<1>1. TypeOK'
  BY DEF Inv, TypeOK, BuildClient, Goes, Ends, InHandler, Codes, TokenStates, executor, Row
<1>2. \A q \in Posts \ {p} : Same(q)
  BY DEF Inv, TypeOK, BuildClient, Goes, Ends, Same
<1>3. at[p] = "client" /\ kis[p] = "none" /\ ~HasRow(p) /\ p \in Keyed /\ Screened(p)
      /\ UNCHANGED <<order, kis, rows, hit>>
  BY DEF Inv, PostInv, Sent, Filed, Gated, InHandler, Early, BuildClient
<1>4. \/ at'[p] = "token" /\ IsReal(order[p].account)
      \/ at'[p] = "done" /\ answer'[p] = "400"
  BY DEF Inv, TypeOK, BuildClient, Goes, Ends
<1>5. ~HasRow(p)' /\ (IsTrade(p)' <=> IsTrade(p)) /\ kis'[p] = "none"
  BY <1>3 DEF HasRow, IsTrade, Row
<1>6. PostInv(p)'
  BY <1>3, <1>4, <1>5 DEF PostInv, Gated, Screened, RealOnly, Traded, Sent, Filed, Told,
     InHandler, Early, Checked
<1>7. QED
  BY <1>1, <1>2, <1>6, OneRequest DEF BuildClient

LEMMA TokenStep == ASSUME Inv, NEW p \in Posts, EnsureToken(p) PROVE Inv'
<1>1. TypeOK'
  BY DEF Inv, TypeOK, EnsureToken, Goes, InHandler, TokenStates, executor, Row
<1>2. \A q \in Posts \ {p} : Same(q)
  BY DEF Inv, TypeOK, EnsureToken, Goes, Same
<1>3. at[p] = "token" /\ kis[p] = "none" /\ ~HasRow(p) /\ p \in Keyed /\ Screened(p)
      /\ IsReal(order[p].account) /\ UNCHANGED <<order, answer, kis, rows, hit>>
  BY DEF Inv, PostInv, Sent, Filed, Gated, RealOnly, InHandler, Early, EnsureToken
<1>4. at'[p] = "send"
  BY DEF Inv, TypeOK, EnsureToken, Goes
<1>5. ~HasRow(p)' /\ (IsTrade(p)' <=> IsTrade(p)) /\ kis'[p] = "none"
  BY <1>3 DEF HasRow, IsTrade, Row
<1>6. PostInv(p)'
  BY <1>3, <1>4, <1>5 DEF PostInv, Gated, Screened, RealOnly, Traded, Sent, Filed, Told,
     InHandler, Early, Checked
<1>7. QED
  BY <1>1, <1>2, <1>6, OneRequest DEF EnsureToken

(* The two ways in which a request ends before its order is sent, or       *)
(* without one.                                                            *)
LEMMA FailStep == ASSUME Inv, NEW p \in Posts, FailEarly(p) \/ AskKis(p) PROVE Inv'
<1>1. TypeOK'
  BY DEF Inv, TypeOK, FailEarly, Strikes, AskKis, Goes, Ends, InHandler, Codes, executor, Row
<1>2. \A q \in Posts \ {p} : Same(q)
  BY DEF Inv, TypeOK, FailEarly, AskKis, Strikes, Goes, Ends, Same
<1>3. kis[p] = "none" /\ ~HasRow(p) /\ p \in Keyed
      /\ UNCHANGED <<order, kis, rows, token>>
  BY DEF Inv, PostInv, Sent, Filed, Gated, InHandler, Early, FailEarly, AskKis
<1>4. at'[p] = "done" /\ (IsTrade(p) => answer'[p] # "200")
  BY DEF Inv, TypeOK, FailEarly, AskKis, Goes, Ends, IsTrade
<1>5. ~HasRow(p)' /\ (IsTrade(p)' <=> IsTrade(p)) /\ kis'[p] = "none"
  BY <1>3 DEF HasRow, IsTrade, Row
<1>6. PostInv(p)'
  BY <1>3, <1>4, <1>5 DEF PostInv, Gated, Screened, RealOnly, Traded, Sent, Filed, Told,
     InHandler, Early, Checked
<1>7. QED
  BY <1>1, <1>2, <1>6, OneRequest DEF FailEarly, AskKis
-----------------------------------------------------------------------------
(* The order, its answer and its row. *)
LEMMA SendStep == ASSUME Inv, NEW p \in Posts, SendOrder(p) PROVE Inv'
<1>1. TypeOK'
  BY DEF Inv, TypeOK, SendOrder, Goes, InHandler, executor, Row
<1>2. \A q \in Posts \ {p} : Same(q)
  BY DEF Inv, TypeOK, SendOrder, Goes, Same
<1>3. at[p] = "send" /\ ~HasRow(p) /\ p \in Keyed /\ IsTrade(p) /\ Screened(p)
      /\ IsReal(order[p].account)
      /\ UNCHANGED <<order, answer, rows, hit, token>>
  BY DEF Inv, PostInv, Filed, Gated, RealOnly, InHandler, SendOrder, IsTrade
<1>4. at'[p] = "kis" /\ kis'[p] = "asked"
  BY DEF Inv, TypeOK, SendOrder, Goes
<1>5. ~HasRow(p)' /\ IsTrade(p)'
  BY <1>3 DEF HasRow, IsTrade, Row
<1>6. PostInv(p)'
  BY <1>3, <1>4, <1>5 DEF PostInv, Gated, Screened, RealOnly, Traded, Sent, Filed, Told,
     InHandler, Early, Checked
<1>7. QED
  BY <1>1, <1>2, <1>6, OneRequest DEF SendOrder

(* KIS decides on an order whose handler may have given up; then a fault   *)
(* has struck it.                                                          *)
LEMMA DecideStep == ASSUME Inv, NEW p \in Posts, KisDecides(p) PROVE Inv'
<1>1. TypeOK'
  BY DEF Inv, TypeOK, KisDecides, executor, Row
<1>2. \A q \in Posts \ {p} : Same(q)
  BY DEF Inv, TypeOK, KisDecides, Same
<1>3. kis[p] = "asked" /\ kis'[p] \in {"accepted", "refused"}
      /\ UNCHANGED <<order, at, answer, rows, hit, token>>
  BY DEF Inv, TypeOK, KisDecides
<1>4. ~HasRow(p) /\ at[p] \notin Early /\ at[p] \notin {"insert", "commit"}
      /\ (at[p] = "done" /\ IsTrade(p) => answer[p] # "200" /\ p \in hit)
  BY <1>3 DEF Inv, PostInv, Filed, Sent, Told
<1>5. ~HasRow(p)' /\ (IsTrade(p)' <=> IsTrade(p))
  BY <1>3, <1>4 DEF HasRow, IsTrade, Row
<1>6. Sent(p)' /\ Filed(p)' /\ Told(p)'
  BY <1>3, <1>4, <1>5 DEF Sent, Filed, Told
<1>7. Gated(p)' /\ Screened(p)' /\ RealOnly(p)' /\ Traded(p)'
  BY <1>3, <1>5 DEF Inv, PostInv, Gated, Screened, RealOnly, Traded
<1>8. PostInv(p)'
  BY <1>6, <1>7 DEF PostInv
<1>9. QED
  BY <1>1, <1>2, <1>8, OneRequest DEF KisDecides

LEMMA HearStep == ASSUME Inv, NEW p \in Posts, HearKis(p) PROVE Inv'
<1>1. TypeOK'
  BY DEF Inv, TypeOK, HearKis, Goes, Ends, InHandler, Codes, executor, Row
<1>2. \A q \in Posts \ {p} : Same(q)
  BY DEF Inv, TypeOK, HearKis, Goes, Ends, Same
<1>3. at[p] = "kis" /\ ~HasRow(p) /\ p \in Keyed /\ IsTrade(p) /\ Screened(p) /\ RealOnly(p)
      /\ UNCHANGED <<order, kis, rows, hit, token>>
  BY DEF Inv, PostInv, Filed, Gated, Traded, InHandler, HearKis
<1>4. \/ at'[p] = "insert" /\ kis[p] = "accepted"
      \/ at'[p] = "done" /\ answer'[p] = "400" /\ kis[p] = "refused"
  BY DEF Inv, TypeOK, HearKis, Goes, Ends
<1>5. ~HasRow(p)' /\ IsTrade(p)'
  BY <1>3 DEF HasRow, IsTrade, Row
<1>6. Gated(p)' /\ Traded(p)' /\ Sent(p)' /\ Filed(p)' /\ Told(p)'
  BY <1>3, <1>4, <1>5 DEF Gated, Traded, Sent, Filed, Told, Early
<1>7. Screened(p)' /\ RealOnly(p)'
  BY <1>3, <1>4, <1>5 DEF Screened, RealOnly, Checked
<1>8. PostInv(p)'
  BY <1>6, <1>7 DEF PostInv
<1>9. QED
  BY <1>1, <1>2, <1>8, OneRequest DEF HearKis

LEMMA MissStep == ASSUME Inv, NEW p \in Posts, MissKis(p) PROVE Inv'
<1>1. TypeOK'
  BY DEF Inv, TypeOK, MissKis, Strikes, Goes, Ends, InHandler, Codes, executor, Row
<1>2. \A q \in Posts \ {p} : Same(q)
  BY DEF Inv, TypeOK, MissKis, Strikes, Goes, Ends, Same
<1>3. at[p] = "kis" /\ ~HasRow(p) /\ p \in Keyed /\ IsTrade(p) /\ Screened(p) /\ RealOnly(p)
      /\ UNCHANGED <<order, kis, rows, token>>
  BY DEF Inv, PostInv, Filed, Gated, Traded, InHandler, MissKis
<1>4. at'[p] = "done" /\ answer'[p] \in {"400", "500"} /\ p \in hit'
  BY DEF Inv, TypeOK, MissKis, Strikes, Goes, Ends
<1>5. ~HasRow(p)' /\ IsTrade(p)'
  BY <1>3 DEF HasRow, IsTrade, Row
<1>6. Gated(p)' /\ Traded(p)' /\ Sent(p)' /\ Filed(p)' /\ Told(p)'
  BY <1>3, <1>4, <1>5 DEF Gated, Traded, Sent, Filed, Told, Early
<1>7. Screened(p)' /\ RealOnly(p)'
  BY <1>3, <1>4, <1>5 DEF Screened, RealOnly, Checked
<1>8. PostInv(p)'
  BY <1>6, <1>7 DEF PostInv
<1>9. QED
  BY <1>1, <1>2, <1>8, OneRequest DEF MissKis

LEMMA InsertStep == ASSUME Inv, NEW p \in Posts, InsertRow(p) PROVE Inv'
<1>1. TypeOK'
  BY DEF Inv, TypeOK, InsertRow, Strikes, Goes, Ends, InHandler, Codes, executor, Row
<1>2. \A q \in Posts \ {p} : Same(q)
  BY DEF Inv, TypeOK, InsertRow, Strikes, Goes, Ends, Same
<1>3. at[p] = "insert" /\ ~HasRow(p) /\ p \in Keyed /\ IsTrade(p) /\ Screened(p) /\ RealOnly(p)
      /\ kis[p] = "accepted" /\ UNCHANGED <<order, kis, rows, token>>
  BY DEF Inv, PostInv, Filed, Gated, Traded, Sent, InHandler, InsertRow
<1>4. \/ at'[p] = "commit" /\ answer' = answer /\ hit' = hit
      \/ at'[p] = "done" /\ answer'[p] = "500" /\ p \in hit'
  BY DEF Inv, TypeOK, InsertRow, Strikes, Goes, Ends
<1>5. ~HasRow(p)' /\ IsTrade(p)'
  BY <1>3 DEF HasRow, IsTrade, Row
<1>6. Gated(p)' /\ Traded(p)' /\ Sent(p)' /\ Filed(p)' /\ Told(p)'
  BY <1>3, <1>4, <1>5 DEF Gated, Traded, Sent, Filed, Told, Early
<1>7. Screened(p)' /\ RealOnly(p)'
  BY <1>3, <1>4, <1>5 DEF Screened, RealOnly, Checked
<1>8. PostInv(p)'
  BY <1>6, <1>7 DEF PostInv
<1>9. QED
  BY <1>1, <1>2, <1>8, OneRequest DEF InsertRow

LEMMA CommitStep == ASSUME Inv, NEW p \in Posts, CommitRow(p) PROVE Inv'
<1>1. rows' \subseteq rows \cup {Row(p)} /\ rows \subseteq rows'
  BY DEF CommitRow
<1>2. TypeOK'
  <2>1. rows' \subseteq {Row(q)' : q \in Posts}
    BY <1>1 DEF Inv, TypeOK, CommitRow, Row
  <2>2. QED
    BY <2>1 DEF Inv, TypeOK, CommitRow, Strikes, Goes, Ends, Codes, executor
<1>3. ASSUME NEW q \in Posts, q # p PROVE Same(q)
  <2>1. Row(q) \in rows' <=> Row(q) \in rows
    BY <1>1, <1>3, RowsDiffer
  <2>2. QED
    BY <1>3, <2>1 DEF Inv, TypeOK, CommitRow, Strikes, Goes, Ends, Same
<1>4. at[p] = "commit" /\ p \in Keyed /\ IsTrade(p) /\ Screened(p) /\ RealOnly(p)
      /\ kis[p] = "accepted" /\ UNCHANGED <<order, kis, token>>
  BY DEF Inv, PostInv, Gated, Traded, Sent, InHandler, CommitRow
<1>5. /\ at'[p] = "done"
      /\ (answer'[p] = "200" /\ Row(p) \in rows') \/ (answer'[p] = "500" /\ p \in hit')
  BY DEF Inv, TypeOK, CommitRow, Strikes, Goes, Ends
<1>6. IsTrade(p)' /\ (Row(p) \in rows' => HasRow(p)')
  BY <1>4 DEF HasRow, IsTrade, Row
<1>7. Gated(p)' /\ Traded(p)' /\ Sent(p)' /\ Filed(p)' /\ Told(p)'
  BY <1>4, <1>5, <1>6 DEF Gated, Traded, Sent, Filed, Told, Early
<1>8. Screened(p)' /\ RealOnly(p)'
  BY <1>4, <1>5, <1>6 DEF Screened, RealOnly, Checked
<1>9. PostInv(p)'
  BY <1>7, <1>8 DEF PostInv
<1>10. QED
  BY <1>2, <1>3, <1>9, OneRequest DEF CommitRow
-----------------------------------------------------------------------------
(* A crash ends every request in progress, and strikes it. *)
LEMMA CrashStep == ASSUME Inv, Crash PROVE Inv'
<1>1. TypeOK'
  BY DEF Inv, TypeOK, Crash, InProgress, Codes, executor, Row
<1>2. ASSUME NEW p \in InProgress PROVE PostInv(p)'
  <2>1. p \in Posts /\ at[p] \in InHandler /\ PostInv(p) /\ UNCHANGED <<order, kis, rows, token>>
    BY DEF Inv, InProgress, Crash
  <2>2. at'[p] = "done" /\ answer'[p] = "lost" /\ p \in hit'
    BY <2>1 DEF Crash
  <2>3. ~HasRow(p)' /\ (IsTrade(p)' <=> IsTrade(p))
    BY <2>1 DEF PostInv, Filed, HasRow, IsTrade, Row, InHandler
  <2>4. Gated(p)' /\ Screened(p)' /\ RealOnly(p)'
    BY <2>1, <2>2 DEF PostInv, Gated, Screened, RealOnly, InHandler, Checked
  <2>5. Traded(p)' /\ Sent(p)' /\ Filed(p)' /\ Told(p)'
    BY <2>2, <2>3 DEF Traded, Sent, Filed, Told, Early
  <2>6. QED
    BY <2>4, <2>5 DEF PostInv
<1>3. ASSUME NEW q \in Posts, q \notin InProgress PROVE PostInv(q)'
  <2>1. Same(q) /\ order' = order
    BY <1>3 DEF Crash, Same
  <2>2. QED
    BY <2>1, SameInv DEF Inv
<1>4. QED
  BY <1>1, <1>2, <1>3 DEF Inv

(* The orders of the book have never got past the gate, so that a batch    *)
(* that starts again finds them as they were at first.                     *)
LEMMA BookUntouched ==
    ASSUME Inv, NEW o \in BookOrders
    PROVE  /\ o \in Posts /\ kis[o] = "none" /\ ~HasRow(o) /\ answer[o] # "200"
           /\ at[o] \in {"idle", "gate", "done"}
<1>1. o \in Posts /\ o \notin Keyed
  BY RealAssumption DEF Posts
<1>2. QED
  BY <1>1 DEF Inv, TypeOK, PostInv, Gated, Filed, InHandler

LEMMA StartStep == ASSUME Inv, StartBatch PROVE Inv'
<1>1. TypeOK'
  BY DEF Inv, TypeOK, StartBatch, Codes, Row
<1>2. UNCHANGED <<order, kis, rows, hit, token, book>>
  BY DEF StartBatch
<1>3. ASSUME NEW o \in BookOrders, book[o] = "PENDING" PROVE PostInv(o)'
  <2>1. at'[o] = "idle" /\ answer'[o] = "none" /\ kis'[o] = "none" /\ ~HasRow(o)'
    BY <1>2, <1>3, BookUntouched DEF StartBatch, HasRow, Row
  <2>2. QED
    BY <2>1 DEF PostInv, Gated, Screened, RealOnly, Traded, Sent, Filed, Told,
      InHandler, Early, Checked
<1>4. ASSUME NEW q \in Posts, ~(q \in BookOrders /\ book[q] = "PENDING") PROVE PostInv(q)'
  <2>1. Same(q)
    BY <1>2, <1>4 DEF StartBatch, Same
  <2>2. QED
    BY <1>2, <2>1, SameInv DEF Inv
<1>5. QED
  BY <1>1, <1>3, <1>4 DEF Inv

LEMMA PostOrderStep == ASSUME Inv, NEW o \in BookOrders, PostOrder(o) PROVE Inv'
<1>1. TypeOK'
  BY DEF Inv, TypeOK, PostOrder, Goes, InHandler, executor, Row
<1>2. \A q \in Posts \ {o} : Same(q)
  BY DEF Inv, TypeOK, PostOrder, Goes, Same
<1>3. at'[o] = "gate" /\ UNCHANGED <<order, answer, kis, rows, hit, token>>
  BY BookUntouched DEF Inv, TypeOK, PostOrder, Goes
<1>4. kis'[o] = "none" /\ ~HasRow(o)' /\ answer'[o] # "200"
  BY <1>3, BookUntouched DEF HasRow, Row
<1>5. PostInv(o)'
  BY <1>3, <1>4 DEF PostInv, Gated, Screened, RealOnly, Traded, Sent, Filed, Told,
     InHandler, Early, Checked
<1>6. QED
  BY <1>1, <1>2, <1>5, BookUntouched, OneRequest DEF PostOrder

(* The steps of the executor in which no request moves. *)
LEMMA BookStep == ASSUME Inv, UNCHANGED service, TypeOK' PROVE Inv'
<1>1. ASSUME NEW q \in Posts PROVE PostInv(q)'
  <2>1. Same(q) /\ order' = order
    BY DEF service, Same
  <2>2. QED
    BY <2>1, SameInv DEF Inv
<1>2. QED
  BY <1>1 DEF Inv

LEMMA MarkStep ==
    ASSUME Inv, NEW o \in BookOrders, FailUnposted(o) \/ HearService(o)
    PROVE  Inv'
<1>1. UNCHANGED <<service, book, running>>
  BY DEF FailUnposted, HearService
<1>2. \E m \in {"FILLED", "FAILED"} : marks' = [marks EXCEPT ![o] = m]
  BY DEF FailUnposted, HearService
<1>3. TypeOK'
  BY <1>1, <1>2 DEF Inv, TypeOK, service, Row
<1>4. QED
  BY <1>1, <1>3, BookStep

LEMMA CommitBatchStep == ASSUME Inv, CommitBatch PROVE Inv'
<1>1. UNCHANGED <<service, marks>> /\ running' = FALSE
      /\ book' = [o \in BookOrders |-> IF book[o] = "PENDING" THEN marks[o] ELSE book[o]]
  BY DEF CommitBatch
<1>2. ASSUME NEW o \in BookOrders PROVE book'[o] \in {"PENDING", "FILLED", "FAILED"}
  BY <1>1, <1>2 DEF Inv, TypeOK, CommitBatch, Unmarked
<1>3. TypeOK'
  BY <1>1, <1>2 DEF Inv, TypeOK, service, Row
<1>4. QED
  BY <1>1, <1>3, BookStep

LEMMA RollbackStep == ASSUME Inv, RollbackBatch PROVE Inv'
<1>1. TypeOK'
  BY DEF Inv, TypeOK, RollbackBatch, service, Row
<1>2. QED
  BY <1>1, BookStep DEF RollbackBatch

LEMMA StutterStep == ASSUME Inv, UNCHANGED vars PROVE Inv'
<1>1. TypeOK'
  BY DEF Inv, TypeOK, vars, service, executor, Row
<1>2. QED
  BY <1>1, BookStep DEF vars
-----------------------------------------------------------------------------
LEMMA NextInv == Inv /\ [Next]_vars => Inv'
<1> SUFFICES ASSUME Inv, [Next]_vars PROVE Inv'
  OBVIOUS
<1>1. ASSUME NEW p \in Posts, Post(p) \/ KisDecides(p) PROVE Inv'
  BY <1>1, PostStep, DecideStep
<1>2. ASSUME NEW p \in Posts, Handle(p) PROVE Inv'
  BY <1>2, GateStep, RiskStep, LossStep, ClientStep, TokenStep, FailStep, SendStep, HearStep,
     MissStep, InsertStep, CommitStep DEF Handle
<1>3. CASE Execute
  BY <1>3, StartStep, PostOrderStep, MarkStep, CommitBatchStep, RollbackStep DEF Execute
<1>4. QED
  BY <1>1, <1>2, <1>3, CrashStep, StutterStep DEF Next

(* The invariant holds in every behaviour. *)
THEOREM InvAlways == Spec => []Inv
BY InitInv, NextInv, PTL DEF Spec

(* Every variable keeps its type. *)
THEOREM TypeCorrect == Spec => []TypeOK
<1>1. Inv => TypeOK
  BY DEF Inv
<1>2. QED
  BY <1>1, InvAlways, PTL

(* Table orders and KIS agree, but for faults between the two.             *)
THEOREM RowsMatchKisAlways == Spec => []RowsMatchKis
<1>1. Inv => RowsMatchKis
  BY DEF Inv, RowsMatchKis, Trades, PostInv, Filed, Told, HasRow, IsTrade
<1>2. QED
  BY <1>1, InvAlways, PTL

(* The caller can go by the answer. *)
THEOREM AnswerTrueAlways == Spec => []AnswerTrue
<1>1. Inv => AnswerTrue
  BY DEF Inv, AnswerTrue, Trades, PostInv, Told, HasRow, IsTrade
<1>2. QED
  BY <1>1, InvAlways, PTL

(* All orders pass the checks. *)
THEOREM OnlyCheckedAlways == Spec => []OnlyChecked
<1>1. Inv => OnlyChecked
  <2> SUFFICES ASSUME Inv, NEW p \in Posts, kis[p] # "none",
                      NEW o, o = order[p], NEW row, row = Account[o.account]
               PROVE  /\ p \in Keyed /\ IsReal(o.account) /\ o.value <= SingleOrderLimit
                      /\ o.side = "BUY" =>
                           /\ o.value <= row.cash
                           /\ row.initial = 0 \/ 100 * (row.held[o.ticker] + o.value)
                                                   <= MaxPositionPct * row.initial
                           /\ row.held[o.ticker] > 0
                                \/ Cardinality(HeldTickers(o.account)) < MaxPositions
    BY DEF OnlyChecked
  <2>1. p \in Keyed /\ IsReal(o.account) /\ CheckOrder(o) /\ o.account \in Accounts
    BY DEF Inv, PostInv, Gated, Screened, RealOnly
  <2>2. row.initial \in Nat /\ row.held[o.ticker] \in Nat
    <3>1. o.ticker \in Tickers
      BY RealAssumption DEF Inv, TypeOK
    <3>2. QED
      BY <2>1, <3>1, RealAssumption
  <2>3. QED
    BY <2>1, <2>2 DEF CheckOrder
<1>2. QED
  BY <1>1, InvAlways, PTL
=============================================================================
