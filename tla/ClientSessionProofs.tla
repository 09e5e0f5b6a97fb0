------------------------- MODULE ClientSessionProofs -------------------------
(***************************************************************************)
(* Theorems about ClientSession, for any number of tabs, calls and tokens. *)
(* Every step is one of Auth or leaves it alone, so that Auth's invariant  *)
(* (module AuthProofs) holds here too; what is added is what the browser   *)
(* knows of its requests, and who else may hold the stored token.          *)
(***************************************************************************)
EXTENDS ClientSession, AuthProofs

(* Every token is the user's; that one expires, or its answer will not be  *)
(* taken, is an excuse.                                                    *)
TokensKnown ==
    /\ \A t \in Issued : owner[t] = Me
    /\ revoked \subseteq Issued
    /\ store \in Issued \cup {NoToken}
    /\ expired # {} => excused
    /\ orphaned # {} => excused

(* What a call may have sent. *)
RequestKnown(c) ==
    /\ req[c].token \in Issued \cup {NoToken}
    /\ req[c].step # "idle" =>
         /\ req[c].op \in {"login", "refresh"} /\ req[c].user = Me
         /\ req[c].op = "refresh" => req[c].token \in Issued
    /\ req[c].step = "answered" => req[c].answer # "none"

(* A token in an answer that is not taken yet is live, and nobody else has *)
(* it.                                                                     *)
NewToken(c) ==
    /\ given[c] # NoToken =>
         /\ given[c] \in Issued \ revoked /\ given[c] # store
         /\ \A d \in Calls : req[d].token # given[c] /\ (d # c => given[d] # given[c])
    /\ Answered(c, "ok") => given[c] # NoToken

(* A call and its request: the page that is gone is an excuse. *)
CallAgrees(c) ==
    /\ call[c].step \in {"idle", "asked", "401", "other"} => req[c].step = "idle"
    /\ call[c].step \in {"posted", "refreshing", "gone"} => req[c].step # "idle"
    /\ call[c].step = "refreshing" => req[c].op = "refresh"
    /\ call[c].step = "posted" => req[c].op = "login"
    /\ call[c].step = "gone" => excused
    /\ call[c].step = "gone" /\ req[c].op = "refresh" => req[c].token \in orphaned

(* The only call refreshes with the stored token, and is not refused. *)
HoldsStored(c) ==
    call[c].step = "refreshing" /\ ~excused =>
        /\ req[c].token = store /\ req[c].answer # "refused"
        /\ req[c].step \in {"sent", "writing"} => store \notin revoked

Alone ==
    /\ \A c, d \in Busy : c = d
    /\ store = NoToken => excused
    /\ \A c \in Calls : HoldsStored(c)

ServerSide == TokensKnown /\ \A c \in Calls : RequestKnown(c) /\ NewToken(c)
BrowserSide ==
    /\ \A c \in Calls : CallAgrees(c)
    /\ StoredUsable
    /\ alone => Alone

ClientInv == Inv /\ ClientTypeOK /\ ServerSide /\ BrowserSide
-----------------------------------------------------------------------------
LEMMA InitClientInv == ClientInit => ClientInv
<1> SUFFICES ASSUME ClientInit PROVE ClientInv
  OBVIOUS
<1>1. First \in Tokens /\ First # NoToken
  BY ClientAssumption, AuthAssumption DEF First
<1>2. Me \in Users /\ Me # Nobody
  BY ClientAssumption, AuthAssumption
<1>3. Issued = {First}
  BY <1>1, <1>2 DEF ClientInit, Issued
<1>4. TypeOK
  BY <1>1, <1>2, IdleType, AuthAssumption DEF ClientInit, TypeOK, TablesOK
<1>5. Inv
  BY <1>1, <1>3, <1>4, IdleType DEF ClientInit, Inv, TypeOK, RequestInv, TokenInv, EnabledHasSecret
<1>6. ClientTypeOK
  BY <1>1, <1>4 DEF ClientInit, ClientTypeOK, NoCall, CallRecord
<1>7. Idle.token = NoToken /\ Idle.step = "idle"
  BY DEF Idle
<1>8. TokensKnown
  BY <1>1, <1>3 DEF ClientInit, TokensKnown
<1>9. \A c \in Calls : RequestKnown(c) /\ NewToken(c)
  BY <1>7 DEF ClientInit, RequestKnown, NewToken, Answered, Calls
<1>10. \A c \in Calls : CallAgrees(c)
  BY <1>7 DEF ClientInit, CallAgrees, NoCall, Calls
<1>11. StoredUsable /\ Alone
  BY <1>1 DEF ClientInit, StoredUsable, Alone, HoldsStored, Busy, NoCall
<1>12. QED
  BY <1>5, <1>6, <1>8, <1>9, <1>10, <1>11 DEF ClientInv, ServerSide, BrowserSide
-----------------------------------------------------------------------------
(* The browser only sends what clients of Auth send. *)
LEMMA StepImplements == ClientInv /\ [ClientNext]_allVars => [Next]_vars
<1> SUFFICES ASSUME ClientInv, [ClientNext]_allVars, ~UNCHANGED vars PROVE Next
  OBVIOUS
<1> USE DEF Calls
<1>1. ASSUME NEW c \in Calls, PostLogin(c) PROVE SendAny(c)
  BY <1>1, ClientAssumption DEF PostLogin, SendAny
<1>2. ASSUME NEW c \in Calls, On401(c) PROVE SendAny(c)
  <2>1. store # NoToken /\ Send(c, "refresh", Me, store, NoSecret, FALSE)
    BY <1>2 DEF On401
  <2>2. store \in Issued /\ owner[store] = Me
    BY <2>1 DEF ClientInv, ServerSide, TokensKnown
  <2>3. QED
    BY <2>1, <2>2 DEF SendAny
<1>3. ASSUME NEW c \in Calls, Browser(c) PROVE SendAny(c) \/ Receive(c)
  BY <1>1, <1>2, <1>3
  DEF Browser, Judge, PassOn, Refreshed, RefreshFailed, LoggedIn, LoginRefused, Discard
<1>4. ~ \E c \in Calls : Ask(c) \/ LogIn(c)
  BY DEF Ask, LogIn
<1>5. ASSUME Server PROVE Next
  <2>1. \A t \in stale : t \in Tokens
    BY DEF ClientInv, ClientTypeOK
  <2>2. QED
    BY <1>5, <2>1, ClientAssumption DEF Server, Next
<1>6. QED
  BY <1>3, <1>4, <1>5 DEF ClientNext, SignOut, Unload, AccessExpires, Next, allVars

LEMMA InvKept == ClientInv /\ [ClientNext]_allVars => Inv' /\ TypeOK'
<1> SUFFICES ASSUME ClientInv, [ClientNext]_allVars PROVE Inv' /\ TypeOK'
  OBVIOUS
<1>1. [Next]_vars
  BY StepImplements
<1>2. Inv'
  BY <1>1, NextInv DEF ClientInv
<1>3. overlapped' \in BOOLEAN
  BY <1>1, OverlapStep DEF ClientInv, ClientTypeOK, TypeOK
<1>4. QED
  BY <1>2, <1>3 DEF Inv, TypeOK
-----------------------------------------------------------------------------
(* What moves: one call, one request.                                      *)
Moves(c, to) ==
    /\ call' \in [Calls -> CallRecord] /\ call'[c].step = to
    /\ \A d \in Calls \ {c} : call'[d] = call[d]

LEMMA EndsMoves ==
    ASSUME ClientTypeOK, NEW c \in Calls, Ends(c)
    PROVE  Moves(c, "idle")
BY DEF Ends, Moves, ClientTypeOK, CallRecord, NoCall

LEMMA GoesToMoves ==
    ASSUME ClientTypeOK, NEW c \in Calls,
           NEW to \in {"asked", "posted", "401", "other", "refreshing"}, Goes(c, to)
    PROVE  Moves(c, to)
BY DEF Goes, Moves, ClientTypeOK, CallRecord

LEMMA SendFacts ==
    ASSUME TypeOK, NEW c \in Calls, NEW op \in Ops, NEW t \in Tokens \cup {NoToken},
           NEW password \in BOOLEAN, Send(c, op, Me, t, NoSecret, password)
    PROVE  /\ req[c].step = "idle" /\ req'[c].step = "sent" /\ req'[c].op = op
           /\ req'[c].user = Me /\ req'[c].token = t /\ req'[c].answer = "none"
           /\ \A d \in Calls \ {c} : req'[d] = req[d]
           /\ UNCHANGED <<owner, revoked, expired, given>>
<1> DEFINE n == [op |-> op, step |-> "sent", answer |-> "none", user |-> Me, token |-> t,
                 code |-> NoSecret, password |-> password, late |-> t \in revoked]
<1>1. req \in [Calls -> RequestRecord] /\ req' = [req EXCEPT ![c] = n]
  BY DEF TypeOK, TablesOK, Send, Calls
<1>2. QED
  BY <1>1 DEF Send, tokens, rows

LEMMA ReceiveFacts ==
    ASSUME TypeOK, NEW c \in Calls, Receive(c)
    PROVE  /\ req[c].step = "answered"
           /\ req'[c].step = "idle" /\ req'[c].token = NoToken /\ given'[c] = NoToken
           /\ \A d \in Calls \ {c} : req'[d] = req[d] /\ given'[d] = given[d]
           /\ UNCHANGED <<owner, revoked, expired>>
<1>1. req \in [Calls -> RequestRecord] /\ given \in [Calls -> Tokens \cup {NoToken}]
  BY DEF TypeOK, TablesOK, Calls
<1>2. Idle.step = "idle" /\ Idle.token = NoToken
  BY DEF Idle
<1>3. QED
  BY <1>1, <1>2 DEF Receive, rows
-----------------------------------------------------------------------------
(* Steps of the browser alone.                                             *)
LEMMA SameServer ==
    ASSUME ClientInv, UNCHANGED vars, store' \in {store, NoToken}, excused => excused',
           orphaned' # {} => excused'
    PROVE  ServerSide'
<1>1. TokensKnown'
  BY DEF ClientInv, ServerSide, TokensKnown, Issued, vars, tokens, rows
<1>2. ASSUME NEW c \in Calls PROVE RequestKnown(c)' /\ NewToken(c)'
  BY DEF ClientInv, ServerSide, RequestKnown, NewToken, Answered, Issued, vars, tokens, rows
<1>3. QED
  BY <1>1, <1>2 DEF ServerSide

LEMMA LocalStep ==
    ASSUME ClientInv, NEW c \in Calls, UNCHANGED vars,
           NEW to \in {"idle", "asked", "401", "other"}, Moves(c, to),
           call[c].step \in {"idle", "asked", "401", "other"},
           store' = store \/ (store' = NoToken /\ excused'),
           excused => excused', orphaned' = orphaned,
           alone' => alone /\ (call[c].step # "idle" \/ Busy = {})
    PROVE  ServerSide' /\ BrowserSide'
<1> USE DEF ClientInv, BrowserSide
<1>1. ServerSide'
  BY SameServer DEF ServerSide, TokensKnown
<1>2. req' = req /\ revoked' = revoked /\ req[c].step = "idle"
  BY DEF vars, tokens, rows, CallAgrees
<1>3. \A d \in Calls : CallAgrees(d)'
  BY <1>2 DEF CallAgrees, Moves
<1>4. \A d \in Calls : call'[d].step = "refreshing" <=> call[d].step = "refreshing"
  BY DEF Moves
<1>5. StoredUsable'
  <2>1. CASE store' = NoToken
    BY <2>1, <1>1, AuthAssumption DEF StoredUsable, ServerSide, TokensKnown, Issued
  <2>2. CASE store' = store
    BY <2>2, <1>2, <1>4 DEF StoredUsable, Answered
  <2>3. QED
    BY <2>1, <2>2
<1>6. ASSUME alone' PROVE Alone'
  <2>1. Busy' \subseteq Busy \cup {c} /\ (c \in Busy \/ Busy = {})
    BY <1>6 DEF Busy, Moves
  <2>2. \A d, e \in Busy' : d = e
    BY <1>6, <2>1 DEF Alone
  <2>3. store' = NoToken => excused'
    BY <1>6 DEF Alone
  <2>4. ASSUME NEW d \in Calls PROVE HoldsStored(d)'
    <3>1. CASE excused'
      BY <3>1 DEF HoldsStored
    <3>2. CASE ~excused'
      BY <1>2, <1>4, <1>6, <3>2 DEF Alone, HoldsStored
    <3>3. QED
      BY <3>1, <3>2
  <2>5. QED
    BY <2>2, <2>3, <2>4 DEF Alone
<1>7. QED
  BY <1>1, <1>3, <1>5, <1>6

LEMMA AskInv ==
    ASSUME ClientInv, NEW c \in Calls, Ask(c) \/ LogIn(c)
    PROVE  ClientTypeOK' /\ ServerSide' /\ BrowserSide'
<1> USE DEF ClientInv
<1>1. Moves(c, "asked")
  <2>1. [NoCall EXCEPT !.step = "asked", !.with = store] \in CallRecord
        /\ [NoCall EXCEPT !.step = "asked", !.with = store].step = "asked"
    BY DEF NoCall, CallRecord, ClientTypeOK
  <2>2. [NoCall EXCEPT !.kind = "login", !.step = "asked"] \in CallRecord
        /\ [NoCall EXCEPT !.kind = "login", !.step = "asked"].step = "asked"
    BY DEF NoCall, CallRecord
  <2>3. ASSUME NEW n \in CallRecord, n.step = "asked", call' = [call EXCEPT ![c] = n]
        PROVE  Moves(c, "asked")
    BY <2>3 DEF Moves, ClientTypeOK
  <2>4. QED
    BY <2>1, <2>2, <2>3 DEF Ask, LogIn
<1>2. ServerSide' /\ BrowserSide'
  <2>1. alone' => alone /\ Busy = {}
    BY DEF Ask, LogIn
  <2>2. UNCHANGED <<vars, store, orphaned, excused>> /\ call[c].step = "idle"
    BY DEF Ask, LogIn
  <2>3. QED
    BY <1>1, <2>1, <2>2, LocalStep
<1>3. QED
  BY <1>1, <1>2 DEF Ask, LogIn, Moves, ClientTypeOK, TypeOK, TablesOK, vars, users, tokens, rows

LEMMA ReplyInv ==
    ASSUME ClientInv, NEW c \in Calls, Judge(c) \/ PassOn(c) \/ On401(c), UNCHANGED vars
    PROVE  ClientTypeOK' /\ ServerSide' /\ BrowserSide'
<1> USE DEF ClientInv
<1>1. ~(On401(c) /\ store # NoToken /\ ~call[c].retried)
  <2>1. SUFFICES ASSUME Send(c, "refresh", Me, store, NoSecret, FALSE), TypeOK, store \in Tokens
                 PROVE  FALSE
    BY DEF On401, ClientTypeOK
  <2>2. req[c].step = "idle" /\ req'[c].step = "sent"
    BY <2>1, SendFacts DEF Ops
  <2>3. QED
    BY <2>2 DEF vars
<1>2. \E to \in {"idle", "401", "other"} : Moves(c, to)
  BY <1>1, GoesToMoves, EndsMoves DEF Judge, PassOn, On401
<1>3. /\ call[c].step \in {"asked", "401", "other"}
      /\ (store' = store /\ excused' = excused) \/ (store' = NoToken /\ excused' = TRUE)
      /\ stale' = stale /\ leaving' = leaving /\ alone' = alone /\ orphaned' = orphaned
  BY <1>1 DEF Judge, PassOn, On401, Rejected
<1>4. ServerSide' /\ BrowserSide'
  BY <1>2, <1>3, LocalStep
<1>5. QED
  BY <1>2, <1>3, <1>4
  DEF Moves, ClientTypeOK, TypeOK, TablesOK, vars, users, tokens, rows

(* Nothing happens to the calls. *)
LEMMA SameCalls ==
    ASSUME ClientInv, UNCHANGED <<vars, call, alone, orphaned>>,
           store' = store \/ (store' = NoToken /\ excused'),
           excused => excused'
    PROVE  ServerSide' /\ BrowserSide'
<1> USE DEF ClientInv, BrowserSide
<1>1. ServerSide'
  BY SameServer DEF ServerSide, TokensKnown
<1>2. req' = req /\ revoked' = revoked /\ call' = call /\ Busy' = Busy
  BY DEF vars, tokens, rows, Busy
<1>3. \A d \in Calls : CallAgrees(d)'
  BY <1>2 DEF CallAgrees
<1>4. StoredUsable'
  <2>1. CASE store' = NoToken
    BY <2>1, <1>1, AuthAssumption DEF StoredUsable, ServerSide, TokensKnown, Issued
  <2>2. CASE store' = store
    BY <2>2, <1>2 DEF StoredUsable, Answered
  <2>3. QED
    BY <2>1, <2>2
<1>5. (alone => Alone)'
  BY <1>2 DEF Alone, HoldsStored
<1>6. QED
  BY <1>1, <1>3, <1>4, <1>5

LEMMA SignOutInv ==
    ASSUME ClientInv, SignOut
    PROVE  ClientTypeOK' /\ ServerSide' /\ BrowserSide'
<1>1. ServerSide' /\ BrowserSide'
  BY SameCalls DEF SignOut
<1>2. QED
  BY <1>1
  DEF SignOut, ClientInv, ClientTypeOK, TypeOK, TablesOK, vars, users, tokens, rows

LEMMA AccessExpiresInv ==
    ASSUME ClientInv, NEW t \in Tokens, AccessExpires(t)
    PROVE  ClientTypeOK' /\ ServerSide' /\ BrowserSide'
<1>1. ServerSide' /\ BrowserSide'
  BY SameCalls DEF AccessExpires
<1>2. QED
  BY <1>1
  DEF AccessExpires, ClientInv, ClientTypeOK, TypeOK, TablesOK, vars, users, tokens, rows

LEMMA IdleInv ==
    ASSUME ClientInv, UNCHANGED allVars
    PROVE  ClientTypeOK' /\ ServerSide' /\ BrowserSide'
<1>1. ServerSide' /\ BrowserSide'
  BY SameCalls DEF allVars, clientVars
<1>2. QED
  BY <1>1
  DEF allVars, clientVars, ClientInv, ClientTypeOK, TypeOK, TablesOK, vars, users, tokens, rows

(* A tab that unloads leaves its requests behind. *)
LEMMA UnloadInv ==
    ASSUME ClientInv, NEW tab \in Tabs, Unload(tab)
    PROVE  ClientTypeOK' /\ ServerSide' /\ BrowserSide'
<1> USE DEF ClientInv, BrowserSide
<1>1. /\ UNCHANGED vars /\ store' = store /\ alone' = alone /\ stale' = stale
      /\ leaving' = leaving \ {tab}
  BY DEF Unload
<1>2. \A c \in Calls :
        \/ call'[c] = call[c]
        \/ req[c].step = "idle" /\ c \in Busy /\ call'[c] = NoCall
        \/ req[c].step # "idle" /\ c \in Busy /\ excused'
             /\ call'[c] = [NoCall EXCEPT !.step = "gone"]
             /\ (call[c].step = "refreshing" => req[c].token \in orphaned')
  BY DEF Unload
<1>3. excused' \in BOOLEAN /\ (excused => excused') /\ orphaned \subseteq orphaned'
  BY DEF Unload, ClientTypeOK
<1>13. orphaned' # {} => excused'
  <2>1. ASSUME NEW c \in Calls, call[c].step = "refreshing" PROVE req[c].step # "idle"
    BY <2>1 DEF CallAgrees
  <2>2. orphaned' # {} =>
          orphaned # {} \/ \E c \in Busy : TabOf[c] = tab /\ call[c].step = "refreshing"
    BY DEF Unload
  <2>3. ASSUME NEW c \in Busy, TabOf[c] = tab, call[c].step = "refreshing" PROVE excused'
    BY <2>1, <2>3 DEF Unload, Busy
  <2>4. QED
    BY <1>3, <2>2, <2>3 DEF ServerSide, TokensKnown
<1>14. orphaned' \subseteq Tokens
  <2>1. ASSUME NEW c \in Calls, call[c].step = "refreshing" PROVE req[c].token \in Tokens
    BY <2>1 DEF CallAgrees, ServerSide, RequestKnown, Issued
  <2>2. QED
    BY <2>1 DEF Unload, ClientTypeOK, Busy
<1>4. NoCall \in CallRecord /\ NoCall.step = "idle"
      /\ [NoCall EXCEPT !.step = "gone"] \in CallRecord
      /\ [NoCall EXCEPT !.step = "gone"].step = "gone"
  BY DEF NoCall, CallRecord
<1>5. ClientTypeOK'
  <2>1. call' \in [Calls -> CallRecord]
    <3>1. \A c \in Calls : call'[c] \in CallRecord
      BY <1>2, <1>4 DEF ClientTypeOK
    <3>2. call' = [c \in Calls |-> call'[c]]
      BY DEF Unload
    <3>3. QED
      BY <3>1, <3>2
  <2>2. QED
    BY <1>1, <1>3, <1>14, <2>1 DEF ClientTypeOK, TypeOK, TablesOK, vars, users, tokens, rows
<1>6. ServerSide'
  BY <1>1, <1>3, <1>13, SameServer
<1>7. req' = req /\ revoked' = revoked
  BY <1>1 DEF vars, tokens, rows
<1>8. ASSUME NEW c \in Calls PROVE CallAgrees(c)'
  <2>1. CASE call'[c] = call[c]
    BY <1>3, <1>7, <2>1 DEF CallAgrees
  <2>2. CASE call'[c] # call[c]
    <3>1. call[c].step \in {"idle", "asked", "posted", "401", "other", "refreshing", "gone"}
      BY DEF ClientTypeOK, CallRecord
    <3>2. QED
      BY <1>2, <1>3, <1>4, <1>7, <2>2, <3>1 DEF CallAgrees
  <2>3. QED
    BY <2>1, <2>2
<1>9. \A c \in Calls :
        call[c].step = "refreshing" /\ req[c].token \notin orphaned' => call'[c] = call[c]
  BY <1>2 DEF CallAgrees
<1>10. StoredUsable'
  BY <1>1, <1>3, <1>7, <1>9 DEF StoredUsable, Answered
<1>11. ASSUME alone' PROVE Alone'
  <2>1. Busy' \subseteq Busy
    BY <1>2, <1>4 DEF Busy
  <2>2. ASSUME NEW c \in Calls PROVE HoldsStored(c)'
    <3>1. CASE excused'
      BY <3>1 DEF HoldsStored
    <3>2. CASE ~excused'
      <4>1. call'[c].step = "refreshing" => call[c].step = "refreshing"
        BY <1>2, <1>4, <3>2
      <4>2. QED
        BY <1>1, <1>3, <1>7, <1>11, <3>2, <4>1 DEF Alone, HoldsStored
    <3>3. QED
      BY <3>1, <3>2
  <2>3. QED
    BY <1>1, <1>3, <1>11, <2>1, <2>2 DEF Alone
<1>12. QED
  BY <1>5, <1>6, <1>8, <1>10, <1>11
-----------------------------------------------------------------------------
(* A request is sent. *)
LEMMA SendStep ==
    ASSUME ClientInv, NEW c \in Calls, NEW op \in {"login", "refresh"},
           NEW t \in Tokens \cup {NoToken}, NEW password \in BOOLEAN,
           Send(c, op, Me, t, NoSecret, password),
           \/ op = "login" /\ t = NoToken /\ Moves(c, "posted")
           \/ op = "refresh" /\ t = store /\ store # NoToken /\ Moves(c, "refreshing"),
           call[c].step \in {"asked", "401"},
           UNCHANGED <<store, alone, orphaned, excused>>
    PROVE  ServerSide' /\ BrowserSide'
<1> USE DEF ClientInv, BrowserSide, ServerSide
<1>1. /\ req[c].step = "idle" /\ req'[c].step = "sent" /\ req'[c].op = op
      /\ req'[c].user = Me /\ req'[c].token = t /\ req'[c].answer = "none"
      /\ \A d \in Calls \ {c} : req'[d] = req[d]
      /\ UNCHANGED <<owner, revoked, expired, given>>
  BY SendFacts DEF Ops, ClientTypeOK
<1>2. Issued' = Issued
  BY <1>1 DEF Issued
<1>3. TokensKnown'
  BY <1>1, <1>2 DEF TokensKnown
<1>4. t \in Issued \cup {NoToken} /\ (op = "refresh" => t \in Issued)
  BY DEF TokensKnown
<1>5. ASSUME NEW d \in Calls PROVE RequestKnown(d)'
  BY <1>1, <1>2, <1>4 DEF RequestKnown
<1>6. ASSUME NEW d \in Calls PROVE NewToken(d)'
  <2>1. given[d] # NoToken => t # given[d]
    BY DEF NewToken
  <2>2. Answered(d, "ok")' => Answered(d, "ok")
    BY <1>1 DEF Answered
  <2>3. QED
    BY <1>1, <1>2, <2>1, <2>2 DEF NewToken
<1>7. ASSUME NEW d \in Calls PROVE CallAgrees(d)'
  <2>1. CASE d = c
    BY <1>1, <2>1 DEF CallAgrees, Moves
  <2>2. CASE d # c
    BY <1>1, <2>2 DEF CallAgrees, Moves
  <2>3. QED
    BY <2>1, <2>2
<1>8. StoredUsable'
  <2>1. ASSUME NEW d \in Calls, call[d].step = "refreshing", Answered(d, "ok"), req[d].token = store
        PROVE  call'[d].step = "refreshing" /\ Answered(d, "ok")' /\ req'[d].token = store'
    <3>1. d # c
      BY <2>1
    <3>2. QED
      BY <1>1, <2>1, <3>1 DEF Moves, Answered
  <2>2. QED
    BY <1>1, <2>1 DEF StoredUsable
<1>9. ASSUME alone' PROVE Alone'
  <2>1. alone /\ Alone
    BY <1>9
  <2>2. \A d \in Calls : d # c => call[d].step = "idle" /\ call'[d].step = "idle"
    BY <2>1 DEF Alone, Busy, Moves
  <2>3. \A d, e \in Busy' : d = e
    BY <2>2 DEF Busy
  <2>4. store \notin revoked \/ excused
    BY <2>1, <2>2 DEF StoredUsable, TokensKnown
  <2>5. HoldsStored(c)'
    BY <1>1, <2>4 DEF HoldsStored, Moves
  <2>6. \A d \in Calls : HoldsStored(d)'
    BY <2>2, <2>5 DEF HoldsStored
  <2>7. QED
    BY <2>1, <2>3, <2>6 DEF Alone
<1>10. QED
  BY <1>3, <1>5, <1>6, <1>7, <1>8, <1>9

LEMMA PostLoginInv ==
    ASSUME ClientInv, NEW c \in Calls, PostLogin(c), TypeOK'
    PROVE  ClientTypeOK' /\ ServerSide' /\ BrowserSide'
<1> USE DEF ClientInv
<1>1. PICK password \in BOOLEAN : Send(c, "login", Me, NoToken, NoSecret, password)
  BY DEF PostLogin
<1>2. Moves(c, "posted") /\ call[c].step = "asked"
      /\ UNCHANGED <<store, alone, orphaned, excused>>
  BY GoesToMoves DEF PostLogin
<1>3. ServerSide' /\ BrowserSide'
  BY <1>1, <1>2, SendStep
<1>4. QED
  BY <1>2, <1>3 DEF PostLogin, Moves, ClientTypeOK

LEMMA SendRefreshInv ==
    ASSUME ClientInv, NEW c \in Calls, On401(c), ~UNCHANGED vars, TypeOK'
    PROVE  ClientTypeOK' /\ ServerSide' /\ BrowserSide'
<1> USE DEF ClientInv
<1>1. /\ store # NoToken /\ Send(c, "refresh", Me, store, NoSecret, FALSE)
      /\ call' = [call EXCEPT ![c].step = "refreshing", ![c].retried = TRUE]
      /\ call[c].step = "401" /\ UNCHANGED <<store, excused, stale, leaving, alone, orphaned>>
  BY DEF On401
<1>2. Moves(c, "refreshing")
  BY <1>1 DEF Moves, ClientTypeOK, CallRecord
<1>3. ServerSide' /\ BrowserSide'
  BY <1>1, <1>2, SendStep DEF ClientTypeOK
<1>4. QED
  BY <1>1, <1>2, <1>3 DEF Moves, ClientTypeOK
-----------------------------------------------------------------------------
(* An answer is taken. *)
LEMMA ReceiveStep ==
    ASSUME ClientInv, NEW c \in Calls, Receive(c),
           NEW to \in {"idle", "asked", "401"}, Moves(c, to),
           \/ store' = given[c] /\ Answered(c, "ok")
           \/ store' = NoToken /\ (excused' \/ req[c].answer # "ok")
              /\ call[c].step = "refreshing"
           \/ store' = store /\ call[c].step \in {"posted", "gone"},
           excused => excused', alone' = alone, orphaned' = orphaned
    PROVE  ServerSide' /\ BrowserSide'
<1> USE DEF ClientInv, BrowserSide, ServerSide
<1>1. /\ req[c].step = "answered"
      /\ req'[c].step = "idle" /\ req'[c].token = NoToken /\ given'[c] = NoToken
      /\ \A d \in Calls \ {c} : req'[d] = req[d] /\ given'[d] = given[d]
      /\ UNCHANGED <<owner, revoked, expired>>
  BY ReceiveFacts DEF ClientTypeOK
<1>2. Issued' = Issued
  BY <1>1 DEF Issued
<1>3. given[c] \in (Issued \ revoked) \cup {NoToken} /\ (Answered(c, "ok") => given[c] # NoToken)
  BY DEF NewToken
<1>4. TokensKnown'
  BY <1>1, <1>2, <1>3 DEF TokensKnown
<1>5. ASSUME NEW d \in Calls PROVE RequestKnown(d)'
  BY <1>1, <1>2 DEF RequestKnown
<1>6. ASSUME NEW d \in Calls PROVE NewToken(d)'
  <2>1. CASE d = c
    BY <1>1, <2>1 DEF NewToken, Answered
  <2>2. CASE d # c
    <3>1. Answered(d, "ok")' <=> Answered(d, "ok")
      BY <1>1, <2>2 DEF Answered
    <3>2. given[d] # NoToken => given[d] # store'
      BY <2>2 DEF NewToken
    <3>3. QED
      BY <1>1, <1>2, <2>2, <3>1, <3>2 DEF NewToken
  <2>3. QED
    BY <2>1, <2>2
<1>7. ASSUME NEW d \in Calls PROVE CallAgrees(d)'
  BY <1>1 DEF CallAgrees, Moves
<1>8. NoToken \notin revoked
  BY AuthAssumption DEF ClientTypeOK, TypeOK, TablesOK
<1>9. StoredUsable'
  <2>1. CASE store' # store
    BY <1>1, <1>3, <1>8, <2>1 DEF StoredUsable
  <2>2. CASE store' = store /\ store = NoToken
    BY <1>1, <1>8, <2>2 DEF StoredUsable
  <2>3. CASE store' = store /\ store # NoToken
    <3>1. call[c].step # "refreshing"
      BY <1>1, <1>3, <2>3 DEF NewToken
    <3>2. ASSUME NEW d \in Calls, call[d].step = "refreshing", Answered(d, "ok"),
                 req[d].token = store
          PROVE  call'[d].step = "refreshing" /\ Answered(d, "ok")' /\ req'[d].token = store'
      BY <1>1, <2>3, <3>1, <3>2 DEF Moves, Answered
    <3>3. QED
      BY <1>1, <2>3, <3>2 DEF StoredUsable
  <2>4. QED
    BY <2>1, <2>2, <2>3
<1>10. ASSUME alone' PROVE Alone'
  <2>1. alone /\ Alone
    BY <1>10
  <2>2. c \in Busy
    BY <1>1 DEF Busy, CallAgrees
  <2>3. \A d \in Calls : d # c => call'[d].step = "idle"
    BY <2>1, <2>2 DEF Alone, Busy, Moves
  <2>4. \A d, e \in Busy' : d = e
    BY <2>3 DEF Busy
  <2>5. store' = NoToken => excused'
    <3>1. CASE store' = given[c] /\ Answered(c, "ok")
      BY <1>3, <3>1
    <3>2. CASE call[c].step = "refreshing" /\ req[c].answer # "ok"
      <4>1. req[c].answer = "refused"
        BY <1>1, <3>2, RequestFields DEF RequestKnown, ClientTypeOK, TypeOK, RequestRecord, Calls
      <4>2. QED
        BY <2>1, <3>2, <4>1 DEF Alone, HoldsStored
    <3>3. QED
      BY <2>1, <3>1, <3>2 DEF Alone
  <2>6. \A d \in Calls : HoldsStored(d)'
    BY <2>3 DEF HoldsStored, Moves
  <2>7. QED
    BY <2>4, <2>5, <2>6 DEF Alone
<1>11. QED
  BY <1>4, <1>5, <1>6, <1>7, <1>9, <1>10

LEMMA AnswerInv ==
    ASSUME ClientInv, NEW c \in Calls, TypeOK',
           Refreshed(c) \/ RefreshFailed(c) \/ LoggedIn(c) \/ LoginRefused(c) \/ Discard(c)
    PROVE  ClientTypeOK' /\ ServerSide' /\ BrowserSide'
<1> USE DEF ClientInv
<1>1. given[c] \in Tokens \cup {NoToken}
  BY DEF ClientTypeOK, TypeOK, TablesOK, Calls
<1>2. \E to \in {"idle", "asked", "401"} : Moves(c, to)
  <2>1. CASE Refreshed(c)
    <3>1. call' = [call EXCEPT ![c].step = "asked", ![c].with = given[c]]
      BY <2>1 DEF Refreshed
    <3>2. Moves(c, "asked")
      BY <1>1, <3>1 DEF Moves, ClientTypeOK, CallRecord
    <3>3. QED
      BY <3>2
  <2>2. QED
    BY <2>1, EndsMoves, GoesToMoves DEF RefreshFailed, LoggedIn, LoginRefused, Discard
<1>3. /\ Receive(c) /\ stale' = stale /\ alone' = alone /\ orphaned' = orphaned
      /\ leaving' = leaving \/ leaving' = leaving \cup {TabOf[c]}
      /\ excused' = excused \/ excused' = (excused \/ req[c].answer = "ok")
  BY DEF Refreshed, RefreshFailed, LoggedIn, LoginRefused, Discard
<1>4. \/ store' = given[c] /\ Answered(c, "ok")
      \/ store' = NoToken /\ (excused' \/ req[c].answer # "ok") /\ call[c].step = "refreshing"
      \/ store' = store /\ call[c].step \in {"posted", "gone"}
  BY DEF Refreshed, RefreshFailed, LoggedIn, LoginRefused, Discard
<1>5. ServerSide' /\ BrowserSide'
  <2>1. PICK to \in {"idle", "asked", "401"} : Moves(c, to)
    BY <1>2
  <2>2. excused => excused'
    BY <1>3
  <2>3. QED
    BY <1>3, <1>4, <2>1, <2>2, ReceiveStep
<1>6. TabOf[c] \in Tabs
  BY ClientAssumption
<1>7. QED
  BY <1>1, <1>2, <1>3, <1>4, <1>5, <1>6 DEF Moves, ClientTypeOK
-----------------------------------------------------------------------------
(* The server's steps.  Every request is a login or a refresh.             *)
LEMMA ServeCases ==
    ASSUME ClientInv, NEW c \in Calls, Serve(c)
    PROVE  \/ /\ req[c].step = "sent" /\ UNCHANGED tokens
              /\ Grant(c) \/ Refuse(c)
              /\ req[c].op = "refresh" /\ Usable(req[c].token) => Grant(c)
           \/ WriteLogin(c) \/ WriteRefresh(c)
<1>1. req[c].step # "idle"
  BY DEF Serve, ReadRegister, WriteRegister, WrongPassword, ReadLogin, WriteLogin,
     ReadRefresh, WriteRefresh, Logout, ReadSetup, WriteSetup, ReadVerify, WriteVerify,
     Reads, Writes
<1>2. req[c].op \in {"login", "refresh"}
  BY <1>1 DEF ClientInv, ServerSide, RequestKnown
<1>3. WrongPassword(c) \/ ReadLogin(c) \/ ReadRefresh(c) \/ WriteLogin(c) \/ WriteRefresh(c)
  BY <1>2 DEF Serve, ReadRegister, WriteRegister, Logout, ReadSetup, WriteSetup, ReadVerify,
     WriteVerify, Reads, Writes
<1>4. QED
  BY <1>3 DEF WrongPassword, ReadLogin, ReadRefresh, Reads

(* Nothing is written: the request is granted or answered with an error.   *)
LEMMA NoWriteStep ==
    ASSUME ClientInv, NEW c \in Calls, UNCHANGED tokens,
           UNCHANGED <<store, call, alone, orphaned>>, excused => excused',
           \/ req[c].step \in {"sent", "writing"} /\ Refuse(c)
              /\ (excused' \/ ~(req[c].op = "refresh" /\ Usable(req[c].token)))
           \/ req[c].step = "sent" /\ Grant(c)
    PROVE  ServerSide' /\ BrowserSide'
<1> USE DEF ClientInv, BrowserSide, ServerSide
<1>1. UNCHANGED <<owner, revoked, expired, given>>
  BY DEF tokens, rows
<1>2. Issued' = Issued
  BY <1>1 DEF Issued
<1>3. /\ \A d \in Calls \ {c} : req'[d] = req[d]
      /\ req'[c].op = req[c].op /\ req'[c].user = req[c].user /\ req'[c].token = req[c].token
      /\ \/ req'[c].step = "writing" /\ req'[c].answer = "none"
         \/ /\ req'[c].step = "answered" /\ req'[c].answer = "refused"
            /\ excused' \/ ~(req[c].op = "refresh" /\ Usable(req[c].token))
  <2>1. CASE Refuse(c) /\ (excused' \/ ~(req[c].op = "refresh" /\ Usable(req[c].token)))
    BY <2>1, Answering DEF Refuse, ClientTypeOK, TypeOK, Calls
  <2>2. CASE Grant(c)
    BY <2>2, Answering DEF Grant, ClientTypeOK, TypeOK, Calls
  <2>3. QED
    BY <2>1, <2>2
<1>4. TokensKnown'
  BY <1>1, <1>2 DEF TokensKnown
<1>5. ASSUME NEW d \in Calls PROVE RequestKnown(d)'
  BY <1>2, <1>3 DEF RequestKnown
<1>6. ASSUME NEW d \in Calls PROVE NewToken(d)'
  BY <1>1, <1>2, <1>3 DEF NewToken, Answered
<1>7. ASSUME NEW d \in Calls PROVE CallAgrees(d)'
  BY <1>3 DEF CallAgrees
<1>8. StoredUsable'
  <2>1. ASSUME NEW d \in Calls, Answered(d, "ok")
        PROVE  Answered(d, "ok")' /\ req'[d].token = req[d].token
    BY <1>3, <2>1 DEF Answered
  <2>2. QED
    BY <1>1, <2>1 DEF StoredUsable
<1>9. ASSUME alone' PROVE Alone'
  <2>1. alone /\ Alone /\ Busy' = Busy
    BY <1>9 DEF Busy
  <2>2. \A d \in Calls : d # c => HoldsStored(d)'
    BY <1>1, <1>3, <2>1 DEF Alone, HoldsStored
  <2>3. ASSUME call[c].step = "refreshing", ~excused' PROVE HoldsStored(c)'
    <3>1. /\ req[c].token = store /\ req[c].op = "refresh" /\ store \notin revoked
          /\ ~excused
      BY <2>1, <2>3 DEF Alone, HoldsStored, CallAgrees
    <3>2. expired = {}
      BY <3>1 DEF TokensKnown
    <3>3. Usable(req[c].token)
      BY <3>1, <3>2 DEF Usable
    <3>4. QED
      BY <1>1, <1>3, <2>3, <3>1, <3>3 DEF HoldsStored
  <2>4. HoldsStored(c)'
    BY <2>3 DEF HoldsStored
  <2>5. QED
    BY <2>1, <2>2, <2>4 DEF Alone
<1>10. QED
  BY <1>4, <1>5, <1>6, <1>7, <1>8, <1>9

(* A token is issued, for a login or in exchange for the one it revokes.   *)
LEMMA IssueStep ==
    ASSUME ClientInv, NEW c \in Calls, WriteLogin(c) \/ WriteRefresh(c),
           UNCHANGED <<store, call, alone, orphaned, excused>>
    PROVE  ServerSide' /\ BrowserSide'
<1> USE DEF ClientInv, BrowserSide, ServerSide
<1> DEFINE old == IF WriteRefresh(c) THEN {req[c].token} ELSE {}
<1>1. /\ req[c].step = "writing" /\ Accept(c)
      /\ (WriteRefresh(c) /\ req[c].op = "refresh") \/ (~WriteRefresh(c) /\ req[c].op = "login")
      /\ revoked' = revoked \cup old
  BY DEF WriteLogin, WriteRefresh, Writes
<1>2. /\ \A d \in Calls \ {c} : req'[d] = req[d]
      /\ req'[c].op = req[c].op /\ req'[c].user = req[c].user /\ req'[c].token = req[c].token
      /\ req'[c].step = "answered" /\ req'[c].answer = "ok"
  BY <1>1, Answering DEF Accept, ClientTypeOK, TypeOK, Calls
<1>3. old \subseteq Issued
  BY <1>1 DEF RequestKnown
<1>4. PICK t \in Tokens : \E p \in Tokens \cup {NoToken} : Issue(c, t, Me, p)
  <2>1. CASE WriteLogin(c)
    BY <1>1, <2>1 DEF WriteLogin, RequestKnown
  <2>2. CASE WriteRefresh(c)
    <3>1. req[c].token \in Issued /\ owner[req[c].token] = Me
      BY <1>1, <2>2 DEF RequestKnown, TokensKnown
    <3>2. QED
      BY <2>2, <3>1 DEF WriteRefresh, Issued
  <2>3. QED
    BY <2>1, <2>2
<1> HIDE DEF old
<1>5. /\ t \notin Issued /\ Issued' = Issued \cup {t} /\ expired' = expired
      /\ owner'[t] = Me /\ \A s \in Tokens \ {t} : owner'[s] = owner[s]
      /\ given'[c] = t /\ \A d \in Calls \ {c} : given'[d] = given[d]
  BY <1>4, ClientAssumption, AuthAssumption
  DEF Issue, Issued, ClientTypeOK, TypeOK, TablesOK, Calls
<1>6. t # NoToken
  BY AuthAssumption
<1>7. TokensKnown'
  BY <1>1, <1>3, <1>5 DEF TokensKnown, Issued
<1>8. ASSUME NEW d \in Calls PROVE RequestKnown(d)'
  BY <1>1, <1>2, <1>5 DEF RequestKnown
<1>9. ASSUME NEW d \in Calls PROVE NewToken(d)'
  <2>1. \A e \in Calls : req'[e].token = req[e].token /\ req[e].token # t
    BY <1>2, <1>5, <1>6 DEF RequestKnown
  <2>2. \A e \in Calls : given[e] # t
    BY <1>5, <1>6 DEF NewToken
  <2>3. CASE d = c
    <3>1. t \in Issued' \ revoked' /\ t # store'
      BY <1>1, <1>3, <1>5, <1>6 DEF TokensKnown
    <3>2. QED
      BY <1>5, <1>6, <2>1, <2>2, <2>3, <3>1 DEF NewToken
  <2>4. CASE d # c
    <3>1. Answered(d, "ok")' <=> Answered(d, "ok")
      BY <1>2, <2>4 DEF Answered
    <3>2. given[d] # NoToken => given[d] \notin old
      BY <1>1 DEF NewToken, old
    <3>3. QED
      BY <1>1, <1>5, <2>1, <2>2, <2>4, <3>1, <3>2 DEF NewToken
  <2>5. QED
    BY <2>3, <2>4
<1>10. ASSUME NEW d \in Calls PROVE CallAgrees(d)'
  BY <1>1, <1>2 DEF CallAgrees
<1>11. WriteRefresh(c) => call[c].step = "refreshing" \/ req[c].token \in orphaned
  <2>1. call[c].step \in {"idle", "asked", "posted", "401", "other", "refreshing", "gone"}
    BY DEF ClientTypeOK, CallRecord
  <2>2. QED
    BY <1>1, <2>1 DEF CallAgrees
<1>12. StoredUsable'
  <2>1. CASE store \in old
    <3>1. WriteRefresh(c) /\ req[c].token = store
      BY <2>1 DEF old
    <3>2. QED
      BY <1>2, <1>11, <3>1 DEF StoredUsable, Answered
  <2>2. CASE store \notin old
    <3>1. ASSUME NEW d \in Calls, Answered(d, "ok")
          PROVE  Answered(d, "ok")' /\ req'[d].token = req[d].token
      BY <1>1, <1>2, <3>1 DEF Answered
    <3>2. QED
      BY <1>1, <2>2, <3>1 DEF StoredUsable
  <2>3. QED
    BY <2>1, <2>2
<1>13. ASSUME alone' PROVE Alone'
  <2>1. alone /\ Alone /\ Busy' = Busy
    BY <1>13 DEF Busy
  <2>2. c \in Busy
    BY <1>1 DEF Busy, CallAgrees
  <2>3. \A d \in Calls : d # c => call[d].step # "refreshing"
    BY <2>1, <2>2 DEF Alone, Busy
  <2>4. \A d \in Calls : HoldsStored(d)'
    BY <1>2, <2>1, <2>3 DEF Alone, HoldsStored
  <2>5. QED
    BY <2>1, <2>4 DEF Alone
<1>14. QED
  BY <1>7, <1>8, <1>9, <1>10, <1>12, <1>13

LEMMA ServerInv ==
    ASSUME ClientInv, Server, TypeOK'
    PROVE  ClientTypeOK' /\ ServerSide' /\ BrowserSide'
<1> SUFFICES ServerSide' /\ BrowserSide'
  BY DEF Server, clientVars, ClientInv, ClientTypeOK
<1>1. ASSUME NEW c \in Calls, Serve(c), UNCHANGED clientVars
      PROVE  ServerSide' /\ BrowserSide'
  <2>1. UNCHANGED <<store, call, alone, orphaned, excused>>
    BY <1>1 DEF clientVars
  <2>2. QED
    BY <1>1, <2>1, ServeCases, NoWriteStep, IssueStep
<1>2. ASSUME NEW c \in Calls, LoseRequest(c), excused' = TRUE,
             UNCHANGED <<store, stale, call, leaving, alone, orphaned>>
      PROVE  ServerSide' /\ BrowserSide'
  <2>1. req[c].step = "writing" /\ Refuse(c) /\ UNCHANGED tokens
    BY <1>2 DEF LoseRequest
  <2>2. QED
    BY <1>2, <2>1, NoWriteStep
<1>3. ASSUME NEW t \in stale, Expire(t), excused' = TRUE,
             UNCHANGED <<store, stale, call, leaving, alone, orphaned>>
      PROVE  ServerSide' /\ BrowserSide'
  <2>1. UNCHANGED <<owner, revoked, req, given>> /\ Issued' = Issued
    BY <1>3 DEF Expire, Issued
  <2>2. ServerSide'
    BY <1>3, <2>1 DEF ClientInv, ServerSide, TokensKnown, RequestKnown, NewToken, Answered
  <2>3. BrowserSide'
    BY <1>3, <2>1
    DEF ClientInv, BrowserSide, CallAgrees, StoredUsable, Answered, Alone, HoldsStored, Busy
  <2>4. QED
    BY <2>2, <2>3
<1>4. ASSUME Administer(Me), UNCHANGED clientVars
      PROVE  ServerSide' /\ BrowserSide'
  <2>1. UNCHANGED <<owner, revoked, expired, req, given>> /\ Issued' = Issued
    BY <1>4 DEF Administer, tokens, rows, Issued
  <2>2. ServerSide'
    BY <1>4, <2>1
    DEF clientVars, ClientInv, ServerSide, TokensKnown, RequestKnown, NewToken, Answered
  <2>3. BrowserSide'
    BY <1>4, <2>1
    DEF clientVars, ClientInv, BrowserSide, CallAgrees, StoredUsable, Answered, Alone,
        HoldsStored, Busy
  <2>4. QED
    BY <2>2, <2>3
<1>5. QED
  BY <1>1, <1>2, <1>3, <1>4 DEF Server
-----------------------------------------------------------------------------
LEMMA ClientNextInv == ClientInv /\ [ClientNext]_allVars => ClientInv'
<1> SUFFICES ASSUME ClientInv, [ClientNext]_allVars
             PROVE  ClientTypeOK' /\ ServerSide' /\ BrowserSide'
  BY InvKept DEF ClientInv
<1>1. TypeOK'
  BY InvKept
<1>2. ASSUME NEW c \in Calls, Browser(c)
      PROVE  ClientTypeOK' /\ ServerSide' /\ BrowserSide'
  <2>1. CASE PostLogin(c)
    BY <1>1, <2>1, PostLoginInv
  <2>2. CASE Judge(c) \/ PassOn(c)
    BY <2>2, ReplyInv DEF Judge, PassOn
  <2>3. CASE On401(c)
    BY <1>1, <2>3, ReplyInv, SendRefreshInv
  <2>4. CASE Refreshed(c) \/ RefreshFailed(c) \/ LoggedIn(c) \/ LoginRefused(c) \/ Discard(c)
    BY <1>1, <2>4, AnswerInv
  <2>5. QED
    BY <1>2, <2>1, <2>2, <2>3, <2>4 DEF Browser
<1>3. QED
  BY <1>1, <1>2, AskInv, SignOutInv, UnloadInv, AccessExpiresInv, ServerInv, IdleInv
  DEF ClientNext

(* The invariant holds in every behaviour. *)
THEOREM ClientInvAlways == ClientSpec => []ClientInv
BY InitClientInv, ClientNextInv, PTL DEF ClientSpec

(* The browser is a client of Auth: whatever it does, the server takes a   *)
(* step of Auth or none.                                                   *)
THEOREM ClientImplements == ClientSpec => [][Next]_vars
BY StepImplements, ClientInvAlways, PTL DEF ClientSpec

(* Every variable keeps its type: above all, what is stored as a token is  *)
(* one.                                                                    *)
THEOREM ClientTypeCorrect == ClientSpec => []ClientTypeOK
<1>1. ClientInv => ClientTypeOK
  BY DEF ClientInv
<1>2. QED
  BY <1>1, ClientInvAlways, PTL

(* Whatever tabs call, refresh, sign in, sign out or reload at the same    *)
(* time, a dead token in the store is one whose new pair is on its way, or *)
(* was on its way to a page that has been unloaded.                        *)
THEOREM StoredUsableAlways == ClientSpec => []StoredUsable
<1>1. ClientInv => StoredUsable
  BY DEF ClientInv, BrowserSide
<1>2. QED
  BY <1>1, ClientInvAlways, PTL

(* Calls that do not overlap lose no session without a reason. *)
THEOREM SessionKeptAlways == ClientSpec => []SessionKept
<1>1. ClientInv => SessionKept
  BY DEF ClientInv, BrowserSide, Alone, SessionKept
<1>2. QED
  BY <1>1, ClientInvAlways, PTL

(* What Auth promises of tokens with requests that overlap holds of the    *)
(* browser's.                                                              *)
THEOREM ClientTokensAlways == ClientSpec => [](Rotated /\ UsedTokenRejected)
<1>1. ClientInv => Rotated /\ UsedTokenRejected
  BY DEF ClientInv, Inv, TokenInv, RequestInv, Rotated, UsedTokenRejected
<1>2. QED
  BY <1>1, ClientInvAlways, PTL
=============================================================================
