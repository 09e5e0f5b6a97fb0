----------------------------- MODULE Activation -----------------------------
(***************************************************************************)
(* POST /trading/activate (routers/trading.py) in front of the daily cycle *)
(* of TradingDay: which rows of strategy_activations come to be.           *)
(*                                                                         *)
(* A request looks for an ACTIVE row of its strategy on its account, and   *)
(* inserts one in a later step of its own transaction.  No constraint of   *)
(* the table keeps two rows of a pair apart.  A request that is refused    *)
(* changes nothing, and is not a step: 404 if strategy and account are not *)
(* both the user's, 400 if there is an ACTIVE row, 500 if there are two    *)
(* (scalar_one_or_none).                                                   *)
(***************************************************************************)
EXTENDS TradingDay

CONSTANTS
    Requests,      \* activation requests that may be in progress at once
    Owners, OwnerOf,   \* the user of a strategy or an account
    NoPair

Pairs == {p \in Strategies \X Accounts : OwnerOf[p[1]] = OwnerOf[p[2]]}

ASSUME ActivationAssumption ==
    /\ OwnerOf \in [Strategies \cup Accounts -> Owners]
    /\ NoPair \notin Strategies \X Accounts

VARIABLES
    checked,       \* the pair a request has found free
    raced          \* history: pairs inserted while another request had found them free

requests == <<checked, raced>>
allVars == <<vars, requests>>

PairOf(a) == <<StrategyOf[a], AccountOf[a]>>
ActiveRows(p) == {a \in Activations : activation[a] = "ACTIVE" /\ PairOf(a) = p}

RequestsOK ==
    /\ checked \in [Requests -> Pairs \cup {NoPair}]
    /\ raced \subseteq Pairs

ActivationInit ==
    /\ Init
    /\ checked = [r \in Requests |-> NoPair]
    /\ raced = {}
-----------------------------------------------------------------------------
(* The lookups.  Neither is_active is looked at.  Mutant: the existing row *)
(* is not looked for.                                                      *)
CheckOwner(r, p) ==
    /\ day \in Days
    /\ checked[r] = NoPair
    /\ checked' = [checked EXCEPT ![r] = p]
    /\ UNCHANGED <<vars, raced>>
CheckActive(r, p) ==
    /\ day \in Days
    /\ checked[r] = NoPair
    /\ ActiveRows(p) = {}
    /\ checked' = [checked EXCEPT ![r] = p]
    /\ UNCHANGED <<vars, raced>>

Insert(r) ==
    /\ checked[r] # NoPair
    /\ \E a \in Activations : PairOf(a) = checked[r] /\ Activate(a)
    /\ checked' = [checked EXCEPT ![r] = NoPair]
    /\ raced' = raced \cup {p \in {checked[r]} : \E q \in Requests \ {r} : checked[q] = p}

(* The request ends without its row: an error, a lost connection, a crash. *)
Drop(r) ==
    /\ checked[r] # NoPair
    /\ checked' = [checked EXCEPT ![r] = NoPair]
    /\ UNCHANGED <<vars, raced>>

Request(r) == (\E p \in Pairs : CheckActive(r, p)) \/ Insert(r) \/ Drop(r)

ActivationNext ==
    \/ \E r \in Requests : Request(r)
    \/ /\ \/ \E a \in Activations : Stop(a)
          \/ \E s \in Strategies : UpdateStrategy(s)
          \/ \E c \in Accounts : CloseAccount(c)
          \/ Execute
          \/ MissExecute
          \/ GenerateSignals
          \/ CollectDailyUpdate
          \/ NoMoreDays
       /\ UNCHANGED requests

ActivationSpec == ActivationInit /\ [][ActivationNext]_allVars
-----------------------------------------------------------------------------
(* trading.py:60, "Strategy already active on this account": a strategy is *)
(* active on an account at most once, unless two requests overlapped.      *)
OneActiveUnlessRaced ==
    \A a, b \in Activations :
        a # b /\ activation[a] = "ACTIVE" /\ activation[b] = "ACTIVE" /\ PairOf(a) = PairOf(b)
        => PairOf(a) \in raced

(* No two activations of a strategy on an account queue an order for the   *)
(* same ticker and day, however often it is stopped and activated again,   *)
(* unless two requests overlapped.                                         *)
OneOrderPerStrategy ==
    \A o, p \in orders :
        /\ o.activation # p.activation /\ PairOf(o.activation) = PairOf(p.activation)
        /\ o.ticker = p.ticker /\ o.queued = p.queued
        => PairOf(o.activation) \in raced
=============================================================================
