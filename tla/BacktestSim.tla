----------------------------- MODULE BacktestSim -----------------------------
(***************************************************************************)
(* One backtest task: the folds of its validation type (tasks.py) and the  *)
(* simulation of each of them (algorithms/base.py, _simulate).             *)
(*                                                                         *)
(* A row is a close, any of Prices, and what the indicators say of it: buy *)
(* (1), sell (-1) or hold (0).  The rows of all tickers of a run are one   *)
(* list, without their tickers.                                            *)
(*                                                                         *)
(* Money is exact here: a price is in units of 1/Scale, capital and P&L    *)
(* in units of 1/Scale^2, and the percentages are over Scale.  Left out:   *)
(* the equity curve and the metrics derived from it, and OPTIMIZE, which   *)
(* repeats SIMPLE for each combination of parameters.                      *)
(***************************************************************************)
EXTENDS Integers

CONSTANTS
    Rows,                       \* number of price rows of the run
    Prices,                     \* closes
    Splits,                     \* n_splits of the WALK_FORWARD runs
    MinFold,                    \* fewer rows than this are not simulated (30)
    InitialCapital, PositionSize, StopLoss, TakeProfit,
    Commission, Tax, Slippage,  \* trade_params
    Scale

ASSUME BacktestAssumption ==
    /\ Rows \in Nat /\ MinFold \in Nat
    /\ Prices \subseteq Nat \ {0}
    /\ Splits \subseteq Nat \ {0}
    /\ Scale \in Nat \ {0} /\ InitialCapital \in Nat
    /\ PositionSize \in Nat /\ StopLoss \in Nat /\ TakeProfit \in Nat
    /\ Commission \in Nat /\ Tax \in Nat /\ Commission + Tax <= Scale
    /\ Slippage \in Nat /\ Slippage <= Scale

VARIABLES
    mode,       \* 0: SIMPLE, n: WALK_FORWARD with n_splits = n
    fold, bar,  \* the fold that is simulated, and its last row so far
    close,      \* the close of that row
    capital, position, avgPrice, entry,     \* locals of _simulate
    pnl, fees, buys, sells      \* totals over trades: P&L of the sales, commission
                                \*   of the purchases, and how many there were

account == <<capital, position, avgPrice, entry, pnl, fees, buys, sells>>
simulation == <<mode, fold, bar, close, account>>
-----------------------------------------------------------------------------
(* _run_walk_forward: fold k starts after k parts of the rows, so that the *)
(* first part is never simulated, and the last fold is what the division   *)
(* leaves over.  Mutant: a fold takes all rows up to its end.              *)
FoldSize == Rows \div mode
FirstRowAnchored(k) == 1
FirstRow(k) == IF mode = 0 THEN 1 ELSE k * FoldSize + 1
LastRow(k) ==
    IF mode = 0 \/ (k + 1) * FoldSize > Rows THEN Rows ELSE (k + 1) * FoldSize

Folds == 1 .. (IF mode = 0 THEN 1 ELSE mode)
Simulated(k) == mode = 0 \/ LastRow(k) - FirstRow(k) + 1 >= MinFold

BuyPrice(p) == p * (Scale + Slippage)
Affordable(p) == (capital * PositionSize) \div (Scale * Scale * BuyPrice(p))
(* Mutant: a purchase costs no commission. *)
CostWithoutFee(q, p) == q * BuyPrice(p) * Scale
Cost(q, p) == q * BuyPrice(p) * (Scale + Commission)
Proceeds(q, p) == q * (p * (Scale - Slippage)) * (Scale - Commission - Tax)

(* Stop-loss or take-profit at close p. *)
Stopped(p) ==
    \/ (p * Scale - avgPrice) * Scale <= -(StopLoss * avgPrice)
    \/ (p * Scale - avgPrice) * Scale >= TakeProfit * avgPrice
(* Mutant: it does not overrule a signal of the strategy. *)
SignalFirst(given, p) == IF given = 0 /\ position > 0 /\ Stopped(p) THEN -1 ELSE given
Signal(given, p) == IF position > 0 /\ Stopped(p) THEN -1 ELSE given

(* Mutants: the cost is not compared with the capital; a position that is  *)
(* held can be added to.                                                   *)
MayBuyAtAnyCost(given, p) == Signal(given, p) = 1 /\ position = 0 /\ Affordable(p) > 0
MayBuyMore(given, p) ==
    /\ Signal(given, p) = 1
    /\ Affordable(p) > 0 /\ Cost(Affordable(p), p) <= capital
MayBuy(given, p) ==
    /\ Signal(given, p) = 1 /\ position = 0
    /\ Affordable(p) > 0 /\ Cost(Affordable(p), p) <= capital
MaySell(given, p) == Signal(given, p) = -1 /\ position > 0
-----------------------------------------------------------------------------
SimTypeOK ==
    /\ mode \in {0} \cup Splits
    /\ fold \in Nat /\ bar \in Nat
    /\ close \in Prices \cup {0}
    /\ capital \in Nat /\ position \in Nat /\ avgPrice \in Nat /\ entry \in Nat
    /\ pnl \in Int /\ fees \in Nat /\ buys \in Nat /\ sells \in Nat

SimInit ==
    /\ mode \in {0} \cup Splits
    /\ fold = 0 /\ bar = 0 /\ close = 0
    /\ capital = InitialCapital * (Scale * Scale)
    /\ position = 0 /\ avgPrice = 0 /\ entry = 0
    /\ pnl = 0 /\ fees = 0 /\ buys = 0 /\ sells = 0

(* algo.run on fold k, the next one that is long enough. *)
BeginFold(k) ==
    /\ k \in Folds /\ k > fold /\ Simulated(k)
    /\ fold = 0 \/ bar = LastRow(fold)
    /\ \A j \in Folds : fold < j /\ j < k => ~Simulated(j)
    /\ fold' = k /\ bar' = FirstRow(k) - 1 /\ close' = 0
    /\ capital' = InitialCapital * (Scale * Scale)
    /\ position' = 0 /\ avgPrice' = 0 /\ entry' = 0
    /\ pnl' = 0 /\ fees' = 0 /\ buys' = 0 /\ sells' = 0
    /\ UNCHANGED mode

(* The next row of the fold closes at p. *)
NextRow(p) ==
    /\ fold # 0 /\ bar < LastRow(fold)
    /\ bar' = bar + 1 /\ close' = p
    /\ UNCHANGED <<mode, fold>>

Buy(given, p) ==
    /\ NextRow(p)
    /\ MayBuy(given, p)
    /\ capital' = capital - Cost(Affordable(p), p)
    /\ position' = Affordable(p) /\ avgPrice' = BuyPrice(p) /\ entry' = bar + 1
    /\ buys' = buys + 1
    /\ fees' = fees + Affordable(p) * BuyPrice(p) * Commission
    /\ UNCHANGED <<pnl, sells>>

Sell(given, p) ==
    /\ NextRow(p)
    /\ MaySell(given, p)
    /\ capital' = capital + Proceeds(position, p)
    /\ pnl' = pnl + (Proceeds(position, p) - position * avgPrice * Scale)
    /\ position' = 0 /\ avgPrice' = 0 /\ entry' = 0
    /\ sells' = sells + 1
    /\ UNCHANGED <<fees, buys>>

Keep(given, p) ==
    /\ NextRow(p)
    /\ ~MayBuy(given, p) /\ ~MaySell(given, p)
    /\ UNCHANGED account

SimNext ==
    \/ \E k \in Folds : BeginFold(k)
    \/ \E given \in {-1, 0, 1}, p \in Prices : Buy(given, p) \/ Sell(given, p) \/ Keep(given, p)

SimSpec == SimInit /\ [][SimNext]_simulation

-----------------------------------------------------------------------------
(* The trades explain the balance: it is the initial capital plus the P&L  *)
(* of the sales, minus the commission of the purchases, which no trade's   *)
(* P&L contains, minus what the position cost.                             *)
BalanceExplained ==
    capital = InitialCapital * (Scale * Scale) + pnl - fees - position * avgPrice * Scale

(* A position never outlives a close at which it should have been stopped, *)
(* whatever the strategy says at that row.                                 *)
StopHonoured == position > 0 /\ entry # bar => ~Stopped(close)

(* The k-th sale closes the k-th purchase: _calc_metrics takes the days    *)
(* between the two as the holding time of a position.                      *)
TradesPaired ==
    /\ buys = sells + (IF position > 0 THEN 1 ELSE 0)
    /\ position = 0 <=> entry = 0
    /\ entry <= bar

(* Walk-forward goes forward: no row is evaluated in two folds.            *)
FoldsInOrder == [][bar' >= bar]_simulation
=============================================================================
