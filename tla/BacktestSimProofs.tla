-------------------------- MODULE BacktestSimProofs --------------------------
(***************************************************************************)
(* The invariants of BacktestSim for any rows, prices, folds and trade     *)
(* parameters.  The arithmetic of one trade is in lemmas; Inv is inductive *)
(* with the two facts that connect the account with the fold: an account   *)
(* without a position has no average price, and the last row does not pass *)
(* the end of the fold.                                                    *)
(***************************************************************************)
EXTENDS BacktestSim, TLAPS

InFold == fold \in Folds => bar <= LastRow(fold)
NoFold == fold \in Folds \/ (fold = 0 /\ bar = 0)
Flat == position = 0 => avgPrice = 0

Inv ==
    /\ SimTypeOK
    /\ Flat
    /\ NoFold /\ InFold
    /\ BalanceExplained
    /\ StopHonoured
    /\ TradesPaired
-----------------------------------------------------------------------------
LEMMA ProductNat == \A a, b \in Nat : a * b \in Nat
  BY SMT

LEMMA ProductMonotone ==
  ASSUME NEW a \in Nat, NEW b \in Nat, NEW c \in Nat, a <= b
  PROVE  a * c <= b * c
<1>1. PICK d \in Nat : b = a + d
  <2>1. b - a \in Nat
    BY SMT
  <2>2. b = a + (b - a)
    BY SMT
  <2> QED
    BY <2>1, <2>2
<1>2. d * c \in Nat
  BY ProductNat
<1>3. b * c = a * c + d * c
  BY <1>1, SMT
<1>4. a * c \in Nat
  BY ProductNat
<1> QED
  BY <1>2, <1>3, <1>4, SMT

(* What a purchase costs is what the position is worth at its average      *)
(* price, plus the commission.                                             *)
LEMMA CostSplits ==
  ASSUME BacktestAssumption, NEW p \in Nat, NEW q \in Nat
  PROVE  /\ BuyPrice(p) \in Nat
         /\ q * BuyPrice(p) * Scale \in Nat
         /\ q * BuyPrice(p) * Commission \in Nat
         /\ Cost(q, p) = q * BuyPrice(p) * Scale + q * BuyPrice(p) * Commission
<1>1. Scale \in Nat /\ Slippage \in Nat /\ Commission \in Nat
  BY DEF BacktestAssumption
<1>2. BuyPrice(p) \in Nat
  BY <1>1, ProductNat DEF BuyPrice
<1>3. q * BuyPrice(p) \in Nat
  BY <1>2, ProductNat
<1>4. /\ q * BuyPrice(p) * Scale \in Nat
      /\ q * BuyPrice(p) * Commission \in Nat
  BY <1>1, <1>3, ProductNat
<1>5. \A a, b, c \in Nat : a * (b + c) = a * b + a * c
  BY SMT
<1>6. Cost(q, p) = q * BuyPrice(p) * Scale + q * BuyPrice(p) * Commission
  BY <1>1, <1>3, <1>5 DEF Cost
<1> QED
  BY <1>2, <1>4, <1>6

LEMMA ProceedsNat ==
  ASSUME BacktestAssumption, NEW p \in Nat, NEW q \in Nat
  PROVE  Proceeds(q, p) \in Nat
<1>1. Scale - Slippage \in Nat /\ Scale - Commission - Tax \in Nat
  BY SMT DEF BacktestAssumption
<1>2. p * (Scale - Slippage) \in Nat
  BY <1>1, ProductNat
<1>3. q * (p * (Scale - Slippage)) \in Nat
  BY <1>2, ProductNat
<1> QED
  BY <1>1, <1>3, ProductNat DEF Proceeds

LEMMA AffordableNat ==
  ASSUME BacktestAssumption, NEW p \in Nat \ {0}, capital \in Nat
  PROVE  Affordable(p) \in Nat
<1>1. Scale \in Nat \ {0} /\ Slippage \in Nat /\ PositionSize \in Nat
  BY DEF BacktestAssumption
<1>2. \A a, b \in Nat \ {0} : a * b \in Nat \ {0}
  BY SMT
<1>3. Scale + Slippage \in Nat \ {0}
  BY <1>1, SMT
<1>4. BuyPrice(p) \in Nat \ {0}
  BY <1>2, <1>3 DEF BuyPrice
<1>5. Scale * Scale * BuyPrice(p) \in Nat \ {0}
  BY <1>1, <1>2, <1>4
<1>6. capital * PositionSize \in Nat
  BY <1>1, ProductNat
<1>7. \A a \in Nat, b \in Nat \ {0} : a \div b \in Nat
  BY SMT
<1> QED
  BY <1>5, <1>6, <1>7 DEF Affordable
-----------------------------------------------------------------------------
(* Where a fold lies: a later one begins where it ends, or behind it.      *)
LEMMA FoldBounds ==
  ASSUME BacktestAssumption, mode \in {0} \cup Splits, NEW k \in Folds
  PROVE  /\ k \in Nat \ {0}
         /\ FirstRow(k) - 1 \in Nat
         /\ LastRow(k) \in Nat
         /\ Simulated(k) => FirstRow(k) - 1 <= LastRow(k)
         /\ \A j \in Folds : j < k => LastRow(j) <= FirstRow(k) - 1
<1>1. /\ mode \in Nat /\ Rows \in Nat /\ MinFold \in Nat
      /\ k \in Nat \ {0}
  BY SMT DEF BacktestAssumption, Folds
<1>2. CASE mode = 0
  BY <1>1, <1>2, SMT DEF Folds, FirstRow, LastRow
<1>3. CASE mode # 0
  <2>1. FoldSize \in Nat
    BY <1>1, <1>3, SMT DEF FoldSize
  <2>2. \A j \in Nat : j * FoldSize \in Nat
    BY <2>1, ProductNat
  <2>3. \A j \in Nat : LastRow(j) \in Nat /\ LastRow(j) <= (j + 1) * FoldSize
    <3> TAKE j \in Nat
    <3>1. j + 1 \in Nat
      BY SMT
    <3>2. (j + 1) * FoldSize \in Nat
      BY <2>2, <3>1
    <3> DEFINE end == (j + 1) * FoldSize
    <3>3. LastRow(j) = IF end > Rows THEN Rows ELSE end
      BY <1>3 DEF LastRow
    <3> HIDE DEF end
    <3> QED
      BY <1>1, <3>2, <3>3, SMT DEF end
  <2>4. FirstRow(k) - 1 = k * FoldSize
    BY <1>1, <1>3, <2>2, SMT DEF FirstRow
  <2>5. ASSUME NEW j \in Folds, j < k
        PROVE  LastRow(j) <= FirstRow(k) - 1
    <3>1. j \in Nat /\ j + 1 \in Nat /\ j + 1 <= k
      BY <1>1, <2>5, SMT DEF Folds
    <3>2. (j + 1) * FoldSize <= k * FoldSize
      BY <1>1, <2>1, <3>1, ProductMonotone
    <3>3. LastRow(j) \in Nat /\ LastRow(j) <= (j + 1) * FoldSize
      BY <2>3, <3>1
    <3>4. (j + 1) * FoldSize \in Nat /\ k * FoldSize \in Nat
      BY <1>1, <2>2, <3>1
    <3> QED
      BY <2>4, <3>2, <3>3, <3>4, SMT
  <2>6. k * FoldSize \in Nat /\ LastRow(k) \in Nat
    BY <1>1, <2>2, <2>3
  <2>7. ASSUME Simulated(k) PROVE FirstRow(k) - 1 <= LastRow(k)
    <3>1. LastRow(k) - FirstRow(k) + 1 >= MinFold
      BY <1>3, <2>7 DEF Simulated
    <3>2. FirstRow(k) \in Int
      BY <1>1, <1>3, <2>6, SMT DEF FirstRow
    <3> QED
      BY <1>1, <2>6, <3>1, <3>2, SMT
  <2> QED
    BY <1>1, <2>4, <2>5, <2>6, <2>7
<1> QED
  BY <1>2, <1>3
-----------------------------------------------------------------------------
LEMMA InitInv == ASSUME BacktestAssumption, SimInit PROVE Inv
<1>1. InitialCapital * (Scale * Scale) \in Nat
  BY ProductNat DEF BacktestAssumption
<1>2. SimTypeOK
  BY <1>1 DEF SimInit, SimTypeOK
<1>3. Flat /\ NoFold /\ StopHonoured
  BY SMT DEF SimInit, Flat, NoFold, StopHonoured
<1>4. InFold
  <2>1. fold \notin Folds
    BY SMT DEF SimInit, Folds
  <2> QED
    BY <2>1 DEF InFold
<1>5. BalanceExplained
  <2>1. position * avgPrice * Scale = 0
    BY SMT DEF SimInit, BacktestAssumption
  <2> DEFINE start == InitialCapital * (Scale * Scale)
  <2>2. start \in Nat /\ capital = start /\ pnl = 0 /\ fees = 0
    BY <1>1 DEF SimInit
  <2> HIDE DEF start
  <2>3. capital = start + pnl - fees - 0
    BY <2>2, SMT
  <2> QED
    BY <2>1, <2>3 DEF BalanceExplained, start
<1>6. TradesPaired
  BY SMT DEF SimInit, TradesPaired
<1> QED
  BY <1>2, <1>3, <1>4, <1>5, <1>6 DEF Inv

LEMMA BeginInv ==
  ASSUME BacktestAssumption, Inv, NEW k \in Folds, BeginFold(k)
  PROVE  Inv'
<1>1. mode \in {0} \cup Splits
  BY DEF Inv, SimTypeOK
<1>2. /\ k \in Nat \ {0} /\ FirstRow(k) - 1 \in Nat
      /\ FirstRow(k) - 1 <= LastRow(k)
  BY <1>1, FoldBounds DEF BeginFold
<1>3. InitialCapital * (Scale * Scale) \in Nat
  BY ProductNat DEF BacktestAssumption
<1>4. Folds' = Folds /\ LastRow(k)' = LastRow(k)
  BY DEF BeginFold, Folds, LastRow, FoldSize
<1>5. SimTypeOK'
  BY <1>1, <1>2, <1>3 DEF BeginFold, SimTypeOK
<1>6. (Flat /\ NoFold /\ StopHonoured)'
  BY <1>4, SMT DEF BeginFold, Flat, NoFold, StopHonoured
<1>7. InFold'
  <2>1. bar' <= LastRow(k)'
    BY <1>2, <1>4 DEF BeginFold
  <2>2. LastRow(fold)' = LastRow(k)'
    BY DEF BeginFold, LastRow, FoldSize
  <2> QED
    BY <2>1, <2>2 DEF InFold
<1>8. BalanceExplained'
  <2>1. position' * avgPrice' * Scale = 0
    BY SMT DEF BeginFold, BacktestAssumption
  <2> DEFINE start == InitialCapital * (Scale * Scale)
  <2>2. start \in Nat /\ capital' = start /\ pnl' = 0 /\ fees' = 0
    BY <1>3 DEF BeginFold
  <2> HIDE DEF start
  <2>3. capital' = start + pnl' - fees' - 0
    BY <2>2, SMT
  <2> QED
    BY <2>1, <2>3 DEF BalanceExplained, start
<1>9. TradesPaired'
  BY <1>2, SMT DEF BeginFold, TradesPaired
<1> QED
  BY <1>5, <1>6, <1>7, <1>8, <1>9 DEF Inv

(* The next row leaves the fold's facts alone. *)
LEMMA RowInv ==
  ASSUME BacktestAssumption, Inv, NEW p \in Prices, NextRow(p)
  PROVE  /\ NoFold' /\ InFold'
         /\ bar \in Nat /\ bar' = bar + 1 /\ p \in Nat \ {0}
         /\ mode' \in {0} \cup Splits /\ fold' \in Nat /\ bar' \in Nat
         /\ close' \in Prices \cup {0} /\ close' = p
<1>1. /\ mode \in {0} \cup Splits /\ fold \in Nat /\ bar \in Nat
      /\ fold # 0 /\ fold \in Folds /\ bar < LastRow(fold)
      /\ mode' = mode /\ fold' = fold /\ bar' = bar + 1 /\ close' = p
  BY DEF Inv, SimTypeOK, NoFold, NextRow
<1>2. LastRow(fold) \in Nat
  BY <1>1, FoldBounds
<1>3. Folds' = Folds /\ LastRow(fold)' = LastRow(fold)
  BY <1>1 DEF Folds, LastRow, FoldSize
<1>4. bar' \in Nat /\ bar' <= LastRow(fold)
  BY <1>1, <1>2, SMT
<1> QED
  BY <1>1, <1>3, <1>4 DEF NoFold, InFold, BacktestAssumption

LEMMA BuyInv ==
  ASSUME BacktestAssumption, Inv,
         NEW given \in {-1, 0, 1}, NEW p \in Prices, Buy(given, p)
  PROVE  Inv'
<1> DEFINE q == Affordable(p)
           value == q * BuyPrice(p) * Scale
           fee == q * BuyPrice(p) * Commission
           start == InitialCapital * (Scale * Scale)
<1>1. /\ NoFold' /\ InFold' /\ bar \in Nat /\ bar' = bar + 1 /\ p \in Nat \ {0}
      /\ mode' \in {0} \cup Splits /\ fold' \in Nat /\ bar' \in Nat
      /\ close' \in Prices \cup {0}
  BY RowInv DEF Buy
<1>2. /\ capital \in Nat /\ pnl \in Int /\ fees \in Nat /\ buys \in Nat /\ sells \in Nat
      /\ position = 0 /\ avgPrice = 0 /\ Scale \in Nat
  BY DEF Inv, SimTypeOK, Flat, Buy, MayBuy, BacktestAssumption
<1>3. q \in Nat /\ q > 0
  BY <1>1, <1>2, AffordableNat DEF Buy, MayBuy
<1>4. BuyPrice(p) \in Nat /\ value \in Nat /\ fee \in Nat /\ Cost(q, p) = value + fee
  BY <1>1, <1>3, CostSplits
<1>5. /\ Cost(q, p) <= capital
      /\ capital' = capital - Cost(q, p) /\ fees' = fees + fee
      /\ position' = q /\ avgPrice' = BuyPrice(p) /\ entry' = bar + 1
      /\ buys' = buys + 1 /\ pnl' = pnl /\ sells' = sells
  BY DEF Buy, MayBuy
<1>6. capital = start + pnl - fees
  <2>1. position * avgPrice * Scale = 0
    BY <1>2, SMT
  <2>2. capital = start + pnl - fees - position * avgPrice * Scale
    BY DEF Inv, BalanceExplained
  <2>3. start \in Nat
    BY ProductNat DEF BacktestAssumption
  <2> HIDE DEF start
  <2> QED
    BY <1>2, <2>1, <2>2, <2>3, SMT
<1>7. start \in Nat
  BY ProductNat DEF BacktestAssumption
<1>8. position' * avgPrice' * Scale = value
  BY <1>5
<1> HIDE DEF q, value, fee, start
<1>9. SimTypeOK'
  <2>1. capital' \in Nat /\ fees' \in Nat /\ buys' \in Nat /\ entry' \in Nat
    BY <1>1, <1>2, <1>4, <1>5, SMT
  <2> QED
    BY <1>1, <1>2, <1>3, <1>4, <1>5, <2>1 DEF SimTypeOK
<1>10. BalanceExplained'
  <2>1. capital' = start + pnl' - fees' - value
    BY <1>2, <1>4, <1>5, <1>6, <1>7, SMT
  <2> QED
    BY <1>8, <2>1 DEF BalanceExplained, start
<1>11. TradesPaired'
  <2>1. buys = sells
    BY <1>2, SMT DEF Inv, TradesPaired
  <2> QED
    BY <1>1, <1>2, <1>3, <1>5, <2>1, SMT DEF TradesPaired
<1>12. (Flat /\ StopHonoured)'
  BY <1>1, <1>3, <1>5, SMT DEF Flat, StopHonoured
<1> QED
  BY <1>1, <1>9, <1>10, <1>11, <1>12 DEF Inv

LEMMA SellInv ==
  ASSUME BacktestAssumption, Inv,
         NEW given \in {-1, 0, 1}, NEW p \in Prices, Sell(given, p)
  PROVE  Inv'
<1> DEFINE got == Proceeds(position, p)
           value == position * avgPrice * Scale
           start == InitialCapital * (Scale * Scale)
<1>1. /\ NoFold' /\ InFold' /\ bar \in Nat /\ bar' = bar + 1 /\ p \in Nat \ {0}
      /\ mode' \in {0} \cup Splits /\ fold' \in Nat /\ bar' \in Nat
      /\ close' \in Prices \cup {0}
  BY RowInv DEF Sell
<1>2. /\ capital \in Nat /\ pnl \in Int /\ fees \in Nat /\ buys \in Nat /\ sells \in Nat
      /\ position \in Nat /\ position > 0 /\ avgPrice \in Nat /\ Scale \in Nat
  BY DEF Inv, SimTypeOK, Sell, MaySell, BacktestAssumption
<1>3. got \in Nat /\ value \in Nat /\ start \in Nat
  <2>1. position * avgPrice \in Nat
    BY <1>2, ProductNat
  <2> QED
    BY <1>1, <1>2, <2>1, ProductNat, ProceedsNat DEF BacktestAssumption
<1>4. /\ capital' = capital + got /\ pnl' = pnl + (got - value)
      /\ position' = 0 /\ avgPrice' = 0 /\ entry' = 0
      /\ sells' = sells + 1 /\ fees' = fees /\ buys' = buys
  BY DEF Sell
<1>5. capital = start + pnl - fees - value
  BY DEF Inv, BalanceExplained
<1>6. position' * avgPrice' * Scale = 0
  BY <1>2, <1>4, SMT
<1> HIDE DEF got, value, start
<1>7. SimTypeOK'
  <2>1. capital' \in Nat /\ pnl' \in Int /\ sells' \in Nat
    BY <1>2, <1>3, <1>4, SMT
  <2> QED
    BY <1>1, <1>2, <1>4, <2>1 DEF SimTypeOK
<1>8. BalanceExplained'
  <2>1. capital' = start + pnl' - fees' - 0
    BY <1>2, <1>3, <1>4, <1>5, SMT
  <2> QED
    BY <1>6, <2>1 DEF BalanceExplained, start
<1>9. TradesPaired'
  <2>1. buys = sells + 1
    BY <1>2, SMT DEF Inv, TradesPaired
  <2> QED
    BY <1>1, <1>2, <1>4, <2>1, SMT DEF TradesPaired
<1>10. (Flat /\ StopHonoured)'
  BY <1>4, SMT DEF Flat, StopHonoured
<1> QED
  BY <1>1, <1>7, <1>8, <1>9, <1>10 DEF Inv

LEMMA KeepInv ==
  ASSUME BacktestAssumption, Inv,
         NEW given \in {-1, 0, 1}, NEW p \in Prices, Keep(given, p)
  PROVE  Inv'
<1>1. /\ NoFold' /\ InFold' /\ bar \in Nat /\ bar' = bar + 1
      /\ mode' \in {0} \cup Splits /\ fold' \in Nat /\ bar' \in Nat
      /\ close' \in Prices \cup {0} /\ close' = p
  BY RowInv DEF Keep
<1>2. UNCHANGED account
  BY DEF Keep
<1>3. SimTypeOK' /\ Flat' /\ BalanceExplained'
  BY <1>1, <1>2 DEF Inv, SimTypeOK, Flat, BalanceExplained, account
<1>4. TradesPaired'
  <2>1. entry \in Nat /\ entry <= bar
    BY DEF Inv, SimTypeOK, TradesPaired
  <2>2. entry <= bar'
    BY <1>1, <2>1, SMT
  <2> QED
    BY <1>2, <2>2 DEF Inv, TradesPaired, account
<1>5. StopHonoured'
  <2>1. position > 0 => ~Stopped(p)
    BY DEF Keep, MaySell, Signal
  <2>2. Stopped(close)' <=> Stopped(p)
    BY <1>1, <1>2 DEF Stopped, account
  <2> QED
    BY <1>2, <2>1, <2>2 DEF StopHonoured, account
<1> QED
  BY <1>1, <1>3, <1>4, <1>5 DEF Inv
-----------------------------------------------------------------------------
LEMMA StepInv == BacktestAssumption /\ Inv /\ [SimNext]_simulation => Inv'
<1> SUFFICES ASSUME BacktestAssumption, Inv, [SimNext]_simulation
             PROVE  Inv'
  OBVIOUS
<1>1. ASSUME NEW k \in Folds, BeginFold(k) PROVE Inv'
  BY <1>1, BeginInv
<1>2. ASSUME NEW given \in {-1, 0, 1}, NEW p \in Prices,
             Buy(given, p) \/ Sell(given, p) \/ Keep(given, p)
      PROVE  Inv'
  BY <1>2, BuyInv, SellInv, KeepInv
<1>3. CASE UNCHANGED simulation
  BY <1>3 DEF simulation, account, Inv, SimTypeOK, Flat, NoFold, InFold, Folds, LastRow, FoldSize,
     BalanceExplained, StopHonoured, Stopped, TradesPaired
<1> QED
  BY <1>1, <1>2, <1>3 DEF SimNext

(* Inv holds in every state of a backtest, for any trade parameters.       *)
THEOREM InvAlways == SimSpec => []Inv
<1>1. SimInit => Inv
  BY BacktestAssumption, InitInv
<1>2. Inv /\ [SimNext]_simulation => Inv'
  BY BacktestAssumption, StepInv
<1> QED
  BY <1>1, <1>2, PTL DEF SimSpec

(* No balance, share count or fee total is ever negative.                  *)
THEOREM TypeCorrect == SimSpec => []SimTypeOK
<1>1. Inv => SimTypeOK
  BY DEF Inv
<1> QED
  BY <1>1, InvAlways, PTL

(* The balance is the initial capital plus the P&L of the sales, minus the *)
(* purchases' commission and what the position cost (base.py 77-118).      *)
THEOREM BalanceExplainedAlways == SimSpec => []BalanceExplained
<1>1. Inv => BalanceExplained
  BY DEF Inv
<1> QED
  BY <1>1, InvAlways, PTL

(* A position is sold at the first close past its limits (base.py 72-75).  *)
THEOREM StopHonouredAlways == SimSpec => []StopHonoured
<1>1. Inv => StopHonoured
  BY DEF Inv
<1> QED
  BY <1>1, InvAlways, PTL

(* The k-th sale closes the k-th purchase (base.py 77-118, read by 176-184). *)
THEOREM TradesPairedAlways == SimSpec => []TradesPaired
<1>1. Inv => TradesPaired
  BY DEF Inv
<1> QED
  BY <1>1, InvAlways, PTL

(* No row is evaluated in two folds (tasks.py 77-90).                      *)
THEOREM FoldsInOrderAlways == SimSpec => FoldsInOrder
<1>1. Inv /\ [SimNext]_simulation => [bar' >= bar]_simulation
  <2> SUFFICES ASSUME Inv, SimNext PROVE bar' >= bar
    OBVIOUS
  <2>1. bar \in Nat /\ mode \in {0} \cup Splits
    BY DEF Inv, SimTypeOK
  <2>2. ASSUME NEW k \in Folds, BeginFold(k) PROVE bar' >= bar
    <3>1. bar' = FirstRow(k) - 1 /\ k > fold
      BY <2>2 DEF BeginFold
    <3>2. FirstRow(k) - 1 \in Nat
      BY <2>1, BacktestAssumption, FoldBounds
    <3>3. CASE fold \in Folds
      <4>1. LastRow(fold) \in Nat /\ bar <= LastRow(fold)
        BY <2>1, <3>3, BacktestAssumption, FoldBounds DEF Inv, InFold
      <4>2. fold < k
        BY <3>1, <3>3, SMT DEF Folds
      <4>3. LastRow(fold) <= FirstRow(k) - 1
        BY <2>1, <3>3, <4>2, BacktestAssumption, FoldBounds
      <4> QED
        BY <2>1, <3>1, <3>2, <4>1, <4>3, SMT
    <3>4. CASE fold \notin Folds
      BY <3>1, <3>2, <3>4, SMT DEF Inv, NoFold
    <3> QED
      BY <3>3, <3>4
  <2>3. ASSUME NEW given \in {-1, 0, 1}, NEW p \in Prices,
               Buy(given, p) \/ Sell(given, p) \/ Keep(given, p)
        PROVE  bar' >= bar
    BY <2>1, <2>3, SMT DEF Buy, Sell, Keep, NextRow
  <2> QED
    BY <2>2, <2>3 DEF SimNext
<1> QED
  BY <1>1, InvAlways, PTL DEF SimSpec, FoldsInOrder
=============================================================================
