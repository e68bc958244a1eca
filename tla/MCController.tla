----------------------------- MODULE MCController -----------------------------
(* Two profiles of one account: a baseline configuration, a clear trend, a     *)
(* weak one and invalid features; prices in cents of a hundredth of an ETH.    *)
EXTENDS Controller

Settings ==
  [exposure_profile |-> "baseline", underlying |-> "ETH", risk_fraction |-> 5,
   notional_fraction |-> 20, gross_fraction |-> 30, max_slippage |-> 1500, fee |-> 600,
   active |-> FALSE, scalp |-> FALSE, interval |-> 300]

Bar(trend) == [trend |-> trend, efficiency |-> 80, volume |-> 180]

Trend(trend, valid) ==
  [valid |-> valid, stale |-> FALSE, trend |-> trend, efficiency |-> 80, volume |-> 180,
   atr |-> 100, previous |-> Bar(trend)]

Market == {Trend(200, TRUE), Trend(60, TRUE), Trend(200, FALSE)}

\* 800 USDC in normal mode, and 660 of a peak of 800 in restricted mode.
Valuations ==
  {[equity |-> 80000, available |-> 80000, mode |-> "normal", drawdown |-> 0, scale |-> 100,
    trade_budget |-> 400, floor |-> 14000, cost_multiple |-> 3],
   [equity |-> 66000, available |-> 9000, mode |-> "restricted", drawdown |-> 17, scale |-> 53,
    trade_budget |-> 174, floor |-> 17000, cost_multiple |-> 4]}

Rule(step, increment) == [tick |-> increment, step |-> step, min_amount |-> 1, min_notional |-> 1000, max_amount |-> 50]
NoPatch == [veto |-> FALSE, size |-> 100, confidence |-> 0, stop |-> 100, profit |-> 100,
            hold |-> 100, cost |-> 3]

Book(price, spacing) == <<[price |-> price, amount |-> 2], [price |-> price + spacing, amount |-> 3],
                       [price |-> price + 3 * spacing, amount |-> 9]>>

Offers ==
  {[price |-> 3000, side |-> 1, levels |-> Book(3001, 1), rule |-> Rule(step, increment),
    fee |-> 500, base_fee |-> 1, patch |-> NoPatch] : step \in {1, 2}, increment \in {1, 4}}
=============================================================================
