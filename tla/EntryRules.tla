------------------------------ MODULE EntryRules ------------------------------
(***************************************************************************)
(* The rules an entry of the controller passes: agents/condor_agent.py,    *)
(* risk/position_sizing.py, risk/venue_sizing.py, risk/exposure.py and the *)
(* exits of risk/competition.py and runtime/control.py.                    *)
(*                                                                         *)
(* Whole numbers stand for the code's decimals and floats: money is in     *)
(* cents, amounts in the units the venue's step is given in, a price is    *)
(* cents per unit, fractions are percent, rates and distances parts per    *)
(* million, a confidence is a share of 20000.  Values that are not finite, *)
(* which every rule refuses, are not among the inputs.                     *)
(***************************************************************************)
EXTENDS Integers, Sequences, FiniteSetsExt, SequencesExt

AtMost(n, cap)    == IF n <= cap THEN n ELSE cap
AtLeast(n, floor) == IF n >= floor THEN n ELSE floor
Magnitude(n)      == IF n >= 0 THEN n ELSE -n
CeilDiv(n, d)     == (n + d - 1) \div d
Certain           == 20000

-----------------------------------------------------------------------------
(* The decision *)

\* exposure_limits, in percent of the equity; no other identity is approved.
ExposureLimits(profile, underlying) ==
  IF profile = "eth_exposure_40_75_v1" /\ underlying = "ETH"
  THEN [perp_notional |-> 40, perp_gross |-> 40, option_net |-> 20, option_gross |-> 75]
  ELSE [perp_notional |-> 30, perp_gross |-> 30, option_net |-> 20, option_gross |-> 30]

\* Trend, efficiency and volume of a bar and of the one before, in hundredths.
Confidence(f) ==
  AtMost(Certain, 35 * AtMost(Magnitude(f.trend), 200) + 70 * f.efficiency
                  + 30 * AtMost(f.volume, 200))

\* The floors of the gates, by mode and by whether Condor is active.
Floors(mode, active) ==
  IF mode = "restricted"
  THEN [volume |-> 150, trend |-> 150, efficiency |-> 45, confidence |-> 17000]
  ELSE [volume |-> IF active THEN 110 ELSE 120, trend |-> IF active THEN 70 ELSE 90,
        efficiency |-> 30, confidence |-> 14000]

Halts(f, account) ==
  \/ ~f.valid \/ f.stale
  \/ account.mode = "hard_stop" \/ account.drawdown >= 25
  \/ account.mode = "normal" /\ account.drawdown >= 15
  \/ ~account.reconciled

\* Both bars pass every gate, and agree on the direction.
Confirmed(f, floors) ==
  /\ f.atr \in 3 .. 300
  /\ f.volume >= floors.volume /\ f.efficiency >= floors.efficiency
  /\ Magnitude(f.trend) >= floors.trend
  /\ f.previous.trend * f.trend > 0 /\ Magnitude(f.previous.trend) >= floors.trend
  /\ f.previous.volume >= floors.volume /\ f.previous.efficiency >= floors.efficiency
  /\ Confidence(f) >= floors.confidence

Flat == [halt |-> FALSE, signal |-> 0, confidence |-> 0]

\* decide
Decide(f, account, active) ==
  CASE Halts(f, account) -> [Flat EXCEPT !.halt = TRUE]
    [] ~Halts(f, account) /\ ~Confirmed(f, Floors(account.mode, active)) -> Flat
    [] OTHER -> [halt |-> FALSE, signal |-> IF f.trend > 0 THEN 1 ELSE -1,
                 confidence |-> Confidence(f)]

\* A clear edge in volatility sends a decision to the options instead.
OptionDirection(decision, edge) ==
  IF decision.signal # 0 /\ decision.confidence >= 15000 /\ edge >= 2
  THEN decision.signal ELSE 0

-----------------------------------------------------------------------------
(* Exits *)

\* dynamic_exits: 1.25 to 1.75 times the range, within 0.3% and 1.5%.
DynamicExits(atr, confidence, interval) ==
  LET stop == AtMost(15000, AtLeast((atr * (70000 - confidence)) \div 400, 3000))
  IN  [stop |-> stop, profit |-> (stop * (60000 + confidence)) \div 40000,
       hold |-> AtMost(21600, AtLeast(3600 + (72 * confidence) \div 200, 2 * interval))]

\* scalp_exits: the same distances, held for less.
ScalpExits(atr, confidence, interval) ==
  [DynamicExits(atr, confidence, interval) EXCEPT
     !.hold = AtLeast(600 + (12 * confidence) \div 200, 2 * interval)]

EntryExits(f, confidence, config) ==
  IF config.scalp THEN ScalpExits(f.atr, confidence, config.interval)
  ELSE DynamicExits(f.atr, confidence, config.interval)

\* tune_exits, in percent: an agent may only tighten the stop.
TunedExits(exits, patch) ==
  [stop |-> (exits.stop * patch.stop) \div 100, profit |-> (exits.profit * patch.profit) \div 100,
   hold |-> AtMost(21600, AtLeast((exits.hold * patch.hold) \div 100, 1))]

\* control.entry_allowed
RuntimeAllows(patch, confidence, floor) ==
  ~patch.veto /\ patch.size > 0 /\ confidence >= AtLeast(floor, patch.confidence)

-----------------------------------------------------------------------------
(* Size *)

\* Mutant: what the account already holds is not counted.
RiskSizeAlone(account, confidence, stop, config) ==
  LET scale  == account.scale
      budget == AtMost((account.equity * config.risk_fraction * scale) \div 100000,
                       account.trade_budget)
  IN  AtMost((50 * budget * confidence) \div stop,
             AtMost((account.equity * config.notional_fraction * scale) \div 10000,
                    account.available))

\* risk_size, in cents; 0 for inputs it refuses.
RiskSize(account, confidence, stop, config) ==
  LET scale  == account.scale
      budget == AtMost((account.equity * config.risk_fraction * scale) \div 100000,
                       account.trade_budget)
  IN  IF account.equity <= 0 \/ stop <= 0 \/ account.drawdown >= 25
      THEN 0
      ELSE AtLeast(0, Min({ (50 * budget * confidence) \div stop,
                            (account.equity * config.notional_fraction * scale) \div 10000,
                            AtLeast(0, (account.equity * config.gross_fraction) \div 100
                                       - account.committed),
                            account.available }))

\* The price a limit order may carry: the tick on the far side of the price.
Limit(price, side, tick) ==
  IF side = 1 THEN CeilDiv(price, tick) * tick ELSE (price \div tick) * tick

\* venue_size: whole steps within the budget, and nothing below the minimum.
VenueSize(budget, price, side, rule) ==
  LET limit    == Limit(price, side, rule.tick)
      exposure == AtLeast(price, limit)
      required == CeilDiv(AtLeast(rule.min_amount * limit, rule.min_notional), limit * rule.step)
      steps    == AtMost(budget \div (exposure * rule.step), rule.max_amount \div rule.step)
  IN  [price |-> limit, amount |-> IF limit <= 0 \/ steps < required THEN 0 ELSE steps * rule.step]

\* What the first n levels of a book offer together.
DepthTo(levels) ==
  LET depth[n \in 0 .. Len(levels)] == IF n = 0 THEN 0 ELSE depth[n - 1] + levels[n].amount
  IN  depth

\* depth_quote: the worst price that fills the amount, 0 if the book cannot.
WorstPrice(levels, amount) ==
  LET enough == {n \in DOMAIN levels : DepthTo(levels)[n] >= amount}
  IN  IF enough = {} THEN 0 ELSE levels[Min(enough)].price

\* cost_allows_entry: the target is worth a multiple of the round trip.
CostAllowsEntry(profit, costs, multiple) ==
  profit >= AtLeast(3000, multiple * costs)

Apart(price, reference) == (Magnitude(price - reference) * 1000000) \div reference

-----------------------------------------------------------------------------
(* The proposal *)

\* Fees both ways, the spread paid now, a reserve for the exit, and 1 bp.
Costs(q, config, worst, notional) ==
  2 * AtLeast(config.fee, q.fee) + Apart(worst, q.price) + config.max_slippage
  + (2000000 * q.base_fee) \div notional + 100

NoTicket == [amount |-> 0]

\* What create_actions_proposal makes of an account, a decision and a book: the
\* amount is sized at the middle, then at the price that amount would pay, and
\* the smaller one must still fit the budget at the limit it is sent with.
Ticket(q, account, f, confidence, config) ==
  LET untuned  == EntryExits(f, confidence, config)
      exits    == TunedExits(untuned, q.patch)
      budget   == (RiskSize(account, confidence,
                            untuned.stop + 2 * (config.fee + config.max_slippage) + 100, config)
                   * q.patch.size) \div 100
      initial  == VenueSize(budget, q.price, q.side, q.rule)
      first    == WorstPrice(q.levels, initial.amount)
      fits     == VenueSize(budget, first, q.side, q.rule)
      amount   == AtMost(initial.amount, fits.amount)
      worst    == WorstPrice(q.levels, amount)
      limit    == fits.price
      notional == amount * AtLeast(q.price, limit)
      costs    == Costs(q, config, worst, notional)
  IN  IF /\ budget > 0 /\ initial.amount > 0
         /\ first > 0 /\ Apart(first, q.price) <= config.max_slippage
         /\ fits.amount > 0 /\ worst > 0
         /\ notional <= budget /\ Apart(limit, q.price) <= config.max_slippage
         /\ CostAllowsEntry(exits.profit, costs, AtLeast(account.cost_multiple, q.patch.cost))
         /\ amount >= q.rule.min_amount /\ amount * limit >= q.rule.min_notional
         /\ notional * (exits.stop + costs) <= 50 * account.trade_budget * confidence
      THEN [amount |-> amount, limit |-> limit, budget |-> budget, exits |-> exits, costs |-> costs]
      ELSE NoTicket
=============================================================================
