----------------------------- MODULE SpreadRules -----------------------------
(***************************************************************************)
(* What a debit spread may be planned with: options/spread_builder.py,     *)
(* options/delta.py and costed_plan of options/ranking.py.                 *)
(*                                                                         *)
(* Whole numbers stand for the code's decimals and floats.  Amounts are in *)
(* lots; prices, strikes and the spot are money per lot; deltas are        *)
(* percent; fee rates and caps are shares of 10000, and the fees of the    *)
(* quotes come out whole.  A quote's tenor is its expiry in hours from     *)
(* now.  Quotes of another underlying or multiplier, or with numbers that  *)
(* are not finite and positive, are dropped by the code and not among the  *)
(* inputs.                                                                 *)
(***************************************************************************)
EXTENDS EntryRules

NoPlan == [amount |-> 0]

\* 0.5% around the spot.
Moneyness(kind, strike, spot) ==
  IF 200 * Magnitude(strike - spot) <= spot THEN "ATM"
  ELSE IF (spot > strike) = (kind = "call") THEN "ITM" ELSE "OTM"

-----------------------------------------------------------------------------
(* Delta *)

\* account_policy: caps on an equity scaled by the risk mode, in percent.
AccountPolicy(spot, equity, scale, existing, committed, config) ==
  [spot |-> spot, existing |-> existing, pending_buy |-> 0, pending_sell |-> 0,
   committed |-> committed,
   net_cap   |-> (equity * config.net_fraction * scale) \div 10000,
   gross_cap |-> (equity * config.gross_fraction * scale) \div 10000,
   moneyness |-> config.moneyness, buy_target |-> config.buy_target,
   sell_target |-> config.sell_target]

\* exposure: the account's delta lies between what it is when none and when all
\* of the pending orders are filled; `worst` is in hundredths of money.
Exposure(policy, b, s, bought, sold) ==
  LET net   == b * bought - s * sold
      low   == policy.existing - policy.pending_sell + net
      high  == policy.existing + policy.pending_buy + net
      worst == AtLeast(Magnitude(low), Magnitude(high)) * policy.spot
      gross == policy.committed + (bought + sold) * policy.spot
  IN  [net |-> net, worst |-> worst, gross |-> gross,
       within |-> worst <= 100 * policy.net_cap /\ gross <= policy.gross_cap]

\* The delta the account may have before the plan.
Held(policy) == AtLeast(Magnitude(policy.existing - policy.pending_sell),
                        Magnitude(policy.existing + policy.pending_buy))

\* The delta a lot may add, whichever of its legs are filled.
UnitDelta(b, s) == AtLeast(Magnitude(b), AtLeast(Magnitude(s), Magnitude(b - s)))

\* Mutant: the legs are taken to hedge each other.
AmountLimitHedged(policy, b, s, step) ==
  LET room  == 100 * policy.net_cap - Held(policy) * policy.spot
      gross == (policy.gross_cap - policy.committed) \div (2 * policy.spot)
      limit == IF b = s THEN gross ELSE AtMost(gross, room \div (Magnitude(b - s) * policy.spot))
  IN  IF room <= 0 THEN 0 ELSE AtLeast(0, (limit \div step) * step)

\* amount_limit: whole steps that keep the caps with both legs or either one.
AmountLimit(policy, b, s, step) ==
  LET room  == 100 * policy.net_cap - Held(policy) * policy.spot
      gross == policy.gross_cap - policy.committed
      unit  == UnitDelta(b, s)
      limit == IF unit = 0 THEN gross \div (2 * policy.spot)
               ELSE AtMost(gross \div (2 * policy.spot), room \div (unit * policy.spot))
  IN  IF room <= 0 \/ gross <= 0 THEN 0 ELSE (limit \div step) * step

-----------------------------------------------------------------------------
(* build_spread *)

Sorted(levels, sign) ==
  \A i \in 1 .. Len(levels) - 1 : sign * levels[i].price <= sign * levels[i + 1].price

\* Fresh, two to five days from expiry, with an ordered book at most 15% wide
\* and a delta of the right sign.
Eligible(q, kind) ==
  /\ q.kind = kind /\ q.tenor \in 48 .. 120 /\ q.age \in 0 .. 5
  /\ q.bids # <<>> /\ q.asks # <<>> /\ q.bids[1].price < q.asks[1].price
  /\ Magnitude(q.delta) <= 100 /\ (q.delta > 0) = (kind = "call")
  /\ Sorted(q.bids, -1) /\ Sorted(q.asks, 1)
  /\ 100 * (q.asks[1].price - q.bids[1].price) <= 15 * q.asks[1].price

Width(buy, sell) ==
  IF buy.kind = "call" THEN sell.strike - buy.strike ELSE buy.strike - sell.strike

\* The deltas and strikes two legs may have.
Matched(buy, sell, policy) ==
  /\ Magnitude(buy.delta) \in 25 .. 70 /\ Magnitude(sell.delta) \in 10 .. 35
  /\ Magnitude(buy.delta) > Magnitude(sell.delta)
  /\ policy.moneyness \in {"any", Moneyness(buy.kind, buy.strike, policy.spot)}
  /\ buy.tenor = sell.tenor /\ buy.step = sell.step /\ buy.name # sell.name
  /\ Width(buy, sell) > 0

Depth(levels) == DepthTo(levels)[Len(levels)]

\* depth_quote: what the amount costs, taken level by level.
CostOf(levels, amount) ==
  FoldLeft(LAMBDA acc, level :
             LET take == AtMost(acc.left, level.amount)
             IN  [left |-> acc.left - take, cost |-> acc.cost + take * level.price],
           [left |-> amount, cost |-> 0], levels).cost

\* A fifth of the depth, at the best prices within the budget.
Lots(buy, sell, budget, policy) ==
  LET unit     == buy.asks[1].price - sell.bids[1].price
      capacity == AtMost(AtMost(Depth(buy.asks), Depth(sell.bids)) \div 5,
                         AmountLimit(policy, buy.delta, sell.delta, buy.step))
  IN  IF unit <= 0 THEN 0
      ELSE (AtMost(budget \div unit, capacity) \div buy.step) * buy.step

\* A loss within the budget and a reward of one and a half times the risk.
WorthIt(loss, payoff, budget) == loss > 0 /\ loss <= budget /\ 5 * loss <= 2 * payoff

\* A pair of quotes as a plan: bounded at the limits it is submitted with, and
\* worth it at the prices of the book as well.
Built(buy, sell, budget, policy) ==
  LET amount     == Lots(buy, sell, budget, policy)
      payoff     == Width(buy, sell) * amount
      buy_limit  == CeilDiv(WorstPrice(buy.asks, amount), buy.tick) * buy.tick
      sell_limit == (WorstPrice(sell.bids, amount) \div sell.tick) * sell.tick
      debit      == (buy_limit - sell_limit) * amount
      view       == Exposure(policy, buy.delta, sell.delta, amount, amount)
  IN  IF /\ amount > 0 /\ amount >= AtLeast(buy.min_amount, sell.min_amount)
         /\ WorthIt(CostOf(buy.asks, amount) - CostOf(sell.bids, amount), payoff, budget)
         /\ sell_limit > 0 /\ WorthIt(debit, payoff, budget) /\ view.within
      THEN [buy |-> buy, sell |-> sell, amount |-> amount, payoff |-> payoff,
            buy_limit |-> buy_limit, sell_limit |-> sell_limit, debit |-> debit, loss |-> debit]
      ELSE NoPlan

\* Three days to expiry, then the deltas aimed at, then the best reward.
Preferred(p, q, policy) ==
  LET distance(plan) == Magnitude(plan.buy.tenor - 72)
      offset(plan)   == Magnitude(Magnitude(plan.buy.delta) - policy.buy_target)
                        + Magnitude(Magnitude(plan.sell.delta) - policy.sell_target)
  IN  \/ distance(p) < distance(q)
      \/ /\ distance(p) = distance(q)
         /\ \/ offset(p) < offset(q)
            \/ offset(p) = offset(q) /\ p.payoff * q.loss >= q.payoff * p.loss

\* The plans build_spread may return (of equals, the first of the chain).
Spreads(chain, kind, budget, policy) ==
  LET eligible   == {q \in chain : Eligible(q, kind)}
      pairs      == {p \in eligible \X eligible : Matched(p[1], p[2], policy)}
      candidates == {Built(p[1], p[2], budget, policy) : p \in pairs} \ {NoPlan}
  IN  {p \in candidates : \A q \in candidates : Preferred(p, q, policy)}

-----------------------------------------------------------------------------
(* costed_plan *)

Charge(fees, amount, price, spot) ==
  IF amount = 0 THEN 0
  ELSE fees.base + AtMost(amount * spot * fees.rate, amount * price * fees.cap) \div 10000

\* Both legs, in and out again, at the limits.
RoundTrip(plan, amount, spot) ==
  2 * (Charge(plan.buy.fees, amount, plan.buy_limit, spot)
       + Charge(plan.sell.fees, amount, plan.sell_limit, spot))

\* The plan again for an amount whose fees fit the budget with its debit.
Costed(plan, budget, policy) ==
  LET step    == plan.buy.step
      fixed   == 2 * (plan.buy.fees.base + plan.sell.fees.base)
      unit    == (plan.buy_limit - plan.sell_limit) + RoundTrip(plan, 1, policy.spot) - fixed
      amount  == AtMost(plan.amount, (AtLeast(0, budget - fixed) \div (unit * step)) * step)
      debit   == (plan.buy_limit - plan.sell_limit) * amount
      payoff  == Width(plan.buy, plan.sell) * amount
      reserve == RoundTrip(plan, amount, policy.spot)
      view    == Exposure(policy, plan.buy.delta, plan.sell.delta, amount, amount)
  IN  IF /\ amount > 0 /\ amount >= AtLeast(plan.buy.min_amount, plan.sell.min_amount)
         /\ WorthIt(debit + reserve, payoff, budget) /\ view.within
      THEN [buy |-> plan.buy, sell |-> plan.sell, amount |-> amount, payoff |-> payoff,
            buy_limit |-> plan.buy_limit, sell_limit |-> plan.sell_limit, debit |-> debit,
            loss |-> debit + reserve, fees |-> reserve, net |-> view.net * policy.spot,
            gross |-> view.gross, net_cap |-> policy.net_cap, gross_cap |-> policy.gross_cap,
            committed |-> policy.committed]
      ELSE NoPlan
=============================================================================
