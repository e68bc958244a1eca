----------------------------- MODULE SpreadTrade -----------------------------
(***************************************************************************)
(* The money of one spread, from its plan to its closed trade: plan_options *)
(* of the controller, and _validate_plan, _request, _check_offer and the    *)
(* execution and settlement of execution/options_rfq.py.                    *)
(*                                                                         *)
(* A plan is made from one observation of the account, admitted at a later *)
(* one, executed at a third and closed at a fourth; a venue that may charge *)
(* any fee and quote any price answers in between.  Module OptionsRFQ has   *)
(* the lost answers, crashes and inventories of the same lifecycle, so here *)
(* a request is known and an execution settles, and "quoting" and           *)
(* "settling" carry the intent.                                            *)
(***************************************************************************)
EXTENDS SpreadRules

CONSTANTS Capital,   \* total_amount_quote
          Config,    \* the planner's settings, with the exposure profile's caps
          Accounts,  \* what an account, the checkpoint and the runtime patch may say
          Chains,    \* the quotes on offer
          Offers,    \* a maker's prices of the two instruments
          Fees       \* what the venue may charge for a transaction

ASSUME CapitalAssumption == Capital \in Nat
ASSUME AccountsAssumption ==
  \A a \in Accounts :
    /\ {a.available, a.equity, a.delta, a.committed} \subseteq Int
    /\ {a.trade_budget, a.scale} \subseteq Nat /\ a.spot \in Nat \ {0} /\ a.size \in 0 .. 100
ASSUME ConfigAssumption == {Config.net_fraction, Config.gross_fraction} \subseteq Nat
ASSUME ChainsAssumption ==
  \A chain \in Chains : \A q \in chain :
    /\ {q.strike, q.delta} \subseteq Int /\ {q.step, q.tick} \subseteq Nat \ {0}
    /\ {q.fees.base, q.fees.rate, q.fees.cap} \subseteq Nat
    /\ {q.bids, q.asks} \subseteq Seq([price : Nat \ {0}, amount : Nat \ {0}])
ASSUME OffersAssumption == Offers \subseteq [buy : Nat, sell : Nat]
ASSUME FeesAssumption == Fees \subseteq Int

VARIABLES account,  \* as a read of it now would say
          data,     \* processed_data: the plan and the account it was made from
          plan,     \* the plan in the journal
          trade,    \* the rest of the journal
          closed    \* the trade closed last, until another begins

vars == <<account, data, plan, trade, closed>>

Trades == [phase : {"idle", "quoting", "settling", "open", "halted"}, intent : {"entry", "exit"},
           max_fee : Int, max_cost : Int, forced : BOOLEAN, cost : Int,
           debit : Int, fee : Int, funds : Int]

NoTrade == [phase |-> "idle", intent |-> "entry", max_fee |-> 0, max_cost |-> 0,
            forced |-> FALSE, cost |-> 0, debit |-> 0, fee |-> 0, funds |-> 0]
NoClose == [pnl |-> 0, funds |-> 0, forced |-> FALSE, basis |-> 0, spared |-> 0]

\* What may be spent on a spread, apart from the runtime's multiplier.
Funds(a) == AtLeast(0, AtMost(AtMost(a.available, Capital \div 100), a.trade_budget))

\* entry_budget, with the budget of the tick, which is that of the last candle.
Budget(a) == (AtMost(Funds(a), data.account.trade_budget) * a.size) \div 100

-----------------------------------------------------------------------------
(* Planning *)

PlanBudget(a) ==
  (Min({a.available, a.equity \div 100, a.trade_budget}) * a.size) \div 100

Policy(a, budget) ==
  AccountPolicy(a.spot, a.equity - budget, a.scale, a.delta, a.committed, Config)

\* The plans of a chain, with the fees of a round trip at the limits.
PlansFor(a, chain, kind) ==
  LET budget == PlanBudget(a)
      policy == Policy(a, budget)
  IN  IF budget <= 0 THEN {NoPlan}
      ELSE {Costed(p, budget, policy) : p \in Spreads(chain, kind, budget, policy)}

Plans == [input \in Accounts \X Chains \X {"call", "put"} |-> PlansFor(input[1], input[2], input[3])]

\* build_spread and costed_plan find one, or none.
Found(chain, kind) ==
  LET plans == Plans[<<account, chain, kind>>]
  IN  IF plans = {} THEN {NoPlan} ELSE plans

\* plan_options: a plan never survives a failed one.
PlanOptions ==
  /\ \E chain \in Chains, kind \in {"call", "put"} : \E found \in Found(chain, kind) :
       data' = [account |-> account, plan |-> found]
  /\ UNCHANGED <<account, plan, trade, closed>>

\* The decision, the connector or the runtime stands against options.
PlanNothing ==
  /\ data' = [account |-> account, plan |-> NoPlan]
  /\ UNCHANGED <<account, plan, trade, closed>>

-----------------------------------------------------------------------------
(* Entry *)

NetCap(p)   == AtMost(p.net_cap, (account.equity * Config.net_limit) \div 100)
GrossCap(p) == AtMost(p.gross_cap, (account.equity * Config.gross_limit) \div 100)

Numbers(p) == {p.amount, p.debit, p.fees, p.loss, p.payoff, p.buy_limit, p.sell_limit,
               p.net, p.gross, p.net_cap, p.gross_cap, p.committed}

\* _validate_plan, against the account of now and beside the other slot.
Valid(p, budget) ==
  /\ Numbers(p) \subseteq Int
  /\ 0 <= p.committed /\ p.committed <= p.gross
  /\ Magnitude(p.net + account.other_net) <= 100 * NetCap(p)
  /\ p.gross - p.committed + account.other_gross <= GrossCap(p)
  /\ Magnitude(p.net) <= 100 * NetCap(p) /\ p.gross <= GrossCap(p)
  /\ p.amount > 0 /\ p.debit > 0 /\ p.fees > 0
  /\ 0 < p.sell_limit /\ p.sell_limit < p.buy_limit
  /\ p.debit + p.fees <= p.loss /\ 5 * p.loss <= 2 * p.payoff
  /\ p.loss <= AtMost(budget, account.available)

\* _request: half of the round trip's fees, and for an exit no cost at all.
Requested(p, intent) ==
  [trade EXCEPT !.phase = "quoting", !.intent = intent, !.max_fee = p.fees \div 2 + 1,
                !.max_cost = IF intent = "entry" THEN p.debit ELSE 0]

\* An idle slot takes the plan of the last candle; the fee bounds are rounded up.
Admit ==
  /\ trade.phase = "idle" /\ data.plan # NoPlan
  /\ Valid(data.plan, Budget(account))
  /\ data.plan.debit + data.plan.fees + 2 <= Budget(account)
  /\ plan' = data.plan
  /\ trade' = Requested(data.plan, "entry")
  /\ closed' = NoClose
  /\ UNCHANGED <<account, data>>

\* What the slot pays; to leave, it buys the leg it sold.
Cost(offer) ==
  IF trade.intent = "entry" THEN (offer.buy - offer.sell) * plan.amount
  ELSE (offer.sell - offer.buy) * plan.amount

\* _check_offer
Acceptable(offer) ==
  /\ trade.phase = "quoting" /\ Cost(offer) <= trade.max_cost
  /\ trade.intent = "entry" =>
       Cost(offer) > 0 /\ offer.buy <= plan.buy_limit /\ offer.sell >= plan.sell_limit

Basis == trade.debit + trade.fee

\* Mutant: the fee of the exit is forgotten.
WorthLeavingFree(cost) ==
  LET pnl == -cost - Basis
  IN  100 * pnl >= 30 * Basis \/ 100 * pnl <= -18 * Basis

\* Take profit and stop loss, with the fee the venue may charge at most.
WorthLeaving(cost) ==
  LET pnl == -cost - trade.max_fee - Basis
  IN  100 * pnl >= 30 * Basis \/ 100 * pnl <= -18 * Basis

\* An offer worth taking: any within the bounds, except to leave unforced.
Chosen(offer) ==
  /\ Acceptable(offer)
  /\ trade.intent = "entry" \/ trade.forced \/ WorthLeaving(Cost(offer))

Affordable(cost) == account.available >= AtLeast(0, cost + trade.max_fee)

\* Mutant: the budget of the admission is not looked at again.
FitsStill(cost) == TRUE

\* The way in and the way out, within the budget of this moment.
Fits(cost) == cost + 2 * trade.max_fee <= Budget(account)

\* The account is read again when the offer has been signed.
ExecuteEntry(offer) ==
  /\ trade.intent = "entry" /\ Chosen(offer)
  /\ Affordable(Cost(offer)) /\ Fits(Cost(offer))
  /\ trade' = [trade EXCEPT !.phase = "settling", !.cost = Cost(offer), !.funds = Funds(account)]
  /\ UNCHANGED <<account, data, plan, closed>>

\* rfq_pre_execute_account_changed
Unaffordable(offer) ==
  /\ Chosen(offer) /\ ~Affordable(Cost(offer))
  /\ trade' = [trade EXCEPT !.phase = "halted"]
  /\ UNCHANGED <<account, data, plan, closed>>

\* No offer in time, no entry any more, or one that no longer fits.
Cancel ==
  /\ trade.phase = "quoting"
  /\ IF trade.intent = "entry" THEN trade' = NoTrade /\ plan' = NoPlan
     ELSE trade' = [trade EXCEPT !.phase = "open"] /\ UNCHANGED plan
  /\ UNCHANGED <<account, data, closed>>

-----------------------------------------------------------------------------
(* Exit *)

\* An open spread asks for a way out, forced by the operator, the decision, the
\* drawdown or an exposure over its caps, or to see what it would bring.
Leave ==
  /\ trade.phase = "open"
  /\ \E force \in BOOLEAN : trade' = [Requested(plan, "exit") EXCEPT !.forced = force]
  /\ UNCHANGED <<account, data, plan, closed>>

\* Such a reason, or the age of the spread, while it waits for offers.
ForceExit ==
  /\ trade.phase = "quoting" /\ trade.intent = "exit" /\ ~trade.forced
  /\ trade' = [trade EXCEPT !.forced = TRUE]
  /\ UNCHANGED <<account, data, plan, closed>>

ExecuteExit(offer) ==
  /\ trade.intent = "exit" /\ Chosen(offer)
  /\ Affordable(Cost(offer))
  /\ trade' = [trade EXCEPT !.phase = "settling", !.cost = Cost(offer)]
  /\ UNCHANGED <<account, data, plan, closed>>

-----------------------------------------------------------------------------
(* Settlement *)

\* rfq_settled_fee_exceeds_bound
Overcharged(fee) ==
  /\ trade.phase = "settling" /\ ~(0 <= fee /\ fee <= trade.max_fee)
  /\ trade' = [trade EXCEPT !.phase = "halted"]
  /\ UNCHANGED <<account, data, plan, closed>>

SettleEntry(fee) ==
  /\ trade.phase = "settling" /\ trade.intent = "entry" /\ 0 <= fee /\ fee <= trade.max_fee
  /\ trade' = [trade EXCEPT !.phase = "open", !.debit = trade.cost, !.fee = fee]
  /\ UNCHANGED <<account, data, plan, closed>>

\* The closed trade, with what it was granted, and what its fee was spared.
SettleExit(fee) ==
  /\ trade.phase = "settling" /\ trade.intent = "exit" /\ 0 <= fee /\ fee <= trade.max_fee
  /\ closed' = [pnl |-> -trade.cost - fee - Basis, funds |-> trade.funds, forced |-> trade.forced,
                basis |-> Basis, spared |-> trade.max_fee - fee]
  /\ trade' = NoTrade /\ plan' = NoPlan
  /\ UNCHANGED <<account, data>>

-----------------------------------------------------------------------------
(* Specification *)

Init ==
  /\ account \in Accounts
  /\ data = [account |-> account, plan |-> NoPlan]
  /\ plan = NoPlan /\ trade = NoTrade
  /\ closed = NoClose

\* Prices move, other trades settle, the operator changes the multiplier.
Drift ==
  /\ account' \in Accounts
  /\ UNCHANGED <<data, plan, trade, closed>>

Next ==
  \/ Drift \/ PlanOptions \/ PlanNothing
  \/ Admit \/ Cancel \/ Leave \/ ForceExit
  \/ \E offer \in Offers : ExecuteEntry(offer) \/ Unaffordable(offer) \/ ExecuteExit(offer)
  \/ \E fee \in Fees : Overcharged(fee) \/ SettleEntry(fee) \/ SettleExit(fee)

Spec == Init /\ [][Next]_vars

-----------------------------------------------------------------------------
(* Properties *)

TypeOK ==
  /\ account \in Accounts /\ data.account \in Accounts
  /\ trade \in Trades
  /\ trade.phase # "idle" => Numbers(plan) \subseteq Int
  /\ closed \in [pnl : Int, funds : Int, forced : BOOLEAN, basis : Int, spared : Int]

Leaving == trade.intent = "exit" /\ trade.phase \in {"quoting", "settling"}

\* From the execution of the entry on: what the spread costs, with the fee of a
\* way out that has yet to be paid.
Bounded ==
  /\ trade.phase = "settling" /\ trade.intent = "entry" =>
       trade.cost + 2 * trade.max_fee <= trade.funds
  /\ trade.phase = "open" \/ Leaving => Basis + plan.fees \div 2 + 1 <= trade.funds

\* "Loss is bounded": however the account and its budgets drift between the plan,
\* the admission, the execution and the exit, and whatever the venue charges, a
\* closed spread has lost no more than 1% of the capital, the trade budget and
\* the money available, as they were when its entry was executed.
LossWithinFunds == closed.pnl >= -closed.funds /\ Bounded

\* The plan the controller holds: with the fees of both ways it fits the budget
\* it was made from and pays two and a half times its loss, and it keeps the
\* caps of that account when both its legs are filled and when only one is.
PlanSound ==
  LET p      == data.plan
      budget == PlanBudget(data.account)
      Fill(bought, sold) == Exposure(Policy(data.account, budget), p.buy.delta, p.sell.delta, bought, sold)
  IN  p # NoPlan =>
        /\ p.debit + RoundTrip(p, p.amount, data.account.spot) <= budget
        /\ 5 * (p.debit + p.fees) <= 2 * Width(p.buy, p.sell) * p.amount
        /\ Fill(p.amount, p.amount).within /\ Fill(p.amount, 0).within /\ Fill(0, p.amount).within

\* An exit nobody forced took a profit of 30%, whatever the venue charged, or was
\* a stop: a loss of 18%, had the venue charged what it might.
ExitsJustified ==
  closed.forced \/ 100 * closed.pnl >= 30 * closed.basis
  \/ 100 * (closed.pnl - closed.spared) <= -18 * closed.basis
=============================================================================
