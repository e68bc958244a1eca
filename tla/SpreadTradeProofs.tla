-------------------------- MODULE SpreadTradeProofs --------------------------
(***************************************************************************)
(* What SpreadTrade checks on small instances, for every capital, account, *)
(* chain, offer and fee, and for the size of an entry for every policy.    *)
(***************************************************************************)
EXTENDS SpreadTrade, WellFoundedInduction, TLAPS

(* Whole numbers *)

LEMMA Share == ASSUME NEW n \in Int, NEW size \in 0 .. 100, NEW m \in Nat, n <= m
               PROVE  (n * size) \div 100 \in Int /\ (n * size) \div 100 <= m
<1>1. n * size \in Int
  OBVIOUS
<1>2. n * size <= m * 100
  <2>1. CASE n <= 0
    <3>1. n * size <= 0
      BY <2>1
    <3> QED BY <3>1, <1>1
  <2>2. CASE n > 0
    <3>1. n * size <= n * 100
      BY <2>2
    <3> QED BY <3>1, <1>1
  <2> QED BY <2>1, <2>2
<1> QED BY <1>1, <1>2

-----------------------------------------------------------------------------
(* Money *)

\* The bound is inductive with what a request is sent with: half of the plan's
\* fees, rounded up, and no cost for an exit.
IInv ==
  /\ TypeOK /\ Bounded
  /\ trade.phase # "idle" => trade.max_fee = plan.fees \div 2 + 1
  /\ trade.intent = "exit" => trade.max_cost = 0
  /\ Leaving /\ trade.phase = "settling" => trade.cost <= 0
  /\ closed.pnl >= -closed.funds

LEMMA FundsInt == ASSUME NEW a \in Accounts PROVE Funds(a) \in Nat
<1>1. Capital \div 100 \in Nat
  BY CapitalAssumption
<1>2. a.available \in Int /\ a.trade_budget \in Nat
  BY AccountsAssumption
<1> QED BY <1>1, <1>2 DEF Funds, AtMost, AtLeast

\* A budget is no more than the funds it is taken from.
LEMMA BudgetWithinFunds ==
  ASSUME TypeOK PROVE Budget(account) \in Int /\ Budget(account) <= Funds(account)
<1>1. account \in Accounts /\ data.account \in Accounts
  BY DEF TypeOK
<1>2. Funds(account) \in Nat
  BY <1>1, FundsInt
<1>3. data.account.trade_budget \in Nat /\ account.size \in 0 .. 100
  BY <1>1, AccountsAssumption
<1> DEFINE budget == AtMost(Funds(account), data.account.trade_budget)
<1>4. budget \in Int /\ budget <= Funds(account)
  BY <1>2, <1>3 DEF AtMost
<1>5. Budget(account) = (budget * account.size) \div 100
  BY DEF Budget
<1> HIDE DEF budget
<1> QED BY <1>2, <1>3, <1>4, <1>5, Share

LEMMA CostInt ==
  ASSUME TypeOK, NEW offer \in Offers, trade.phase # "idle" PROVE Cost(offer) \in Int
<1>1. plan.amount \in Int
  BY DEF TypeOK, Numbers
<1>2. offer.buy \in Int /\ offer.sell \in Int
  BY OffersAssumption
<1> QED BY <1>1, <1>2 DEF Cost

\* A request keeps the trade it belongs to.
LEMMA RequestedTyped ==
  ASSUME trade \in Trades, NEW p, p.fees \in Int, p.debit \in Int, NEW intent \in {"entry", "exit"}
  PROVE  /\ Requested(p, intent) \in Trades
         /\ Requested(p, intent).phase = "quoting" /\ Requested(p, intent).intent = intent
         /\ Requested(p, intent).max_fee = p.fees \div 2 + 1
         /\ intent = "exit" => Requested(p, intent).max_cost = 0
         /\ \A field \in {"cost", "debit", "fee", "funds"} :
              Requested(p, intent)[field] = trade[field]
<1> DEFINE fee  == p.fees \div 2 + 1
           cost == IF intent = "entry" THEN p.debit ELSE 0
           sent == [trade EXCEPT !.phase = "quoting", !.intent = intent]
<1>1. fee \in Int /\ cost \in Int
  OBVIOUS
<1>2. sent \in Trades /\ sent.phase = "quoting" /\ sent.intent = intent
      /\ \A field \in {"cost", "debit", "fee", "funds"} : sent[field] = trade[field]
  BY DEF Trades
<1>3. Requested(p, intent) = [sent EXCEPT !.max_fee = fee, !.max_cost = cost]
  BY DEF Requested
<1>4. intent = "exit" => cost = 0
  OBVIOUS
<1>5. fee = p.fees \div 2 + 1
  OBVIOUS
<1> HIDE DEF fee, cost, sent
<1>6. [sent EXCEPT !.max_fee = fee, !.max_cost = cost] \in Trades
  BY <1>1, <1>2 DEF Trades
<1>7. DOMAIN sent = {"phase", "intent", "max_fee", "max_cost", "forced", "cost", "debit", "fee", "funds"}
  BY <1>2 DEF Trades
<1> QED BY <1>2, <1>3, <1>4, <1>5, <1>6, <1>7

LEMMA InitIInv == Init => IInv
<1> SUFFICES ASSUME Init PROVE IInv
  OBVIOUS
<1>1. trade = NoTrade /\ closed = NoClose
  BY DEF Init
<1>2. TypeOK
  BY <1>1 DEF Init, TypeOK, NoTrade, NoClose, Trades
<1> QED BY <1>1, <1>2 DEF IInv, Bounded, Leaving, NoTrade, NoClose

LEMMA NextIInv == IInv /\ [Next]_vars => IInv'
<1> SUFFICES ASSUME IInv, [Next]_vars PROVE IInv'
  OBVIOUS
<1> USE DEF IInv
<1>t. TypeOK /\ trade \in Trades
  BY DEF TypeOK
<1> DEFINE Kept == UNCHANGED <<plan, trade, closed>>
<1>k. ASSUME Kept, TypeOK' PROVE IInv'
  BY <1>k DEF Bounded, Leaving, Basis
<1>1. CASE UNCHANGED vars
  <2>1. TypeOK'
    BY <1>1 DEF vars, TypeOK, Numbers
  <2> QED BY <1>1, <1>k, <2>1 DEF vars
<1>2. CASE Drift
  <2>1. TypeOK'
    BY <1>2 DEF Drift, TypeOK, Numbers
  <2> QED BY <1>2, <1>k, <2>1 DEF Drift
<1>3. CASE PlanOptions \/ PlanNothing
  <2>1. data'.account = account /\ account' = account /\ Kept
    BY <1>3 DEF PlanOptions, PlanNothing
  <2>2. TypeOK'
    BY <2>1 DEF TypeOK, Numbers
  <2> QED BY <1>k, <2>1, <2>2
<1>4. CASE Admit
  <2>1. Numbers(plan') \subseteq Int
    BY <1>4 DEF Admit, Valid
  <2>2. plan'.debit \in Int /\ plan'.fees \in Int
    BY <2>1 DEF Numbers
  <2>3. trade' = Requested(plan', "entry") /\ closed' = NoClose
    BY <1>4 DEF Admit
  <2>4. trade' \in Trades /\ trade'.phase = "quoting" /\ trade'.intent = "entry"
        /\ trade'.max_fee = plan'.fees \div 2 + 1
    BY <1>t, <2>2, <2>3, RequestedTyped
  <2>5. closed' \in [pnl : Int, funds : Int, forced : BOOLEAN, basis : Int, spared : Int]
    BY <2>3 DEF NoClose
  <2>6. TypeOK'
    BY <1>4, <2>1, <2>4, <2>5 DEF Admit, TypeOK
  <2> QED BY <2>3, <2>4, <2>6 DEF Bounded, Leaving, NoClose
<1>5. CASE Cancel
  <2>1. CASE trade.intent = "entry"
    <3>1. trade' = NoTrade /\ closed' = closed /\ account' = account /\ data' = data
      BY <1>5, <2>1 DEF Cancel
    <3>2. TypeOK'
      BY <3>1 DEF TypeOK, NoTrade, Trades
    <3> QED BY <3>1, <3>2 DEF NoTrade, Bounded, Leaving
  <2>2. CASE trade.intent = "exit"
    <3>1. trade' = [trade EXCEPT !.phase = "open"] /\ UNCHANGED <<account, data, plan, closed>>
          /\ trade.phase = "quoting"
      BY <1>5, <2>2 DEF Cancel
    <3>2. TypeOK'
      BY <1>t, <3>1 DEF TypeOK, Trades, Numbers
    <3>3. Basis' = Basis /\ trade'.phase = "open" /\ trade'.intent = "exit"
          /\ trade'.funds = trade.funds /\ trade'.max_fee = trade.max_fee /\ trade'.max_cost = trade.max_cost
      BY <1>t, <2>2, <3>1 DEF Trades, Basis
    <3> QED BY <2>2, <3>1, <3>2, <3>3 DEF Bounded, Leaving
  <2> QED BY <1>t, <2>1, <2>2 DEF Trades
<1>6. CASE Leave
  <2>1. PICK force \in BOOLEAN : trade' = [Requested(plan, "exit") EXCEPT !.forced = force]
    BY <1>6 DEF Leave
  <2>2. trade.phase = "open" /\ UNCHANGED <<account, data, plan, closed>>
    BY <1>6 DEF Leave
  <2>3. plan.fees \in Int /\ plan.debit \in Int
    BY <1>t, <2>2 DEF TypeOK, Numbers
  <2> DEFINE asked == Requested(plan, "exit")
  <2>4. asked \in Trades /\ asked.phase = "quoting" /\ asked.intent = "exit"
        /\ asked.max_fee = plan.fees \div 2 + 1 /\ asked.max_cost = 0 /\ asked.funds = trade.funds
        /\ asked.debit = trade.debit /\ asked.fee = trade.fee
    BY <1>t, <2>3, RequestedTyped
  <2> HIDE DEF asked
  <2>5. trade' = [asked EXCEPT !.forced = force]
    BY <2>1 DEF asked
  <2>6. trade' \in Trades
    BY <2>4, <2>5 DEF Trades
  <2>7. Basis' = Basis /\ trade'.phase = "quoting" /\ trade'.intent = "exit" /\ trade'.max_cost = 0
        /\ trade'.funds = trade.funds /\ trade'.max_fee = plan'.fees \div 2 + 1
    BY <2>2, <2>4, <2>5 DEF Trades, Basis
  <2>8. TypeOK'
    BY <1>t, <2>2, <2>6 DEF TypeOK, Numbers
  <2> QED BY <2>2, <2>7, <2>8 DEF Bounded, Leaving
<1>7. CASE ForceExit
  <2>1. trade' = [trade EXCEPT !.forced = TRUE] /\ UNCHANGED <<account, data, plan, closed>>
    BY <1>7 DEF ForceExit
  <2>2. TypeOK'
    BY <1>t, <2>1 DEF TypeOK, Trades, Numbers
  <2>3. Basis' = Basis /\ trade'.phase = trade.phase /\ trade'.intent = trade.intent
        /\ trade'.funds = trade.funds /\ trade'.max_fee = trade.max_fee
        /\ trade'.max_cost = trade.max_cost /\ trade'.cost = trade.cost
    BY <1>t, <2>1 DEF Trades, Basis
  <2> QED BY <2>1, <2>2, <2>3 DEF Bounded, Leaving
<1>8. ASSUME NEW offer \in Offers, ExecuteEntry(offer) PROVE IInv'
  <2>1. trade' = [trade EXCEPT !.phase = "settling", !.cost = Cost(offer), !.funds = Funds(account)]
        /\ UNCHANGED <<account, data, plan, closed>>
    BY <1>8 DEF ExecuteEntry
  <2>2. trade.phase = "quoting" /\ trade.intent = "entry" /\ Fits(Cost(offer))
    BY <1>8 DEF ExecuteEntry, Chosen, Acceptable
  <2>3. Cost(offer) \in Int /\ Funds(account) \in Nat /\ trade.max_fee \in Int
    BY <1>t, <2>2, CostInt, FundsInt DEF TypeOK, Trades
  <2>4. Cost(offer) + 2 * trade.max_fee <= Funds(account)
    BY <1>t, <2>2, <2>3, BudgetWithinFunds DEF Fits
  <2>5. TypeOK'
    <3> DEFINE one == [trade EXCEPT !.phase = "settling", !.cost = Cost(offer)]
    <3>a. one \in Trades
      BY <1>t, <2>3 DEF Trades
    <3>b. trade' = [one EXCEPT !.funds = Funds(account)]
      BY <2>1
    <3> HIDE DEF one
    <3>1. trade' \in Trades
      BY <3>a, <3>b, <1>t, <2>3 DEF Trades
    <3>2. Numbers(plan') \subseteq Int
      BY <1>t, <2>1, <2>2 DEF TypeOK
    <3> QED BY <2>1, <3>1, <3>2 DEF TypeOK
  <2>6. trade'.phase = "settling" /\ trade'.intent = "entry" /\ trade'.cost = Cost(offer)
        /\ trade'.funds = Funds(account) /\ trade'.max_fee = trade.max_fee
    BY <1>t, <2>1, <2>2 DEF Trades
  <2> QED BY <2>1, <2>2, <2>4, <2>5, <2>6 DEF Bounded, Leaving
<1>9. ASSUME NEW offer \in Offers, Unaffordable(offer) PROVE IInv'
  <2>1. trade' = [trade EXCEPT !.phase = "halted"] /\ UNCHANGED <<account, data, plan, closed>>
        /\ trade.phase = "quoting"
    BY <1>9 DEF Unaffordable, Chosen, Acceptable
  <2>2. TypeOK'
    BY <1>t, <2>1 DEF TypeOK, Trades, Numbers
  <2>3. trade'.phase = "halted" /\ trade'.intent = trade.intent /\ trade'.max_fee = trade.max_fee
        /\ trade'.max_cost = trade.max_cost
    BY <1>t, <2>1 DEF Trades
  <2> QED BY <2>1, <2>2, <2>3 DEF Bounded, Leaving
<1>10. ASSUME NEW offer \in Offers, ExecuteExit(offer) PROVE IInv'
  <2>1. trade' = [trade EXCEPT !.phase = "settling", !.cost = Cost(offer)]
        /\ UNCHANGED <<account, data, plan, closed>>
    BY <1>10 DEF ExecuteExit
  <2>2. trade.phase = "quoting" /\ trade.intent = "exit" /\ Cost(offer) <= 0
    BY <1>10 DEF ExecuteExit, Chosen, Acceptable
  <2>3. Cost(offer) \in Int
    BY <1>t, <2>2, CostInt
  <2>4. TypeOK'
    BY <1>t, <2>1, <2>2, <2>3 DEF TypeOK, Trades, Numbers
  <2>5. Basis' = Basis /\ trade'.phase = "settling" /\ trade'.intent = "exit" /\ trade'.cost = Cost(offer)
        /\ trade'.funds = trade.funds /\ trade'.max_fee = trade.max_fee /\ trade'.max_cost = trade.max_cost
    BY <1>t, <2>1, <2>2 DEF Trades, Basis
  <2> QED BY <2>1, <2>2, <2>4, <2>5 DEF Bounded, Leaving
<1>11. ASSUME NEW charge \in Fees, Overcharged(charge) PROVE IInv'
  <2>1. trade' = [trade EXCEPT !.phase = "halted"] /\ UNCHANGED <<account, data, plan, closed>>
        /\ trade.phase = "settling"
    BY <1>11 DEF Overcharged
  <2>2. TypeOK'
    BY <1>t, <2>1 DEF TypeOK, Trades, Numbers
  <2>3. trade'.phase = "halted" /\ trade'.intent = trade.intent /\ trade'.max_fee = trade.max_fee
        /\ trade'.max_cost = trade.max_cost
    BY <1>t, <2>1 DEF Trades
  <2> QED BY <2>1, <2>2, <2>3 DEF Bounded, Leaving
<1>12. ASSUME NEW charge \in Fees, SettleEntry(charge) PROVE IInv'
  <2>1. trade' = [trade EXCEPT !.phase = "open", !.debit = trade.cost, !.fee = charge]
        /\ UNCHANGED <<account, data, plan, closed>>
    BY <1>12 DEF SettleEntry
  <2>2. trade.phase = "settling" /\ trade.intent = "entry" /\ charge <= trade.max_fee
    BY <1>12 DEF SettleEntry
  <2>3. charge \in Int /\ trade.cost \in Int /\ trade.max_fee \in Int /\ trade.funds \in Int
    BY <1>t, FeesAssumption DEF Trades
  <2>4. TypeOK'
    BY <1>t, <2>1, <2>2, <2>3 DEF TypeOK, Trades, Numbers
  <2>5. trade'.phase = "open" /\ trade'.intent = "entry" /\ trade'.funds = trade.funds
        /\ Basis' = trade.cost + charge /\ trade'.max_fee = trade.max_fee
    BY <1>t, <2>1, <2>2 DEF Trades, Basis
  <2>6. trade.cost + 2 * trade.max_fee <= trade.funds /\ trade.max_fee = plan.fees \div 2 + 1
    BY <2>2 DEF Bounded
  <2>7. Basis' + plan.fees \div 2 + 1 <= trade.funds
    <3>1. trade.max_fee = plan.fees \div 2 + 1 /\ plan.fees \in Int
      BY <1>t, <2>2, <2>6 DEF TypeOK, Numbers
    <3>2. plan.fees \div 2 \in Int
      BY <3>1
    <3> QED BY <2>2, <2>3, <2>5, <2>6, <3>1, <3>2
  <2> QED BY <2>1, <2>4, <2>5, <2>6, <2>7 DEF Bounded, Leaving
<1>13. ASSUME NEW charge \in Fees, SettleExit(charge) PROVE IInv'
  <2>1. trade' = NoTrade /\ UNCHANGED <<account, data>>
        /\ closed' = [pnl |-> -trade.cost - charge - Basis, funds |-> trade.funds, forced |-> trade.forced,
                      basis |-> Basis, spared |-> trade.max_fee - charge]
    BY <1>13 DEF SettleExit
  <2>2. trade.phase = "settling" /\ trade.intent = "exit" /\ charge <= trade.max_fee
    BY <1>13 DEF SettleExit
  <2>3. charge \in Int /\ trade.cost \in Int /\ trade.max_fee \in Int /\ trade.funds \in Int
        /\ Basis \in Int /\ trade.forced \in BOOLEAN
    BY <1>t, FeesAssumption DEF Trades, Basis
  <2>4. plan.fees \in Int
    BY <1>t, <2>2 DEF TypeOK, Numbers
  <2>5. plan.fees \div 2 \in Int /\ trade.max_fee = plan.fees \div 2 + 1
    BY <2>2, <2>4
  <2>6. Basis + plan.fees \div 2 + 1 <= trade.funds /\ trade.cost <= 0
    BY <2>2 DEF Bounded, Leaving
  <2>7. -trade.cost - charge - Basis >= -trade.funds
    BY <2>2, <2>3, <2>5, <2>6
  <2>8. TypeOK'
    BY <1>t, <2>1, <2>3 DEF TypeOK, Trades, NoTrade
  <2> QED BY <2>1, <2>7, <2>8 DEF Bounded, Leaving, NoTrade
<1> QED
  BY <1>1, <1>2, <1>3, <1>4, <1>5, <1>6, <1>7, <1>8, <1>9, <1>10, <1>11, <1>12, <1>13 DEF Next

\* Every reachable state is well typed: the numbers of a plan a slot works with,
\* and of its trade, whatever was quoted and charged.
THEOREM TypesHold == Spec => []TypeOK
<1>1. IInv => TypeOK
  BY DEF IInv
<1> QED BY InitIInv, NextIInv, <1>1, PTL DEF Spec

\* No spread loses more than the funds its entry was executed within, for every
\* capital, account, chain, offer and fee: the entry leaves room for two fees at
\* their bound, an exit has no cost, and no fee above its bound is settled.
THEOREM LossBounded == Spec => []LossWithinFunds
<1>1. IInv => LossWithinFunds
  BY DEF IInv, LossWithinFunds
<1> QED BY InitIInv, NextIInv, <1>1, PTL DEF Spec

-----------------------------------------------------------------------------
(* Reasons *)

\* The reason an unforced exit was executed for, until it is settled.
Reasoned ==
  trade.phase = "settling" /\ trade.intent = "exit" => trade.forced \/ WorthLeaving(trade.cost)

LEMMA NextReasoned ==
  ASSUME IInv, Reasoned, ExitsJustified, [Next]_vars PROVE Reasoned' /\ ExitsJustified'
<1>t. trade \in Trades
  BY DEF IInv, TypeOK
<1>1. ASSUME UNCHANGED <<trade, closed>> PROVE Reasoned' /\ ExitsJustified'
  BY <1>1 DEF Reasoned, ExitsJustified, WorthLeaving, Basis
<1>2. ASSUME UNCHANGED closed, trade'.phase # "settling" \/ trade'.intent = "entry"
      PROVE  Reasoned' /\ ExitsJustified'
  <2>1. trade'.intent = "entry" => trade'.intent # "exit"
    OBVIOUS
  <2> QED BY <1>2, <2>1 DEF Reasoned, ExitsJustified
<1>3. CASE UNCHANGED vars \/ Drift \/ PlanOptions \/ PlanNothing
  BY <1>1, <1>3 DEF vars, Drift, PlanOptions, PlanNothing
<1>4. CASE Admit
  <2>1. Numbers(data.plan) \subseteq Int
    BY <1>4 DEF Admit, Valid
  <2>2. data.plan.debit \in Int /\ data.plan.fees \in Int
    BY <2>1 DEF Numbers
  <2>3. trade'.phase = "quoting"
    BY <1>t, <1>4, <2>2, RequestedTyped DEF Admit
  <2>4. closed' = NoClose
    BY <1>4 DEF Admit
  <2> QED BY <2>3, <2>4 DEF Reasoned, ExitsJustified, NoClose
<1>5. CASE Cancel
  <2>1. UNCHANGED closed /\ trade'.phase \in {"idle", "open"}
    BY <1>t, <1>5 DEF Cancel, NoTrade, Trades
  <2> QED BY <1>2, <2>1
<1>6. CASE Leave \/ ForceExit
  <2>1. UNCHANGED closed
    BY <1>6 DEF Leave, ForceExit
  <2>2. trade'.phase = "quoting"
    <3>1. CASE ForceExit
      BY <1>t, <3>1 DEF ForceExit, Trades
    <3>2. CASE Leave
      <4>1. plan.debit \in Int /\ plan.fees \in Int
        BY <3>2 DEF Leave, IInv, TypeOK, Numbers
      <4>2. Requested(plan, "exit") \in Trades /\ Requested(plan, "exit").phase = "quoting"
        BY <1>t, <4>1, RequestedTyped
      <4> QED BY <3>2, <4>2 DEF Leave, Trades
    <3> QED BY <1>6, <3>1, <3>2
  <2> QED BY <1>2, <2>1, <2>2
<1>7. ASSUME NEW offer \in Offers, ExecuteEntry(offer) PROVE Reasoned' /\ ExitsJustified'
  <2>1. UNCHANGED closed /\ trade'.intent = "entry"
    BY <1>t, <1>7 DEF ExecuteEntry, Trades
  <2> QED BY <1>2, <2>1
<1>8. ASSUME NEW offer \in Offers, Unaffordable(offer) PROVE Reasoned' /\ ExitsJustified'
  <2>1. UNCHANGED closed /\ trade'.phase = "halted"
    BY <1>t, <1>8 DEF Unaffordable, Trades
  <2> QED BY <1>2, <2>1
<1>9. ASSUME NEW offer \in Offers, ExecuteExit(offer) PROVE Reasoned' /\ ExitsJustified'
  <2>1. UNCHANGED closed /\ trade' = [trade EXCEPT !.phase = "settling", !.cost = Cost(offer)]
        /\ (trade.forced \/ WorthLeaving(Cost(offer)))
    BY <1>9 DEF ExecuteExit, Chosen
  <2>2. trade'.forced = trade.forced /\ trade'.cost = Cost(offer) /\ trade'.max_fee = trade.max_fee
        /\ Basis' = Basis
    BY <1>t, <2>1 DEF Trades, Basis
  <2> QED BY <2>1, <2>2 DEF Reasoned, ExitsJustified, WorthLeaving
<1>10. ASSUME NEW charge \in Fees, Overcharged(charge) \/ SettleEntry(charge)
       PROVE  Reasoned' /\ ExitsJustified'
  <2>1. UNCHANGED closed /\ trade'.phase \in {"halted", "open"}
    BY <1>t, <1>10 DEF Overcharged, SettleEntry, Trades
  <2> QED BY <1>2, <2>1
<1>11. ASSUME NEW charge \in Fees, SettleExit(charge) PROVE Reasoned' /\ ExitsJustified'
  <2>1. /\ trade' = NoTrade /\ trade.phase = "settling" /\ trade.intent = "exit"
        /\ charge <= trade.max_fee
        /\ closed' = [pnl |-> -trade.cost - charge - Basis, funds |-> trade.funds, forced |-> trade.forced,
                      basis |-> Basis, spared |-> trade.max_fee - charge]
    BY <1>11 DEF SettleExit
  <2>2. charge \in Int /\ trade.cost \in Int /\ trade.max_fee \in Int /\ Basis \in Int
    BY <1>t, FeesAssumption DEF Trades, Basis
  <2>3. trade.forced \/ WorthLeaving(trade.cost)
    BY <2>1 DEF Reasoned
  <2>4. CASE trade.forced
    BY <2>1, <2>4 DEF Reasoned, ExitsJustified, NoTrade
  <2>5. CASE WorthLeaving(trade.cost)
    <3> DEFINE bound == -trade.cost - trade.max_fee - Basis
               pnl   == -trade.cost - charge - Basis
    <3>1. 100 * bound >= 30 * Basis \/ 100 * bound <= -18 * Basis
      BY <2>5 DEF WorthLeaving
    <3>2. pnl - (trade.max_fee - charge) = bound /\ pnl >= bound /\ pnl \in Int /\ bound \in Int
      BY <2>1, <2>2
    <3>3. 100 * pnl >= 30 * Basis \/ 100 * (pnl - (trade.max_fee - charge)) <= -18 * Basis
      BY <2>2, <3>1, <3>2
    <3>4. closed'.pnl = pnl /\ closed'.basis = Basis /\ closed'.spared = trade.max_fee - charge
      BY <2>1
    <3> QED BY <2>1, <3>3, <3>4 DEF Reasoned, ExitsJustified, NoTrade
  <2> QED BY <2>3, <2>4, <2>5
<1> QED
  BY <1>3, <1>4, <1>5, <1>6, <1>7, <1>8, <1>9, <1>10, <1>11 DEF Next

\* Every closed trade that nobody forced has its reason: a profit of 30% after
\* what the venue did charge, or a stop counted with the most it might.
THEOREM ExitsHaveReasons == Spec => []ExitsJustified
<1>1. Init => Reasoned /\ ExitsJustified
  BY DEF Init, Reasoned, ExitsJustified, NoTrade, NoClose
<1> QED BY InitIInv, NextIInv, NextReasoned, <1>1, PTL DEF Spec

-----------------------------------------------------------------------------
(* Exposure *)

LEMMA WholeShares ==
  ASSUME NEW n \in Int, NEW d \in Nat \ {0} PROVE n \div d \in Int /\ (n \div d) * d <= n
OBVIOUS

LEMMA MagnitudeSum ==
  ASSUME NEW m \in Int, NEW n \in Int
  PROVE  Magnitude(m) \in Nat /\ Magnitude(m + n) <= Magnitude(m) + Magnitude(n)
BY DEF Magnitude

\* Multiplied by a whole number, a bound stays one.
LEMMA Scaled ==
  ASSUME NEW m \in Int, NEW n \in Int, NEW k \in Nat, m <= n PROVE m * k \in Int /\ m * k <= n * k
OBVIOUS

LEMMA MagnitudeProduct ==
  ASSUME NEW n \in Int, NEW k \in Nat PROVE Magnitude(n * k) = Magnitude(n) * k
<1>1. CASE n >= 0
  <2>1. n * k >= 0 /\ n * k \in Int
    BY <1>1
  <2> QED BY <1>1, <2>1 DEF Magnitude
<1>2. CASE n < 0
  <2>1. n * k <= 0 /\ n * k \in Int /\ -(n * k) = (-n) * k
    BY <1>2
  <2>2. Magnitude(n) = -n
    BY <1>2 DEF Magnitude
  <2>3. Magnitude(n * k) = -(n * k)
    BY <2>1 DEF Magnitude
  <2> QED BY <2>1, <2>2, <2>3
<1> QED BY <1>1, <1>2

IsPolicy(policy) ==
  /\ policy.spot \in Nat \ {0} /\ policy.existing \in Int
  /\ policy.pending_buy \in Nat /\ policy.pending_sell \in Nat
  /\ policy.committed \in Int /\ policy.net_cap \in Int /\ policy.gross_cap \in Int

\* The delta a fill adds is no more than that of the legs, one by one or together.
LEMMA FillBounded ==
  ASSUME NEW policy, IsPolicy(policy), NEW b \in Int, NEW s \in Int,
         NEW bought \in Nat, NEW sold \in Nat, NEW amount \in Nat,
         <<bought, sold>> \in {<<amount, amount>>, <<amount, 0>>, <<0, amount>>}
  PROVE  /\ UnitDelta(b, s) \in Nat /\ UnitDelta(b, s) * amount \in Nat
         /\ b * bought - s * sold \in Int
         /\ Magnitude(b * bought - s * sold) <= UnitDelta(b, s) * amount
<1> DEFINE unit == UnitDelta(b, s)
<1>1. /\ unit \in Nat /\ Magnitude(b) <= unit /\ Magnitude(s) <= unit /\ Magnitude(b - s) <= unit
      /\ Magnitude(b) \in Nat /\ Magnitude(s) \in Nat /\ Magnitude(b - s) \in Nat
  BY DEF UnitDelta, AtLeast, Magnitude
<1> HIDE DEF unit
<1>2. /\ Magnitude(b) * amount <= unit * amount /\ Magnitude(s) * amount <= unit * amount
      /\ Magnitude(b - s) * amount <= unit * amount /\ unit * amount \in Nat
  BY <1>1, Scaled
<1>3. /\ Magnitude(b * amount) = Magnitude(b) * amount
      /\ Magnitude(s * amount) = Magnitude(s) * amount
      /\ Magnitude((b - s) * amount) = Magnitude(b - s) * amount
  <2>1. Magnitude(b * amount) = Magnitude(b) * amount
    BY MagnitudeProduct
  <2>2. Magnitude(s * amount) = Magnitude(s) * amount
    BY MagnitudeProduct
  <2>3. b - s \in Int
    OBVIOUS
  <2>4. Magnitude((b - s) * amount) = Magnitude(b - s) * amount
    BY <2>3, MagnitudeProduct
  <2> QED BY <2>1, <2>2, <2>4
<1>4. b * bought \in Int /\ s * sold \in Int
  OBVIOUS
<1>5. CASE bought = amount /\ sold = amount
  <2>1. b * bought - s * sold = (b - s) * amount
    BY <1>5
  <2> QED BY <1>1, <1>2, <1>3, <1>4, <2>1 DEF unit
<1>6. CASE bought = amount /\ sold = 0
  <2>1. b * bought - s * sold = b * amount
    BY <1>6
  <2> QED BY <1>1, <1>2, <1>3, <1>4, <2>1 DEF unit
<1>7. CASE bought = 0 /\ sold = amount
  <2>1. b * bought - s * sold = -(s * amount) /\ s * amount \in Int
    BY <1>7
  <2>2. Magnitude(-(s * amount)) = Magnitude(s * amount)
    BY <2>1 DEF Magnitude
  <2>3. Magnitude(s * amount) <= unit * amount
    BY <1>2, <1>3
  <2>4. Magnitude(b * bought - s * sold) <= unit * amount /\ b * bought - s * sold \in Int
    BY <2>1, <2>2, <2>3
  <2> QED BY <1>1, <1>2, <2>4 DEF unit
<1> QED BY <1>5, <1>6, <1>7

\* "Cap matched and either-leg-only hypothetical fills": an amount the limit
\* allows keeps the net and the gross cap with both legs filled and with either
\* one alone, whatever the account held and had pending.
THEOREM FillsWithinCaps ==
  ASSUME NEW policy, IsPolicy(policy), NEW b \in Int, NEW s \in Int, NEW step \in Nat \ {0},
         NEW amount \in Nat \ {0}, amount <= AmountLimit(policy, b, s, step),
         NEW bought \in Nat, NEW sold \in Nat,
         <<bought, sold>> \in {<<amount, amount>>, <<amount, 0>>, <<0, amount>>}
  PROVE  Exposure(policy, b, s, bought, sold).within
<1> DEFINE spot  == policy.spot
           held  == Held(policy)
           room  == 100 * policy.net_cap - held * spot
           gross == policy.gross_cap - policy.committed
           unit  == UnitDelta(b, s)
           pair  == 2 * spot
           wide  == gross \div pair
           limit == IF unit = 0 THEN wide ELSE AtMost(wide, room \div (unit * spot))
           net   == b * bought - s * sold
           low   == policy.existing - policy.pending_sell + net
           high  == policy.existing + policy.pending_buy + net
<1>1. spot \in Nat \ {0} /\ gross \in Int /\ policy.net_cap \in Int /\ policy.committed \in Int
      /\ policy.gross_cap \in Int
  BY DEF IsPolicy
<1>2. held \in Nat /\ Magnitude(policy.existing - policy.pending_sell) <= held
      /\ Magnitude(policy.existing + policy.pending_buy) <= held
  BY DEF IsPolicy, Held, AtLeast, Magnitude
<1>3. unit \in Nat /\ unit * amount \in Nat /\ net \in Int /\ Magnitude(net) <= unit * amount
  BY FillBounded
<1>4. held * spot \in Nat /\ room \in Int
  BY <1>1, <1>2
<1>5. AmountLimit(policy, b, s, step) = IF room <= 0 \/ gross <= 0 THEN 0 ELSE (limit \div step) * step
  BY DEF AmountLimit
<1> HIDE DEF spot, held, room, gross, unit
<1>6. room > 0 /\ gross > 0
  BY <1>1, <1>4, <1>5
<1>7. pair \in Nat \ {0} /\ pair = 2 * spot
  BY <1>1
<1> HIDE DEF pair
<1>w. wide \in Int /\ wide * pair <= gross /\ wide * pair \in Int
  <2>1. gross \in Int /\ pair \in Nat \ {0}
    BY <1>1, <1>7
  <2>2. wide \in Int /\ wide * pair <= gross
    BY <2>1, WholeShares
  <2> HIDE DEF wide
  <2> QED BY <2>1, <2>2
<1> HIDE DEF wide
<1>8. unit # 0 => unit * spot \in Nat \ {0} /\ room \div (unit * spot) \in Int
  <2>1. unit # 0 => unit * spot \in Nat \ {0}
    BY <1>1, <1>3
  <2> QED BY <2>1, <1>4, WholeShares
<1>9. limit \in Int /\ limit <= wide /\ (unit # 0 => limit <= room \div (unit * spot))
  <2> DEFINE share == room \div (unit * spot)
  <2>1. CASE unit = 0
    BY <1>w, <2>1
  <2>2. CASE unit # 0
    <3>1. limit = AtMost(wide, share) /\ share \in Int
      BY <1>8, <2>2
    <3> HIDE DEF limit, share
    <3>2. limit \in Int /\ limit <= wide /\ limit <= share
      BY <1>w, <3>1 DEF AtMost
    <3> QED BY <2>2, <3>2 DEF share
  <2> QED BY <2>1, <2>2
<1> HIDE DEF limit
<1>10. amount <= limit
  <2>1. (limit \div step) * step <= limit /\ (limit \div step) * step \in Int
    BY <1>9, WholeShares
  <2> QED BY <1>5, <1>6, <1>9, <2>1
<1>11. policy.committed + (bought + sold) * spot <= policy.gross_cap
  <2>1. amount * pair <= wide * pair /\ amount * pair \in Int
    BY <1>7, <1>w, <1>9, <1>10, Scaled
  <2>3. (bought + sold) * spot <= amount * pair
    <3>1. bought + sold \in Nat /\ bought + sold <= 2 * amount
      OBVIOUS
    <3>2. (bought + sold) * spot <= (2 * amount) * spot
      BY <1>1, <3>1, Scaled
    <3>3. (2 * amount) * spot = amount * pair
      BY <1>1, <1>7
    <3> QED BY <3>2, <3>3
  <2>4. (bought + sold) * spot \in Int
    BY <1>1
  <2>5. (bought + sold) * spot <= gross
    BY <1>1, <1>w, <2>1, <2>3, <2>4
  <2> QED BY <1>1, <2>4, <2>5 DEF gross
<1>12. unit * amount * spot <= room /\ unit * amount * spot \in Int
  <2>1. CASE unit = 0
    BY <1>1, <1>4, <1>6, <2>1
  <2>2. CASE unit # 0
    <3> DEFINE share == unit * spot
    <3>1. share \in Nat \ {0} /\ amount <= room \div share /\ room \div share \in Int
      BY <1>8, <1>9, <1>10, <2>2
    <3>2. unit * amount * spot = amount * share
      BY <1>1, <1>3
    <3> HIDE DEF share
    <3>3. amount * share <= (room \div share) * share /\ amount * share \in Int
      BY <3>1, Scaled
    <3>4. (room \div share) * share <= room /\ (room \div share) * share \in Int
      BY <1>4, <3>1, WholeShares
    <3> QED BY <1>4, <3>2, <3>3, <3>4
  <2> QED BY <2>1, <2>2
<1>13. /\ Magnitude(low) \in Nat /\ Magnitude(low) <= held + unit * amount
       /\ Magnitude(high) \in Nat /\ Magnitude(high) <= held + unit * amount
  <2>1. policy.existing - policy.pending_sell \in Int /\ policy.existing + policy.pending_buy \in Int
    BY DEF IsPolicy
  <2> QED BY <1>2, <1>3, <2>1 DEF Magnitude
<1>14. AtLeast(Magnitude(low), Magnitude(high)) * spot <= 100 * policy.net_cap
  <2> DEFINE worst == AtLeast(Magnitude(low), Magnitude(high))
  <2>1. worst \in Nat /\ worst <= held + unit * amount
    BY <1>13 DEF AtLeast
  <2> HIDE DEF worst
  <2>2. worst * spot <= (held + unit * amount) * spot /\ worst * spot \in Int
    BY <1>1, <1>2, <1>3, <2>1, Scaled
  <2>3. (held + unit * amount) * spot = held * spot + unit * amount * spot
    BY <1>1, <1>2, <1>3
  <2>4. held * spot + unit * amount * spot <= 100 * policy.net_cap
    BY <1>1, <1>4, <1>12 DEF room
  <2> QED BY <1>1, <1>4, <1>12, <2>2, <2>3, <2>4 DEF worst
<1> QED BY <1>11, <1>14 DEF Exposure, spot

-----------------------------------------------------------------------------
(* Plans *)

LEMMA Least ==
  ASSUME NEW K \in SUBSET Nat, K # {}
  PROVE  \E m \in K : \A k \in K : m <= k
<1>1. PICK m \in K : \A k \in K : ~(<<k, m>> \in OpToRel(<, Nat))
  BY NatLessThanWellFounded, WFMin
<1>2. \A k \in K : ~(k < m)
  BY <1>1 DEF OpToRel
<1> QED BY <1>2

LEMMA Induction ==
  ASSUME NEW K \in SUBSET Nat, 0 \in K, \A n \in Nat : n \in K => n + 1 \in K
  PROVE  K = Nat
<1> SUFFICES ASSUME Nat \ K # {} PROVE FALSE
  OBVIOUS
<1>1. PICK m \in Nat \ K : \A k \in Nat \ K : m <= k
  BY Least
<1>2. m # 0 /\ m - 1 \in Nat /\ m = m - 1 + 1
  BY <1>1
<1>3. m - 1 \in K
  BY <1>1, <1>2
<1>4. QED
  BY <1>1, <1>2, <1>3

LEMMA MinTaken ==
  ASSUME NEW S, NEW m \in S, \A s \in S : m <= s /\ s \in Int PROVE Min(S) \in S
BY SMT DEF Min

LEMMA Elements ==
  ASSUME NEW T, NEW s \in Seq(T)
  PROVE  /\ Len(s) \in Nat /\ DOMAIN s = 1 .. Len(s) /\ \A n \in 1 .. Len(s) : s[n] \in T
         /\ s # <<>> => s[1] \in T
OBVIOUS

\* The depth of a book is a number, level by level.
LEMMA DepthDefined ==
  ASSUME NEW levels \in Seq([price : Nat \ {0}, amount : Nat \ {0}])
  PROVE  \A n \in 0 .. Len(levels) : DepthTo(levels)[n] \in Nat
<1> DEFINE N == Len(levels)
           Step(g, n) == IF n = 0 THEN 0 ELSE g[n - 1] + levels[n].amount
           Partial(m) == {g \in [0 .. m -> Nat] : \A n \in 0 .. m : g[n] = Step(g, n)}
           K == {m \in Nat : m <= N => Partial(m) # {}}
<1>1. N \in Nat /\ \A n \in 1 .. N : levels[n].amount \in Nat
  <2>1. N \in Nat /\ \A n \in 1 .. N : levels[n] \in [price : Nat \ {0}, amount : Nat \ {0}]
    BY Elements
  <2>2. QED
    BY <2>1
<1>2. 0 \in K
  <2>1. PICK g : g = [n \in 0 .. 0 |-> 0]
    OBVIOUS
  <2>2. g \in [0 .. 0 -> Nat] /\ \A n \in 0 .. 0 : n = 0 /\ g[n] = 0
    BY <2>1
  <2>3. \A n \in 0 .. 0 : g[n] = Step(g, n)
    BY <2>2
  <2>4. g \in Partial(0)
    BY <2>2, <2>3
  <2>5. QED
    BY <2>4
<1>3. ASSUME NEW m \in Nat, m \in K
      PROVE  m + 1 \in K
  <2> HIDE DEF Partial
  <2> SUFFICES ASSUME m + 1 <= N
               PROVE  Partial(m + 1) # {}
    OBVIOUS
  <2>0. Partial(m) # {}
    BY <1>1, <1>3
  <2> USE DEF Partial
  <2>1. PICK g : g \in [0 .. m -> Nat] /\ \A n \in 0 .. m : g[n] = Step(g, n)
    BY <2>0
  <2>2. PICK h : h = [n \in 0 .. m + 1 |-> IF n = m + 1 THEN g[m] + levels[m + 1].amount ELSE g[n]]
    OBVIOUS
  <2>3. g[m] \in Nat /\ levels[m + 1].amount \in Nat
    BY <1>1, <2>1
  <2>4. h \in [0 .. m + 1 -> Nat]
    BY <2>1, <2>2, <2>3
  <2>5. ASSUME NEW n \in 0 .. m + 1
        PROVE  h[n] = Step(h, n)
    <3>1. CASE n = m + 1
      <4>1. n - 1 = m /\ m \in 0 .. m + 1 /\ m # m + 1 /\ n # 0
        BY <3>1
      <4>2. h[n] = g[m] + levels[n].amount /\ h[m] = g[m]
        BY <2>2, <3>1, <4>1
      <4>3. QED
        BY <4>1, <4>2
    <3>2. CASE n \in 1 .. m
      <4>1. n - 1 \in 0 .. m + 1 /\ n - 1 # m + 1 /\ n # m + 1 /\ n # 0 /\ n \in 0 .. m
        BY <3>2
      <4>2. h[n] = g[n] /\ h[n - 1] = g[n - 1]
        BY <2>2, <4>1
      <4>3. g[n] = g[n - 1] + levels[n].amount
        BY <2>1, <4>1
      <4>4. QED
        BY <4>1, <4>2, <4>3
    <3>3. CASE n = 0
      <4>1. n \in 0 .. m /\ n # m + 1
        BY <3>3
      <4>2. h[n] = g[n] /\ g[n] = 0
        BY <2>1, <2>2, <3>3, <4>1
      <4>3. QED
        BY <3>3, <4>2
    <3>4. QED
      BY <3>1, <3>2, <3>3
  <2>6. h \in Partial(m + 1)
    BY <2>4, <2>5
  <2>7. QED
    BY <2>6
<1>4. K = Nat
  <2> HIDE DEF K
  <2>1. K \subseteq Nat
    BY DEF K
  <2>2. QED
    BY <1>2, <1>3, <2>1, Induction
<1>5. PICK g : g \in [0 .. N -> Nat] /\ \A n \in 0 .. N : g[n] = Step(g, n)
  <2>1. N \in K
    BY <1>1, <1>4
  <2>2. Partial(N) # {}
    BY <1>1, <2>1
  <2>3. QED
    BY <2>2
<1>6. g = [n \in 0 .. N |-> Step(g, n)]
  BY <1>5
<1>7. DepthTo(levels) = [n \in 0 .. N |-> Step(DepthTo(levels), n)]
  <2> DEFINE depth == CHOOSE f : f = [n \in 0 .. N |-> Step(f, n)]
  <2>1. depth = [n \in 0 .. N |-> Step(depth, n)]
    BY <1>6
  <2>2. DepthTo(levels) = depth
    BY DEF DepthTo
  <2>3. QED
    BY <2>1, <2>2
<1>8. PICK f : f = DepthTo(levels)
  OBVIOUS
<1>9. \A n \in 0 .. N : f[n] = Step(f, n)
  BY <1>7, <1>8
<1> DEFINE L == {m \in Nat : m <= N => f[m] \in Nat}
<1>10. 0 \in L
  BY <1>1, <1>9
<1>11. ASSUME NEW m \in Nat, m \in L
       PROVE  m + 1 \in L
  <2> SUFFICES ASSUME m + 1 <= N
               PROVE  f[m + 1] \in Nat
    OBVIOUS
  <2>1. m + 1 \in 1 .. N /\ m + 1 \in 0 .. N /\ m + 1 # 0 /\ m + 1 - 1 = m /\ m <= N
    BY <1>1
  <2>2. f[m + 1] = f[m] + levels[m + 1].amount
    BY <1>9, <2>1
  <2>3. f[m] \in Nat /\ levels[m + 1].amount \in Nat
    BY <1>1, <1>11, <2>1
  <2>4. QED
    BY <2>2, <2>3
<1>12. L = Nat
  <2> HIDE DEF L
  <2>1. L \subseteq Nat
    BY DEF L
  <2>2. QED
    BY <1>10, <1>11, <2>1, Induction
<1>13. QED
  BY <1>1, <1>8, <1>12

LEMMA DepthTyped ==
  ASSUME NEW levels \in Seq([price : Nat \ {0}, amount : Nat \ {0}])
  PROVE  Depth(levels) \in Nat
<1>1. Len(levels) \in 0 .. Len(levels)
  BY Elements
<1>2. QED
  BY <1>1, DepthDefined DEF Depth

\* The worst price of an amount is one of the book, or 0.
LEMMA WorstTyped ==
  ASSUME NEW levels \in Seq([price : Nat \ {0}, amount : Nat \ {0}]), NEW amount
  PROVE  WorstPrice(levels, amount) \in Nat
<1> DEFINE enough == {n \in DOMAIN levels : DepthTo(levels)[n] >= amount}
<1>1. DOMAIN levels \in SUBSET Nat /\ \A n \in DOMAIN levels : levels[n].price \in Nat \ {0}
  <2>1. DOMAIN levels = 1 .. Len(levels) /\ Len(levels) \in Nat
        /\ \A n \in 1 .. Len(levels) : levels[n] \in [price : Nat \ {0}, amount : Nat \ {0}]
    BY Elements
  <2> QED BY <2>1
<1>2. CASE enough = {}
  BY <1>2 DEF WorstPrice
<1>3. CASE enough # {}
  <2>1. PICK S : S = enough
    OBVIOUS
  <2>2. S \in SUBSET Nat /\ S # {} /\ S \subseteq DOMAIN levels
    BY <1>1, <1>3, <2>1
  <2>3. PICK m \in S : \A s \in S : m <= s /\ s \in Int
    BY <2>2, Least
  <2>4. Min(S) \in S
    BY <2>3, MinTaken
  <2>5. WorstPrice(levels, amount) = levels[Min(S)].price
    BY <1>3, <2>1 DEF WorstPrice
  <2> QED BY <1>1, <2>2, <2>4, <2>5
<1> QED BY <1>2, <1>3

\* A limit on an amount is a number, whatever the policy.
LEMMA LimitTyped ==
  ASSUME NEW policy, IsPolicy(policy), NEW b \in Int, NEW s \in Int, NEW step \in Nat \ {0}
  PROVE  AmountLimit(policy, b, s, step) \in Int
<1> DEFINE room  == 100 * policy.net_cap - Held(policy) * policy.spot
           gross == policy.gross_cap - policy.committed
           unit  == UnitDelta(b, s)
           wide  == gross \div (2 * policy.spot)
           share == room \div (unit * policy.spot)
           limit == IF unit = 0 THEN wide ELSE AtMost(wide, share)
<1>1. Held(policy) \in Int /\ unit \in Nat
  BY DEF IsPolicy, Held, UnitDelta, AtLeast, Magnitude
<1>2. room \in Int /\ gross \in Int
  BY <1>1 DEF IsPolicy
<1>3. PICK x \in Nat \ {0}, y \in Nat : x = 2 * policy.spot /\ y = unit * policy.spot /\ (unit # 0 => y # 0)
  BY <1>1 DEF IsPolicy
<1>4. wide \in Int /\ (unit # 0 => share \in Int)
  BY <1>2, <1>3, WholeShares
<1>5. PICK n \in Int : n = limit
  BY <1>4 DEF AtMost
<1>6. AmountLimit(policy, b, s, step) \in {0, (n \div step) * step}
  BY <1>5, Zenon DEF AmountLimit
<1> QED BY <1>6, WholeShares

\* What a quote is.
Quoted(q) ==
  /\ q.strike \in Int /\ q.delta \in Int /\ q.step \in Nat \ {0} /\ q.tick \in Nat \ {0}
  /\ q.fees.base \in Nat /\ q.fees.rate \in Nat /\ q.fees.cap \in Nat
  /\ q.bids \in Seq([price : Nat \ {0}, amount : Nat \ {0}])
  /\ q.asks \in Seq([price : Nat \ {0}, amount : Nat \ {0}])

\* The size of a plan keeps the caps of every fill.
LEMMA LotsBounds ==
  ASSUME NEW buy, NEW sell, Quoted(buy), Quoted(sell), buy.asks # <<>>, sell.bids # <<>>,
         NEW policy, IsPolicy(policy), NEW budget \in Int
  PROVE  /\ Lots(buy, sell, budget, policy) \in Int
         /\ Lots(buy, sell, budget, policy) > 0 =>
              Lots(buy, sell, budget, policy) <= AmountLimit(policy, buy.delta, sell.delta, buy.step)
<1>1. PICK unit \in Int : unit = buy.asks[1].price - sell.bids[1].price
  <2>0. PICK asks, bids : asks = buy.asks /\ bids = sell.bids
    OBVIOUS
  <2>1. /\ asks \in Seq([price : Nat \ {0}, amount : Nat \ {0}]) /\ asks # <<>>
        /\ bids \in Seq([price : Nat \ {0}, amount : Nat \ {0}]) /\ bids # <<>>
    BY <2>0 DEF Quoted
  <2>2. /\ asks[1] \in [price : Nat \ {0}, amount : Nat \ {0}]
        /\ bids[1] \in [price : Nat \ {0}, amount : Nat \ {0}]
    BY <2>1, Elements
  <2> QED BY <2>0, <2>2
<1>2. PICK limit \in Int : limit = AmountLimit(policy, buy.delta, sell.delta, buy.step)
  BY LimitTyped DEF Quoted
<1>3. PICK depth \in Int : depth = AtMost(Depth(buy.asks), Depth(sell.bids)) \div 5
  <2>1. Depth(buy.asks) \in Nat /\ Depth(sell.bids) \in Nat
    BY DepthTyped DEF Quoted
  <2>2. PICK n \in Nat : n = AtMost(Depth(buy.asks), Depth(sell.bids))
    BY <2>1 DEF AtMost
  <2> QED BY <2>2, WholeShares
<1>4. PICK step \in Nat \ {0} : step = buy.step
  BY DEF Quoted
<1>5. CASE unit <= 0
  BY <1>1, <1>5 DEF Lots
<1>6. CASE unit > 0
  <2>1. PICK n \in Int : n = AtMost(budget \div unit, AtMost(depth, limit)) /\ n <= limit
    <3>1. budget \div unit \in Int
      BY <1>6, WholeShares
    <3> QED BY <3>1 DEF AtMost
  <2>2. Lots(buy, sell, budget, policy) = (n \div step) * step
    BY <1>1, <1>2, <1>3, <1>4, <1>6, <2>1 DEF Lots
  <2>3. (n \div step) * step \in Int /\ (n \div step) * step <= n
    BY WholeShares
  <2> QED BY <1>2, <2>1, <2>2, <2>3
<1> QED BY <1>5, <1>6

\* A lot is charged no less than the base.
LEMMA ChargeBounds ==
  ASSUME NEW fees, fees.base \in Nat, fees.rate \in Nat, fees.cap \in Nat, NEW price \in Nat, NEW spot \in Nat
  PROVE  Charge(fees, 1, price, spot) \in Int /\ Charge(fees, 1, price, spot) >= fees.base
<1>1. PICK n \in Nat : n = AtMost(1 * spot * fees.rate, 1 * price * fees.cap)
  <2>1. 1 * spot * fees.rate \in Nat /\ 1 * price * fees.cap \in Nat
    OBVIOUS
  <2> QED BY <2>1 DEF AtMost
<1>2. n \div 10000 \in Nat
  OBVIOUS
<1> QED BY <1>1, <1>2 DEF Charge

\* What Built returns.
LEMMA BuiltBounds ==
  ASSUME NEW buy, NEW sell, Quoted(buy), Quoted(sell), buy.asks # <<>>, sell.bids # <<>>,
         NEW policy, IsPolicy(policy), NEW budget \in Int, Width(buy, sell) \in Int,
         NEW p, p = Built(buy, sell, budget, policy), p # NoPlan
  PROVE  /\ p.buy = buy /\ p.sell = sell
         /\ p.buy_limit \in Nat /\ p.sell_limit \in Nat /\ p.buy_limit > p.sell_limit
         /\ p.amount \in Nat \ {0}
         /\ p.amount <= AmountLimit(policy, buy.delta, sell.delta, buy.step)
<1> DEFINE amount     == Lots(buy, sell, budget, policy)
           payoff     == Width(buy, sell) * amount
           buy_limit  == CeilDiv(WorstPrice(buy.asks, amount), buy.tick) * buy.tick
           sell_limit == (WorstPrice(sell.bids, amount) \div sell.tick) * sell.tick
           debit      == (buy_limit - sell_limit) * amount
           made       == [buy |-> buy, sell |-> sell, amount |-> amount, payoff |-> payoff,
                          buy_limit |-> buy_limit, sell_limit |-> sell_limit, debit |-> debit,
                          loss |-> debit]
<1>1. p = made /\ amount > 0 /\ sell_limit > 0 /\ WorthIt(debit, payoff, budget)
  BY Zenon DEF Built
<1>2. amount \in Nat \ {0} /\ amount <= AmountLimit(policy, buy.delta, sell.delta, buy.step)
  <2>1. /\ amount \in Int
        /\ amount > 0 => amount <= AmountLimit(policy, buy.delta, sell.delta, buy.step)
    BY LotsBounds, Zenon
  <2> HIDE DEF amount, payoff, buy_limit, sell_limit, debit, made
  <2> QED BY <1>1, <2>1
<1> HIDE DEF amount
<1>3. sell_limit \in Int /\ buy_limit \in Int
  <2>1. PICK tb \in Nat \ {0}, ts \in Nat \ {0} : tb = buy.tick /\ ts = sell.tick
    BY DEF Quoted
  <2>2. PICK wb \in Nat, ws \in Nat : wb = WorstPrice(buy.asks, amount) /\ ws = WorstPrice(sell.bids, amount)
    BY WorstTyped DEF Quoted
  <2>3. PICK m \in Int : m = CeilDiv(wb, tb)
    BY WholeShares DEF CeilDiv
  <2>4. PICK n \in Int : n = ws \div ts
    BY WholeShares
  <2>5. m * tb \in Int /\ n * ts \in Int
    OBVIOUS
  <2> QED BY <2>1, <2>2, <2>3, <2>4, <2>5
<1>4. debit > 0
  BY <1>1 DEF WorthIt
<1> HIDE DEF buy_limit, sell_limit
<1>5. buy_limit > sell_limit
  <2>1. PICK d \in Int : d = buy_limit - sell_limit
    BY <1>3
  <2>2. d * amount > 0
    BY <1>4, <2>1
  <2>3. d > 0
    <3>1. CASE d <= 0
      <4>1. d * amount <= 0
        BY <1>2, <3>1
      <4> QED BY <2>2, <4>1, <1>2
    <3> QED BY <3>1
  <2> QED BY <1>3, <2>1, <2>3
<1> HIDE DEF payoff, debit
<1>6. /\ p.buy = buy /\ p.sell = sell /\ p.amount = amount
      /\ p.buy_limit = buy_limit /\ p.sell_limit = sell_limit
  BY <1>1
<1> QED BY <1>1, <1>2, <1>3, <1>5, <1>6

\* What Costed makes of it.
LEMMA CostedBounds ==
  ASSUME NEW p, Quoted(p.buy), Quoted(p.sell), NEW policy, IsPolicy(policy), NEW budget \in Int,
         p.buy_limit \in Nat, p.sell_limit \in Nat, p.buy_limit > p.sell_limit, p.amount \in Nat \ {0},
         NEW c, c = Costed(p, budget, policy), c # NoPlan
  PROVE  /\ c.buy = p.buy /\ c.sell = p.sell
         /\ c.amount \in Nat \ {0} /\ c.amount <= p.amount
         /\ c.debit + RoundTrip(c, c.amount, policy.spot) <= budget
         /\ 5 * (c.debit + c.fees) <= 2 * (Width(c.buy, c.sell) * c.amount)
<1> DEFINE step    == p.buy.step
           fixed   == 2 * (p.buy.fees.base + p.sell.fees.base)
           unit    == (p.buy_limit - p.sell_limit) + RoundTrip(p, 1, policy.spot) - fixed
           amount  == AtMost(p.amount, (AtLeast(0, budget - fixed) \div (unit * step)) * step)
           debit   == (p.buy_limit - p.sell_limit) * amount
           payoff  == Width(p.buy, p.sell) * amount
           reserve == RoundTrip(p, amount, policy.spot)
           view    == Exposure(policy, p.buy.delta, p.sell.delta, amount, amount)
<1>1. /\ c.buy = p.buy /\ c.sell = p.sell /\ c.amount = amount /\ c.debit = debit
      /\ c.buy_limit = p.buy_limit /\ c.sell_limit = p.sell_limit /\ c.fees = reserve
      /\ amount > 0 /\ WorthIt(debit + reserve, payoff, budget)
  BY DEF Costed
<1>2. amount \in Int /\ amount <= p.amount
  <2>0. PICK bb \in Nat, bs \in Nat, s \in Nat \ {0} :
          bb = p.buy.fees.base /\ bs = p.sell.fees.base /\ s = step
    BY DEF Quoted
  <2>1. PICK f \in Nat : f = fixed /\ f = 2 * (bb + bs)
    BY <2>0
  <2>2. PICK spot \in Nat : spot = policy.spot
    BY DEF IsPolicy
  <2>3. PICK x \in Int, y \in Int : x = Charge(p.buy.fees, 1, p.buy_limit, spot)
                                    /\ y = Charge(p.sell.fees, 1, p.sell_limit, spot)
                                    /\ x >= p.buy.fees.base /\ y >= p.sell.fees.base
    BY ChargeBounds DEF Quoted
  <2>4. PICK gap \in Nat \ {0} : gap = p.buy_limit - p.sell_limit
    OBVIOUS
  <2>5. unit \in Nat \ {0}
    <3>1. unit = gap + 2 * (x + y) - f
      BY <2>1, <2>2, <2>3, <2>4 DEF RoundTrip
    <3>2. x >= bb /\ y >= bs
      BY <2>0, <2>3
    <3> QED BY <2>1, <3>1, <3>2
  <2>6. PICK u \in Nat \ {0} : u = unit * step
    <3>1. PICK v \in Nat \ {0} : v = unit
      BY <2>5
    <3> HIDE DEF unit, step
    <3>2. v * s \in Nat \ {0}
      OBVIOUS
    <3> QED BY <2>0, <3>1, <3>2
  <2>7. PICK n \in Int : n = AtLeast(0, budget - f)
    BY DEF AtLeast
  <2>8. PICK k \in Int : k = n \div u
    BY WholeShares
  <2>9. k * s \in Int
    OBVIOUS
  <2>10. amount = AtMost(p.amount, k * s)
    BY <2>0, <2>1, <2>6, <2>7, <2>8
  <2> QED BY <2>9, <2>10 DEF AtMost
<1>3. RoundTrip(c, c.amount, policy.spot) = reserve
  BY <1>1, Zenon DEF RoundTrip
<1>4. payoff = Width(c.buy, c.sell) * c.amount
  BY <1>1
<1> HIDE DEF amount, debit, payoff, reserve
<1>5. debit + reserve <= budget /\ 5 * (debit + reserve) <= 2 * payoff
  BY <1>1 DEF WorthIt
<1> QED BY <1>1, <1>2, <1>3, <1>4, <1>5

LEMMA MinOfThree ==
  ASSUME NEW a \in Int, NEW b \in Int, NEW c \in Int PROVE Min({a, b, c}) \in Int
<1>1. PICK m \in {a, b, c} : m <= a /\ m <= b /\ m <= c
  OBVIOUS
<1>2. Min({a, b, c}) \in {a, b, c}
  BY <1>1, MinTaken
<1> QED BY <1>2

\* The policy that an account is planned with.
LEMMA PolicyTyped ==
  ASSUME NEW a \in Accounts
  PROVE  /\ PlanBudget(a) \in Int /\ IsPolicy(Policy(a, PlanBudget(a)))
         /\ Policy(a, PlanBudget(a)).spot = a.spot
<1>1. /\ a.available \in Int /\ a.equity \in Int /\ a.trade_budget \in Int /\ a.size \in Int
      /\ a.spot \in Nat \ {0} /\ a.delta \in Int /\ a.committed \in Int /\ a.scale \in Nat
  BY AccountsAssumption
<1>2. PICK budget \in Int : budget = PlanBudget(a)
  <2>1. a.equity \div 100 \in Int
    BY <1>1, WholeShares
  <2>2. PICK m \in Int : m = Min({a.available, a.equity \div 100, a.trade_budget})
    BY <1>1, <2>1, MinOfThree
  <2>3. (m * a.size) \div 100 \in Int
    BY <1>1, WholeShares
  <2> QED BY <2>2, <2>3 DEF PlanBudget
<1>3. PICK nf \in Nat, gf \in Nat : nf = Config.net_fraction /\ gf = Config.gross_fraction
  BY ConfigAssumption
<1>4. /\ ((a.equity - budget) * nf * a.scale) \div 10000 \in Int
      /\ ((a.equity - budget) * gf * a.scale) \div 10000 \in Int
  BY <1>1, WholeShares
<1> QED BY <1>1, <1>2, <1>3, <1>4 DEF Policy, AccountPolicy, IsPolicy

\* A plan of a chain is sound for the account it is made with.
LEMMA PlanKept ==
  ASSUME NEW a \in Accounts, NEW chain \in Chains, NEW kind \in {"call", "put"},
         NEW c \in PlansFor(a, chain, kind), c # NoPlan
  PROVE  LET budget == PlanBudget(a)
             Fill(bought, sold) == Exposure(Policy(a, budget), c.buy.delta, c.sell.delta, bought, sold)
         IN  /\ c.debit + RoundTrip(c, c.amount, a.spot) <= budget
             /\ 5 * (c.debit + c.fees) <= 2 * Width(c.buy, c.sell) * c.amount
             /\ Fill(c.amount, c.amount).within /\ Fill(c.amount, 0).within /\ Fill(0, c.amount).within
<1>1. PICK budget, policy : budget = PlanBudget(a) /\ policy = Policy(a, budget)
  OBVIOUS
<1>2. budget \in Int /\ IsPolicy(policy) /\ policy.spot = a.spot
  BY <1>1, PolicyTyped
<1>3. PICK p \in Spreads(chain, kind, budget, policy) : c = Costed(p, budget, policy)
  <2>1. PlansFor(a, chain, kind) =
          IF PlanBudget(a) <= 0 THEN {NoPlan}
          ELSE {Costed(q, budget, policy) : q \in Spreads(chain, kind, budget, policy)}
    BY <1>1, Zenon DEF PlansFor
  <2> QED BY <2>1
<1>4. PICK buy \in chain, sell \in chain :
        /\ Eligible(buy, kind) /\ Eligible(sell, kind)
        /\ p = Built(buy, sell, budget, policy) /\ p # NoPlan
  BY DEF Spreads
<1>5. Quoted(buy) /\ Quoted(sell)
  BY ChainsAssumption DEF Quoted
<1>6. buy.asks # <<>> /\ sell.bids # <<>> /\ Width(buy, sell) \in Int
  <2>1. buy.asks # <<>> /\ sell.bids # <<>>
    BY <1>4, Zenon DEF Eligible
  <2>2. buy.strike \in Int /\ sell.strike \in Int
    BY <1>5 DEF Quoted
  <2> QED BY <2>1, <2>2 DEF Width
<1>7. /\ p.buy = buy /\ p.sell = sell
      /\ p.buy_limit \in Nat /\ p.sell_limit \in Nat /\ p.buy_limit > p.sell_limit
      /\ p.amount \in Nat \ {0}
      /\ p.amount <= AmountLimit(policy, buy.delta, sell.delta, buy.step)
  BY <1>2, <1>4, <1>5, <1>6, BuiltBounds
<1>8. /\ c.buy = buy /\ c.sell = sell
      /\ c.amount \in Nat \ {0} /\ c.amount <= p.amount
      /\ c.debit + RoundTrip(c, c.amount, policy.spot) <= budget
      /\ 5 * (c.debit + c.fees) <= 2 * (Width(c.buy, c.sell) * c.amount)
  <2>1. Quoted(p.buy) /\ Quoted(p.sell)
    BY <1>5, <1>7
  <2> QED BY <1>2, <1>3, <1>7, <2>1, CostedBounds
<1>9. PICK amount \in Nat \ {0} : amount = c.amount
  BY <1>8
<1>10. amount <= AmountLimit(policy, buy.delta, sell.delta, buy.step)
  <2>1. AmountLimit(policy, buy.delta, sell.delta, buy.step) \in Int
    BY <1>2, <1>5, LimitTyped DEF Quoted
  <2>2. PICK most \in Int : most = AmountLimit(policy, buy.delta, sell.delta, buy.step)
    BY <2>1
  <2>3. PICK planned \in Nat : planned = p.amount
    BY <1>7
  <2>4. amount <= planned /\ planned <= most
    BY <1>7, <1>8, <1>9, <2>2, <2>3
  <2> QED BY <2>2, <2>4
<1>11. ASSUME NEW bought \in Nat, NEW sold \in Nat,
              <<bought, sold>> \in {<<amount, amount>>, <<amount, 0>>, <<0, amount>>}
       PROVE  Exposure(policy, buy.delta, sell.delta, bought, sold).within
  <2>1. buy.delta \in Int /\ sell.delta \in Int /\ buy.step \in Nat \ {0}
    BY <1>5 DEF Quoted
  <2> QED BY <1>2, <1>10, <1>11, <2>1, FillsWithinCaps
<1>12. /\ Exposure(policy, buy.delta, sell.delta, amount, amount).within
       /\ Exposure(policy, buy.delta, sell.delta, amount, 0).within
       /\ Exposure(policy, buy.delta, sell.delta, 0, amount).within
  BY <1>11
<1>13. 2 * Width(c.buy, c.sell) * c.amount = 2 * (Width(c.buy, c.sell) * c.amount)
  <2>1. PICK width \in Int, n \in Nat : width = Width(c.buy, c.sell) /\ n = c.amount
    BY <1>6, <1>8
  <2>2. 2 * width * n = 2 * (width * n)
    OBVIOUS
  <2> QED BY <2>1, <2>2
<1> QED BY <1>1, <1>2, <1>8, <1>9, <1>12, <1>13

\* Whatever is on offer, the plan the controller holds is sound for the account
\* it was made from.
THEOREM PlansKept == Spec => []PlanSound
<1>1. Init => PlanSound
  BY DEF Init, PlanSound
<1>2. IInv /\ PlanSound /\ [Next]_vars => PlanSound'
  <2> SUFFICES ASSUME IInv, PlanSound, [Next]_vars PROVE PlanSound'
    OBVIOUS
  <2>1. CASE PlanOptions
    <3>0. PICK chain \in Chains, kind \in {"call", "put"} :
            \E found \in Found(chain, kind) : data' = [account |-> account, plan |-> found]
      BY <2>1 DEF PlanOptions
    <3>1. PICK found \in Found(chain, kind) : data' = [account |-> account, plan |-> found]
      BY <3>0
    <3>2. account \in Accounts
      BY DEF IInv, TypeOK
    <3>3. data'.account = account /\ data'.plan = found
      BY <3>1
    <3>4. CASE found = NoPlan
      BY <3>3, <3>4 DEF PlanSound
    <3>5. CASE found # NoPlan
      <4>1. Plans[<<account, chain, kind>>] = PlansFor(account, chain, kind)
        BY <3>2 DEF Plans
      <4>2. found \in PlansFor(account, chain, kind)
        BY <3>5, <4>1 DEF Found
      <4> QED BY <3>2, <3>3, <3>5, <4>2, PlanKept, Zenon DEF PlanSound
    <3> QED BY <3>4, <3>5
  <2>2. CASE PlanNothing
    BY <2>2 DEF PlanNothing, PlanSound
  <2>3. CASE UNCHANGED data
    BY <2>3 DEF PlanSound
  <2> QED
    BY <2>1, <2>2, <2>3
    DEF Next, vars, Drift, Admit, Cancel, Leave, ForceExit, ExecuteEntry, Unaffordable, ExecuteExit,
        Overcharged, SettleEntry, SettleExit
<1> QED BY <1>1, <1>2, InitIInv, NextIInv, PTL DEF Spec
=============================================================================
