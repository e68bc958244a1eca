---------------------------- MODULE MCSpreadTrade ----------------------------
(* Calls and puts three days from expiry on an underlying of 2500, in lots of  *)
(* a hundredth; money in cents.                                                *)
EXTENDS SpreadTrade

Settings ==
  [net_fraction |-> 20, gross_fraction |-> 75, net_limit |-> 20, gross_limit |-> 75,
   moneyness |-> "any", buy_target |-> 50, sell_target |-> 25]

Calm == [equity |-> 80000, available |-> 60000, trade_budget |-> 400, size |-> 100, spot |-> 2500,
         scale |-> 100, delta |-> 0, committed |-> 0, other_net |-> 0, other_gross |-> 0]

\* Half as large after a loss, halved by the runtime, and little money beside
\* another position.
Valuations ==
  {Calm,
   [Calm EXCEPT !.equity = 66000, !.trade_budget = 240, !.scale = 53],
   [Calm EXCEPT !.size = 50],
   [Calm EXCEPT !.available = 230, !.delta = -4, !.committed = 15000,
                !.other_net = -600000, !.other_gross = 15000]}

Schedule == [rate |-> 4, base |-> 1, cap |-> 1250]

Quote(name, kind, strike, delta, bid, ask) ==
  [name |-> name, kind |-> kind, strike |-> strike, delta |-> delta, tenor |-> 72, age |-> 1,
   step |-> 1, tick |-> 2, min_amount |-> 1, fees |-> Schedule,
   bids |-> <<[price |-> bid, amount |-> 20], [price |-> bid - 3, amount |-> 60]>>,
   asks |-> <<[price |-> ask, amount |-> 20], [price |-> ask + 3, amount |-> 60]>>]

Listed ==
  {{Quote("c2500", "call", 2500, 50, 75, 79), Quote("c2550", "call", 2550, 35, 52, 56),
    Quote("c2600", "call", 2600, 25, 46, 50), Quote("p2400", "put", 2400, -25, 46, 50),
    Quote("p2500", "put", 2500, -45, 75, 79)},
   {Quote("c2500", "call", 2500, 60, 60, 64), Quote("c2600", "call", 2600, 12, 46, 50)}}

Bids == {[buy |-> buy, sell |-> sell] : buy \in {44, 64, 73, 80}, sell \in {44, 46}}
=============================================================================
