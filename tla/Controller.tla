------------------------------ MODULE Controller ------------------------------
(***************************************************************************)
(* The trading controllers of one account: DeriveCesfLongVolController,    *)
(* one instance per profile, in one event loop.  They share the account    *)
(* snapshot, the in-flight orders of the connector, the risk checkpoint    *)
(* and the process-wide reservation; one of them also services the options *)
(* book.                                                                   *)
(*                                                                         *)
(* A turn of a profile's control loop (update_processed_data, then the     *)
(* create and the stop proposals) has no await and is one action, except   *)
(* for the owner of the options book: its turn is cut in BeginTick, what   *)
(* happens while the book's tick is awaited, and EndTick.                  *)
(*                                                                         *)
(* External, and modelled from how the code uses them: Hummingbot's        *)
(* executors, which send and cancel the orders and see their fills, and    *)
(* the venue.  An executor has one order at a time and fills it whole; but *)
(* the answer to a request may be lost, which its executor takes for a     *)
(* failure: the venue has the order, gets it later, or never.              *)
(* The inside of the other parts is modules OptionsBook's, AccountCache's, *)
(* RiskCheckpoint's and RuntimeBridge's: here a refresh is one step, an    *)
(* open spread is one, and the hard stop is one latch.                     *)
(*                                                                         *)
(* Time is counted in ticks of a clock coarser than the 5 s for which the  *)
(* data of a turn are fresh.                                               *)
(***************************************************************************)
EXTENDS EntryRules

CONSTANTS
  Profiles,     \* the controllers of the account, each with a pair of its own
  Owner,        \* the one that has options_enabled
  Config,       \* what their configurations share
  MaxPerps,     \* max_perp_positions
  MaxSpreads,   \* max_option_spreads
  Features,     \* what the signal code may compute of the candles
  Accounts,     \* the account valuations a snapshot may carry
  Quotes,       \* books, venue rules and runtime adjustments of a proposal
  PerpValue,    \* the exposure of a perp position, in cents
  SpreadValue,  \* the exposure of an open spread, in cents
  PerpHold,     \* 30 s: the reservation of a proposal
  OptionsHold,  \* 60 s: the reservation of an options tick
  SnapshotAge,  \* 30 s: the age a snapshot may have
  UnfilledFor,  \* 30 s: the time an entry may stay unfilled
  SpawnLag,     \* assumed: the longest from a proposal to its order
  TickMax,      \* assumed: the longest options tick that admits nothing
  MaxTime,      \* bound: the clock; no cooldown_time (60 s at least) ends in it
  MaxFaults     \* bound: restarts, lost answers and switches thrown

ASSUME ControllerAssumption ==
  /\ Owner \in Profiles /\ IsFiniteSet(Profiles) /\ MaxPerps \in 1 .. 2 /\ MaxSpreads \in 1 .. 2
  /\ {PerpHold, OptionsHold, SnapshotAge, UnfilledFor} \subseteq Nat \ {0}
  /\ {MaxTime, MaxFaults} \subseteq Nat

\* competition_contract: wider caps need the approved profile.
ASSUME ContractAssumption ==
  LET limits == ExposureLimits(Config.exposure_profile, Config.underlying)
  IN  /\ Config.notional_fraction <= limits.perp_notional
      /\ Config.gross_fraction <= limits.perp_gross

\* Hummingbot sends a proposal's order within its reservation.  No call of an
\* options tick takes more than 10 s, and one that admits nothing makes five at
\* the most.
ASSUME TimingAssumption ==
  /\ SpawnLag \in Nat /\ SpawnLag < PerpHold
  /\ TickMax \in Nat /\ TickMax < OptionsHold

\* What the inputs are: valuations of risk_view, books with their best price
\* first, rules and rates of the venue, adjustments within BOUNDS.
Levels(side) ==
  {levels \in Seq([price : Nat \ {0}, amount : Nat \ {0}]) :
     \A m, n \in DOMAIN levels : m <= n => side * levels[m].price <= side * levels[n].price}

ASSUME AccountsAssumption ==
  \A v \in Accounts :
    /\ {v.equity, v.available} \subseteq Int /\ {v.trade_budget, v.cost_multiple} \subseteq Nat
    /\ v.scale \in 0 .. 100

ASSUME QuotesAssumption ==
  \A q \in Quotes :
    /\ q.side \in {-1, 1} /\ q.price \in Nat \ {0} /\ q.levels \in Levels(q.side)
    /\ {q.rule.tick, q.rule.step} \subseteq Nat \ {0}
    /\ {q.rule.min_amount, q.rule.min_notional, q.rule.max_amount, q.fee, q.base_fee} \subseteq Nat
    /\ q.patch.size \in 0 .. 100
    /\ {q.patch.stop, q.patch.profit, q.patch.hold, q.patch.cost} \subseteq Nat

ASSUME ConfigAssumption ==
  /\ {Config.risk_fraction, Config.notional_fraction, Config.gross_fraction, Config.max_slippage,
      Config.fee, Config.interval, PerpValue, SpreadValue} \subseteq Nat
  /\ Config.scalp \in BOOLEAN

ASSUME FeaturesAssumption ==
  \A f \in Features : f.trend \in Int /\ {f.atr, f.efficiency, f.volume} \subseteq Nat

VARIABLES
  now,
  reserved,  \* _reservations: until when the account is reserved
  spent,     \* the checkpoint's entries: profiles whose pair has entered
  stopped,   \* the checkpoint's hard stop latch
  kill,      \* profiles whose manual_kill_switch is on
  loaded,    \* has the owner loaded the options book since the start?
  spread,    \* the book's journals: an entry under way, exits under way, open
  tick,      \* the options tick that is awaited
  snapshot,  \* _flyby_account_state
  exec,      \* each profile's executor
  order,     \* venue: the order each executor knows of
  strays,    \* venue: the requests no executor knows of any more
  held,      \* venue: the positions, each named after the order it is of
  faults,    \* restarts, lost answers and switches thrown so far
  proposal   \* what the last step proposed

book  == <<loaded, spread, tick>>
venue == <<order, strays, held>>
vars  == <<now, reserved, spent, stopped, kill, book, snapshot, exec, venue,
           faults, proposal>>

-----------------------------------------------------------------------------
(* Data *)

Times      == 0 .. MaxTime
Never      == -1
NoProposal == [ticket |-> NoTicket]
Long       == 0 - SnapshotAge - 1   \* no snapshot is that old
NoSnapshot == [at |-> Long, orders |-> {}, positions |-> {}]

\* Request 0 of a profile is the one its executor last knew of; the others were
\* lost, or on the wire at a restart.  `since` is when such a one has come to
\* the venue, unseen.
Requests == 0 .. MaxFaults
Stray    == [of : Profiles, n : Requests, entry : BOOLEAN, resting : BOOLEAN, since : {Long} \cup Times]
Position == [of : Profiles, n : Requests, since : {Long} \cup Times]
Snapshot == [at : Int, orders : SUBSET [of : Profiles, n : Requests], positions : SUBSET Position]

OnWire(p, number) ==
  [of |-> p, n |-> number, entry |-> exec[p].stage = "entering", resting |-> FALSE, since |-> Long]
Own(p) == [of |-> p, n |-> 0, since |-> Long]

\* queued: proposed, not yet an executor.  waiting: no order yet.
Stages   == {"none", "queued", "waiting", "entering", "holding", "closing"}
Executor == [stage : Stages, since : Times, stop : BOOLEAN]
NoExec   == [stage |-> "none", since |-> 0, stop |-> FALSE]

\* processed_data after _halt.
NoData == [halt |-> TRUE, signal |-> 0, at |-> Never]
NoTick == [on |-> FALSE, data |-> NoData, since |-> 0, reserved |-> FALSE, prior |-> 0]

\* Executors the controllers see in executors_info as active.
Active == {p \in Profiles : exec[p].stage \notin {"none", "queued"}}

\* in_flight_orders: an executor's order, until the connector sees it end.
Inflight == {p \in Profiles : exec[p].stage \in {"entering", "closing"}}

\* Open orders carry the label of their request.
View ==
  [at |-> now,
   orders |-> {[of |-> p, n |-> 0] : p \in {q \in Profiles : order[q] = "resting"}}
         \cup {[of |-> x.of, n |-> x.n] : x \in {y \in strays : y.resting}},
   positions |-> held]

OpenCount == spread.open + spread.exiting + (IF spread.entry THEN 1 ELSE 0)
Blocked   == spread.entry \/ spread.exiting > 0

OptionsBusy == IF loaded THEN Blocked ELSE OpenCount > 0

-----------------------------------------------------------------------------
(* _account *)

Readable == now - snapshot.at <= SnapshotAge

\* (No allocation is made beside an order in flight: their values are left out.)
Committed(s) == PerpValue * Cardinality(s.positions) + SpreadValue * spread.open

Pairs(s) == {u.of : u \in s.positions}

\* Mutant: only positions count.
PerpCountHeld(s) == Cardinality(Pairs(s))

PerpCount(s) == AtLeast(Cardinality(Active), Cardinality(Pairs(s)))

\* Mutant: a position is known when its pair is ours.
KnownPositionsPaired(s) == Pairs(s) \subseteq Profiles

\* An executor knows a position up to its own amount.
KnownPositions(s) ==
  Pairs(s) \subseteq Active /\ \A u, v \in s.positions : u.of = v.of => u = v

\* Of the executors' requests the last one is known.
KnownOrders(s) == \A o \in s.orders : o.n = 0 /\ o.of \in Active

KnownOptions == loaded \/ spread.open + spread.exiting = 0

Reconciled(s) ==
  KnownOrders(s) /\ KnownPositions(s) /\ KnownOptions

EntryAllowed(s) ==
  Inflight = {} /\ s.orders = {} /\ KnownPositions(s) /\ KnownOptions

\* The account as the decision and the sizing see it.
Account(valuation, s) ==
  [equity |-> valuation.equity, available |-> valuation.available,
   mode |-> IF stopped THEN "hard_stop" ELSE valuation.mode,
   drawdown |-> valuation.drawdown, scale |-> valuation.scale,
   trade_budget |-> valuation.trade_budget, committed |-> Committed(s),
   floor |-> valuation.floor, cost_multiple |-> valuation.cost_multiple,
   reconciled |-> Reconciled(s)]

-----------------------------------------------------------------------------
(* A turn *)

\* What update_processed_data may come to: a halt, for any of its reasons, or a
\* decision on the features and the account of this moment.
Reading(f, v) ==
  LET decision == Decide(f, Account(v, snapshot), Config.active)
  IN  CASE decision.halt -> NoData
        [] ~decision.halt /\ decision.signal = 0 -> [halt |-> FALSE, signal |-> 0, at |-> now]
        [] decision.signal # 0 ->
             [halt |-> FALSE, signal |-> decision.signal, at |-> now, features |-> f]

Readings ==
  {NoData} \cup (IF Readable THEN {Reading(f, v) : f \in Features, v \in Accounts} ELSE {})

\* Mutant: a reservation keeps nobody out.
FreeAlways(expiry) == TRUE

\* Nobody has the account reserved.
Free(expiry) == expiry <= now

\* create_actions_proposal; `expiry` is the reservation it finds.
Create(p, data, expiry) ==
  /\ data.signal # 0 /\ ~data.halt /\ p \notin kill
  /\ p \notin Active /\ p \notin spent
  /\ ~OptionsBusy /\ Free(expiry) /\ Readable
  /\ EntryAllowed(snapshot) /\ Reconciled(snapshot)
  /\ PerpCount(snapshot) < MaxPerps
  /\ data.at = now /\ ~stopped
  /\ \E v \in Accounts, q \in Quotes :
       LET account == Account(v, snapshot)
           current == Decide(data.features, account, Config.active)
           ticket  == Ticket(q, account, data.features, current.confidence, Config)
       IN  /\ ~current.halt /\ current.signal = data.signal
           /\ RuntimeAllows(q.patch, current.confidence, account.floor)
           /\ q.side = current.signal /\ ticket # NoTicket
           /\ proposal' = [ticket |-> ticket, quote |-> q, account |-> account,
                           confidence |-> current.confidence]
  /\ exec' = [exec EXCEPT ![p] = [stage |-> "queued", since |-> now, stop |-> FALSE]]
  /\ spent' = spent \cup {p}
  /\ reserved' = now + PerpHold

\* A halt, the kill switch, the latch and an unreadable account all exit.
ExitsDue(p, data) == data.halt \/ p \in kill \/ stopped \/ ~Readable

Unfilled(p)   == exec[p].stage \in {"waiting", "entering"} /\ now - exec[p].since >= UnfilledFor
SignalGone(p, data) == exec[p].stage \in {"holding", "closing"} /\ data.signal = 0 /\ ~Config.scalp

Due(p, data) ==
  /\ p \in Active
  /\ exec[p].stop \/ ExitsDue(p, data) \/ Unfilled(p) \/ SignalGone(p, data)

\* stop_actions_proposal: what is due is stopped; a reversed signal, the exit
\* rules of the scalp profile or the agent may stop more.
Stop(p, data, expiry) ==
  /\ \E stop \in {Due(p, data), p \in Active} : exec' = [exec EXCEPT ![p].stop = stop]
  /\ reserved' = expiry /\ proposal' = NoProposal
  /\ UNCHANGED spent

Propose(p, data, expiry) == Create(p, data, expiry) \/ Stop(p, data, expiry)

\* A profile whose proposal is not an executor yet has no turn.
Ready(p) == exec[p].stage # "queued" /\ ~(p = Owner /\ tick.on)

\* The owner has such a turn when its connector is not ready.
Turn(p) ==
  /\ Ready(p)
  /\ \E data \in IF p = Owner THEN {NoData} ELSE Readings : Propose(p, data, reserved)
  /\ loaded' \in {loaded} \cup (IF p = Owner THEN {TRUE} ELSE {})
  /\ UNCHANGED <<now, stopped, kill, spread, tick, snapshot, venue, faults>>

\* allow, and a slot to enter with: the account is reserved until the tick ends.
Reserves(data) ==
  /\ data.at = now /\ ~data.halt /\ Owner \notin kill /\ EntryAllowed(snapshot)
  /\ Free(reserved)
  /\ OpenCount < MaxSpreads /\ ~Blocked

\* The owner's turn up to the first await of _service_options.
BeginTick ==
  /\ Ready(Owner)
  /\ loaded' = TRUE
  /\ \E data \in Readings :
       /\ tick' = [on |-> TRUE, data |-> data, since |-> now,
                   reserved |-> Reserves(data), prior |-> OpenCount]
       /\ reserved' = IF Reserves(data) THEN now + OptionsHold ELSE reserved
  /\ proposal' = NoProposal
  /\ UNCHANGED <<now, spent, stopped, kill, spread, snapshot, exec, venue, faults>>

\* A slot of the book has read the account, and goes on from what it says.
Service ==
  /\ tick.on /\ snapshot' = View /\ Reconciled(View) /\ proposal' = NoProposal
  /\ UNCHANGED <<now, reserved, stopped, kill, loaded, tick, exec, venue, faults>>

\* An entry: the plan needs a decision confident enough, and entry_budget and
\* consume_entry decide again on the account just read.
Admit ==
  /\ Service /\ tick.reserved /\ ~Blocked /\ OpenCount = tick.prior
  /\ now = tick.data.at /\ tick.data.signal # 0 /\ Owner \notin kill /\ ~stopped
  /\ EntryAllowed(View) /\ Owner \notin spent
  /\ \E v \in Accounts, q \in Quotes :
       LET account == Account(v, View)
           current == Decide(tick.data.features, account, Config.active)
       IN  /\ ~current.halt /\ current.signal = tick.data.signal
           /\ OptionDirection(current, 2) # 0
           /\ RuntimeAllows(q.patch, current.confidence, account.floor)
  /\ spread' = [spread EXCEPT !.entry = TRUE]
  /\ spent' = spent \cup {Owner}

\* An entry is executed or withdrawn, an exit is tried, executed or withdrawn.
\* Each slot is served once: what a tick that began with nothing under way has
\* admitted or tried ends in a later tick.
Settle ==
  /\ Service /\ UNCHANGED spent
  /\ \/ /\ spread.entry /\ ~tick.reserved
        /\ \E opened \in 0 .. 1 : spread' = [spread EXCEPT !.entry = FALSE, !.open = @ + opened]
     \/ /\ spread.open > 0
        /\ spread' = [spread EXCEPT !.open = @ - 1, !.exiting = @ + 1]
     \/ /\ spread.exiting > 0 /\ ~tick.reserved
        /\ \E kept \in 0 .. 1 : spread' = [spread EXCEPT !.exiting = @ - 1, !.open = @ + kept]

\* The await returns, or raises; then the owner's proposals.  A reservation
\* nothing was admitted under is given back.
EndTick ==
  /\ tick.on
  /\ \/ Propose(Owner, tick.data, IF tick.reserved /\ OpenCount = tick.prior THEN 0 ELSE reserved)
     \/ Stop(Owner, NoData, reserved)
  /\ tick' = NoTick
  /\ UNCHANGED <<now, stopped, kill, loaded, spread, snapshot, venue, faults>>

-----------------------------------------------------------------------------
(* The account snapshot, the latches, the clock *)

Refresh ==
  /\ snapshot' = View /\ proposal' = NoProposal
  /\ UNCHANGED <<now, reserved, spent, stopped, kill, book, exec, venue, faults>>

\* The operator switches a profile off, or a drawdown is observed.
SwitchOff ==
  /\ faults < MaxFaults /\ faults' = faults + 1
  /\ \/ \E p \in Profiles : kill' = kill \cup {p} /\ UNCHANGED stopped
     \/ Readable /\ stopped' = TRUE /\ UNCHANGED kill
  /\ proposal' = NoProposal
  /\ UNCHANGED <<now, reserved, spent, book, snapshot, exec, venue>>

\* The clock stands still for what is assumed to be done in time.  What has run
\* out is forgotten, as nobody can tell it from what was never there.
Advance ==
  /\ now < MaxTime /\ now' = now + 1
  /\ \A p \in Profiles : exec[p].stage \in {"queued", "waiting"} => now < exec[p].since + SpawnLag
  /\ tick.reserved /\ OpenCount = tick.prior => now < tick.since + TickMax
  /\ reserved' = IF reserved <= now' THEN 0 ELSE reserved
  /\ snapshot' = IF now' - snapshot.at > SnapshotAge THEN NoSnapshot ELSE snapshot
  /\ proposal' = NoProposal
  /\ UNCHANGED <<spent, stopped, kill, book, exec, venue, faults>>

\* The process is started again: what rests at the venue, and what is on its
\* way there, has no executor any more.
Restart ==
  /\ faults < MaxFaults /\ faults' = faults + 1
  /\ reserved' = 0 /\ loaded' = FALSE /\ tick' = NoTick /\ snapshot' = NoSnapshot
  /\ exec' = [p \in Profiles |-> NoExec]
  /\ order' = [p \in Profiles |-> "none"]
  /\ strays' = strays
       \cup {OnWire(p, faults') : p \in {q \in Profiles : order[q] = "wire"}}
       \cup {[OnWire(p, 0) EXCEPT !.resting = TRUE] : p \in {q \in Profiles : order[q] = "resting"}}
  /\ proposal' = NoProposal
  /\ UNCHANGED <<now, spent, stopped, kill, spread, held>>

-----------------------------------------------------------------------------
(* Executors and the venue *)

External ==
  /\ proposal' = NoProposal
  /\ UNCHANGED <<now, reserved, spent, stopped, kill, book>>

\* (The age of an executor matters until it holds a position.)
Becomes(p, stage) ==
  exec' = [exec EXCEPT ![p] =
    CASE stage = "none" -> NoExec
      [] stage \in {"waiting", "entering"} -> [@ EXCEPT !.stage = stage]
      [] stage \in {"holding", "closing"}  -> [stage |-> stage, since |-> 0, stop |-> @.stop]]

Spawn(p) ==
  /\ External /\ exec[p].stage = "queued" /\ Becomes(p, "waiting")
  /\ UNCHANGED <<snapshot, venue, faults>>

\* place_order invalidates the snapshot, then sends.
Send(p) ==
  /\ External /\ snapshot' = NoSnapshot /\ order[p] = "none"
  /\ \/ exec[p].stage = "waiting" /\ ~exec[p].stop /\ Becomes(p, "entering")
     \/ exec[p].stage = "holding" /\ Becomes(p, "closing")
  /\ order' = [order EXCEPT ![p] = "wire"]
  /\ UNCHANGED <<strays, held, faults>>

\* An entry may rest; a close is executed at once or not at all.
Arrive(p) ==
  /\ External /\ order[p] = "wire" /\ exec[p].stage = "entering"
  /\ order' = [order EXCEPT ![p] = "resting"]
  /\ UNCHANGED <<snapshot, exec, strays, held, faults>>

\* What is reduced when a close of the profile's pair is executed.
Reduce(p) == \E u \in held : u.of = p /\ held' = held \ {u}

Fill(p) ==
  /\ External /\ order' = [order EXCEPT ![p] = "none"]
  /\ \/ order[p] = "resting" /\ held' = held \cup {Own(p)}
     \/ order[p] = "wire" /\ exec[p].stage = "closing" /\ Reduce(p)
  /\ UNCHANGED <<snapshot, exec, strays, faults>>

\* The request is refused, or times out: the venue has accepted it all the same,
\* or still receives it, or never.
Fail(p) ==
  /\ order[p] = "wire" /\ order' = [order EXCEPT ![p] = "none"]
  /\ \/ UNCHANGED <<strays, faults>>
     \/ /\ faults < MaxFaults /\ faults' = faults + 1
        /\ strays' = strays \cup {OnWire(p, faults')}
  /\ UNCHANGED held

\* An entry that failed is tried again while there is time for it.
Refuse(p) ==
  /\ External /\ Fail(p)
  /\ Becomes(p, IF exec[p].stage = "closing" THEN "holding"
                ELSE IF now < exec[p].since + SpawnLag THEN "waiting" ELSE "none")
  /\ UNCHANGED snapshot

\* A close fails too often and the executor ends: nobody owns what is left.
Abandon(p) ==
  /\ External /\ Fail(p) /\ exec[p].stage = "closing" /\ Becomes(p, "none")
  /\ UNCHANGED snapshot

\* A request nobody knows of reaches the venue, or is executed there.
Surface(x) ==
  /\ External /\ x.entry /\ ~x.resting
  /\ strays' = (strays \ {x}) \cup {[x EXCEPT !.resting = TRUE, !.since = now]}
  /\ UNCHANGED <<snapshot, exec, order, held, faults>>

Execute(x) ==
  /\ External /\ strays' = strays \ {x}
  /\ IF x.entry THEN x.resting /\ held' = held \cup {[of |-> x.of, n |-> x.n, since |-> x.since]}
                ELSE Reduce(x.of)
  /\ UNCHANGED <<snapshot, exec, order, faults>>

\* The stream reports the fill.  The connector polls 2 s later: no snapshot from
\* before outlives this moment.
Learn(p) ==
  /\ External /\ p \in Inflight /\ order[p] = "none"
  /\ Becomes(p, IF exec[p].stage = "entering" THEN "holding" ELSE "none")
  /\ snapshot' = [snapshot EXCEPT !.at = AtMost(@, now - SnapshotAge)]
  /\ UNCHANGED <<venue, faults>>

\* A stopped executor ends at once, or cancels its entry.
Withdraw(p) ==
  /\ External /\ exec[p].stop
  /\ \/ exec[p].stage = "waiting" /\ UNCHANGED order
     \/ exec[p].stage = "entering" /\ order[p] = "resting" /\ order' = [order EXCEPT ![p] = "none"]
  /\ Becomes(p, "none")
  /\ UNCHANGED <<snapshot, strays, held, faults>>

-----------------------------------------------------------------------------
\* Spreads of earlier days may be open.
Init ==
  /\ now = 0 /\ reserved = 0 /\ spent = {}
  /\ stopped = FALSE /\ kill = {}
  /\ loaded = FALSE /\ tick = NoTick
  /\ spread \in {[entry |-> FALSE, exiting |-> 0, open |-> n] : n \in 0 .. MaxSpreads}
  /\ snapshot = NoSnapshot
  /\ exec = [p \in Profiles |-> NoExec]
  /\ order = [p \in Profiles |-> "none"] /\ strays = {} /\ held = {}
  /\ faults = 0 /\ proposal = NoProposal

Executors(p) ==
  Spawn(p) \/ Send(p) \/ Arrive(p) \/ Refuse(p) \/ Fill(p) \/ Learn(p) \/ Withdraw(p) \/ Abandon(p)

Next ==
  \/ \E p \in Profiles : Turn(p) \/ Executors(p)
  \/ \E x \in strays : Surface(x) \/ Execute(x)
  \/ BeginTick \/ Admit \/ Settle \/ EndTick
  \/ Refresh \/ SwitchOff \/ Advance \/ Restart

Spec == Init /\ [][Next]_vars

-----------------------------------------------------------------------------
(* Properties *)

TypeOK ==
  /\ now \in Times /\ reserved \in Nat /\ spent \subseteq Profiles
  /\ stopped \in BOOLEAN /\ kill \subseteq Profiles /\ loaded \in BOOLEAN
  /\ spread \in [entry : BOOLEAN, exiting : 0 .. MaxSpreads, open : 0 .. MaxSpreads]
  /\ tick.since \in Times /\ tick.prior \in 0 .. MaxSpreads
  /\ {tick.on, tick.reserved} \subseteq BOOLEAN
  /\ snapshot \in Snapshot
  /\ exec \in [Profiles -> Executor]
  /\ order \in [Profiles -> {"none", "wire", "resting"}]
  /\ strays \subseteq Stray /\ held \subseteq Position
  /\ faults \in 0 .. MaxFaults

\* Perps the account is committed to: proposed, ordered or held, other than what
\* comes of requests whose answer was lost or cut off by a restart.
Live ==
  {p \in Profiles : exec[p].stage # "none" \/ \E u \in strays \cup held : u.of = p /\ u.n = 0}

\* "Account limits of two perps and two disjoint two-leg debit spreads": no
\* interleaving of profiles, refreshes, fills, failures and restarts exceeds
\* them, but for the requests nobody knows of.
WithinLimits == TypeOK /\ Cardinality(Live) <= MaxPerps /\ OpenCount <= MaxSpreads

\* The profiles a step proposes a perp for, and whether it enters a spread.
Proposed == {p \in Profiles : exec[p].stage = "none" /\ exec'[p].stage = "queued"}
Entered  == ~spread.entry /\ spread'.entry

\* The reservation lets one allocation be made at a time: nobody else's is still
\* to become an order, nor in flight, and a perp is not proposed while a spread
\* is entered or left.
OneAtATime ==
  [][/\ Proposed # {} \/ Entered =>
          \A p \in Profiles \ Proposed : exec[p].stage \in {"none", "holding"}
     /\ Proposed # {} => ~Blocked]_vars

\* "A process-wide reservation prevents two profiles using the same connector
\* from allocating before its in-flight orders are visible": whoever allocates
\* finds all that the others have allocated in the snapshot it is sized with.
AllocationsSeen ==
  [][Proposed # {} \/ Entered => Live \ Proposed \subseteq Pairs(snapshot')]_vars

\* Orders and positions at the venue that no executor answers for.
Ownerless == {x \in strays : x.resting} \cup {u \in held : u.of \notin Active}

\* Nothing is allocated beside them, whether they were given up or left behind
\* by a restart.  One whose answer was lost escapes a proposal for as long as a
\* snapshot from before it came to the venue may be read, and never an entry of
\* a spread.
OrphansBlock ==
  [][Proposed # {} \/ Entered =>
       \A x \in Ownerless : Proposed # {} /\ now - x.since <= SnapshotAge]_vars

\* A proposal keeps the caps at the price it may be executed at: whole steps
\* above the minimum, within the notional and the gross cap together with what
\* the account already holds, within the margin; the book fills it inside the
\* limit, the loss at its stop, costs included, is within the trade's budget,
\* and its target is worth the costs.
TicketSound ==
  proposal # NoProposal =>
    LET t == proposal.ticket
        q == proposal.quote
        a == proposal.account
        notional == t.amount * AtLeast(q.price, t.limit)
        worst    == WorstPrice(q.levels, t.amount)
    IN  /\ t.amount % q.rule.step = 0 /\ t.amount >= q.rule.min_amount
        /\ t.amount * t.limit >= q.rule.min_notional
        /\ 100 * notional <= a.equity * Config.notional_fraction
        /\ 100 * (notional + a.committed) <= a.equity * Config.gross_fraction
        /\ notional <= a.available
        /\ worst > 0 /\ q.side * worst <= q.side * t.limit
        /\ notional * (t.exits.stop + 2 * Config.fee) <= 50 * a.trade_budget * Certain
        /\ t.exits.profit >= a.cost_multiple * (Apart(worst, q.price) + 2 * q.fee)

-----------------------------------------------------------------------------
(* The inductive invariant behind them *)

\* What an executor, its orders and its positions may be together: before its
\* entry is filled, what there is of the pair is of other requests.
Shape(p) ==
  /\ order[p] # "none" => exec[p].stage \in {"entering", "closing"}
  /\ order[p] = "resting" => exec[p].stage = "entering"
  /\ (\/ exec[p].stage \in {"queued", "waiting"}
      \/ exec[p].stage = "entering" /\ order[p] # "none")
       => \A u \in held : u.of = p => u.n # 0
  /\ exec[p].stage # "none" => \A x \in strays : x.of = p => x.n # 0

Shapes ==
  /\ \A p \in Profiles : Shape(p)
  /\ \A x \in strays : (x.n = 0 => x.resting) /\ (x.resting => x.entry)
  /\ \A x \in strays \cup held : x.n = 0 => x.since = Long

\* A snapshot shows what no executor answers for, and what may become that; or
\* it is from before that came to the venue, by a request nobody knew of.
Seen(since) == snapshot.orders # {} \/ since >= snapshot.at

Visible ==
  snapshot # NoSnapshot =>
    /\ 0 - SnapshotAge <= snapshot.at /\ snapshot.at <= now
    /\ \A x \in strays : x.resting => Seen(x.since)
    /\ \A u \in held : u.n # 0 \/ exec[u.of].stage \in {"none", "closing"} =>
         u \in snapshot.positions \/ Seen(u.since)

\* Proposals not in flight yet, or that a refusal may send back there.
Pending == {p \in Profiles : exec[p].stage \in {"queued", "waiting", "entering"}}
Unsent  == {p \in Profiles : exec[p].stage \in {"queued", "waiting"}}

\* The account is reserved until a proposal's order is in flight.
Reservations ==
  /\ \A p \in Unsent  : now <= exec[p].since + SpawnLag
  /\ \A p \in Pending : now < exec[p].since + PerpHold => exec[p].since + PerpHold <= reserved

\* An options tick that has not entered yet holds its own reservation, and took
\* it when nobody else's was left.
Admission ==
  tick.on /\ tick.reserved =>
    /\ tick.prior < MaxSpreads
    /\ \/ /\ OpenCount = tick.prior
          /\ reserved = tick.since + OptionsHold /\ now <= tick.since + TickMax
          /\ \A p \in Pending : exec[p].since + PerpHold <= now
       \/ OpenCount = tick.prior + 1

\* The owner has no proposal on its way into a tick.
Between == tick.on => exec[Owner].stage # "queued"

IInv == WithinLimits /\ Shapes /\ Visible /\ Reservations /\ Admission /\ Between

=============================================================================
