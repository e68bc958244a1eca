# Flyby: a TLA+ model of the trading bot

This directory holds TLA+ modules that model the stateful core of the bot in
`src/`, TLC configurations that check them on small instances, and theorems
about them that TLAPS proves for every instance. Paths below are relative to the
repository; `src/execution/...` is the Python package `src` of the repository.

- [1. The system](#1-the-system)
- [2. Modules](#2-modules)
- [3. Runs](#3-runs)
- [4. Fairness](#4-fairness)
- [5. What is proved](#5-what-is-proved)
- [6. Findings](#6-findings)
- [7. What is not modelled](#7-what-is-not-modelled)
- [8. Plan](#8-plan)

## 1. The system

Flyby trades perpetuals and two-legged option spreads on one subaccount of the
Derive exchange. It runs as a controller inside Hummingbot: one event loop, whose
coroutines interleave at every `await`; next to it, in other processes, an agent
(Condor) that may tighten its risk through a mailbox of files. Everything that
must survive a restart is a JSON or SQLite file.

```
 market data ──► signals ──► decide ──► controller ──► executors (perps) ──► venue
                                        │   ▲    │
                          risk checkpoint   │    └► OptionsBook ─► 2 × OptionsRFQ ─► venue
                          (latches, entries)│              │ SlotTransport (account view)
                                            │              └► account cache ◄─ stream
             agent ─► mailbox (RuntimeBridge)
```

| Component | State | Operations | Hard because of |
|---|---|---|---|
| RFQ slot, `execution/options_rfq.py` | journal file: phase, intent, plan, nonce, counters, trades | `tick`: admit, request, recover, accept, quote, execute, cancel, settle, halt | lost and late requests and answers, crash between journal and request, foreign activity |
| Options book, `execution/options_book.py` | two slots, a lock file | `tick`, `owns`, `blocked`, `SlotTransport.account` | the other slot's order executes between two reads of one account |
| RFQ transport, `execution/derive_rfq.py` | none of its own | send, cancel, rows, prepare, submit | timeouts: a cancelled call may have reached the venue |
| Account cache and perp orders, `execution/derive_hb.py` | snapshot, generation, lock on the connector | `update_balances`, `invalidate_account`, stream handlers, `place_order` | invalidation while a refresh is out |
| Risk checkpoint, `risk/competition.py` | checkpoint file, marker file, file lock | `observe`, `consume_entry`; `advance`, `risk_view` | crash between two files, midnight, several clients, a deleted file |
| Mailbox, `runtime/bridge.py`, `runtime/control.py` | four files, file lock | `publish`, `submit`, `consume`, `events`, `status` | partial publication, restart, repeated submissions, readers without the lock |
| Package reducer, `execution/paired.py` | package state, event journal | `transition`, `PairedModel.apply`, `checkpoint`, `restore` | late, unmatched, repeated and conflicting events; timeouts |
| Controller, `condor/flyby/controllers/...` | processed data, reservations, options, risk store | `update_processed_data`, `_service_options`, `create_actions_proposal`, `stop_actions_proposal` | two consumers of one signal, data read before an await and used after it |
| Spread planning, `options/spread_builder.py`, `delta.py`, `ranking.py` | none; the plan is in the controller's processed data, then in the journal | `build_spread`, `amount_limit`, `exposure`, `costed_plan` | rounding to lots and ticks, fixed fees, budgets that change between plan, admission and execution |
| Fill journal and recovery executor, `execution/fill_journal.py`, `recovery_candidate.py` | SQLite: intents, orders, fills, verdict | `intent`, `acknowledge`, `status`, `fill`, `reconcile`; `control_task`, `resume_recovery` | fills late, twice, after the end of their order; crashes between intent and request |
| Accounting, `accounting/` | fills and funding by identity | apply, export, replay | repetition after a restart |
| Sizing and portfolio guard, `risk/`, `collateral/` | none | pure functions | boundaries, rounding |
| Decision agent, `agents/condor_agent.py` | none | `decide` | halts and gates in the right order |
| Signals, volatility, Kelly | none | numerical functions | – |
| Paper options, data feeds, backtests, scripts | offline | – | – |

What makes each correct, in one sentence:

- *RFQ slot*: whatever is lost or cut off, no request is ever repeated, the slot
  holds one of the inventories its journal admits, and what the venue knows the
  slot learns in the end.
- *Book*: a slot never mistakes the other's legs for foreign ones; new risk
  starts one spread at a time; every open spread gets its turn to exit.
- *Account cache*: no snapshot outlives an event that the bot has learned of.
- *Risk checkpoint*: peak, latches and consumed entries are never forgotten, and
  no signal buys two entries.
- *Mailbox*: receipts persist; the controller only works with the newest lease,
  in time and of its own session; a damaged directory is never reinitialised.
- *Controller*: one allocation is made at a time, and its account shows what the
  others have allocated; nothing is added to an account that holds something nobody
  answers for; a proposal keeps its caps at the price it may pay.
- *Spread planning and money*: a spread never costs more than what its entry was
  granted, however the account drifts in between; a plan keeps the delta caps with
  one leg too; an exit nobody asked for has its profit or its stop.
- *Recovery executor*: a restart closes what the account holds, once, and a verdict
  of flat is true.
- *Package reducer*: an account is only called flat on a final matched report;
  faults keep exposure and reservation.

## 2. Modules

| Module | Models | State and actions |
|---|---|---|
| `OptionsRFQ` | one RFQ slot, the wire and the venue | `journal` is the file; `tick` is the running coroutine, cut at each request and save; `wire`/venue variables hold requests on their way, RFQs, executions and positions. One action per early return of `_tick`/`_settle`. |
| `SpreadOwner` | the abstract promise of a slot | owning nothing or the whole spread, entries and exits in turn. `OptionsRFQ!ImplementsOwner` states the refinement. |
| `OptionsBook` | the book of two slots on one account | a slot's life in five phases (`working` joins requesting, quoting and cancelling, which `inventories()` does not tell apart), its journal of the V3 or the older API; a tick's `todo` list; `seen`, the account view read before acting on it. |
| `AccountCache` | the account snapshot on the connector | a refresh is cut at the lock, the request, the mapping of rows and its return through `wait_for`. |
| `RiskCheckpoint` | the checkpoint protocol, with `advance`, `validate_state` and `risk_view` as operators | per client: lock, load, marker, replace, return; a crash at each cut; a file may be deleted. |
| `RuntimeBridge` | the mailbox | a publication is cut between its writes; submissions and consumptions make one write each. |
| `PackageReducer` | the pure reducer `transition` and `invariant` | one event per step. |
| `PairedModel` | event identities, journal, checkpoint and replay | EXTENDS `PackageReducer`, so an application of an event uses its `Transition`; `EventsOnce` says what duplicates and conflicts come to. |
| `EntryRules` | the rules of an entry, without state: `decide`, `risk_size`, `venue_size`, `depth_quote`, costs and exits | `Ticket` is the whole of a proposal from one quote. |
| `Controller` | the controllers of one account with their executors, the reservation, the snapshot and the options tick | a turn without an await is one action; the owner of the book is cut in `BeginTick`, what happens meanwhile, and `EndTick`. `order` is the request each executor knows of, `strays` those nobody knows of any more (`Fail`, `Restart`), which may still come to rest (`Surface`) or be executed (`Execute`); `held` are the venue's positions. |
| `FillJournal` | the SQLite evidence and `_reconcile` | one operator per transaction, on `log`, `fills`, `flatAt` and `last`. |
| `RecoveryExecutor` | `JournaledRecoveryCandidate` on that journal, with the PositionExecutor, connector and venue around it | EXTENDS `FillJournal`; `sent` and the trades are the venue's side, `required`, `status`, `opening`, `closing` the executor's. `Exit` is `control_task`'s close, `EarlyStop` the one `_terminal` leads to. |
| `SpreadRules` | `build_spread`, the delta caps and `costed_plan`, without state | `Spreads` is the set of best plans of a chain, `Costed` a plan with its fees. |
| `SpreadTrade` | the money of one spread from plan to closed trade | `data` is the controller's plan with the account it was made from, `plan` and `trade` the journal, `account` what a read of now would say, `closed` the trade closed last. |
| `*Proofs` | the theorems about the module in their name; `SnapshotProofs` about `RuntimeBridge` and `AccountCache`, `PairedModelProofs` about `PackageReducer` too, `ControllerProofs` about `EntryRules` too, `SpreadTradeProofs` about `SpreadRules` too | |
| `MC*` | values of the constants that a `.cfg` cannot write, symmetry | |

How they fit together. `SpreadTrade` and `OptionsRFQ` are two views of one
lifecycle: the first has its money and knows no lost message, the second has every
lost message and knows no money. `OptionsBook` puts two of the slots on one
account, `Controller` puts the book beside the perps, with an open spread as one
step, and reads a snapshot whose own protocol is `AccountCache`. `RiskCheckpoint`
gives the budgets that `SpreadTrade` and `Controller` take as inputs, and
`RuntimeBridge` the adjustments.

Common conventions. A message or a price is a model value or a small number.
Guards on time that depend on the venue (quote ages, staleness windows, holding
times) are nondeterministic choices unless a property is about them. A call that
only raises changes nothing and is left out as a step, or is the same step as a
failed read. Definitions that begin with "Mutant" in their comment are plausible
bugs; nothing uses them but the check that each property can fail.

Details worth knowing:

- `OptionsRFQ` follows the V3 transport; the `tx_status` branches of `_settle`
  for the older API are not taken. A journal of the older API is modelled
  (`LegacyJournal`), because the code refuses to service it.
- In `OptionsRFQ` requests are delivered late, dropped, or delivered with the
  answer lost; a crash may fall between any save and the request after it.
- `OptionsBook` reads the account and acts on it in different steps. The perp
  side of the background (`background_owned`) is a read that may fail. Spreads may
  be open from the start whose journal is of the older API: such a slot is not
  serviced, and no entry is begun beside it.
- `RiskCheckpoint` scales equity to integers with a budget per contract; the
  clock has days of a given length. Two clients share a contract and one has
  another, whose checkpoint it must refuse.
- `RuntimeBridge` stamps a call when it is made and takes the lock up to one
  clock unit later. Files are lost only while nobody writes.
- `Controller`: an executor has one order and fills it whole. `Fail` is the end of
  a request for which `_api_post` raises or times out: refused or lost on its way, or
  accepted by the venue, before or after, without anybody knowing (`strays`); the
  executor takes all of these for a failure and retries an entry or a close. A stray
  entry may come to rest and be filled at any later time, a stray close may still
  reduce. A fill is learned from the trade stream and the connector polls within 2 s
  of it, which is one step here (`Learn`): no snapshot from before outlives it. A
  refresh shows the account of one moment, orders and positions alike. (The note in
  `derive_perpetual_constants.py:106-112` has the venue's positions trail a fill by
  seconds; a snapshot taken in them is not modelled.) Only the channels of orders and
  trades are subscribed, so no message of a position invalidates a snapshot.
  Spreads of earlier days may be open at the start. Stale candles, books
  and streams are one choice (`NoData`); the hard stop is one latch. A restart
  forgets the executors, the reservation and the snapshot, not the venue. A tick of
  the options serves each slot once, so it admits at most one spread. What the code
  gets from outside is stated as assumptions: best prices first in a book
  (`QuotesAssumption`), a scale and a size within 100% (`AccountsAssumption`,
  `QuotesAssumption`), `competition_contract` (`ContractAssumption`), and that
  Hummingbot sends a proposal's order, and the calls of a tick end, within their
  reservations (`TimingAssumption`).
- `SpreadTrade`: an action may come at any moment and the account may be any of
  `Accounts` at each of them. That the slot takes the cheapest of several offers is
  a choice of one acceptable offer. Why an exit is forced (operator, decision, hard
  stop, exposure over its caps, age, expiry) is a choice, as is why an entry is
  given up. The code reads the size multiplier for the tick's budget and again
  inside `entry_budget`; the model takes both from the account of the step, and the
  bound that is checked does not depend on it. The journal's fields of an idle
  slot, which the next admission overwrites, are reset.
- `SpreadRules`: of plans the code's `score` holds for equal, it returns the first
  of the chain, the model any. Fees of the instances come out whole.
- `RecoveryExecutor`: the venue's closes are reduce-only and nobody else trades.
  An entry of this process (`opening`) that ends unfilled calls the inherited
  `early_stop()`, synchronously within the event (`Handling`); its close asks neither
  for the ceiling of attempts nor for a close that works already. The clock stands
  still within `place_order` and an event. An order may be reported failed whatever
  has become of it (`OnFail`), the venue having it by then; a request that arrives
  only after its failure was reported is left out, and would make a flat verdict of
  the time between wrong. Of the times the journal keeps
  with each order and fill only the latest (`latest`) is read, so only it is modelled.
  A snapshot with the very timestamp of an owned event is accepted by the code
  although it may have been taken before it; `FlatMeansFlat` and `RecoverySound`
  exempt that one case and say so.
- `AccountCache` keeps the generation counter as the set of refreshes whose
  generation is still the connector's, since it is only compared for equality.

## 3. Runs

| Run | Instance | Shows |
|---|---|---|
| `rfq_safety` | 4 requests, 4 nonces, 3 signals, a journal with room for 1 trade, every kind of execution row, one foreign fill or trade; 913,465 states | `NeverReplayed`: no request twice, journal before wire, one RFQ, whoever else trades. `InventoryOwned`: undisturbed, the venue's position is one the journal admits. `Accounted`, `EntriesConsumed`: executions, trades and consumed signals agree with the venue, with a full journal as well. `IInv`: the invariant the proofs use. |
| `rfq_live` | 2 requests, no foreign activity; 2,458 states | `RequestRecovered`, `QuotingEnds`, `ExecutionRecorded`: what the venue knows the slot learns. `ImplementsOwner`: the slot implements `SpreadOwner`. |
| `paired_model` | 4 event identities, journal of 5, packages of up to 2 lots; 286,855 states | `Invariant` (the code's own), `FlatOnlyWhenClosed`, `FaultsRetained` of the reducer; `RestoreFaithful` of the checkpoint; `EventsOnce`: an event delivered again, after a conflict or with a full journal too, counts once |
| `risk_checkpoint` | 3 clients, 5 equities, 2 days; 324,047 states | `IInv`, `NeverLoosened`, `EntriesSpaced`, `BudgetWithinBuffer`, `NoEntryAfterStop` |
| `options_book` | 2 slots, 4 instruments, 3 plans (one overlapping both others), 3 entries, up to 2 spreads of earlier days in either API's journal, errors, one foreign trade; 58,673 states | `Sound` (types, disjoint legs, no slot blamed for the other, and undisturbed whole spreads only), `BookOwns`, `EntryAlone`, and with fairness `ServicedUnlessHalted` |
| `book_halted` | the same, nobody else trading | violates `OpenServiced`, see section 6 |
| `account_cache` | 2 callers, 1 change, 1 order; 22,849 states | `CacheIInv`, `AnswerFresh`, `Restored` |
| `runtime_bridge` | 3 ids, 2 receipts, 2 events, 2 sessions; 487,029 states | `ReceiptsPersist`, `SequenceFresh`, `LeaseSound`, `NeverReinitialised` |
| `controller` | 2 profiles for 1 perp, 2 spreads, of which up to 2 open before, 3 clock units, one fault (a restart, a lost answer or a switch thrown), 2 valuations, 4 quotes, 3 sets of features; 659,255 states | `WithinLimits`: the limits hold. `OneAtATime`: the reservation keeps allocations apart, across the await and retries. `OrphansBlock`: none beside something no executor answers for, a lost request's order included. `TicketSound`: a proposal against the caps at its limit price. |
| `controller_two` | 2 perps, no fault, 4 clock units | violates `AllocationsSeen`, see section 6 |
| `recovery` | entry of 2 lots, minimum and step 1, no retry, one fault (a restart, or a false failure), 2 clock units; 1,318,491 states | `AttemptsBounded`: no restart renews the retries, and `early_stop` adds at most two closes to them. `FlatMeansFlat`, `RecoverySound`: a verdict is true of the venue, a recovery closes what is held. |
| `spread_trade` | 4 accounts, 2 chains with 7 quotes (calls and puts), 8 offers, 3 fees; 151,860 states | `LossWithinFunds`, `PlanSound`, `ExitsJustified` |

Why the bounds are enough. Four requests are two entries with their exits: a slot
meets its own past (nonces, counters) and closes a second trade with a journal
that the first has filled; fewer never reach that save. Three plans over four
instruments contain both the disjoint and the overlapping pair, and a third entry
replaces a closed spread while the other is open. Two refreshes, a change
and an order put an invalidation into each gap of a refresh. Two days, a restriction
budget and a hard-stop budget, and equities on both sides of each latch reach
every mode and midnight in every mode; three clients let two of one contract race
and one of another interfere. Two receipts and three requests fill the mailbox,
two events and three publications move the tail past a follower, two sessions
make a lease old. In `controller` both reservations (2) run out within the clock
while a snapshot as old as they can still be read, a failed entry has the time for
another request, and two profiles compete for one perp, as more profiles than slots
would for two. `MaxFaults` bounds restarts, lost answers and switches together: one in a behaviour is what TLC gets through, and any
of them may come at any step; two of different kinds in a row are left to the
theorems of `ControllerProofs`, which hold for every `MaxFaults` and both values of
`MaxPerps`. In `recovery` the first close exhausts the retries and
`early_stop` can still place two; the entry is filled at once or in two parts, a
close recorded before the entry's fills makes the amount to close negative, and a
snapshot can be one unit old. A recovery after a close that was filled in part, and
several faults in a row, are left to the theorems, which hold for every
`MaxRetries` and `MaxFaults`.
In `spread_trade` the accounts differ in what a plan can be wrong about: less
budget, less equity and risk scale, half the size, little money beside another
position; the fees are none, a usual one and one above every bound; the offers reach the
profit, the stop and neither; entries that were admitted and no longer fit, plans
whose fees take lots away, and losses within 40 cents of the funds do occur.

`CHECK_DEADLOCK FALSE` appears where the system may rightly stop: a halted slot
waits for its operator, a clock or a number of entries reaches its bound, a
damaged mailbox waits for review. Symmetry is used on event identities, on the
two clients of one contract, and on requests and adjustments, in runs that check
no liveness.

## 4. Fairness

- `rfq_live`: the loop ticks again and again and reads are answered infinitely
  often, so every step of a tick that keeps being possible is taken (strong
  fairness of the steps behind a read). An RFQ runs out at its `valid_until`, so
  its expiry is weakly fair. Nothing is assumed of requests: the slot must learn
  the outcome however many of its own requests are lost.
- `options_book`, `book_halted`: the loop ticks (weak fairness of `Begin`), a crash does not cut
  every tick, a read is answered infinitely often, `next_quote_at` passes.
- `account_cache`: the poll asks again and again, coroutines are scheduled,
  a request that is made again and again is answered before its timeout some
  time, and a request that is not answered fails at its timeout. Messages and
  orders are bounded, as an endless stream of position messages would keep
  invalidating whatever is under way.
- `controller`, `recovery` and `spread_trade` assume none and state no liveness: the
  executors that deliver an exit are Hummingbot's.

## 5. What is proved

All theorems are for every value of the constants allowed by the `ASSUME` of the
module, and rest on nothing else.

| Theorem | Says | Argument |
|---|---|---|
| `OptionsRFQProofs!Inductive`, `TypeCorrect`, `NeverDisowned`, `RequestsSafe` | `Spec => []IInv`, `[]TypeOK`, inventory ownership without foreign activity, no request repeated, journal ahead of the wire, one RFQ | `IInv` ties the phase of the journal to what can be on the wire and at the venue: which label, RFQ and nonce may exist, and which of the two inventories each phase admits. One lemma per action. |
| `OptionsRFQProofs!LedgerInductive`, `AccountsKept`, `SignalsBuyOnce` | what the slot and the owner say they own is what was executed for it, whoever else trades on the account; a signal buys at most one spread | `Ledgered`, on top of `IInv`: what the venue has executed for the slot in each phase, counted for every execution on its way into the journal. Foreign trades are in none of it, so nothing is assumed of them. |
| `OptionsRFQProofs!OwnerImplemented` | without foreign activity every step of the slot, the wire and the venue is a step of `SpreadOwner` or a stutter | the mapping reads the wire; `IInv` says that an execution on its way is that of the phase |
| `PairedModelProofs!InvariantHolds`, `NeverPretendedFlat`, `FaultsKept`, `ReservationKept`, `TypeCorrect` | of the reducer: typing, the code's `invariant()`, when an account may be called flat, what a fault keeps, and that a reservation is only given back with its package (`ReservationHeld`, proved but not among the runs) | `invariant()` alone is not inductive: a flat package must also have no target. |
| `PairedModelProofs!CountedOnce` | of the model around the reducer: no two entries of the journal are the event of one identity, and the package is what the reducer makes of the events up to the first conflict, and stopped there | `Counted`: the course of the package over the journal is known entry by entry, a repeated event adds no entry, one that conflicts adds one that stops it, and what follows leaves it stopped |
| `PairedModelProofs!RestoreSound` | what a restart restores from the journal is what was there | an induction over the journal that the model's own steps carry: an append applies to the model the event it adds to the journal, so that replaying it stays true (`Replays`), and so does every prefix a checkpoint may have kept (`Restorable`) |
| `RiskCheckpointProofs!Inductive`, `TypeCorrect`, `LoadableAlways`, `LatchesKept`, `EntriesOnce`, `StopIsFinal` | every checkpoint left is valid; nobody is told of a looser mode or lower peak than anybody before; entries are spaced; none after a hard stop | `IInv` = types, one holder of the lock, what the files are at each cut (`FilesKept`), what a client in a call has in hand (`InCall`, `GrantInHand`), and that the history variables never run ahead of the file (`Tight`). |
| `RiskCheckpointProofs!BudgetBounded` | in each mode, no budget that is answered exceeds a tenth of what the drawdown buffer of its account leaves; a restricted account's is a quarter of 0.5% of its equity at most, a stopped one's nothing | `Priced`: a call that returns no restriction was computed above it, where 0.5% of the equity is less than a tenth of what is left |
| `SnapshotProofs!CacheInductive`, `AnswersFresh` | no snapshot older than the last invalidation, no answer older than its question | a refresh that may still commit carries an answer from after the last invalidation (`Tight`); the cache is empty while the lock is held. |
| `SnapshotProofs!Receipts`, `Fresh`, `Leases`, `Damage` | receipts persist within the bounds of the files; publications are numbered without repetition or hole; a lease that is consumed is the newest, in time and of this session; a damaged directory stays as it is | `IInv` has for each cut of a publication what it may find (`Publishing`: a bootstrap starts from nothing and nothing was ever submitted), that the lease is the last request queued and has a receipt (`Lease`), and that any two numbers of the tail are as far apart as their places (`Counted`). `NeverReinitialised` needs of it only that the writes of a publication do not begin. |
| `OptionsBookProofs!BookSound`, `Owns`, `OneEntry` | disjoint legs; no slot stopped by the other; undisturbed, the account holds nothing but each spread whole or not at all (`WholeSpreads`); the journals explain the account during an execution; one entry at a time | `IInv` says which positions the orders have made of nothing (`Ours`, `Rightful`), that the account holds them and at most a foreign unit more (`Holding`), that what a slot has read is its own legs (`SeenRight`), and that the judgement at the start of a tick holds until the new slot is served, because it comes first and the others do not move (`Lined`, `Chosen`). |
| `SpreadTradeProofs!LossBounded`, `ExitsHaveReasons`, `TypesHold` | a closed spread has lost no more than its entry was granted; an unforced exit had its profit or its stop | `IInv` adds to the bound what carries it from step to step: the fee bound of the journal is half the plan's fees in both directions, so that entry and exit together stay within what `Fits` has left free; an exit may cost nothing (`max_cost` 0); and what is not yet closed stays within the funds in each phase (`Bounded`). Nothing is assumed of the plan: an amount or fee `Valid` lets through is enough. |
| `RecoveryExecutorProofs!Inductive`, `FlatKept`, `AttemptsKept`, `RecoveryKept` | however often it is restarted and whatever gets lost: a verdict of flat is true of the account, `control_task` and recoveries stay within their attempts and `early_stop` adds two closes at most, a restart closes what the account holds and only that | `IInv`: which statuses go with which orders (`Statuses`, `Order`), that an order on the wire belongs to an open attempt (`WireOpen`), what the venue has and the evidence does not (`Unsettled`), that the last snapshot is explained by the trades up to it (`SnapshotExplains`), that nothing trades after a verdict (`VerdictHolds`), and that each close of `early_stop` is one of the ends the entry can report, of which its failed request and its end at the venue are all (`StopsAreEnds`). Positions are sums over trades, so the proof begins with a theory of sums over finite sets. |
| `ControllerProofs!Inductive`, `LimitsKept`, `NothingBesideOrphans` | for any number of profiles and for one or two perps, whatever arrives late, whichever answers are lost and however often it restarts: no more perps and spreads than the limits, as far as the executors know of the requests; nothing is proposed or entered beside an order or position no executor answers for, except a proposal within a snapshot's age of the moment when the order of a lost request came to the venue | `WithinLimits` counts what is live, and a decision counts what a snapshot showed some time ago. `IInv` closes the gap: a snapshot shows all that no executor answers for, or is older than its arrival (`Visible`), which goes with which shape an executor, its order and its positions have (`Shapes`); a proposal keeps the account reserved until its order is in flight (`Reservations`); and an options tick that has not entered yet took its reservation when nobody else's was left (`Admission`, `Between`). An entry of a spread needs no exemption, as it is admitted on an account read for it. |
| `ControllerProofs!AllocatedAlone` | nobody allocates while another proposal is still to become an order or is in flight, and no perp is proposed beside a spread on its way in or out | from `IInv` (`Reservations`, `Admission`) |
| `ControllerProofs!TicketsKept` | a proposal is whole steps above the minimum, within the caps and the margin at its limit, filled by its book inside that limit, with a bounded loss and a target worth its costs | no state is involved but the proposal's: each operator of `EntryRules` gets a lemma (rounding to a step or tick, the least of several bounds, the worst price of a deeper fill) and `Ticket` follows |
| `SpreadTradeProofs!PlansKept` | the plan the controller holds fits its budget with the fees of both ways, pays two and a half times its loss, and keeps the caps with both legs or either one filled | what `Built` returns and what `Costed` keeps of it when fees take lots away, then `FillsWithinCaps` for the amount. |
| `SpreadTradeProofs!FillsWithinCaps` | the amount `AmountLimit` allows keeps both caps when both legs, only the bought or only the sold one is filled, for every policy and step | the room is divided by the worst delta of a lot, and rounding down keeps the product within it |

Every invariant and every action property that a passing run checks is stated by a
theorem. Only model-checked: the liveness properties (`RequestRecovered`,
`QuotingEnds`, `ExecutionRecorded`, `ServicedUnlessHalted`, `Restored`), since they
need `ENABLED`, which the prover does not reach.

On induction over data: the library states it with an operator as a parameter,
which none of the provers here instantiates. Two ways around that are used.
`RestoreSound` lets the steps of the model carry the induction, one entry of the
journal at a time. `RecoveryExecutorProofs` does induction over *sets*: the set of
the counterexamples in `Nat` has a least element (`WFMin`), and everything about
sums over the trades of an account follows from that (`Induction`, `SumAdds`,
`SumTakes`, `SumDifference`). The lemmas
`DepthDefined` of `ControllerProofs` and `SpreadTradeProofs` do the same for the
recursive function that adds up a book, whose defining equation has to be shown to
have a solution first.

## 6. Findings

- `book_halted`: a comment in `OptionsBook.tick` (`options_book.py:157-158`) says
  existing slots still receive protective exit service. When a slot is halted,
  `inventories()` raises for it, so `SlotTransport.account` raises for the *other*
  slot, whose tick then ends before it looks at its own spread. An open spread
  next to a halted one gets neither a stop loss nor a timed exit until the
  operator has reconciled.
- `controller_two`: a comment of the controller (`derive_cesf_long_vol.py:144-145`)
  says that the reservation prevents two profiles "from allocating before its
  in-flight orders are visible". With two perps, which both active profiles ship
  with (`conf_flyby_eth_active.yml:30`, `conf_flyby_sol_active.yml:26`), TLC finds
  `AllocationsSeen` violated without any fault: `place_order` has invalidated the
  snapshot, a refresh takes the next one before the order arrives, the entry
  rests and is filled. 30 s after the proposal its reservation is over, while that
  snapshot, taken later, is still readable; the fill is learned and the order leaves
  `in_flight_orders`, the connector's own poll comes 2 s later. In between the second
  profile is sized as if the first had allocated nothing. The limits of positions
  hold all the same (`WithinLimits`), as active executors are counted; the gross cap
  is what the second proposal does not know to be used. With one perp that count
  alone keeps the second profile out.

Three observations have no run of their own.

- *Lost answers* (`derive_hb.py:161-166`). `MAINNET_SETUP.md:60` gives the account
  limits of two perps. An entry whose answer was lost is no executor's; for 30 s from its
  arrival a snapshot may miss it, and another profile, or a retry of the same, is
  proposed beside it. `WithinLimits` and `OrphansBlock` exempt exactly that and say
  so. Once a snapshot shows it, it blocks every entry.
- *Close attempts* (`recovery_candidate.py:119-121`).
  `OPTIMIZATION_CANDIDATE_REPORT.md:13` speaks of a lifetime ceiling. The close of
  `early_stop` passes it, once when the entry's request fails with a part already
  bought, and once more when the entry, alive all the same, ends at the venue.
  `AttemptsBounded` has the ceiling with these two.
- *Repeated submissions* (`bridge.py:162-166`). The mailbox calls itself idempotent
  (`bridge.py:1`), and `submit` is, for an identical request. But the only tool that
  submits stamps every call with the time (`mcp_server.py:40-43`), and the stamp is
  part of the digest (`Stamped`), so a repeated call is refused as a conflict.
  Nothing is queued twice; the agent has to ask for the status instead.

## 7. What is not modelled

`PROJECT.json` lists every component with its status. Left out for good:
numerical research (signals, volatility surface, Kelly, regimes, forecasts, pricing),
HTTP feeds, backtests, deployment scripts and the repository's own solver checks,
vendored code. These are most of the repository's lines: offline studies in
floating point, with no state beside a running bot. The event ledger, the
portfolio guard and the collateral checks are used by those studies only.

Of what is near the bot: the paper lifecycle (`options/paper.py`) is sequential; it
takes its risk latches with it only as far as its inputs can replay them. The
transport signs and paginates. The file protocol of the RFQ journal between two
processes (lock, load, temporary file, replace) is taken as atomic.

Left out of modelled components: Greeks beyond the delta; `rank_spreads` and
`spread_exit`, which the live path does not trade on; `exit_signal_reason`; the
connector's contract; the ranges of an adjustment; `status()` of the mailbox and of
the book; the staleness comparison of `AwaitInventory` (a choice); the halt for
positions of an idle slot behind the book, which `SlotTransport` makes
unreachable; numbers that are not finite, which the rules refuse. That exits are
delivered in the end is not checked for `Controller`: its liveness graph is beyond
TLC on these bounds. What is guarded by a single condition, such as a halted or
legacy journal being left alone, is in the models and in no property.

One sentence of `strategy.md` (l. 23), that entries require a flat account with no
working orders, is older than the code: a perp may be proposed beside an open
spread, as `OPTIONS_EXECUTION.md` (l. 22) allows.

## 8. Plan

Done, in the order of their importance to the account: `OptionsRFQ` with
`SpreadOwner`, `PackageReducer` and `PairedModel`, `RiskCheckpoint`, `OptionsBook`,
`AccountCache`, `RuntimeBridge`, `Controller` with `EntryRules`, `FillJournal` with
`RecoveryExecutor`, `SpreadTrade` with `SpreadRules`.

What would come next:

1. A snapshot whose positions trail its orders, as the note of the connector's
   constants allows: how much of `Visible` is left, and which limits with it.
2. `JournalFile`: lock, load, temporary file, replace, crash, two processes.
3. The paper lifecycle with its unmatched legs, over `SpreadRules`.
4. A liveness run of `Controller` on smaller bounds: exits are delivered.
