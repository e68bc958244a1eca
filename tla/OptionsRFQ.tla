----------------------------- MODULE OptionsRFQ -----------------------------
(***************************************************************************)
(* The durable atomic-spread lifecycle of src/execution/options_rfq.py:    *)
(* one OptionsRFQ slot, its journal file, and the venue it trades on.      *)
(*                                                                         *)
(* A tick is cut at every await.  pc names the await at which the tick is  *)
(* suspended ("ready" between two ticks).  What the code does after an     *)
(* answer arrives, up to the next await, touches only the journal and the  *)
(* tick's locals, so an action reads the venue and finishes that stretch   *)
(* at once.  A write is two actions: the journal is saved first, and the   *)
(* request leaves in a step of its own, so a crash can fall in between.    *)
(*                                                                         *)
(* The venue is external.  A request may be handled late, even after the   *)
(* bot stopped waiting for it, or never; an answer may be lost.            *)
(***************************************************************************)
EXTENDS Naturals, FiniteSets

CONSTANTS
  MaxRequests,  \* bound: RFQs a behaviour may create
  MaxNonce,     \* bound: the largest execution nonce
  MaxConsumed,  \* bound: entry signals a behaviour may consume
  Capacity,     \* closed trades the journal file has room for
  Foreign,      \* may somebody else change the subaccount?
  Rows          \* the kinds of execution row the venue may report

ASSUME BoundsAssumption ==
  /\ MaxRequests \in Nat /\ MaxNonce \in Nat
  /\ MaxConsumed \in Nat /\ Capacity \in Nat

ASSUME VenueAssumption ==
  /\ Foreign \in BOOLEAN
  /\ Rows \subseteq {"clean", "failed", "mismatched", "overcharged"}

VARIABLES
  journal,   \* the fsynced journal; a tick reloads it under the file lock
  pc,        \* the await at which the running tick is suspended
  seen,      \* the positions read at the start of the running tick
  consumed,  \* entry signals consumed through the consume_entry callback
  rfqs,      \* venue: label -> the RFQ created with it
  held,      \* venue: the slot's option positions
  tampered,  \* venue: somebody else has changed the subaccount
  wire,      \* every write request that ever left the bot
  handled    \* those the venue has processed, refused or lost

botVars   == <<journal, pc, seen, consumed>>
venueVars == <<rfqs, held, tampered, handled>>
vars      == <<journal, pc, seen, consumed, rfqs, held, tampered, wire, handled>>

-----------------------------------------------------------------------------
(* Types *)

Labels   == 1 .. MaxRequests
Holdings == {"flat", "pair", "other"}
Intents  == {"entry", "exit"}
Phases   == {"idle", "requesting", "quoting_entry", "quoting_exit",
             "settling", "cancelling", "open", "halted"}

Journal ==
  [phase : Phases, intent : Intents, label : 0 .. MaxRequests,
   nonce : 0 .. MaxNonce, submitted : Nat,
   acked : BOOLEAN, acks : Nat, force : BOOLEAN, trades : Nat, v3 : BOOLEAN]

RFQ ==
  [status : {"none", "open", "cancelled", "filled"}, intent : Intents,
   nonce : 0 .. MaxNonce,
   row : {"none", "clean", "failed", "mismatched", "overcharged"}]

Message ==
  [kind : {"send", "cancel", "execute"}, label : Labels,
   intent : Intents, nonce : 0 .. MaxNonce]

Request(kind) ==
  [kind |-> kind, label |-> journal.label, intent |-> journal.intent,
   nonce |-> IF kind = "execute" THEN journal.nonce ELSE 0]

Awaits == {"account", "sent", "label", "status", "offers", "refresh",
           "submitted", "executions"}
Pcs    == Awaits \cup {"ready", "request", "send", "cancel", "submit"}

FreshJournal ==
  [phase |-> "idle", intent |-> "entry", label |-> 0, nonce |-> 0,
   submitted |-> 0, acked |-> FALSE, acks |-> 0, force |-> FALSE,
   trades |-> 0, v3 |-> FALSE]

LegacyJournal == [FreshJournal EXCEPT !.phase = "open"]

NoRFQ == [status |-> "none", intent |-> "entry", nonce |-> 0, row |-> "none"]

-----------------------------------------------------------------------------
(* What the journal says the slot may hold *)

Quoting(intent) == IF intent = "entry" THEN "quoting_entry" ELSE "quoting_exit"

\* The position a spread must have before the RFQ in hand is executed.
Before(intent) == IF intent = "entry" THEN "flat" ELSE "pair"

\* The position it must have once the RFQ in hand has settled.
Target(intent) == IF intent = "entry" THEN "pair" ELSE "flat"

\* The only inventory a tick outside "idle" and "settling" accepts.
Expected(j) ==
  IF j.intent = "exit" \/ j.phase = "open" THEN "pair" ELSE "flat"

\* The inventories the book accepts from another slot in this state.
Inventories(j) ==
  CASE j.phase = "idle"     -> {"flat"}
    [] j.phase = "halted"   -> Holdings
    [] j.phase = "settling" -> {"flat", "pair"}
    [] OTHER                -> {Expected(j)}

InFlight == wire \ handled
Filled   == {l \in Labels : rfqs[l].nonce # 0}

-----------------------------------------------------------------------------
(* Steps of the bot *)

Suspend(at) == pc' = at

\* The tick ends; its snapshot of the account is dropped.
Return == pc' = "ready" /\ seen' = "flat"

Halt ==
  /\ journal' = [journal EXCEPT !.phase = "halted"]
  /\ Return

Acknowledged(j) ==
  IF j.acked THEN j ELSE [j EXCEPT !.acked = TRUE, !.acks = @ + 1]

\* A tick takes the file lock, reloads the journal and asks for the account.
\* A halted slot, or a busy one journalled for the legacy API, is left alone.
Tick ==
  /\ pc = "ready"
  /\ journal.phase # "halted"
  /\ journal.phase = "idle" \/ journal.v3
  /\ Suspend("account")
  /\ UNCHANGED <<journal, seen, consumed, wire, venueVars>>

\* An idle slot found options it does not own.
HaltUnowned ==
  /\ pc = "account" /\ journal.phase = "idle" /\ held # "flat"
  /\ Halt
  /\ UNCHANGED <<consumed, wire, venueVars>>

\* An idle slot has no plan, no permission, or a plan that fails a cap.
Decline ==
  /\ pc = "account" /\ journal.phase = "idle" /\ held = "flat"
  /\ Return
  /\ UNCHANGED <<journal, consumed, wire, venueVars>>

\* Mutant: an entry goes ahead although its signal was consumed before.
AdmitAgain ==
  /\ pc = "account" /\ journal.phase = "idle" /\ held = "flat"
  /\ consumed' \in {consumed, consumed + 1} /\ consumed' <= MaxConsumed
  /\ Suspend("request")
  /\ UNCHANGED <<journal, seen, wire, venueVars>>

\* The plan fits the budget and its signal is consumed, durably, by
\* consume_entry before anything is journalled for it.
Admit ==
  /\ pc = "account" /\ journal.phase = "idle" /\ held = "flat"
  /\ consumed < MaxConsumed
  /\ consumed' = consumed + 1
  /\ Suspend("request")
  /\ UNCHANGED <<journal, seen, wire, venueVars>>

\* Before an execution only the exactly owned inventory is acceptable.
HaltUnmatched ==
  /\ pc = "account" /\ journal.phase \notin {"idle", "settling"}
  /\ held # Expected(journal)
  /\ Halt
  /\ UNCHANGED <<consumed, wire, venueVars>>

\* An open spread asks for an exit, or is still waiting for next_quote_at.
ServiceOpen ==
  /\ pc = "account" /\ journal.phase = "open" /\ held = Expected(journal)
  /\ Suspend("request") \/ Suspend("ready")
  /\ UNCHANGED <<journal, seen, consumed, wire, venueVars>>

\* The other phases read the venue before they decide anything.
Recover ==
  /\ pc = "account"
  /\ \/ journal.phase = "settling" /\ Suspend("executions")
     \/ /\ held = Expected(journal)
        /\ \/ journal.phase = "requesting" /\ Suspend("label")
           \/ /\ journal.phase \in {"quoting_entry", "quoting_exit", "cancelling"}
              /\ Suspend("status")
  /\ seen' = held
  /\ UNCHANGED <<journal, consumed, wire, venueVars>>

\* The intent to ask for quotes is saved under a fresh label.  (The save of
\* an entry's plan just before leaves the phase idle: a crash between the
\* two is a crash before this step.)
Requested(force) ==
  [journal EXCEPT
     !.phase  = "requesting",
     !.intent = IF journal.phase = "idle" THEN "entry" ELSE "exit",
     !.label  = @ + 1,
     !.force  = force,
     !.v3     = IF journal.phase = "idle" THEN TRUE ELSE @]

SaveRequest ==
  /\ pc = "request" /\ journal.label < MaxRequests
  /\ \E force \in IF journal.phase = "idle" THEN {FALSE} ELSE BOOLEAN :
       journal' = Requested(force)
  /\ Suspend("send")
  /\ UNCHANGED <<seen, consumed, wire, venueVars>>

Send ==
  /\ pc = "send"
  /\ wire' = wire \cup {Request("send")}
  /\ Suspend("sent")
  /\ UNCHANGED <<journal, seen, consumed, venueVars>>

\* Mutant: only the answer to the request makes the RFQ known.
AcceptAnswerOnly ==
  /\ pc = "sent"
  /\ rfqs[journal.label].status # "none"
  /\ journal' = [journal EXCEPT !.phase = Quoting(journal.intent)]
  /\ Return
  /\ UNCHANGED <<consumed, wire, venueVars>>

\* The RFQ is known: from the answer to the request, or, when that was
\* lost, from the one RFQ of the account that carries the label.
Accept ==
  /\ pc \in {"sent", "label"}
  /\ rfqs[journal.label].status # "none"
  /\ journal' = [journal EXCEPT !.phase = Quoting(journal.intent)]
  /\ Return
  /\ UNCHANGED <<consumed, wire, venueVars>>

\* Absence is not proof that the write failed: nothing is sent again.
NotListed ==
  /\ pc = "label" /\ rfqs[journal.label].status = "none"
  /\ Return
  /\ UNCHANGED <<journal, consumed, wire, venueVars>>

\* The RFQ was filled although this slot never recorded an execution.
HaltFilled ==
  /\ pc = "status" /\ rfqs[journal.label].status = "filled"
  /\ Halt
  /\ UNCHANGED <<consumed, wire, venueVars>>

\* Mutant: a cancelled RFQ is only noticed before the cancel was journalled.
NoExecutionUncancelled ==
  /\ pc = "status" /\ rfqs[journal.label].status = "cancelled"
  /\ journal.phase # "cancelling"
  /\ journal' = [journal EXCEPT
                   !.phase = IF journal.intent = "exit" THEN "open" ELSE "idle"]
  /\ Return
  /\ UNCHANGED <<consumed, wire, venueVars>>

\* The RFQ is cancelled or expired, so nothing was executed.
NoExecution ==
  /\ pc = "status" /\ rfqs[journal.label].status = "cancelled"
  /\ journal' = [journal EXCEPT
                   !.phase = IF journal.intent = "exit" THEN "open" ELSE "idle"]
  /\ Return
  /\ UNCHANGED <<consumed, wire, venueVars>>

\* A cancel whose answer is uncertain is only watched.
AwaitCancelled ==
  /\ pc = "status" /\ rfqs[journal.label].status = "open"
  /\ journal.phase = "cancelling"
  /\ Return
  /\ UNCHANGED <<journal, consumed, wire, venueVars>>

SaveCancel ==
  /\ journal' = [journal EXCEPT !.phase = "cancelling"]
  /\ Suspend("cancel")

\* The entry is no longer allowed, or its plan has run out.
WithdrawEntry ==
  /\ pc = "status" /\ rfqs[journal.label].status = "open"
  /\ journal.phase = "quoting_entry"
  /\ SaveCancel
  /\ UNCHANGED <<seen, consumed, wire, venueVars>>

\* Offers are read; a newly forced exit is made durable first.
ReadOffers ==
  /\ pc = "status" /\ rfqs[journal.label].status = "open"
  /\ journal.phase \in {"quoting_entry", "quoting_exit"}
  /\ \E force \in BOOLEAN :
       /\ force => journal.intent = "exit"
       /\ journal' = [journal EXCEPT !.force = IF force THEN TRUE ELSE @]
  /\ Suspend("offers")
  /\ UNCHANGED <<seen, consumed, wire, venueVars>>

\* No acceptable offer: wait for the next tick, or give up after 20 s.
NoDeal ==
  /\ pc = "offers"
  /\ \/ Return /\ UNCHANGED journal
     \/ SaveCancel /\ UNCHANGED seen
  /\ UNCHANGED <<consumed, wire, venueVars>>

\* The best offer is acceptable and its execution is signed in memory.
Prepare ==
  /\ pc = "offers"
  /\ Suspend("refresh")
  /\ UNCHANGED <<journal, seen, consumed, wire, venueVars>>

\* The offer, the RFQ, the plan or the budget ran out while preparing.
Overtaken ==
  /\ pc = "refresh"
  /\ SaveCancel
  /\ UNCHANGED <<seen, consumed, wire, venueVars>>

\* The refreshed account has other positions, or too little available.
HaltChanged ==
  /\ pc = "refresh"
  /\ Halt
  /\ UNCHANGED <<consumed, wire, venueVars>>

\* Mutant: the generator's clock is trusted, although a restart may set it back.
ClockNonce(clock) == IF clock > 0 THEN clock ELSE journal.nonce + 1

\* The nonce is above every nonce the journal has used, whatever the
\* generator's clock says.
NextNonce(clock) == IF clock > journal.nonce THEN clock ELSE journal.nonce + 1

\* The execution is journalled, with its nonce, before it is submitted.
SaveExecution ==
  /\ pc = "refresh" /\ held = Expected(journal)
  /\ \E clock \in 0 .. MaxNonce :
       /\ NextNonce(clock) <= MaxNonce
       /\ journal' = [journal EXCEPT
            !.phase = "settling", !.nonce = NextNonce(clock),
            !.submitted = @ + 1, !.acked = FALSE]
  /\ Suspend("submit")
  /\ UNCHANGED <<seen, consumed, wire, venueVars>>

Submit ==
  /\ pc = "submit"
  /\ wire' = wire \cup {Request("execute")}
  /\ Suspend("submitted")
  /\ UNCHANGED <<journal, seen, consumed, venueVars>>

\* The answer only acknowledges: it opens and closes nothing.
Acknowledge ==
  /\ pc = "submitted"
  /\ rfqs[journal.label].nonce = journal.nonce
  /\ journal' = Acknowledged(journal)
  /\ Return
  /\ UNCHANGED <<consumed, wire, venueVars>>

Cancel ==
  /\ pc = "cancel"
  /\ wire' = wire \cup {Request("cancel")}
  /\ Return
  /\ UNCHANGED <<journal, consumed, venueVars>>

\* Mutant: a missing row is taken for a refused execution, and retried.
NoRowRetries ==
  /\ pc = "executions"
  /\ rfqs[journal.label].nonce # journal.nonce
  /\ journal' = [journal EXCEPT !.phase = Quoting(journal.intent)]
  /\ Return
  /\ UNCHANGED <<consumed, wire, venueVars>>

\* _settle found no execution row of this nonce: never replay.
NoRow ==
  /\ pc = "executions"
  /\ rfqs[journal.label].nonce # journal.nonce
  /\ Return
  /\ UNCHANGED <<journal, consumed, wire, venueVars>>

\* Mutant: only an execution the answer acknowledged is looked up.
RowIsAcknowledged(kinds) ==
  /\ journal.acked
  /\ rfqs[journal.label].nonce = journal.nonce
  /\ rfqs[journal.label].row \in kinds

RowIs(kinds) ==
  /\ rfqs[journal.label].nonce = journal.nonce
  /\ rfqs[journal.label].row \in kinds

HaltMismatched ==
  /\ pc = "executions" /\ RowIs({"mismatched"})
  /\ Halt
  /\ UNCHANGED <<consumed, wire, venueVars>>

\* The row is ours: it is acknowledged first, and then the batch failed, the
\* inventory is neither the old nor the new one, or the fee is too high.
HaltSettlement ==
  /\ pc = "executions" /\ RowIs({"clean", "failed", "overcharged"})
  /\ \/ RowIs({"failed"})
     \/ seen \notin {Before(journal.intent), Target(journal.intent)}
     \/ RowIs({"overcharged"}) /\ seen = Target(journal.intent)
  /\ journal' = [Acknowledged(journal) EXCEPT !.phase = "halted"]
  /\ Return
  /\ UNCHANGED <<consumed, wire, venueVars>>

\* The account is older than the execution, or the row is not final yet.
\* (The two timestamps come from different clocks, so this may also happen
\* to a snapshot that already shows the new inventory.)
AwaitInventory ==
  /\ pc = "executions" /\ RowIs({"clean", "overcharged"})
  /\ seen \in {Before(journal.intent), Target(journal.intent)}
  /\ journal' = Acknowledged(journal)
  /\ Return
  /\ UNCHANGED <<consumed, wire, venueVars>>

\* Mutant: the filled quote alone opens the spread, before the account
\* shows it (a later tick then finds the inventory it expects, or halts).
SettleEntryUnseen ==
  /\ pc = "executions" /\ journal.intent = "entry" /\ seen \in {"flat", "pair"}
  /\ journal' = [Acknowledged(journal) EXCEPT !.phase = "open"]
  /\ Return
  /\ UNCHANGED <<consumed, wire, venueVars>>

SettleEntry ==
  /\ pc = "executions" /\ RowIs({"clean"})
  /\ journal.intent = "entry" /\ seen = Target("entry")
  /\ journal' = [Acknowledged(journal) EXCEPT !.phase = "open"]
  /\ Return
  /\ UNCHANGED <<consumed, wire, venueVars>>

\* Mutant: save refuses the whole record of a trade the journal has no room
\* for, but the phase is taken back to idle all the same.
SettleExitForgets ==
  /\ pc = "executions" /\ RowIs({"clean"})
  /\ journal.intent = "exit" /\ seen = Target("exit")
  /\ journal' = [Acknowledged(journal) EXCEPT
                   !.phase = "idle",
                   !.trades = IF @ < Capacity THEN @ + 1 ELSE @]
  /\ Return
  /\ UNCHANGED <<consumed, wire, venueVars>>

\* A closed trade is appended; save refuses a journal that has outgrown its
\* limit, and then only the acknowledgement has been saved.
SettleExit ==
  /\ pc = "executions" /\ RowIs({"clean"})
  /\ journal.intent = "exit" /\ seen = Target("exit")
  /\ journal' = IF journal.trades < Capacity
                THEN [Acknowledged(journal) EXCEPT !.phase = "idle", !.trades = @ + 1]
                ELSE Acknowledged(journal)
  /\ Return
  /\ UNCHANGED <<consumed, wire, venueVars>>

\* A call raises or times out, which tick swallows, or the process dies and
\* is started again.  Either way the locals are gone, the journal stays.
Interrupt ==
  /\ pc # "ready"
  /\ Return
  /\ UNCHANGED <<journal, consumed, wire, venueVars>>

-----------------------------------------------------------------------------
(* Steps of the venue *)

OpenRFQ(m) ==
  /\ m.kind = "send"
  /\ rfqs' = [rfqs EXCEPT ![m.label].status = "open", ![m.label].intent = m.intent]
  /\ handled' = handled \cup {m}
  /\ UNCHANGED <<botVars, wire, held, tampered>>

CancelRFQ(m) ==
  /\ m.kind = "cancel" /\ rfqs[m.label].status = "open"
  /\ rfqs' = [rfqs EXCEPT ![m.label].status = "cancelled"]
  /\ handled' = handled \cup {m}
  /\ UNCHANGED <<botVars, wire, held, tampered>>

\* Both legs trade at once, or nothing does.
Traded(intent) == IF held = Before(intent) THEN Target(intent) ELSE "other"

Execute(m) ==
  /\ m.kind = "execute" /\ rfqs[m.label].status = "open"
  /\ \E row \in Rows :
       rfqs' = [rfqs EXCEPT ![m.label].status = "filled",
                            ![m.label].nonce = m.nonce, ![m.label].row = row]
  /\ held' = Traded(m.intent)
  /\ handled' = handled \cup {m}
  /\ UNCHANGED <<botVars, wire, tampered>>

\* The request is refused, or never arrives.
Lose(m) ==
  /\ handled' = handled \cup {m}
  /\ UNCHANGED <<botVars, wire, rfqs, held, tampered>>

Expire(l) ==
  /\ rfqs[l].status = "open"
  /\ rfqs' = [rfqs EXCEPT ![l].status = "cancelled"]
  /\ UNCHANGED <<botVars, wire, held, tampered, handled>>

\* The batch of an executed RFQ fails later on.
FailBatch(l) ==
  /\ "failed" \in Rows /\ rfqs[l].row = "clean"
  /\ rfqs' = [rfqs EXCEPT ![l].row = "failed"]
  /\ UNCHANGED <<botVars, wire, held, tampered, handled>>

\* Another session of the account, or the venue itself, changes the
\* positions, or executes the RFQ this slot has open.
Tamper ==
  /\ Foreign /\ ~tampered
  /\ held' \in Holdings \ {held}
  /\ \/ UNCHANGED rfqs
     \/ \E l \in Labels :
          /\ rfqs[l].status = "open"
          /\ rfqs' = [rfqs EXCEPT ![l].status = "filled"]
  /\ tampered' = TRUE
  /\ UNCHANGED <<botVars, wire, handled>>

-----------------------------------------------------------------------------
(* Specification *)

Init ==
  /\ \/ journal = FreshJournal /\ held = "flat"
     \/ journal = LegacyJournal /\ held = "pair"
  /\ pc = "ready" /\ seen = "flat" /\ consumed = 0
  /\ rfqs = [l \in Labels |-> NoRFQ]
  /\ tampered = FALSE
  /\ wire = {} /\ handled = {}

Account ==
  \/ HaltUnowned \/ Decline \/ Admit \/ HaltUnmatched \/ ServiceOpen \/ Recover

Ask == SaveRequest \/ Send \/ Accept \/ NotListed

Quote ==
  \/ HaltFilled \/ NoExecution \/ AwaitCancelled \/ WithdrawEntry \/ ReadOffers
  \/ NoDeal \/ Prepare \/ Overtaken \/ HaltChanged \/ SaveExecution
  \/ Submit \/ Acknowledge \/ Cancel

Settle ==
  \/ NoRow \/ HaltMismatched \/ HaltSettlement \/ AwaitInventory
  \/ SettleEntry \/ SettleExit

Bot == Tick \/ Account \/ Ask \/ Quote \/ Settle \/ Interrupt

Venue ==
  \/ \E m \in InFlight : OpenRFQ(m) \/ CancelRFQ(m) \/ Execute(m) \/ Lose(m)
  \/ \E l \in Labels : Expire(l) \/ FailBatch(l)
  \/ Tamper

Next == Bot \/ Venue

Spec == Init /\ [][Next]_vars
-----------------------------------------------------------------------------
(* Properties *)

\* Every variable has its type.
TypeOK ==
  /\ journal \in Journal /\ pc \in Pcs /\ seen \in Holdings
  /\ consumed \in 0 .. MaxConsumed
  /\ rfqs \in [Labels -> RFQ] /\ held \in Holdings /\ tampered \in BOOLEAN
  /\ wire \subseteq Message /\ handled \subseteq wire

\* The journal never disowns a position: whatever was lost, late or cut off
\* by a crash, the slot holds one of the inventories that inventories() reads
\* off the journal, unless somebody else has changed the subaccount.
InventoryOwned == ~tampered => held \in Inventories(journal)

\* "Never blindly resent": a label is requested once and executed once, and
\* no two executions carry one nonce.
NeverReplayed ==
  \A m, n \in wire :
    /\ m.kind = n.kind
    /\ \/ m.kind = "send" /\ m.label = n.label
       \/ m.kind = "execute" /\ (m.label = n.label \/ m.nonce = n.nonce)
    => m = n

\* "Every write intent is fsynced before its HTTP request": as long as the
\* venue may still act on a request, the journal tells a restarted bot so.
WriteAhead ==
  \A m \in InFlight :
    /\ m.kind = "execute" => journal.phase = "settling" /\ m = Request("execute")
    /\ m.kind = "send" => /\ journal.phase \in {"requesting", "halted"}
                          /\ m = Request("send")

\* A slot never has two RFQs open at the venue, and none that it has
\* forgotten: an idle or open slot has no RFQ a maker could still quote.
OneLiveRFQ ==
  \A l \in Labels : rfqs[l].status = "open" =>
    l = journal.label /\ journal.phase \notin {"idle", "open"}

\* orders_submitted counts venue executions, each once, although an
\* acknowledgement can come from the answer, from reconciliation, or from several
\* passes of it; and outside "settling" none is missing.
ExecutionsCounted ==
  /\ journal.acks <= Cardinality(Filled)
  /\ Cardinality(Filled) <= journal.submitted
  /\ journal.phase \notin {"settling", "halted"} => journal.acks = journal.submitted

FilledAs(intent) == {l \in Filled : rfqs[l].intent = intent}

\* Whoever else trades on the account, every exit the venue executed for the slot
\* is one closed trade, and an entry without its exit is exactly a spread the slot
\* calls open.
TradesClosed ==
  /\ journal.phase = "idle" =>
       /\ journal.trades = Cardinality(FilledAs("exit"))
       /\ journal.trades = Cardinality(FilledAs("entry"))
  /\ journal.phase = "open" /\ journal.v3 =>
       /\ journal.trades = Cardinality(FilledAs("exit"))
       /\ journal.trades + 1 = Cardinality(FilledAs("entry"))

\* status() reports orders_submitted and closed_spreads: what the journal says was
\* executed and what it says was closed is what the venue did, no more, no less.
Accounted == ExecutionsCounted /\ TradesClosed

\* A consumed signal buys at most one entry RFQ, across crashes as well.
EntriesConsumed ==
  Cardinality({m \in wire : m.kind = "send" /\ m.intent = "entry"}) <= consumed

-----------------------------------------------------------------------------
(* The inductive invariant behind the safety properties *)

\* Where a tick is suspended, and what the journal then says.
Control ==
  /\ pc = "request" => journal.phase \in {"idle", "open"}
  /\ pc \in {"send", "sent", "label"} => journal.phase = "requesting"
  /\ pc = "status" => journal.phase \in {"quoting_entry", "quoting_exit", "cancelling"}
  /\ pc \in {"offers", "refresh"} => journal.phase = Quoting(journal.intent)
  /\ pc = "cancel" => journal.phase = "cancelling"
  /\ pc \in {"submit", "submitted", "executions"} => journal.phase = "settling"
  /\ journal.phase = "halted" => pc = "ready"
  /\ journal.phase \in {"quoting_entry", "quoting_exit"} =>
       journal.phase = Quoting(journal.intent)
  /\ journal.phase \notin {"idle", "open", "halted"} => journal.label \in Labels
  /\ journal.phase = "settling" => journal.nonce # 0

\* Nothing carries a label that has not been drawn yet.
LabelsDrawn ==
  /\ \A m \in wire : m.label <= journal.label
  /\ \A l \in Labels : rfqs[l].status # "none" => l <= journal.label
  /\ \A l \in Labels : rfqs[l].nonce # 0 => rfqs[l].status = "filled"

\* The RFQ in hand: whether it was requested, is live, was executed.
InHand ==
  /\ pc = "send" => /\ rfqs[journal.label].status = "none"
                    /\ \A m \in wire : m.label # journal.label
  /\ \A m \in InFlight :
       /\ m.kind = "send" => rfqs[m.label].status = "none"
       /\ m.kind = "execute" => rfqs[m.label].nonce = 0
  /\ journal.phase \in {"quoting_entry", "quoting_exit", "cancelling", "settling"} =>
       rfqs[journal.label].status # "none"
  /\ \/ journal.phase \in {"requesting", "quoting_entry", "quoting_exit", "cancelling"}
     \/ pc = "submit"
     => rfqs[journal.label].nonce = 0
  /\ \A l \in Labels : l = journal.label /\ rfqs[l].status # "none" =>
       rfqs[l].intent = journal.intent
  /\ \A l \in Labels : l = journal.label /\ rfqs[l].nonce # 0 =>
       rfqs[l].nonce = journal.nonce

\* At most one execution per RFQ, under a nonce no other execution has.
Executions ==
  \A m \in wire : m.kind = "execute" =>
    /\ m.nonce \in 1 .. journal.nonce
    /\ pc = "submit" => m.nonce < journal.nonce
    /\ m.label = journal.label =>
         journal.phase \in {"settling", "idle", "open", "halted"} /\ pc # "submit"

\* Undisturbed, the account holds what the phase and the RFQ in hand imply.
Holding ==
  ~tampered =>
    /\ journal.phase = "idle" => held = "flat"
    /\ journal.phase = "open" => held = "pair"
    /\ journal.phase \in {"requesting", "quoting_entry", "quoting_exit", "cancelling"} =>
         held = Before(journal.intent) /\ rfqs[journal.label].status # "filled"
    /\ journal.phase = "settling" =>
         IF rfqs[journal.label].status = "filled"
         THEN held = Target(journal.intent) /\ rfqs[journal.label].nonce = journal.nonce
         ELSE held = Before(journal.intent)

\* TypeOK and the safety properties are inductive together with what each
\* step of the slot and of the venue has left behind for the next.
IInv ==
  /\ TypeOK /\ Control /\ LabelsDrawn /\ InHand /\ Executions /\ Holding
  /\ NeverReplayed /\ WriteAhead /\ OneLiveRFQ

-----------------------------------------------------------------------------
(* The inductive invariant behind the accounts *)

EntrySends == {m \in wire : m.kind = "send" /\ m.intent = "entry"}

\* A signal was consumed for an entry RFQ that has yet to leave.
Granted ==
  \/ pc = "request" /\ journal.phase = "idle"
  \/ pc = "send" /\ journal.intent = "entry"

SignalsSpent ==
  /\ IsFiniteSet(wire)
  /\ Cardinality(EntrySends) + (IF Granted THEN 1 ELSE 0) <= consumed

\* The venue has executed the RFQ in hand under the nonce journalled for it.
Executed == journal.label \in Filled

\* The execution in hand is the only one that may be missing on either side.
ExecutionsBooked ==
  /\ journal.phase \notin {"settling", "halted"} =>
       journal.acks = journal.submitted /\ Cardinality(Filled) = journal.submitted
  /\ journal.phase = "settling" =>
       /\ journal.acks + (IF journal.acked THEN 0 ELSE 1) = journal.submitted
       /\ Cardinality(Filled) + (IF Executed THEN 0 ELSE 1) = journal.submitted
       /\ journal.acked => Executed
  /\ journal.phase = "halted" =>
       journal.acks <= Cardinality(Filled) /\ Cardinality(Filled) <= journal.submitted

\* By the venue's executions alone, is a spread bought and not sold again?
Bought ==
  \/ journal.phase = "open"
  \/ journal.phase \in {"requesting", "quoting_entry", "quoting_exit", "cancelling"}
     /\ journal.intent = "exit"
  \/ journal.phase = "settling" /\ journal.intent = (IF Executed THEN "entry" ELSE "exit")

\* An exit the venue has executed and the slot has not recorded yet.
Unrecorded == journal.phase = "settling" /\ Executed /\ journal.intent = "exit"

SpreadsBooked ==
  journal.phase # "halted" /\ (journal.v3 \/ journal.phase = "idle") =>
    /\ Cardinality(FilledAs("exit")) = journal.trades + (IF Unrecorded THEN 1 ELSE 0)
    /\ Cardinality(FilledAs("entry")) =
         Cardinality(FilledAs("exit")) + (IF Bought THEN 1 ELSE 0)

\* A spread journalled for the legacy API is never serviced.
LegacyLeft ==
  ~journal.v3 => \/ journal.phase = "idle" /\ pc # "send"
                 \/ journal.phase \in {"open", "halted"} /\ pc = "ready"

\* The accounts of the journal, of the entry governor and of the venue agree
\* up to what the step in hand is about to enter.
Ledgered == SignalsSpent /\ ExecutionsBooked /\ SpreadsBooked /\ LegacyLeft

-----------------------------------------------------------------------------
(* The abstract owner this slot implements *)

\* The execution in hand may still be carried out.
Armed ==
  /\ journal.phase = "settling"
  /\ rfqs[journal.label].status # "filled"

Owner == INSTANCE SpreadOwner
           WITH record <- Inventories(journal), armed <- Armed

\* The slot, its journal and the venue implement the abstract owner: the
\* module docstring's "settled quotes AND exact authenticated positions are
\* required", with no separate leg ever placed.
ImplementsOwner == Owner!Spec

-----------------------------------------------------------------------------
(* Liveness *)

(***************************************************************************)
(* The control loop keeps ticking and a suspended tick ends.  Each read    *)
(* is answered again and again, though never reliably, so the steps that   *)
(* need a good answer are strongly fair.  An RFQ has a valid_until, so it  *)
(* does not stay open for ever.  Nothing is promised about requests: any   *)
(* of them may be lost.                                                    *)
(***************************************************************************)
Fairness ==
  /\ WF_vars(Bot)
  /\ SF_vars(Tick)
  /\ SF_vars(Recover)
  /\ SF_vars(Accept)
  /\ SF_vars(HaltFilled)
  /\ SF_vars(NoExecution)
  /\ SF_vars(HaltMismatched)
  /\ SF_vars(HaltSettlement)
  /\ SF_vars(SettleEntry)
  /\ SF_vars(SettleExit)
  /\ \A l \in Labels : WF_vars(Expire(l))

FairSpec == Spec /\ Fairness

\* A request whose answer was lost is found again by its label.
RequestRecovered ==
  (\E l \in Labels : /\ journal.phase = "requesting" /\ journal.label = l
                     /\ rfqs[l].status # "none")
    ~> journal.phase # "requesting"

\* An RFQ that is quoted or being cancelled does not occupy the slot for
\* ever: it is executed, or the slot is idle or open again.
QuotingEnds ==
  journal.phase \in {"quoting_entry", "quoting_exit", "cancelling"}
    ~> journal.phase \in {"idle", "open", "settling", "halted"}

\* An execution the venue carried out is recorded, whichever answers are
\* lost, as long as the journal has room for the trade.
ExecutionRecorded ==
  (\E l \in Labels : /\ journal.phase = "settling" /\ journal.label = l
                     /\ journal.trades < Capacity
                     /\ rfqs[l].nonce = journal.nonce)
    ~> journal.phase \in {"idle", "open", "halted"}
=============================================================================
