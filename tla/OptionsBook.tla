----------------------------- MODULE OptionsBook -----------------------------
(***************************************************************************)
(* The two spread slots of src/execution/options_book.py on one account.   *)
(*                                                                         *)
(* A book tick runs its slots' ticks one after the other, under the book's *)
(* lock; a slot sees the account through SlotTransport, which hides what   *)
(* the other slot's journal claims.  A slot's tick is cut where it has     *)
(* read the account: the venue may execute the other slot's order before   *)
(* the tick goes on.                                                       *)
(*                                                                         *)
(* The life of one slot is module OptionsRFQ's.  Here its phases between   *)
(* saving a request and saving an execution (requesting, quoting_entry,    *)
(* quoting_exit, cancelling) are one, "working": inventories() makes no    *)
(* difference between them.  A spread has one unit of each leg.  A slot    *)
(* may start with an open spread whose journal is of the older API.        *)
(***************************************************************************)
EXTENDS Integers, Sequences

CONSTANTS
  MaxSpreads,   \* slots of the book: 1 or 2
  Instruments,  \* option instruments
  Plans,        \* the spreads that may be proposed
  MaxEntries,   \* bound: entries a behaviour may start
  VenueFails,   \* may an execution's row report an errored batch?
  Foreign       \* may somebody else trade options on the account?

ASSUME BookAssumption ==
  /\ MaxSpreads \in 1 .. 2 /\ MaxEntries \in Nat
  /\ VenueFails \in BOOLEAN /\ Foreign \in BOOLEAN
  /\ Plans \subseteq {p \in [buy : Instruments, sell : Instruments] : p.buy # p.sell}

VARIABLES
  slot,      \* the slots' journals
  todo,      \* the slots the running book tick still has to serve
  proposed,  \* the plan the running book tick was called with
  seen,      \* what the first of them has read of the account
  entries,   \* entries started so far
  order,     \* venue: the execution each slot has sent
  held,      \* venue: the option positions
  tampered   \* venue: has somebody else traded?

botVars   == <<slot, todo, proposed, seen, entries>>
venueVars == <<order, held, tampered>>
vars      == <<slot, todo, proposed, seen, entries, order, held, tampered>>

-----------------------------------------------------------------------------
(* Positions *)

Slots  == 1 .. MaxSpreads
NoPlan == [buy |-> "none", sell |-> "none"]
Unread == [x \in {} |-> 0]
Flat   == [x \in Instruments |-> 0]

Slot ==
  [phase : {"idle", "working", "settling", "open", "halted"},
   intent : {"entry", "exit"}, plan : Plans \cup {NoPlan},
   cause : {"none", "venue", "inventory"}, legacy : BOOLEAN]

Idle == [phase |-> "idle", intent |-> "entry", plan |-> NoPlan, cause |-> "none",
         legacy |-> FALSE]

\* An open spread that was journalled for the older API.
Inherited(plan) == [Idle EXCEPT !.phase = "open", !.plan = plan, !.legacy = TRUE]

Names(plan) == {plan.buy, plan.sell}

\* expected_positions
Owned(plan) ==
  [x \in Instruments |-> IF x = plan.buy THEN 1 ELSE IF x = plan.sell THEN -1 ELSE 0]

\* The positions of h in the instruments of names.
Only(h, names) == [x \in Instruments |-> IF x \in names THEN h[x] ELSE 0]

\* What a slot in this state may hold.  None for a halted one: inventories()
\* raises.
Inventories(s) ==
  CASE s.phase = "idle"     -> {Flat}
    [] s.phase = "halted"   -> {}
    [] s.phase = "settling" -> {Flat, Owned(s.plan)}
    [] s.phase = "open" \/ (s.phase = "working" /\ s.intent = "exit") -> {Owned(s.plan)}
    [] OTHER                -> {Flat}

Claimed(s) == IF s.phase = "idle" THEN {} ELSE Names(s.plan)

Background(i) == UNION {Claimed(slot[j]) : j \in Slots \ {i}}

\* SlotTransport.account does not raise: the others hold what their journals
\* admit, and nobody holds anything else.
AccountOk(i) ==
  /\ \A j \in Slots \ {i} : Only(held, Claimed(slot[j])) \in Inventories(slot[j])
  /\ \A x \in Instruments : held[x] # 0 => x \in Background(i) \cup Claimed(slot[i])

\* What it shows to slot i.
View(i) == Only(held, Instruments \ Background(i))

\* The inventory a slot accepts before its order is out, and after it.
Before(s) == IF s.phase = "open" \/ s.intent = "exit" THEN Owned(s.plan) ELSE Flat
After(s)  == IF s.intent = "entry" THEN Owned(s.plan) ELSE Flat

\* OptionsBook.owns: the journals together explain the positions h.
Explained(h) ==
  \A x \in Instruments :
    LET claims == {i \in Slots : x \in Claimed(slot[i])}
    IN  /\ claims = {} => h[x] = 0
        /\ \A i \in claims : Only(h, Claimed(slot[i])) \in Inventories(slot[i])

-----------------------------------------------------------------------------
(* The book's tick *)

Busy    == {i \in Slots : slot[i].phase # "idle"}
Blocked ==
  \E i \in Slots : slot[i].phase \notin {"idle", "open"} \/ (i \in Busy /\ slot[i].legacy)

\* Mutant: a plan may share a leg with a spread already held.
EligibleOverlapping(plan) == plan # NoPlan /\ ~Blocked

Eligible(plan) ==
  /\ plan # NoPlan /\ ~Blocked
  /\ Names(plan) \cap UNION {Claimed(slot[i]) : i \in Busy} = {}

Candidate == CHOOSE i \in Slots \ Busy : \A j \in Slots \ Busy : i <= j

\* The busy slots in their order.
Serving ==
  IF Busy = {1, 2} THEN <<1, 2>> ELSE IF Busy = {} THEN <<>> ELSE <<CHOOSE i \in Busy : TRUE>>

\* Mutant: the open slots are served before the new entry.
OrderedLast(plan) ==
  IF Eligible(plan) /\ Busy # Slots THEN Serving \o <<Candidate>> ELSE Serving

\* Mutant: one slot is served per tick.
OrderedOne(plan) ==
  IF Eligible(plan) /\ Busy # Slots THEN <<Candidate>>
  ELSE IF Serving = <<>> THEN <<>> ELSE <<Head(Serving)>>

\* At most one new entry a tick, and it comes first.
Ordered(plan) ==
  IF Eligible(plan) /\ Busy # Slots THEN <<Candidate>> \o Serving ELSE Serving

Begin ==
  /\ todo = <<>>
  /\ \E plan \in (IF entries < MaxEntries THEN Plans ELSE {}) \cup {NoPlan} :
       /\ Ordered(plan) # <<>>
       /\ todo' = Ordered(plan) /\ proposed' = plan
  /\ UNCHANGED <<slot, seen, entries, venueVars>>

\* The slot's tick ends, whatever it did.
Served == todo' = Tail(todo) /\ seen' = Unread

\* Slot i is the one being served, and has read the account.
Turn(i)    == todo # <<>> /\ Head(todo) = i
Reading(i) == Turn(i) /\ seen = Unread
Acting(i)  == Turn(i) /\ seen # Unread

Read(i) ==
  /\ Reading(i) /\ slot[i].phase # "halted" /\ ~slot[i].legacy /\ AccountOk(i)
  /\ seen' = View(i)
  /\ UNCHANGED <<slot, todo, proposed, entries, venueVars>>

\* A halted slot does nothing, nor does one of the older API; a read may fail,
\* or SlotTransport raise.
Skip(i) ==
  /\ Turn(i) /\ Served
  /\ UNCHANGED <<slot, proposed, entries, venueVars>>

Crash ==
  /\ todo # <<>>
  /\ todo' = <<>> /\ seen' = Unread
  /\ UNCHANGED <<slot, proposed, entries, venueVars>>

-----------------------------------------------------------------------------
(* What a slot does with the account it has read *)

Becomes(i, s) == slot' = [slot EXCEPT ![i] = s]

\* The new entry: its signal is consumed and its plan saved.
Admit(i) ==
  /\ Acting(i) /\ slot[i].phase = "idle" /\ seen = Flat
  /\ Becomes(i, [phase |-> "working", intent |-> "entry", plan |-> proposed,
                 cause |-> "none", legacy |-> FALSE])
  /\ entries' = entries + 1 /\ Served
  /\ UNCHANGED <<proposed, venueVars>>

\* Anything but the spread itself, where it should be, stops the slot.
HaltUnmatched(i) ==
  /\ Acting(i) /\ slot[i].phase \in {"open", "working"}
  /\ seen # Before(slot[i])
  /\ Becomes(i, [slot[i] EXCEPT !.phase = "halted", !.cause = "inventory"])
  /\ Served
  /\ UNCHANGED <<proposed, entries, venueVars>>

AskExit(i) ==
  /\ Acting(i) /\ slot[i].phase = "open" /\ seen = Before(slot[i])
  /\ Becomes(i, [slot[i] EXCEPT !.phase = "working", !.intent = "exit"])
  /\ Served
  /\ UNCHANGED <<proposed, entries, venueVars>>

\* The RFQ ended without an execution.
Withdraw(i) ==
  /\ Acting(i) /\ slot[i].phase = "working" /\ seen = Before(slot[i])
  /\ Becomes(i, [slot[i] EXCEPT !.phase = IF slot[i].intent = "exit" THEN "open" ELSE "idle"])
  /\ Served
  /\ UNCHANGED <<proposed, entries, venueVars>>

\* Mutant: the order leaves before the journal says it may have.
CommitUnsaved(i) ==
  /\ Acting(i) /\ slot[i].phase = "working" /\ seen = Before(slot[i])
  /\ AccountOk(i) /\ View(i) = Before(slot[i])
  /\ order' = [order EXCEPT ![i] = "sent"] /\ Served
  /\ UNCHANGED <<slot, proposed, entries, held, tampered>>

\* The account is read again just before the execution is saved and sent.
Commit(i) ==
  /\ Acting(i) /\ slot[i].phase = "working" /\ seen = Before(slot[i])
  /\ AccountOk(i) /\ View(i) = Before(slot[i])
  /\ Becomes(i, [slot[i] EXCEPT !.phase = "settling"])
  /\ order' = [order EXCEPT ![i] = "sent"] /\ Served
  /\ UNCHANGED <<proposed, entries, held, tampered>>

HaltChanged(i) ==
  /\ Acting(i) /\ slot[i].phase = "working" /\ seen = Before(slot[i])
  /\ AccountOk(i) /\ View(i) # Before(slot[i])
  /\ Becomes(i, [slot[i] EXCEPT !.phase = "halted", !.cause = "inventory"])
  /\ Served
  /\ UNCHANGED <<proposed, entries, venueVars>>

\* An errored batch, or an inventory that is neither the old nor the new.
HaltSettling(i) ==
  /\ Acting(i) /\ slot[i].phase = "settling"
  /\ \/ /\ order[i] = "failed"
        /\ Becomes(i, [slot[i] EXCEPT !.phase = "halted", !.cause = "venue"])
     \/ /\ order[i] = "filled" /\ seen \notin {Before(slot[i]), After(slot[i])}
        /\ Becomes(i, [slot[i] EXCEPT !.phase = "halted", !.cause = "inventory"])
  /\ Served
  /\ UNCHANGED <<proposed, entries, venueVars>>

\* The row is filled and the spread is where it should be.
Settle(i) ==
  /\ Acting(i) /\ slot[i].phase = "settling"
  /\ order[i] = "filled" /\ seen = After(slot[i])
  /\ Becomes(i, [slot[i] EXCEPT !.phase = IF slot[i].intent = "entry" THEN "open" ELSE "idle"])
  /\ order' = [order EXCEPT ![i] = "none"] /\ Served
  /\ UNCHANGED <<proposed, entries, held, tampered>>

-----------------------------------------------------------------------------
(* The venue *)

\* The order is executed, both legs at once.
Execute(i) ==
  /\ order[i] = "sent"
  /\ order' = [order EXCEPT ![i] = "filled"]
  /\ held' = [x \in Instruments |->
       held[x] + (IF slot[i].intent = "entry" THEN 1 ELSE -1) * Owned(slot[i].plan)[x]]
  /\ UNCHANGED <<tampered, botVars>>

\* Its row reports an errored batch, before or after the positions moved.
Fail(i) ==
  /\ VenueFails /\ order[i] \in {"sent", "filled"} /\ slot[i].phase = "settling"
  /\ order' = [order EXCEPT ![i] = "failed"]
  /\ UNCHANGED <<held, tampered, botVars>>

\* Somebody else buys one unit of an option.
Tamper ==
  /\ Foreign /\ ~tampered /\ tampered' = TRUE
  /\ \E x \in Instruments : held' = [held EXCEPT ![x] = @ + 1]
  /\ UNCHANGED <<order, botVars>>

-----------------------------------------------------------------------------
\* The spreads an older version has left open are still held.
Init ==
  /\ slot \in [Slots -> {Idle} \cup {Inherited(plan) : plan \in Plans}]
  /\ \A i, j \in Slots : i # j => Claimed(slot[i]) \cap Claimed(slot[j]) = {}
  /\ held = [x \in Instruments |->
       IF \E i \in Busy : x = slot[i].plan.buy THEN 1
       ELSE IF \E i \in Busy : x = slot[i].plan.sell THEN -1 ELSE 0]
  /\ todo = <<>> /\ proposed = NoPlan /\ seen = Unread /\ entries = 0
  /\ order = [i \in Slots |-> "none"] /\ tampered = FALSE

SlotTick(i) ==
  \/ Read(i) \/ Skip(i) \/ Admit(i) \/ HaltUnmatched(i) \/ AskExit(i)
  \/ Withdraw(i) \/ Commit(i) \/ HaltChanged(i) \/ HaltSettling(i) \/ Settle(i)

Next ==
  \/ Begin \/ Crash \/ Tamper
  \/ \E i \in Slots : SlotTick(i) \/ Execute(i) \/ Fail(i)

Spec == Init /\ [][Next]_vars

\* The loop keeps ticking, and a crash does not cut every tick short; a read
\* is answered again and again; next_quote_at passes.
Fairness ==
  /\ WF_vars(Begin)
  /\ \A i \in Slots : /\ SF_vars(SlotTick(i) /\ todo' = Tail(todo))
                      /\ SF_vars(Read(i)) /\ SF_vars(AskExit(i))

FairSpec == Spec /\ Fairness

-----------------------------------------------------------------------------
(* Properties *)

TypeOK ==
  /\ slot \in [Slots -> Slot]
  /\ todo \in Seq(Slots) /\ Len(todo) <= MaxSpreads
  /\ proposed \in Plans \cup {NoPlan}
  /\ seen = Unread \/ seen \in [Instruments -> -2 .. 2]
  /\ entries \in 0 .. MaxEntries
  /\ order \in [Slots -> {"none", "sent", "filled", "failed"}]
  /\ held \in [Instruments -> IF tampered THEN -2 .. 2 ELSE -1 .. 1]
  /\ tampered \in BOOLEAN

\* "Disjoint option instruments keep settlement/recovery unambiguous."
SpreadsDisjoint ==
  \A i, j \in Slots : i # j => Claimed(slot[i]) \cap Claimed(slot[j]) = {}

\* A slot is never stopped by what the other one does, however its settlement
\* falls between the slot's two reads of the account.
SiblingNotBlamed == ~tampered => \A i \in Slots : slot[i].cause # "inventory"

\* Until somebody else trades, the account holds each slot's spread whole, leg
\* against leg, or not at all, and holds nothing else: also between an order and
\* the journal that learns of it, and after a slot has halted.
WholeSpreads ==
  ~tampered =>
    /\ \A x \in Instruments : held[x] # 0 => \E i \in Slots : x \in Claimed(slot[i])
    /\ \A i \in Busy : Only(held, Names(slot[i].plan)) \in {Flat, Owned(slot[i].plan)}

\* Each slot has legs of its own, is stopped by nothing but what happens to
\* them, and undisturbed the account holds whole spreads only.
Sound == TypeOK /\ SpreadsDisjoint /\ SiblingNotBlamed /\ WholeSpreads

\* As long as nothing failed and nobody else trades, the journals explain the
\* account at every moment, between the two sides of an execution too: a
\* caller of owns() never takes the book's own legs for somebody else's.
BookOwns ==
  ~tampered /\ (\A i \in Slots : slot[i].phase # "halted") => Explained(held)

\* "Idle: admit one verified disjoint structure": an entry starts only while
\* every other slot is at rest, so two entries are never under way together.
EntryAlone ==
  [][\A i \in Slots : slot[i].phase = "idle" /\ slot'[i].phase = "working" =>
       \A j \in Slots \ {i} : slot[j].phase \in {"idle", "open"}]_vars

\* "Existing slots still receive protective exit service": a spread that is
\* open asks for its exit in the end.  One of the older API is left alone.
OpenServiced ==
  \A i \in Slots : (slot[i].phase = "open" /\ ~slot[i].legacy) ~> (slot[i].phase # "open")

\* The same, unless a slot is halted or somebody else trades.
ServicedUnlessHalted ==
  \A i \in Slots :
    (slot[i].phase = "open" /\ ~slot[i].legacy) ~>
      (slot[i].phase # "open" \/ tampered \/ \E j \in Slots : slot[j].phase = "halted")
=============================================================================
