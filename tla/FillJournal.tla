----------------------------- MODULE FillJournal -----------------------------
(***************************************************************************)
(* execution/fill_journal.py: the evidence one executor keeps of its own   *)
(* orders in a SQLite file, and the verdict on an account snapshot.  Every *)
(* operation is one transaction.                                           *)
(*                                                                         *)
(* An intent and the order it becomes share an entry of `log`, as an order *)
(* has one intent: "pending" until the order is acknowledged.  Prices and  *)
(* fees, which no verdict depends on, are left out, and so is the identity *)
(* of the file, which is checked when it is opened.                        *)
(***************************************************************************)
EXTENDS Integers, Sequences, FiniteSetsExt, Functions

CONSTANTS
  Minimum,      \* the venue's smallest order
  Step,         \* the venue's lot
  SnapshotAge   \* 60 s: the age a snapshot may have

VARIABLES
  log,      \* intents and orders, in order
  fills,    \* trades recorded
  flatAt,   \* metadata 'reconciled': the snapshot whose verdict allows an entry
  last,     \* metadata 'last_snapshot_time'
  latest    \* the latest time of the orders and the fills

journal == <<log, fills, flatAt, last, latest>>

Terminal  == {"filled", "canceled", "failed"}
NoVerdict == -1   \* none is recorded, or one that allows nothing

Pending == {i \in DOMAIN log : log[i].status = "pending"}
Orders  == DOMAIN log \ Pending
Working == {i \in Orders : log[i].status \notin Terminal}
Closes  == {i \in Orders : log[i].role = "close"}

\* totals
Filled(role) == SumFunction([t \in fills |-> IF log[t.order].role = role THEN t.lots ELSE 0])
Signed       == SumFunction([t \in fills |-> log[t.order].side * t.lots])

\* The latest time with that of one more event.
Later(time) == IF time > latest THEN time ELSE latest

JournalInit == log = <<>> /\ fills = {} /\ flatAt = NoVerdict /\ last = 0 /\ latest = 0

\* intent
Intend(role, side, lots) ==
  /\ log' = Append(log, [role |-> role, side |-> side, lots |-> lots, status |-> "pending"])
  /\ flatAt' = NoVerdict /\ UNCHANGED <<fills, last, latest>>

\* acknowledge: the order carries the time of its intent, made a moment before.
Acknowledge(i, now) ==
  /\ i \in Pending
  /\ log' = [log EXCEPT ![i].status = "working"] /\ latest' = Later(now)
  /\ UNCHANGED <<fills, flatAt, last>>

\* status: a terminal order never works again.
SetStatus(i, status, now) ==
  /\ i \in Orders
  /\ log[i].status \in Terminal => status \in Terminal
  /\ log' = [log EXCEPT ![i].status = status] /\ latest' = Later(now)
  /\ flatAt' = NoVerdict /\ UNCHANGED <<fills, last>>

\* fill: a trade known by its identity changes nothing, even one of an order
\* that has ended is taken.
Record(t) ==
  /\ t.order \in Orders
  /\ fills' = fills \cup {t}
  /\ latest' = IF t \in fills THEN latest ELSE Later(t.at)
  /\ flatAt' = IF t \in fills THEN flatAt ELSE NoVerdict
  /\ UNCHANGED <<log, last>>

\* Mutant: a snapshot is taken whatever has happened since.
UsableAnyhow(s, now) == now - s.at \in 0 .. SnapshotAge

Usable(s, now) == now - s.at \in 0 .. SnapshotAge /\ s.at >= latest /\ s.at >= last

Magnitude(n) == IF n >= 0 THEN n ELSE -n

\* What an account without an unacknowledged intent is in need of.
Settled(s) ==
  IF Signed # s.position THEN "position_mismatch"
  ELSE IF s.open \ Orders # {} THEN "unowned_venue_orders"
  ELSE IF Working \cup s.open # {} THEN "working_or_unresolved_orders"
  ELSE IF s.position = 0 THEN "flat"
  ELSE IF Magnitude(s.position) < Minimum THEN "residual_below_minimum"
  ELSE IF Magnitude(s.position) % Step # 0 THEN "residual_not_whole_lot"
  ELSE "reduce_only_recovery_required"

\* Mutant: an intent that was never acknowledged was never sent.
ReasonAcknowledged(s) == Settled(s)

Reason(s) == IF Pending # {} THEN "ambiguous_transport_intent" ELSE Settled(s)

Reconcile(s, now) ==
  /\ Usable(s, now)
  /\ flatAt' = (IF Reason(s) = "flat" THEN s.at ELSE NoVerdict) /\ last' = s.at
  /\ UNCHANGED <<log, fills, latest>>
=============================================================================
