--------------------------- MODULE RecoveryExecutor ---------------------------
(***************************************************************************)
(* execution/recovery_candidate.py: JournaledRecoveryCandidate, a position *)
(* executor that writes its intents down before it sends, lives on what    *)
(* its journal knows, and goes on after a restart only when an account     *)
(* snapshot agrees with the journal.  (The repository does not register it *)
(* for live trading.)                                                      *)
(*                                                                         *)
(* External: what is inherited of Hummingbot's PositionExecutor (when it   *)
(* enters, exits, retries and gives up), its connector, which reports      *)
(* fills late or twice, the end of an order late, and either perhaps       *)
(* never, and the venue, where a close is reduce-only and nobody else      *)
(* trades on the account.                                                  *)
(***************************************************************************)
EXTENDS FillJournal

CONSTANTS
  Lots,        \* the size of the entry
  MaxRetries,  \* _max_retries
  MaxTime,     \* bound: the clock
  MaxFaults    \* bound: restarts, and failures of requests that are alive

ASSUME RecoveryAssumption ==
  /\ {Lots, Minimum, Step, SnapshotAge} \subseteq Nat \ {0}
  /\ {MaxRetries, MaxTime, MaxFaults} \subseteq Nat

VARIABLES
  now,
  required,  \* reconciliation_required
  status,    \* _status
  opening,   \* _open_order, 0 for none
  closing,   \* _close_order, 0 for none
  stops,     \* history: closes that early_stop has placed
  faults,    \* restarts and false failures so far
  sent,      \* venue: the state of every order of the log
  trades,    \* venue: what was traded
  snapshot   \* an account snapshot read for resume_recovery

executor == <<required, status, opening, closing, stops, faults>>
venue    == <<sent, trades>>
vars     == <<journal, now, executor, venue, snapshot>>

Position == SumFunction([t \in trades |-> log[t.order].side * t.lots])
Live     == {i \in DOMAIN sent : sent[i] = "live"}
Left(i)  == log[i].lots - SumFunction([t \in trades |-> IF t.order = i THEN t.lots ELSE 0])

NoSnapshot == [at |-> -1, position |-> 0, open |-> {}]

AmountToClose == Filled("entry") - Filled("close")
Attempts      == Cardinality(Closes)

\* place_order is under way: it runs without an await.
Sending == Pending # {} /\ ~required

\* So does an event, and the early_stop it may end with.
Handling == Sending \/ status = "stopping"

-----------------------------------------------------------------------------
(* place_order *)

\* What a new process must reconcile before it sends.
Blocking == Orders # {} \/ Pending # {}

Begin(role, side, lots) ==
  /\ ~required /\ Pending = {}
  /\ role = "close" => lots \in 1 .. AmountToClose
  /\ Intend(role, side, lots)
  /\ sent' = Append(sent, "no")
  /\ UNCHANGED <<now, required, opening, closing, faults, trades, snapshot>>

\* The connector has taken the order and will send it.
Placed ==
  /\ Sending
  /\ \E i \in Pending :
       /\ Acknowledge(i, now)
       /\ sent' = [sent EXCEPT ![i] = "wire"]
       /\ closing' = IF log[i].role = "close" THEN i ELSE closing
       /\ opening' = IF log[i].role = "entry" THEN i ELSE opening
  /\ UNCHANGED <<now, required, status, stops, faults, trades, snapshot>>

\* It raised, and may send the order all the same.
Raised ==
  /\ Sending /\ required' = TRUE
  /\ \E i \in Pending : sent' = [sent EXCEPT ![i] = "wire"]
  /\ UNCHANGED <<journal, now, status, opening, closing, stops, faults, trades, snapshot>>

-----------------------------------------------------------------------------
(* control_task *)

Turn == ~required /\ ~Handling

\* Mutant: each process has the attempts to itself.
ExhaustedHere == FALSE

\* The closes of all processes are counted, in the journal.
Exhausted == Attempts >= MaxRetries + 1

Enter ==
  /\ Turn /\ status = "running" /\ Orders = {}
  /\ Begin("entry", 1, Lots) /\ UNCHANGED <<status, stops>>

Exit ==
  /\ Turn /\ status \in {"running", "shutting_down"} /\ closing = 0
  /\ ~Exhausted /\ AmountToClose >= Minimum
  /\ Begin("close", -1, AmountToClose) /\ status' = "shutting_down" /\ UNCHANGED stops

\* The attempts are used up, or the base class's retries are: the position is
\* held.  (Its status is not told from shutting down, as control_task does
\* nothing in either until a recovery.)
Hold ==
  /\ Turn /\ status \in {"running", "shutting_down"}
  /\ \/ Exhausted /\ closing = 0 /\ AmountToClose > 0
     \/ Closes # {} /\ AmountToClose # 0
  /\ required' = TRUE /\ status' = "shutting_down"
  /\ UNCHANGED <<journal, now, opening, closing, stops, faults, venue, snapshot>>

\* What is left is too small to close, or more was closed than is known to have
\* been bought.
Residue ==
  /\ Turn /\ status \in {"running", "shutting_down"}
  /\ AmountToClose # 0 /\ AmountToClose < Minimum
  /\ required' = TRUE
  /\ UNCHANGED <<journal, now, status, opening, closing, stops, faults, venue, snapshot>>

\* An exit before anything was bought, or the end.
Finish ==
  /\ Turn
  /\ \/ status = "running" /\ Orders # {} /\ status' = "shutting_down"
     \/ status = "shutting_down" /\ AmountToClose = 0 /\ Working = {} /\ status' = "closed"
  /\ UNCHANGED <<journal, now, required, opening, closing, stops, faults, venue, snapshot>>

\* The connector does not know the closing order any more.
Forget ==
  /\ Turn /\ closing # 0 /\ sent[closing] \notin {"wire", "live"} /\ closing' = 0
  /\ UNCHANGED <<journal, now, required, status, opening, stops, faults, venue, snapshot>>

-----------------------------------------------------------------------------
(* Events *)

\* process_order_filled_event
OnFill(t) ==
  /\ ~Handling /\ Record(t)
  /\ required' = (required \/ (status = "closed" /\ AmountToClose' # 0))
  /\ UNCHANGED <<now, status, opening, closing, stops, faults, venue, snapshot>>

\* _terminal, or process_order_completed_event: an entry of this process that
\* ends unfilled stops the executor.  early_stop has a close to place, unless
\* place_order is going to refuse it, or nothing is left to close.
Ends(i, how) ==
  /\ ~Handling /\ SetStatus(i, how, now)
  /\ closing' = IF how # "filled" /\ closing = i THEN 0 ELSE closing
  /\ status' = IF how = "filled" \/ opening # i THEN status
               ELSE IF AmountToClose < Minimum THEN "shutting_down"
               ELSE IF required THEN status ELSE "stopping"
  /\ UNCHANGED <<now, required, opening, stops, trades, snapshot>>

\* early_stop asks neither how many closes there were nor whether one works.
EarlyStop ==
  /\ status = "stopping"
  /\ Begin("close", -1, AmountToClose) /\ status' = "shutting_down" /\ stops' = stops + 1

OnEnd(i) ==
  /\ sent[i] \in Terminal /\ log[i].status # sent[i]
  /\ Ends(i, sent[i]) /\ UNCHANGED <<sent, faults>>

\* The request fails.  Only its answer may be lost: the venue has the order by
\* then, alive or ended.
OnFail(i) ==
  /\ log[i].status = "working" /\ Ends(i, "failed")
  /\ \/ sent[i] = "wire" /\ sent' = [sent EXCEPT ![i] = "failed"] /\ UNCHANGED faults
     \/ /\ faults < MaxFaults /\ faults' = faults + 1
        /\ sent' = [sent EXCEPT ![i] = IF @ = "wire" THEN "live" ELSE @]

-----------------------------------------------------------------------------
(* Restart and recovery *)

\* The process is started again; place_order may have been under way.
Restart ==
  /\ faults < MaxFaults /\ faults' = faults + 1
  /\ required' = Blocking /\ status' = "running" /\ opening' = 0
  /\ closing' = Max({0} \cup (Closes \cap Working))
  /\ IF Sending THEN \E i \in Pending : sent' = [sent EXCEPT ![i] = "wire"]
                ELSE UNCHANGED sent
  /\ UNCHANGED <<journal, now, stops, trades, snapshot>>

\* resume_recovery
Resume ==
  /\ ~Handling /\ snapshot # NoSnapshot /\ Reconcile(snapshot, now)
  /\ IF Reason(snapshot) = "reduce_only_recovery_required" /\ ~Exhausted
     THEN required' = FALSE /\ status' = "shutting_down"
     ELSE UNCHANGED <<required, status>>
  /\ snapshot' = NoSnapshot
  /\ UNCHANGED <<now, opening, closing, stops, faults, venue>>

TakeSnapshot ==
  /\ snapshot' = [at |-> now, position |-> Position, open |-> Live]
  /\ UNCHANGED <<journal, now, executor, venue>>

-----------------------------------------------------------------------------
(* The venue.  A request on the wire may never arrive. *)

Accept(i) ==
  /\ sent[i] = "wire" /\ sent' = [sent EXCEPT ![i] = "live"]
  /\ UNCHANGED <<journal, now, executor, trades, snapshot>>

Trade(i) ==
  /\ sent[i] = "live"
  /\ \E lots \in 1 .. Left(i) :
       /\ log[i].role = "close" => lots <= Position
       /\ trades' = trades \cup {[order |-> i, n |-> Left(i), lots |-> lots, at |-> now]}
       /\ sent' = [sent EXCEPT ![i] = IF lots = Left(i) THEN "filled" ELSE "live"]
  /\ UNCHANGED <<journal, now, executor, snapshot>>

Cancel(i) ==
  /\ sent[i] = "live" /\ sent' = [sent EXCEPT ![i] = "canceled"]
  /\ UNCHANGED <<journal, now, executor, trades, snapshot>>

\* (Not within place_order or an event.)
Advance ==
  /\ now < MaxTime /\ now' = now + 1 /\ ~Handling
  /\ UNCHANGED <<journal, executor, venue, snapshot>>

-----------------------------------------------------------------------------
Init ==
  /\ JournalInit /\ now = 0
  /\ required = FALSE /\ status = "running" /\ opening = 0 /\ closing = 0 /\ stops = 0
  /\ faults = 0
  /\ sent = <<>> /\ trades = {}
  /\ snapshot = NoSnapshot

Next ==
  \/ Enter \/ Exit \/ Hold \/ Residue \/ Finish \/ Forget \/ EarlyStop
  \/ Placed \/ Raised \/ Restart \/ Resume \/ TakeSnapshot \/ Advance
  \/ \E t \in trades : OnFill(t)
  \/ \E i \in DOMAIN log : OnEnd(i) \/ OnFail(i) \/ Accept(i) \/ Trade(i) \/ Cancel(i)

Spec == Init /\ [][Next]_vars

-----------------------------------------------------------------------------
(* Properties *)

TypeOK ==
  /\ now \in 0 .. MaxTime /\ required \in BOOLEAN /\ closing \in {0} \cup Closes
  /\ status \in {"running", "stopping", "shutting_down", "closed"}
  /\ opening \in {0} \cup Orders /\ stops \in Nat
  /\ DOMAIN sent = DOMAIN log
  /\ \A i \in DOMAIN log :
       /\ log[i].status \in Terminal \cup {"pending", "working"}
       /\ sent[i] \in {"no", "wire", "live"} \cup Terminal
  /\ fills \subseteq trades /\ flatAt \in {NoVerdict, last}

\* No restart gives the executor new attempts: over its life it sends
\* _max_retries + 1 closes, and beyond that only those early_stop places when
\* the entry's request fails or is canceled, which are two at most.
AttemptsBounded ==
  /\ TypeOK /\ stops <= 2
  /\ Cardinality({i \in DOMAIN log : log[i].role = "close"}) <= MaxRetries + 1 + stops

\* A recorded "flat" lets an entry through.  It is true as long as it is
\* recorded, although events are late or lost and an order may be alive whose
\* request failed; only a snapshot of the very time of an owned event, which
\* the journal accepts, may have been taken before that event.
FlatMeansFlat ==
  flatAt \notin {NoVerdict, latest} => Position = 0 /\ Live = {}

\* "Crash between these calls retains an ambiguous intent and blocks restart":
\* the executor goes on only when what it is going to close is what the account
\* holds, and no order of its own can still change that, one it does not know
\* to have been sent included (with the same exception).
RecoverySound ==
  [][required /\ ~required' /\ status' = "shutting_down" /\ snapshot.at # latest =>
       AmountToClose = Position /\ \A i \in DOMAIN sent : sent[i] \notin {"wire", "live"}]_vars

-----------------------------------------------------------------------------
(* The inductive invariant behind them *)

Statuses == Terminal \cup {"pending", "working"}
Order    == [role : {"entry", "close"}, side : {1, -1}, lots : Int,
             status : Statuses]

\* An order of the log is of the past and on the side its role asks for; what
\* was traded and what is recorded belongs to orders the journal has.
Shapes ==
  /\ log \in Seq(Order)
  /\ \A i \in DOMAIN log : log[i].side = IF log[i].role = "entry" THEN 1 ELSE -1
  /\ latest \in 0 .. now
  /\ sent \in Seq({"no", "wire", "live"} \cup Terminal) /\ Len(sent) = Len(log)
  /\ IsFiniteSet(trades)
  /\ \A t \in trades : t.order \in DOMAIN log /\ t.lots \in Int /\ t.at \in 0 .. now
  /\ \A t \in fills : t.order \in Orders

\* An order that may still reach the venue has not ended in the journal.
WireOpen == \A i \in DOMAIN log : sent[i] = "wire" => log[i].status \notin Terminal

\* Unless the journal has had an event since the snapshot, an order that is
\* alive, or has traded, since then is in the snapshot or open in the journal.
Unsettled(i) == i \in snapshot.open \/ log[i].status \notin Terminal

SnapshotExplains ==
  snapshot # NoSnapshot =>
    /\ snapshot.at \in 0 .. now
    /\ latest < snapshot.at =>
         /\ \A i \in Live : Unsettled(i)
         /\ Position # snapshot.position => \E i \in DOMAIN log : Unsettled(i)

\* While a verdict "flat" is recorded every order has ended, and it holds
\* unless its snapshot is as old as the latest event.
VerdictHolds ==
  flatAt # NoVerdict =>
    /\ Pending = {} /\ Working = {} /\ flatAt >= latest
    /\ flatAt # latest => Position = 0 /\ Live = {}

\* The closes early_stop has placed, and the one it is about to place.
EarlyCloses == IF status = "stopping" THEN stops + 1 ELSE stops

\* Only the first order is an entry.  While it works in the journal nothing was
\* stopped; its failed request leaves it at most one more end to report.
StopsAreEnds ==
  /\ \A i \in DOMAIN log : log[i].role = "entry" => i = 1
  /\ opening \in {0, 1} /\ EarlyCloses <= 2
  /\ DOMAIN log = {} => EarlyCloses = 0
  /\ 1 \in DOMAIN log =>
       /\ log[1].status \in {"pending", "working"} => EarlyCloses = 0
       /\ sent[1] \in {"wire", "live"} \/ log[1].status # sent[1] => EarlyCloses <= 1

IInv == /\ TypeOK /\ AttemptsBounded /\ StopsAreEnds /\ Shapes /\ WireOpen
        /\ SnapshotExplains /\ VerdictHolds
=============================================================================
