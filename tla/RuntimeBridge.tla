---------------------------- MODULE RuntimeBridge ----------------------------
(***************************************************************************)
(* The mailbox of src/runtime/bridge.py between the trading controller,    *)
(* which publishes snapshots and consumes leases, and the agent's tools,   *)
(* which submit adjustments and read the event tail.  It is four files in  *)
(* a directory, written one at a time under a file lock and read by some   *)
(* without it.                                                             *)
(*                                                                         *)
(* A publication is cut between its writes.  Submissions and consumptions  *)
(* make one write each and are one step.  Everybody reads the clock before *)
(* waiting for the lock, so a `now` may be one unit old.                   *)
(***************************************************************************)
EXTENDS Integers, Sequences, FiniteSets

CONSTANTS
  Ids,          \* request identifiers
  Patches,      \* adjustments within their bounds
  MaxReceipts,  \* MAX_RECEIPTS
  MaxEvents,    \* MAX_EVENTS
  MaxAge,       \* MAX_STATE_AGE
  MaxLease,     \* MAX_LEASE
  Window,       \* how far behind the basis of a submission may be
  MaxClock,     \* bound: the clock
  MaxSequence,  \* bound: publications
  MaxSessions   \* bound: controller sessions

ASSUME BridgeAssumption ==
  /\ {MaxReceipts, MaxEvents, MaxAge, MaxLease, Window} \subseteq Nat \ {0}
  /\ {MaxClock, MaxSequence, MaxSessions} \subseteq Nat \ {0}

VARIABLES
  present,   \* the files that exist
  stray,     \* has a crash left a temporary file behind?
  receipts,  \* requests.json: the receipt of every request
  active,    \* requests.json: the request whose lease runs
  events,    \* events.json
  snapshot,  \* snapshot.json
  pub,       \* the controller
  used,      \* the request whose adjustment it works with
  reader,    \* a follower of the events: where it is, has it missed one untold?
  clock,
  known,     \* history: the requests that ever got a receipt
  newest     \* history: the last request queued, when and in which session

files == <<present, stray, receipts, active, events, snapshot>>
vars  == <<files, pub, used, reader, clock, known, newest>>

-----------------------------------------------------------------------------
(* Data *)

Files    == {"initialized", "requests", "events", "snapshot"}
Times    == 0 .. MaxClock
Session  == 0 .. MaxSessions
Sequence == 0 .. MaxSequence

Request ==
  [id : Ids, session : Session, basis : Sequence, issued : Times,
   expires : 0 .. MaxClock + MaxLease, patch : Patches]
None      == [id |-> "none"]
NoReceipt == [digest |-> None, status |-> "none"]

\* `accepts` stands for mode, runtime_health, owned executors and enabled
\* options: the adjustments the published context admits.
State == [session : Session, sequence : Sequence, time : Times, accepts : SUBSET Patches]
NoState == [session |-> 0, sequence |-> 0, time |-> 0, accepts |-> {}]

Recorded == {id \in Ids : receipts[id] # NoReceipt}
Recent   == {clock, clock - 1} \cap Nat

LastEvent == IF events = <<>> THEN 0 ELSE events[Len(events)]

\* Mutant: what was checked when the request was queued is not checked again.
ValidOnce(r, state, now, consuming) ==
  /\ 0 <= now - state.time /\ now - state.time <= MaxAge
  /\ ~consuming => r.session = state.session /\ now < r.expires
  /\ r.patch \in state.accepts

\* validate_request
Valid(r, state, now, consuming) ==
  /\ r.session = state.session
  /\ 0 <= now - state.time /\ now - state.time <= MaxAge
  /\ 1 <= r.basis /\ r.basis <= state.sequence
  /\ consuming \/ state.sequence - Window <= r.basis
  /\ r.issued <= now /\ r.issued < r.expires /\ r.expires <= r.issued + MaxLease
  /\ consuming \/ state.time - MaxAge <= r.issued
  /\ now < r.expires
  /\ r.patch \in state.accepts

\* The publisher does not hold the lock.
Unlocked == pub.pc \in {"idle", "published"}

\* read_state finds everything it needs.
Readable == {"initialized", "requests", "snapshot"} \subseteq present

-----------------------------------------------------------------------------
(* publish *)

\* Mutant: only the snapshot is looked at.
FromSnapshot == snapshot.sequence + 1

\* An event without its snapshot has used its number up.
NextSequence ==
  (IF snapshot.sequence >= LastEvent THEN snapshot.sequence ELSE LastEvent) + 1

\* Mutant: whatever is left of an earlier directory is overwritten.
BootstrapAnyhow == "initialized" \notin present

\* "Never bootstrap around orphaned or foreign runtime files."
Bootstrap == present = {} /\ ~stray

Publishable(now) ==
  /\ present = Files
  /\ snapshot.time <= now

Publish ==
  /\ Unlocked
  /\ \E now \in Recent, accepts \in SUBSET Patches :
       /\ Bootstrap \/ Publishable(now)
       /\ pub' = [pub EXCEPT !.pc = IF Bootstrap THEN "marker" ELSE "append",
                             !.state = [session |-> pub.session, sequence |-> 0,
                                        time |-> now, accepts |-> accepts]]
  /\ used' = None
  /\ UNCHANGED <<files, reader, clock, known, newest>>

WriteMarker ==
  /\ pub.pc = "marker"
  /\ present' = present \cup {"initialized"} /\ pub' = [pub EXCEPT !.pc = "requests"]
  /\ UNCHANGED <<stray, receipts, active, events, snapshot, used, reader, clock,
                 known, newest>>

WriteRequests ==
  /\ pub.pc = "requests"
  /\ present' = present \cup {"requests"} /\ pub' = [pub EXCEPT !.pc = "events"]
  /\ receipts' = [id \in Ids |-> NoReceipt] /\ active' = None
  /\ UNCHANGED <<stray, events, snapshot, used, reader, clock, known, newest>>

WriteEvents ==
  /\ pub.pc = "events"
  /\ present' = present \cup {"events"} /\ pub' = [pub EXCEPT !.pc = "append"]
  /\ events' = <<>>
  /\ UNCHANGED <<stray, receipts, active, snapshot, used, reader, clock, known,
                 newest>>

Newest(s) == IF Len(s) > MaxEvents THEN Tail(s) ELSE s

AppendEvent ==
  /\ pub.pc = "append" /\ NextSequence <= MaxSequence
  /\ events' = Newest(Append(events, NextSequence))
  /\ pub' = [pub EXCEPT !.pc = "snapshot", !.state.sequence = NextSequence]
  /\ UNCHANGED <<present, stray, receipts, active, snapshot, used, reader, clock,
                 known, newest>>

WriteSnapshot ==
  /\ pub.pc = "snapshot"
  /\ present' = present \cup {"snapshot"} /\ snapshot' = pub.state
  /\ pub' = [pub EXCEPT !.pc = "published"]
  /\ UNCHANGED <<stray, receipts, active, events, used, reader, clock, known,
                 newest>>

\* The process dies, in the middle of a write or between two, and another
\* session starts.
Restart ==
  /\ pub.session < MaxSessions
  /\ pub' = [pc |-> "idle", session |-> pub.session + 1, state |-> NoState]
  /\ stray' \in {stray, stray \/ ~Unlocked}
  /\ used' = None
  /\ UNCHANGED <<present, receipts, active, events, snapshot, reader, clock,
                 known, newest>>

-----------------------------------------------------------------------------
(* submit and consume *)

\* The request the submit tool makes of a call: it is stamped with the time.
Stamped(id, session, basis, patch, duration, now) ==
  [id |-> id, session |-> session, basis |-> basis, issued |-> now,
   expires |-> now + duration, patch |-> patch]

\* Mutant: a full mailbox forgets a receipt for the new one.
QueueEvicts(r) ==
  /\ receipts[r.id] = NoReceipt
  /\ \E gone \in Ids \ {r.id} :
       /\ Cardinality(Recorded) < MaxReceipts \/ gone \in Recorded
       /\ receipts' = [id \in Ids |->
            IF id = r.id THEN [digest |-> r, status |-> "queued"]
            ELSE IF id = gone /\ Cardinality(Recorded) = MaxReceipts THEN NoReceipt
            ELSE IF active # None /\ id = active.id
                 THEN [receipts[id] EXCEPT !.status = "superseded"]
            ELSE receipts[id]]
  /\ active' = r
  /\ known' = [known EXCEPT ![r.id] = r]
  /\ newest' = [request |-> r, at |-> clock, session |-> pub.session]

Queue(r) ==
  /\ receipts[r.id] = NoReceipt /\ Cardinality(Recorded) < MaxReceipts
  /\ receipts' = [id \in Ids |->
       IF id = r.id THEN [digest |-> r, status |-> "queued"]
       ELSE IF active # None /\ id = active.id
            THEN [receipts[id] EXCEPT !.status = "superseded"]
       ELSE receipts[id]]
  /\ active' = r
  /\ known' = [known EXCEPT ![r.id] = r]
  /\ newest' = [request |-> r, at |-> clock, session |-> pub.session]

Repeat(r) ==
  /\ receipts[r.id].digest = r
  /\ UNCHANGED <<receipts, active, known, newest>>

Conflict(r) ==
  /\ receipts[r.id] # NoReceipt /\ receipts[r.id].digest # r
  /\ UNCHANGED <<receipts, active, known, newest>>

\* A refused submission changes nothing and is left out.
Submit ==
  /\ Unlocked /\ Readable
  /\ \E id \in Ids, session \in Session, basis \in Sequence, patch \in Patches,
        duration \in 1 .. MaxLease, now \in Recent :
       LET r == Stamped(id, session, basis, patch, duration, now)
       IN  /\ Valid(r, snapshot, now, FALSE)
           /\ Queue(r) \/ Repeat(r) \/ Conflict(r)
  /\ UNCHANGED <<present, stray, events, snapshot, pub, used, reader, clock>>

\* The controller asks for its adjustment with the state it has just published.
Consume ==
  /\ pub.pc = "published" /\ {"initialized", "requests"} \subseteq present
  /\ active # None
  /\ \E now \in Recent :
       /\ Valid(active, pub.state, now, TRUE)
       /\ receipts[active.id].digest = active
       /\ receipts' = [receipts EXCEPT ![active.id].status = "validated"]
  /\ used' = active /\ pub' = [pub EXCEPT !.pc = "idle", !.state = NoState]
  /\ UNCHANGED <<present, stray, active, events, snapshot, reader, clock, known,
                 newest>>

-----------------------------------------------------------------------------
(* The follower of the events, the clock and the directory *)

Unseen == {i \in DOMAIN events : events[i] > reader.cursor}

Gap == events # <<>> /\ reader.cursor < events[1] - 1

\* events(after_sequence, limit): those up to the last one that the limit allows.
Follow ==
  /\ {"initialized", "requests", "events"} \subseteq present
  /\ \E last \in Unseen :
       reader' = [cursor |-> events[last],
                  missed |-> \/ reader.missed
                             \/ ~Gap /\ reader.cursor + 1 \notin {events[i] : i \in Unseen}]
  /\ UNCHANGED <<files, pub, used, clock, known, newest>>

Tick ==
  /\ clock < MaxClock /\ clock' = clock + 1
  /\ UNCHANGED <<files, pub, used, reader, known, newest>>

\* A file is lost, while nobody is writing.
LoseFile ==
  /\ Unlocked /\ present = Files
  /\ \E file \in Files : present' = present \ {file}
  /\ UNCHANGED <<stray, receipts, active, events, snapshot, pub, used, reader,
                 clock, known, newest>>

-----------------------------------------------------------------------------
Init ==
  /\ present = {} /\ stray = FALSE
  /\ receipts = [id \in Ids |-> NoReceipt] /\ active = None
  /\ events = <<>> /\ snapshot = NoState
  /\ pub = [pc |-> "idle", session |-> 1, state |-> NoState]
  /\ used = None
  /\ reader = [cursor |-> 0, missed |-> FALSE]
  /\ clock = 0
  /\ known = [id \in Ids |-> None]
  /\ newest = [request |-> None, at |-> 0, session |-> 0]

Controller ==
  \/ Publish \/ WriteMarker \/ WriteRequests \/ WriteEvents \/ AppendEvent
  \/ WriteSnapshot \/ Consume \/ Restart

Next == Controller \/ Submit \/ Follow \/ Tick \/ LoseFile

Spec == Init /\ [][Next]_vars

-----------------------------------------------------------------------------
(* Properties *)

\* The bounds of the files: no more than MAX_RECEIPTS receipts, no more than
\* MAX_EVENTS events.
TypeOK ==
  /\ present \subseteq Files /\ stray \in BOOLEAN
  /\ DOMAIN receipts = Ids /\ Cardinality(Recorded) <= MaxReceipts
  /\ \A id \in Recorded :
       receipts[id] \in [digest : Request, status : {"queued", "validated", "superseded"}]
  /\ active \in Request \cup {None}
  /\ events \in Seq(Sequence) /\ Len(events) <= MaxEvents
  /\ snapshot \in State
  /\ pub \in [pc : {"idle", "marker", "requests", "events", "append", "snapshot", "published"},
              session : Session, state : State]
  /\ used \in Request \cup {None}
  /\ reader \in [cursor : Sequence, missed : BOOLEAN]
  /\ clock \in Times

\* "Every receipt persists": for as long as there is a mailbox, no request that
\* ever got a receipt is without it or has another one, across restarts,
\* partial publications and lost files, and yet the files keep their bounds.
ReceiptsPersist ==
  /\ TypeOK
  /\ "requests" \in present => \A id \in Ids : known[id] # None => receipts[id].digest = known[id]

\* An adjustment the controller works with is the last one queued, in this very
\* session of the controller and no longer ago than a lease may last.
LeaseSound ==
  [][used' \notin {used, None} =>
       /\ used' = newest.request
       /\ newest.session = pub.session
       /\ clock - newest.at <= MaxLease]_vars

\* No two publications have the same number, although one may be cut off
\* between its event and its snapshot: the event tail counts without repetition
\* or hole, and the snapshot is never ahead of it.  "The tail retains 128 events;
\* cursor gaps require refreshing the snapshot": a follower who was never told
\* of a gap has missed none.
SequenceFresh ==
  /\ \A i \in 1 .. Len(events) - 1 : events[i + 1] = events[i] + 1
  /\ snapshot.sequence <= LastEvent
  /\ ~reader.missed

\* "Partial publication failures require review rather than silent
\* reinitialization": once the directory is incomplete it stays so and nothing
\* is published any more.
Damaged ==
  /\ Unlocked
  /\ \/ "initialized" \notin present /\ (present # {} \/ stray)
     \/ "initialized" \in present /\ present # Files

NeverReinitialised ==
  [][Damaged => Damaged' /\ snapshot' = snapshot /\ events' = events]_vars
=============================================================================
