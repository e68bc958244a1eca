------------------------------ MODULE PairedModel ------------------------------
(***************************************************************************)
(* PairedModel of src/execution/paired.py: the reducer of PackageReducer   *)
(* behind event identities and a journal, and the checkpoint that restores *)
(* it by replaying the journal.                                            *)
(***************************************************************************)
EXTENDS PackageReducer, Sequences

CONSTANTS
  Ids,        \* the identities an event may carry
  Inbox,      \* the events that may arrive
  Capacity    \* 10000 in the code: the length of a full journal

VARIABLES
  journal,  \* every event applied, with its identity
  events    \* what each identity stands for

model == [state |-> state, journal |-> journal, events |-> events]

ASSUME ModelAssumption == Capacity \in Nat /\ Inbox \subseteq Events

Unseen == [type |-> "unseen"]

\* An event is journalled together with its identity.
Entry == [id : Ids, event : Inbox]

\* PairedModel.__init__
Fresh == [state |-> Flat, journal |-> <<>>, events |-> [i \in Ids |-> Unseen]]

Reduced(m, e) ==
  [state |-> Transition(m.state, e.event),
   journal |-> Append(m.journal, e),
   events |-> [m.events EXCEPT ![e.id] = e.event]]

\* Mutant: an event that is delivered again is applied again.
AppliedAgain(m, e) ==
  IF Len(m.journal) >= Capacity THEN m
  ELSE IF m.events[e.id] \notin {Unseen, e.event}
  THEN [m EXCEPT !.state = Conflicting(@), !.journal = Append(@, e)]
  ELSE Reduced(m, e)

\* Mutant: the conflict stops the package, but leaves no trace of itself.
AppliedUnrecorded(m, e) ==
  IF m.events[e.id] = e.event \/ Len(m.journal) >= Capacity THEN m
  ELSE IF m.events[e.id] # Unseen THEN [m EXCEPT !.state.phase = "halted"]
  ELSE Reduced(m, e)

\* PairedModel.apply: a repeated event changes nothing, a conflicting one
\* halts, and a full journal admits neither a conflict nor a new event.
Applied(m, e) ==
  IF m.events[e.id] = e.event \/ Len(m.journal) >= Capacity THEN m
  ELSE IF m.events[e.id] # Unseen
  THEN [m EXCEPT !.state = Conflicting(@), !.journal = Append(@, e)]
  ELSE Reduced(m, e)

\* The models PairedModel.restore goes through: one after each entry.
Replay(entries) ==
  LET after[n \in 0 .. Len(entries)] ==
        IF n = 0 THEN Fresh ELSE Applied(after[n - 1], entries[n])
  IN  after

\* PairedModel.restore, before it compares the states.
Restored(entries) == Replay(entries)[Len(entries)]

-----------------------------------------------------------------------------
Becomes(m) == state' = m.state /\ journal' = m.journal /\ events' = m.events

ModelInit ==
  state = Fresh.state /\ journal = Fresh.journal /\ events = Fresh.events

ModelNext == \E e \in Entry : Becomes(Applied(model, e))
ModelSpec == ModelInit /\ [][ModelNext]_<<state, journal, events>>

-----------------------------------------------------------------------------
(* Properties.  The reducer's Invariant, FlatOnlyWhenClosed and              *)
(* FaultsRetained hold of the package behind the journal too.                *)

ModelTypeOK ==
  /\ state \in State
  /\ journal \in Seq(Entry) /\ Len(journal) <= Capacity
  /\ events \in [Ids -> Inbox \cup {Unseen}]

\* A checkpoint is never refused with "package checkpoint state drift":
\* replaying any journal the model can have written yields the model, also
\* after conflicting duplicates and with a full journal.
RestoreFaithful == ModelTypeOK /\ Restored(journal) = model

\* What the reducer makes of the events of a journal, one after the other.
Course(entries) ==
  LET after[n \in 0 .. Len(entries)] ==
        IF n = 0 THEN Flat ELSE Transition(after[n - 1], entries[n].event)
  IN  after

\* The k-th entry is the one event its identity stands for.
Original(k) == journal[k].event = events[journal[k].id]

\* However often and in whatever order events are delivered, also again after
\* a conflict or with a full journal, each counts once: no two entries are the
\* event of one identity, and the package is what the reducer makes of the
\* events up to the first conflict, stopped there if there was one.
EventsOnce ==
  /\ \A j, k \in DOMAIN journal :
       j # k /\ journal[j].id = journal[k].id => ~Original(j) \/ ~Original(k)
  /\ \E n \in 0 .. Len(journal) :
       /\ \A k \in 1 .. n : Original(k)
       /\ \/ n = Len(journal) /\ state = Course(journal)[n]
          \/ /\ n < Len(journal) /\ ~Original(n + 1)
             /\ state = Conflicting(Course(journal)[n])
=============================================================================
