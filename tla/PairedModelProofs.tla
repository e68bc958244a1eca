--------------------------- MODULE PairedModelProofs ---------------------------
(***************************************************************************)
(* The reducer keeps the project's own invariant() for every lot count and *)
(* every amount, and no fault ever gives a reservation back.  Behind event *)
(* identities and a journal of any capacity the model takes no step the    *)
(* reducer does not take, no event counts twice, and replaying its journal *)
(* restores it.                                                            *)
(***************************************************************************)
EXTENDS PairedModel, TLAPS

-----------------------------------------------------------------------------
(* What each event does to a well-typed package *)

LEMMA FlatTyped == Flat \in State
  BY DEF Flat, State, Phases, Reasons

LEMMA PreparedTyped ==
  ASSUME NEW s \in State, NEW e \in Prepares
  PROVE  /\ Prepared(s, e) \in State
         /\ \/ Prepared(s, e) = s
            \/ /\ s.phase = "flat" /\ e.reserve > 0
               /\ Prepared(s, e) = [Flat EXCEPT !.phase = "opening",
                                      !.target = e.target, !.reserved = e.reserve]
  BY QuantityAssumption DEF Prepared, Prepares, Flat, State, Phases, Reasons

\* Preparing is refused, or it opens a package on a flat account.
LEMMA PreparedOpens ==
  ASSUME NEW s \in State, NEW e \in Prepares, Prepared(s, e) # s
  PROVE  s.phase = "flat" /\ s.reserved = 0 /\ Prepared(s, e).phase = "opening"
  BY DEF Prepared, Flat

LEMMA TimedOutTyped ==
  ASSUME NEW s \in State
  PROVE  TimedOut(s) \in State
  BY DEF TimedOut, State, Phases, Reasons

LEMMA ReportedTyped ==
  ASSUME NEW s \in State, NEW e \in Reports
  PROVE  Reported(s, e) \in State
<1>1. e.buy \in Nat /\ e.sell \in Nat
  BY QuantityAssumption DEF Reports
<1>a. <<e.buy, e.sell>> \in Int \X Int
  BY <1>1
<1>2. Unmatched(s, e) \in State
  BY <1>a DEF Unmatched, State, Phases, Reasons
<1>3. Opened(s, e) \in State
  BY <1>1, FlatTyped DEF Opened, State, Phases, Reasons, Reports
<1>4. Closed(s, e) \in State
  BY <1>1, FlatTyped DEF Closed, State, Phases, Reasons, Reports
<1>5. QED
  BY <1>2, <1>3, <1>4 DEF Reported

LEMMA ConflictingTyped ==
  ASSUME NEW s \in State
  PROVE  Conflicting(s) \in State
<1>1. Exposure(s) \in Int \X Int
  BY DEF Exposure, State
<1>2. QED
  BY <1>1 DEF Conflicting, State, Phases, Reasons

LEMMA ClosingTyped ==
  ASSUME NEW s \in State
  PROVE  [s EXCEPT !.phase = "closing"] \in State
  BY DEF State, Phases

\* Every kind of event keeps a package well typed.
LEMMA TransitionTyped ==
  ASSUME NEW s \in State, NEW e \in Events
  PROVE  Transition(s, e) \in State
<1>1. CASE e \in Prepares
  BY <1>1, PreparedTyped DEF Transition, Prepares
<1>2. CASE e \in Reports
  BY <1>2, ReportedTyped DEF Transition, Reports
<1>3. CASE e \in [type : {"request_close", "timeout"}]
  <2>1. e.type \in {"request_close", "timeout"}
    BY <1>3
  <2>2. CASE e.type = "request_close"
    BY <2>2, ClosingTyped DEF Transition
  <2>3. CASE e.type = "timeout"
    BY <2>3, TimedOutTyped DEF Transition
  <2>4. QED
    BY <2>1, <2>2, <2>3
<1>4. QED
  BY <1>1, <1>2, <1>3 DEF Events

-----------------------------------------------------------------------------
(* The project's invariant, of one package *)

Sound(s) ==
  /\ s.phase = "halted" => s.target = 0 \/ s.reserved > 0
  /\ s.phase = "flat" => s.reserved = 0 /\ Exposure(s) = <<0, 0>>
  /\ s.phase \notin {"halted", "flat"} =>
       /\ s.reserved > 0
       /\ s.close_buy <= s.open_buy /\ s.open_buy <= s.target
       /\ s.open_buy = s.open_sell /\ s.close_buy = s.close_sell

\* A flat package is the initial one: nothing of an earlier package is left.
Clean(s) == s.phase = "flat" => s.target = 0

IInv == TypeOK /\ Sound(state) /\ Clean(state)

LEMMA FlatSound == Sound(Flat) /\ Clean(Flat)
  BY DEF Sound, Clean, Flat, Exposure

LEMMA OpenedSound ==
  ASSUME NEW s \in State, NEW e \in Reports, Sound(s), s.phase = "opening",
         MatchedReportGuard(<<s.open_buy, s.open_sell>>, e, s.target)
  PROVE  Sound(Opened(s, e)) /\ Clean(Opened(s, e))
  BY FlatSound, QuantityAssumption
  DEF Opened, Sound, Clean, MatchedReportGuard, Reports, State, Phases

LEMMA ClosedSound ==
  ASSUME NEW s \in State, NEW e \in Reports, Sound(s), s.phase = "closing",
         MatchedReportGuard(<<s.close_buy, s.close_sell>>, e, s.open_buy)
  PROVE  Sound(Closed(s, e)) /\ Clean(Closed(s, e))
  BY FlatSound, QuantityAssumption
  DEF Closed, Sound, Clean, MatchedReportGuard, Reports, State, Phases

LEMMA ReportedSound ==
  ASSUME NEW s \in State, NEW e \in Reports, Sound(s), Clean(s)
  PROVE  Sound(Reported(s, e)) /\ Clean(Reported(s, e))
<1>1. ASSUME s.phase # "halted"
      PROVE  Sound(Unmatched(s, e)) /\ Clean(Unmatched(s, e))
  BY <1>1 DEF Unmatched, Sound, Clean, State, Phases
<1>2. ASSUME s.phase = "halted"
      PROVE  Sound(Unmatched(s, e)) /\ Clean(Unmatched(s, e))
  BY <1>2 DEF Unmatched, Sound, Clean, State, Phases
<1>3. QED
  BY <1>1, <1>2, OpenedSound, ClosedSound DEF Reported

\* Every kind of event keeps a sound package sound.
LEMMA TransitionSound ==
  ASSUME NEW s \in State, NEW e \in Events, Sound(s), Clean(s)
  PROVE  Sound(Transition(s, e)) /\ Clean(Transition(s, e))
<1>1. CASE e \in Prepares
  <2>1. ASSUME s.phase = "flat", e.reserve > 0
        PROVE  LET p == [Flat EXCEPT !.phase = "opening",
                                     !.target = e.target, !.reserved = e.reserve]
               IN  Sound(p) /\ Clean(p)
    BY <1>1, <2>1, QuantityAssumption DEF Flat, Sound, Clean, Prepares, Exposure
  <2>2. Sound(Prepared(s, e)) /\ Clean(Prepared(s, e))
    BY <1>1, <2>1, PreparedTyped
  <2>3. QED
    BY <1>1, <2>2 DEF Transition, Prepares
<1>2. CASE e \in Reports
  BY <1>2, ReportedSound DEF Transition, Reports
<1>3. CASE e \in [type : {"request_close", "timeout"}]
  <2>1. e.type \in {"request_close", "timeout"}
    BY <1>3
  <2>2. ASSUME s.phase = "open"
        PROVE  LET p == [s EXCEPT !.phase = "closing"] IN Sound(p) /\ Clean(p)
    BY <2>2 DEF Sound, Clean, State, Phases
  <2>3. Sound(TimedOut(s)) /\ Clean(TimedOut(s))
    BY DEF TimedOut, Sound, Clean, State, Phases
  <2>4. CASE e.type = "request_close"
    BY <2>2, <2>4 DEF Transition
  <2>5. CASE e.type = "timeout"
    BY <2>3, <2>5 DEF Transition
  <2>6. QED
    BY <2>1, <2>4, <2>5
<1>4. QED
  BY <1>1, <1>2, <1>3 DEF Events

LEMMA ConflictingSound ==
  ASSUME NEW s \in State, Sound(s), Clean(s)
  PROVE  Sound(Conflicting(s)) /\ Clean(Conflicting(s))
  BY DEF Conflicting, Sound, Clean, State, Phases

-----------------------------------------------------------------------------
(* The theorems *)

\* The inductive invariant holds for every lot count and every amount.
THEOREM Inductive == Spec => []IInv
<1>1. Init => IInv
  BY FlatTyped, FlatSound DEF Init, IInv, TypeOK
<1>2. IInv /\ [Next]_state => IInv'
  <2> SUFFICES ASSUME IInv, [Next]_state PROVE IInv'
    OBVIOUS
  <2>1. CASE Reduce
    BY <2>1, TransitionTyped, TransitionSound DEF Reduce, IInv, TypeOK
  <2>2. CASE Conflict
    BY <2>2, ConflictingTyped, ConflictingSound DEF Conflict, IInv, TypeOK
  <2>3. CASE UNCHANGED state
    BY <2>3 DEF IInv, TypeOK
  <2>4. QED
    BY <2>1, <2>2, <2>3 DEF Next
<1>3. QED
  BY <1>1, <1>2, PTL DEF Spec

\* The package keeps its type.
THEOREM TypeCorrect == Spec => []TypeOK
<1>1. IInv => TypeOK
  BY DEF IInv
<1>2. QED
  BY <1>1, Inductive, PTL

\* The project's invariant() is preserved, for every target and every report.
THEOREM InvariantHolds == Spec => []Invariant
<1>1. IInv => Invariant
  BY DEF IInv, Invariant, Sound
<1>2. QED
  BY <1>1, Inductive, PTL

\* Faults keep what is reserved, targeted and open, and are never left.
THEOREM FaultsKept == Spec => FaultsRetained
<1> DEFINE Kept(s, t) ==
      /\ s.phase = "halted" => t.phase = "halted"
      /\ t.phase = "halted" => /\ t.reserved = s.reserved /\ t.target = s.target
                               /\ Exposure(t) = Exposure(s)
<1>1. ASSUME NEW s \in State, NEW e \in Events
      PROVE  Kept(s, Transition(s, e))
  <2>1. CASE s.phase = "halted"
    BY <2>1 DEF Transition
  <2>2. CASE e \in Prepares /\ s.phase # "halted"
    <3>1. Transition(s, e) = Prepared(s, e)
      BY <2>2 DEF Transition, Prepares
    <3>2. CASE Prepared(s, e) = s
      BY <3>1, <3>2
    <3>3. CASE Prepared(s, e) # s
      BY <2>2, <3>1, <3>3, PreparedOpens
    <3>4. QED
      BY <3>2, <3>3
  <2>3. CASE e \in Reports /\ s.phase # "halted"
    <3>1. Kept(s, Unmatched(s, e))
      BY <2>3 DEF Unmatched, State, Exposure
    <3>2. s.phase = "opening" => Opened(s, e).phase # "halted"
      BY <2>3 DEF Opened, State, Flat, Reports
    <3>3. s.phase = "closing" => Closed(s, e).phase # "halted"
      BY <2>3 DEF Closed, State, Flat, Reports
    <3>4. QED
      BY <2>3, <3>1, <3>2, <3>3 DEF Reported, Transition, Reports
  <2>4. CASE e \in [type : {"request_close", "timeout"}]
    <3>1. e.type \in {"request_close", "timeout"}
      BY <2>4
    <3>2. Kept(s, TimedOut(s))
      BY DEF TimedOut, State, Exposure
    <3>3. s.phase = "open" => Kept(s, [s EXCEPT !.phase = "closing"])
      BY DEF State
    <3>4. CASE e.type = "request_close"
      BY <3>3, <3>4 DEF Transition
    <3>5. CASE e.type = "timeout"
      BY <3>2, <3>5 DEF Transition
    <3>6. QED
      BY <3>1, <3>4, <3>5
  <2>5. QED
    BY <2>1, <2>2, <2>3, <2>4 DEF Events
<1>2. ASSUME NEW s \in State
      PROVE  Kept(s, Conflicting(s))
  BY DEF Conflicting, State, Exposure
<1>3. IInv /\ [Next]_state => [Kept(state, state')]_state
  BY <1>1, <1>2 DEF Next, Reduce, Conflict, IInv, TypeOK
<1>4. QED
  BY <1>3, Inductive, PTL DEF Spec, FaultsRetained

\* Of all reports, only one that closes the whole package makes it flat.
THEOREM NeverPretendedFlat == Spec => []FlatOnlyWhenClosed
<1>1. ASSUME IInv, NEW e \in Events, state # Flat, Transition(state, e) = Flat
      PROVE  /\ e.type \in {"open_report", "close_report"} /\ e.terminal
             /\ e.type = "open_report" => <<e.buy, e.sell>> = <<0, 0>>
             /\ e.type = "close_report" =>
                  <<e.buy, e.sell>> = <<state.open_buy, state.open_sell>>
  <2> USE <1>1 DEF IInv, TypeOK
  <2>1. Flat.phase = "flat" /\ state.phase # "halted"
    BY DEF Flat, Transition
  <2>2. e \notin Prepares
    <3>1. SUFFICES ASSUME e \in Prepares PROVE FALSE
      OBVIOUS
    <3>2. Transition(state, e) = Prepared(state, e)
      BY <2>1, <3>1 DEF Transition, Prepares
    <3>3. QED
      BY <2>1, <3>1, <3>2, PreparedOpens
  <2>3. e \notin [type : {"request_close", "timeout"}]
    <3>1. SUFFICES ASSUME e.type \in {"request_close", "timeout"} PROVE FALSE
      OBVIOUS
    <3>2. [state EXCEPT !.phase = "closing"].phase # "flat"
      BY DEF State
    <3>3. TimedOut(state) = state \/ TimedOut(state).phase # "flat"
      BY DEF TimedOut, State
    <3>4. QED
      BY <2>1, <3>1, <3>2, <3>3 DEF Transition
  <2>4. e \in Reports /\ Transition(state, e) = Reported(state, e)
    BY <2>1, <2>2, <2>3 DEF Events, Transition, Reports
  <2>5. Unmatched(state, e).phase # "flat"
    BY DEF Unmatched, State
  <2>6. CASE e.type = "open_report"
    <3>1. /\ MatchedReportGuard(<<state.open_buy, state.open_sell>>, e, state.target)
          /\ state.phase = "opening" /\ Opened(state, e) = Flat
      BY <2>1, <2>4, <2>5, <2>6 DEF Reported
    <3>2. e.terminal /\ e.buy = 0
      BY <2>1, <2>4, <3>1 DEF Opened, State, Reports
    <3>3. e.sell = e.buy
      BY <3>1 DEF MatchedReportGuard
    <3>4. QED
      BY <2>6, <3>2, <3>3
  <2>7. CASE e.type = "close_report"
    <3>1. /\ MatchedReportGuard(<<state.close_buy, state.close_sell>>, e, state.open_buy)
          /\ state.phase = "closing" /\ Closed(state, e) = Flat
      BY <2>1, <2>4, <2>5, <2>7 DEF Reported
    <3>2. e.terminal /\ e.buy = state.open_buy
      BY <2>1, <2>4, <3>1 DEF Closed, State, Reports
    <3>3. e.sell = e.buy /\ state.open_sell = state.open_buy
      BY <3>1 DEF MatchedReportGuard, Sound
    <3>4. QED
      BY <2>7, <3>2, <3>3
  <2>8. QED
    BY <2>4, <2>6, <2>7 DEF Reports
<1>2. IInv => FlatOnlyWhenClosed
  BY <1>1 DEF FlatOnlyWhenClosed
<1>3. QED
  BY <1>2, Inductive, PTL

\* A reservation is given back only with its package, never by a fault.
THEOREM ReservationKept == Spec => ReservationHeld
<1> DEFINE Held(s, t) ==
      s.reserved > 0 /\ t.reserved # s.reserved =>
        /\ t = Flat /\ s.phase \in {"opening", "closing"}
        /\ s.phase = "opening" => s.open_buy = 0
<1>1. ASSUME NEW s \in State, NEW e \in Events, Sound(s)
      PROVE  Held(s, Transition(s, e))
  <2>1. CASE s.phase = "halted"
    BY <2>1 DEF Transition
  <2>2. CASE e \in Prepares /\ s.phase # "halted"
    <3>1. Transition(s, e) = Prepared(s, e)
      BY <2>2 DEF Transition, Prepares
    <3>2. Prepared(s, e) = s \/ s.reserved = 0
      BY <2>2, PreparedOpens
    <3>3. QED
      BY <3>1, <3>2
  <2>3. CASE e \in Reports /\ s.phase # "halted"
    <3>1. Transition(s, e) = Reported(s, e)
      BY <2>3 DEF Transition, Reports
    <3>2. Unmatched(s, e).reserved = s.reserved
      BY DEF Unmatched, State
    <3>3. ASSUME s.phase = "opening",
                 MatchedReportGuard(<<s.open_buy, s.open_sell>>, e, s.target)
          PROVE  Held(s, Opened(s, e))
      BY <2>3, <3>3, QuantityAssumption
      DEF Opened, MatchedReportGuard, State, Reports
    <3>4. s.phase = "closing" => Held(s, Closed(s, e))
      BY <2>3 DEF Closed, State, Reports
    <3>5. QED
      BY <3>1, <3>2, <3>3, <3>4 DEF Reported
  <2>4. CASE e \in [type : {"request_close", "timeout"}]
    <3>1. e.type \in {"request_close", "timeout"}
      BY <2>4
    <3>2. Held(s, TimedOut(s))
      BY DEF TimedOut, State
    <3>3. Held(s, [s EXCEPT !.phase = "closing"])
      BY DEF State
    <3>4. CASE e.type = "request_close"
      BY <3>3, <3>4 DEF Transition
    <3>5. CASE e.type = "timeout"
      BY <3>2, <3>5 DEF Transition
    <3>6. QED
      BY <3>1, <3>4, <3>5
  <2>5. QED
    BY <2>1, <2>2, <2>3, <2>4 DEF Events
<1>2. ASSUME NEW s \in State
      PROVE  Held(s, Conflicting(s))
  BY DEF Conflicting, State
<1>3. IInv /\ [Next]_state => [Held(state, state')]_state
  BY <1>1, <1>2 DEF Next, Reduce, Conflict, IInv, TypeOK
<1>4. QED
  BY <1>3, Inductive, PTL DEF Spec, ReservationHeld

-----------------------------------------------------------------------------
(* The model behind its journal *)

\* A repeated event is a stutter, a conflicting one a conflict, and a new
\* one a transition of the reducer.
LEMMA ApplyReduces ==
  ASSUME NEW e \in Entry, Becomes(Applied(model, e))
  PROVE  [Next]_state
<1>1. e.event \in Events
  BY ModelAssumption DEF Entry
<1>2. CASE Applied(model, e) = model
  BY <1>2 DEF Becomes, model
<1>3. CASE Applied(model, e) = [model EXCEPT !.state = Conflicting(@), !.journal = Append(@, e)]
  <2>1. state' = Conflicting(state)
    BY <1>3 DEF Becomes, model
  <2>2. QED
    BY <2>1 DEF Next, Conflict
<1>4. CASE Applied(model, e) = Reduced(model, e)
  <2>1. state' = Transition(state, e.event)
    BY <1>4 DEF Becomes, Reduced, model
  <2>2. QED
    BY <1>1, <2>1 DEF Next, Reduce
<1>5. QED
  BY <1>2, <1>3, <1>4 DEF Applied

\* Behind its journal the model takes steps of the reducer only, so what is
\* proved above of the package holds of it too.
LEMMA ModelReduces == ModelSpec => Spec
<1>1. ModelInit => Init
  BY DEF ModelInit, Fresh, Init
<1>2. [ModelNext]_<<state, journal, events>> => [Next]_state
  BY ApplyReduces DEF ModelNext
<1>3. QED
  BY <1>1, <1>2, PTL DEF ModelSpec, Spec

-----------------------------------------------------------------------------
(* The journal.  That replaying it restores the model is an induction over   *)
(* the journal; the model's own steps, which only ever append to it, are     *)
(* taken for that induction.                                                 *)

\* Applying an event leaves the model alone or appends that event.
LEMMA ApplyTyped ==
  ASSUME ModelTypeOK, NEW e \in Entry, Becomes(Applied(model, e))
  PROVE  /\ ModelTypeOK'
         /\ model' = Applied(model, e)
         /\ journal' = journal \/ journal' = Append(journal, e)
         /\ journal' = journal => model' = model
<1>1. e.event \in Events /\ e.event \in Inbox /\ e.id \in Ids
  BY ModelAssumption DEF Entry
<1>2. CASE Applied(model, e) = model
  <2>1. model' = model
    BY <1>2 DEF Becomes, model
  <2>2. state' = state /\ journal' = journal /\ events' = events
    BY <1>2 DEF Becomes, model
  <2>3. QED
    BY <1>2, <2>1, <2>2 DEF ModelTypeOK
<1>3. CASE /\ Len(journal) < Capacity
           /\ Applied(model, e) = [model EXCEPT !.state = Conflicting(@), !.journal = Append(@, e)]
  <2>1. state' = Conflicting(state) /\ journal' = Append(journal, e) /\ events' = events
    BY <1>3 DEF Becomes, model
  <2>2. model' = Applied(model, e)
    BY <1>3, <2>1 DEF model
  <2>3. state' \in State
    BY <2>1, ConflictingTyped DEF ModelTypeOK
  <2>4. journal' \in Seq(Entry) /\ Len(journal') = Len(journal) + 1
    BY <2>1 DEF ModelTypeOK
  <2>5. Len(journal') <= Capacity /\ journal' # journal
    BY <2>4, <1>3, ModelAssumption DEF ModelTypeOK
  <2>6. QED
    BY <2>1, <2>2, <2>3, <2>4, <2>5 DEF ModelTypeOK
<1>4. CASE Len(journal) < Capacity /\ Applied(model, e) = Reduced(model, e)
  <2>0. Applied(model, e) = [state |-> Transition(state, e.event),
                             journal |-> Append(journal, e),
                             events |-> [events EXCEPT ![e.id] = e.event]]
    BY <1>4, Zenon DEF Reduced, model
  <2>1. /\ state' = Transition(state, e.event)
        /\ journal' = Append(journal, e)
        /\ events' = [events EXCEPT ![e.id] = e.event]
    BY <2>0 DEF Becomes
  <2>2. model' = Applied(model, e)
    BY <1>4, <2>1 DEF model, Reduced
  <2>3. state' \in State
    BY <1>1, <2>1, TransitionTyped DEF ModelTypeOK
  <2>4. journal' \in Seq(Entry) /\ Len(journal') = Len(journal) + 1
    BY <2>1 DEF ModelTypeOK
  <2>5. Len(journal') <= Capacity /\ journal' # journal
    BY <2>4, <1>4, ModelAssumption DEF ModelTypeOK
  <2>6. events' \in [Ids -> Inbox \cup {Unseen}]
    BY <1>1, <2>1 DEF ModelTypeOK
  <2>7. QED
    BY <2>1, <2>2, <2>3, <2>4, <2>5, <2>6 DEF ModelTypeOK
<1>5. ~(Len(model.journal) >= Capacity) => Len(journal) < Capacity
  BY ModelAssumption DEF model, ModelTypeOK
<1>6. QED
  BY <1>2, <1>3, <1>4, <1>5 DEF Applied

\* after goes through a replay of the entries.
Replays(after, entries) ==
  after = [n \in 0 .. Len(entries) |->
             IF n = 0 THEN Fresh ELSE Applied(after[n - 1], entries[n])]

\* The journal has a replay, and every replay of it ends at the model.
Restorable ==
  /\ \E after : Replays(after, journal)
  /\ \A after : Replays(after, journal) => after[Len(journal)] = model

\* A replay of the longer journal goes through one of the shorter.
LEMMA ReplayShortens ==
  ASSUME NEW j \in Seq(Entry), NEW e \in Entry, NEW after, Replays(after, Append(j, e))
  PROVE  \E before : /\ Replays(before, j)
                     /\ after[Len(Append(j, e))] = Applied(before[Len(j)], e)
<1> DEFINE before == [n \in 0 .. Len(j) |-> after[n]]
<1>1. Len(j) \in Nat /\ Len(Append(j, e)) = Len(j) + 1
  OBVIOUS
<1>2. \A n \in 0 .. Len(j) + 1 :
        after[n] = IF n = 0 THEN Fresh ELSE Applied(after[n - 1], Append(j, e)[n])
  BY <1>1 DEF Replays
<1>3. \A n \in 0 .. Len(j) :
        before[n] = IF n = 0 THEN Fresh ELSE Applied(before[n - 1], j[n])
  <2>1. TAKE n \in 0 .. Len(j)
  <2>2. CASE n = 0
    BY <1>1, <1>2, <2>2
  <2>3. CASE n # 0
    <3>1. n \in 1 .. Len(j) /\ n - 1 \in 0 .. Len(j) /\ n \in 0 .. Len(j) + 1
      BY <1>1, <2>3
    <3>2. Append(j, e)[n] = j[n]
      BY <3>1
    <3>3. before[n] = after[n] /\ before[n - 1] = after[n - 1]
      BY <3>1
    <3>4. QED
      BY <1>2, <2>3, <3>1, <3>2, <3>3
  <2>4. QED
    BY <2>2, <2>3
<1>4. Replays(before, j)
  BY <1>3 DEF Replays
<1>5. after[Len(j) + 1] = Applied(before[Len(j)], e)
  <2>1. Len(j) + 1 \in 0 .. Len(j) + 1 /\ Len(j) + 1 # 0 /\ Len(j) \in 0 .. Len(j)
    BY <1>1
  <2>2. Append(j, e)[Len(j) + 1] = e /\ Len(j) + 1 - 1 = Len(j)
    BY <1>1
  <2>3. before[Len(j)] = after[Len(j)]
    BY <2>1
  <2>4. QED
    BY <1>2, <2>1, <2>2, <2>3
<1>6. QED
  BY <1>1, <1>4, <1>5

\* A replay of the shorter journal goes on to one of the longer.
LEMMA ReplayGoesOn ==
  ASSUME NEW j \in Seq(Entry), NEW e \in Entry, NEW before, Replays(before, j)
  PROVE  \E after : Replays(after, Append(j, e))
<1> DEFINE after == [n \in 0 .. Len(j) + 1 |->
                       IF n <= Len(j) THEN before[n] ELSE Applied(before[Len(j)], e)]
<1>1. Len(j) \in Nat /\ Len(Append(j, e)) = Len(j) + 1
  OBVIOUS
<1>2. \A n \in 0 .. Len(j) :
        before[n] = IF n = 0 THEN Fresh ELSE Applied(before[n - 1], j[n])
  BY <1>1 DEF Replays
<1>3. \A n \in 0 .. Len(j) + 1 :
        after[n] = IF n = 0 THEN Fresh ELSE Applied(after[n - 1], Append(j, e)[n])
  <2>1. TAKE n \in 0 .. Len(j) + 1
  <2>2. CASE n = 0
    BY <1>1, <1>2, <2>2
  <2>3. CASE n \in 1 .. Len(j)
    <3>1. n # 0 /\ n \in 0 .. Len(j) /\ n - 1 \in 0 .. Len(j) /\ n <= Len(j) /\ n - 1 <= Len(j)
          /\ n - 1 \in 0 .. Len(j) + 1
      BY <1>1, <2>3
    <3>2. Append(j, e)[n] = j[n]
      BY <2>3
    <3>3. after[n] = before[n] /\ after[n - 1] = before[n - 1]
      BY <3>1, <2>1
    <3>4. QED
      BY <1>2, <3>1, <3>2, <3>3
  <2>4. CASE n = Len(j) + 1
    <3>1. n # 0 /\ ~(n <= Len(j)) /\ n - 1 = Len(j) /\ Len(j) \in 0 .. Len(j) + 1
      BY <1>1, <2>4
    <3>2. Append(j, e)[n] = e
      BY <2>4, <1>1
    <3>3. after[n] = Applied(before[Len(j)], e) /\ after[n - 1] = before[Len(j)]
      BY <2>1, <3>1
    <3>4. QED
      BY <3>1, <3>2, <3>3
  <2>5. QED
    BY <1>1, <2>1, <2>2, <2>3, <2>4
<1>4. Replays(after, Append(j, e))
  BY <1>1, <1>3 DEF Replays
<1>5. QED
  BY <1>4

\* Every step of the model keeps its journal restorable.
LEMMA RestorableStep ==
  ASSUME ModelTypeOK, Restorable, [ModelNext]_<<state, journal, events>>
  PROVE  ModelTypeOK' /\ Restorable'
<1>1. CASE UNCHANGED <<state, journal, events>>
  <2>1. ModelTypeOK'
    BY <1>1 DEF ModelTypeOK
  <2>2. model' = model /\ journal' = journal
    BY <1>1 DEF model
  <2>3. QED
    BY <2>1, <2>2 DEF Restorable
<1>2. CASE ModelNext
  <2>1. PICK e \in Entry : Becomes(Applied(model, e))
    BY <1>2 DEF ModelNext
  <2>2. /\ ModelTypeOK'
        /\ model' = Applied(model, e)
        /\ journal' = journal \/ journal' = Append(journal, e)
        /\ journal' = journal => model' = model
    BY <2>1, ApplyTyped
  <2>3. CASE journal' = journal
    BY <2>2, <2>3 DEF Restorable
  <2>4. CASE journal' = Append(journal, e)
    <3>1. journal \in Seq(Entry)
      BY DEF ModelTypeOK
    <3>2. \E after : Replays(after, journal')
      BY <2>4, <3>1, ReplayGoesOn DEF Restorable
    <3>3. ASSUME NEW after, Replays(after, journal')
          PROVE  after[Len(journal')] = model'
      <4>1. PICK before : /\ Replays(before, journal)
                          /\ after[Len(journal')] = Applied(before[Len(journal)], e)
        BY <2>4, <3>1, <3>3, ReplayShortens
      <4>2. before[Len(journal)] = model
        BY <4>1 DEF Restorable
      <4>3. QED
        BY <2>2, <4>1, <4>2
    <3>4. QED
      BY <2>2, <3>2, <3>3 DEF Restorable
  <2>5. QED
    BY <2>2, <2>3, <2>4
<1>3. QED
  BY <1>1, <1>2

\* A checkpoint is never refused with "package checkpoint state drift", for
\* every set of identities, every inbox and every capacity: the replay of the
\* journal is the model, also after conflicts and with a full journal.
THEOREM RestoreSound == ModelSpec => []RestoreFaithful
<1>1. ModelInit => ModelTypeOK /\ Restorable
  <2> SUFFICES ASSUME ModelInit PROVE ModelTypeOK /\ Restorable
    OBVIOUS
  <2>1. model = Fresh /\ journal = <<>> /\ Len(journal) = 0
    BY DEF ModelInit, Fresh, model
  <2>2. ModelTypeOK
    BY <2>1, FlatTyped, ModelAssumption DEF ModelInit, ModelTypeOK, Fresh
  <2>3. Replays([n \in 0 .. 0 |-> Fresh], journal)
    BY <2>1 DEF Replays
  <2>4. ASSUME NEW after, Replays(after, journal) PROVE after[Len(journal)] = model
    BY <2>1, <2>4 DEF Replays
  <2>5. QED
    BY <2>2, <2>3, <2>4 DEF Restorable
<1>2. ModelTypeOK /\ Restorable /\ [ModelNext]_<<state, journal, events>>
        => (ModelTypeOK /\ Restorable)'
  BY RestorableStep
<1>3. ModelTypeOK /\ Restorable => RestoreFaithful
  <2> SUFFICES ASSUME ModelTypeOK, Restorable PROVE RestoreFaithful
    OBVIOUS
  <2>1. Replays(Replay(journal), journal)
    BY DEF Restorable, Replays, Replay
  <2>2. Replay(journal)[Len(journal)] = model
    BY <2>1 DEF Restorable
  <2>3. QED
    BY <2>2 DEF RestoreFaithful, Restored
<1>4. QED
  BY <1>1, <1>2, <1>3, PTL DEF ModelSpec

-----------------------------------------------------------------------------
(* Each event counts once.  The induction is over the journal again, with    *)
(* the reducer alone in the place of the model.                              *)

Courses(course, entries) ==
  course = [n \in 0 .. Len(entries) |->
              IF n = 0 THEN Flat ELSE Transition(course[n - 1], entries[n].event)]

\* The package is what the course has made of the first n events.
Outcome(course, n) ==
  /\ course[n] \in State
  /\ \A k \in 1 .. n : Original(k)
  /\ \/ n = Len(journal) /\ state = course[n]
     \/ n < Len(journal) /\ ~Original(n + 1) /\ state = Conflicting(course[n])

\* The inductive form: the identities of the journal are taken.
Counted ==
  /\ \A k \in DOMAIN journal : events[journal[k].id] # Unseen
  /\ \A j, k \in DOMAIN journal :
       j # k /\ journal[j].id = journal[k].id => ~Original(j) \/ ~Original(k)
  /\ \E course : Courses(course, journal)
  /\ \A course : Courses(course, journal) => \E n \in 0 .. Len(journal) : Outcome(course, n)

\* A course of the longer journal goes through one of the shorter.
LEMMA CourseShortens ==
  ASSUME NEW j \in Seq(Entry), NEW e \in Entry, NEW course, Courses(course, Append(j, e))
  PROVE  \E before : /\ Courses(before, j)
                     /\ \A n \in 0 .. Len(j) : course[n] = before[n]
                     /\ course[Len(j) + 1] = Transition(before[Len(j)], e.event)
<1> DEFINE before == [n \in 0 .. Len(j) |-> course[n]]
<1>1. Len(j) \in Nat /\ Len(Append(j, e)) = Len(j) + 1
  OBVIOUS
<1>2. \A n \in 0 .. Len(j) + 1 :
        course[n] = IF n = 0 THEN Flat
                    ELSE Transition(course[n - 1], Append(j, e)[n].event)
  BY <1>1 DEF Courses
<1>3. \A n \in 0 .. Len(j) :
        before[n] = IF n = 0 THEN Flat ELSE Transition(before[n - 1], j[n].event)
  <2>1. TAKE n \in 0 .. Len(j)
  <2>2. CASE n = 0
    BY <1>1, <1>2, <2>2
  <2>3. CASE n # 0
    <3>1. n \in 1 .. Len(j) /\ n - 1 \in 0 .. Len(j) /\ n \in 0 .. Len(j) + 1
      BY <1>1, <2>3
    <3>2. Append(j, e)[n] = j[n]
      BY <3>1
    <3>3. before[n] = course[n] /\ before[n - 1] = course[n - 1]
      BY <3>1
    <3>4. QED
      BY <1>2, <2>3, <3>1, <3>2, <3>3
  <2>4. QED
    BY <2>2, <2>3
<1>4. Courses(before, j)
  BY <1>3 DEF Courses
<1>5. course[Len(j) + 1] = Transition(before[Len(j)], e.event)
  <2>1. Len(j) + 1 \in 0 .. Len(j) + 1 /\ Len(j) + 1 # 0 /\ Len(j) \in 0 .. Len(j)
    BY <1>1
  <2>2. Append(j, e)[Len(j) + 1] = e /\ Len(j) + 1 - 1 = Len(j)
    BY <1>1
  <2>3. before[Len(j)] = course[Len(j)]
    BY <2>1
  <2>4. QED
    BY <1>2, <2>1, <2>2, <2>3
<1>6. QED
  BY <1>4, <1>5

\* A course of the shorter journal goes on to one of the longer.
LEMMA CourseGoesOn ==
  ASSUME NEW j \in Seq(Entry), NEW e \in Entry, NEW before, Courses(before, j)
  PROVE  \E course : Courses(course, Append(j, e))
<1> DEFINE course == [n \in 0 .. Len(j) + 1 |->
                        IF n <= Len(j) THEN before[n]
                        ELSE Transition(before[Len(j)], e.event)]
<1>1. Len(j) \in Nat /\ Len(Append(j, e)) = Len(j) + 1
  OBVIOUS
<1>2. \A n \in 0 .. Len(j) :
        before[n] = IF n = 0 THEN Flat ELSE Transition(before[n - 1], j[n].event)
  BY <1>1 DEF Courses
<1>3. \A n \in 0 .. Len(j) + 1 :
        course[n] = IF n = 0 THEN Flat
                    ELSE Transition(course[n - 1], Append(j, e)[n].event)
  <2>1. TAKE n \in 0 .. Len(j) + 1
  <2>2. CASE n = 0
    BY <1>1, <1>2, <2>2
  <2>3. CASE n \in 1 .. Len(j)
    <3>1. n # 0 /\ n \in 0 .. Len(j) /\ n - 1 \in 0 .. Len(j) /\ n <= Len(j) /\ n - 1 <= Len(j)
          /\ n - 1 \in 0 .. Len(j) + 1
      BY <1>1, <2>3
    <3>2. Append(j, e)[n] = j[n]
      BY <2>3
    <3>3. course[n] = before[n] /\ course[n - 1] = before[n - 1]
      BY <3>1, <2>1
    <3>4. QED
      BY <1>2, <3>1, <3>2, <3>3
  <2>4. CASE n = Len(j) + 1
    <3>1. n # 0 /\ ~(n <= Len(j)) /\ n - 1 = Len(j) /\ Len(j) \in 0 .. Len(j) + 1
      BY <1>1, <2>4
    <3>2. Append(j, e)[n] = e
      BY <2>4, <1>1
    <3>3. course[n] = Transition(before[Len(j)], e.event) /\ course[n - 1] = before[Len(j)]
      BY <2>1, <3>1
    <3>4. QED
      BY <3>1, <3>2, <3>3
  <2>5. QED
    BY <1>1, <2>1, <2>2, <2>3, <2>4
<1>4. Courses(course, Append(j, e))
  BY <1>1, <1>3 DEF Courses
<1>5. QED
  BY <1>4

\* The second conflict of a package leaves it as the first did.
LEMMA ConflictingTwice ==
  ASSUME NEW s \in State
  PROVE  Conflicting(Conflicting(s)) = Conflicting(s)
BY DEF Conflicting, Exposure, State

\* A stopped package ignores what is reported to it.
LEMMA HaltedStays ==
  ASSUME NEW s \in State, NEW e
  PROVE  Transition(Conflicting(s), e) = Conflicting(s)
<1>1. Conflicting(s).phase = "halted"
  BY DEF Conflicting, State
<1>2. QED
  BY <1>1 DEF Transition

\* A new event goes to the end of the journal, and of the course.
LEMMA CountedNew ==
  ASSUME ModelTypeOK, Counted, NEW e \in Entry, events[e.id] = Unseen,
         Becomes(Reduced(model, e))
  PROVE  Counted'
<1> PICK N \in Nat : N = Len(journal)
  BY DEF ModelTypeOK
<1>0. /\ e.id \in Ids /\ e.event \in Events /\ e.event # Unseen
      /\ journal \in Seq(Entry) /\ Len(journal) = N /\ DOMAIN journal = 1 .. N
  <2>1. e.id \in Ids /\ e.event \in Events
    BY ModelAssumption DEF Entry
  <2>2. \A f \in Events : f.type # "unseen"
    BY DEF Events, Prepares, Reports
  <2>3. e.event # Unseen
    BY <2>1, <2>2 DEF Unseen
  <2>4. QED
    BY <2>1, <2>3 DEF ModelTypeOK
<1>1. /\ state' = Transition(state, e.event)
      /\ journal' = Append(journal, e)
      /\ events' = [events EXCEPT ![e.id] = e.event]
  BY Zenon DEF Becomes, Reduced, model
<1>2. /\ Len(journal') = N + 1 /\ DOMAIN journal' = 1 .. N + 1
      /\ journal'[N + 1] = e
      /\ \A k \in 1 .. N : journal'[k] = journal[k]
  BY <1>0, <1>1
<1>3. /\ events'[e.id] = e.event
      /\ \A k \in 1 .. N : journal[k] \in Entry /\ journal[k].id \in Ids
                                      /\ journal[k].id # e.id
                                      /\ events'[journal[k].id] = events[journal[k].id]
  <2>1. events'[e.id] = e.event
    BY <1>0, <1>1 DEF ModelTypeOK
  <2>2. ASSUME NEW k \in 1 .. N
        PROVE  /\ journal[k] \in Entry /\ journal[k].id \in Ids
               /\ journal[k].id # e.id
               /\ events'[journal[k].id] = events[journal[k].id]
    <3>1. journal[k] \in Entry
      BY <1>0
    <3>2. journal[k].id \in Ids
      BY <3>1 DEF Entry
    <3>3. journal[k].id # e.id
      BY <1>0 DEF Counted
    <3>4. QED
      BY <1>1, <3>1, <3>2, <3>3 DEF ModelTypeOK
  <2>3. QED
    BY <2>1, <2>2
<1>4. /\ Original(N + 1)'
      /\ \A k \in 1 .. N : Original(k)' <=> Original(k)
  BY <1>0, <1>2, <1>3 DEF Original
<1>5. \A k \in DOMAIN journal' : events'[journal'[k].id] # Unseen
  BY <1>0, <1>2, <1>3 DEF Counted
<1>6. \A j, k \in DOMAIN journal' :
        j # k /\ journal'[j].id = journal'[k].id => ~Original(j)' \/ ~Original(k)'
  <2>1. TAKE j, k \in DOMAIN journal'
  <2>2. CASE j \in 1 .. N /\ k \in 1 .. N
    BY <1>0, <1>2, <1>4, <2>2 DEF Counted
  <2>3. CASE j = N + 1 \/ k = N + 1
    <3>1. j = k \/ journal'[j].id # journal'[k].id
      BY <1>0, <1>2, <1>3, <2>1, <2>3
    <3>2. QED
      BY <3>1
  <2>4. QED
    BY <1>0, <1>2, <2>1, <2>2, <2>3
<1>7. \E course : Courses(course, journal')
  BY <1>0, <1>1, CourseGoesOn DEF Counted
<1>8. ASSUME NEW course, Courses(course, journal')
      PROVE  \E n \in 0 .. Len(journal') : Outcome(course, n)'
  <2>1. PICK before : /\ Courses(before, journal)
                      /\ \A n \in 0 .. N : course[n] = before[n]
                      /\ course[N + 1] = Transition(before[N], e.event)
    BY <1>0, <1>1, <1>8, CourseShortens
  <2>2. PICK n \in 0 .. N : Outcome(before, n)
    BY <2>1 DEF Counted
  <2>3. CASE n = N
    <3>1. state = before[n] /\ \A k \in 1 .. n : Original(k)
      BY <2>2, <2>3 DEF Outcome
    <3>2. course[n + 1] = state' /\ course[n + 1] \in State
      BY <1>0, <1>1, <2>1, <2>3, <3>1, TransitionTyped DEF ModelTypeOK
    <3>3. n + 1 \in 0 .. Len(journal') /\ n + 1 = Len(journal')
      BY <1>0, <1>2, <2>3
    <3>4. \A k \in 1 .. n + 1 : Original(k)'
      BY <1>0, <1>4, <2>3, <3>1
    <3>5. Outcome(course, n + 1)'
      BY <3>2, <3>3, <3>4 DEF Outcome
    <3>6. QED
      BY <3>3, <3>5
  <2>4. CASE n # N
    <3>1. /\ n < N /\ ~Original(n + 1) /\ state = Conflicting(before[n])
          /\ before[n] \in State /\ course[n] = before[n]
          /\ \A k \in 1 .. n : Original(k)
      BY <2>1, <2>2, <2>4 DEF Outcome
    <3>2. state' = Conflicting(course[n])
      BY <1>1, <3>1, HaltedStays
    <3>3. n \in 0 .. Len(journal') /\ n < Len(journal') /\ ~Original(n + 1)'
      BY <1>0, <1>2, <1>4, <3>1
    <3>4. \A k \in 1 .. n : Original(k)'
      BY <1>0, <1>4, <3>1
    <3>5. Outcome(course, n)'
      BY <3>1, <3>2, <3>3, <3>4 DEF Outcome
    <3>6. QED
      BY <3>3, <3>5
  <2>5. QED
    BY <2>3, <2>4
<1>9. QED
  BY <1>5, <1>6, <1>7, <1>8 DEF Counted

\* A conflict goes to the end of the journal too, but counts for nothing.
LEMMA CountedConflict ==
  ASSUME ModelTypeOK, Counted, NEW e \in Entry, events[e.id] # Unseen, events[e.id] # e.event,
         Becomes([model EXCEPT !.state = Conflicting(@), !.journal = Append(@, e)])
  PROVE  Counted'
<1> PICK N \in Nat : N = Len(journal)
  BY DEF ModelTypeOK
<1>0. /\ e.id \in Ids
      /\ journal \in Seq(Entry) /\ Len(journal) = N /\ DOMAIN journal = 1 .. N
  BY DEF Entry, ModelTypeOK
<1>1. state' = Conflicting(state) /\ journal' = Append(journal, e) /\ events' = events
  BY DEF Becomes, model
<1>2. /\ Len(journal') = N + 1 /\ DOMAIN journal' = 1 .. N + 1
      /\ journal'[N + 1] = e
      /\ \A k \in 1 .. N : journal'[k] = journal[k]
  BY <1>0, <1>1
<1>3. /\ ~Original(N + 1)'
      /\ \A k \in 1 .. N : Original(k)' <=> Original(k)
  BY <1>0, <1>1, <1>2 DEF Original
<1>4. \A k \in DOMAIN journal' : events'[journal'[k].id] # Unseen
  BY <1>0, <1>1, <1>2 DEF Counted
<1>5. \A j, k \in DOMAIN journal' :
        j # k /\ journal'[j].id = journal'[k].id => ~Original(j)' \/ ~Original(k)'
  <2>1. TAKE j, k \in DOMAIN journal'
  <2>2. CASE j \in 1 .. N /\ k \in 1 .. N
    BY <1>0, <1>2, <1>3, <2>2 DEF Counted
  <2>3. CASE j = N + 1 \/ k = N + 1
    BY <1>3, <2>3
  <2>4. QED
    BY <1>0, <1>2, <2>1, <2>2, <2>3
<1>6. \E course : Courses(course, journal')
  BY <1>0, <1>1, CourseGoesOn DEF Counted
<1>7. ASSUME NEW course, Courses(course, journal')
      PROVE  \E n \in 0 .. Len(journal') : Outcome(course, n)'
  <2>1. PICK before : /\ Courses(before, journal)
                      /\ \A n \in 0 .. N : course[n] = before[n]
    BY <1>0, <1>1, <1>7, CourseShortens
  <2>2. PICK n \in 0 .. N : Outcome(before, n)
    BY <2>1 DEF Counted
  <2>3. /\ n \in 0 .. Len(journal') /\ n < Len(journal')
        /\ course[n] = before[n] /\ before[n] \in State
        /\ \A k \in 1 .. n : Original(k)'
    BY <1>0, <1>2, <1>3, <2>1, <2>2 DEF Outcome
  <2>4. ~Original(n + 1)'
    BY <1>0, <1>3, <2>2 DEF Outcome
  <2>5. state' = Conflicting(course[n])
    BY <1>1, <2>2, <2>3, ConflictingTwice DEF Outcome
  <2>6. Outcome(course, n)'
    BY <2>3, <2>4, <2>5 DEF Outcome
  <2>7. QED
    BY <2>3, <2>6
<1>8. QED
  BY <1>4, <1>5, <1>6, <1>7 DEF Counted

\* No event counts twice, for every set of identities, every inbox and every
\* capacity: the package is what the reducer makes of the events up to the
\* first conflict, and is stopped there.
THEOREM CountedOnce == ModelSpec => []EventsOnce
<1>1. ModelInit => ModelTypeOK /\ Counted
  <2> SUFFICES ASSUME ModelInit PROVE ModelTypeOK /\ Counted
    OBVIOUS
  <2>1. state = Flat /\ journal = <<>> /\ Len(journal) = 0 /\ DOMAIN journal = {}
    BY DEF ModelInit, Fresh
  <2>2. ModelTypeOK
    BY <2>1, FlatTyped, ModelAssumption DEF ModelInit, ModelTypeOK, Fresh
  <2>3. Courses([n \in 0 .. 0 |-> Flat], journal)
    BY <2>1 DEF Courses
  <2>4. ASSUME NEW course, Courses(course, journal) PROVE \E n \in 0 .. Len(journal) : Outcome(course, n)
    <3>1. course[0] = Flat
      BY <2>1, <2>4 DEF Courses
    <3>2. Outcome(course, 0)
      BY <2>1, <3>1, FlatTyped DEF Outcome
    <3>3. QED
      BY <2>1, <3>2
  <2>5. QED
    BY <2>1, <2>2, <2>3, <2>4 DEF Counted
<1>2. ModelTypeOK /\ Counted /\ [ModelNext]_<<state, journal, events>>
        => (ModelTypeOK /\ Counted)'
  <2> SUFFICES ASSUME ModelTypeOK, Counted, [ModelNext]_<<state, journal, events>>
               PROVE  ModelTypeOK' /\ Counted'
    OBVIOUS
  <2>1. CASE UNCHANGED <<state, journal, events>>
    BY <2>1 DEF ModelTypeOK, Counted, Outcome, Original
  <2>2. CASE ModelNext
    <3>1. PICK e \in Entry : Becomes(Applied(model, e))
      BY <2>2 DEF ModelNext
    <3>2. ModelTypeOK'
      BY <3>1, ApplyTyped
    <3>3. model.events = events
      BY DEF model
    <3>4. CASE Applied(model, e) = model
      <4>1. state' = state /\ journal' = journal /\ events' = events
        BY <3>1, <3>4 DEF Becomes, model
      <4>2. QED
        BY <3>2, <4>1 DEF Counted, Outcome, Original
    <3>5. CASE /\ events[e.id] # Unseen /\ events[e.id] # e.event
               /\ Applied(model, e) = [model EXCEPT !.state = Conflicting(@), !.journal = Append(@, e)]
      BY <3>1, <3>2, <3>5, CountedConflict
    <3>6. CASE events[e.id] = Unseen /\ Applied(model, e) = Reduced(model, e)
      BY <3>1, <3>2, <3>6, CountedNew
    <3>7. QED
      BY <3>3, <3>4, <3>5, <3>6 DEF Applied
  <2>3. QED
    BY <2>1, <2>2
<1>3. ModelTypeOK /\ Counted => EventsOnce
  <2> SUFFICES ASSUME ModelTypeOK, Counted PROVE EventsOnce
    OBVIOUS
  <2>1. Courses(Course(journal), journal)
    BY DEF Counted, Courses, Course
  <2>2. PICK n \in 0 .. Len(journal) : Outcome(Course(journal), n)
    BY <2>1 DEF Counted
  <2>3. QED
    BY <2>2 DEF Counted, EventsOnce, Outcome
<1>4. QED
  BY <1>1, <1>2, <1>3, PTL DEF ModelSpec
=============================================================================
