------------------------- MODULE RiskCheckpointProofs -------------------------
(***************************************************************************)
(* The latches are never loosened and no signal buys two entries: for any  *)
(* set of clients, budgets, equities and clock readings, with crashes at   *)
(* every cut and one of the two files deleted at any time.                 *)
(***************************************************************************)
EXTENDS RiskCheckpoint, TLAPS

-----------------------------------------------------------------------------
(* The reducer *)

LEMMA DayTyped ==
  ASSUME NEW now \in Times
  PROVE  now \div DayLength \in Nat
  BY ConfigurationAssumption DEF Times

LEMMA AdvancedTyped ==
  ASSUME NEW s \in State, NEW equity \in Nat, NEW now \in Times
  PROVE  Advanced(s, equity, now) \in State
<1>1. larger(s.peak, equity) \in Nat \ {0} /\ larger(equity, 1) \in Nat \ {0}
  BY DEF larger, State
<1>2. QED
  BY <1>1, DayTyped DEF Advanced, State

\* Advancing keeps the budget and the entries, and only ever tightens.
LEMMA AdvancedTightens ==
  ASSUME NEW s \in State, NEW equity \in Nat, NEW now \in Times
  PROVE  LET t == Advanced(s, equity, now)
         IN  /\ t.budget = s.budget /\ t.entries = s.entries
             /\ t.last_observed = now /\ t.day = now \div DayLength
             /\ t.peak >= s.peak /\ t.peak >= equity
             /\ s.restricted => t.restricted
             /\ s.hard_stop => t.hard_stop
<1>1. larger(s.peak, equity) >= s.peak /\ larger(s.peak, equity) >= equity
  BY DEF larger, State
<1>2. QED
  BY <1>1 DEF Advanced, State

LEMMA StopRestricts ==
  ASSUME NEW equity \in Nat, NEW peak \in Nat, AtHardStop(equity, peak)
  PROVE  AtRestriction(equity, peak)
  BY DEF AtHardStop, AtRestriction

LEMMA AdvancedLatches ==
  ASSUME NEW s \in State, NEW equity \in Nat, NEW now \in Times,
         s.hard_stop => s.restricted
  PROVE  LET t == Advanced(s, equity, now) IN t.hard_stop => t.restricted
<1> DEFINE peak == larger(s.peak, equity)
<1>1. peak \in Nat
  BY DEF larger, State
<1>2. AtHardStop(equity, peak) => AtRestriction(equity, peak)
  BY <1>1, StopRestricts
<1>3. QED
  BY <1>2 DEF Advanced, State

\* validate_state accepts what advance returns.
LEMMA AdvancedValid ==
  ASSUME NEW s \in State, NEW equity \in Nat, NEW now \in Times,
         Valid(s, s.budget), now >= s.last_observed
  PROVE  LET t == Advanced(s, equity, now) IN Valid(t, s.budget)
<1> DEFINE t == Advanced(s, equity, now)
<1>1. t \in State
  BY AdvancedTyped
<1>2. /\ t.budget = s.budget /\ t.entries = s.entries
      /\ t.last_observed = now /\ t.day = now \div DayLength /\ t.peak >= s.peak
  BY AdvancedTightens
<1>3. t.hard_stop => t.restricted
  BY AdvancedLatches DEF Valid
<1>4. t.peak >= s.budget
  BY <1>1, <1>2 DEF Valid, State
<1>5. ASSUME NEW p \in Pairs, t.entries[p] # NoEntry
      PROVE  t.entries[p].time <= now /\ t.entries[p].signal <= t.entries[p].time
  <2>1. s.entries[p] \in [time : Times, signal : Times]
    BY <1>2, <1>5 DEF State, Entries
  <2>2. /\ s.entries[p].time <= s.last_observed
        /\ s.entries[p].signal <= s.entries[p].time
    BY <1>2, <1>5 DEF Valid
  <2>3. s.entries[p].time \in Nat /\ s.last_observed \in Nat /\ now \in Nat
    BY <2>1 DEF State, Times
  <2>4. QED
    BY <1>2, <2>2, <2>3
<1>6. QED
  BY <1>1, <1>2, <1>3, <1>4, <1>5 DEF Valid, State

LEMMA ModeTyped ==
  ASSUME NEW s \in State
  PROVE  Mode(s) \in 0 .. 2
  BY DEF Mode

LEMMA AdvancedTight ==
  ASSUME NEW s, Tight(s), TypeOK, NEW equity \in Nat, NEW now \in Times,
         now >= s.last_observed
  PROVE  /\ Tight(Advanced(s, equity, now))
         /\ equity <= Advanced(s, equity, now).peak
         /\ Advanced(s, equity, now).budget = s.budget
<1> DEFINE t == Advanced(s, equity, now)
<1>1. s \in State /\ t \in State
  BY AdvancedTyped DEF Tight
<1>2. /\ t.budget = s.budget /\ t.entries = s.entries
      /\ t.peak >= s.peak /\ t.peak >= equity
      /\ s.restricted => t.restricted
      /\ s.hard_stop => t.hard_stop
  BY <1>1, AdvancedTightens
<1>3. Mode(t) >= told
  <2>1. Mode(s) >= told /\ told \in 0 .. 2
    BY DEF Tight, TypeOK
  <2>2. s.restricted \in BOOLEAN /\ s.hard_stop \in BOOLEAN
    BY <1>1 DEF State
  <2>3. s.hard_stop => t.hard_stop
    BY <1>1, AdvancedTightens
  <2>4. s.restricted => t.restricted
    BY <1>1, AdvancedTightens
  <2>5. QED
    BY <2>1, <2>2, <2>3, <2>4 DEF Mode
<1>4. t.peak >= high
  BY <1>1, <1>2 DEF Tight, State, TypeOK
<1>5. Valid(t, t.budget)
  BY <1>1, <1>2, AdvancedValid DEF Tight
<1>6. QED
  BY <1>1, <1>2, <1>3, <1>4, <1>5 DEF Tight, State

LEMMA InitialTyped ==
  ASSUME NEW equity \in Nat, NEW now \in Times, NEW budget \in Nat \ {0}
  PROVE  /\ Initial(equity, now, budget) \in State
         /\ Valid(Initial(equity, now, budget), budget)
         /\ Initial(equity, now, budget).budget = budget
         /\ Initial(equity, now, budget).last_observed = now
<1>1. larger(budget, equity) \in Nat \ {0} /\ larger(budget, equity) >= budget
  BY DEF larger
<1>2. larger(equity, 1) \in Nat \ {0}
  BY DEF larger
<1>3. [p \in Pairs |-> NoEntry] \in [Pairs -> Entries]
  BY DEF Entries
<1>4. Initial(equity, now, budget) \in State
  BY <1>1, <1>2, <1>3, DayTyped DEF Initial, State
<1>5. QED
  BY <1>1, <1>2, <1>4 DEF Initial, Valid

LEMMA EnteredTyped ==
  ASSUME NEW s \in State, NEW pair \in Pairs, NEW now \in Times, NEW signal \in Times
  PROVE  LET t == Entered(s, pair, now, signal)
         IN  /\ t \in State /\ t.budget = s.budget /\ t.peak = s.peak
             /\ t.restricted = s.restricted /\ t.hard_stop = s.hard_stop
             /\ t.day_equity = s.day_equity /\ t.day = s.day
             /\ t.last_observed = s.last_observed
             /\ t.entries[pair] = [time |-> now, signal |-> signal]
             /\ \A p \in Pairs \ {pair} : t.entries[p] = s.entries[p]
<1> DEFINE e == [s.entries EXCEPT ![pair] = [time |-> now, signal |-> signal]]
<1>1. [time |-> now, signal |-> signal] \in Entries
  BY DEF Entries
<1>2. s.entries \in [Pairs -> Entries]
  BY DEF State
<1>3. e \in [Pairs -> Entries]
  BY <1>1, <1>2
<1>4. /\ e[pair] = [time |-> now, signal |-> signal]
      /\ \A p \in Pairs \ {pair} : e[p] = s.entries[p]
  BY <1>2
<1>5. Entered(s, pair, now, signal) = [s EXCEPT !.entries = e]
  BY DEF Entered
<1> HIDE DEF e
<1>6. QED
  BY <1>3, <1>4, <1>5 DEF State

\* A new entry keeps what callers were told, and is newer than all they were.
LEMMA EnteredTight ==
  ASSUME NEW s, Tight(s), TypeOK, NEW pair \in Pairs, NEW signal \in Times,
         NEW now \in Times, signal <= now, s.last_observed = now,
         Allowed(s, pair, now, signal)
  PROVE  LET t == Entered(s, pair, now, signal)
         IN  /\ Tight(t) /\ ~t.hard_stop /\ t.budget = s.budget /\ t.peak = s.peak
             /\ t.entries[pair] = [time |-> now, signal |-> signal]
             /\ \A g \in granted : g.pair = pair =>
                  g.signal < signal /\ g.time + Cooldown <= now
<1> DEFINE t == Entered(s, pair, now, signal)
<1>1. s \in State /\ Valid(s, s.budget)
  BY DEF Tight
<1>2. /\ t \in State /\ t.budget = s.budget /\ t.peak = s.peak
      /\ t.restricted = s.restricted /\ t.hard_stop = s.hard_stop
      /\ t.day_equity = s.day_equity /\ t.day = s.day
      /\ t.last_observed = s.last_observed
      /\ t.entries[pair] = [time |-> now, signal |-> signal]
      /\ \A p \in Pairs \ {pair} : t.entries[p] = s.entries[p]
  BY <1>1, EnteredTyped
<1> HIDE DEF t
<1>3. ASSUME NEW g \in granted, g.pair = pair
      PROVE  g.signal < signal /\ g.time + Cooldown <= now
  <2>1. /\ s.entries[pair] # NoEntry /\ s.entries[pair].time >= g.time
        /\ s.entries[pair].signal >= g.signal
    BY <1>3 DEF Tight
  <2>2. s.entries[pair] \in [time : Times, signal : Times]
    BY <1>1, <2>1 DEF State, Entries
  <2>3. g.time \in Nat /\ g.signal \in Nat
    BY DEF TypeOK, Grants, Times
  <2>4. signal > s.entries[pair].signal /\ now >= s.entries[pair].time + Cooldown
    BY <2>1 DEF Allowed
  <2>5. s.entries[pair].time \in Nat /\ s.entries[pair].signal \in Nat
        /\ now \in Nat /\ signal \in Nat /\ Cooldown \in Nat
    BY <2>2, ConfigurationAssumption DEF Times
  <2>6. QED
    BY <2>1, <2>3, <2>4, <2>5
<1>4. \A g \in granted : /\ t.entries[g.pair] # NoEntry
                         /\ t.entries[g.pair].time >= g.time
                         /\ t.entries[g.pair].signal >= g.signal
  <2> SUFFICES ASSUME NEW g \in granted
               PROVE  /\ t.entries[g.pair] # NoEntry
                      /\ t.entries[g.pair].time >= g.time
                      /\ t.entries[g.pair].signal >= g.signal
    OBVIOUS
  <2>1. g.pair \in Pairs /\ g.time \in Nat /\ g.signal \in Nat
    BY DEF TypeOK, Grants, Times
  <2>2. CASE g.pair # pair
    BY <1>2, <2>1, <2>2 DEF Tight
  <2>3. CASE g.pair = pair
    <3>1. now # MaxTime + 1 /\ now \in Nat /\ signal \in Nat
          /\ Cooldown \in Nat
      BY ConfigurationAssumption DEF Times
    <3>2. t.entries[g.pair].time = now /\ t.entries[g.pair].signal = signal
      BY <1>2, <2>3
    <3>3. NoEntry.time = MaxTime + 1
      BY DEF NoEntry
    <3>4. QED
      BY <1>3, <2>1, <2>3, <3>1, <3>2, <3>3
  <2>4. QED
    BY <2>2, <2>3
<1>5. ASSUME NEW p \in Pairs, t.entries[p] # NoEntry
      PROVE  t.entries[p].time <= now /\ t.entries[p].signal <= t.entries[p].time
  <2>1. CASE p = pair
    BY <1>2, <2>1 DEF Times
  <2>2. CASE p # pair
    BY <1>1, <1>2, <1>5, <2>2 DEF Valid
  <2>3. QED
    BY <2>1, <2>2
<1>6. Valid(t, t.budget)
  BY <1>1, <1>2, <1>5 DEF Valid
<1>7. Mode(t) >= told /\ t.peak >= high
  BY <1>2 DEF Tight, Mode
<1>8. ~t.hard_stop
  BY <1>2 DEF Allowed
<1>9. QED
  BY <1>2, <1>3, <1>4, <1>6, <1>7, <1>8 DEF Tight, t

-----------------------------------------------------------------------------
(* The steps *)

\* Tightness depends on the history alone.
LEMMA TightKept ==
  ASSUME NEW s, Tight(s), UNCHANGED <<told, high, granted>>
  PROVE  Tight(s)'
  BY DEF Tight

\* A client that holds the lock and another that does not differ.
LEMMA Started ==
  ASSUME NEW c \in Clients, NEW at, NEW s, NEW equity, NEW grant, TypeOK,
         Suspend(c, at, s, equity, grant)
  PROVE  /\ client'[c] = [at |-> at, state |-> s, equity |-> equity, grant |-> grant]
         /\ \A d \in Clients \ {c} : client'[d] = client[d]
         /\ DOMAIN client' = Clients
  BY DEF Suspend, TypeOK

\* A call that starts on an unlocked file, with what it will write in hand.
LEMMA StartStep ==
  ASSUME IInv, NEW c \in Clients, NEW s, NEW equity \in Nat, NEW grant,
         NEW at \in {"marking", "writing"}, Unlocked,
         Suspend(c, at, s, equity, grant),
         UNCHANGED <<file, lost, told, high, granted>>,
         Tight(s), equity <= s.peak, s.budget = Budget[c],
         \/ UNCHANGED marker /\ marker.exists /\ marker.budget = Budget[c]
         \/ marker' = Created /\ ~Answered,
         at = "marking" => file = NoState,
         file # NoState => UNCHANGED marker,
         \/ grant = NoGrant
         \/ /\ grant \in Grants /\ ~s.hard_stop
            /\ s.entries[grant.pair] = [time |-> grant.time, signal |-> grant.signal]
            /\ \A g \in granted : g.pair = grant.pair =>
                 g.signal < grant.signal /\ g.time + Cooldown <= grant.time
  PROVE  IInv'
<1> USE DEF IInv
<1>1. /\ client'[c] = [at |-> at, state |-> s, equity |-> equity, grant |-> grant]
      /\ \A d \in Clients \ {c} : client'[d] = client[d]
      /\ DOMAIN client' = Clients
  BY Started
<1>2. \A d \in Clients \ {c} : client'[d].at = "out"
  BY <1>1 DEF Unlocked
<1>3. Tight(s)' /\ s \in State
  BY TightKept DEF Tight
<1>4. TypeOK'
  <2>1. [at |-> at, state |-> s, equity |-> equity, grant |-> grant] \in Calls
    BY <1>3 DEF Calls
  <2>3. client' \in [Clients -> Calls]
    BY <2>1 DEF TypeOK, Suspend
  <2>2. marker' \in {Absent} \cup [exists : {TRUE}, budget : Nat]
    <3>1. Created \in [exists : {TRUE}, budget : Nat]
      BY DEF Created
    <3>2. marker \in {Absent} \cup [exists : {TRUE}, budget : Nat]
      BY DEF TypeOK
    <3>3. QED
      BY <3>1, <3>2
  <2>4. QED
    BY <2>2, <2>3 DEF TypeOK
<1>5. Exclusive'
  BY <1>2 DEF Exclusive
<1>6. FilesKept'
  <2>1. file # NoState => Tight(file)'
    BY TightKept DEF FilesKept
  <2>2. Created.exists /\ Answered' = Answered
    BY DEF Created, Answered
  <2>3. QED
    BY <2>1, <2>2 DEF FilesKept
<1>7. InCall'
  <2>1. Created.budget = 0 /\ Created.exists
    BY DEF Created
  <2>2. at # "returning" /\ at # "out"
    OBVIOUS
  <2>3. marker'.exists /\ (marker'.budget # 0 => marker'.budget = Budget[c])
    BY <2>1
  <2>a. client'[c].state = s /\ client'[c].at = at /\ client'[c].equity = equity
    BY <1>1
  <2>4. Tight(client[c].state)'
    BY <2>a DEF Tight
  <2>5. QED
    BY <1>2, <2>a, <2>2, <2>3, <2>4 DEF InCall
<1>8. GrantInHand'
  BY <1>1, <1>2 DEF GrantInHand
<1>9. WrittenValid'
  BY DEF WrittenValid
<1>10. EntriesSpaced'
  BY DEF EntriesSpaced
<1>11. QED
  BY <1>4, <1>5, <1>6, <1>7, <1>8, <1>9, <1>10

\* While one client holds the lock the others wait.
LEMMA OthersOut ==
  ASSUME Exclusive, NEW c \in Clients, client[c].at # "out"
  PROVE  \A d \in Clients \ {c} : client[d].at = "out"
  BY DEF Exclusive

\* A call that goes on keeps what it holds.
LEMMA GoesOn ==
  ASSUME NEW c \in Clients, TypeOK, NEW at \in {"marking", "writing", "returning"},
         client' = [client EXCEPT ![c].at = at]
  PROVE  /\ client' \in [Clients -> Calls]
         /\ client'[c].at = at /\ client'[c].state = client[c].state
         /\ client'[c].equity = client[c].equity /\ client'[c].grant = client[c].grant
         /\ \A d \in Clients \ {c} : client'[d] = client[d]
<1>1. client \in [Clients -> Calls]
  BY DEF TypeOK
<1>2. client[c] \in Calls
  BY <1>1
<1>3. [client[c] EXCEPT !.at = at] \in Calls
  BY <1>2 DEF Calls
<1>4. client' = [client EXCEPT ![c] = [client[c] EXCEPT !.at = at]]
  BY <1>1
<1>5. client' \in [Clients -> Calls]
  BY <1>1, <1>3, <1>4
<1>6. client'[c] = [client[c] EXCEPT !.at = at]
  BY <1>1, <1>4
<1>7. QED
  BY <1>1, <1>2, <1>4, <1>5, <1>6 DEF Calls

\* A call that ends.
LEMMA Ends ==
  ASSUME NEW c \in Clients, TypeOK, client' = [client EXCEPT ![c] = Idle]
  PROVE  /\ client' \in [Clients -> Calls] /\ client'[c].at = "out"
         /\ \A d \in Clients \ {c} : client'[d] = client[d]
<1>1. Idle \in Calls
  BY DEF Idle, Calls
<1>2. client \in [Clients -> Calls]
  BY DEF TypeOK
<1>3. Idle.at = "out"
  BY DEF Idle
<1>4. QED
  BY <1>1, <1>2, <1>3

\* A checkpoint is never mistaken for a missing one.
LEMMA StateExists ==
  ASSUME NEW s \in State
  PROVE  s # NoState
  BY DEF State, NoState

LEMMA WriteMarkerStep ==
  ASSUME IInv, NEW c \in Clients, WriteMarker(c)
  PROVE  IInv'
<1> USE DEF IInv
<1>1. /\ client' \in [Clients -> Calls]
      /\ client'[c].at = "writing" /\ client'[c].state = client[c].state
      /\ client'[c].equity = client[c].equity /\ client'[c].grant = client[c].grant
      /\ \A d \in Clients \ {c} : client'[d] = client[d]
  BY GoesOn DEF WriteMarker
<1>2. \A d \in Clients \ {c} : client[d].at = "out"
  BY OthersOut DEF WriteMarker
<1>3. /\ Tight(client[c].state) /\ client[c].equity <= client[c].state.peak
      /\ client[c].state.budget = Budget[c]
      /\ ~lost => marker.exists
      /\ file = NoState
  BY DEF InCall, WriteMarker
<1>4. /\ Named(c) \in [exists : {TRUE}, budget : Nat]
      /\ Named(c).exists /\ Named(c).budget = Budget[c]
      /\ ~Absent.exists /\ Absent.budget = 0
  BY ConfigurationAssumption DEF Named, Absent
<1>5. /\ marker' \in {Named(c), Absent}
      /\ marker'.exists <=> marker.exists
      /\ marker'.budget # 0 => marker'.budget = Budget[c]
      /\ UNCHANGED <<file, lost, told, high, granted>>
  BY <1>4 DEF WriteMarker
<1>6. TypeOK'
  <2>1. marker' \in {Absent} \cup [exists : {TRUE}, budget : Nat]
    BY <1>4, <1>5
  <2>2. QED
    BY <1>1, <1>5, <2>1 DEF TypeOK
<1>7. Exclusive'
  BY <1>1, <1>2 DEF Exclusive
<1>8. FilesKept'
  BY <1>3, <1>5 DEF FilesKept, Answered
<1>9. InCall'
  <2>1. Tight(client[c].state)'
    <3>1. Tight(client[c].state)
      BY <1>3
    <3>2. QED
      BY <1>1, <1>5, <3>1 DEF Tight
  <2>2. ~lost' => marker'.exists
    BY <1>3, <1>5
  <2>3. QED
    BY <1>1, <1>2, <1>3, <1>5, <2>1, <2>2 DEF InCall
<1>10. GrantInHand'
  BY <1>1, <1>2, <1>5 DEF GrantInHand, WriteMarker
<1>11. WrittenValid'
  BY <1>3, <1>5 DEF WrittenValid
<1>12. EntriesSpaced'
  BY <1>5 DEF EntriesSpaced
<1>13. QED
  BY <1>6, <1>7, <1>8, <1>9, <1>10, <1>11, <1>12

LEMMA ReplaceStep ==
  ASSUME IInv, NEW c \in Clients, Replace(c)
  PROVE  IInv'
<1> USE DEF IInv
<1>1. /\ client' \in [Clients -> Calls]
      /\ client'[c].at = "returning" /\ client'[c].state = client[c].state
      /\ client'[c].equity = client[c].equity /\ client'[c].grant = client[c].grant
      /\ \A d \in Clients \ {c} : client'[d] = client[d]
  BY GoesOn DEF Replace
<1>2. \A d \in Clients \ {c} : client[d].at = "out"
  BY OthersOut DEF Replace
<1>3. /\ Tight(client[c].state) /\ client[c].equity <= client[c].state.peak
      /\ client[c].state.budget = Budget[c]
      /\ ~lost => marker.exists
      /\ marker.budget # 0 => marker.budget = Budget[c]
  BY DEF InCall, Replace
<1>4. /\ file' = client[c].state
      /\ UNCHANGED <<marker, lost, told, high, granted>>
  BY DEF Replace
<1>5. file' \in State /\ file' # NoState
  BY <1>3, <1>4, StateExists DEF Tight
<1>6. Tight(file)' /\ Tight(client[c].state)'
  <2>1. Tight(client[c].state)
    BY <1>3
  <2>2. Tight(file)'
    BY <1>4, <2>1 DEF Tight
  <2>3. Tight(client[c].state)'
    BY <1>1, <1>4, <2>1 DEF Tight
  <2>4. QED
    BY <2>2, <2>3
<1>7. TypeOK'
  BY <1>1, <1>4, <1>5 DEF TypeOK
<1>8. Exclusive'
  BY <1>1, <1>2 DEF Exclusive
<1>9. FilesKept'
  BY <1>4, <1>5, <1>6, <1>3 DEF FilesKept, Answered
<1>10. InCall'
  <2>1. \A d \in Clients : client'[d].at # "out" => d = c
    BY <1>1, <1>2
  <2>2. /\ client'[c].equity <= client'[c].state.peak
        /\ client'[c].state.budget = Budget[c]
        /\ marker'.budget # 0 => marker'.budget = Budget[c]
        /\ ~lost' => marker'.exists
    BY <1>1, <1>3, <1>4
  <2>3. client'[c].at # "marking" /\ file' = client'[c].state
    BY <1>1, <1>4
  <2>4. QED
    BY <1>5, <1>6, <2>1, <2>2, <2>3 DEF InCall
<1>11. GrantInHand'
  BY <1>1, <1>2, <1>4 DEF GrantInHand, Replace
<1>12. WrittenValid'
  <2>1. Valid(client[c].state, client[c].state.budget)
    BY <1>3 DEF Tight
  <2>2. Valid(file', file'.budget)
    BY <1>4, <2>1
  <2>3. Valid(file, file.budget)'
    BY <2>2 DEF Valid
  <2>4. marker'.budget # 0 => marker'.budget = file'.budget
    BY <1>3, <1>4
  <2>5. QED
    BY <2>3, <2>4 DEF WrittenValid
<1>13. EntriesSpaced'
  BY <1>4 DEF EntriesSpaced
<1>14. QED
  BY <1>7, <1>8, <1>9, <1>10, <1>11, <1>12, <1>13

LEMMA ReturnStep ==
  ASSUME IInv, NEW c \in Clients, Return(c)
  PROVE  IInv'
<1> USE DEF IInv
<1> DEFINE s == client[c].state
<1> DEFINE grant == client[c].grant
<1>1. /\ client' \in [Clients -> Calls] /\ client'[c].at = "out"
      /\ \A d \in Clients \ {c} : client'[d] = client[d]
  BY Ends DEF Return
<1>2. \A d \in Clients : client'[d].at = "out"
  BY <1>1, OthersOut DEF Return
<1>3. /\ Tight(s) /\ client[c].equity <= s.peak
      /\ file \in {NoState, s}
      /\ marker.exists \/ file # NoState
      /\ ~lost => file # NoState /\ marker.exists
  BY DEF InCall, Return
<1>4. client[c] \in Calls /\ client[c].at = "returning"
  BY DEF TypeOK, Return
<1>5. s \in State /\ Mode(s) \in 0 .. 2 /\ client[c].equity \in Nat
  BY <1>3, <1>4, ModeTyped DEF Tight, Calls
<1>6. /\ told' \in 0 .. 2 /\ Mode(s) >= told'
      /\ high' \in Nat /\ s.peak >= high'
  BY <1>3, <1>5 DEF Return, larger, TypeOK, Tight, State
<1>7. /\ granted' = granted \cup ({grant} \ {NoGrant})
      /\ UNCHANGED <<marker, file, lost>>
  BY DEF Return
<1>8. ASSUME grant # NoGrant
      PROVE  /\ grant \in Grants
             /\ s.entries[grant.pair] = [time |-> grant.time, signal |-> grant.signal]
             /\ \A g \in granted : g.pair = grant.pair =>
                  g.signal < grant.signal /\ g.time + Cooldown <= grant.time
  BY <1>4, <1>8 DEF GrantInHand, Calls
<1>9. granted' \subseteq Grants
  BY <1>7, <1>8 DEF TypeOK
<1>10. TypeOK'
  BY <1>1, <1>6, <1>7, <1>9 DEF TypeOK
<1>11. ASSUME NEW g \in granted'
       PROVE  /\ s.entries[g.pair] # NoEntry /\ s.entries[g.pair].time >= g.time
              /\ s.entries[g.pair].signal >= g.signal
  <2>1. CASE g \in granted
    BY <1>3, <2>1 DEF Tight
  <2>2. CASE g \notin granted
    <3>1. g = grant /\ grant # NoGrant
      BY <1>7, <2>2
    <3>2. /\ s.entries[g.pair].time = g.time
          /\ s.entries[g.pair].signal = g.signal
      BY <1>8, <3>1
    <3>3. g.time \in 0 .. MaxTime /\ g.signal \in 0 .. MaxTime /\ MaxTime \in Nat
      BY <1>9, ConfigurationAssumption DEF Grants, Times
    <3>4. NoEntry.time = MaxTime + 1
      BY DEF NoEntry
    <3>5. QED
      BY <3>2, <3>3, <3>4
  <2>3. QED
    BY <2>1, <2>2
<1>12. FilesKept'
  <2>1. ASSUME file # NoState
        PROVE  Tight(file)'
    <3>1. file = s
      BY <1>3, <2>1
    <3>2. s \in State /\ Valid(s, s.budget)
      BY <1>3 DEF Tight
    <3> HIDE DEF s
    <3>3. QED
      BY <1>6, <1>7, <1>11, <3>1, <3>2 DEF Tight
  <2>2. QED
    BY <1>3, <1>7, <2>1 DEF FilesKept
<1>13. EntriesSpaced'
  <2> SUFFICES ASSUME NEW g \in granted', NEW h \in granted',
                      g.pair = h.pair, g # h
               PROVE  /\ g.signal # h.signal
                      /\ g.time >= h.time + Cooldown \/ h.time >= g.time + Cooldown
    BY DEF EntriesSpaced
  <2>1. /\ g.time \in Nat /\ g.signal \in Nat /\ h.time \in Nat
        /\ h.signal \in Nat /\ Cooldown \in Nat
    BY <1>9, ConfigurationAssumption DEF Grants, Times
  <2>2. CASE g \in granted /\ h \in granted
    BY <2>2 DEF EntriesSpaced
  <2>3. CASE g \notin granted
    <3>1. g = grant /\ grant # NoGrant /\ h \in granted
      BY <1>7, <2>3
    <3>2. QED
      BY <1>8, <2>1, <3>1
  <2>4. CASE h \notin granted
    <3>1. h = grant /\ grant # NoGrant /\ g \in granted
      BY <1>7, <2>4
    <3>2. QED
      BY <1>8, <2>1, <3>1
  <2>5. QED
    BY <2>2, <2>3, <2>4
<1>14. WrittenValid'
  BY <1>7 DEF WrittenValid
<1>15. Exclusive' /\ InCall' /\ GrantInHand'
  BY <1>2 DEF Exclusive, InCall, GrantInHand
<1>16. QED
  BY <1>10, <1>12, <1>13, <1>14, <1>15

LEMMA CrashStep ==
  ASSUME IInv, NEW c \in Clients, Crash(c)
  PROVE  IInv'
<1> USE DEF IInv
<1>1. /\ client' \in [Clients -> Calls] /\ client'[c].at = "out"
      /\ \A d \in Clients \ {c} : client'[d] = client[d]
  BY Ends DEF Crash
<1>2. \A d \in Clients : client'[d].at = "out"
  BY <1>1, OthersOut DEF Crash
<1>3. UNCHANGED <<marker, file, lost, told, high, granted>>
  BY DEF Crash
<1>4. TypeOK'
  BY <1>1, <1>3 DEF TypeOK
<1>5. FilesKept'
  BY <1>3 DEF FilesKept, Answered, Tight
<1>6. EntriesSpaced' /\ WrittenValid'
  BY <1>3 DEF EntriesSpaced, WrittenValid
<1>7. Exclusive' /\ InCall' /\ GrantInHand'
  BY <1>2 DEF Exclusive, InCall, GrantInHand
<1>8. QED
  BY <1>4, <1>5, <1>6, <1>7

LEMMA DeleteStep ==
  ASSUME IInv, Delete
  PROVE  IInv'
<1> USE DEF IInv
<1>1. /\ ~lost /\ lost' /\ UNCHANGED <<client, told, high, granted>>
      /\ \/ file' = NoState /\ UNCHANGED marker
         \/ marker' = Absent /\ UNCHANGED file
  BY DEF Delete
<1>2. ~Absent.exists /\ Absent.budget = 0
  BY DEF Absent
<1>3. TypeOK'
  <2>1. /\ marker' \in {Absent} \cup [exists : {TRUE}, budget : Nat]
        /\ file' \in State \cup {NoState} /\ lost' \in BOOLEAN
    BY <1>1 DEF TypeOK, Delete
  <2>2. QED
    BY <1>1, <2>1 DEF TypeOK
<1>4. FilesKept'
  <2>1. ASSUME file' # NoState
        PROVE  Tight(file)'
    <3>1. file' = file /\ Tight(file)
      BY <1>1, <2>1 DEF FilesKept
    <3>2. QED
      BY <1>1, <3>1 DEF Tight
  <2>2. Answered' = Answered
    BY <1>1 DEF Answered
  <2>3. QED
    BY <1>1, <2>1, <2>2 DEF FilesKept
<1>5. InCall'
  <2> SUFFICES ASSUME NEW c \in Clients, client[c].at # "out"
               PROVE  /\ Tight(client[c].state)'
                      /\ client[c].equity <= client[c].state.peak
                      /\ client[c].state.budget = Budget[c]
                      /\ marker'.budget # 0 => marker'.budget = Budget[c]
                      /\ client[c].at = "marking" => file' = NoState
                      /\ client[c].at = "returning" =>
                           /\ file' \in {NoState, client[c].state}
                           /\ marker'.exists \/ file' # NoState
    BY <1>1 DEF InCall
  <2>1. Tight(client[c].state)
    BY DEF InCall
  <2>2. Tight(client[c].state)'
    BY <1>1, <2>1 DEF Tight
  <2>3. QED
    BY <1>1, <1>2, <2>2 DEF InCall
<1>6. Exclusive' /\ GrantInHand' /\ EntriesSpaced'
  BY <1>1 DEF Exclusive, GrantInHand, EntriesSpaced
<1>7. WrittenValid'
  BY <1>1, <1>2 DEF WrittenValid
<1>8. QED
  BY <1>3, <1>4, <1>5, <1>6, <1>7

\* What a call that found both files may rely on.
LEMMA LoadedTight ==
  ASSUME IInv, NEW c \in Clients, NEW now \in Times, Loaded(c, now)
  PROVE  /\ Unlocked /\ file # NoState /\ Tight(file) /\ TypeOK
         /\ file.budget = Budget[c] /\ now >= file.last_observed
         /\ marker.exists /\ marker.budget = Budget[c]
<1>1. Named(c).exists /\ Named(c).budget = Budget[c]
  BY DEF Named
<1>2. QED
  BY <1>1 DEF Loaded, IInv, FilesKept, Valid

LEMMA ObserveStep ==
  ASSUME IInv, NEW c \in Clients, Observe(c)
  PROVE  IInv'
<1>1. PICK equity \in Equities, now \in Times :
        /\ Loaded(c, now)
        /\ Suspend(c, "writing", Advanced(file, equity, now), equity, NoGrant)
  BY DEF Observe
<1>2. PICK s : s = Advanced(file, equity, now)
  OBVIOUS
<1>3. /\ Unlocked /\ file # NoState /\ Tight(file) /\ TypeOK
      /\ file.budget = Budget[c] /\ now >= file.last_observed
      /\ marker.exists /\ marker.budget = Budget[c]
  BY <1>1, LoadedTight
<1>4. equity \in Nat
  BY ConfigurationAssumption
<1>5. Tight(s) /\ equity <= s.peak /\ s.budget = Budget[c]
  BY <1>2, <1>3, <1>4, AdvancedTight
<1>6. UNCHANGED <<marker, file, lost, told, high, granted>>
  BY DEF Observe
<1>7. Suspend(c, "writing", s, equity, NoGrant)
  BY <1>1, <1>2
<1>8. QED
  BY <1>3, <1>4, <1>5, <1>6, <1>7, StartStep

LEMMA ConsumeEntryStep ==
  ASSUME IInv, NEW c \in Clients, ConsumeEntry(c)
  PROVE  IInv'
<1>1. PICK equity \in Equities, now \in Times, pair \in Pairs, signal \in Times :
        /\ signal <= now /\ Loaded(c, now)
        /\ LET s == Advanced(file, equity, now)
           IN  \/ /\ Allowed(s, pair, now, signal)
                  /\ Suspend(c, "writing", Entered(s, pair, now, signal), equity,
                             [pair |-> pair, time |-> now, signal |-> signal])
               \/ /\ ~Allowed(s, pair, now, signal)
                  /\ Suspend(c, "writing", s, equity, NoGrant)
  BY DEF ConsumeEntry
<1>2. PICK s : s = Advanced(file, equity, now)
  OBVIOUS
<1>3. /\ Unlocked /\ file # NoState /\ Tight(file) /\ TypeOK
      /\ file.budget = Budget[c] /\ now >= file.last_observed
      /\ marker.exists /\ marker.budget = Budget[c]
  BY <1>1, LoadedTight
<1>4. equity \in Nat
  BY ConfigurationAssumption
<1>5. Tight(s) /\ equity <= s.peak /\ s.budget = Budget[c]
  BY <1>2, <1>3, <1>4, AdvancedTight
<1>6. UNCHANGED <<marker, file, lost, told, high, granted>>
  BY DEF ConsumeEntry
<1>7. CASE ~Allowed(s, pair, now, signal)
  <2>1. Suspend(c, "writing", s, equity, NoGrant)
    BY <1>1, <1>2, <1>7
  <2>2. QED
    BY <1>3, <1>4, <1>5, <1>6, <2>1, StartStep
<1>8. CASE Allowed(s, pair, now, signal)
  <2>1. PICK t, grant : /\ t = Entered(s, pair, now, signal)
                        /\ grant = [pair |-> pair, time |-> now, signal |-> signal]
    OBVIOUS
  <2>2. Suspend(c, "writing", t, equity, grant)
    BY <1>1, <1>2, <1>8, <2>1
  <2>3. s.last_observed = now
    BY <1>2, <1>3, <1>4, AdvancedTightens DEF Tight
  <2>4. /\ Tight(t) /\ ~t.hard_stop /\ t.budget = s.budget /\ t.peak = s.peak
        /\ t.entries[pair] = [time |-> now, signal |-> signal]
        /\ \A g \in granted : g.pair = pair =>
             g.signal < signal /\ g.time + Cooldown <= now
    BY <1>1, <1>3, <1>5, <1>8, <2>1, <2>3, EnteredTight
  <2>5. /\ grant \in Grants /\ grant.pair = pair
        /\ grant.time = now /\ grant.signal = signal
    BY <2>1 DEF Grants
  <2>6. /\ t.entries[grant.pair] = [time |-> grant.time, signal |-> grant.signal]
        /\ \A g \in granted : g.pair = grant.pair =>
             g.signal < grant.signal /\ g.time + Cooldown <= grant.time
    BY <2>4, <2>5
  <2>7. equity <= t.peak /\ t.budget = Budget[c]
    BY <1>5, <2>4
  <2>8. QED
    BY <1>3, <1>4, <1>6, <2>2, <2>4, <2>5, <2>6, <2>7, StartStep
<1>9. QED
  BY <1>7, <1>8

\* Before the first checkpoint nobody was ever answered, so a fresh one is
\* as strict as anything that was said.
LEMMA BootstrapStep ==
  ASSUME IInv, NEW c \in Clients, Bootstrap(c)
  PROVE  IInv'
<1>1. PICK equity \in Equities, now \in Times :
        Suspend(c, "marking", Advanced(Initial(equity, now, Budget[c]), equity, now),
                equity, NoGrant)
  BY DEF Bootstrap
<1>2. PICK first : first = Initial(equity, now, Budget[c])
  OBVIOUS
<1>3. PICK s : s = Advanced(first, equity, now)
  OBVIOUS
<1>4. /\ Unlocked /\ ~marker.exists /\ file = NoState /\ marker' = Created
      /\ UNCHANGED <<file, lost, told, high, granted>>
  BY DEF Bootstrap, Absent
<1>5. ~Answered /\ TypeOK
  BY <1>4 DEF IInv, FilesKept
<1>6. equity \in Nat /\ Budget[c] \in Nat \ {0} /\ now \in Nat
  BY ConfigurationAssumption DEF Times
<1>7. /\ first \in State /\ Valid(first, Budget[c])
      /\ first.budget = Budget[c] /\ first.last_observed = now
  BY <1>2, <1>6, InitialTyped
<1>8. told = 0 /\ high = 0 /\ granted = {}
  BY <1>5 DEF Answered, TypeOK
<1>9. Tight(first)
  <2>1. Mode(first) >= told /\ first.peak >= high
    BY <1>7, <1>8, ModeTyped DEF State
  <2>2. QED
    BY <1>7, <1>8, <2>1 DEF Tight
<1>10. now >= first.last_observed
  BY <1>6, <1>7
<1>11. Tight(s) /\ equity <= s.peak /\ s.budget = Budget[c]
  BY <1>3, <1>5, <1>6, <1>7, <1>9, <1>10, AdvancedTight
<1>12. Suspend(c, "marking", s, equity, NoGrant)
  BY <1>1, <1>2, <1>3
<1>13. QED
  BY <1>4, <1>5, <1>6, <1>11, <1>12, StartStep

-----------------------------------------------------------------------------
(* The trade budget *)

\* The latch of a state just advanced covers the drawdown of its equity.
LEMMA AdvancedPriced ==
  ASSUME NEW s \in State, NEW equity \in Nat, NEW now \in Times
  PROVE  LET t == Advanced(s, equity, now)
         IN  ~t.restricted => ~AtRestriction(equity, t.peak)
<1> DEFINE peak == larger(s.peak, equity)
<1> DEFINE t == Advanced(s, equity, now)
<1>1. t.peak = peak
  BY DEF Advanced, State
<1>2. AtRestriction(equity, peak) => t.restricted
  BY DEF Advanced, State
<1>3. QED
  BY <1>1, <1>2

\* A call that starts prices its state with the equity it was given.
LEMMA StartPriced ==
  ASSUME TypeOK, NEW c \in Clients, Unlocked, NEW at, NEW s, NEW equity, NEW grant,
         Suspend(c, at, s, equity, grant),
         ~s.restricted => ~AtRestriction(equity, s.peak)
  PROVE  Priced'
<1>1. /\ client'[c] = [at |-> at, state |-> s, equity |-> equity, grant |-> grant]
      /\ \A d \in Clients \ {c} : client'[d] = client[d]
  BY Started
<1>2. client'[c].state = s /\ client'[c].equity = equity
  BY <1>1
<1>3. QED
  BY <1>1, <1>2 DEF Priced, Unlocked

LEMMA PricedStep ==
  ASSUME IInv, Priced, [Next]_vars
  PROVE  Priced'
<1>1. TypeOK
  BY DEF IInv
<1>2. ASSUME NEW c \in Clients, Observe(c)
      PROVE  Priced'
  <2>1. PICK equity \in Equities, now \in Times :
          /\ Loaded(c, now)
          /\ Suspend(c, "writing", Advanced(file, equity, now), equity, NoGrant)
    BY <1>2 DEF Observe
  <2>2. PICK s : s = Advanced(file, equity, now)
    OBVIOUS
  <2>3. file \in State /\ Unlocked /\ equity \in Nat
    BY <2>1, LoadedTight, ConfigurationAssumption DEF Tight
  <2>4. ~s.restricted => ~AtRestriction(equity, s.peak)
    BY <2>2, <2>3, AdvancedPriced
  <2>5. QED
    BY <1>1, <2>1, <2>2, <2>3, <2>4, StartPriced
<1>3. ASSUME NEW c \in Clients, ConsumeEntry(c)
      PROVE  Priced'
  <2>1. PICK equity \in Equities, now \in Times, pair \in Pairs, signal \in Times :
          /\ signal <= now /\ Loaded(c, now)
          /\ LET s == Advanced(file, equity, now)
             IN  \/ /\ Allowed(s, pair, now, signal)
                    /\ Suspend(c, "writing", Entered(s, pair, now, signal), equity,
                               [pair |-> pair, time |-> now, signal |-> signal])
                 \/ /\ ~Allowed(s, pair, now, signal)
                    /\ Suspend(c, "writing", s, equity, NoGrant)
    BY <1>3 DEF ConsumeEntry
  <2>2. PICK s : s = Advanced(file, equity, now)
    OBVIOUS
  <2>3. PICK t : t = Entered(s, pair, now, signal)
    OBVIOUS
  <2>4. file \in State /\ Unlocked /\ equity \in Nat
    BY <2>1, LoadedTight, ConfigurationAssumption DEF Tight
  <2>5. s \in State
    BY <2>2, <2>4, AdvancedTyped
  <2>6. ~s.restricted => ~AtRestriction(equity, s.peak)
    BY <2>2, <2>4, AdvancedPriced
  <2>7. t.restricted = s.restricted /\ t.peak = s.peak
    BY <2>3, <2>5, EnteredTyped, ZenonT(30)
  <2>8. ~t.restricted => ~AtRestriction(equity, t.peak)
    BY <2>6, <2>7
  <2>9. PICK grant : \/ Suspend(c, "writing", t, equity, grant)
                     \/ Suspend(c, "writing", s, equity, grant)
    BY <2>1, <2>2, <2>3
  <2>10. CASE Suspend(c, "writing", t, equity, grant)
    BY <1>1, <2>4, <2>8, <2>10, StartPriced
  <2>11. CASE Suspend(c, "writing", s, equity, grant)
    BY <1>1, <2>4, <2>6, <2>11, StartPriced
  <2>12. QED
    BY <2>9, <2>10, <2>11
<1>4. ASSUME NEW c \in Clients, Bootstrap(c)
      PROVE  Priced'
  <2>1. PICK equity \in Equities, now \in Times :
          Suspend(c, "marking", Advanced(Initial(equity, now, Budget[c]), equity, now),
                  equity, NoGrant)
    BY <1>4 DEF Bootstrap
  <2>2. PICK first : first = Initial(equity, now, Budget[c])
    OBVIOUS
  <2>3. PICK s : s = Advanced(first, equity, now)
    OBVIOUS
  <2>4. equity \in Nat /\ Budget[c] \in Nat \ {0} /\ Unlocked
    BY <1>4, ConfigurationAssumption DEF Bootstrap
  <2>5. first \in State
    BY <2>2, <2>4, InitialTyped
  <2>6. ~s.restricted => ~AtRestriction(equity, s.peak)
    BY <2>3, <2>4, <2>5, AdvancedPriced
  <2>7. Suspend(c, "marking", s, equity, NoGrant)
    BY <2>1, <2>2, <2>3
  <2>8. QED
    BY <1>1, <2>4, <2>6, <2>7, StartPriced
<1>5. ASSUME NEW c \in Clients, WriteMarker(c) \/ Replace(c)
      PROVE  Priced'
  <2>1. PICK at \in {"marking", "writing", "returning"} :
          client' = [client EXCEPT ![c].at = at] /\ client[c].at # "out"
    BY <1>5 DEF WriteMarker, Replace
  <2>2. /\ client'[c].state = client[c].state /\ client'[c].equity = client[c].equity
        /\ \A d \in Clients \ {c} : client'[d] = client[d]
    BY <1>1, <2>1, GoesOn
  <2>3. QED
    BY <2>1, <2>2 DEF Priced
<1>6. ASSUME NEW c \in Clients, Return(c) \/ Crash(c)
      PROVE  Priced'
  <2>1. client' = [client EXCEPT ![c] = Idle]
    BY <1>6 DEF Return, Crash
  <2>2. /\ client'[c].at = "out"
        /\ \A d \in Clients \ {c} : client'[d] = client[d]
    BY <1>1, <2>1, Ends
  <2>3. QED
    BY <2>2 DEF Priced
<1>7. CASE Delete \/ UNCHANGED vars
  BY <1>7 DEF Delete, vars, Priced
<1>8. QED
  BY <1>2, <1>3, <1>4, <1>5, <1>6, <1>7 DEF Next, Call

\* Below the restriction, 0.5% of the equity is far less than a quarter of
\* what is left before the hard stop.
LEMMA UnrestrictedShare ==
  ASSUME NEW s \in State, NEW equity \in Nat, ~AtRestriction(equity, s.peak)
  PROVE  40 * equity <= Buffer(s, equity) * 200
<1>1. s.peak \in Nat
  BY DEF State
<1>2. 100 * equity > 85 * s.peak
  BY <1>1 DEF AtRestriction
<1>3. Buffer(s, equity) = 4 * equity - 3 * s.peak
  BY <1>1, <1>2 DEF Buffer
<1>4. QED
  BY <1>1, <1>2, <1>3

\* The restricted share is the smaller of two, one of them a tenth of the
\* buffer.
LEMMA RestrictedShare ==
  ASSUME NEW s \in State, NEW equity \in Nat, Mode(s) = 1
  PROVE  40 * TradeBudget(s, equity).units <= Buffer(s, equity) * TradeBudget(s, equity).per
<1>1. PICK buffer : buffer = Buffer(s, equity)
  OBVIOUS
<1>2. s.peak \in Nat /\ buffer \in Nat
  BY <1>1 DEF State, Buffer
<1>3. PICK units : units = equity * larger(0, IF 10 * buffer >= 4 * s.peak
                                              THEN 4 * s.peak ELSE 10 * buffer)
  OBVIOUS
<1>4. PICK per : per = 3200 * s.peak
  OBVIOUS
<1>5. units \in Nat /\ per \in Nat
  <2>1. PICK share : share = larger(0, IF 10 * buffer >= 4 * s.peak
                                       THEN 4 * s.peak ELSE 10 * buffer)
    OBVIOUS
  <2>2. share \in Nat
    BY <1>2, <2>1 DEF larger
  <2>3. units = equity * share
    BY <1>3, <2>1
  <2>4. QED
    BY <1>2, <1>4, <2>2, <2>3
<1>6. TradeBudget(s, equity) =
        IF units * 40 <= buffer * per THEN [units |-> units, per |-> per]
                                      ELSE [units |-> buffer, per |-> 40]
  BY <1>1, <1>3, <1>4 DEF TradeBudget
<1>7. CASE units * 40 <= buffer * per
  <2>1. PICK product : product = buffer * per
    OBVIOUS
  <2>2. product \in Nat
    BY <1>2, <1>5, <2>1
  <2>3. 40 * units <= product
    BY <1>5, <1>7, <2>1, <2>2
  <2>4. TradeBudget(s, equity).units = units /\ TradeBudget(s, equity).per = per
    BY <1>6, <1>7
  <2>5. QED
    BY <1>1, <2>1, <2>3, <2>4
<1>8. CASE ~(units * 40 <= buffer * per)
  <2>1. TradeBudget(s, equity).units = buffer /\ TradeBudget(s, equity).per = 40
    BY <1>6, <1>8
  <2>2. QED
    BY <1>1, <1>2, <2>1
<1>9. QED
  BY <1>7, <1>8

-----------------------------------------------------------------------------
(* The theorems *)

LEMMA Initially ==
  ASSUME Init
  PROVE  IInv
<1>1. Idle \in Calls /\ Idle.at = "out"
  BY DEF Idle, Calls
<1>2. \A c \in Clients : client[c].at = "out"
  BY <1>1 DEF Init
<1>3. TypeOK
  <2>1. client \in [Clients -> Calls]
    BY <1>1 DEF Init
  <2>2. /\ marker \in {Absent} /\ file \in {NoState} /\ lost \in BOOLEAN
        /\ told = 0 /\ high = 0 /\ granted = {}
    BY DEF Init
  <2>3. QED
    BY <2>1, <2>2 DEF TypeOK
<1>4. Exclusive /\ InCall /\ GrantInHand
  BY <1>2 DEF Exclusive, InCall, GrantInHand
<1>5. FilesKept /\ WrittenValid /\ EntriesSpaced
  BY DEF Init, FilesKept, Answered, WrittenValid, EntriesSpaced
<1>6. QED
  BY <1>3, <1>4, <1>5 DEF IInv

LEMMA Stutters ==
  ASSUME IInv, UNCHANGED vars
  PROVE  IInv'
<1> USE DEF IInv, vars
<1>1. TypeOK' /\ Exclusive' /\ WrittenValid' /\ EntriesSpaced' /\ GrantInHand'
  BY DEF TypeOK, Exclusive, WrittenValid, EntriesSpaced, GrantInHand
<1>2. FilesKept'
  BY DEF FilesKept, Answered, Tight
<1>3. InCall'
  BY DEF InCall, Tight
<1>4. QED
  BY <1>1, <1>2, <1>3

\* The latches, the peak and the consumed entries outlive everything that
\* happens to the calls of competition.py and to one of its two files.
THEOREM Inductive == Spec => []IInv
<1>1. IInv /\ [Next]_vars => IInv'
  <2> SUFFICES ASSUME IInv, [Next]_vars
               PROVE  IInv'
    OBVIOUS
  <2>1. CASE UNCHANGED vars
    BY <2>1, Stutters
  <2>2. ASSUME NEW c \in Clients, Call(c)
        PROVE  IInv'
    BY <2>2, ObserveStep, ConsumeEntryStep, BootstrapStep, WriteMarkerStep,
       ReplaceStep, ReturnStep, CrashStep DEF Call
  <2>3. CASE Delete
    BY <2>3, DeleteStep
  <2>4. QED
    BY <2>1, <2>2, <2>3 DEF Next
<1>2. QED
  BY <1>1, Initially, PTL DEF Spec

\* The files, the calls and the histories keep their types.
THEOREM TypeCorrect == Spec => []TypeOK
<1>1. IInv => TypeOK
  BY DEF IInv
<1>2. QED
  BY <1>1, Inductive, PTL

\* Whatever a client writes, every client of the same contract can load.
THEOREM LoadableAlways == Spec => []WrittenValid
<1>1. IInv => WrittenValid
  BY DEF IInv
<1>2. QED
  BY <1>1, Inductive, PTL

\* "Both latches survive recovery and day rollover": nobody is told of a mode
\* less strict, or of a drawdown from a lower peak, than was told before.
THEOREM LatchesKept == Spec => []NeverLoosened
<1>1. IInv => NeverLoosened
  BY DEF IInv, InCall, Tight, NeverLoosened
<1>2. QED
  BY <1>1, Inductive, PTL

\* No signal buys two entries, and the cooldown separates any two of a pair.
THEOREM EntriesOnce == Spec => []EntriesSpaced
<1>1. IInv => EntriesSpaced
  BY DEF IInv
<1>2. QED
  BY <1>1, Inductive, PTL

\* Once anybody was told of a hard stop nobody is allowed an entry.
THEOREM StopIsFinal == Spec => NoEntryAfterStop
<1>1. IInv /\ [Next]_vars => (told = 2 => granted' = granted) \/ UNCHANGED vars
  <2> SUFFICES ASSUME IInv, Next, told = 2
               PROVE  granted' = granted
    OBVIOUS
  <2>1. ASSUME NEW c \in Clients, Return(c)
        PROVE  granted' = granted
    <3>1. Tight(client[c].state) /\ client[c] \in Calls
      BY <2>1 DEF Return, IInv, InCall, TypeOK
    <3>2. Mode(client[c].state) >= 2 /\ client[c].state \in State
      BY <3>1 DEF Tight
    <3>3. client[c].state.hard_stop
      BY <3>2 DEF Mode, State
    <3>4. client[c].grant = NoGrant
      BY <2>1, <3>3 DEF Return, IInv, GrantInHand
    <3>5. QED
      BY <2>1, <3>4 DEF Return
  <2>2. QED
    BY <2>1 DEF Next, Call, Observe, ConsumeEntry, Bootstrap, WriteMarker,
                Replace, Crash, Delete
<1>2. IInv /\ [Next]_vars => [told = 2 => granted' = granted]_vars
  BY <1>1
<1>3. QED
  BY <1>2, Inductive, PTL DEF Spec, NoEntryAfterStop
\* A larger factor makes a larger product.
LEMMA ProductGrows ==
  ASSUME NEW a \in Nat, NEW b \in Nat, NEW c \in Nat, b <= c
  PROVE  a * b <= a * c
OBVIOUS

\* The restricted share is at most a quarter of 0.5% of the equity: the taper
\* by its cap, the tenth of the buffer because it is the smaller one.
LEMMA RestrictedQuarter ==
  ASSUME NEW s \in State, NEW equity \in Nat, Mode(s) = 1
  PROVE  800 * TradeBudget(s, equity).units <= equity * TradeBudget(s, equity).per
<1>1. PICK buffer : buffer = Buffer(s, equity)
  OBVIOUS
<1>2. PICK peak \in Nat : peak = s.peak
  BY DEF State
<1>3. buffer \in Nat
  BY <1>1, <1>2 DEF Buffer
<1>4. PICK share : share = larger(0, IF 10 * buffer >= 4 * s.peak
                                     THEN 4 * s.peak ELSE 10 * buffer)
  OBVIOUS
<1>5. share \in Nat /\ share <= 4 * peak
  BY <1>2, <1>3, <1>4 DEF larger
<1>6. PICK units \in Nat : units = equity * share
  BY <1>5
<1>7. PICK per \in Nat : per = 3200 * peak
  BY <1>2
<1>8. TradeBudget(s, equity) =
        IF units * 40 <= buffer * per THEN [units |-> units, per |-> per]
                                      ELSE [units |-> buffer, per |-> 40]
  BY <1>1, <1>2, <1>4, <1>6, <1>7 DEF TradeBudget
<1>9. PICK whole \in Nat : whole = equity * per
  BY <1>7
<1>10. 800 * units <= whole
  <2>1. equity * share <= equity * (4 * peak)
    BY <1>5, ProductGrows
  <2>2. equity * per = 800 * (equity * (4 * peak))
    BY <1>7
  <2>3. QED
    BY <1>6, <1>9, <2>1, <2>2
<1>11. CASE units * 40 <= buffer * per
  BY <1>8, <1>9, <1>10, <1>11
<1>12. CASE ~(units * 40 <= buffer * per)
  <2>1. PICK held \in Nat : held = buffer * per
    BY <1>3, <1>7
  <2>2. 20 * held < whole
    BY <1>10, <1>12, <1>9, <1>6, <2>1
  <2>3. 20 * buffer <= equity
    <3>1. SUFFICES ASSUME equity <= 20 * buffer PROVE FALSE
      BY <1>3
    <3>2. per * equity <= per * (20 * buffer)
      BY <1>3, <3>1, ProductGrows
    <3>3. per * (20 * buffer) = 20 * held /\ per * equity = whole
      BY <1>3, <1>9, <2>1
    <3>4. QED
      BY <2>2, <3>2, <3>3
  <2>4. QED
    BY <1>3, <1>8, <1>12, <2>3
<1>13. QED
  BY <1>11, <1>12

\* risk_view's risk_trade_budget is never more than a tenth of the loss left
\* before the hard stop, for any budget, equity and peak and in every mode; it
\* is a quarter of the usual share at most when the account is restricted, and
\* nothing once the hard stop is latched.
THEOREM BudgetBounded == Spec => []BudgetWithinBuffer
<1>1. Init => Priced
  BY DEF Init, Priced, Idle
<1>2. Spec => []Priced
  BY <1>1, PricedStep, Inductive, PTL DEF Spec
<1>3. IInv /\ Priced => BudgetWithinBuffer
  <2> SUFFICES ASSUME IInv, Priced, NEW c \in Clients, client[c].at = "returning"
               PROVE  LET s == client[c].state
                          b == TradeBudget(s, client[c].equity)
                      IN  /\ 40 * b.units <= Buffer(s, client[c].equity) * b.per
                          /\ s.restricted => 800 * b.units <= client[c].equity * b.per
                          /\ s.hard_stop => b.units = 0
    BY DEF BudgetWithinBuffer
  <2>1. PICK s, equity : s = client[c].state /\ equity = client[c].equity
    OBVIOUS
  <2>2. s \in State /\ equity \in Nat
    BY <2>1 DEF IInv, InCall, Tight, TypeOK, Calls
  <2>3. ~s.restricted => ~AtRestriction(equity, s.peak)
    BY <2>1 DEF Priced
  <2>4. s.hard_stop => s.restricted
    BY <2>1 DEF IInv, InCall, Tight, Valid
  <2>5. Buffer(s, equity) \in Nat
    BY <2>2 DEF Buffer, State
  <2>6. CASE s.hard_stop
    <3>1. TradeBudget(s, equity) = [units |-> 0, per |-> 1]
      BY <2>6 DEF TradeBudget, Mode
    <3>2. QED
      BY <2>1, <2>2, <2>5, <3>1
  <2>7. CASE ~s.hard_stop /\ s.restricted
    <3>1. Mode(s) = 1
      BY <2>7 DEF Mode
    <3>2. 800 * TradeBudget(s, equity).units <= equity * TradeBudget(s, equity).per
      BY <2>2, <3>1, RestrictedQuarter
    <3>3. 40 * TradeBudget(s, equity).units <= Buffer(s, equity) * TradeBudget(s, equity).per
      BY <2>2, <3>1, RestrictedShare
    <3>4. QED
      BY <2>1, <2>7, <3>2, <3>3
  <2>8. CASE ~s.restricted
    <3>1. TradeBudget(s, equity) = [units |-> equity, per |-> 200]
      BY <2>4, <2>8 DEF TradeBudget, Mode
    <3>2. 40 * equity <= Buffer(s, equity) * 200
      BY <2>2, <2>3, <2>8, UnrestrictedShare
    <3>3. QED
      BY <2>1, <2>4, <2>8, <3>1, <3>2
  <2>9. QED
    BY <2>6, <2>7, <2>8
<1>4. QED
  BY <1>2, <1>3, Inductive, PTL
=============================================================================
