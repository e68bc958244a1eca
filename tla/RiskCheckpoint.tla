----------------------------- MODULE RiskCheckpoint -----------------------------
(***************************************************************************)
(* The drawdown latches of src/risk/competition.py and the checkpoint file *)
(* that carries them across restarts and between clients.                  *)
(*                                                                         *)
(* A call runs under an exclusive file lock and is cut where a crash of    *)
(* the process, or a failed write, leaves another file behind: the marker  *)
(* is created, then written; the checkpoint is replaced; the caller gets   *)
(* its answer.  A call that raises before the first write changes nothing  *)
(* and is not a step.                                                      *)
(*                                                                         *)
(* Amounts are whole numbers of the smallest amount told apart (0.01 in    *)
(* the code); times are whole seconds.  Each call may see another clock    *)
(* and another equity: the clients read them before they take the lock.    *)
(***************************************************************************)
EXTENDS Naturals

CONSTANTS
  Clients,    \* callers: profiles and processes of one account
  Pairs,      \* the pairs an entry may be consumed for
  Budget,     \* the budget each client is configured with
  Equities,   \* the equities a call may report
  MaxTime,    \* bound: the latest clock reading
  DayLength,  \* 86400 in the code
  Cooldown    \* the least time between two entries of a pair

ASSUME ConfigurationAssumption ==
  /\ Budget \in [Clients -> Nat \ {0}] /\ Equities \subseteq Nat
  /\ MaxTime \in Nat /\ DayLength \in Nat \ {0} /\ Cooldown \in Nat \ {0}

VARIABLES
  marker,   \* the .initialized file: absent, created, or the contract in it
  file,     \* the checkpoint
  client,   \* the call each client is in
  lost,     \* has somebody deleted one of the two files?
  told,     \* history: the strictest mode any caller was told
  high,     \* history: the highest equity any caller was answered for
  granted   \* history: the entries callers were allowed

vars == <<marker, file, client, lost, told, high, granted>>

-----------------------------------------------------------------------------
(* Types *)

Times    == 0 .. MaxTime
NoEntry  == [time |-> MaxTime + 1, signal |-> MaxTime + 1]
Entries  == [time : Times, signal : Times] \cup {NoEntry}
NoState  == [budget |-> 0]

State ==
  [budget : Nat \ {0}, peak : Nat \ {0}, day : Nat, day_equity : Nat \ {0},
   last_observed : Times, restricted : BOOLEAN, hard_stop : BOOLEAN,
   entries : [Pairs -> Entries]]

\* The marker: absent, created but still empty, or naming a contract.
Absent       == [exists |-> FALSE, budget |-> 0]
Created      == [exists |-> TRUE, budget |-> 0]
Named(c)     == [exists |-> TRUE, budget |-> Budget[c]]

Grants  == [pair : Pairs, time : Times, signal : Times]
NoGrant == [pair |-> "none"]

\* Where a call is, and what it will write and answer.
Calls ==
  [at : {"out", "marking", "writing", "returning"},
   state : State \cup {NoState}, equity : Nat, grant : Grants \cup {NoGrant}]

Idle == [at |-> "out", state |-> NoState, equity |-> 0, grant |-> NoGrant]

larger(a, b) == IF a >= b THEN a ELSE b

-----------------------------------------------------------------------------
(* The reducer *)

\* At most 85% and at most 75% of the peak, boundaries included.
AtRestriction(equity, peak) == 100 * equity <= 85 * peak
AtHardStop(equity, peak)    == 100 * equity <= 75 * peak

\* Mutant: the latches follow the drawdown of the moment.
AdvancedUnlatched(s, equity, now) ==
  LET peak == larger(s.peak, equity)
  IN  [s EXCEPT !.day = now \div DayLength,
                !.day_equity = IF now \div DayLength # s.day THEN larger(equity, 1) ELSE @,
                !.peak = peak, !.last_observed = now,
                !.restricted = AtRestriction(equity, peak),
                !.hard_stop = AtHardStop(equity, peak)]

\* advance: the peak and both latches only ever tighten.
Advanced(s, equity, now) ==
  LET peak == larger(s.peak, equity)
  IN  [s EXCEPT !.day = now \div DayLength,
                !.day_equity = IF now \div DayLength # s.day THEN larger(equity, 1) ELSE @,
                !.peak = peak, !.last_observed = now,
                !.restricted = IF AtRestriction(equity, peak) THEN TRUE ELSE @,
                !.hard_stop = IF AtHardStop(equity, peak) THEN TRUE ELSE @]

Initial(equity, now, budget) ==
  [budget |-> budget, peak |-> larger(budget, equity), day |-> now \div DayLength,
   day_equity |-> larger(equity, 1), last_observed |-> now, restricted |-> FALSE,
   hard_stop |-> FALSE, entries |-> [p \in Pairs |-> NoEntry]]

\* validate_state
Valid(s, budget) ==
  /\ s.budget = budget /\ s.peak >= budget /\ s.day_equity > 0
  /\ s.day = s.last_observed \div DayLength
  /\ s.hard_stop => s.restricted
  /\ \A p \in Pairs : s.entries[p] # NoEntry =>
       /\ s.entries[p].time <= s.last_observed
       /\ s.entries[p].signal <= s.entries[p].time

\* Mutant: any signal may be used again once the cooldown is over.
AllowedAgain(s, pair, now, signal) ==
  LET previous == s.entries[pair]
  IN  ~s.hard_stop /\ (previous = NoEntry \/ now >= previous.time + Cooldown)

\* Mutant: the latch is left to the caller.
AllowedStopped(s, pair, now, signal) ==
  LET previous == s.entries[pair]
  IN  \/ previous = NoEntry
      \/ signal > previous.signal /\ now >= previous.time + Cooldown

\* A signal buys one entry, and the cooldown separates any two.
Allowed(s, pair, now, signal) ==
  LET previous == s.entries[pair]
  IN  /\ ~s.hard_stop
      /\ \/ previous = NoEntry
         \/ signal > previous.signal /\ now >= previous.time + Cooldown

\* The loss left before the hard stop, in quarters.
Buffer(s, equity) ==
  IF 4 * equity >= 3 * s.peak THEN 4 * equity - 3 * s.peak ELSE 0

Mode(s) == IF s.hard_stop THEN 2 ELSE IF s.restricted THEN 1 ELSE 0

\* Mutant: a restricted account sizes its trades like any other.
TradeBudgetFull(s, equity) ==
  IF s.hard_stop THEN [units |-> 0, per |-> 1] ELSE [units |-> equity, per |-> 200]

\* risk_view's risk_trade_budget, as units divided by per.
TradeBudget(s, equity) ==
  LET buffer == Buffer(s, equity)
      \* 0.5% of the equity, by a quarter of the buffer's share of its band
      tapered == [units |-> equity * larger(0, IF 10 * buffer >= 4 * s.peak
                                               THEN 4 * s.peak ELSE 10 * buffer),
                  per |-> 3200 * s.peak]
      tenth   == [units |-> buffer, per |-> 40]
  IN  CASE Mode(s) = 2 -> [units |-> 0, per |-> 1]
        [] Mode(s) = 1 -> IF tapered.units * tenth.per <= tenth.units * tapered.per
                          THEN tapered ELSE tenth
        [] Mode(s) = 0 -> [units |-> equity, per |-> 200]

-----------------------------------------------------------------------------
(* The calls *)

Unlocked == \A c \in Clients : client[c].at = "out"

Suspend(c, at, s, equity, grant) ==
  client' = [client EXCEPT ![c] =
               [at |-> at, state |-> s, equity |-> equity, grant |-> grant]]

\* _load accepts the files, and advance the reading of the clock.
Loaded(c, now) ==
  /\ Unlocked
  /\ marker = Named(c) /\ file # NoState
  /\ Valid(file, Budget[c]) /\ now >= file.last_observed

Observe(c) ==
  /\ \E equity \in Equities, now \in Times :
       /\ Loaded(c, now)
       /\ Suspend(c, "writing", Advanced(file, equity, now), equity, NoGrant)
  /\ UNCHANGED <<marker, file, lost, told, high, granted>>

Entered(s, pair, now, signal) ==
  [s EXCEPT !.entries = [@ EXCEPT ![pair] = [time |-> now, signal |-> signal]]]

\* The observation is written whether the entry is allowed or not.
ConsumeEntry(c) ==
  /\ \E equity \in Equities, now \in Times, pair \in Pairs, signal \in Times :
       /\ signal <= now /\ Loaded(c, now)
       /\ LET s == Advanced(file, equity, now)
          IN  \/ /\ Allowed(s, pair, now, signal)
                 /\ Suspend(c, "writing", Entered(s, pair, now, signal), equity,
                            [pair |-> pair, time |-> now, signal |-> signal])
              \/ /\ ~Allowed(s, pair, now, signal)
                 /\ Suspend(c, "writing", s, equity, NoGrant)
  /\ UNCHANGED <<marker, file, lost, told, high, granted>>

\* Mutant: a missing checkpoint is made again, whatever the marker says.
BootstrapLost(c) ==
  /\ Unlocked /\ file = NoState
  /\ \E equity \in Equities, now \in Times :
       Suspend(c, "marking", Advanced(Initial(equity, now, Budget[c]), equity, now),
               equity, NoGrant)
  /\ marker' = Created
  /\ UNCHANGED <<file, lost, told, high, granted>>

\* Neither file exists and the caller has seen a flat account: the marker is
\* created before the first checkpoint.
Bootstrap(c) ==
  /\ Unlocked /\ marker = Absent /\ file = NoState
  /\ \E equity \in Equities, now \in Times :
       Suspend(c, "marking", Advanced(Initial(equity, now, Budget[c]), equity, now),
               equity, NoGrant)
  /\ marker' = Created
  /\ UNCHANGED <<file, lost, told, high, granted>>

\* (A marker deleted in the meantime is written to no purpose.)
WriteMarker(c) ==
  /\ client[c].at = "marking"
  /\ marker' = IF marker.exists THEN Named(c) ELSE Absent
  /\ client' = [client EXCEPT ![c].at = "writing"]
  /\ UNCHANGED <<file, lost, told, high, granted>>

\* _write: the whole checkpoint is replaced at once.
Replace(c) ==
  /\ client[c].at = "writing"
  /\ file' = client[c].state
  /\ client' = [client EXCEPT ![c].at = "returning"]
  /\ UNCHANGED <<marker, lost, told, high, granted>>

Return(c) ==
  /\ client[c].at = "returning"
  /\ told' = larger(told, Mode(client[c].state))
  /\ high' = larger(high, client[c].equity)
  /\ granted' = granted \cup ({client[c].grant} \ {NoGrant})
  /\ client' = [client EXCEPT ![c] = Idle]
  /\ UNCHANGED <<marker, file, lost>>

\* The process dies, or a write raises: the lock is gone, the files stay.
Crash(c) ==
  /\ client[c].at # "out"
  /\ client' = [client EXCEPT ![c] = Idle]
  /\ UNCHANGED <<marker, file, lost, told, high, granted>>

\* Somebody deletes one of the two files.
Delete ==
  /\ ~lost /\ lost' = TRUE
  /\ \/ file' = NoState /\ UNCHANGED marker
     \/ marker' = Absent /\ UNCHANGED file
  /\ UNCHANGED <<client, told, high, granted>>

-----------------------------------------------------------------------------
Init ==
  /\ marker = Absent /\ file = NoState
  /\ client = [c \in Clients |-> Idle]
  /\ lost = FALSE
  /\ told = 0 /\ high = 0 /\ granted = {}

Call(c) ==
  \/ Observe(c) \/ ConsumeEntry(c) \/ Bootstrap(c) \/ WriteMarker(c)
  \/ Replace(c) \/ Return(c) \/ Crash(c)

Next == (\E c \in Clients : Call(c)) \/ Delete

Spec == Init /\ [][Next]_vars

-----------------------------------------------------------------------------
(* Properties *)

TypeOK ==
  /\ marker \in {Absent} \cup [exists : {TRUE}, budget : Nat]
  /\ file \in State \cup {NoState}
  /\ client \in [Clients -> Calls]
  /\ lost \in BOOLEAN /\ told \in 0 .. 2 /\ high \in Nat
  /\ granted \subseteq Grants

\* No client locks itself or another out: whatever a client writes is a state
\* validate_state accepts, under the contract the marker names.
WrittenValid ==
  file # NoState =>
    /\ Valid(file, file.budget)
    /\ marker.budget # 0 => marker.budget = file.budget

\* "Both latches survive recovery and day rollover": what a caller is about
\* to be told is never less strict, nor measured from a lower peak, than what
\* any caller was told before, across crashes, midnight and a deleted file.
NeverLoosened ==
  \A c \in Clients : client[c].at = "returning" =>
    /\ Mode(client[c].state) >= told
    /\ client[c].state.peak >= high

\* One entry per signal, and the cooldown between any two entries of a pair,
\* whichever clients asked for them.
EntriesSpaced ==
  \A g, h \in granted : g.pair = h.pair /\ g # h =>
    /\ g.signal # h.signal
    /\ g.time >= h.time + Cooldown \/ h.time >= g.time + Cooldown

\* Nobody is allowed an entry any more once somebody was told of a hard stop.
NoEntryAfterStop == [][told = 2 => granted' = granted]_vars

\* In no mode, and on either side of the restriction, does a trade's risk
\* budget exceed a tenth of the loss left before the hard stop; a restricted
\* account's is at most a quarter of the usual 0.5%; a latched hard stop leaves
\* none.  What a caller is told is priced with the state it was told.
BudgetWithinBuffer ==
  \A c \in Clients : client[c].at = "returning" =>
    LET s == client[c].state
        b == TradeBudget(s, client[c].equity)
    IN  /\ 40 * b.units <= Buffer(s, client[c].equity) * b.per
        /\ s.restricted => 800 * b.units <= client[c].equity * b.per
        /\ s.hard_stop => b.units = 0

-----------------------------------------------------------------------------
(* The inductive invariant behind them *)

\* Somebody has been given an answer.
Answered == told > 0 \/ high > 0 \/ granted # {}

\* A state is at least as strict as everything any caller was told.
Tight(s) ==
  /\ s \in State /\ Valid(s, s.budget)
  /\ Mode(s) >= told /\ s.peak >= high
  /\ \A g \in granted : /\ s.entries[g.pair] # NoEntry
                        /\ s.entries[g.pair].time >= g.time
                        /\ s.entries[g.pair].signal >= g.signal

\* The lock: one call at a time.
Exclusive ==
  \A c, d \in Clients : client[c].at # "out" /\ client[d].at # "out" => c = d

\* After the first answer one of the two files is left at the least, and as
\* long as nobody deletes one, both are.
FilesKept ==
  /\ file # NoState => Tight(file)
  /\ Answered => marker.exists \/ file # NoState
  /\ Answered /\ ~lost => marker.exists /\ file # NoState

\* What a call in progress holds, and what it leaves when it crashes.
InCall ==
  \A c \in Clients : client[c].at # "out" =>
    /\ Tight(client[c].state) /\ client[c].equity <= client[c].state.peak
    /\ client[c].state.budget = Budget[c]
    /\ marker.budget # 0 => marker.budget = Budget[c]
    /\ ~lost => marker.exists
    /\ client[c].at = "marking" => file = NoState
    /\ client[c].at = "returning" =>
         /\ file \in {NoState, client[c].state}
         /\ marker.exists \/ file # NoState
         /\ ~lost => file # NoState

\* An entry about to be granted is written in the state, and is newer than
\* every entry granted before.
GrantInHand ==
  \A c \in Clients : client[c].at # "out" /\ client[c].grant # NoGrant =>
    LET grant == client[c].grant
    IN  /\ ~client[c].state.hard_stop
        /\ client[c].state.entries[grant.pair] =
             [time |-> grant.time, signal |-> grant.signal]
        /\ \A g \in granted : g.pair = grant.pair =>
             g.signal < grant.signal /\ g.time + Cooldown <= grant.time

\* A state in hand that carries no latch was computed from an equity above
\* the restriction: what TradeBudget's unrestricted share relies on.
Priced ==
  \A c \in Clients : client[c].at # "out" /\ ~client[c].state.restricted =>
    ~AtRestriction(client[c].equity, client[c].state.peak)

\* The five invariants hold together, and imply the safety properties.
IInv ==
  /\ TypeOK /\ Exclusive /\ FilesKept /\ InCall /\ GrantInHand
  /\ WrittenValid /\ EntriesSpaced
=============================================================================
