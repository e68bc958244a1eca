--------------------------- MODULE ControllerProofs ---------------------------
(***************************************************************************)
(* The limits of the account, what an allocation has seen, and the caps of *)
(* a proposal, for any number of profiles and any inputs.                  *)
(*                                                                         *)
(* The first part proves IInv, by step; the second what follows from it    *)
(* for the steps that allocate.  The third is about EntryRules: what the   *)
(* rules make of a book, an account and a decision, down to the proposal.  *)
(***************************************************************************)
EXTENDS Controller, FiniteSetTheorems, WellFoundedInduction, TLAPS

-----------------------------------------------------------------------------
(* Executors, orders and positions *)

\* Fewer profiles are no more.
LEMMA Fewer ==
  ASSUME NEW S \in SUBSET Profiles, NEW T \in SUBSET S
  PROVE  Cardinality(T) <= Cardinality(S) /\ Cardinality(T) \in Nat /\ Cardinality(S) \in Nat
<1>1. IsFiniteSet(S) /\ IsFiniteSet(T)
  BY ControllerAssumption, FS_Subset
<1>2. QED
  BY <1>1, FS_Subset, FS_CardinalityType

\* The counts and numbers of the state.
LEMMA Numbers ==
  ASSUME TypeOK
  PROVE  /\ now \in Nat /\ OpenCount \in Nat /\ reserved \in Nat
         /\ \A p \in Profiles : exec[p].since \in Nat /\ exec[p].stage \in Stages
         /\ Live \in SUBSET Profiles
         /\ {PerpHold, OptionsHold, SnapshotAge, SpawnLag, TickMax} \subseteq Nat
         /\ SpawnLag < PerpHold /\ TickMax < OptionsHold
         /\ Long \in Int /\ Long < 0 - SnapshotAge /\ snapshot.at \in Int
         /\ 0 \in Requests /\ MaxFaults \in Nat
  BY ControllerAssumption, TimingAssumption, SMT
  DEF TypeOK, OpenCount, Times, Executor, Live, Long, Snapshot, Requests

\* An executor moves on alone.
LEMMA BecomesFacts ==
  ASSUME exec \in [Profiles -> Executor], NEW p \in Profiles,
         NEW stage \in {"none", "waiting", "entering", "holding", "closing"}, Becomes(p, stage)
  PROVE  /\ exec' \in [Profiles -> Executor]
         /\ exec'[p].stage = stage
         /\ stage \in {"waiting", "entering"} => exec'[p].since = exec[p].since
         /\ \A q \in Profiles \ {p} : exec'[q] = exec[q]
<1> USE DEF Becomes, NoExec, Executor, Stages, Times
<1>0. 0 \in 0 .. MaxTime
  BY ControllerAssumption, SMT
<1>1. CASE stage = "none"
  BY <1>0, <1>1, SMT
<1>2. CASE stage \in {"waiting", "entering"}
  BY <1>0, <1>2, SMT
<1>3. CASE stage \in {"holding", "closing"}
  BY <1>0, <1>3, SMT
<1>4. QED
  BY <1>1, <1>2, <1>3

\* What an executor and the venue do for one profile keeps the invariant, if it
\* keeps what it says of that profile and commits it to nothing new: what comes
\* to the venue is of a request nobody knows of, or is filled for its executor.
LEMMA ExternalIInv ==
  ASSUME IInv, NEW p \in Profiles, External,
         exec' \in [Profiles -> Executor],
         order' \in [Profiles -> {"none", "wire", "resting"}],
         strays' \subseteq Stray, held' \subseteq Position, faults' \in 0 .. MaxFaults,
         \A q \in Profiles \ {p} : exec'[q] = exec[q] /\ order'[q] = order[q],
         \A x \in strays' \ strays :
           x.of = p /\ x.n # 0 /\ (x.resting => x.entry /\ x.since = now),
         \A u \in held' \ held :
           /\ u.of = p /\ (u.n = 0 => u.since = Long)
           /\ \/ \E x \in strays : x.resting /\ x.since = u.since
              \/ u.n = 0 /\ exec'[p].stage \notin {"none", "closing"},
         \/ snapshot' \in {snapshot, NoSnapshot}
         \/ snapshot' = [snapshot EXCEPT !.at = AtMost(@, now - SnapshotAge)],
         snapshot' # NoSnapshot /\ exec'[p].stage \in {"none", "closing"} =>
           exec[p].stage \in {"none", "closing"} \/ \A u \in held' : u.of = p => u.n # 0,
         p \in Live' => p \in Live,
         Shape(p)',
         p \in Pending' => p \in Pending /\ exec'[p].since = exec[p].since,
         p \in Unsent' => p \in Unsent \/ now < exec[p].since + SpawnLag,
         exec'[p].stage = "queued" => exec[p].stage = "queued"
  PROVE  IInv'
<1>0. TypeOK /\ Shapes /\ Visible
  BY DEF IInv, WithinLimits
<1> USE <1>0, Numbers
<1>1. UNCHANGED <<now, reserved, spent, stopped, kill, loaded, spread, tick>>
  BY DEF External, book
<1>2. /\ snapshot' \in Snapshot /\ snapshot'.at \in Int
      /\ snapshot' # NoSnapshot =>
           /\ snapshot # NoSnapshot
           /\ snapshot'.orders = snapshot.orders /\ snapshot'.positions = snapshot.positions
           /\ snapshot'.at <= snapshot.at /\ 0 - SnapshotAge <= snapshot'.at
  <2>1. CASE snapshot' = snapshot
    BY <2>1, SMT DEF TypeOK, Visible
  <2>2. CASE snapshot' = NoSnapshot
    BY <2>2, SMT DEF NoSnapshot, Snapshot
  <2>3. CASE snapshot' = [snapshot EXCEPT !.at = AtMost(@, now - SnapshotAge)]
    <3>1. snapshot \in Snapshot
      BY DEF TypeOK
    <3>2. /\ snapshot' = [at |-> AtMost(snapshot.at, now - SnapshotAge), orders |-> snapshot.orders,
                          positions |-> snapshot.positions]
          /\ snapshot = [at |-> snapshot.at, orders |-> snapshot.orders, positions |-> snapshot.positions]
      BY <2>3, <3>1 DEF Snapshot
    <3>3. AtMost(snapshot.at, now - SnapshotAge) \in Int
      BY SMT DEF AtMost
    <3>4. snapshot' \in Snapshot
      BY <3>1, <3>2, <3>3 DEF Snapshot
    <3>5. CASE snapshot = NoSnapshot
      <4>1. snapshot.at = Long
        BY <3>5 DEF NoSnapshot
      <4>2. AtMost(snapshot.at, now - SnapshotAge) = Long
        BY <4>1, SMT DEF AtMost
      <4>3. snapshot' = snapshot
        BY <3>2, <4>1, <4>2
      <4>4. QED
        BY <3>4, <3>5, <4>3, SMT
    <3>6. CASE snapshot # NoSnapshot
      <4>1. 0 - SnapshotAge <= snapshot.at
        BY <3>6 DEF Visible
      <4>2. /\ AtMost(snapshot.at, now - SnapshotAge) <= snapshot.at
            /\ 0 - SnapshotAge <= AtMost(snapshot.at, now - SnapshotAge)
        BY <4>1, SMT DEF AtMost
      <4>3. snapshot'.at = AtMost(snapshot.at, now - SnapshotAge)
            /\ snapshot'.orders = snapshot.orders /\ snapshot'.positions = snapshot.positions
        BY <3>2
      <4>4. QED
        BY <3>3, <3>4, <3>6, <4>2, <4>3
    <3>7. QED
      BY <3>5, <3>6
  <2>4. QED
    BY <2>1, <2>2, <2>3
<1>3. TypeOK'
  BY <1>1, <1>2 DEF TypeOK
<1>4. Live' \subseteq Live /\ Live \subseteq Profiles
  <2> SUFFICES ASSUME NEW q \in Profiles \ {p}, q \in Live'
               PROVE  q \in Live
    BY DEF Live
  <2>1. exec'[q] = exec[q]
    OBVIOUS
  <2>2. ASSUME NEW u \in strays' \cup held', u.of = q
        PROVE  u \in strays \cup held
    BY <2>2
  <2>3. QED
    BY <2>1, <2>2 DEF Live
<1>5. Cardinality(Live') <= MaxPerps
  BY <1>4, Fewer, ControllerAssumption, SMT DEF IInv, WithinLimits
<1>6. OpenCount' = OpenCount
  BY <1>1 DEF OpenCount
<1>7. WithinLimits'
  BY <1>1, <1>3, <1>5, <1>6 DEF IInv, WithinLimits
<1>8. Shapes'
  <2>1. ASSUME NEW q \in Profiles \ {p}
        PROVE  Shape(q)'
    <3>1. Shape(q) /\ exec'[q] = exec[q] /\ order'[q] = order[q]
      BY DEF Shapes
    <3>2. /\ \A x \in strays' : x.of = q => x \in strays
          /\ \A u \in held' : u.of = q => u \in held
      OBVIOUS
    <3>3. QED
      BY <3>1, <3>2 DEF Shape
  <2>2. \A x \in strays' : (x.n = 0 => x.resting) /\ (x.resting => x.entry)
    BY DEF Shapes
  <2>3. \A x \in strays' \cup held' : x.n = 0 => x.since = Long
    BY DEF Shapes
  <2>4. QED
    BY <2>1, <2>2, <2>3 DEF Shapes
<1>9. Visible'
  <2> SUFFICES ASSUME snapshot' # NoSnapshot
               PROVE  /\ 0 - SnapshotAge <= snapshot'.at /\ snapshot'.at <= now'
                      /\ \A x \in strays' : x.resting => Seen(x.since)'
                      /\ \A u \in held' : u.n # 0 \/ exec'[u.of].stage \in {"none", "closing"} =>
                           u \in snapshot'.positions \/ Seen(u.since)'
    BY DEF Visible, Seen, NoSnapshot
  <2>1. /\ snapshot'.orders = snapshot.orders /\ snapshot'.positions = snapshot.positions
        /\ snapshot'.at <= snapshot.at /\ 0 - SnapshotAge <= snapshot'.at /\ snapshot.at <= now
        /\ \A x \in strays : x.resting => Seen(x.since)
        /\ \A u \in held : u.n # 0 \/ exec[u.of].stage \in {"none", "closing"} =>
             u \in snapshot.positions \/ Seen(u.since)
    BY <1>2 DEF Visible
  <2>2. snapshot'.at <= now
    BY <1>2, <2>1, SMT
  <2>3. ASSUME NEW since \in {Long} \cup Times, Seen(since)
        PROVE  Seen(since)'
    BY <1>2, <2>1, <2>3, SMT DEF Seen, Times
  <2>4. ASSUME NEW x \in strays', x.resting
        PROVE  Seen(x.since)'
    <3>1. CASE x \in strays
      <4>1. x.since \in {Long} \cup Times /\ Seen(x.since)
        BY <2>1, <2>4, <3>1 DEF TypeOK, Stray
      <4>2. QED
        BY <2>3, <4>1
    <3>2. CASE x \notin strays
      <4>1. x.since = now
        BY <2>4, <3>2
      <4>2. QED
        BY <2>2, <4>1 DEF Seen
    <3>3. QED
      BY <3>1, <3>2
  <2>5. ASSUME NEW u \in held', u.n # 0 \/ exec'[u.of].stage \in {"none", "closing"}
        PROVE  u \in snapshot'.positions \/ Seen(u.since)'
    <3>1. u.of \in Profiles /\ u.since \in {Long} \cup Times
      BY DEF Position
    <3>2. CASE u \in held
      <4>1. u.n # 0 \/ exec[u.of].stage \in {"none", "closing"}
        BY <2>5, <3>1
      <4>2. QED
        BY <2>1, <2>3, <3>1, <3>2, <4>1
    <3>3. CASE u \notin held
      <4>1. PICK x \in strays : x.resting /\ x.since = u.since
        BY <2>5, <3>3
      <4>2. QED
        BY <2>1, <2>3, <3>1, <4>1
    <3>4. QED
      BY <3>2, <3>3
  <2>6. QED
    BY <1>1, <2>1, <2>2, <2>4, <2>5
<1>10. /\ \A q \in Pending' : q \in Pending /\ exec'[q].since = exec[q].since
       /\ \A q \in Unsent'  : q \in Unsent \/ now < exec[q].since + SpawnLag
       /\ Unsent' \subseteq Pending' /\ Pending \subseteq Profiles
  BY SMT DEF Pending, Unsent
<1>11. Reservations'
  BY <1>1, <1>10, SMT DEF IInv, Reservations
<1>12. Admission'
  BY <1>1, <1>6, <1>10, SMT DEF IInv, Admission
<1>13. Between'
  BY <1>1, ControllerAssumption DEF IInv, Between
<1>14. QED
  BY <1>7, <1>8, <1>9, <1>11, <1>12, <1>13 DEF IInv

\* A request that failed is nowhere, or is one that nobody knows of.
LEMMA FailFacts ==
  ASSUME TypeOK, NEW p \in Profiles, Fail(p), External
  PROVE  /\ order[p] = "wire" /\ order' = [order EXCEPT ![p] = "none"] /\ held' = held
         /\ faults' \in 0 .. MaxFaults /\ strays' \subseteq Stray
         /\ \A x \in strays' \ strays : x.of = p /\ x.n # 0 /\ ~x.resting
         /\ \A x \in strays' : x \in strays \/ (x.of = p /\ x.n # 0)
<1> USE Numbers
<1>1. order[p] = "wire" /\ order' = [order EXCEPT ![p] = "none"] /\ held' = held
  BY DEF Fail
<1>2. CASE UNCHANGED <<strays, faults>>
  BY <1>1, <1>2 DEF TypeOK
<1>3. CASE faults < MaxFaults /\ faults' = faults + 1 /\ strays' = strays \cup {OnWire(p, faults')}
  <2>1. faults' \in 0 .. MaxFaults /\ faults' # 0
    BY <1>3, SMT DEF TypeOK
  <2>2. PICK m \in 0 .. MaxFaults : m = faults' /\ m # 0
    BY <2>1
  <2>3. OnWire(p, m) \in Stray /\ OnWire(p, m).of = p /\ OnWire(p, m).n = m /\ ~OnWire(p, m).resting
    BY DEF OnWire, Stray, Requests
  <2>4. strays' = strays \cup {OnWire(p, m)}
    BY <1>3, <2>2
  <2>5. QED
    BY <1>1, <2>1, <2>2, <2>3, <2>4 DEF TypeOK
<1>4. QED
  BY <1>1, <1>2, <1>3 DEF Fail

\* So each of their steps keeps it.
LEMMA ExecutorsIInv ==
  ASSUME IInv, NEW p \in Profiles, Executors(p)
  PROVE  IInv'
<1>0. TypeOK /\ Shape(p)
  BY DEF IInv, WithinLimits, Shapes
<1>00. /\ exec \in [Profiles -> Executor] /\ order \in [Profiles -> {"none", "wire", "resting"}]
       /\ strays \subseteq Stray /\ held \subseteq Position /\ faults \in 0 .. MaxFaults
       /\ exec[p].stage \in Stages
  BY <1>0, Numbers DEF TypeOK
<1> USE <1>0, <1>00
<1>a. p \in Live <=> exec[p].stage # "none" \/ \E u \in strays \cup held : u.of = p /\ u.n = 0
  BY DEF Live
<1>b. p \in Live' <=> exec'[p].stage # "none" \/ \E u \in strays' \cup held' : u.of = p /\ u.n = 0
  BY DEF Live
<1>c. /\ p \in Pending <=> exec[p].stage \in {"queued", "waiting", "entering"}
      /\ p \in Unsent <=> exec[p].stage \in {"queued", "waiting"}
      /\ p \in Pending' <=> exec'[p].stage \in {"queued", "waiting", "entering"}
      /\ p \in Unsent' <=> exec'[p].stage \in {"queued", "waiting"}
  BY DEF Pending, Unsent
<1>1. CASE Spawn(p)
  <2>1. External /\ exec[p].stage = "queued" /\ Becomes(p, "waiting")
        /\ UNCHANGED <<snapshot, order, strays, held, faults>>
    BY <1>1 DEF Spawn, venue
  <2>2. /\ exec' \in [Profiles -> Executor] /\ exec'[p].stage = "waiting" /\ exec'[p].since = exec[p].since
        /\ \A q \in Profiles \ {p} : exec'[q] = exec[q]
    BY <2>1, BecomesFacts
  <2>3. Shape(p)'
    BY <2>1, <2>2 DEF Shape
  <2>4. QED
    BY <1>a, <1>b, <1>c, <2>1, <2>2, <2>3, ExternalIInv
<1>2. CASE Send(p)
  <2>1. External /\ snapshot' = NoSnapshot /\ order[p] = "none" /\ order' = [order EXCEPT ![p] = "wire"]
        /\ UNCHANGED <<strays, held, faults>>
    BY <1>2 DEF Send
  <2>2. CASE exec[p].stage = "waiting" /\ Becomes(p, "entering")
    <3>1. /\ exec' \in [Profiles -> Executor] /\ exec'[p].stage = "entering" /\ exec'[p].since = exec[p].since
          /\ \A q \in Profiles \ {p} : exec'[q] = exec[q]
      BY <2>2, BecomesFacts
    <3>2. Shape(p)'
      BY <2>1, <2>2, <3>1 DEF Shape
    <3>3. QED
      BY <1>a, <1>b, <1>c, <2>1, <2>2, <3>1, <3>2, ExternalIInv
  <2>3. CASE exec[p].stage = "holding" /\ Becomes(p, "closing")
    <3>1. /\ exec' \in [Profiles -> Executor] /\ exec'[p].stage = "closing"
          /\ \A q \in Profiles \ {p} : exec'[q] = exec[q]
      BY <2>3, BecomesFacts
    <3>2. Shape(p)'
      BY <2>1, <2>3, <3>1 DEF Shape
    <3>3. QED
      BY <1>a, <1>b, <1>c, <2>1, <2>3, <3>1, <3>2, ExternalIInv
  <2>4. QED
    BY <1>2, <2>2, <2>3 DEF Send
<1>3. CASE Arrive(p)
  <2>1. External /\ order[p] = "wire" /\ exec[p].stage = "entering" /\ order' = [order EXCEPT ![p] = "resting"]
        /\ UNCHANGED <<snapshot, exec, strays, held, faults>>
    BY <1>3 DEF Arrive
  <2>2. Shape(p)'
    BY <2>1 DEF Shape
  <2>3. QED
    BY <1>a, <1>b, <1>c, <2>1, <2>2, ExternalIInv
<1>4. CASE Refuse(p)
  <2>1. /\ External /\ UNCHANGED snapshot /\ Fail(p)
        /\ order[p] = "wire" /\ order' = [order EXCEPT ![p] = "none"] /\ held' = held
        /\ faults' \in 0 .. MaxFaults /\ strays' \subseteq Stray
        /\ \A x \in strays' \ strays : x.of = p /\ x.n # 0 /\ ~x.resting
        /\ \A x \in strays' : x \in strays \/ (x.of = p /\ x.n # 0)
    BY <1>4, FailFacts DEF Refuse
  <2>2. exec[p].stage \in {"entering", "closing"}
    BY <2>1 DEF Shape
  <2>3. CASE exec[p].stage = "closing" /\ Becomes(p, "holding")
    <3>1. /\ exec' \in [Profiles -> Executor] /\ exec'[p].stage = "holding"
          /\ \A q \in Profiles \ {p} : exec'[q] = exec[q]
      BY <2>3, BecomesFacts
    <3>2. Shape(p)'
      BY <2>1, <2>3, <3>1 DEF Shape
    <3>3. QED
      BY <1>a, <1>b, <1>c, <2>1, <2>3, <3>1, <3>2, ExternalIInv
  <2>4. CASE exec[p].stage # "closing" /\ now < exec[p].since + SpawnLag /\ Becomes(p, "waiting")
    <3>1. /\ exec' \in [Profiles -> Executor] /\ exec'[p].stage = "waiting" /\ exec'[p].since = exec[p].since
          /\ \A q \in Profiles \ {p} : exec'[q] = exec[q]
      BY <2>4, BecomesFacts
    <3>2. Shape(p)'
      BY <2>1, <2>2, <2>4, <3>1 DEF Shape
    <3>3. QED
      BY <1>a, <1>b, <1>c, <2>1, <2>2, <2>4, <3>1, <3>2, ExternalIInv
  <2>5. CASE exec[p].stage # "closing" /\ Becomes(p, "none")
    <3>1. /\ exec' \in [Profiles -> Executor] /\ exec'[p].stage = "none"
          /\ \A q \in Profiles \ {p} : exec'[q] = exec[q]
      BY <2>5, BecomesFacts
    <3>2. /\ exec[p].stage = "entering"
          /\ \A u \in held' : u.of = p => u.n # 0
      BY <2>1, <2>2, <2>5 DEF Shape
    <3>3. Shape(p)'
      BY <2>1, <3>1 DEF Shape
    <3>4. QED
      BY <1>a, <1>b, <1>c, <2>1, <3>1, <3>2, <3>3, ExternalIInv
  <2>6. QED
    BY <1>4, <2>3, <2>4, <2>5 DEF Refuse
<1>5. CASE Fill(p)
  <2>1. External /\ order' = [order EXCEPT ![p] = "none"] /\ UNCHANGED <<snapshot, exec, strays, faults>>
    BY <1>5 DEF Fill
  <2>2. CASE order[p] = "resting" /\ held' = held \cup {Own(p)}
    <3>1. Own(p) \in Position /\ Own(p).of = p /\ Own(p).n = 0 /\ Own(p).since = Long
      BY Numbers DEF Own, Position
    <3>2. exec[p].stage = "entering"
      BY <2>2 DEF Shape
    <3>3. Shape(p)'
      BY <2>1, <3>2 DEF Shape
    <3>4. held' \subseteq Position /\ \A u \in held' \ held : u = Own(p)
      BY <2>2, <3>1
    <3>5. QED
      BY <1>a, <1>b, <1>c, <2>1, <3>1, <3>2, <3>3, <3>4, ExternalIInv
  <2>3. CASE order[p] = "wire" /\ exec[p].stage = "closing" /\ Reduce(p)
    <3>1. held' \subseteq held
      BY <2>3 DEF Reduce
    <3>2. Shape(p)'
      BY <2>1, <2>3, <3>1 DEF Shape
    <3>3. QED
      BY <1>a, <1>b, <1>c, <2>1, <2>3, <3>1, <3>2, ExternalIInv
  <2>4. QED
    BY <1>5, <2>2, <2>3 DEF Fill
<1>6. CASE Learn(p)
  <2>1. External /\ order[p] = "none" /\ exec[p].stage \in {"entering", "closing"}
        /\ UNCHANGED <<order, strays, held, faults>>
        /\ snapshot' = [snapshot EXCEPT !.at = AtMost(@, now - SnapshotAge)]
    BY <1>6 DEF Learn, Inflight, venue
  <2>2. CASE exec[p].stage = "entering" /\ Becomes(p, "holding")
    <3>1. /\ exec' \in [Profiles -> Executor] /\ exec'[p].stage = "holding"
          /\ \A q \in Profiles \ {p} : exec'[q] = exec[q]
      BY <2>2, BecomesFacts
    <3>2. Shape(p)'
      BY <2>1, <2>2, <3>1 DEF Shape
    <3>3. QED
      BY <1>a, <1>b, <1>c, <2>1, <2>2, <3>1, <3>2, ExternalIInv
  <2>3. CASE exec[p].stage = "closing" /\ Becomes(p, "none")
    <3>1. /\ exec' \in [Profiles -> Executor] /\ exec'[p].stage = "none"
          /\ \A q \in Profiles \ {p} : exec'[q] = exec[q]
      BY <2>3, BecomesFacts
    <3>2. Shape(p)'
      BY <2>1, <3>1 DEF Shape
    <3>3. QED
      BY <1>a, <1>b, <1>c, <2>1, <2>3, <3>1, <3>2, ExternalIInv
  <2>4. QED
    BY <1>6, <2>1, <2>2, <2>3 DEF Learn
<1>7. CASE Withdraw(p)
  <2>1. External /\ Becomes(p, "none") /\ UNCHANGED <<snapshot, strays, held, faults>>
    BY <1>7 DEF Withdraw
  <2>2. /\ exec' \in [Profiles -> Executor] /\ exec'[p].stage = "none"
        /\ \A q \in Profiles \ {p} : exec'[q] = exec[q]
    BY <2>1, BecomesFacts
  <2>3. CASE exec[p].stage = "waiting" /\ UNCHANGED order
    <3>1. Shape(p)' /\ \A u \in held' : u.of = p => u.n # 0
      BY <2>1, <2>2, <2>3 DEF Shape
    <3>2. QED
      BY <1>a, <1>b, <1>c, <2>1, <2>2, <2>3, <3>1, ExternalIInv
  <2>4. CASE exec[p].stage = "entering" /\ order[p] = "resting" /\ order' = [order EXCEPT ![p] = "none"]
    <3>1. Shape(p)' /\ \A u \in held' : u.of = p => u.n # 0
      BY <2>1, <2>2, <2>4 DEF Shape
    <3>2. QED
      BY <1>a, <1>b, <1>c, <2>1, <2>2, <2>4, <3>1, ExternalIInv
  <2>5. QED
    BY <1>7, <2>3, <2>4 DEF Withdraw
<1>8. CASE Abandon(p)
  <2>1. /\ External /\ UNCHANGED snapshot /\ exec[p].stage = "closing" /\ Becomes(p, "none")
        /\ order' = [order EXCEPT ![p] = "none"] /\ held' = held
        /\ faults' \in 0 .. MaxFaults /\ strays' \subseteq Stray
        /\ \A x \in strays' \ strays : x.of = p /\ x.n # 0 /\ ~x.resting
        /\ \A x \in strays' : x \in strays \/ (x.of = p /\ x.n # 0)
    BY <1>8, FailFacts DEF Abandon
  <2>2. /\ exec' \in [Profiles -> Executor] /\ exec'[p].stage = "none"
        /\ \A q \in Profiles \ {p} : exec'[q] = exec[q]
    BY <2>1, BecomesFacts
  <2>3. Shape(p)'
    BY <2>1, <2>2 DEF Shape
  <2>4. QED
    BY <1>a, <1>b, <1>c, <2>1, <2>2, <2>3, ExternalIInv
<1>9. QED
  BY <1>1, <1>2, <1>3, <1>4, <1>5, <1>6, <1>7, <1>8, Executors(p) DEF Executors

\* And so does what the venue makes of a request nobody knows of.
LEMMA StraysIInv ==
  ASSUME IInv, NEW x \in strays, Surface(x) \/ Execute(x)
  PROVE  IInv'
<1>0. TypeOK /\ Shapes
  BY DEF IInv, WithinLimits
<1>1. /\ exec \in [Profiles -> Executor] /\ order \in [Profiles -> {"none", "wire", "resting"}]
      /\ strays \subseteq Stray /\ held \subseteq Position /\ faults \in 0 .. MaxFaults /\ now \in Times
  BY <1>0 DEF TypeOK
<1>2. PICK p \in Profiles : p = x.of
  BY <1>1 DEF Stray
<1>3. /\ Shape(p) /\ (x.n = 0 => x.resting /\ x.since = Long)
      /\ x.n \in Requests /\ x.since \in {Long} \cup Times /\ x.entry \in BOOLEAN
  BY <1>0, <1>1 DEF Shapes, Stray
<1> USE <1>0, <1>1, <1>3
<1>a. p \in Live <=> exec[p].stage # "none" \/ \E u \in strays \cup held : u.of = p /\ u.n = 0
  BY DEF Live
<1>b. p \in Live' <=> exec'[p].stage # "none" \/ \E u \in strays' \cup held' : u.of = p /\ u.n = 0
  BY DEF Live
<1>4. ASSUME UNCHANGED exec
      PROVE  /\ p \in Pending' => p \in Pending /\ exec'[p].since = exec[p].since
             /\ p \in Unsent' => p \in Unsent
  BY <1>4 DEF Pending, Unsent
<1>5. CASE Surface(x)
  <2>1. /\ External /\ UNCHANGED <<snapshot, exec, order, held, faults>> /\ x.entry /\ ~x.resting
        /\ strays' = (strays \ {x}) \cup {[x EXCEPT !.resting = TRUE, !.since = now]}
    BY <1>5 DEF Surface
  <2>2. PICK y : y = [x EXCEPT !.resting = TRUE, !.since = now]
    OBVIOUS
  <2>3. /\ y \in Stray /\ y.of = p /\ y.n = x.n /\ y.entry /\ y.resting /\ y.since = now /\ y.n # 0
    BY <1>2, <2>1, <2>2 DEF Stray
  <2>4. strays' \subseteq Stray /\ \A z \in strays' : z \in strays \/ z = y
    BY <2>1, <2>2, <2>3
  <2>5. Shape(p)'
    BY <2>1, <2>3, <2>4 DEF Shape
  <2>6. p \in Live' => p \in Live
    BY <1>a, <1>b, <2>1, <2>3, <2>4
  <2>7. QED
    BY <1>4, <2>1, <2>3, <2>4, <2>5, <2>6, ExternalIInv
<1>6. CASE Execute(x)
  <2>1. External /\ strays' = strays \ {x} /\ UNCHANGED <<snapshot, exec, order, faults>>
    BY <1>6 DEF Execute
  <2>2. CASE x.entry
    <3>1. PICK u : u = [of |-> x.of, n |-> x.n, since |-> x.since]
      OBVIOUS
    <3>2. x.resting /\ held' = held \cup {u}
      BY <1>6, <2>2, <3>1 DEF Execute
    <3>3. u \in Position /\ u.of = p /\ u.n = x.n /\ u.since = x.since
      BY <1>2, <3>1 DEF Position
    <3>4. Shape(p)'
      BY <1>2, <2>1, <3>2, <3>3 DEF Shape
    <3>5. held' \subseteq Position /\ \A v \in held' \ held : v = u
      BY <3>2, <3>3
    <3>6. p \in Live' => p \in Live
      BY <1>2, <1>a, <1>b, <2>1, <3>2, <3>3
    <3>7. QED
      BY <1>4, <2>1, <3>2, <3>3, <3>4, <3>5, <3>6, ExternalIInv
  <2>3. CASE ~x.entry
    <3>1. held' \subseteq held
      BY <1>6, <2>3 DEF Execute, Reduce
    <3>2. Shape(p)'
      BY <2>1, <3>1 DEF Shape
    <3>3. p \in Live' => p \in Live
      BY <1>a, <1>b, <2>1, <3>1
    <3>4. QED
      BY <1>4, <2>1, <3>1, <3>2, <3>3, ExternalIInv
  <2>4. QED
    BY <2>2, <2>3
<1>7. QED
  BY <1>5, <1>6

-----------------------------------------------------------------------------
(* Proposals *)

\* What Create needs and does, its arithmetic aside.
LEMMA CreateFacts ==
  ASSUME NEW p \in Profiles, NEW data, NEW expiry, Create(p, data, expiry)
  PROVE  /\ p \notin Active /\ ~OptionsBusy /\ expiry <= now
         /\ Readable /\ EntryAllowed(snapshot) /\ PerpCount(snapshot) < MaxPerps
         /\ exec' = [exec EXCEPT ![p] = [stage |-> "queued", since |-> now, stop |-> FALSE]]
         /\ spent' = spent \cup {p} /\ reserved' = now + PerpHold
  BY DEF Create, Free

\* Stop leaves its wish with an executor, and that is all.
LEMMA StopFacts ==
  ASSUME exec \in [Profiles -> Executor], NEW p \in Profiles, NEW data, NEW expiry,
         Stop(p, data, expiry)
  PROVE  /\ exec' \in [Profiles -> Executor]
         /\ \A q \in Profiles : exec'[q].stage = exec[q].stage /\ exec'[q].since = exec[q].since
         /\ reserved' = expiry /\ spent' = spent
<1>1. PICK wish \in {Due(p, data), p \in Active} : exec' = [exec EXCEPT ![p].stop = wish]
  BY DEF Stop
<1>2. wish \in BOOLEAN
  <2>1. Due(p, data) \in BOOLEAN
    BY DEF Due
  <2>2. (p \in Active) \in BOOLEAN
    OBVIOUS
  <2>3. QED
    BY <1>1, <2>1, <2>2, Zenon
<1>3. /\ exec' \in [Profiles -> Executor]
      /\ \A q \in Profiles : exec'[q].stage = exec[q].stage /\ exec'[q].since = exec[q].since
  BY <1>1, <1>2, SMT DEF Executor
<1>4. QED
  BY <1>3 DEF Stop

\* What a readable snapshot shows that allows an entry: what no executor
\* answers for came to the venue after it, by a request nobody knew of.
LEMMA UnownedIsLate ==
  ASSUME IInv, Readable, EntryAllowed(snapshot),
         NEW x, \/ x \in strays /\ x.resting
                \/ x \in held /\ exec[x.of].stage = "none"
  PROVE  x.since \in Times /\ x.n # 0 /\ now - x.since <= SnapshotAge
<1>1. TypeOK /\ Shapes
  BY DEF IInv, WithinLimits
<1> USE <1>1, Numbers
<1>2. snapshot # NoSnapshot
  BY SMT DEF Readable, NoSnapshot
<1>3. /\ snapshot.orders = {} /\ 0 - SnapshotAge <= snapshot.at
      /\ \A u \in snapshot.positions : u.of \in Active
  BY <1>2 DEF IInv, Visible, EntryAllowed, KnownPositions, Pairs
<1>4. Seen(x.since)
  <2>1. CASE x \in strays /\ x.resting
    BY <1>2, <2>1 DEF IInv, Visible
  <2>2. CASE x \in held /\ exec[x.of].stage = "none"
    <3>1. x \notin snapshot.positions
      BY <1>3, <2>2 DEF Active
    <3>2. QED
      BY <1>2, <2>2, <3>1 DEF IInv, Visible
  <2>3. QED
    BY <2>1, <2>2
<1>5. x.since >= snapshot.at
  BY <1>3, <1>4 DEF Seen
<1>6. x.since \in {Long} \cup Times
  BY DEF TypeOK, Stray, Position
<1>7. x.since # Long /\ x.since \in Times
  BY <1>3, <1>5, <1>6, SMT
<1>8. x.n # 0
  BY <1>7 DEF Shapes
<1>9. now - x.since <= SnapshotAge
  BY <1>5, <1>7, SMT DEF Readable, Times
<1>10. QED
  BY <1>7, <1>8, <1>9

\* So whose executor has ended has nothing at the venue that it knew of.
LEMMA NothingUnowned ==
  ASSUME IInv, Readable, EntryAllowed(snapshot), NEW q \in Profiles, exec[q].stage = "none"
  PROVE  order[q] = "none" /\ \A u \in strays \cup held : u.of = q => u.n # 0
<1>1. TypeOK /\ Shape(q) /\ Shapes
  BY DEF IInv, WithinLimits, Shapes
<1>2. order[q] = "none"
  BY <1>1 DEF Shape
<1>3. ASSUME NEW u \in strays \cup held, u.of = q, u.n = 0
      PROVE  FALSE
  BY <1>1, <1>3, UnownedIsLate DEF Shapes
<1>4. QED
  BY <1>2, <1>3

\* Everything the account is committed to, other than what is about to become
\* an executor, is then an executor's.
LEMMA LiveActive ==
  ASSUME IInv, Readable, EntryAllowed(snapshot),
         \A q \in Profiles : exec[q].stage # "queued"
  PROVE  Live \subseteq Active
<1> SUFFICES ASSUME NEW q \in Live
             PROVE  q \in Active
  OBVIOUS
<1>1. q \in Profiles
  BY DEF Live
<1>2. exec[q].stage # "none"
  BY <1>1, NothingUnowned DEF Live
<1>3. QED
  BY <1>1, <1>2 DEF Active

\* When nobody's reservation is left, no proposal is on its way.
LEMMA NobodyUnsent ==
  ASSUME IInv, \A q \in Pending : exec[q].since + PerpHold <= now
  PROVE  Unsent = {}
<1>1. TypeOK
  BY DEF IInv, WithinLimits
<1>2. \A q \in Unsent : q \in Profiles /\ q \in Pending
  BY DEF Unsent, Pending
<1>3. QED
  BY <1>1, <1>2, Numbers, SMT DEF IInv, Reservations

\* A turn keeps the invariant: `expiry` reserves the account for whatever is
\* not in flight yet, and an options tick that still can enter keeps it.
LEMMA ProposeIInv ==
  ASSUME IInv, NEW p \in Profiles, NEW data, NEW expiry \in Nat, Propose(p, data, expiry),
         exec[p].stage # "queued",
         \A q \in Pending : now < exec[q].since + PerpHold => exec[q].since + PerpHold <= expiry,
         UNCHANGED <<now, stopped, kill, spread, snapshot, venue, faults>>,
         loaded' \in BOOLEAN,
         tick' = NoTick \/ (tick' = tick /\ expiry = reserved /\ (tick.on => p # Owner))
  PROVE  IInv'
<1>0. TypeOK /\ Shapes /\ Visible /\ Reservations /\ Admission
      /\ Cardinality(Live) <= MaxPerps /\ OpenCount <= MaxSpreads
  BY DEF IInv, WithinLimits
<1> USE <1>0, Numbers
<1>1. OpenCount' = OpenCount /\ UNCHANGED <<order, strays, held, faults, now, snapshot>>
  BY DEF OpenCount, venue
<1>2. /\ tick'.since \in Times /\ tick'.prior \in 0 .. MaxSpreads
      /\ {tick'.on, tick'.reserved} \subseteq BOOLEAN
  <2>1. 0 \in Times /\ 0 \in 0 .. MaxSpreads
    BY ControllerAssumption, SMT DEF Times
  <2>2. CASE tick' = NoTick
    BY <2>1, <2>2 DEF NoTick
  <2>3. CASE tick' = tick
    BY <2>3 DEF TypeOK
  <2>4. QED
    BY <2>2, <2>3
<1>5. ASSUME tick'.on
      PROVE  tick' = tick /\ tick.on /\ p # Owner /\ exec[Owner].stage # "queued"
  BY <1>5 DEF NoTick, IInv, Between
<1>3. ASSUME Create(p, data, expiry)
      PROVE  IInv'
  <2>1. /\ p \notin Active /\ expiry <= now
        /\ Readable /\ EntryAllowed(snapshot) /\ PerpCount(snapshot) < MaxPerps
        /\ exec' = [exec EXCEPT ![p] = [stage |-> "queued", since |-> now, stop |-> FALSE]]
        /\ spent' = spent \cup {p} /\ reserved' = now + PerpHold
    BY <1>3, CreateFacts
  <2>2. /\ exec[p].stage = "none" /\ order[p] = "none"
        /\ \A u \in strays \cup held : u.of = p => u.n # 0
    BY <2>1, NothingUnowned DEF Active
  <2>3. Pending \subseteq Profiles /\ \A q \in Pending : exec[q].since + PerpHold <= now
    BY <2>1, SMT DEF Pending
  <2>4. Unsent = {}
    BY <2>3, NobodyUnsent
  <2>5. Live \subseteq Active
    BY <2>1, <2>4, LiveActive DEF Unsent
  <2>6. /\ exec'[p] = [stage |-> "queued", since |-> now, stop |-> FALSE]
        /\ \A q \in Profiles \ {p} : exec'[q] = exec[q]
        /\ exec' \in [Profiles -> Executor]
    BY <2>1, SMT DEF TypeOK, Executor, Stages
  <2>7. Live' \subseteq Active \cup {p} /\ Active \cup {p} \subseteq Profiles
    BY <1>1, <2>5, <2>6 DEF Live, Active
  <2>8. Cardinality(Active) < MaxPerps /\ Cardinality(Active \cup {p}) = Cardinality(Active) + 1
    <3>1. IsFiniteSet(Active) /\ Active \subseteq Profiles
      BY ControllerAssumption, FS_Subset DEF Active
    <3>2. Cardinality(Active) \in Nat /\ Cardinality(Pairs(snapshot)) \in Nat
      <4>1. Pairs(snapshot) \subseteq Profiles
        BY DEF TypeOK, Snapshot, Position, Pairs
      <4>2. QED
        BY <3>1, <4>1, Fewer
    <3>3. Cardinality(Active \cup {p}) = Cardinality(Active) + 1
      BY <2>1, <3>1, FS_AddElement
    <3>4. Cardinality(Active) < MaxPerps
      BY <2>1, <3>2, ControllerAssumption, SMT DEF PerpCount, AtLeast
    <3>5. QED
      BY <3>3, <3>4
  <2>9. Cardinality(Live') <= MaxPerps
    <3>1. Cardinality(Live') <= Cardinality(Active \cup {p}) /\ Cardinality(Live') \in Nat
      BY <2>7, Fewer
    <3>2. Cardinality(Active) \in Nat
      BY Fewer DEF Active
    <3>3. QED
      BY <2>8, <3>1, <3>2, ControllerAssumption, SMT
  <2>10. TypeOK'
    BY <1>1, <1>2, <2>1, <2>6, SMT DEF TypeOK, venue
  <2>11. Shapes'
    BY <1>1, <2>2, <2>6 DEF Shapes, Shape
  <2>12. Visible'
    <3>1. \A u \in held : exec'[u.of].stage \in {"none", "closing"} => exec'[u.of] = exec[u.of]
      BY <2>6 DEF TypeOK, Position
    <3>2. QED
      BY <1>1, <3>1 DEF Visible, Seen
  <2>13. Reservations'
    BY <2>1, <2>3, <2>4, <2>6, SMT DEF Reservations, Pending, Unsent
  <2>14. Admission'
    <3>1. CASE tick' = NoTick
      BY <3>1 DEF Admission, NoTick
    <3>2. CASE tick' = tick /\ expiry = reserved
      BY <1>1, <2>1, <3>2, SMT DEF Admission, TypeOK, Times
    <3>3. QED
      BY <3>1, <3>2
  <2>15. Between'
    BY <1>5, <2>6, ControllerAssumption DEF Between
  <2>16. QED
    BY <1>1, <2>9, <2>10, <2>11, <2>12, <2>13, <2>14, <2>15 DEF IInv, WithinLimits
<1>4. ASSUME Stop(p, data, expiry)
      PROVE  IInv'
  <2>1. /\ exec' \in [Profiles -> Executor]
        /\ \A q \in Profiles : exec'[q].stage = exec[q].stage /\ exec'[q].since = exec[q].since
        /\ reserved' = expiry /\ spent' = spent
    BY <1>4, StopFacts DEF TypeOK
  <2>2. Live' = Live /\ Pending' = Pending /\ Unsent' = Unsent
    BY <1>1, <2>1 DEF Live, Pending, Unsent
  <2>3. Pending \subseteq Profiles /\ Unsent \subseteq Profiles
    BY DEF Pending, Unsent
  <2>4. TypeOK'
    BY <1>1, <1>2, <2>1, SMT DEF TypeOK, venue
  <2>5. Shapes'
    BY <1>1, <2>1 DEF Shapes, Shape
  <2>6. Visible'
    <3>1. \A u \in held : exec'[u.of].stage = exec[u.of].stage
      BY <2>1 DEF TypeOK, Position
    <3>2. QED
      BY <1>1, <3>1 DEF Visible, Seen
  <2>7. Reservations'
    BY <2>1, <2>2, <2>3, SMT DEF Reservations
  <2>8. Admission'
    <3>1. CASE tick' = NoTick
      BY <3>1 DEF Admission, NoTick
    <3>2. CASE tick' = tick /\ expiry = reserved
      BY <1>1, <2>1, <2>2, <2>3, <3>2, SMT DEF Admission
    <3>3. QED
      BY <3>1, <3>2
  <2>9. Between'
    BY <1>5, <2>1, ControllerAssumption DEF Between
  <2>10. QED
    BY <1>1, <2>2, <2>4, <2>5, <2>6, <2>7, <2>8, <2>9 DEF IInv, WithinLimits
<1>6. QED
  BY <1>3, <1>4 DEF Propose

\* A turn of a controller.
LEMMA TurnIInv ==
  ASSUME IInv, NEW p \in Profiles, Turn(p)
  PROVE  IInv'
<1>0. TypeOK /\ Reservations
  BY DEF IInv, WithinLimits
<1>1. PICK data : Propose(p, data, reserved)
  BY DEF Turn
<1>2. exec[p].stage # "queued" /\ tick' = tick /\ (tick.on => p # Owner) /\ loaded' \in BOOLEAN
      /\ UNCHANGED <<now, stopped, kill, spread, snapshot, venue, faults>>
  BY <1>0 DEF Turn, Ready, TypeOK
<1>3. \A q \in Pending : now < exec[q].since + PerpHold => exec[q].since + PerpHold <= reserved
  BY <1>0 DEF Reservations
<1>4. reserved \in Nat
  BY <1>0 DEF TypeOK
<1>5. QED
  BY <1>1, <1>2, <1>3, <1>4, ProposeIInv

-----------------------------------------------------------------------------
(* The options tick *)

\* Whatever leaves the executors, their orders and the snapshot as they are
\* keeps what is said of them.
LEMMA SameProfiles ==
  ASSUME IInv, UNCHANGED <<exec, order, strays, held>>
  PROVE  Shapes' /\ Live' = Live /\ Pending' = Pending /\ Unsent' = Unsent
  BY DEF IInv, Shapes, Shape, Live, Pending, Unsent

\* A snapshot of now shows everything.
LEMMA ViewIInv ==
  ASSUME IInv, UNCHANGED <<exec, order, strays, held>>, now' \in {now, now + 1},
         snapshot' \in {snapshot, NoSnapshot, View}
  PROVE  Visible' /\ snapshot' \in Snapshot
<1>0. TypeOK /\ Visible /\ Shapes
  BY DEF IInv, WithinLimits
<1> USE <1>0, Numbers
<1>1. CASE snapshot' = snapshot
  <2>1. snapshot # NoSnapshot => snapshot.at <= now'
    BY SMT DEF Visible
  <2>2. Visible'
    BY <1>1, <2>1 DEF Visible, Seen
  <2>3. QED
    BY <1>1, <2>2 DEF TypeOK
<1>2. CASE snapshot' = NoSnapshot
  BY <1>2, SMT DEF Visible, NoSnapshot, Snapshot
<1>3. CASE snapshot' = View
  <2>1. /\ snapshot'.positions = held /\ snapshot'.at = now
        /\ \A x \in strays : x.resting => [of |-> x.of, n |-> x.n] \in snapshot'.orders
    BY <1>3 DEF View
  <2>2. View \in Snapshot
    <3>1. \A x \in strays : x.of \in Profiles /\ x.n \in Requests
      BY DEF TypeOK, Stray
    <3>2. QED
      BY <3>1, SMT DEF TypeOK, View, Snapshot
  <2>3. 0 - SnapshotAge <= now /\ now <= now'
    BY SMT
  <2>4. QED
    BY <1>3, <2>1, <2>2, <2>3 DEF Visible, Seen
<1>4. QED
  BY <1>1, <1>2, <1>3

LEMMA BeginTickIInv ==
  ASSUME IInv, BeginTick
  PROVE  IInv'
<1>0. TypeOK /\ Reservations /\ OpenCount <= MaxSpreads
  BY DEF IInv, WithinLimits
<1> USE <1>0, Numbers
<1>1. PICK data : /\ tick' = [on |-> TRUE, data |-> data, since |-> now,
                              reserved |-> Reserves(data), prior |-> OpenCount]
                  /\ reserved' = IF Reserves(data) THEN now + OptionsHold ELSE reserved
  BY DEF BeginTick
<1>2. /\ loaded' = TRUE
      /\ UNCHANGED <<now, spent, stopped, kill, spread, snapshot, exec, order, strays, held, faults>>
  BY DEF BeginTick, venue
<1>3. /\ tick'.on = TRUE /\ tick'.since = now /\ tick'.prior = OpenCount
      /\ tick'.reserved = Reserves(data)
  BY <1>1
<1>4. Reserves(data) \in BOOLEAN
  BY DEF Reserves
<1>5. Pending \subseteq Profiles /\ Unsent \subseteq Profiles
  BY DEF Pending, Unsent
<1>6. reserved' \in Nat
  BY <1>1
<1>7. TypeOK'
  <2>1. tick'.on \in BOOLEAN /\ tick'.reserved \in BOOLEAN
    BY <1>3, <1>4
  <2>2. tick'.since \in Times /\ tick'.prior \in 0 .. MaxSpreads
    BY <1>3, ControllerAssumption, SMT DEF TypeOK
  <2>3. QED
    BY <1>2, <1>6, <2>1, <2>2 DEF TypeOK
<1>8. Live' = Live /\ Pending' = Pending /\ Unsent' = Unsent /\ Shapes' /\ Visible' /\ OpenCount' = OpenCount
  BY <1>2, SameProfiles, ViewIInv DEF OpenCount
<1>12. Between'
  BY <1>2 DEF BeginTick, Ready, Between
<1>9. CASE ~Reserves(data)
  <2>1. reserved' = reserved /\ ~tick'.reserved
    BY <1>1, <1>3, <1>9
  <2>2. QED
    BY <1>2, <1>7, <1>8, <1>12, <2>1 DEF IInv, WithinLimits, Reservations, Admission
<1>10. CASE Reserves(data)
  <2>1. reserved <= now /\ OpenCount < MaxSpreads /\ reserved' = now + OptionsHold
    BY <1>1, <1>10 DEF Reserves, Free
  <2>2. \A q \in Pending : exec[q].since + PerpHold <= now
    BY <1>5, <2>1, SMT DEF Reservations
  <2>3. Reservations'
    BY <1>2, <1>5, <1>8, <2>2, SMT DEF Reservations
  <2>4. Admission'
    BY <1>2, <1>3, <1>8, <2>1, <2>2, SMT DEF Admission
  <2>5. QED
    BY <1>2, <1>7, <1>8, <1>12, <2>3, <2>4 DEF IInv, WithinLimits
<1>11. QED
  BY <1>9, <1>10

\* What the service of a slot leaves alone.
LEMMA ServiceFacts ==
  ASSUME IInv, Service
  PROVE  /\ UNCHANGED <<now, reserved, stopped, kill, loaded, tick, exec, order, strays, held, faults>>
         /\ Live' = Live /\ Pending' = Pending /\ Unsent' = Unsent /\ Shapes' /\ Visible'
         /\ snapshot' \in Snapshot
         /\ Reservations' /\ Between'
<1>1. UNCHANGED <<now, reserved, stopped, kill, loaded, tick, exec, order, strays, held, faults>>
      /\ snapshot' = View
  BY DEF Service, venue
<1>2. QED
  BY <1>1, SameProfiles, ViewIInv DEF IInv, Reservations, Between

LEMMA AdmitIInv ==
  ASSUME IInv, Admit
  PROVE  IInv'
<1>0. TypeOK /\ Admission /\ OpenCount <= MaxSpreads
  BY DEF IInv, WithinLimits
<1> USE <1>0, Numbers
<1>1. /\ Service /\ tick.reserved /\ ~spread.entry /\ OpenCount = tick.prior
      /\ spread' = [spread EXCEPT !.entry = TRUE] /\ spent' = spent \cup {Owner}
  BY DEF Admit, Blocked
<1>2. tick.on
  BY <1>1 DEF Service
<1>3. /\ spread' \in [entry : BOOLEAN, exiting : 0 .. MaxSpreads, open : 0 .. MaxSpreads]
      /\ OpenCount' = OpenCount + 1
  <2>1. spread'.entry = TRUE /\ spread'.open = spread.open /\ spread'.exiting = spread.exiting
        /\ spread.open \in Nat /\ spread.exiting \in Nat
        /\ spread' \in [entry : BOOLEAN, exiting : 0 .. MaxSpreads, open : 0 .. MaxSpreads]
    <3>1. spread' = [entry |-> TRUE, exiting |-> spread.exiting, open |-> spread.open]
      BY <1>1 DEF TypeOK
    <3>2. spread.open \in 0 .. MaxSpreads /\ spread.exiting \in 0 .. MaxSpreads
      BY DEF TypeOK
    <3>3. spread.open \in Nat /\ spread.exiting \in Nat
      BY <3>2, ControllerAssumption, SMT
    <3>4. QED
      BY <3>1, <3>2, <3>3
  <2>2. QED
    BY <1>1, <2>1, SMT DEF OpenCount
<1>4. OpenCount' = tick.prior + 1 /\ OpenCount' <= MaxSpreads
  BY <1>1, <1>2, <1>3, ControllerAssumption, SMT DEF Admission, TypeOK
<1>5. TypeOK'
  BY <1>1, <1>3, ServiceFacts, ControllerAssumption DEF TypeOK
<1>6. Admission'
  BY <1>1, <1>2, <1>4, ServiceFacts DEF Admission
<1>7. QED
  BY <1>1, <1>4, <1>5, <1>6, ServiceFacts DEF IInv, WithinLimits

LEMMA SettleIInv ==
  ASSUME IInv, Settle
  PROVE  IInv'
<1>0. TypeOK /\ Admission /\ OpenCount <= MaxSpreads
  BY DEF IInv, WithinLimits
<1> USE <1>0, Numbers
<1>1. Service /\ spent' = spent
  BY DEF Settle
<1>2. spread.open \in Nat /\ spread.exiting \in Nat /\ spread.entry \in BOOLEAN
  BY ControllerAssumption, SMT DEF TypeOK
<1>9. /\ OpenCount = spread.open + spread.exiting + (IF spread.entry THEN 1 ELSE 0)
      /\ OpenCount' = spread'.open + spread'.exiting + (IF spread'.entry THEN 1 ELSE 0)
  BY DEF OpenCount
<1>8. /\ spread'.entry \in BOOLEAN /\ spread'.exiting \in Nat /\ spread'.open \in Nat
      /\ spread' = [entry |-> spread'.entry, exiting |-> spread'.exiting, open |-> spread'.open]
      /\ OpenCount' <= OpenCount
      /\ tick.reserved => OpenCount' = OpenCount
  <2>1. CASE /\ spread.entry /\ ~tick.reserved
             /\ \E opened \in 0 .. 1 : spread' = [spread EXCEPT !.entry = FALSE, !.open = @ + opened]
    <3>1. PICK opened \in 0 .. 1 : spread' = [spread EXCEPT !.entry = FALSE, !.open = @ + opened]
      BY <2>1
    <3>2. spread' = [entry |-> FALSE, exiting |-> spread.exiting, open |-> spread.open + opened]
      BY <3>1 DEF TypeOK
    <3>3. spread'.entry = FALSE /\ spread'.exiting = spread.exiting /\ spread'.open = spread.open + opened
          /\ spread' = [entry |-> spread'.entry, exiting |-> spread'.exiting, open |-> spread'.open]
      BY <3>2
    <3>4. QED
      BY <1>2, <1>9, <2>1, <3>3, SMT
  <2>2. CASE /\ spread.open > 0
             /\ spread' = [spread EXCEPT !.open = @ - 1, !.exiting = @ + 1]
    <3>1. spread' = [entry |-> spread.entry, exiting |-> spread.exiting + 1, open |-> spread.open - 1]
      BY <2>2 DEF TypeOK
    <3>2. spread'.entry = spread.entry /\ spread'.exiting = spread.exiting + 1 /\ spread'.open = spread.open - 1
          /\ spread' = [entry |-> spread'.entry, exiting |-> spread'.exiting, open |-> spread'.open]
      BY <3>1
    <3>3. QED
      BY <1>2, <1>9, <2>2, <3>2, SMT
  <2>3. CASE /\ spread.exiting > 0 /\ ~tick.reserved
             /\ \E kept \in 0 .. 1 : spread' = [spread EXCEPT !.exiting = @ - 1, !.open = @ + kept]
    <3>1. PICK kept \in 0 .. 1 : spread' = [spread EXCEPT !.exiting = @ - 1, !.open = @ + kept]
      BY <2>3
    <3>2. spread' = [entry |-> spread.entry, exiting |-> spread.exiting - 1, open |-> spread.open + kept]
      BY <3>1 DEF TypeOK
    <3>3. spread'.entry = spread.entry /\ spread'.exiting = spread.exiting - 1 /\ spread'.open = spread.open + kept
          /\ spread' = [entry |-> spread'.entry, exiting |-> spread'.exiting, open |-> spread'.open]
      BY <3>2
    <3>4. QED
      BY <1>2, <1>9, <2>3, <3>3, SMT
  <2>4. QED
    BY <2>1, <2>2, <2>3 DEF Settle
<1>3. OpenCount' <= MaxSpreads
  BY <1>8, ControllerAssumption, SMT DEF OpenCount
<1>4. spread' \in [entry : BOOLEAN, exiting : 0 .. MaxSpreads, open : 0 .. MaxSpreads]
  BY <1>3, <1>8, ControllerAssumption, SMT DEF OpenCount
<1>5. TypeOK'
  BY <1>1, <1>4, ServiceFacts DEF TypeOK
<1>6. Admission'
  BY <1>1, <1>8, ServiceFacts DEF Admission
<1>7. QED
  BY <1>1, <1>3, <1>5, <1>6, ServiceFacts DEF IInv, WithinLimits

LEMMA EndTickIInv ==
  ASSUME IInv, EndTick
  PROVE  IInv'
<1>0. TypeOK /\ Reservations /\ Admission /\ Between
  BY DEF IInv, WithinLimits
<1>1. tick.on /\ tick' = NoTick /\ loaded' \in BOOLEAN
      /\ UNCHANGED <<now, stopped, kill, spread, snapshot, venue, faults>>
  BY <1>0 DEF EndTick, TypeOK
<1>2. Owner \in Profiles /\ exec[Owner].stage # "queued" /\ Pending \subseteq Profiles
  BY <1>0, <1>1, ControllerAssumption DEF Between, Pending
<1>3. PICK data : \/ Propose(Owner, data, IF tick.reserved /\ OpenCount = tick.prior THEN 0 ELSE reserved)
                  \/ Propose(Owner, data, reserved)
  BY DEF EndTick, Propose
<1>4. CASE Propose(Owner, data, 0) /\ tick.reserved /\ OpenCount = tick.prior
  <2>1. \A q \in Pending : exec[q].since + PerpHold <= now
    BY <1>0, <1>1, <1>4, SMT DEF Admission, TypeOK
  <2>2. \A q \in Pending : now < exec[q].since + PerpHold => exec[q].since + PerpHold <= 0
    BY <1>0, <1>2, <2>1, Numbers, SMT
  <2>3. 0 \in Nat
    OBVIOUS
  <2>4. QED
    BY <1>1, <1>2, <1>4, <2>2, <2>3, ProposeIInv
<1>5. CASE Propose(Owner, data, reserved)
  <2>1. \A q \in Pending : now < exec[q].since + PerpHold => exec[q].since + PerpHold <= reserved
    BY <1>0 DEF Reservations
  <2>2. reserved \in Nat
    BY <1>0 DEF TypeOK
  <2>3. QED
    BY <1>1, <1>2, <1>5, <2>1, <2>2, ProposeIInv
<1>6. QED
  BY <1>3, <1>4, <1>5

-----------------------------------------------------------------------------
(* The rest *)

LEMMA AdvanceIInv ==
  ASSUME IInv, Advance
  PROVE  IInv'
<1>0. TypeOK /\ Reservations /\ Admission /\ Between
  BY DEF IInv, WithinLimits
<1> USE <1>0, Numbers
<1>1. /\ now < MaxTime /\ now' = now + 1
      /\ \A q \in Unsent : now < exec[q].since + SpawnLag
      /\ tick.reserved /\ OpenCount = tick.prior => now < tick.since + TickMax
      /\ reserved' = IF reserved <= now' THEN 0 ELSE reserved
      /\ snapshot' \in {snapshot, NoSnapshot}
  BY DEF Advance, Unsent
<1>2. UNCHANGED <<spent, stopped, kill, loaded, spread, tick, exec, order, strays, held, faults>>
  BY DEF Advance, book, venue
<1>3. Live' = Live /\ Pending' = Pending /\ Unsent' = Unsent /\ Shapes' /\ Visible' /\ OpenCount' = OpenCount
      /\ snapshot' \in Snapshot
  BY <1>1, <1>2, SameProfiles, ViewIInv DEF OpenCount
<1>4. Pending \subseteq Profiles /\ Unsent \subseteq Profiles /\ tick.since \in Nat
  BY ControllerAssumption, SMT DEF Pending, Unsent, TypeOK, Times
<1>5. now' \in Times /\ reserved' \in Nat
  BY <1>1, ControllerAssumption, SMT DEF TypeOK, Times
<1>6. TypeOK'
  BY <1>2, <1>3, <1>5 DEF TypeOK
<1>7. Reservations'
  BY <1>1, <1>2, <1>3, <1>4, SMT DEF Reservations
<1>8. Admission'
  BY <1>1, <1>2, <1>3, <1>4, SMT DEF Admission
<1>9. QED
  BY <1>2, <1>3, <1>6, <1>7, <1>8 DEF IInv, WithinLimits, Between

LEMMA RestartIInv ==
  ASSUME IInv, Restart
  PROVE  IInv'
<1>0. TypeOK /\ Shapes
  BY DEF IInv, WithinLimits
<1> USE <1>0, Numbers
<1>1. /\ faults' \in 0 .. MaxFaults /\ faults' # 0
      /\ reserved' = 0 /\ loaded' = FALSE /\ tick' = NoTick /\ snapshot' = NoSnapshot
      /\ exec' = [q \in Profiles |-> NoExec] /\ order' = [q \in Profiles |-> "none"]
      /\ UNCHANGED <<now, spent, stopped, kill, spread, held>>
  BY SMT DEF Restart, TypeOK
<1>2. PICK m \in 0 .. MaxFaults : m = faults' /\ m # 0
  BY <1>1
<1>3. strays' = strays
         \cup {OnWire(q, m) : q \in {q \in Profiles : order[q] = "wire"}}
         \cup {[OnWire(q, 0) EXCEPT !.resting = TRUE] : q \in {q \in Profiles : order[q] = "resting"}}
  BY <1>2 DEF Restart
<1>4. ASSUME NEW x \in strays', x \notin strays
      PROVE  /\ x \in Stray /\ x.since = Long
             /\ \/ x.n # 0 /\ ~x.resting
                \/ x.n = 0 /\ x.resting /\ x.entry /\ exec[x.of].stage = "entering"
  <2>1. CASE \E q \in Profiles : x = OnWire(q, m)
    BY <1>2, <2>1 DEF OnWire, Stray, Requests
  <2>2. CASE \E q \in Profiles : order[q] = "resting" /\ x = [OnWire(q, 0) EXCEPT !.resting = TRUE]
    <3>1. PICK q \in Profiles : order[q] = "resting" /\ x = [OnWire(q, 0) EXCEPT !.resting = TRUE]
      BY <2>2
    <3>2. exec[q].stage = "entering"
      BY <3>1 DEF Shapes, Shape
    <3>3. x = [of |-> q, n |-> 0, entry |-> TRUE, resting |-> TRUE, since |-> Long]
      BY <3>1, <3>2 DEF OnWire
    <3>4. QED
      BY <3>2, <3>3 DEF Stray
  <2>3. QED
    BY <1>3, <1>4, <2>1, <2>2
<1>5. /\ \A q \in Profiles : exec'[q] = NoExec /\ exec'[q].stage = "none" /\ order'[q] = "none"
      /\ order' \in [Profiles -> {"none", "wire", "resting"}]
      /\ exec' \in [Profiles -> Executor]
  <2>1. NoExec \in Executor /\ NoExec.stage = "none"
    BY ControllerAssumption, SMT DEF NoExec, Executor, Stages, Times
  <2>2. QED
    BY <1>1, <2>1
<1>6. Live' \subseteq Live /\ Live \subseteq Profiles
  <2> SUFFICES ASSUME NEW q \in Profiles, q \in Live'
               PROVE  q \in Live
    BY DEF Live
  <2>1. PICK u \in strays' \cup held : u.of = q /\ u.n = 0
    BY <1>1, <1>5 DEF Live
  <2>2. CASE u \in strays \cup held
    BY <2>1, <2>2 DEF Live
  <2>3. CASE u \notin strays \cup held
    BY <1>4, <2>1, <2>3 DEF Live
  <2>4. QED
    BY <2>2, <2>3
<1>7. Pending' = {} /\ Unsent' = {}
  BY <1>5 DEF Pending, Unsent
<1>8. Cardinality(Live') <= MaxPerps
  BY <1>6, Fewer, ControllerAssumption, SMT DEF IInv, WithinLimits
<1>9. OpenCount' = OpenCount
  BY <1>1 DEF OpenCount
<1>10. TypeOK'
  <2>1. 0 \in Times /\ 0 \in 0 .. MaxSpreads /\ 0 \in Nat
    BY ControllerAssumption, SMT DEF Times
  <2>2. NoSnapshot \in Snapshot
    BY SMT DEF NoSnapshot, Snapshot
  <2>3. strays' \subseteq Stray
    BY <1>4 DEF TypeOK
  <2>4. QED
    BY <1>1, <1>5, <2>1, <2>2, <2>3 DEF TypeOK, NoTick
<1>11. Shapes'
  <2>1. \A q \in Profiles : Shape(q)'
    BY <1>5 DEF Shape
  <2>2. /\ \A x \in strays' : (x.n = 0 => x.resting) /\ (x.resting => x.entry)
        /\ \A x \in strays' \cup held' : x.n = 0 => x.since = Long
    BY <1>1, <1>4 DEF Shapes
  <2>3. QED
    BY <2>1, <2>2 DEF Shapes
<1>12. Visible' /\ Reservations' /\ Admission' /\ Between'
  BY <1>1, <1>7 DEF Visible, NoSnapshot, Reservations, Admission, Between, NoTick
<1>13. QED
  BY <1>8, <1>9, <1>10, <1>11, <1>12, <1>1 DEF IInv, WithinLimits

LEMMA ObserveIInv ==
  ASSUME IInv, Refresh \/ SwitchOff
  PROVE  IInv'
<1>0. TypeOK
  BY DEF IInv, WithinLimits
<1>1. /\ UNCHANGED <<now, reserved, spent, loaded, spread, tick, exec, order, strays, held>>
      /\ faults' \in 0 .. MaxFaults
      /\ snapshot' \in {snapshot, View}
      /\ kill' \subseteq Profiles /\ stopped' \in BOOLEAN
  <2>1. CASE Refresh
    BY <1>0, <2>1 DEF Refresh, book, venue, TypeOK
  <2>2. CASE SwitchOff
    <3>1. faults' \in 0 .. MaxFaults
      BY <1>0, <2>2, Numbers, SMT DEF SwitchOff, TypeOK
    <3>2. QED
      BY <1>0, <2>2, <3>1 DEF SwitchOff, book, venue, TypeOK
  <2>3. QED
    BY <2>1, <2>2
<1>2. Live' = Live /\ Pending' = Pending /\ Unsent' = Unsent /\ Shapes' /\ Visible' /\ OpenCount' = OpenCount
      /\ snapshot' \in Snapshot
  BY <1>1, SameProfiles, ViewIInv DEF OpenCount
<1>3. TypeOK'
  BY <1>0, <1>1, <1>2 DEF TypeOK
<1>4. QED
  BY <1>1, <1>2, <1>3 DEF IInv, WithinLimits, Reservations, Admission, Between

LEMMA InitIInv == Init => IInv
<1> SUFFICES ASSUME Init
             PROVE  IInv
  OBVIOUS
<1>1. 0 \in Times /\ 0 \in 0 .. MaxSpreads /\ 0 \in 0 .. MaxFaults /\ NoExec \in Executor
      /\ NoSnapshot \in Snapshot /\ \A n \in 0 .. MaxSpreads : n <= MaxSpreads
  BY ControllerAssumption, SMT DEF Times, NoExec, Executor, Stages, NoSnapshot, Snapshot, Long
<1>2. TypeOK
  <2>1. PICK n \in 0 .. MaxSpreads : spread = [entry |-> FALSE, exiting |-> 0, open |-> n]
    BY DEF Init
  <2>2. spread \in [entry : BOOLEAN, exiting : 0 .. MaxSpreads, open : 0 .. MaxSpreads]
    BY <1>1, <2>1
  <2>3. QED
    BY <1>1, <2>2 DEF Init, TypeOK, NoTick
<1>3. Live = {} /\ Pending = {} /\ Unsent = {}
  BY DEF Init, Live, Pending, Unsent, NoExec
<1>4. Cardinality(Live) <= MaxPerps
  BY <1>3, FS_EmptySet, ControllerAssumption, SMT
<1>5. OpenCount <= MaxSpreads
  <2>1. PICK n \in 0 .. MaxSpreads : spread = [entry |-> FALSE, exiting |-> 0, open |-> n]
    BY DEF Init
  <2>2. QED
    BY <2>1, ControllerAssumption, SMT DEF OpenCount
<1>6. QED
  BY <1>2, <1>3, <1>4, <1>5
  DEF Init, IInv, WithinLimits, Shapes, Shape, Visible, Reservations, Admission, Between, NoTick, NoExec

\* Whatever interleaving of the controllers, their executors, the venue and
\* restarts there is, the snapshots, the reservations and the options tick stay
\* what the next entry relies on.
THEOREM Inductive == Spec => []IInv
<1>1. Init => IInv
  BY InitIInv
<1>2. IInv /\ [Next]_vars => IInv'
  <2> SUFFICES ASSUME IInv, [Next]_vars
               PROVE  IInv'
    OBVIOUS
  <2>1. CASE Next
    BY <2>1, TurnIInv, ExecutorsIInv, StraysIInv, BeginTickIInv, AdmitIInv, SettleIInv, EndTickIInv, ObserveIInv,
       AdvanceIInv, RestartIInv
    DEF Next
  <2>2. CASE UNCHANGED vars
    BY <2>2
    DEF vars, book, venue, IInv, WithinLimits, TypeOK, OpenCount, Live, Shapes, Shape, Visible, Seen,
        Reservations, Admission, Between, Pending, Unsent
  <2>3. QED
    BY <2>1, <2>2
<1>3. QED
  BY <1>1, <1>2, PTL DEF Spec

\* "Account limits of two perps and two disjoint two-leg debit spreads" hold for
\* any number of profiles, for perps that are held, ordered or on their way.
THEOREM LimitsKept == Spec => []WithinLimits
<1>1. IInv => WithinLimits
  BY DEF IInv
<1>2. QED
  BY <1>1, Inductive, PTL

-----------------------------------------------------------------------------
(* What an allocation has seen *)

\* Executors and the venue propose nothing.
LEMMA ExecutorsProposeNothing ==
  ASSUME IInv, NEW p \in Profiles, Executors(p)
  PROVE  Proposed = {} /\ spread' = spread
<1>1. exec \in [Profiles -> Executor]
  BY DEF IInv, WithinLimits, TypeOK
<1>2. spread' = spread
  BY DEF Executors, Spawn, Send, Arrive, Refuse, Fill, Learn, Withdraw, Abandon, External, book
<1>3. CASE exec' = exec
  BY <1>2, <1>3 DEF Proposed
<1>4. ASSUME NEW stage \in {"none", "waiting", "entering", "holding", "closing"}, Becomes(p, stage)
      PROVE  Proposed = {}
  <2>1. exec'[p].stage = stage /\ \A q \in Profiles \ {p} : exec'[q] = exec[q]
    BY <1>1, <1>4, BecomesFacts
  <2>2. QED
    BY <2>1 DEF Proposed
<1>5. exec' = exec \/ \E stage \in {"none", "waiting", "entering", "holding", "closing"} : Becomes(p, stage)
  BY DEF Executors, Spawn, Send, Arrive, Refuse, Fill, Learn, Withdraw, Abandon
<1>6. QED
  BY <1>2, <1>3, <1>4, <1>5

\* What the venue makes of a stray changes neither either.
LEMMA StraysProposeNothing ==
  ASSUME NEW x, Surface(x) \/ Execute(x)
  PROVE  exec' = exec /\ spread' = spread
  BY DEF Surface, Execute, External, book

\* A step that proposes a perp is a Create, made when nobody else's proposal is
\* on its way, on a snapshot that can be read.
LEMMA ProposedByCreate ==
  ASSUME IInv, [Next]_vars, Proposed # {}
  PROVE  /\ Readable /\ EntryAllowed(snapshot) /\ PerpCount(snapshot) < MaxPerps
         /\ ~OptionsBusy /\ Unsent = {}
         /\ UNCHANGED <<snapshot, spread>>
<1>0. TypeOK /\ Reservations /\ Admission
  BY DEF IInv, WithinLimits
<1>1. ASSUME NEW p \in Profiles, NEW data, NEW expiry \in Nat, Propose(p, data, expiry),
             \A q \in Pending : now < exec[q].since + PerpHold => exec[q].since + PerpHold <= expiry
      PROVE  /\ Readable /\ EntryAllowed(snapshot) /\ PerpCount(snapshot) < MaxPerps
             /\ ~OptionsBusy /\ Unsent = {}
  <2>1. ~Stop(p, data, expiry)
    <3> SUFFICES ASSUME Stop(p, data, expiry)
                 PROVE  Proposed = {}
      OBVIOUS
    <3>1. \A q \in Profiles : exec'[q].stage = exec[q].stage
      BY <1>0, StopFacts DEF TypeOK
    <3>2. QED
      BY <3>1 DEF Proposed
  <2>2. /\ Readable /\ EntryAllowed(snapshot) /\ PerpCount(snapshot) < MaxPerps
        /\ ~OptionsBusy /\ expiry <= now
    BY <1>1, <2>1, CreateFacts DEF Propose
  <2>3. Pending \subseteq Profiles
    BY DEF Pending
  <2>4. \A q \in Pending : exec[q].since + PerpHold <= now
    BY <1>0, <1>1, <2>2, <2>3, Numbers, SMT
  <2>5. QED
    BY <2>2, <2>4, NobodyUnsent
<1>2. CASE \E p \in Profiles : Turn(p)
  <2>1. PICK p \in Profiles : Turn(p)
    BY <1>2
  <2>2. PICK data : Propose(p, data, reserved)
    BY <2>1 DEF Turn
  <2>3. reserved \in Nat
    BY <1>0 DEF TypeOK
  <2>4. \A q \in Pending : now < exec[q].since + PerpHold => exec[q].since + PerpHold <= reserved
    BY <1>0 DEF Reservations
  <2>5. UNCHANGED <<snapshot, spread>>
    BY <2>1 DEF Turn
  <2>6. QED
    BY <1>1, <2>2, <2>3, <2>4, <2>5
<1>3. CASE EndTick
  <2>1. PICK data : \/ Propose(Owner, data, IF tick.reserved /\ OpenCount = tick.prior THEN 0 ELSE reserved)
                    \/ Propose(Owner, data, reserved)
    BY <1>3 DEF EndTick, Propose
  <2>2. tick.on /\ UNCHANGED <<snapshot, spread>> /\ Owner \in Profiles /\ 0 \in Nat /\ reserved \in Nat
    BY <1>0, <1>3, ControllerAssumption DEF EndTick, TypeOK
  <2>3. CASE Propose(Owner, data, 0) /\ tick.reserved /\ OpenCount = tick.prior
    <3>1. \A q \in Pending : exec[q].since + PerpHold <= now
      BY <1>0, <2>2, <2>3, SMT DEF Admission, TypeOK
    <3>2. Pending \subseteq Profiles
      BY DEF Pending
    <3>3. \A q \in Pending : now < exec[q].since + PerpHold => exec[q].since + PerpHold <= 0
      BY <1>0, <3>1, <3>2, Numbers, SMT
    <3>4. QED
      BY <1>1, <2>2, <2>3, <3>3
  <2>4. CASE Propose(Owner, data, reserved)
    <3>1. \A q \in Pending : now < exec[q].since + PerpHold => exec[q].since + PerpHold <= reserved
      BY <1>0 DEF Reservations
    <3>2. QED
      BY <1>1, <2>2, <2>4, <3>1
  <2>5. QED
    BY <2>1, <2>3, <2>4
<1>4. ASSUME NEW p \in Profiles, Executors(p)
      PROVE  FALSE
  BY <1>4, ExecutorsProposeNothing
<1>8. (\E x \in strays : Surface(x) \/ Execute(x)) => UNCHANGED exec
  BY StraysProposeNothing
<1>5. CASE Restart
  BY <1>5 DEF Restart, Proposed, NoExec
<1>6. CASE UNCHANGED exec
  BY <1>6 DEF Proposed
<1>7. QED
  BY <1>2, <1>3, <1>4, <1>5, <1>6, <1>8
  DEF Next, vars, BeginTick, Admit, Settle, Service, Refresh, SwitchOff, Advance

\* A spread is entered by an admission, and by nothing else.
LEMMA EnteredByAdmit ==
  ASSUME IInv, [Next]_vars, Entered
  PROVE  Admit
<1>1. spread' # spread /\ ~spread.entry /\ spread'.entry
  BY DEF Entered
<1>2. /\ ~\E p \in Profiles : Executors(p)
      /\ ~\E x \in strays : Surface(x) \/ Execute(x)
  BY <1>1, ExecutorsProposeNothing, StraysProposeNothing
<1>3. ~Settle
  <2> SUFFICES ASSUME Settle
               PROVE  FALSE
    OBVIOUS
  <2>1. spread \in [entry : BOOLEAN, exiting : 0 .. MaxSpreads, open : 0 .. MaxSpreads]
    BY DEF IInv, WithinLimits, TypeOK
  <2>2. \/ spread' = [spread EXCEPT !.open = @ - 1, !.exiting = @ + 1]
        \/ \E kept \in 0 .. 1 : spread' = [spread EXCEPT !.exiting = @ - 1, !.open = @ + kept]
    BY <1>1 DEF Settle
  <2>3. spread'.entry = spread.entry
    BY <2>1, <2>2
  <2>4. QED
    BY <1>1, <2>3
<1>4. QED
  BY <1>1, <1>2, <1>3
  DEF Next, vars, book, Turn, BeginTick, EndTick, Refresh, SwitchOff, Advance, Restart

\* Whoever enters a spread has just seen that nothing at the venue is without
\* owner, and nobody's proposal is on its way or in flight.
LEMMA AdmitSees ==
  ASSUME IInv, Admit
  PROVE  /\ \A x \in strays : ~x.resting
         /\ \A u \in held : u.of \in Active
         /\ Inflight = {} /\ Unsent = {} /\ exec' = exec
<1>1. /\ tick.on /\ tick.reserved /\ OpenCount = tick.prior /\ EntryAllowed(View) /\ exec' = exec
  BY DEF Admit, Service
<1>2. Inflight = {} /\ View.orders = {} /\ \A u \in held : u.of \in Active
  BY <1>1 DEF EntryAllowed, View, KnownPositions, Pairs
<1>3. ASSUME NEW x \in strays, x.resting
      PROVE  FALSE
  <2>1. [of |-> x.of, n |-> x.n] \in View.orders
    BY <1>3 DEF View
  <2>2. QED
    BY <1>2, <2>1
<1>4. TypeOK /\ Admission
  BY DEF IInv, WithinLimits
<1>5. \A q \in Pending : exec[q].since + PerpHold <= now
  BY <1>1, <1>4, SMT DEF Admission, TypeOK
<1>6. Unsent = {}
  BY <1>5, NobodyUnsent
<1>7. QED
  BY <1>1, <1>2, <1>3, <1>6

\* Nothing is allocated beside an order or a position that no executor answers
\* for, once no snapshot from before it came to the venue can be read any more:
\* orders given up or left by a restart never, those of lost answers only then.
THEOREM NothingBesideOrphans == Spec => OrphansBlock
<1>1. IInv /\ [Next]_vars =>
        (Proposed # {} \/ Entered => \A x \in Ownerless : Proposed # {} /\ now - x.since <= SnapshotAge)
  <2> SUFFICES ASSUME IInv, [Next]_vars, NEW x \in Ownerless, Proposed # {} \/ Entered
               PROVE  Proposed # {} /\ now - x.since <= SnapshotAge
    OBVIOUS
  <2>1. \/ x \in strays /\ x.resting
        \/ x \in held /\ x.of \notin Active
    BY DEF Ownerless
  <2>2. CASE Proposed # {}
    <3>1. Readable /\ EntryAllowed(snapshot) /\ Unsent = {}
      BY <2>2, ProposedByCreate
    <3>2. x \in held /\ x.of \notin Active => exec[x.of].stage = "none"
      BY <3>1 DEF IInv, WithinLimits, TypeOK, Position, Active, Unsent
    <3>3. QED
      BY <2>1, <2>2, <3>1, <3>2, UnownedIsLate
  <2>3. CASE Entered
    BY <2>1, <2>3, EnteredByAdmit, AdmitSees
  <2>4. QED
    BY <2>2, <2>3
<1>2. QED
  BY <1>1, Inductive, PTL DEF Spec, OrphansBlock

\* "A process-wide reservation prevents two profiles using the same connector
\* from allocating": whoever allocates does so alone, for any number of perps
\* and profiles.
THEOREM AllocatedAlone == Spec => OneAtATime
<1>1. IInv /\ [Next]_vars =>
        /\ Proposed # {} \/ Entered =>
             \A p \in Profiles \ Proposed : exec[p].stage \in {"none", "holding"}
        /\ Proposed # {} => ~Blocked
  <2> SUFFICES ASSUME IInv, [Next]_vars
               PROVE  /\ Proposed # {} \/ Entered =>
                           \A p \in Profiles : exec[p].stage \in {"none", "holding"}
                      /\ Proposed # {} => ~Blocked
    OBVIOUS
  <2>1. ASSUME Inflight = {}, Unsent = {}, NEW p \in Profiles
        PROVE  exec[p].stage \in {"none", "holding"}
    <3>1. exec[p].stage \in Stages
      BY Numbers DEF IInv, WithinLimits
    <3>2. QED
      BY <2>1, <3>1 DEF Inflight, Unsent, Stages
  <2>2. ASSUME Proposed # {}
        PROVE  Inflight = {} /\ Unsent = {} /\ ~Blocked
    <3>1. EntryAllowed(snapshot) /\ Unsent = {} /\ ~OptionsBusy
      BY <2>2, ProposedByCreate
    <3>2. spread.open \in Nat /\ spread.exiting \in Nat
      BY ControllerAssumption, SMT DEF IInv, WithinLimits, TypeOK
    <3>3. ~Blocked
      BY <3>1, <3>2, SMT DEF OptionsBusy, Blocked, OpenCount
    <3>4. QED
      BY <3>1, <3>3 DEF EntryAllowed
  <2>3. ASSUME Entered
        PROVE  Inflight = {} /\ Unsent = {}
    BY <2>3, EnteredByAdmit, AdmitSees
  <2>4. QED
    BY <2>1, <2>2, <2>3
<1>2. QED
  BY <1>1, Inductive, PTL DEF Spec, OneAtATime

-----------------------------------------------------------------------------
(* Numbers *)

LEMMA Least ==
  ASSUME NEW K \in SUBSET Nat, K # {}
  PROVE  \E m \in K : \A k \in K : m <= k
<1>1. PICK m \in K : \A k \in K : ~(<<k, m>> \in OpToRel(<, Nat))
  BY NatLessThanWellFounded, WFMin
<1>2. \A k \in K : ~(k < m)
  BY <1>1 DEF OpToRel
<1>3. QED
  BY <1>2

LEMMA Induction ==
  ASSUME NEW K \in SUBSET Nat, 0 \in K, \A n \in Nat : n \in K => n + 1 \in K
  PROVE  K = Nat
<1> SUFFICES ASSUME Nat \ K # {} PROVE FALSE
  OBVIOUS
<1>1. PICK m \in Nat \ K : \A k \in Nat \ K : m <= k
  BY Least
<1>2. m # 0 /\ m - 1 \in Nat /\ m = m - 1 + 1
  BY <1>1
<1>3. m - 1 \in K
  BY <1>1, <1>2
<1>4. QED
  BY <1>1, <1>2, <1>3

\* Min is the least element, for the sets it is used with.
LEMMA MinBounds ==
  ASSUME NEW S, S # {}, NEW m \in S, \A s \in S : m <= s /\ s \in Int
  PROVE  Min(S) \in S /\ \A s \in S : Min(S) <= s
  BY SMT DEF Min

LEMMA MinOfFour ==
  ASSUME NEW a \in Int, NEW b \in Int, NEW c \in Int, NEW d \in Int
  PROVE  /\ Min({a, b, c, d}) \in Int
         /\ Min({a, b, c, d}) <= a /\ Min({a, b, c, d}) <= b
         /\ Min({a, b, c, d}) <= c /\ Min({a, b, c, d}) <= d
<1> DEFINE S == {a, b, c, d}
<1>1. PICK m \in S : m <= a /\ m <= b /\ m <= c /\ m <= d
  OBVIOUS
<1>2. \A s \in S : m <= s /\ s \in Int
  BY <1>1
<1>3. Min(S) \in S /\ \A s \in S : Min(S) <= s
  BY <1>2, MinBounds
<1>4. QED
  BY <1>3

LEMMA Divided ==
  ASSUME NEW a \in Int, NEW d \in Nat \ {0}
  PROVE  a \div d \in Int /\ d * (a \div d) <= a /\ (a >= 0 => a \div d >= 0)
  OBVIOUS

LEMMA Remainder ==
  ASSUME NEW a \in Int, NEW d \in Nat \ {0}
  PROVE  a \div d \in Int /\ (a \div d) * d \in Int /\ (a \div d) * d > a - d /\ (a \div d) * d <= a
  OBVIOUS

LEMMA Product ==
  ASSUME NEW a \in Nat, NEW b \in Nat
  PROVE  a * b \in Nat
  OBVIOUS

LEMMA ProductMonotone ==
  ASSUME NEW a \in Int, NEW b \in Int, NEW c \in Nat, a <= b
  PROVE  a * c \in Int /\ b * c \in Int /\ a * c <= b * c
  OBVIOUS

LEMMA Whole ==
  ASSUME NEW k \in Int, NEW d \in Nat \ {0}
  PROVE  (k * d) % d = 0
  OBVIOUS

-----------------------------------------------------------------------------
(* The depth of a book *)

LEMMA Elements ==
  ASSUME NEW T, NEW s \in Seq(T)
  PROVE  Len(s) \in Nat /\ DOMAIN s = 1 .. Len(s) /\ \A n \in 1 .. Len(s) : s[n] \in T
  OBVIOUS

LEMMA LevelElements ==
  ASSUME NEW levels \in Seq([price : Nat \ {0}, amount : Nat \ {0}])
  PROVE  /\ Len(levels) \in Nat /\ DOMAIN levels = 1 .. Len(levels)
         /\ \A n \in 1 .. Len(levels) : levels[n].price \in Nat \ {0} /\ levels[n].amount \in Nat
<1>1. /\ Len(levels) \in Nat /\ DOMAIN levels = 1 .. Len(levels)
      /\ \A n \in 1 .. Len(levels) : levels[n] \in [price : Nat \ {0}, amount : Nat \ {0}]
  BY Elements
<1>2. QED
  BY <1>1

LEMMA DepthDefined ==
  ASSUME NEW levels \in Seq([price : Nat \ {0}, amount : Nat \ {0}])
  PROVE  \A n \in 0 .. Len(levels) : DepthTo(levels)[n] \in Nat
<1> DEFINE N == Len(levels)
           Step(g, n) == IF n = 0 THEN 0 ELSE g[n - 1] + levels[n].amount
           Partial(m) == {g \in [0 .. m -> Nat] : \A n \in 0 .. m : g[n] = Step(g, n)}
           K == {m \in Nat : m <= N => Partial(m) # {}}
<1>1. N \in Nat /\ \A n \in 1 .. N : levels[n].amount \in Nat
  BY LevelElements
<1>2. 0 \in K
  <2>1. PICK g : g = [n \in 0 .. 0 |-> 0]
    OBVIOUS
  <2>2. g \in [0 .. 0 -> Nat] /\ \A n \in 0 .. 0 : n = 0 /\ g[n] = 0
    BY <2>1
  <2>3. \A n \in 0 .. 0 : g[n] = Step(g, n)
    BY <2>2
  <2>4. g \in Partial(0)
    BY <2>2, <2>3
  <2>5. QED
    BY <2>4
<1>3. ASSUME NEW m \in Nat, m \in K
      PROVE  m + 1 \in K
  <2> HIDE DEF Partial
  <2> SUFFICES ASSUME m + 1 <= N
               PROVE  Partial(m + 1) # {}
    OBVIOUS
  <2>0. Partial(m) # {}
    BY <1>1, <1>3
  <2> USE DEF Partial
  <2>1. PICK g : g \in [0 .. m -> Nat] /\ \A n \in 0 .. m : g[n] = Step(g, n)
    BY <2>0
  <2>2. PICK h : h = [n \in 0 .. m + 1 |-> IF n = m + 1 THEN g[m] + levels[m + 1].amount ELSE g[n]]
    OBVIOUS
  <2>3. g[m] \in Nat /\ levels[m + 1].amount \in Nat
    BY <1>1, <2>1
  <2>4. h \in [0 .. m + 1 -> Nat]
    BY <2>1, <2>2, <2>3
  <2>5. ASSUME NEW n \in 0 .. m + 1
        PROVE  h[n] = Step(h, n)
    <3>1. CASE n = m + 1
      <4>1. n - 1 = m /\ m \in 0 .. m + 1 /\ m # m + 1 /\ n # 0
        BY <3>1
      <4>2. h[n] = g[m] + levels[n].amount /\ h[m] = g[m]
        BY <2>2, <3>1, <4>1
      <4>3. QED
        BY <4>1, <4>2
    <3>2. CASE n \in 1 .. m
      <4>1. n - 1 \in 0 .. m + 1 /\ n - 1 # m + 1 /\ n # m + 1 /\ n # 0 /\ n \in 0 .. m
        BY <3>2
      <4>2. h[n] = g[n] /\ h[n - 1] = g[n - 1]
        BY <2>2, <4>1
      <4>3. g[n] = g[n - 1] + levels[n].amount
        BY <2>1, <4>1
      <4>4. QED
        BY <4>1, <4>2, <4>3
    <3>3. CASE n = 0
      <4>1. n \in 0 .. m /\ n # m + 1
        BY <3>3
      <4>2. h[n] = g[n] /\ g[n] = 0
        BY <2>1, <2>2, <3>3, <4>1
      <4>3. QED
        BY <3>3, <4>2
    <3>4. QED
      BY <3>1, <3>2, <3>3
  <2>6. h \in Partial(m + 1)
    BY <2>4, <2>5
  <2>7. QED
    BY <2>6
<1>4. K = Nat
  <2> HIDE DEF K
  <2>1. K \subseteq Nat
    BY DEF K
  <2>2. QED
    BY <1>2, <1>3, <2>1, Induction
<1>5. PICK g : g \in [0 .. N -> Nat] /\ \A n \in 0 .. N : g[n] = Step(g, n)
  <2>1. N \in K
    BY <1>1, <1>4
  <2>2. Partial(N) # {}
    BY <1>1, <2>1
  <2>3. QED
    BY <2>2
<1>6. g = [n \in 0 .. N |-> Step(g, n)]
  BY <1>5
<1>7. DepthTo(levels) = [n \in 0 .. N |-> Step(DepthTo(levels), n)]
  <2> DEFINE depth == CHOOSE f : f = [n \in 0 .. N |-> Step(f, n)]
  <2>1. depth = [n \in 0 .. N |-> Step(depth, n)]
    BY <1>6
  <2>2. DepthTo(levels) = depth
    BY DEF DepthTo
  <2>3. QED
    BY <2>1, <2>2
<1>8. PICK f : f = DepthTo(levels)
  OBVIOUS
<1>9. \A n \in 0 .. N : f[n] = Step(f, n)
  BY <1>7, <1>8
<1> DEFINE L == {m \in Nat : m <= N => f[m] \in Nat}
<1>10. 0 \in L
  BY <1>1, <1>9
<1>11. ASSUME NEW m \in Nat, m \in L
       PROVE  m + 1 \in L
  <2> SUFFICES ASSUME m + 1 <= N
               PROVE  f[m + 1] \in Nat
    OBVIOUS
  <2>1. m + 1 \in 1 .. N /\ m + 1 \in 0 .. N /\ m + 1 # 0 /\ m + 1 - 1 = m /\ m <= N
    BY <1>1
  <2>2. f[m + 1] = f[m] + levels[m + 1].amount
    BY <1>9, <2>1
  <2>3. f[m] \in Nat /\ levels[m + 1].amount \in Nat
    BY <1>1, <1>11, <2>1
  <2>4. QED
    BY <2>2, <2>3
<1>12. L = Nat
  <2> HIDE DEF L
  <2>1. L \subseteq Nat
    BY DEF L
  <2>2. QED
    BY <1>10, <1>11, <2>1, Induction
<1>13. QED
  BY <1>1, <1>8, <1>12

\* Less is filled at no worse a price.
LEMMA WorstBounds ==
  ASSUME NEW side \in {-1, 1}, NEW levels \in Levels(side),
         NEW a \in Nat, NEW b \in Nat, a <= b, WorstPrice(levels, b) > 0
  PROVE  /\ WorstPrice(levels, a) \in Nat \ {0} /\ WorstPrice(levels, b) \in Nat \ {0}
         /\ side * WorstPrice(levels, a) <= side * WorstPrice(levels, b)
<1> DEFINE enough(x) == {n \in DOMAIN levels : DepthTo(levels)[n] >= x}
<1>1. /\ levels \in Seq([price : Nat \ {0}, amount : Nat \ {0}])
      /\ \A m, n \in DOMAIN levels : m <= n => side * levels[m].price <= side * levels[n].price
  BY DEF Levels
<1>2. DOMAIN levels = 1 .. Len(levels) /\ Len(levels) \in Nat
      /\ \A n \in DOMAIN levels : levels[n].price \in Nat \ {0}
  BY <1>1, LevelElements
<1>3. \A n \in DOMAIN levels : DepthTo(levels)[n] \in Nat
  BY <1>1, <1>2, DepthDefined
<1>4. enough(b) \subseteq enough(a) /\ enough(b) # {}
  <2>1. enough(b) # {}
    BY DEF WorstPrice
  <2>2. QED
    BY <1>3, <2>1
<1>5. ASSUME NEW S \in SUBSET DOMAIN levels, S # {}
      PROVE  Min(S) \in S /\ \A s \in S : Min(S) <= s
  <2>1. S \in SUBSET Nat /\ \A s \in S : s \in Int
    BY <1>2
  <2>2. PICK m \in S : \A s \in S : m <= s
    BY <1>5, <2>1, Least
  <2>3. QED
    BY <2>1, <2>2, MinBounds
<1>6. PICK A : A = enough(a)
  OBVIOUS
<1>7. PICK B : B = enough(b)
  OBVIOUS
<1>8. WorstPrice(levels, a) = levels[Min(A)].price /\ WorstPrice(levels, b) = levels[Min(B)].price
  BY <1>4, <1>6, <1>7 DEF WorstPrice
<1>9. A \in SUBSET DOMAIN levels /\ B \in SUBSET A /\ B # {}
  BY <1>4, <1>6, <1>7
<1>10. Min(A) \in DOMAIN levels /\ Min(B) \in DOMAIN levels /\ Min(A) <= Min(B)
  BY <1>5, <1>9
<1>11. QED
  BY <1>1, <1>2, <1>8, <1>10

-----------------------------------------------------------------------------
(* Sizes *)

\* What an account is to the sizing.
Valued(account) ==
  /\ account.equity \in Int /\ account.available \in Int
  /\ account.trade_budget \in Nat /\ account.cost_multiple \in Nat /\ account.committed \in Nat
  /\ account.scale \in 0 .. 100

\* A size is within the notional cap, within the gross cap together with what is
\* held, and within the margin.
LEMMA RiskSizeBounds ==
  ASSUME NEW account, Valued(account), NEW confidence \in Int, NEW stop \in Int
  PROVE  LET r == RiskSize(account, confidence, stop, Config)
         IN  /\ r \in Nat
             /\ r > 0 => /\ account.equity > 0
                         /\ 100 * r <= account.equity * Config.notional_fraction
                         /\ 100 * (r + account.committed) <= account.equity * Config.gross_fraction
                         /\ r <= account.available
<1> DEFINE e  == account.equity
           rf == Config.risk_fraction
           nf == Config.notional_fraction
           gf == Config.gross_fraction
           sc == account.scale
           budget == AtMost((e * rf * sc) \div 100000, account.trade_budget)
           a == (50 * budget * confidence) \div stop
           b == (e * nf * sc) \div 10000
           c == AtLeast(0, (e * gf) \div 100 - account.committed)
           r == RiskSize(account, confidence, stop, Config)
<1>1. e \in Int /\ rf \in Nat /\ nf \in Nat /\ gf \in Nat /\ sc \in 0 .. 100
  BY ConfigAssumption DEF Valued
<1>2. CASE e <= 0 \/ stop <= 0 \/ account.drawdown >= 25
  BY <1>2 DEF RiskSize
<1>3. CASE ~(e <= 0 \/ stop <= 0 \/ account.drawdown >= 25)
  <2>1. e \in Nat \ {0} /\ stop \in Nat \ {0}
    BY <1>1, <1>3
  <2>2. e * rf \in Int /\ e * nf \in Nat /\ e * gf \in Int
    BY <1>1, <2>1, Product
  <2>3. e * rf * sc \in Int /\ e * nf * sc \in Int
    BY <1>1, <2>2
  <2>4. (e * rf * sc) \div 100000 \in Int /\ b \in Int /\ 10000 * b <= e * nf * sc
    BY <2>3, Divided
  <2>5. budget \in Int
    BY <2>4 DEF AtMost, Valued
  <2>6. 50 * budget * confidence \in Int
    BY <2>5
  <2>7. a \in Int
    BY <2>1, <2>6, Divided
  <2>8. (e * gf) \div 100 \in Int /\ 100 * ((e * gf) \div 100) <= e * gf
    BY <2>2, Divided
  <2>9. c \in Int /\ (c > 0 => 100 * (c + account.committed) <= e * gf)
    BY <2>2, <2>8, SMT DEF AtLeast, Valued
  <2>10. PICK m : m = Min({a, b, c, account.available})
    OBVIOUS
  <2>11. m \in Int /\ m <= a /\ m <= b /\ m <= c /\ m <= account.available
    <3> HIDE DEF a, b, c
    <3>1. account.available \in Int
      BY DEF Valued
    <3>2. a \in Int /\ b \in Int /\ c \in Int
      BY <2>4, <2>7, <2>9
    <3>3. LET n == Min({a, b, c, account.available})
          IN  n \in Int /\ n <= a /\ n <= b /\ n <= c /\ n <= account.available
      BY <3>1, <3>2, MinOfFour
    <3>4. QED
      BY <2>10, <3>3
  <2>12. r = AtLeast(0, m)
    BY <1>3, <2>10 DEF RiskSize
  <2>13. e * nf * sc <= e * nf * 100
    <3>1. PICK n \in Nat : n = e * nf
      BY <2>2
    <3>2. n * sc <= n * 100
      BY <1>1
    <3>3. QED
      BY <3>1, <3>2
  <2>14. r \in Nat /\ (r > 0 => r <= b /\ r <= c /\ r <= account.available)
    <3> HIDE DEF a, b, c, r
    <3>1. QED
      BY <2>4, <2>9, <2>11, <2>12 DEF AtLeast, Valued
  <2>15. ASSUME r > 0
         PROVE  100 * r <= e * nf /\ 100 * (r + account.committed) <= e * gf
    <3> HIDE DEF b, c, r
    <3>1. PICK n \in Nat : n = e * nf
      BY <2>2
    <3>2. PICK g \in Int : g = e * gf
      BY <2>2
    <3>3. 10000 * b <= n * 100 /\ b \in Int /\ r <= b /\ r \in Nat
      BY <2>3, <2>4, <2>13, <2>14, <2>15, <3>1
    <3>4. 100 * (c + account.committed) <= g /\ c \in Int /\ r <= c /\ account.committed \in Nat
      BY <2>9, <2>14, <2>15, <3>2 DEF Valued
    <3>5. QED
      BY <3>1, <3>2, <3>3, <3>4
  <2>16. QED
    BY <2>1, <2>14, <2>15
<1>4. QED
  BY <1>2, <1>3

\* A limit is on the far side of its price.
LEMMA LimitBounds ==
  ASSUME NEW price \in Nat \ {0}, NEW side \in {-1, 1}, NEW grain \in Nat \ {0}
  PROVE  Limit(price, side, grain) \in Int /\ side * price <= side * Limit(price, side, grain)
<1>1. CASE side = 1
  <2>1. PICK n \in Int : n = (price + grain - 1) \div grain /\ n * grain > price - 1 /\ n * grain \in Int
    <3>1. PICK a \in Int : a = price + grain - 1 /\ a - grain = price - 1
      OBVIOUS
    <3>2. QED
      BY <3>1, Remainder
  <2>2. Limit(price, side, grain) = n * grain
    BY <1>1, <2>1 DEF Limit, CeilDiv
  <2>3. QED
    BY <1>1, <2>1, <2>2
<1>2. CASE side = -1
  <2>1. PICK n \in Int : n = price \div grain /\ n * grain <= price /\ n * grain \in Int
    <3>1. PICK a \in Int : a = price
      OBVIOUS
    <3>2. QED
      BY <3>1, Remainder
  <2>2. Limit(price, side, grain) = n * grain
    BY <1>2, <2>1 DEF Limit
  <2>3. QED
    BY <1>2, <2>1, <2>2
<1>3. QED
  BY <1>1, <1>2

\* What a quote is.
Offered(q) ==
  /\ q.side \in {-1, 1} /\ q.price \in Nat \ {0} /\ q.levels \in Levels(q.side)
  /\ q.rule.tick \in Nat \ {0} /\ q.rule.step \in Nat \ {0}
  /\ q.rule.min_amount \in Nat /\ q.rule.min_notional \in Nat /\ q.rule.max_amount \in Nat
  /\ q.fee \in Nat /\ q.base_fee \in Nat /\ q.patch.size \in 0 .. 100
  /\ q.patch.stop \in Nat /\ q.patch.profit \in Nat /\ q.patch.cost \in Nat

\* A venue size is a limit and whole steps, or nothing.
LEMMA VenueSizeBounds ==
  ASSUME NEW q, Offered(q), NEW budget \in Int, NEW price \in Nat \ {0}
  PROVE  LET size == VenueSize(budget, price, q.side, q.rule)
         IN  /\ size.price = Limit(price, q.side, q.rule.tick)
             /\ size.amount # 0 => size.price > 0 /\ \E k \in Int : size.amount = k * q.rule.step
<1>a. PICK rule, side : rule = q.rule /\ side = q.side
  OBVIOUS
<1>b. /\ side \in {-1, 1}
      /\ rule.tick \in Nat \ {0} /\ rule.step \in Nat \ {0} /\ rule.max_amount \in Nat
  BY <1>a DEF Offered
<1> DEFINE limit == Limit(price, side, rule.tick)
           exposure == AtLeast(price, limit)
           steps == AtMost(budget \div (exposure * rule.step), rule.max_amount \div rule.step)
           size == VenueSize(budget, price, side, rule)
<1>1. limit \in Int
  BY <1>b, LimitBounds
<1>2. size.price = limit /\ (size.amount # 0 => limit > 0 /\ size.amount = steps * rule.step)
  <2>1. size.price = limit /\ (size.amount # 0 => ~(limit <= 0) /\ size.amount = steps * rule.step)
    BY Zenon DEF VenueSize
  <2>2. QED
    BY <1>1, <2>1
<1>3. exposure \in Nat \ {0}
  BY <1>1 DEF AtLeast
<1>4. exposure * rule.step \in Nat \ {0}
  <2>1. PICK x \in Nat \ {0} : x = exposure
    BY <1>3
  <2>2. x * rule.step \in Nat \ {0}
    BY <1>b
  <2>3. QED
    BY <2>1, <2>2
<1>5. budget \div (exposure * rule.step) \in Int /\ rule.max_amount \div rule.step \in Int
  <2>1. PICK d \in Nat \ {0} : d = exposure * rule.step
    BY <1>4
  <2>2. budget \div d \in Int /\ rule.max_amount \div rule.step \in Int
    BY <1>b, Divided
  <2>3. QED
    BY <2>1, <2>2
<1>6. steps \in Int
  BY <1>5 DEF AtMost
<1>7. size.amount # 0 => \E k \in Int : size.amount = k * rule.step
  BY <1>2, <1>6
<1>8. QED
  BY <1>a, <1>2, <1>7, Zenon

-----------------------------------------------------------------------------
(* Proposals *)

\* The distances of the exits are whole numbers.
LEMMA ExitsTyped ==
  ASSUME NEW q, Offered(q), NEW f, f.atr \in Nat, NEW confidence \in Int, NEW untuned,
         untuned \in {ScalpExits(f.atr, confidence, Config.interval),
                      DynamicExits(f.atr, confidence, Config.interval)}
  PROVE  /\ untuned.stop \in Int
         /\ TunedExits(untuned, q.patch).stop \in Int /\ TunedExits(untuned, q.patch).profit \in Int
<1> DEFINE d == DynamicExits(f.atr, confidence, Config.interval)
           range == (f.atr * (70000 - confidence)) \div 400
           stop == AtMost(15000, AtLeast(range, 3000))
<1>1. f.atr * (70000 - confidence) \in Int
  OBVIOUS
<1>2. range \in Int
  BY <1>1, Divided
<1>3. stop \in Int
  BY <1>2 DEF AtMost, AtLeast
<1>4. stop * (60000 + confidence) \in Int
  BY <1>3
<1>5. d.stop = stop /\ d.profit = (stop * (60000 + confidence)) \div 40000
  BY DEF DynamicExits
<1>6. d.stop \in Int /\ d.profit \in Int
  <2>1. (stop * (60000 + confidence)) \div 40000 \in Int
    BY <1>4, Divided
  <2>2. QED
    BY <1>3, <1>5, <2>1
<1>7. untuned.stop = d.stop /\ untuned.profit = d.profit
  BY DEF ScalpExits, DynamicExits
<1>8. \A x \in Int, y \in Nat : x * y \in Int /\ (x * y) \div 100 \in Int
  BY Divided
<1>9. (untuned.stop * q.patch.stop) \div 100 \in Int /\ (untuned.profit * q.patch.profit) \div 100 \in Int
  BY <1>6, <1>7, <1>8 DEF Offered
<1>10. QED
  BY <1>6, <1>7, <1>9 DEF TunedExits

LEMMA ApartTyped ==
  ASSUME NEW price \in Int, NEW reference \in Nat \ {0}
  PROVE  Apart(price, reference) \in Nat
<1>1. PICK n \in Nat : n = Magnitude(price - reference) * 1000000
  BY DEF Magnitude
<1>2. n \div reference \in Nat
  BY Divided
<1>3. QED
  BY <1>1, <1>2 DEF Apart

\* A proposal keeps its caps at the price it may pay.
LEMMA TicketBounds ==
  ASSUME NEW q, Offered(q), NEW account, Valued(account), NEW f, f.atr \in Nat,
         NEW confidence \in Int, confidence <= Certain, Config.scalp \in BOOLEAN,
         NEW t, t = Ticket(q, account, f, confidence, Config), t # NoTicket
  PROVE  LET notional == t.amount * AtLeast(q.price, t.limit)
             worst    == WorstPrice(q.levels, t.amount)
         IN  /\ t.amount % q.rule.step = 0 /\ t.amount >= q.rule.min_amount
             /\ t.amount * t.limit >= q.rule.min_notional
             /\ 100 * notional <= account.equity * Config.notional_fraction
             /\ 100 * (notional + account.committed) <= account.equity * Config.gross_fraction
             /\ notional <= account.available
             /\ worst > 0 /\ q.side * worst <= q.side * t.limit
             /\ notional * (t.exits.stop + 2 * Config.fee) <= 50 * account.trade_budget * Certain
             /\ t.exits.profit >= account.cost_multiple * (Apart(worst, q.price) + 2 * q.fee)
<1> DEFINE untuned  == EntryExits(f, confidence, Config)
           exits    == TunedExits(untuned, q.patch)
           loss     == untuned.stop + 2 * (Config.fee + Config.max_slippage) + 100
           size     == RiskSize(account, confidence, loss, Config)
           budget   == (size * q.patch.size) \div 100
           initial  == VenueSize(budget, q.price, q.side, q.rule)
           first    == WorstPrice(q.levels, initial.amount)
           fits     == VenueSize(budget, first, q.side, q.rule)
           amount   == AtMost(initial.amount, fits.amount)
           worst    == WorstPrice(q.levels, amount)
           limit    == fits.price
           notional == amount * AtLeast(q.price, limit)
           costs    == Costs(q, Config, worst, notional)
<1>1. /\ budget > 0 /\ initial.amount > 0 /\ first > 0 /\ fits.amount > 0 /\ worst > 0
      /\ notional <= budget
      /\ CostAllowsEntry(exits.profit, costs, AtLeast(account.cost_multiple, q.patch.cost))
      /\ amount >= q.rule.min_amount /\ amount * limit >= q.rule.min_notional
      /\ notional * (exits.stop + costs) <= 50 * account.trade_budget * confidence
      /\ t = [amount |-> amount, limit |-> limit, budget |-> budget, exits |-> exits, costs |-> costs]
  <2> DEFINE passes == /\ budget > 0 /\ initial.amount > 0
                       /\ first > 0 /\ Apart(first, q.price) <= Config.max_slippage
                       /\ fits.amount > 0 /\ worst > 0
                       /\ notional <= budget /\ Apart(limit, q.price) <= Config.max_slippage
                       /\ CostAllowsEntry(exits.profit, costs, AtLeast(account.cost_multiple, q.patch.cost))
                       /\ amount >= q.rule.min_amount /\ amount * limit >= q.rule.min_notional
                       /\ notional * (exits.stop + costs) <= 50 * account.trade_budget * confidence
             drafted == [amount |-> amount, limit |-> limit, budget |-> budget, exits |-> exits, costs |-> costs]
  <2>1. Ticket(q, account, f, confidence, Config) = IF passes THEN drafted ELSE NoTicket
    BY Zenon DEF Ticket
  <2> HIDE DEF untuned, exits, budget, initial, first, fits, amount, worst, limit, notional, costs, drafted
  <2>2. passes /\ t = drafted
    BY <2>1, Zenon
  <2>3. QED
    BY <2>2, Zenon DEF drafted
<1> HIDE DEF untuned, exits, loss, size, budget, initial, first, fits, amount, worst, limit, notional, costs
<1>2. t.amount = amount /\ t.limit = limit /\ t.exits = exits
  BY <1>1
<1>3. untuned.stop \in Int /\ exits.stop \in Int /\ exits.profit \in Int
  BY ExitsTyped DEF untuned, exits, EntryExits
<1>4. /\ size \in Nat
      /\ size > 0 => /\ account.equity > 0
                     /\ 100 * size <= account.equity * Config.notional_fraction
                     /\ 100 * (size + account.committed) <= account.equity * Config.gross_fraction
                     /\ size <= account.available
  <2>1. loss \in Int
    BY <1>3, ConfigAssumption DEF loss
  <2>2. QED
    BY <2>1, RiskSizeBounds DEF size
<1>5. budget \in Nat /\ budget <= size
  <2>1. PICK n \in Nat : n = q.patch.size /\ n <= 100
    BY DEF Offered
  <2>2. size * n <= size * 100 /\ size * n \in Nat
    BY <1>4, <2>1
  <2>3. (size * n) \div 100 \in Nat /\ 100 * ((size * n) \div 100) <= size * n
    BY <2>2, Divided
  <2>4. QED
    BY <1>4, <2>1, <2>2, <2>3 DEF budget
<1>6. PICK k \in Int : initial.amount = k * q.rule.step
  <2>1. q.price \in Nat \ {0}
    BY DEF Offered
  <2>2. initial.amount # 0 => \E k \in Int : initial.amount = k * q.rule.step
    <3>1. budget \in Int
      BY <1>5
    <3>2. LET z == VenueSize(budget, q.price, q.side, q.rule)
          IN  z.amount # 0 => \E k \in Int : z.amount = k * q.rule.step
      BY <2>1, <3>1, VenueSizeBounds, SMT
    <3>3. QED
      BY <3>2, Zenon DEF initial
  <2>3. initial.amount # 0
    BY <1>1
  <2>4. QED
    BY <2>2, <2>3
<1>7. first \in Nat \ {0}
  <2>1. initial.amount \in Nat
    BY <1>1, <1>6, Whole DEF Offered
  <2>2. QED
    BY <1>1, <2>1, WorstBounds DEF first, Offered
<1>8. /\ limit = Limit(first, q.side, q.rule.tick) /\ limit > 0 /\ limit \in Int
      /\ \E n \in Int : fits.amount = n * q.rule.step
  <2>1. /\ fits.price = Limit(first, q.side, q.rule.tick)
        /\ fits.amount # 0 => fits.price > 0 /\ \E n \in Int : fits.amount = n * q.rule.step
    <3>1. budget \in Int
      BY <1>5
    <3>2. LET z == VenueSize(budget, first, q.side, q.rule)
          IN  /\ z.price = Limit(first, q.side, q.rule.tick)
              /\ z.amount # 0 => z.price > 0 /\ \E n \in Int : z.amount = n * q.rule.step
      BY <1>7, <3>1, VenueSizeBounds, SMT
    <3>3. QED
      BY <3>2, Zenon DEF fits
  <2>2. Limit(first, q.side, q.rule.tick) \in Int
    BY <1>7, LimitBounds DEF Offered
  <2>3. QED
    BY <1>1, <2>1, <2>2 DEF limit
<1>9. PICK n \in Int : fits.amount = n * q.rule.step
  BY <1>8
<1>10. /\ amount \in Nat \ {0} /\ amount <= initial.amount /\ initial.amount \in Nat
       /\ amount % q.rule.step = 0
  <2>1. initial.amount \in Int /\ initial.amount % q.rule.step = 0
    BY <1>6, Whole DEF Offered
  <2>2. fits.amount \in Int /\ fits.amount % q.rule.step = 0
    BY <1>9, Whole DEF Offered
  <2>3. QED
    BY <1>1, <2>1, <2>2 DEF amount, AtMost
<1>11. worst \in Nat \ {0} /\ q.side * worst <= q.side * limit
  <2>1. worst \in Nat \ {0} /\ q.side * worst <= q.side * first
    BY <1>1, <1>10, WorstBounds DEF first, worst, Offered
  <2>2. q.side * first <= q.side * limit
    BY <1>7, <1>8, LimitBounds DEF Offered
  <2>3. QED
    BY <1>7, <1>8, <2>1, <2>2 DEF Offered
<1>12. notional \in Nat \ {0} /\ notional <= size
  <2>1. AtLeast(q.price, limit) \in Nat \ {0}
    BY <1>8 DEF AtLeast, Offered
  <2>2. PICK m \in Nat \ {0} : m = AtLeast(q.price, limit)
    BY <2>1
  <2>3. amount * m \in Nat \ {0}
    BY <1>10
  <2>4. QED
    BY <1>1, <1>4, <1>5, <2>2, <2>3 DEF notional
<1>13. /\ 100 * notional <= account.equity * Config.notional_fraction
       /\ 100 * (notional + account.committed) <= account.equity * Config.gross_fraction
       /\ notional <= account.available
  <2>1. PICK x \in Int, y \in Int : x = account.equity * Config.notional_fraction
                                    /\ y = account.equity * Config.gross_fraction
    BY ConfigAssumption DEF Valued
  <2>2. size > 0
    BY <1>4, <1>12
  <2>3. 100 * size <= x /\ 100 * (size + account.committed) <= y /\ size <= account.available
    BY <1>4, <2>1, <2>2
  <2>4. account.committed \in Int /\ account.available \in Int
    BY DEF Valued
  <2>5. 100 * notional <= x /\ 100 * (notional + account.committed) <= y
    BY <1>4, <1>12, <2>1, <2>3, <2>4
  <2>6. QED
    BY <1>4, <1>12, <2>1, <2>3, <2>4, <2>5
<1>14. /\ costs \in Int
       /\ costs >= 2 * Config.fee /\ costs >= Apart(worst, q.price) + 2 * q.fee
       /\ costs >= 0 /\ Apart(worst, q.price) \in Nat
  <2>1. PICK x \in Nat : x = Apart(worst, q.price)
    <3>1. worst \in Int /\ q.price \in Nat \ {0}
      BY <1>11 DEF Offered
    <3>2. QED
      BY <3>1, ApartTyped
  <2>2. PICK y \in Nat : y = (2000000 * q.base_fee) \div notional
    BY <1>12, Divided DEF Offered
  <2>3. Config.fee \in Nat /\ q.fee \in Nat /\ Config.max_slippage \in Nat
    BY ConfigAssumption DEF Offered
  <2>4. costs = 2 * AtLeast(Config.fee, q.fee) + x + Config.max_slippage + y + 100
    BY <2>1, <2>2 DEF costs, Costs
  <2>5. QED
    BY <2>1, <2>2, <2>3, <2>4 DEF AtLeast
<1>15. notional * (exits.stop + 2 * Config.fee) <= 50 * account.trade_budget * Certain
  <2>1. PICK a \in Int, b \in Int : a = exits.stop + 2 * Config.fee /\ b = exits.stop + costs
    BY <1>3, <1>14, ConfigAssumption
  <2>2. a * notional \in Int /\ b * notional \in Int /\ a * notional <= b * notional
    BY <1>3, <1>12, <1>14, <2>1, ProductMonotone, ConfigAssumption
  <2>3. PICK c \in Nat : c = 50 * account.trade_budget
    BY DEF Valued
  <2>4. confidence * c <= Certain * c /\ confidence * c \in Int /\ Certain * c \in Int
    BY <2>3, ProductMonotone DEF Certain
  <2>5. notional * b <= c * confidence
    BY <1>1, <2>1, <2>3
  <2>6. notional * a = a * notional /\ notional * b = b * notional
        /\ c * confidence = confidence * c /\ c * Certain = Certain * c
    BY <1>12, <2>1, <2>3 DEF Certain
  <2>7. a * notional <= Certain * c
    BY <2>2, <2>4, <2>5, <2>6
  <2>8. QED
    BY <2>1, <2>3, <2>6, <2>7
<1>16. exits.profit >= account.cost_multiple * (Apart(worst, q.price) + 2 * q.fee)
  <2>1. PICK l \in Nat, m \in Nat : l = account.cost_multiple /\ m = AtLeast(l, q.patch.cost) /\ l <= m
    BY DEF AtLeast, Valued, Offered
  <2>2. PICK x \in Int : x = Apart(worst, q.price) + 2 * q.fee /\ x >= 0 /\ x <= costs
    BY <1>14 DEF Offered
  <2>3. l * x \in Int /\ m * x \in Int /\ l * x <= m * x
    BY <2>1, <2>2, ProductMonotone
  <2>4. x * m \in Int /\ costs * m \in Int /\ x * m <= costs * m
    BY <1>14, <2>1, <2>2, ProductMonotone
  <2>5. m * x = x * m /\ m * costs = costs * m
    BY <1>14, <2>1, <2>2
  <2>6. exits.profit >= AtLeast(3000, m * costs)
    BY <1>1, <2>1 DEF CostAllowsEntry
  <2>7. exits.profit >= m * costs
    BY <1>3, <2>4, <2>5, <2>6 DEF AtLeast
  <2>8. exits.profit >= l * x
    BY <1>3, <2>3, <2>4, <2>5, <2>7
  <2>9. QED
    BY <2>1, <2>2, <2>8
<1>17. /\ t.amount * AtLeast(q.price, t.limit) = notional
       /\ WorstPrice(q.levels, t.amount) = worst
  BY <1>2 DEF notional, worst
<1>18. QED
  BY <1>1, <1>2, <1>10, <1>11, <1>13, <1>15, <1>16, <1>17

\* A confidence is at most certain.
LEMMA DecideConfidence ==
  ASSUME NEW f \in Features, NEW account, NEW active, Decide(f, account, active).signal # 0
  PROVE  /\ Decide(f, account, active).confidence \in Int
         /\ Decide(f, account, active).confidence <= Certain
<1>1. f.trend \in Int /\ f.efficiency \in Nat /\ f.volume \in Nat
  BY FeaturesAssumption
<1>2. Confidence(f) \in Int /\ Confidence(f) <= Certain
  <2>1. PICK x \in Nat : x = AtMost(Magnitude(f.trend), 200)
    BY <1>1 DEF AtMost, Magnitude
  <2>2. PICK y \in Nat : y = AtMost(f.volume, 200)
    BY <1>1 DEF AtMost
  <2>3. 35 * x + 70 * f.efficiency + 30 * y \in Int
    BY <1>1
  <2>4. Confidence(f) = AtMost(Certain, 35 * x + 70 * f.efficiency + 30 * y)
    BY <2>1, <2>2 DEF Confidence
  <2>5. QED
    BY <2>3, <2>4 DEF AtMost, Certain
<1>3. Decide(f, account, active).confidence = Confidence(f)
  <2>1. CASE Halts(f, account)
    BY <2>1 DEF Decide, Flat
  <2>2. CASE ~Halts(f, account) /\ ~Confirmed(f, Floors(account.mode, active))
    BY <2>2 DEF Decide, Flat
  <2>3. CASE ~Halts(f, account) /\ Confirmed(f, Floors(account.mode, active))
    BY <2>3 DEF Decide
  <2>4. QED
    BY <2>1, <2>2, <2>3
<1>4. QED
  BY <1>2, <1>3

\* A halted decision has no signal.
LEMMA DecisionForms ==
  ASSUME NEW f, NEW account, NEW active
  PROVE  LET decision == Decide(f, account, active)
         IN  decision.halt \in BOOLEAN /\ (decision.halt => decision.signal = 0)
<1>1. CASE Halts(f, account)
  BY <1>1 DEF Decide, Flat
<1>2. CASE ~Halts(f, account) /\ ~Confirmed(f, Floors(account.mode, active))
  BY <1>2 DEF Decide, Flat
<1>3. CASE ~Halts(f, account) /\ Confirmed(f, Floors(account.mode, active))
  BY <1>3 DEF Decide
<1>4. QED
  BY <1>1, <1>2, <1>3

\* What a turn decided on are features of this run.
LEMMA ReadingsFeatures ==
  ASSUME NEW data \in Readings, data.signal # 0
  PROVE  data.features \in Features
<1>1. data # NoData
  BY DEF NoData
<1>2. PICK f \in Features, v \in Accounts : data = Reading(f, v)
  BY <1>1 DEF Readings
<1>3. PICK decision : decision = Decide(f, Account(v, snapshot), Config.active)
  OBVIOUS
<1>5. decision.signal # 0 /\ ~decision.halt
  <2>1. CASE decision.halt
    BY <1>1, <1>2, <1>3, <2>1, DecisionForms DEF Reading
  <2>2. CASE ~decision.halt /\ decision.signal = 0
    BY <1>2, <1>3, <2>2 DEF Reading
  <2>3. QED
    BY <2>1, <2>2
<1>6. data.features = f
  BY <1>2, <1>3, <1>5 DEF Reading
<1>7. QED
  BY <1>6

\* There are finitely many positions.
LEMMA FinitePositions == IsFiniteSet(Position)
<1>1. PICK since : since = {Long} \cup Times
  OBVIOUS
<1>2. IsFiniteSet(Profiles) /\ IsFiniteSet(Requests) /\ IsFiniteSet(since)
  <2>1. IsFiniteSet(Requests) /\ IsFiniteSet(Times)
    BY ControllerAssumption, FS_Interval DEF Requests, Times
  <2>2. QED
    BY <1>1, <2>1, ControllerAssumption, FS_Singleton, FS_Union
<1>3. IsFiniteSet(Profiles \X (Requests \X since))
  BY <1>2, FS_Product
<1>4. PICK f : f = [t \in Profiles \X (Requests \X since) |-> [of |-> t[1], n |-> t[2][1], since |-> t[2][2]]]
  OBVIOUS
<1>5. f \in Surjection(Profiles \X (Requests \X since), Position)
  <2>1. ASSUME NEW t \in Profiles \X (Requests \X since)
        PROVE  f[t] \in Position
    BY <1>1, <1>4 DEF Position
  <2>2. ASSUME NEW u \in Position
        PROVE  \E t \in Profiles \X (Requests \X since) : f[t] = u
    <3>1. /\ <<u.of, <<u.n, u.since>>>> \in Profiles \X (Requests \X since)
          /\ u = [of |-> u.of, n |-> u.n, since |-> u.since]
      BY <1>1 DEF Position
    <3>2. f[<<u.of, <<u.n, u.since>>>>] = u
      BY <1>4, <3>1
    <3>3. QED
      BY <3>1, <3>2
  <2>3. f \in [Profiles \X (Requests \X since) -> Position]
    BY <1>4, <2>1
  <2>4. QED
    BY <2>2, <2>3 DEF Surjection
<1>6. QED
  BY <1>3, <1>5, FS_Surjection

\* The account that an allocation is sized with.
LEMMA AccountValued ==
  ASSUME IInv, NEW v \in Accounts
  PROVE  Valued(Account(v, snapshot))
<1>1. Committed(snapshot) \in Nat
  <2>1. PICK n \in Nat : n = Cardinality(snapshot.positions)
    <3>1. IsFiniteSet(snapshot.positions)
      BY FinitePositions, FS_Subset DEF IInv, WithinLimits, TypeOK, Snapshot
    <3>2. QED
      BY <3>1, FS_CardinalityType
  <2>2. PICK m \in Nat : m = spread.open
    BY ControllerAssumption DEF IInv, WithinLimits, TypeOK
  <2>3. PerpValue \in Nat /\ SpreadValue \in Nat
    BY ConfigAssumption
  <2>4. PerpValue * n \in Nat /\ SpreadValue * m \in Nat
    BY <2>1, <2>2, <2>3, Product
  <2>5. QED
    BY <2>1, <2>2, <2>4 DEF Committed
<1>2. QED
  BY <1>1, AccountsAssumption DEF Account, Valued

LEMMA CreateSound ==
  ASSUME IInv, NEW p, NEW data, NEW expiry, data.signal # 0 => data.features \in Features,
         Create(p, data, expiry)
  PROVE  TicketSound'
<1>1. PICK v \in Accounts, q \in Quotes :
        LET account == Account(v, snapshot)
            current == Decide(data.features, account, Config.active)
            ticket  == Ticket(q, account, data.features, current.confidence, Config)
        IN  /\ current.signal = data.signal /\ ticket # NoTicket
            /\ proposal' = [ticket |-> ticket, quote |-> q, account |-> account,
                            confidence |-> current.confidence]
  BY DEF Create
<1>2. data.signal # 0 /\ data.features \in Features
  BY DEF Create
<1>3. PICK account, f, confidence, t :
        /\ account = Account(v, snapshot) /\ f = data.features
        /\ confidence = Decide(f, account, Config.active).confidence
        /\ t = Ticket(q, account, f, confidence, Config)
  OBVIOUS
<1>4. t # NoTicket /\ proposal' = [ticket |-> t, quote |-> q, account |-> account, confidence |-> confidence]
  BY <1>1, <1>3, Zenon
<1>5. Decide(f, account, Config.active).signal # 0 /\ f \in Features
  BY <1>1, <1>2, <1>3
<1>6. Offered(q) /\ Valued(account) /\ f.atr \in Nat /\ confidence \in Int /\ confidence <= Certain
  <2>1. Offered(q)
    BY QuotesAssumption DEF Offered
  <2>2. Valued(account)
    BY <1>3, AccountValued
  <2>3. f.atr \in Nat
    BY <1>5, FeaturesAssumption
  <2>4. QED
    BY <1>3, <1>5, <2>1, <2>2, <2>3, DecideConfidence
<1>7. proposal'.ticket = t /\ proposal'.quote = q /\ proposal'.account = account
  BY <1>4
<1>8. LET notional == t.amount * AtLeast(q.price, t.limit)
          worst    == WorstPrice(q.levels, t.amount)
      IN  /\ t.amount % q.rule.step = 0 /\ t.amount >= q.rule.min_amount
          /\ t.amount * t.limit >= q.rule.min_notional
          /\ 100 * notional <= account.equity * Config.notional_fraction
          /\ 100 * (notional + account.committed) <= account.equity * Config.gross_fraction
          /\ notional <= account.available
          /\ worst > 0 /\ q.side * worst <= q.side * t.limit
          /\ notional * (t.exits.stop + 2 * Config.fee) <= 50 * account.trade_budget * Certain
          /\ t.exits.profit >= account.cost_multiple * (Apart(worst, q.price) + 2 * q.fee)
  <2>1. t = Ticket(q, account, f, confidence, Config) /\ t # NoTicket /\ Config.scalp \in BOOLEAN
    BY <1>3, <1>4, ConfigAssumption, Zenon
  <2>2. QED
    BY <1>6, <2>1, TicketBounds, ZenonT(60)
<1>9. QED
  BY <1>7, <1>8, Zenon DEF TicketSound

\* What an options tick goes on with.
TickData == tick.data.signal # 0 => tick.data.features \in Features

\* A proposal keeps the caps at the price it may be executed at, for every
\* account, book, rule of the venue and decision.
THEOREM TicketsKept == Spec => []TicketSound
<1>1. Init => TickData /\ TicketSound
  BY DEF Init, TickData, NoTick, NoData, TicketSound
<1>2. IInv /\ TickData /\ TicketSound /\ [Next]_vars => TickData' /\ TicketSound'
  <2> SUFFICES ASSUME IInv, TickData, TicketSound, [Next]_vars
               PROVE  TickData' /\ TicketSound'
    OBVIOUS
  <2>1. ASSUME NEW p \in Profiles, Turn(p)
        PROVE  TickData' /\ TicketSound'
    <3>1. PICK data \in Readings : Propose(p, data, reserved)
      BY <2>1 DEF Turn, Readings
    <3>2. CASE Create(p, data, reserved)
      BY <2>1, <3>2, ReadingsFeatures, CreateSound DEF Turn, TickData
    <3>3. CASE Stop(p, data, reserved)
      BY <2>1, <3>3 DEF Turn, Stop, TickData, TicketSound
    <3>4. QED
      BY <3>1, <3>2, <3>3 DEF Propose
  <2>2. CASE BeginTick
    BY <2>2, ReadingsFeatures DEF BeginTick, TickData, TicketSound
  <2>3. CASE EndTick
    <3>1. TickData'
      BY <2>3 DEF EndTick, TickData, NoTick, NoData
    <3>2. TicketSound'
      BY <2>3, CreateSound DEF EndTick, Propose, Stop, TickData, TicketSound
    <3>3. QED
      BY <3>1, <3>2
  <2>4. CASE UNCHANGED tick /\ proposal' = NoProposal
    BY <2>4 DEF TickData, TicketSound
  <2>5. CASE UNCHANGED <<tick, proposal>>
    BY <2>5 DEF TickData, TicketSound
  <2>6. CASE Restart
    BY <2>6 DEF Restart, TickData, TicketSound, NoTick, NoData
  <2>7. QED
    BY <2>1, <2>2, <2>3, <2>4, <2>5, <2>6
    DEF Next, vars, book, Executors, Spawn, Send, Arrive, Refuse, Fill, Learn, Withdraw, Abandon, External,
        Surface, Execute, Admit, Settle, Service, Refresh, SwitchOff, Advance
<1>3. QED
  BY <1>1, <1>2, Inductive, PTL DEF Spec
=============================================================================
