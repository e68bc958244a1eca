---------------------------- MODULE SnapshotProofs ----------------------------
(***************************************************************************)
(* The two snapshots that one part writes and others act on: the state the *)
(* runtime publishes to its overseers, with the receipts of what they      *)
(* asked, and the account that the connector keeps.                        *)
(*                                                                         *)
(* Receipts persist, numbers are fresh, leases are sound and a damaged     *)
(* directory stays as it is, whatever the bounds of the mailbox, its       *)
(* clock and its publications, and however many requests there may be.     *)
(* The account is never served older than what invalidated it, for any     *)
(* number of callers, orders and changes.                                  *)
(***************************************************************************)
EXTENDS RuntimeBridge, AccountCache, FiniteSetTheorems, TLAPS

-----------------------------------------------------------------------------
(* The runtime: the inductive invariant *)

\* What TypeOK leaves open: the history, and that receipts can be counted.
HistoryTyped ==
  /\ IsFiniteSet(Recorded)
  /\ known \in [Ids -> Request \cup {None}]
  /\ newest \in [request : Request \cup {None}, at : Times, session : Session]

\* Nothing was ever published, and nothing submitted.
Blank == snapshot.sequence = 0 /\ \A id \in Ids : known[id] = None

\* A first publication starts from nothing, and its number is that of its event.
Publishing ==
  /\ present = {} \/ pub.pc \in {"requests", "events"} => Blank
  /\ pub.pc = "marker" => present = {}
  /\ pub.pc = "snapshot" => pub.state.sequence <= LastEvent
  /\ pub.pc # "idle" => pub.state.session = pub.session

\* Sessions only grow; the lease is the last request queued, has a receipt, and
\* was made in no later session and at no later time than it was queued.
Lease ==
  /\ snapshot.session <= pub.session /\ newest.session <= pub.session
  /\ active # None => /\ active = newest.request
                      /\ receipts[active.id] # NoReceipt
                      /\ active.session <= newest.session /\ active.issued <= newest.at

Kept == \A id \in Ids : known[id] # None => receipts[id].digest = known[id]

\* Any two numbers of the tail are as far apart as their places.
Counted(s) == \A i, j \in 1 .. Len(s) : s[j] = s[i] + j - i

IInv ==
  /\ TypeOK /\ HistoryTyped /\ Publishing /\ Lease /\ Kept
  /\ Counted(events) /\ snapshot.sequence <= LastEvent /\ ~reader.missed

LEMMA Numbers == \A k \in Sequence : k \in Nat
<1> QED BY BridgeAssumption DEF Sequence

LEMMA NoStateTyped == NoState \in State
<1> QED BY BridgeAssumption DEF State, NoState, Times, Session, Sequence

LEMMA InitInv == Init => IInv
<1> SUFFICES ASSUME Init PROVE IInv
  OBVIOUS
<1>1. Recorded = {}
  BY DEF Init, Recorded
<1>2. IsFiniteSet(Recorded) /\ Cardinality(Recorded) = 0
  BY <1>1, FS_EmptySet
<1>3. NoState \in State /\ 0 \in Times /\ {0, 1} \subseteq Session /\ 0 \in Sequence
  BY NoStateTyped, BridgeAssumption DEF Times, Session, Sequence
<1>4. TypeOK
  <2>1. /\ present \subseteq Files /\ DOMAIN receipts = Ids /\ Cardinality(Recorded) <= MaxReceipts
        /\ \A id \in Recorded :
             receipts[id] \in [digest : Request, status : {"queued", "validated", "superseded"}]
    BY <1>1, <1>2, BridgeAssumption DEF Init
  <2>2. events \in Seq(Sequence) /\ Len(events) <= MaxEvents
    BY BridgeAssumption DEF Init
  <2> QED BY <1>3, <2>1, <2>2 DEF Init, TypeOK
<1>5. HistoryTyped /\ Publishing /\ Lease /\ Kept
  BY <1>2, <1>3 DEF Init, HistoryTyped, Publishing, Blank, Lease, Kept, NoState
<1>6. Counted(events) /\ snapshot.sequence <= LastEvent /\ ~reader.missed
  BY DEF Init, Counted, LastEvent, NoState
<1> QED BY <1>4, <1>5, <1>6 DEF IInv

-----------------------------------------------------------------------------
(* A publication *)

LEMMA PublishInv == ASSUME IInv, Publish PROVE IInv'
<1> USE DEF IInv
<1>1. PICK now \in Recent, accepts \in SUBSET Patches :
        pub' = [pub EXCEPT !.pc = IF Bootstrap THEN "marker" ELSE "append",
                           !.state = [session |-> pub.session, sequence |-> 0,
                                      time |-> now, accepts |-> accepts]]
  BY DEF Publish
<1>2. [session |-> pub.session, sequence |-> 0, time |-> now, accepts |-> accepts] \in State
  <2>1. pub.session \in Session /\ now \in Times
    BY BridgeAssumption DEF Recent, Times, TypeOK
  <2>2. 0 \in Sequence
    BY BridgeAssumption DEF Sequence
  <2> QED BY <2>1, <2>2 DEF State
<1>3. pub' \in [pc : {"marker", "append"}, session : {pub.session}, state : State]
      /\ pub'.state.session = pub.session
  BY <1>1, <1>2 DEF TypeOK
<1>4. TypeOK' /\ HistoryTyped'
  BY <1>3 DEF Publish, files, TypeOK, HistoryTyped, Recorded
<1>5. Publishing'
  BY <1>1, <1>3 DEF Publish, files, Publishing, Blank, Bootstrap, TypeOK
<1>6. Lease' /\ Kept'
  BY <1>3 DEF Publish, files, Lease, Kept
<1> QED BY <1>4, <1>5, <1>6 DEF Publish, files, LastEvent

LEMMA WriteMarkerInv == ASSUME IInv, WriteMarker PROVE IInv'
<1> USE DEF IInv
<1>1. TypeOK' /\ HistoryTyped'
  BY DEF WriteMarker, TypeOK, HistoryTyped, Recorded, Files
<1>2. Publishing' /\ Lease' /\ Kept'
  BY DEF WriteMarker, TypeOK, Publishing, Blank, LastEvent, Lease, Kept
<1> QED BY <1>1, <1>2 DEF WriteMarker, LastEvent

LEMMA WriteRequestsInv == ASSUME IInv, WriteRequests PROVE IInv'
<1> USE DEF IInv
<1>1. Recorded' = {}
  BY DEF WriteRequests, Recorded
<1>2. IsFiniteSet(Recorded') /\ Cardinality(Recorded') = 0
  BY <1>1, FS_EmptySet
<1>3. TypeOK' /\ HistoryTyped'
  BY <1>1, <1>2, BridgeAssumption, SMTT(30) DEF WriteRequests, TypeOK, HistoryTyped, Files
<1>4. Publishing' /\ Lease' /\ Kept'
  BY DEF WriteRequests, TypeOK, Publishing, Blank, LastEvent, Lease, Kept
<1> QED BY <1>3, <1>4 DEF WriteRequests, LastEvent

LEMMA WriteEventsInv == ASSUME IInv, WriteEvents PROVE IInv'
<1> USE DEF IInv
<1>1. TypeOK' /\ HistoryTyped'
  BY BridgeAssumption DEF WriteEvents, TypeOK, HistoryTyped, Recorded, Files
<1>2. Publishing' /\ Lease' /\ Kept'
  BY DEF WriteEvents, TypeOK, Publishing, Blank, LastEvent, Lease, Kept
<1>3. Counted(events') /\ snapshot'.sequence <= LastEvent'
  BY DEF WriteEvents, Publishing, Blank, Counted, LastEvent
<1> QED BY <1>1, <1>2, <1>3 DEF WriteEvents

\* The next number goes on counting, with and without the oldest one dropped.
LEMMA Appended ==
  ASSUME TypeOK, Counted(events), snapshot.sequence <= LastEvent, NextSequence <= MaxSequence
  PROVE  LET s == Newest(Append(events, NextSequence))
         IN  /\ s \in Seq(Sequence) /\ Len(s) <= MaxEvents /\ s # <<>>
             /\ Counted(s) /\ s[Len(s)] = NextSequence
             /\ NextSequence > snapshot.sequence /\ NextSequence \in Sequence
<1> DEFINE n == Len(events)
           t == Append(events, NextSequence)
<1>1. n \in Nat /\ events \in Seq(Sequence) /\ n <= MaxEvents /\ MaxEvents >= 1
  BY BridgeAssumption DEF TypeOK
<1>2. snapshot.sequence \in Sequence
  BY DEF TypeOK, State
<1>3. LastEvent \in Nat /\ NextSequence = LastEvent + 1
  <2>1. CASE events = <<>>
    BY <2>1, <1>2 DEF LastEvent, NextSequence, Sequence
  <2>2. CASE events # <<>>
    <3>1. n \in 1 .. Len(events)
      BY <2>2, <1>1
    <3>2. events[n] \in Nat
      BY <3>1, <1>1, Numbers
    <3> QED BY <2>2, <3>2, <1>2, Numbers DEF LastEvent, NextSequence
  <2> QED BY <2>1, <2>2
<1>4. NextSequence \in Sequence
  BY <1>3, BridgeAssumption DEF Sequence
<1> HIDE DEF n
<1>5. /\ t \in Seq(Sequence) /\ Len(t) = n + 1 /\ t[n + 1] = NextSequence
      /\ \A i \in 1 .. n : t[i] = events[i] /\ events[i] \in Int
  <2>1. /\ t \in Seq(Sequence) /\ Len(t) = n + 1 /\ t[n + 1] = NextSequence
        /\ \A i \in 1 .. n : t[i] = events[i] /\ events[i] \in Sequence
    BY <1>1, <1>4 DEF n
  <2> HIDE DEF t
  <2>2. \A i \in 1 .. n : events[i] \in Int
    BY <2>1, Numbers
  <2> QED BY <2>1, <2>2
<1>6. \A i \in 1 .. n : events[i] = LastEvent + i - n
  BY <1>1, <1>5 DEF Counted, LastEvent, n
<1>7. \A i \in 1 .. n + 1 : t[i] = LastEvent + i - n
  BY <1>1, <1>3, <1>5, <1>6
<1> HIDE DEF t
<1>8. CASE n + 1 <= MaxEvents
  <2>1. Newest(t) = t
    BY <1>1, <1>5, <1>8, BridgeAssumption DEF Newest
  <2>2. Counted(t)
    BY <1>1, <1>3, <1>5, <1>7 DEF Counted
  <2>3. NextSequence > snapshot.sequence
    BY <1>2, <1>3, Numbers
  <2> QED BY <2>1, <2>2, <2>3, <1>1, <1>4, <1>5, <1>8 DEF t
<1>9. CASE n + 1 > MaxEvents
  <2>1. n = MaxEvents /\ Newest(t) = Tail(t)
    BY <1>1, <1>5, <1>9, BridgeAssumption DEF Newest
  <2>2. /\ Tail(t) \in Seq(Sequence) /\ Len(Tail(t)) = n
        /\ \A i \in 1 .. n : Tail(t)[i] = t[i + 1]
    BY <1>1, <1>5
  <2>3. \A i \in 1 .. n : Tail(t)[i] = LastEvent + i + 1 - n
    BY <1>1, <1>3, <1>7, <2>2
  <2>4. Counted(Tail(t)) /\ Tail(t)[n] = NextSequence
    BY <1>1, <1>3, <2>1, <2>2, <2>3 DEF Counted
  <2>5. NextSequence > snapshot.sequence
    BY <1>2, <1>3, Numbers
  <2>6. Len(Tail(t)) <= MaxEvents /\ Len(Tail(t)) # 0
    BY <1>1, <2>1, <2>2
  <2>7. Tail(t) # <<>>
    <3>1. Len(<<>>) = 0
      OBVIOUS
    <3> QED BY <2>6, <3>1, Zenon
  <2> QED BY <2>1, <2>2, <2>4, <2>5, <2>6, <2>7, <1>4 DEF t
<1> QED BY <1>1, <1>8, <1>9, BridgeAssumption

LEMMA AppendEventInv == ASSUME IInv, AppendEvent PROVE IInv'
<1> USE DEF IInv
<1> DEFINE s == Newest(Append(events, NextSequence))
<1>1. /\ s \in Seq(Sequence) /\ Len(s) <= MaxEvents /\ s # <<>>
      /\ Counted(s) /\ s[Len(s)] = NextSequence
      /\ NextSequence > snapshot.sequence /\ NextSequence \in Sequence
  BY Appended DEF AppendEvent
<1>2. events' = s
  BY DEF AppendEvent
<1> HIDE DEF s
<1>3. LastEvent' = NextSequence
  BY <1>1, <1>2 DEF LastEvent
<1>4. /\ pub' = [pub EXCEPT !.pc = "snapshot", !.state.sequence = NextSequence]
      /\ pub' \in [pc : {"snapshot"}, session : {pub.session}, state : State]
      /\ pub'.state.session = pub.state.session /\ pub'.state.sequence = NextSequence
  BY <1>1 DEF AppendEvent, TypeOK, State
<1>5. TypeOK' /\ HistoryTyped'
  BY <1>1, <1>2, <1>4 DEF AppendEvent, TypeOK, HistoryTyped, Recorded
<1>6. Publishing'
  BY <1>1, <1>3, <1>4 DEF AppendEvent, Publishing, Blank, Sequence
<1>7. Lease' /\ Kept'
  BY <1>4 DEF AppendEvent, Lease, Kept
<1>8. Counted(events') /\ snapshot'.sequence <= LastEvent'
  BY <1>1, <1>2, <1>3 DEF AppendEvent, TypeOK, State, Sequence
<1> QED BY <1>5, <1>6, <1>7, <1>8 DEF AppendEvent

LEMMA WriteSnapshotInv == ASSUME IInv, WriteSnapshot PROVE IInv'
<1> USE DEF IInv
<1>1. pub.state \in State /\ pub.state.session = pub.session /\ pub.state.sequence <= LastEvent
  BY DEF WriteSnapshot, TypeOK, Publishing
<1>2. pub' \in [pc : {"published"}, session : {pub.session}, state : {pub.state}]
  BY DEF WriteSnapshot, TypeOK
<1>3. TypeOK' /\ HistoryTyped'
  BY <1>1, <1>2 DEF WriteSnapshot, TypeOK, HistoryTyped, Recorded, Files
<1>4. Publishing' /\ Kept'
  BY <1>1, <1>2 DEF WriteSnapshot, Publishing, Kept
<1>5. Lease'
  BY <1>1, <1>2, BridgeAssumption DEF WriteSnapshot, Lease, TypeOK, Session
<1> QED BY <1>1, <1>3, <1>4, <1>5 DEF WriteSnapshot, LastEvent

LEMMA RestartInv == ASSUME IInv, Restart PROVE IInv'
<1> USE DEF IInv
<1>1. /\ pub.session \in Session /\ pub.session + 1 \in Session /\ NoState \in State
      /\ snapshot.session \in Session
  BY NoStateTyped, BridgeAssumption DEF Restart, TypeOK, Session, State
<1>2. TypeOK' /\ HistoryTyped'
  BY <1>1 DEF Restart, TypeOK, HistoryTyped, Recorded
<1>3. Publishing' /\ Kept'
  BY DEF Restart, Publishing, Blank, Kept
<1>4. Lease'
  BY <1>1, BridgeAssumption DEF Restart, Lease, HistoryTyped, Session
<1> QED BY <1>2, <1>3, <1>4 DEF Restart, LastEvent

-----------------------------------------------------------------------------
(* Requests *)

\* A request that is valid when it is submitted has the session of the snapshot
\* and a time that has come.
LEMMA StampedTyped ==
  ASSUME TypeOK, NEW id \in Ids, NEW session \in Session, NEW basis \in Sequence,
         NEW patch \in Patches, NEW duration \in 1 .. MaxLease, NEW now \in Recent
  PROVE  LET r == Stamped(id, session, basis, patch, duration, now)
         IN  r \in Request /\ r.id = id /\ r.issued <= clock
<1>1. clock \in 0 .. MaxClock /\ now \in 0 .. MaxClock /\ now <= clock
  BY BridgeAssumption DEF TypeOK, Recent, Times
<1>2. now + duration \in 0 .. MaxClock + MaxLease
  BY <1>1, BridgeAssumption
<1> QED BY <1>1, <1>2 DEF Stamped, Request, Times

LEMMA QueueInv ==
  ASSUME IInv, NEW r \in Request, Queue(r), r.session <= pub.session, r.issued <= clock,
         present # {}, pub.pc \in {"idle", "published"},
         UNCHANGED <<present, stray, events, snapshot, pub, used, reader, clock>>
  PROVE  IInv'
<1> USE DEF IInv
<1>1. r.id \in Ids
  BY DEF Request
<1>2. /\ receipts' = [id \in Ids |->
           IF id = r.id THEN [digest |-> r, status |-> "queued"]
           ELSE IF active # None /\ id = active.id
                THEN [receipts[id] EXCEPT !.status = "superseded"]
           ELSE receipts[id]]
      /\ active' = r /\ known' = [known EXCEPT ![r.id] = r]
      /\ newest' = [request |-> r, at |-> clock, session |-> pub.session]
      /\ receipts[r.id] = NoReceipt /\ Cardinality(Recorded) < MaxReceipts
  BY DEF Queue
<1>3. active # None => active.id \in Recorded
  BY DEF Lease, TypeOK, Request, Recorded
<1>4. \A id \in Ids :
        /\ id = r.id => /\ receipts'[id].digest = r
                        /\ receipts'[id] \in [digest : Request, status : {"queued"}]
        /\ id # r.id /\ id \in Recorded =>
             /\ receipts'[id] \in [digest : Request, status : {"queued", "validated", "superseded"}]
             /\ receipts'[id].digest = receipts[id].digest
        /\ id # r.id /\ id \notin Recorded => receipts'[id] = NoReceipt
  BY <1>2, <1>3 DEF TypeOK, Recorded
<1>5. Recorded' = Recorded \cup {r.id}
  BY <1>1, <1>4 DEF Recorded, NoReceipt
<1>6. IsFiniteSet(Recorded') /\ Cardinality(Recorded') <= MaxReceipts
  <2>1. Cardinality(Recorded) \in Nat
    BY FS_CardinalityType DEF HistoryTyped
  <2>2. r.id \notin Recorded
    BY <1>2 DEF Recorded
  <2>3. /\ IsFiniteSet(Recorded \cup {r.id})
        /\ Cardinality(Recorded \cup {r.id}) = Cardinality(Recorded) + 1
    BY <2>2, FS_AddElement DEF HistoryTyped
  <2> QED BY <1>2, <1>5, <2>1, <2>3, BridgeAssumption
<1>7. TypeOK'
  <2>1. \A id \in Recorded' :
          receipts'[id] \in [digest : Request, status : {"queued", "validated", "superseded"}]
    BY <1>1, <1>4, <1>5 DEF Recorded
  <2>2. DOMAIN receipts' = Ids /\ active' \in Request \cup {None}
    BY <1>2
  <2> QED BY <1>6, <2>1, <2>2 DEF TypeOK
<1>8. HistoryTyped'
  BY <1>2, <1>6 DEF TypeOK, HistoryTyped
<1>9. Publishing'
  BY DEF Publishing
<1>10. Lease'
  BY <1>1, <1>2, <1>4, BridgeAssumption DEF Lease, TypeOK, Session, NoReceipt
<1>11. Kept'
  <2> SUFFICES ASSUME NEW id \in Ids, known'[id] # None
               PROVE  receipts'[id].digest = known'[id]
    BY DEF Kept
  <2>1. CASE id = r.id
    BY <2>1, <1>1, <1>2, <1>4 DEF HistoryTyped
  <2>2. CASE id # r.id
    <3>1. known'[id] = known[id]
      BY <2>2, <1>2 DEF HistoryTyped
    <3>2. receipts[id].digest = known[id]
      BY <3>1 DEF Kept
    <3>3. id \in Recorded
      BY <3>1, <3>2 DEF Recorded, NoReceipt
    <3> QED BY <2>2, <3>1, <3>2, <3>3, <1>4
  <2> QED BY <2>1, <2>2
<1> QED BY <1>7, <1>8, <1>9, <1>10, <1>11 DEF LastEvent

LEMMA SubmitInv == ASSUME IInv, Submit PROVE IInv'
<1>1. PICK id \in Ids, session \in Session, basis \in Sequence, patch \in Patches,
           duration \in 1 .. MaxLease, now \in Recent :
        LET r == Stamped(id, session, basis, patch, duration, now)
        IN  Valid(r, snapshot, now, FALSE) /\ (Queue(r) \/ Repeat(r) \/ Conflict(r))
  BY DEF Submit
<1> DEFINE r == Stamped(id, session, basis, patch, duration, now)
<1>2. r \in Request /\ r.issued <= clock
  BY StampedTyped DEF IInv
<1>3. Valid(r, snapshot, now, FALSE) /\ (Queue(r) \/ Repeat(r) \/ Conflict(r))
  BY <1>1
<1> HIDE DEF r
<1>4. r.session <= pub.session
  BY <1>3 DEF Valid, IInv, Lease
<1>5. /\ present # {} /\ pub.pc \in {"idle", "published"}
      /\ UNCHANGED <<present, stray, events, snapshot, pub, used, reader, clock>>
  BY DEF Submit, Readable, Unlocked
<1>6. CASE Queue(r)
  BY <1>2, <1>4, <1>5, <1>6, QueueInv
<1>7. CASE Repeat(r) \/ Conflict(r)
  <2>1. UNCHANGED <<receipts, active, known, newest>>
    BY <1>7 DEF Repeat, Conflict
  <2>2. TypeOK' /\ HistoryTyped'
    BY <1>5, <2>1 DEF IInv, TypeOK, HistoryTyped, Recorded
  <2>3. Publishing' /\ Lease' /\ Kept'
    BY <1>5, <2>1 DEF IInv, Publishing, Blank, LastEvent, Lease, Kept
  <2> QED BY <1>5, <2>1, <2>2, <2>3 DEF IInv, LastEvent
<1> QED BY <1>3, <1>6, <1>7

LEMMA ConsumeInv == ASSUME IInv, Consume PROVE IInv'
<1> USE DEF IInv
<1>1. /\ active \in Request /\ active.id \in Ids /\ receipts[active.id] # NoReceipt
      /\ receipts' = [receipts EXCEPT ![active.id].status = "validated"]
  BY DEF Consume, TypeOK, Lease, Request
<1>2. /\ DOMAIN receipts' = Ids
      /\ \A id \in Ids \ {active.id} : receipts'[id] = receipts[id]
      /\ receipts'[active.id] \in [digest : Request, status : {"validated"}]
      /\ receipts'[active.id].digest = receipts[active.id].digest
  BY <1>1 DEF TypeOK, Recorded
<1>3. Recorded' = Recorded
  BY <1>1, <1>2 DEF Recorded, NoReceipt
<1>4. pub' \in [pc : {"idle"}, session : {pub.session}, state : State]
  BY NoStateTyped DEF Consume, TypeOK
<1>5. TypeOK' /\ HistoryTyped'
  BY <1>1, <1>2, <1>3, <1>4 DEF Consume, TypeOK, HistoryTyped
<1>6. Publishing'
  BY <1>4 DEF Consume, Publishing, Blank
<1>7. Lease' /\ Kept'
  BY <1>1, <1>2, <1>4 DEF Consume, Lease, Kept, NoReceipt
<1> QED BY <1>5, <1>6, <1>7 DEF Consume, LastEvent

-----------------------------------------------------------------------------
(* The follower, the clock and the directory *)

LEMMA FollowInv == ASSUME IInv, Follow PROVE IInv'
<1> USE DEF IInv
<1>1. PICK last \in Unseen :
        reader' = [cursor |-> events[last],
                   missed |-> \/ reader.missed
                              \/ ~Gap /\ reader.cursor + 1 \notin {events[i] : i \in Unseen}]
  BY DEF Follow
<1>2. /\ last \in 1 .. Len(events) /\ events[last] > reader.cursor
      /\ \A i \in 1 .. Len(events) : events[i] \in Sequence
      /\ reader.cursor \in Sequence /\ Len(events) \in Nat
  BY <1>1 DEF Unseen, TypeOK
<1>3. ~Gap => reader.cursor + 1 \in {events[i] : i \in Unseen}
  <2> SUFFICES ASSUME ~Gap PROVE reader.cursor + 1 \in {events[i] : i \in Unseen}
    OBVIOUS
  <2>1. events[1] - 1 <= reader.cursor
    BY <1>2 DEF Gap, Sequence
  <2> DEFINE first == reader.cursor + 2 - events[1]
  <2>2. events[1] \in Nat /\ events[last] \in Nat /\ reader.cursor \in Nat
        /\ events[last] = events[1] + last - 1
    <3>1. 1 \in 1 .. Len(events) /\ last \in 1 .. Len(events)
      BY <1>2
    <3>2. events[1] \in Sequence /\ events[last] \in Sequence
      BY <1>2, <3>1
    <3>3. events[last] = events[1] + last - 1
      BY <3>1 DEF Counted
    <3> QED BY <1>2, <3>2, <3>3, Numbers
  <2>3. first \in 1 .. Len(events)
    BY <1>2, <2>1, <2>2
  <2>4. events[first] = reader.cursor + 1
    <3>1. events[first] = events[1] + first - 1
      BY <1>2, <2>3, SMTT(30) DEF Counted
    <3> QED BY <2>2, <3>1
  <2>5. first \in Unseen
    BY <1>2, <2>2, <2>3, <2>4 DEF Unseen, TypeOK
  <2> QED BY <2>4, <2>5
<1>4. reader' = [cursor |-> events[last], missed |-> FALSE]
  BY <1>1, <1>3
<1>5. TypeOK' /\ HistoryTyped'
  BY <1>2, <1>4 DEF Follow, files, TypeOK, HistoryTyped, Recorded
<1>6. Publishing' /\ Lease' /\ Kept'
  BY DEF Follow, files, Publishing, Blank, LastEvent, Lease, Kept
<1> QED BY <1>4, <1>5, <1>6 DEF Follow, files, LastEvent

LEMMA TickInv == ASSUME IInv, Tick PROVE IInv'
<1> USE DEF IInv
<1>1. TypeOK' /\ HistoryTyped'
  BY BridgeAssumption DEF Tick, files, TypeOK, HistoryTyped, Recorded, Times
<1>2. Publishing' /\ Lease' /\ Kept'
  BY DEF Tick, files, Publishing, Blank, LastEvent, Lease, Kept
<1> QED BY <1>1, <1>2 DEF Tick, files, LastEvent

LEMMA LoseFileInv == ASSUME IInv, LoseFile PROVE IInv'
<1> USE DEF IInv
<1>1. present' \subseteq present /\ present' # {} /\ pub.pc \notin {"marker", "requests", "events"}
  BY DEF LoseFile, Files, Unlocked
<1>2. TypeOK' /\ HistoryTyped'
  BY <1>1 DEF LoseFile, TypeOK, HistoryTyped, Recorded
<1>3. Publishing' /\ Lease' /\ Kept'
  BY <1>1 DEF LoseFile, Publishing, Blank, LastEvent, Lease, Kept
<1> QED BY <1>2, <1>3 DEF LoseFile, LastEvent

LEMMA StutterInv == ASSUME IInv, UNCHANGED vars PROVE IInv'
<1>1. TypeOK' /\ HistoryTyped'
  BY DEF IInv, vars, files, TypeOK, HistoryTyped, Recorded
<1>2. Publishing' /\ Lease' /\ Kept'
  BY DEF IInv, vars, files, Publishing, Blank, LastEvent, Lease, Kept
<1> QED BY <1>1, <1>2 DEF IInv, vars, files, LastEvent

LEMMA NextInv == IInv /\ [Next]_vars => IInv'
<1> SUFFICES ASSUME IInv, [Next]_vars PROVE IInv'
  OBVIOUS
<1>1. CASE Controller
  BY <1>1, PublishInv, WriteMarkerInv, WriteRequestsInv, WriteEventsInv, AppendEventInv,
     WriteSnapshotInv, ConsumeInv, RestartInv DEF Controller
<1>2. CASE Submit \/ Follow \/ Tick \/ LoseFile
  BY <1>2, SubmitInv, FollowInv, TickInv, LoseFileInv
<1>3. CASE UNCHANGED vars
  BY <1>3, StutterInv
<1> QED BY <1>1, <1>2, <1>3 DEF Next

-----------------------------------------------------------------------------
(* The theorems *)

\* The inductive invariant holds in every reachable state.
THEOREM Inductive == Spec => []IInv
<1> QED BY InitInv, NextInv, PTL DEF Spec

\* No receipt is lost or replaced while there is a mailbox, and the files keep
\* to their bounds: submit() counts the receipts before it adds one, publish()
\* cuts the tail.
THEOREM Receipts == Spec => []ReceiptsPersist
<1>1. IInv => ReceiptsPersist
  BY DEF IInv, Kept, ReceiptsPersist
<1> QED BY <1>1, Inductive, PTL

\* Publications are counted without repetition or hole, and a follower is told
\* of what it missed, wherever a publication was cut.
THEOREM Fresh == Spec => []SequenceFresh
<1>1. ASSUME IInv, NEW i \in 1 .. Len(events) - 1 PROVE events[i + 1] = events[i] + 1
  <2>1. Len(events) \in Nat /\ i \in 1 .. Len(events) /\ i + 1 \in 1 .. Len(events)
    BY <1>1 DEF IInv, TypeOK
  <2>2. events[i] \in Sequence /\ events[i + 1] = events[i] + (i + 1) - i
    BY <1>1, <2>1 DEF IInv, TypeOK, Counted
  <2> QED BY <2>1, <2>2, Numbers
<1>2. IInv => SequenceFresh
  BY <1>1 DEF IInv, SequenceFresh
<1> QED BY <1>2, Inductive, PTL

\* What consume() hands to the controller is the last request queued, of the
\* controller's own session and no older than a lease.
THEOREM Leases == Spec => LeaseSound
<1> DEFINE Used ==
      used' \notin {used, None} =>
        used' = newest.request /\ newest.session = pub.session /\ clock - newest.at <= MaxLease
<1>1. ASSUME IInv, [Next]_vars PROVE Used
  <2> USE <1>1
  <2>1. CASE Consume
    <3>1. active = newest.request /\ active.session <= newest.session
          /\ newest.session <= pub.session /\ active.issued <= newest.at /\ active \in Request
      BY <2>1 DEF Consume, IInv, Lease, TypeOK
    <3>2. PICK now \in Recent : Valid(active, pub.state, now, TRUE)
      BY <2>1 DEF Consume
    <3>3. active.session = pub.session
      BY <2>1, <3>2 DEF Consume, Valid, IInv, Publishing
    <3>4. newest.session = pub.session
      BY <3>1, <3>3 DEF IInv, TypeOK, HistoryTyped, Session
    <3>5. now < active.expires /\ active.expires <= active.issued + MaxLease /\ clock - 1 <= now
      BY <3>2, BridgeAssumption DEF Valid, Recent, IInv, TypeOK, Times
    <3>6. clock - newest.at <= MaxLease
      BY <3>1, <3>5, BridgeAssumption, SMTT(30) DEF IInv, TypeOK, HistoryTyped, Request, Recent, Times
    <3> QED BY <2>1, <3>1, <3>4, <3>6 DEF Consume
  <2>2. CASE UNCHANGED vars \/ (Next /\ ~Consume)
    BY <2>2 DEF vars, Next, Controller, Publish, WriteMarker, WriteRequests, WriteEvents,
       AppendEvent, WriteSnapshot, Restart, Submit, Follow, Tick, LoseFile
  <2> QED BY <1>1, <2>1, <2>2
<1> QED BY <1>1, Inductive, PTL DEF Spec, LeaseSound

\* An incomplete directory is never completed, nor published into.
THEOREM Damage == Spec => NeverReinitialised
<1> DEFINE Stays == Damaged => Damaged' /\ snapshot' = snapshot /\ events' = events
<1>1. ASSUME IInv, [Next]_vars PROVE Stays
  <2> USE <1>1
  <2> SUFFICES ASSUME Damaged PROVE Damaged' /\ snapshot' = snapshot /\ events' = events
    OBVIOUS
  <2>1. pub.pc \in {"idle", "published"} /\ present # Files /\ ~(present = {} /\ ~stray)
    BY DEF Damaged, Unlocked, Files
  <2>2. ~(\/ Publish \/ WriteMarker \/ WriteRequests \/ WriteEvents \/ AppendEvent
          \/ WriteSnapshot \/ LoseFile)
    BY <2>1 DEF Publish, Bootstrap, Publishable, WriteMarker, WriteRequests, WriteEvents,
       AppendEvent, WriteSnapshot, LoseFile
  <2>3. CASE Restart
    <3>1. Unlocked /\ stray \in BOOLEAN
      BY DEF Damaged, IInv, TypeOK
    <3>2. stray' = stray /\ Unlocked'
      BY <2>3, <3>1 DEF Restart, Unlocked
    <3> QED BY <2>3, <3>2 DEF Restart, Damaged
  <2>4. CASE Consume
    BY <2>4, <2>1 DEF Consume, Damaged, Unlocked, IInv, TypeOK
  <2>5. CASE Submit \/ Follow \/ Tick \/ UNCHANGED vars
    BY <2>5 DEF Submit, Follow, Tick, vars, files, Damaged, Unlocked
  <2> QED BY <1>1, <2>2, <2>3, <2>4, <2>5 DEF Next, Controller
<1> QED BY <1>1, Inductive, PTL DEF Spec, NeverReinitialised

-----------------------------------------------------------------------------
(* The connector: its snapshot of the account *)

USE DEF Versions, Unknown

\* The connector starts without a snapshot and without a refresh.
LEMMA CacheInitInv == CacheInit => CacheIInv
  BY CacheAssumption, SMT
  DEF CacheInit, CacheIInv, CacheTypeOK, Exclusive, Holding, Tight, CacheFresh, Task, Idle

\* Each step of a refresh keeps the invariant.
LEMMA RefreshInv ==
  ASSUME CacheIInv, NEW c \in Callers, Refresh(c)
  PROVE  CacheIInv'
<1> USE CacheAssumption DEF CacheIInv, CacheTypeOK, Exclusive, Holding, Tight, CacheFresh, Task
<1>1. CASE Call(c)
  BY <1>1, SMT DEF Call, Started
<1>2. CASE Acquire(c)
  BY <1>2, SMT DEF Acquire, Becomes
<1>3. CASE Commit(c)
  BY <1>3, SMT DEF Commit, Becomes
<1>4. CASE Fail(c)
  BY <1>4, SMT DEF Fail, Becomes
<1>5. CASE Return(c)
  BY <1>5, SMT DEF Return, Becomes
<1>6. CASE Serve(c)
  <2>1. task' \in [Callers -> Task]
    BY <1>6, SMT DEF Serve
  <2>2. /\ task'[c].pc = "answered"
        /\ task'[c].got = venue
        /\ task'[c].begun = task[c].begun
    BY <1>6, SMT DEF Serve
  <2>3. \A d \in Callers \ {c} : task'[d] = task[d]
    BY <1>6, SMT DEF Serve
  <2>4. task[c].pc = "asking" /\ lock = c /\ UNCHANGED <<venue, sent, inbox, cache, current, lock, answer, floor>>
    BY <1>6, SMT DEF Serve
  <2>5. QED
    BY <2>1, <2>2, <2>3, <2>4, SMT
<1>7. QED
  BY <1>1, <1>2, <1>3, <1>4, <1>5, <1>6, Refresh(c) DEF Refresh

\* So does whatever empties the cache.
LEMMA InvalidateInv ==
  ASSUME CacheIInv, SendOrder \/ ProcessBalance \/ \E c \in Callers : ProcessPositions(c)
  PROVE  CacheIInv'
<1> USE CacheAssumption DEF CacheIInv, CacheTypeOK, Exclusive, Holding, Tight, CacheFresh, Task, Invalidate
<1>1. CASE SendOrder
  BY <1>1, SMT DEF SendOrder
<1>2. CASE ProcessBalance
  BY <1>2, SMT DEF ProcessBalance
<1>3. ASSUME NEW c \in Callers, ProcessPositions(c)
      PROVE  CacheIInv'
  BY <1>3, SMT DEF ProcessPositions, Started
<1>4. QED
  BY <1>1, <1>2, <1>3

\* The account only moves on.
LEMMA ChangeInv ==
  ASSUME CacheIInv, Change
  PROVE  CacheIInv'
  BY CacheAssumption, Change, SMT
  DEF Change, CacheIInv, CacheTypeOK, Exclusive, Holding, Tight, CacheFresh, Task

-----------------------------------------------------------------------------
\* One refresh at a time, and nothing in the cache, or about to be, that is
\* older than the last invalidation.
THEOREM CacheInductive == CacheSpec => []CacheIInv
<1>1. CacheInit => CacheIInv
  BY CacheInitInv
<1>2. CacheIInv /\ [CacheNext]_cacheVars => CacheIInv'
  <2> SUFFICES ASSUME CacheIInv, [CacheNext]_cacheVars
               PROVE  CacheIInv'
    OBVIOUS
  <2>1. CASE CacheNext
    BY <2>1, RefreshInv, InvalidateInv, ChangeInv DEF CacheNext
  <2>2. CASE UNCHANGED cacheVars
    BY <2>2 DEF cacheVars, CacheIInv, CacheTypeOK, Exclusive, Holding, Tight, CacheFresh
  <2>3. QED
    BY <2>1, <2>2
<1>3. QED
  BY <1>1, <1>2, PTL DEF CacheSpec

\* A caller of account() is answered nothing, or what the venue said after he
\* asked.
THEOREM AnswersFresh == CacheSpec => []AnswerFresh
<1>1. CacheInit => AnswerFresh
  BY DEF CacheInit, AnswerFresh
<1>2. CacheIInv /\ AnswerFresh /\ [CacheNext]_cacheVars => AnswerFresh'
  <2> SUFFICES ASSUME CacheIInv, AnswerFresh, [CacheNext]_cacheVars
               PROVE  AnswerFresh'
    OBVIOUS
  <2>1. ASSUME NEW c \in Callers, Return(c)
        PROVE  AnswerFresh'
    BY <2>1, CacheAssumption, SMT
    DEF Return, Becomes, AnswerFresh, CacheIInv, CacheTypeOK, Tight, CacheFresh, Task
  <2>2. CASE UNCHANGED answer
    BY <2>2 DEF AnswerFresh
  <2>3. QED
    BY <2>1, <2>2
    DEF CacheNext, cacheVars, Refresh, Call, Acquire, Commit, Fail, Serve, ProcessPositions,
        SendOrder, ProcessBalance, Change
<1>3. QED
  BY <1>1, <1>2, CacheInductive, PTL DEF CacheSpec
=============================================================================
