----------------------------- MODULE AccountCache -----------------------------
(***************************************************************************)
(* The account snapshot that src/execution/derive_hb.py keeps on the       *)
(* connector: filled by one authenticated request at a time, and emptied   *)
(* by whatever may have changed the account.                               *)
(*                                                                         *)
(* The coroutines of one event loop interleave at their awaits: before the *)
(* lock, while the request is out, while the rows are mapped, and between  *)
(* the end of a refresh and its caller (wait_for).  A snapshot is the      *)
(* number of changes the venue had made to the account when it answered.   *)
(* The connector's generation is compared for equality only, so it is kept *)
(* as the set of refreshes whose generation it still is.                   *)
(***************************************************************************)
EXTENDS Integers

CONSTANTS
  Callers,     \* coroutines that refresh: the poll, the stream, the RFQ slots
  Nobody,      \* the holder of a lock that is free
  MaxChanges,  \* bound: changes of the account at the venue
  MaxOrders    \* bound: orders sent

ASSUME CacheAssumption ==
  Nobody \notin Callers /\ MaxChanges \in Nat /\ MaxOrders \in Nat

VARIABLES
  venue,    \* changes made to the account so far
  sent,     \* orders ever sent
  inbox,    \* stream messages on their way
  cache,    \* _flyby_account_state
  current,  \* refreshes whose generation is _flyby_account_generation
  lock,     \* who holds _flyby_account_lock
  task,     \* the coroutines
  answer,   \* what each caller was answered last
  floor     \* history: `venue` at the last invalidation

cacheVars == <<venue, sent, inbox, cache, current, lock, task, answer, floor>>

-----------------------------------------------------------------------------
Unknown  == -1
Versions == 0 .. MaxChanges

\* begun: `venue` when the caller asked.
Task == [pc : {"idle", "waiting", "asking", "answered", "returning"},
         got : Versions \cup {Unknown}, begun : Versions]
Idle == [pc |-> "idle", got |-> Unknown, begun |-> 0]

Becomes(c, pc) == task' = [task EXCEPT ![c].pc = pc]

Started(c) == task' = [task EXCEPT ![c] = [pc |-> "waiting", got |-> Unknown, begun |-> venue]]

\* Mutant: only the stream's messages start a new generation.
InvalidateKeeping == cache' = Unknown /\ current' = current /\ floor' = venue

\* invalidate_account: nobody's generation is the connector's any more.
Invalidate == cache' = Unknown /\ current' = {} /\ floor' = venue

-----------------------------------------------------------------------------
(* update_balances *)

\* Mutant: a snapshot that is there is good enough.
CallCached(c) ==
  /\ task[c].pc = "idle"
  /\ task' = [task EXCEPT ![c] =
       [pc |-> IF cache = Unknown THEN "waiting" ELSE "returning", got |-> Unknown, begun |-> venue]]
  /\ UNCHANGED <<venue, sent, inbox, cache, current, lock, answer, floor>>

Call(c) ==
  /\ task[c].pc = "idle" /\ Started(c)
  /\ UNCHANGED <<venue, sent, inbox, cache, current, lock, answer, floor>>

\* Under the lock a refresh starts a generation of its own, and asks.
Acquire(c) ==
  /\ task[c].pc = "waiting" /\ lock = Nobody
  /\ lock' = c /\ Becomes(c, "asking")
  /\ cache' = Unknown /\ current' = {c} /\ floor' = venue
  /\ UNCHANGED <<venue, sent, inbox, answer>>

\* Mutant: the generation is not looked at again.
CommitAnyhow(c) ==
  /\ task[c].pc = "answered"
  /\ cache' = task[c].got /\ lock' = Nobody /\ Becomes(c, "returning")
  /\ UNCHANGED <<venue, sent, inbox, current, answer, floor>>

Commit(c) ==
  /\ task[c].pc = "answered" /\ c \in current
  /\ cache' = task[c].got /\ lock' = Nobody /\ Becomes(c, "returning")
  /\ UNCHANGED <<venue, sent, inbox, current, answer, floor>>

\* Mutant: the lock outlives a refresh that failed.
FailLocked(c) ==
  /\ task[c].pc \in {"waiting", "asking", "answered"} /\ Becomes(c, "idle")
  /\ UNCHANGED <<venue, sent, inbox, cache, current, lock, answer, floor>>

\* An error of the venue, an invalid row, a changed generation, a timeout.
Fail(c) ==
  /\ task[c].pc \in {"waiting", "asking", "answered"} /\ Becomes(c, "idle")
  /\ lock' = IF lock = c THEN Nobody ELSE lock
  /\ UNCHANGED <<venue, sent, inbox, cache, current, answer, floor>>

\* DeriveRFQTransport.account reads the state when its refresh is over.
Return(c) ==
  /\ task[c].pc = "returning" /\ Becomes(c, "idle")
  /\ answer' = [answer EXCEPT ![c] = [value |-> cache, begun |-> task[c].begun]]
  /\ UNCHANGED <<venue, sent, inbox, cache, current, lock, floor>>

-----------------------------------------------------------------------------
(* What invalidates *)

\* place_order and submit: the cache goes before the request does.
SendOrder ==
  /\ sent < MaxOrders
  /\ sent' = sent + 1 /\ Invalidate
  /\ UNCHANGED <<venue, inbox, lock, task, answer>>

\* A collateral delta of the stream.
ProcessBalance ==
  /\ inbox > 0 /\ inbox' = inbox - 1 /\ Invalidate
  /\ UNCHANGED <<venue, sent, lock, task, answer>>

\* A position delta: it invalidates at once and then waits for the lock.
ProcessPositions(c) ==
  /\ inbox > 0 /\ inbox' = inbox - 1
  /\ task[c].pc = "idle" /\ Started(c) /\ Invalidate
  /\ UNCHANGED <<venue, sent, lock, answer>>

-----------------------------------------------------------------------------
(* The venue *)

Serve(c) ==
  /\ task[c].pc = "asking"
  /\ task' = [task EXCEPT ![c] = [pc |-> "answered", got |-> venue, begun |-> @.begun]]
  /\ UNCHANGED <<venue, sent, inbox, cache, current, lock, answer, floor>>

\* An order is executed, or the account changes by itself; the message about
\* it may be lost.
Change ==
  /\ venue < MaxChanges /\ venue' = venue + 1
  /\ inbox' \in {inbox, inbox + 1}
  /\ UNCHANGED <<sent, cache, current, lock, task, answer, floor>>

-----------------------------------------------------------------------------
CacheInit ==
  /\ venue = 0 /\ sent = 0 /\ inbox = 0
  /\ cache = Unknown /\ current = {} /\ lock = Nobody /\ floor = 0
  /\ task = [c \in Callers |-> Idle]
  /\ answer = [c \in Callers |-> [value |-> Unknown, begun |-> 0]]

Refresh(c) == Call(c) \/ Acquire(c) \/ Commit(c) \/ Fail(c) \/ Return(c) \/ Serve(c)

CacheNext ==
  \/ SendOrder \/ ProcessBalance \/ Change
  \/ \E c \in Callers : Refresh(c) \/ ProcessPositions(c)

CacheSpec == CacheInit /\ [][CacheNext]_cacheVars

\* Every caller polls again and again, coroutines are scheduled, and a request
\* that is made again and again is answered before it times out.
Fairness ==
  \A c \in Callers :
    /\ WF_cacheVars(Call(c)) /\ SF_cacheVars(Acquire(c)) /\ WF_cacheVars(Return(c))
    /\ SF_cacheVars(Serve(c)) /\ SF_cacheVars(Commit(c))
    /\ WF_cacheVars(task[c].pc \in {"asking", "answered"} /\ Fail(c))

FairSpec == CacheSpec /\ Fairness

-----------------------------------------------------------------------------
(* Properties *)

CacheTypeOK ==
  /\ venue \in Versions /\ sent \in 0 .. MaxOrders /\ inbox \in Nat
  /\ cache \in Versions \cup {Unknown} /\ current \subseteq Callers
  /\ lock \in Callers \cup {Nobody}
  /\ task \in [Callers -> Task]
  /\ answer \in [Callers -> [value : Versions \cup {Unknown}, begun : Versions]]
  /\ floor \in Versions

\* Nobody but the holder of the lock has a request out, and the snapshot in the
\* cache has been there since the lock was last free.
Exclusive ==
  \A c \in Callers : task[c].pc \in {"asking", "answered"} <=> lock = c

Holding == lock # Nobody => cache = Unknown

\* A refresh that may still commit holds nothing older than the last
\* invalidation, and one that has committed began before it.
Tight ==
  /\ floor <= venue
  /\ \A c \in Callers :
       /\ task[c].begun <= venue
       /\ task[c].pc = "answered" /\ c \in current => task[c].got # Unknown /\ floor <= task[c].got
       /\ task[c].pc = "answered" => task[c].got # Unknown /\ task[c].got <= venue
       /\ task[c].pc \in {"asking", "answered", "returning"} => task[c].begun <= floor

\* A snapshot never outlives an order, a fill or a transfer the bot knows of:
\* what is in the cache was taken after the last of them, however the refresh
\* and the event interleave.
CacheFresh == cache # Unknown => floor <= cache

CacheIInv == CacheTypeOK /\ Exclusive /\ Holding /\ Tight /\ CacheFresh

\* Whoever asks for the account gets nothing, or a snapshot taken after he
\* asked, another caller's refresh and all.
AnswerFresh ==
  \A c \in Callers : answer[c].value # Unknown => answer[c].begun <= answer[c].value

\* "Next full poll restores capacity": an invalidated account is known again,
\* however refreshes fail and overtake one another.
Restored == (cache = Unknown) ~> (cache # Unknown)
=============================================================================
