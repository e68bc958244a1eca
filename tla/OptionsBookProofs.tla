--------------------------- MODULE OptionsBookProofs ---------------------------
(***************************************************************************)
(* Two slots on one account never take each other's legs for foreign ones, *)
(* and enter one at a time, for every set of instruments and plans, with   *)
(* and without failing batches and foreign trades.                         *)
(***************************************************************************)
EXTENDS OptionsBook, TLAPS

-----------------------------------------------------------------------------
(* The inductive invariant *)

\* A tick has at most two slots to serve, and only the first may be a new entry.
Lined ==
  \/ todo = <<>>
  \/ \E i \in Slots : todo = <<i>>
  \/ \E i, j \in Slots : i # j /\ todo = <<i, j>> /\ slot[j].phase # "idle"

\* What was judged at the start of the tick still holds when the entry is made.
Chosen ==
  todo # <<>> /\ slot[Head(todo)].phase = "idle" =>
    /\ entries < MaxEntries /\ proposed \in Plans
    /\ \A j \in Slots \ {Head(todo)} :
         slot[j].phase \in {"idle", "open"} /\ Claimed(slot[j]) \cap Names(proposed) = {}

\* An execution is under way only while its slot settles.
Ordering ==
  \A i \in Slots :
    /\ slot[i].phase # "idle" => slot[i].plan \in Plans
    /\ slot[i].phase \in {"idle", "working", "open"} => order[i] = "none"
    /\ slot[i].phase = "settling" => order[i] # "none"
    /\ slot[i].phase = "halted" => order[i] # "sent"

\* What the venue holds of a slot.
Rightful(s, o) ==
  IF s.phase = "halted" \/ o = "failed" THEN {Flat, Owned(s.plan)}
  ELSE IF o = "filled" THEN {After(s)} ELSE {Before(s)}

\* Positions b are what the slots' orders have made of nothing.
Ours(b) ==
  /\ b \in [Instruments -> -1 .. 1]
  /\ \A x \in Instruments : b[x] # 0 => \E i \in Slots : x \in Claimed(slot[i])
  /\ \A i \in Slots : slot[i].phase # "idle" =>
       Only(b, Names(slot[i].plan)) \in Rightful(slot[i], order[i])

\* The account holds them, and a unit more once somebody else has traded.
Holding ==
  \E b \in [Instruments -> -1 .. 1] :
    /\ Ours(b)
    /\ IF tampered THEN \E x \in Instruments : held = [b EXCEPT ![x] = @ + 1] ELSE held = b

\* What a slot has read of the account is its own.
SeenRight ==
  /\ todo = <<>> => seen = Unread
  /\ ~tampered /\ todo # <<>> /\ seen # Unread =>
       LET s == slot[Head(todo)]
       IN  /\ s.phase \in {"open", "working"} => seen = Before(s)
           /\ s.phase = "settling" => seen \in {Before(s), After(s)}

Base == TypeOK /\ SpreadsDisjoint /\ SiblingNotBlamed

IInv == Base /\ Lined /\ Chosen /\ Ordering /\ Holding /\ SeenRight

-----------------------------------------------------------------------------
(* Positions *)

LEMMA TwoSlots == Slots \subseteq {1, 2} /\ (1 \in Slots) /\ (2 \in Slots <=> MaxSpreads = 2)
<1> QED BY BookAssumption DEF Slots

LEMMA NamesOf ==
  ASSUME NEW plan \in Plans
  PROVE  /\ plan.buy \in Instruments /\ plan.sell \in Instruments /\ plan.buy # plan.sell
         /\ Owned(plan) \in [Instruments -> -1 .. 1]
<1> QED BY BookAssumption DEF Owned

\* The two whole inventories, leg by leg.
LEMMA OnlyFlat ==
  ASSUME NEW h, NEW plan \in Plans
  PROVE  Only(h, Names(plan)) = Flat <=> h[plan.buy] = 0 /\ h[plan.sell] = 0
<1>1. plan.buy \in Instruments /\ plan.sell \in Instruments
  BY NamesOf
<1>2. ASSUME Only(h, Names(plan)) = Flat PROVE h[plan.buy] = 0 /\ h[plan.sell] = 0
  <2>1. \A x \in Instruments : Only(h, Names(plan))[x] = Flat[x]
    BY <1>2
  <2> QED BY <2>1, <1>1 DEF Only, Names, Flat
<1>3. ASSUME h[plan.buy] = 0, h[plan.sell] = 0 PROVE Only(h, Names(plan)) = Flat
  BY <1>3 DEF Only, Names, Flat
<1> QED BY <1>2, <1>3

LEMMA OnlyOwned ==
  ASSUME NEW h, NEW plan \in Plans
  PROVE  Only(h, Names(plan)) = Owned(plan) <=> h[plan.buy] = 1 /\ h[plan.sell] = -1
<1>1. plan.buy \in Instruments /\ plan.sell \in Instruments /\ plan.buy # plan.sell
  BY NamesOf
<1>2. ASSUME Only(h, Names(plan)) = Owned(plan) PROVE h[plan.buy] = 1 /\ h[plan.sell] = -1
  <2>1. \A x \in Instruments : Only(h, Names(plan))[x] = Owned(plan)[x]
    BY <1>2
  <2> QED BY <2>1, <1>1 DEF Only, Names, Owned
<1>3. ASSUME h[plan.buy] = 1, h[plan.sell] = -1 PROVE Only(h, Names(plan)) = Owned(plan)
  BY <1>1, <1>3 DEF Only, Names, Owned
<1> QED BY <1>2, <1>3

\* Undisturbed, a slot sees its own legs and nothing else.
LEMMA ViewOwn ==
  ASSUME IInv, ~tampered, NEW i \in Slots, slot[i].phase # "idle"
  PROVE  View(i) = Only(held, Names(slot[i].plan)) /\ View(i) \in Rightful(slot[i], order[i])
<1>1. Ours(held)
  BY DEF IInv, Holding
<1>2. ASSUME NEW x \in Instruments
      PROVE  (IF x \in Instruments \ Background(i) THEN held[x] ELSE 0)
           = (IF x \in Names(slot[i].plan) THEN held[x] ELSE 0)
  <2>1. CASE x \in Background(i)
    <3>1. PICK j \in Slots \ {i} : x \in Claimed(slot[j])
      BY <2>1 DEF Background
    <3>2. x \notin Claimed(slot[i])
      BY <3>1 DEF IInv, Base, SpreadsDisjoint
    <3> QED BY <2>1, <3>2 DEF Claimed
  <2>2. CASE x \notin Background(i) /\ x \notin Names(slot[i].plan)
    <3>1. held[x] = 0
      BY <2>2, <1>1 DEF Ours, Background, Claimed
    <3> QED BY <2>2, <3>1
  <2> QED BY <2>1, <2>2
<1>3. View(i) = Only(held, Names(slot[i].plan))
  BY <1>2 DEF View, Only
<1> QED BY <1>1, <1>3 DEF Ours

\* One unit more stays within the bounds of a foreign trade.
LEMMA OneMore ==
  ASSUME NEW b \in [Instruments -> -1 .. 1], NEW x \in Instruments
  PROVE  [b EXCEPT ![x] = @ + 1] \in [Instruments -> -2 .. 2]
<1>1. \A y \in Instruments : [b EXCEPT ![x] = @ + 1][y] \in -2 .. 2
  OBVIOUS
<1> QED BY <1>1

-----------------------------------------------------------------------------
(* One slot's turn ends *)

LEMMA Advance ==
  ASSUME IInv, NEW i \in Slots, Turn(i), Served, \A j \in Slots \ {i} : slot'[j] = slot[j]
  PROVE  /\ Lined' /\ Chosen' /\ SeenRight' /\ seen' = Unread
         /\ todo' \in Seq(Slots) /\ Len(todo') <= MaxSpreads
<1>1. CASE \E j \in Slots : todo = <<j>>
  <2>1. todo' = <<>>
    BY <1>1 DEF Served
  <2>2. todo' \in Seq(Slots) /\ Len(todo') <= MaxSpreads
    BY <2>1, BookAssumption
  <2> QED BY <2>1, <2>2 DEF Lined, Chosen, SeenRight, Served
<1>2. CASE \E k, j \in Slots : k # j /\ todo = <<k, j>> /\ slot[j].phase # "idle"
  <2>1. PICK j \in Slots \ {i} : todo = <<i, j>> /\ slot[j].phase # "idle"
    BY <1>2 DEF Turn
  <2>2. todo' = <<j>> /\ slot'[j].phase # "idle"
    BY <2>1 DEF Served
  <2>3. todo' \in Seq(Slots) /\ Len(todo') <= MaxSpreads /\ Head(todo') = j
    BY <2>2, BookAssumption
  <2> QED BY <2>2, <2>3 DEF Lined, Chosen, SeenRight, Served
<1> QED BY <1>1, <1>2 DEF IInv, Lined, Turn

\* Positions that fitted slot i fit its new state s with order o.
Fits(b, i, s, o) ==
  /\ s.phase # "idle" => Only(b, Names(s.plan)) \in Rightful(s, o)
  /\ \A x \in Claimed(slot[i]) : b[x] # 0 => x \in Claimed(s)

\* What a new state of a slot has to respect.
Respects(i, s, o) ==
  /\ s \in Slot /\ o \in {"none", "sent", "filled", "failed"}
  /\ s.phase # "idle" => s.plan \in Plans
  /\ s.phase \in {"idle", "working", "open"} => o = "none"
  /\ s.phase = "settling" => o # "none"
  /\ s.phase = "halted" => o # "sent"
  /\ s.cause = "inventory" /\ ~tampered => slot[i].cause = "inventory"
  /\ \A j \in Slots \ {i} : Claimed(s) \cap Claimed(slot[j]) = {}
  /\ \A b \in [Instruments -> -1 .. 1] : Ours(b) => Fits(b, i, s, o)

LEMMA Change ==
  ASSUME IInv, NEW i \in Slots, NEW s, NEW o, Turn(i), Served, Respects(i, s, o),
         slot' = [slot EXCEPT ![i] = s], order' = [order EXCEPT ![i] = o],
         entries' \in 0 .. MaxEntries, UNCHANGED <<proposed, held, tampered>>
  PROVE  IInv'
<1>1. slot \in [Slots -> Slot] /\ order \in [Slots -> {"none", "sent", "filled", "failed"}]
  BY DEF IInv, Base, TypeOK
<1>2. /\ slot'[i] = s /\ order'[i] = o
      /\ \A j \in Slots \ {i} : slot'[j] = slot[j] /\ order'[j] = order[j]
  BY <1>1
<1>3. /\ Lined' /\ Chosen' /\ SeenRight' /\ seen' = Unread
      /\ todo' \in Seq(Slots) /\ Len(todo') <= MaxSpreads
  BY <1>2, Advance
<1>4. TypeOK'
  BY <1>1, <1>3 DEF Respects, IInv, Base, TypeOK
<1>5. SpreadsDisjoint'
  BY <1>2 DEF Respects, IInv, Base, SpreadsDisjoint
<1>6. SiblingNotBlamed'
  BY <1>2 DEF Respects, IInv, Base, SiblingNotBlamed
<1>7. Ordering'
  BY <1>2 DEF Respects, IInv, Ordering
<1>8. ASSUME NEW b \in [Instruments -> -1 .. 1], Ours(b) PROVE Ours(b)'
  <2>1. Fits(b, i, s, o)
    BY <1>8 DEF Respects
  <2>2. ASSUME NEW x \in Instruments, b[x] # 0 PROVE \E j \in Slots : x \in Claimed(slot'[j])
    <3>1. PICK j \in Slots : x \in Claimed(slot[j])
      BY <1>8, <2>2 DEF Ours
    <3>2. CASE j = i
      BY <3>1, <3>2, <2>1, <2>2, <1>2 DEF Fits
    <3>3. CASE j # i
      BY <3>1, <3>3, <1>2
    <3> QED BY <3>2, <3>3
  <2>3. ASSUME NEW j \in Slots, slot'[j].phase # "idle"
        PROVE  Only(b, Names(slot'[j].plan)) \in Rightful(slot'[j], order'[j])
    <3>1. CASE j = i
      BY <3>1, <2>1, <2>3, <1>2 DEF Fits
    <3>2. CASE j # i
      BY <3>2, <2>3, <1>2, <1>8 DEF Ours
    <3> QED BY <3>1, <3>2
  <2> QED BY <2>2, <2>3 DEF Ours, Claimed
<1>9. Holding'
  BY <1>8 DEF IInv, Holding
<1> QED BY <1>3, <1>4, <1>5, <1>6, <1>7, <1>9 DEF IInv, Base

\* A slot that keeps its plan keeps clear of the others.
LEMMA SamePlan ==
  ASSUME IInv, NEW i \in Slots, NEW s, NEW o, slot[i].phase # "idle",
         s \in Slot, s.phase # "idle", s.plan = slot[i].plan,
         o \in {"none", "sent", "filled", "failed"},
         s.phase \in {"idle", "working", "open"} => o = "none",
         s.phase = "settling" => o # "none", s.phase = "halted" => o # "sent",
         s.cause = "inventory" /\ ~tampered => slot[i].cause = "inventory",
         Rightful(slot[i], order[i]) \subseteq Rightful(s, o)
  PROVE  Respects(i, s, o)
<1>1. Claimed(s) = Claimed(slot[i])
  BY DEF Claimed
<1>2. s.plan \in Plans
  BY DEF IInv, Ordering
<1>3. \A b \in [Instruments -> -1 .. 1] : Ours(b) => Fits(b, i, s, o)
  BY <1>1 DEF Ours, Fits
<1>4. \A j \in Slots \ {i} : Claimed(s) \cap Claimed(slot[j]) = {}
  BY <1>1 DEF IInv, Base, SpreadsDisjoint
<1> QED BY <1>2, <1>3, <1>4 DEF Respects

\* A slot becomes idle with nothing left of its legs.
LEMMA Emptied ==
  ASSUME IInv, NEW i \in Slots, NEW s, s \in Slot, s.phase = "idle", s.cause = slot[i].cause,
         slot[i].phase # "idle", Rightful(slot[i], order[i]) = {Flat}
  PROVE  Respects(i, s, "none")
<1>1. slot[i].plan \in Plans
  BY DEF IInv, Ordering
<1>2. ASSUME NEW b \in [Instruments -> -1 .. 1], Ours(b) PROVE Fits(b, i, s, "none")
  <2>1. Only(b, Names(slot[i].plan)) = Flat
    BY <1>2 DEF Ours
  <2>2. b[slot[i].plan.buy] = 0 /\ b[slot[i].plan.sell] = 0
    BY <1>1, <2>1, OnlyFlat
  <2> QED BY <2>2 DEF Fits, Claimed, Names
<1> QED BY <1>2 DEF Respects, Claimed

-----------------------------------------------------------------------------
(* What a slot does *)

LEMMA SlotFacts ==
  ASSUME IInv, NEW i \in Slots
  PROVE  /\ slot[i] \in Slot /\ slot \in [Slots -> Slot]
         /\ order[i] \in {"none", "sent", "filled", "failed"}
         /\ [order EXCEPT ![i] = order[i]] = order /\ [slot EXCEPT ![i] = slot[i]] = slot
         /\ entries \in 0 .. MaxEntries
<1> QED BY DEF IInv, Base, TypeOK

LEMMA SlotFields ==
  ASSUME IInv, NEW i \in Slots
  PROVE  slot[i] \in [phase : {"idle", "working", "settling", "open", "halted"},
                      intent : {"entry", "exit"}, plan : Plans \cup {NoPlan},
                      cause : {"none", "venue", "inventory"}, legacy : BOOLEAN]
<1> QED BY SlotFacts DEF Slot

LEMMA AdmitInv == ASSUME IInv, NEW i \in Slots, Admit(i) PROVE IInv'
<1> DEFINE s == [phase |-> "working", intent |-> "entry", plan |-> proposed, cause |-> "none",
                legacy |-> FALSE]
<1>1. /\ Turn(i) /\ slot[i].phase = "idle" /\ Served /\ slot' = [slot EXCEPT ![i] = s]
      /\ entries' = entries + 1 /\ UNCHANGED <<proposed, order, held, tampered>>
  BY DEF Admit, Acting, Becomes, venueVars
<1>2. /\ entries < MaxEntries /\ proposed \in Plans
      /\ \A j \in Slots \ {i} : Claimed(slot[j]) \cap Names(proposed) = {}
  BY <1>1 DEF IInv, Chosen, Turn
<1>3. entries' \in 0 .. MaxEntries
  BY <1>1, <1>2, SlotFacts, BookAssumption
<1>4. order[i] = "none" /\ order' = [order EXCEPT ![i] = "none"]
  BY <1>1, SlotFacts DEF IInv, Ordering
<1>5. s \in Slot /\ Claimed(s) = Names(proposed)
  BY <1>2 DEF Slot, Claimed
<1>6. ASSUME NEW b \in [Instruments -> -1 .. 1], Ours(b) PROVE Fits(b, i, s, "none")
  <2>1. ASSUME NEW x \in Names(proposed) PROVE b[x] = 0
    <3>1. x \in Instruments
      BY <1>2, <2>1, NamesOf DEF Names
    <3>2. \A j \in Slots : x \notin Claimed(slot[j])
      BY <1>1, <1>2, <2>1 DEF Claimed
    <3> QED BY <3>1, <3>2, <1>6 DEF Ours
  <2>2. Only(b, Names(proposed)) = Flat
    BY <1>2, <2>1, OnlyFlat DEF Names
  <2>3. Rightful(s, "none") = {Flat}
    BY DEF Rightful, Before
  <2> QED BY <1>1, <2>2, <2>3 DEF Fits, Claimed
<1>7. Respects(i, s, "none")
  BY <1>2, <1>5, <1>6 DEF Respects
<1> HIDE DEF s
<1> QED BY <1>1, <1>3, <1>4, <1>7, Change

LEMMA HaltUnmatchedInv == ASSUME IInv, NEW i \in Slots, HaltUnmatched(i) \/ HaltChanged(i)
                          PROVE IInv'
<1> DEFINE s == [slot[i] EXCEPT !.phase = "halted", !.cause = "inventory"]
<1>1. /\ Acting(i) /\ Turn(i) /\ slot[i].phase \in {"open", "working"} /\ Served
      /\ slot' = [slot EXCEPT ![i] = s] /\ UNCHANGED <<entries, proposed, order, held, tampered>>
  BY DEF HaltUnmatched, HaltChanged, Acting, Becomes, venueVars
<1>2. tampered
  <2> SUFFICES ASSUME ~tampered PROVE FALSE
    OBVIOUS
  <2>1. seen = Before(slot[i])
    BY <1>1 DEF IInv, SeenRight, Acting, Turn
  <2>2. View(i) = Before(slot[i])
    BY <1>1, ViewOwn DEF IInv, Ordering, Rightful
  <2> QED BY <2>1, <2>2 DEF HaltUnmatched, HaltChanged
<1>3. order[i] = "none" /\ order' = [order EXCEPT ![i] = order[i]]
  BY <1>1, SlotFacts DEF IInv, Ordering
<1>4. s \in Slot /\ s.phase = "halted" /\ s.plan = slot[i].plan
  BY SlotFields DEF Slot
<1>5. Rightful(slot[i], order[i]) \subseteq Rightful(s, order[i])
  BY <1>1, <1>3, <1>4 DEF Rightful, Before
<1> HIDE DEF s
<1>6. Respects(i, s, order[i])
  BY <1>1, <1>2, <1>3, <1>4, <1>5, SamePlan
<1> QED BY <1>1, <1>3, <1>6, SlotFacts, Change

LEMMA AskExitInv == ASSUME IInv, NEW i \in Slots, AskExit(i) PROVE IInv'
<1> DEFINE s == [slot[i] EXCEPT !.phase = "working", !.intent = "exit"]
<1>1. /\ Turn(i) /\ slot[i].phase = "open" /\ Served
      /\ slot' = [slot EXCEPT ![i] = s] /\ UNCHANGED <<entries, proposed, order, held, tampered>>
  BY DEF AskExit, Acting, Becomes, venueVars
<1>2. order[i] = "none" /\ order' = [order EXCEPT ![i] = order[i]]
  BY <1>1, SlotFacts DEF IInv, Ordering
<1>3. /\ s \in Slot /\ s.phase = "working" /\ s.plan = slot[i].plan /\ s.intent = "exit"
      /\ s.cause = slot[i].cause
  BY SlotFields DEF Slot
<1> HIDE DEF s
<1>4. Rightful(slot[i], order[i]) \subseteq Rightful(s, order[i])
  BY <1>1, <1>2, <1>3 DEF Rightful, Before
<1>5. Respects(i, s, order[i])
  BY <1>1, <1>2, <1>3, <1>4, SamePlan
<1> QED BY <1>1, <1>2, <1>5, SlotFacts, Change

LEMMA WithdrawInv == ASSUME IInv, NEW i \in Slots, Withdraw(i) PROVE IInv'
<1> DEFINE s == [slot[i] EXCEPT !.phase = IF slot[i].intent = "exit" THEN "open" ELSE "idle"]
<1>1. /\ Turn(i) /\ slot[i].phase = "working" /\ Served
      /\ slot' = [slot EXCEPT ![i] = s] /\ UNCHANGED <<entries, proposed, order, held, tampered>>
  BY DEF Withdraw, Acting, Becomes, venueVars
<1>2. order[i] = "none" /\ order' = [order EXCEPT ![i] = order[i]]
  BY <1>1, SlotFacts DEF IInv, Ordering
<1>3. /\ s \in Slot /\ s.plan = slot[i].plan /\ s.cause = slot[i].cause
      /\ s.phase = IF slot[i].intent = "exit" THEN "open" ELSE "idle"
  BY SlotFields DEF Slot
<1> HIDE DEF s
<1>4. Respects(i, s, order[i])
  <2>1. CASE slot[i].intent = "exit"
    <3>1. Rightful(slot[i], order[i]) \subseteq Rightful(s, order[i])
      BY <1>1, <1>2, <1>3, <2>1 DEF Rightful, Before
    <3> QED BY <1>1, <1>2, <1>3, <2>1, <3>1, SamePlan
  <2>2. CASE slot[i].intent # "exit"
    <3>1. Rightful(slot[i], order[i]) = {Flat}
      BY <1>1, <1>2, <2>2 DEF Rightful, Before
    <3> QED BY <1>1, <1>2, <1>3, <2>2, <3>1, Emptied
  <2> QED BY <2>1, <2>2
<1> QED BY <1>1, <1>2, <1>4, SlotFacts, Change

LEMMA CommitInv == ASSUME IInv, NEW i \in Slots, Commit(i) PROVE IInv'
<1> DEFINE s == [slot[i] EXCEPT !.phase = "settling"]
<1>1. /\ Turn(i) /\ slot[i].phase = "working" /\ Served /\ slot' = [slot EXCEPT ![i] = s]
      /\ order' = [order EXCEPT ![i] = "sent"] /\ UNCHANGED <<entries, proposed, held, tampered>>
  BY DEF Commit, Acting, Becomes
<1>2. /\ s \in Slot /\ s.phase = "settling" /\ s.plan = slot[i].plan /\ s.intent = slot[i].intent
      /\ s.cause = slot[i].cause
  BY SlotFields DEF Slot
<1> HIDE DEF s
<1>3. Rightful(slot[i], order[i]) \subseteq Rightful(s, "sent")
  BY <1>1, <1>2 DEF IInv, Ordering, Rightful, Before
<1>4. Respects(i, s, "sent")
  BY <1>1, <1>2, <1>3, SamePlan
<1> QED BY <1>1, <1>4, SlotFacts, Change

LEMMA HaltSettlingInv == ASSUME IInv, NEW i \in Slots, HaltSettling(i) PROVE IInv'
<1>1. PICK cause \in {"venue", "inventory"} :
        /\ slot' = [slot EXCEPT ![i] = [slot[i] EXCEPT !.phase = "halted", !.cause = cause]]
        /\ cause = "inventory" => order[i] = "filled" /\ seen \notin {Before(slot[i]), After(slot[i])}
  BY DEF HaltSettling, Becomes
<1> DEFINE s == [slot[i] EXCEPT !.phase = "halted", !.cause = cause]
<1>2. /\ Acting(i) /\ Turn(i) /\ slot[i].phase = "settling" /\ order[i] \in {"failed", "filled"}
      /\ Served /\ UNCHANGED <<entries, proposed, order, held, tampered>>
  BY DEF HaltSettling, Acting, venueVars
<1>3. cause = "inventory" => tampered
  BY <1>1, <1>2 DEF IInv, SeenRight, Acting, Turn
<1>4. /\ s \in Slot /\ s.phase = "halted" /\ s.plan = slot[i].plan /\ s.cause = cause
  BY SlotFields DEF Slot
<1>5. slot' = [slot EXCEPT ![i] = s] /\ order' = [order EXCEPT ![i] = order[i]]
  BY <1>1, <1>2, SlotFacts
<1> HIDE DEF s
<1>6. Rightful(slot[i], order[i]) \subseteq Rightful(s, order[i])
  BY <1>2, <1>4 DEF Rightful, After
<1>7. Respects(i, s, order[i])
  BY <1>2, <1>3, <1>4, <1>6, SamePlan
<1> QED BY <1>2, <1>5, <1>7, SlotFacts, Change

LEMMA SettleInv == ASSUME IInv, NEW i \in Slots, Settle(i) PROVE IInv'
<1> DEFINE s == [slot[i] EXCEPT !.phase = IF slot[i].intent = "entry" THEN "open" ELSE "idle"]
<1>1. /\ Turn(i) /\ slot[i].phase = "settling" /\ order[i] = "filled" /\ Served
      /\ slot' = [slot EXCEPT ![i] = s] /\ order' = [order EXCEPT ![i] = "none"]
      /\ UNCHANGED <<entries, proposed, held, tampered>>
  BY DEF Settle, Acting, Becomes
<1>2. /\ s \in Slot /\ s.plan = slot[i].plan /\ s.cause = slot[i].cause
      /\ s.phase = IF slot[i].intent = "entry" THEN "open" ELSE "idle"
  BY SlotFields DEF Slot
<1> HIDE DEF s
<1>3. Respects(i, s, "none")
  <2>1. CASE slot[i].intent = "entry"
    <3>1. Rightful(slot[i], order[i]) \subseteq Rightful(s, "none")
      BY <1>1, <1>2, <2>1 DEF Rightful, Before, After
    <3> QED BY <1>1, <1>2, <2>1, <3>1, SamePlan
  <2>2. CASE slot[i].intent # "entry"
    <3>1. Rightful(slot[i], order[i]) = {Flat}
      BY <1>1, <2>2 DEF Rightful, After
    <3> QED BY <1>1, <1>2, <2>2, <3>1, Emptied
  <2> QED BY <2>1, <2>2
<1> QED BY <1>1, <1>3, SlotFacts, Change

LEMMA SkipInv == ASSUME IInv, NEW i \in Slots, Skip(i) PROVE IInv'
<1>1. Turn(i) /\ Served /\ UNCHANGED <<slot, proposed, entries, order, held, tampered>>
  BY DEF Skip, venueVars
<1>2. /\ Lined' /\ Chosen' /\ SeenRight' /\ seen' = Unread
      /\ todo' \in Seq(Slots) /\ Len(todo') <= MaxSpreads
  BY <1>1, Advance
<1>3. Base'
  BY <1>1, <1>2 DEF IInv, Base, TypeOK, SpreadsDisjoint, SiblingNotBlamed
<1>4. Ordering' /\ Holding'
  BY <1>1 DEF IInv, Ordering, Holding, Ours
<1> QED BY <1>2, <1>3, <1>4 DEF IInv

LEMMA ReadInv == ASSUME IInv, NEW i \in Slots, Read(i) PROVE IInv'
<1>1. /\ Turn(i) /\ slot[i].phase # "halted" /\ seen' = View(i)
      /\ UNCHANGED <<slot, todo, proposed, entries, order, held, tampered>>
  BY DEF Read, Reading, venueVars
<1>2. View(i) \in [Instruments -> -2 .. 2]
  <2>1. \A x \in Instruments : held[x] \in -2 .. 2
    BY DEF IInv, Base, TypeOK
  <2> QED BY <2>1 DEF View, Only
<1>3. Base' /\ Ordering' /\ Holding'
  BY <1>1, <1>2 DEF IInv, Base, TypeOK, SpreadsDisjoint, SiblingNotBlamed, Ordering, Holding, Ours
<1>4. Lined' /\ Chosen'
  BY <1>1 DEF IInv, Lined, Chosen
<1>5. SeenRight'
  <2> SUFFICES ASSUME ~tampered
               PROVE  /\ slot[i].phase \in {"open", "working"} => View(i) = Before(slot[i])
                      /\ slot[i].phase = "settling" => View(i) \in {Before(slot[i]), After(slot[i])}
    BY <1>1 DEF SeenRight, Turn
  <2>1. slot[i].phase # "idle" => View(i) \in Rightful(slot[i], order[i])
    BY ViewOwn
  <2> QED BY <2>1, SlotFacts DEF IInv, Ordering, Rightful, Before, After, Slot
<1> QED BY <1>3, <1>4, <1>5 DEF IInv

-----------------------------------------------------------------------------
(* The book *)

LEMMA CrashInv == ASSUME IInv, Crash PROVE IInv'
<1>1. todo' = <<>> /\ seen' = Unread
      /\ UNCHANGED <<slot, proposed, entries, order, held, tampered>>
  BY DEF Crash, venueVars
<1>2. Base'
  BY <1>1, BookAssumption DEF IInv, Base, TypeOK, SpreadsDisjoint, SiblingNotBlamed
<1>3. Ordering' /\ Holding'
  BY <1>1 DEF IInv, Ordering, Holding, Ours
<1> QED BY <1>1, <1>2, <1>3 DEF IInv, Lined, Chosen, SeenRight

LEMMA CandidateIdle == ASSUME Busy # Slots PROVE Candidate \in Slots \ Busy
<1>1. \E i \in Slots \ Busy : \A j \in Slots \ Busy : i <= j
  <2>1. PICK k \in Slots \ Busy : TRUE
    BY DEF Busy
  <2>2. CASE 1 \in Slots \ Busy
    BY <2>2, TwoSlots
  <2>3. CASE 1 \notin Slots \ Busy
    BY <2>1, <2>3, TwoSlots
  <2> QED BY <2>2, <2>3
<1> QED BY <1>1 DEF Candidate

LEMMA Joined == ASSUME NEW S, NEW a \in S, NEW b \in S PROVE <<a>> \o <<b>> = <<a, b>>
<1> DEFINE s == <<a>> \o <<b>>
<1>1. <<a>> \in Seq(S) /\ <<b>> \in Seq(S) /\ Len(<<a>>) = 1 /\ Len(<<b>>) = 1
  OBVIOUS
<1>2. s \in Seq(S) /\ Len(s) = 2
  BY <1>1
<1>3. s[1] = a /\ s[2] = b
  BY <1>1
<1> HIDE DEF s
<1>4. s = <<a, b>>
  BY <1>2, <1>3
<1> QED BY <1>4 DEF s

LEMMA ServingBusy ==
  \/ Serving = <<>>
  \/ \E i \in Busy : Serving = <<i>>
  \/ Busy = Slots /\ \E i, j \in Busy : i # j /\ Serving = <<i, j>>
<1>1. CASE Busy = {1, 2}
  <2>1. 1 \in Busy /\ 2 \in Busy /\ Busy \subseteq Slots /\ Serving = <<1, 2>>
    BY <1>1 DEF Serving, Busy
  <2>2. Busy = Slots
    BY <1>1, <2>1, TwoSlots
  <2> QED BY <2>1, <2>2
<1>2. CASE Busy = {}
  BY <1>2 DEF Serving
<1>3. CASE Busy # {1, 2} /\ Busy # {}
  <2>1. (CHOOSE i \in Busy : TRUE) \in Busy
    BY <1>3
  <2> QED BY <1>3, <2>1 DEF Serving
<1> QED BY <1>1, <1>2, <1>3

LEMMA BeginInv == ASSUME IInv, Begin PROVE IInv'
<1>1. PICK plan \in (IF entries < MaxEntries THEN Plans ELSE {}) \cup {NoPlan} :
        Ordered(plan) # <<>> /\ todo' = Ordered(plan) /\ proposed' = plan
  BY DEF Begin
<1>2. seen = Unread /\ UNCHANGED <<slot, seen, entries, order, held, tampered>>
  BY DEF Begin, venueVars, IInv, SeenRight
<1>3. Busy \subseteq Slots /\ \A i \in Slots : i \in Busy <=> slot[i].phase # "idle"
  BY DEF Busy
<1>4. Lined' /\ Chosen'
  <2>1. CASE Eligible(plan) /\ Busy # Slots
    <3>1. Candidate \in Slots /\ slot[Candidate].phase = "idle" /\ Candidate \notin Busy
      BY <2>1, CandidateIdle, <1>3
    <3>2. todo' = <<Candidate>> \o Serving
      BY <2>1, <1>1 DEF Ordered
    <3>3. todo' = <<Candidate>> \/ \E j \in Busy : todo' = <<Candidate, j>>
      <4>1. CASE Serving = <<>>
        BY <3>2, <4>1
      <4>2. CASE \E j \in Busy : Serving = <<j>>
        <5>1. PICK j \in Busy : Serving = <<j>>
          BY <4>2
        <5>2. <<Candidate>> \o <<j>> = <<Candidate, j>>
          BY <3>1, <1>3, Joined
        <5> QED BY <3>2, <5>1, <5>2
      <4> QED BY <2>1, <4>1, <4>2, ServingBusy
    <3>4. entries < MaxEntries /\ plan \in Plans
      BY <1>1, <2>1 DEF Eligible
    <3>5. \A j \in Slots \ {Candidate} :
            slot[j].phase \in {"idle", "open"} /\ Claimed(slot[j]) \cap Names(plan) = {}
      BY <2>1, <1>3 DEF Eligible, Blocked, Claimed
    <3>6. Head(todo') = Candidate
      BY <3>3
    <3> QED BY <3>1, <3>3, <3>4, <3>5, <3>6, <1>1, <1>2, <1>3 DEF Lined, Chosen
  <2>2. CASE ~(Eligible(plan) /\ Busy # Slots)
    <3>1. todo' = Serving
      BY <2>2, <1>1 DEF Ordered
    <3>2. (\E i \in Busy : todo' = <<i>>) \/ (\E i, j \in Busy : i # j /\ todo' = <<i, j>>)
      BY <3>1, <1>1, ServingBusy
    <3>3. Head(todo') \in Busy
      BY <3>2
    <3> QED BY <3>2, <3>3, <1>2, <1>3 DEF Lined, Chosen
  <2> QED BY <2>1, <2>2
<1>5. todo' \in Seq(Slots) /\ Len(todo') <= MaxSpreads
  <2>1. \A i, j \in Slots : i # j => MaxSpreads = 2
    BY TwoSlots
  <2>2. CASE todo' = <<>> \/ \E i \in Slots : todo' = <<i>>
    <3>1. CASE todo' = <<>>
      BY <3>1, BookAssumption
    <3>2. CASE \E i \in Slots : todo' = <<i>>
      <4>1. PICK i \in Slots : todo' = <<i>>
        BY <3>2
      <4> QED BY <4>1, BookAssumption
    <3> QED BY <2>2, <3>1, <3>2
  <2>3. CASE \E i, j \in Slots : i # j /\ todo' = <<i, j>>
    BY <2>1, <2>3
  <2> QED BY <1>4, <2>2, <2>3 DEF Lined
<1>6. Base'
  BY <1>1, <1>2, <1>5 DEF IInv, Base, TypeOK, SpreadsDisjoint, SiblingNotBlamed
<1>7. Ordering' /\ Holding' /\ SeenRight'
  BY <1>2 DEF IInv, Ordering, Holding, Ours, SeenRight
<1> QED BY <1>4, <1>6, <1>7 DEF IInv

-----------------------------------------------------------------------------
(* The venue *)

\* What the execution of order i makes of positions h.
Executed(h, i) ==
  [x \in Instruments |->
     h[x] + (IF slot[i].intent = "entry" THEN 1 ELSE -1) * Owned(slot[i].plan)[x]]

\* When the legs of slot i are as the order leaves them, the others' are as before.
LEMMA Rest ==
  ASSUME IInv, NEW i \in Slots, slot[i].phase = "settling", slot' = slot,
         order' = [order EXCEPT ![i] = "filled"],
         NEW b \in [Instruments -> -1 .. 1], Ours(b), NEW c \in [Instruments -> -1 .. 1],
         Only(c, Names(slot[i].plan)) = After(slot[i]),
         \A x \in Instruments \ Names(slot[i].plan) : c[x] = b[x]
  PROVE  Ours(c)'
<1>1. \A x \in Instruments : c[x] # 0 => \E j \in Slots : x \in Claimed(slot[j])
  BY DEF Ours, Claimed
<1>2. ASSUME NEW j \in Slots, slot[j].phase # "idle"
      PROVE  Only(c, Names(slot[j].plan)) \in Rightful(slot[j], order'[j])
  <2>1. order \in [Slots -> {"none", "sent", "filled", "failed"}]
    BY DEF IInv, Base, TypeOK
  <2>2. CASE j = i
    <3>1. order'[j] = "filled"
      BY <2>1, <2>2
    <3> QED BY <2>2, <3>1 DEF Rightful
  <2>3. CASE j # i
    <3>1. order'[j] = order[j]
      BY <2>1, <2>3
    <3>2. Names(slot[j].plan) \cap Names(slot[i].plan) = {}
      BY <1>2, <2>3 DEF IInv, Base, SpreadsDisjoint, Claimed
    <3>3. Only(c, Names(slot[j].plan)) = Only(b, Names(slot[j].plan))
      BY <3>2 DEF Only
    <3> QED BY <1>2, <3>1, <3>3 DEF Ours
  <2> QED BY <2>2, <2>3
<1> QED BY <1>1, <1>2 DEF Ours

LEMMA OursExecuted ==
  ASSUME IInv, NEW i \in Slots, order[i] = "sent", NEW b \in [Instruments -> -1 .. 1], Ours(b),
         order' = [order EXCEPT ![i] = "filled"], slot' = slot
  PROVE  \E c \in [Instruments -> -1 .. 1] : c = Executed(b, i) /\ Ours(c)'
<1>1. PICK p : p = slot[i].plan
  OBVIOUS
<1>2. PICK c : c = Executed(b, i)
  OBVIOUS
<1>3. slot[i].phase = "settling" /\ p \in Plans /\ slot[i].intent \in {"entry", "exit"}
  BY <1>1, SlotFacts DEF IInv, Ordering, Slot
<1>4. p.buy \in Instruments /\ p.sell \in Instruments /\ p.buy # p.sell
  BY <1>3, NamesOf
<1>5. Only(b, Names(p)) = Before(slot[i])
  BY <1>1, <1>3 DEF Ours, Rightful
<1>6. c = [x \in Instruments |-> c[x]]
  BY <1>2 DEF Executed
<1>7. CASE slot[i].intent = "entry"
  <2>1. b[p.buy] = 0 /\ b[p.sell] = 0
    BY <1>1, <1>3, <1>5, <1>7, OnlyFlat DEF Before
  <2>2. c[p.buy] = 1 /\ c[p.sell] = -1 /\ \A x \in Instruments \ Names(p) : c[x] = b[x]
    BY <1>1, <1>2, <1>4, <1>7, <2>1 DEF Executed, Owned, Names
  <2>3. Only(c, Names(p)) = After(slot[i])
    BY <1>1, <1>3, <1>7, <2>2, OnlyOwned DEF After
  <2>4. \A x \in Instruments : c[x] \in -1 .. 1
    BY <2>2 DEF Names
  <2>5. c \in [Instruments -> -1 .. 1]
    BY <2>4, <1>6
  <2>6. Ours(c)'
    BY <2>2, <2>3, <2>5, <1>1, <1>3, Rest
  <2> QED BY <2>5, <2>6, <1>2
<1>8. CASE slot[i].intent = "exit"
  <2>1. b[p.buy] = 1 /\ b[p.sell] = -1
    BY <1>1, <1>3, <1>5, <1>8, OnlyOwned DEF Before
  <2>2. c[p.buy] = 0 /\ c[p.sell] = 0 /\ \A x \in Instruments \ Names(p) : c[x] = b[x]
    BY <1>1, <1>2, <1>4, <1>8, <2>1 DEF Executed, Owned, Names
  <2>3. Only(c, Names(p)) = After(slot[i])
    BY <1>1, <1>3, <1>8, <2>2, OnlyFlat DEF After
  <2>4. \A x \in Instruments : c[x] \in -1 .. 1
    BY <2>2 DEF Names
  <2>5. c \in [Instruments -> -1 .. 1]
    BY <2>4, <1>6
  <2>6. Ours(c)'
    BY <2>2, <2>3, <2>5, <1>1, <1>3, Rest
  <2> QED BY <2>5, <2>6, <1>2
<1> QED BY <1>3, <1>7, <1>8

LEMMA ExecuteInv == ASSUME IInv, NEW i \in Slots, Execute(i) PROVE IInv'
<1>1. /\ order[i] = "sent" /\ order' = [order EXCEPT ![i] = "filled"] /\ held' = Executed(held, i)
      /\ UNCHANGED <<slot, todo, proposed, seen, entries, tampered>>
  BY DEF Execute, Executed, botVars
<1>2. slot[i].phase = "settling" /\ slot[i].plan \in Plans
  BY SlotFacts, <1>1 DEF IInv, Ordering, Slot
<1>3. Holding' /\ held' \in [Instruments -> IF tampered' THEN -2 .. 2 ELSE -1 .. 1]
  <2>1. PICK b \in [Instruments -> -1 .. 1] :
          /\ Ours(b)
          /\ IF tampered THEN \E x \in Instruments : held = [b EXCEPT ![x] = @ + 1] ELSE held = b
    BY DEF IInv, Holding
  <2>2. PICK c \in [Instruments -> -1 .. 1] : c = Executed(b, i) /\ Ours(c)'
    BY <1>1, <2>1, OursExecuted
  <2>3. CASE tampered
    <3>1. PICK x \in Instruments : held = [b EXCEPT ![x] = @ + 1]
      BY <2>1, <2>3
    <3>2. PICK d \in [Instruments -> Int] :
            \A h : Executed(h, i) = [y \in Instruments |-> h[y] + d[y]]
      <4>1. Owned(slot[i].plan) \in [Instruments -> -1 .. 1]
        BY <1>2, NamesOf
      <4> DEFINE d == [y \in Instruments |->
                         (IF slot[i].intent = "entry" THEN 1 ELSE -1) * Owned(slot[i].plan)[y]]
      <4>2. d \in [Instruments -> Int]
        BY <4>1
      <4>3. \A h : Executed(h, i) = [y \in Instruments |-> h[y] + d[y]]
        BY DEF Executed
      <4> QED BY <4>2, <4>3
    <3>3. \A y \in Instruments : held'[y] = [c EXCEPT ![x] = @ + 1][y]
      <4>1. /\ c = [y \in Instruments |-> b[y] + d[y]]
            /\ held' = [y \in Instruments |-> held[y] + d[y]]
        BY <1>1, <2>2, <3>2
      <4>2. \A y \in Instruments : b[y] \in Int /\ d[y] \in Int
        OBVIOUS
      <4>3. \A y \in Instruments : held[y] = IF y = x THEN b[y] + 1 ELSE b[y]
        BY <3>1
      <4> QED BY <4>1, <4>2, <4>3
    <3>4. held' = [c EXCEPT ![x] = @ + 1]
      BY <1>1, <3>3 DEF Executed
    <3>5. held' \in [Instruments -> -2 .. 2]
      BY <3>4, OneMore
    <3>6. tampered' /\ Ours(c)'
      BY <1>1, <2>2, <2>3
    <3>7. Holding'
      BY <3>4, <3>6 DEF Holding
    <3> QED BY <3>5, <3>6, <3>7
  <2>4. CASE ~tampered
    <3>1. held' = c
      BY <1>1, <2>1, <2>2, <2>4
    <3> QED BY <1>1, <2>2, <2>4, <3>1 DEF Holding
  <2> QED BY <2>3, <2>4
<1>6. Base'
  BY <1>1, <1>3 DEF IInv, Base, TypeOK, SpreadsDisjoint, SiblingNotBlamed
<1>7. Ordering'
  BY <1>1, <1>2 DEF IInv, Base, TypeOK, Ordering
<1>8. Lined' /\ Chosen' /\ SeenRight'
  BY <1>1 DEF IInv, Lined, Chosen, SeenRight
<1> QED BY <1>3, <1>6, <1>7, <1>8 DEF IInv

LEMMA FailInv == ASSUME IInv, NEW i \in Slots, Fail(i) PROVE IInv'
<1>1. /\ order[i] \in {"sent", "filled"} /\ slot[i].phase = "settling"
      /\ order' = [order EXCEPT ![i] = "failed"]
      /\ UNCHANGED <<slot, todo, proposed, seen, entries, held, tampered>>
  BY DEF Fail, botVars
<1>2. order \in [Slots -> {"none", "sent", "filled", "failed"}]
  BY DEF IInv, Base, TypeOK
<1>3. Base'
  BY <1>1 DEF IInv, Base, TypeOK, SpreadsDisjoint, SiblingNotBlamed
<1>4. Ordering' /\ Lined' /\ Chosen' /\ SeenRight'
  BY <1>1, <1>2 DEF IInv, Ordering, Lined, Chosen, SeenRight
<1>5. ASSUME NEW b, Ours(b) PROVE Ours(b)'
  <2>1. Rightful(slot[i], order[i]) \subseteq Rightful(slot[i], "failed")
    BY <1>1 DEF Rightful, Before, After
  <2>2. \A j \in Slots : slot[j].phase # "idle" =>
          Only(b, Names(slot[j].plan)) \in Rightful(slot[j], order'[j])
    BY <1>1, <1>2, <1>5, <2>1 DEF Ours
  <2> QED BY <1>1, <1>5, <2>2 DEF Ours
<1>6. Holding'
  BY <1>1, <1>5 DEF IInv, Holding
<1> QED BY <1>3, <1>4, <1>6 DEF IInv

LEMMA TamperInv == ASSUME IInv, Tamper PROVE IInv'
<1>1. PICK x \in Instruments : held' = [held EXCEPT ![x] = @ + 1]
  BY DEF Tamper
<1>2. ~tampered /\ tampered' = TRUE
      /\ UNCHANGED <<slot, todo, proposed, seen, entries, order>>
  BY DEF Tamper, botVars
<1>3. Holding'
  <2>1. held \in [Instruments -> -1 .. 1] /\ Ours(held)
    BY <1>2 DEF IInv, Holding
  <2>3. ASSUME NEW b, Ours(b) PROVE Ours(b)'
    BY <1>2, <2>3 DEF Ours
  <2> QED BY <1>1, <1>2, <2>1, <2>3 DEF Holding
<1>4. held' \in [Instruments -> -2 .. 2]
  BY <1>1, <1>2, OneMore DEF IInv, Base, TypeOK
<1>5. Base'
  BY <1>2, <1>4 DEF IInv, Base, TypeOK, SpreadsDisjoint, SiblingNotBlamed
<1>6. Ordering' /\ Lined' /\ Chosen' /\ SeenRight'
  BY <1>2 DEF IInv, Ordering, Lined, Chosen, SeenRight
<1> QED BY <1>3, <1>5, <1>6 DEF IInv

-----------------------------------------------------------------------------
(* The theorems *)

LEMMA InitInv == Init => IInv
<1> SUFFICES ASSUME Init PROVE IInv
  OBVIOUS
<1>0. \A i \in Slots :
        /\ slot[i] = Idle \/ \E plan \in Plans : slot[i] = Inherited(plan)
        /\ slot[i] \in Slot /\ slot[i].cause = "none" /\ slot[i].phase \in {"idle", "open"}
        /\ slot[i].phase = "open" => slot[i].plan \in Plans
        /\ order[i] = "none"
  <2>1. Idle \in Slot /\ Idle.cause = "none" /\ Idle.phase = "idle"
    BY DEF Idle, Slot
  <2>2. ASSUME NEW plan \in Plans
        PROVE  /\ Inherited(plan) \in Slot /\ Inherited(plan).cause = "none"
               /\ Inherited(plan).phase = "open" /\ Inherited(plan).plan = plan
    BY DEF Idle, Inherited, Slot
  <2> QED BY <2>1, <2>2 DEF Init
<1>1. slot \in [Slots -> Slot] /\ todo \in Seq(Slots) /\ Len(todo) <= MaxSpreads
  BY <1>0, BookAssumption DEF Init
<1>2. held \in [Instruments -> -1 .. 1] /\ entries \in 0 .. MaxEntries
  BY BookAssumption DEF Init
<1>3. SpreadsDisjoint /\ SiblingNotBlamed
  BY <1>0 DEF Init, SpreadsDisjoint, SiblingNotBlamed
<1>4. Base
  BY <1>1, <1>2, <1>3 DEF Init, Base, TypeOK
<1>5. Lined /\ Chosen /\ SeenRight
  BY DEF Init, Lined, Chosen, SeenRight
<1>6. Ordering
  BY <1>0 DEF Ordering
<1>7. ASSUME NEW x \in Instruments, held[x] # 0 PROVE \E i \in Slots : x \in Claimed(slot[i])
  <2>1. PICK i \in Busy : x = slot[i].plan.buy \/ x = slot[i].plan.sell
    BY <1>7 DEF Init
  <2> QED BY <2>1 DEF Busy, Claimed, Names
<1>8. ASSUME NEW i \in Slots, slot[i].phase # "idle"
      PROVE  Only(held, Names(slot[i].plan)) \in Rightful(slot[i], order[i])
  <2>1. slot[i].plan \in Plans /\ i \in Busy /\ slot[i].phase = "open" /\ order[i] = "none"
    BY <1>0, <1>8 DEF Busy
  <2>2. /\ slot[i].plan.buy \in Instruments /\ slot[i].plan.sell \in Instruments
        /\ slot[i].plan.buy # slot[i].plan.sell
    BY <2>1, NamesOf
  <2>3. \A j \in Busy : slot[j].plan.buy # slot[i].plan.sell
    <3>1. TAKE j \in Busy
    <3>2. CASE j = i
      BY <2>2, <3>2
    <3>3. CASE j # i
      BY <2>1, <3>1, <3>3, <1>3 DEF SpreadsDisjoint, Claimed, Names, Busy
    <3> QED BY <3>2, <3>3
  <2>4. held[slot[i].plan.buy] = 1 /\ held[slot[i].plan.sell] = -1
    BY <2>1, <2>2, <2>3 DEF Init
  <2>5. Only(held, Names(slot[i].plan)) = Owned(slot[i].plan)
    BY <2>1, <2>4, OnlyOwned
  <2> QED BY <2>1, <2>5 DEF Rightful, Before
<1>9. Ours(held)
  BY <1>2, <1>7, <1>8 DEF Ours
<1>10. Holding
  BY <1>2, <1>9 DEF Init, Holding
<1> QED BY <1>4, <1>5, <1>6, <1>10 DEF IInv

LEMMA StutterInv == ASSUME IInv, UNCHANGED vars PROVE IInv'
<1>1. UNCHANGED <<slot, todo, proposed, seen, entries, order, held, tampered>>
  BY DEF vars
<1>2. Base' /\ Ordering' /\ Holding'
  BY <1>1 DEF IInv, Base, TypeOK, SpreadsDisjoint, SiblingNotBlamed, Ordering, Holding, Ours
<1> QED BY <1>1, <1>2 DEF IInv, Lined, Chosen, SeenRight

LEMMA NextInv == IInv /\ [Next]_vars => IInv'
<1> SUFFICES ASSUME IInv, [Next]_vars PROVE IInv'
  OBVIOUS
<1>1. CASE Begin \/ Crash \/ Tamper
  BY <1>1, BeginInv, CrashInv, TamperInv
<1>2. ASSUME NEW i \in Slots, SlotTick(i) \/ Execute(i) \/ Fail(i) PROVE IInv'
  BY <1>2, ReadInv, SkipInv, AdmitInv, HaltUnmatchedInv, AskExitInv, WithdrawInv, CommitInv,
     HaltSettlingInv, SettleInv, ExecuteInv, FailInv DEF SlotTick
<1>3. CASE UNCHANGED vars
  BY <1>3, StutterInv
<1> QED BY <1>1, <1>2, <1>3 DEF Next

\* The inductive invariant holds in every reachable state.
THEOREM Inductive == Spec => []IInv
<1> QED BY InitInv, NextInv, PTL DEF Spec

\* The spreads of the two slots share no leg, no slot is stopped by what the
\* other does, and undisturbed the account holds whole spreads only.
THEOREM BookSound == Spec => []Sound
<1>1. IInv => Sound
  <2> SUFFICES ASSUME IInv PROVE WholeSpreads
    BY DEF IInv, Base, Sound
  <2> SUFFICES ASSUME ~tampered
               PROVE  /\ \A x \in Instruments : held[x] # 0 => \E i \in Slots : x \in Claimed(slot[i])
                      /\ \A i \in Busy : Only(held, Names(slot[i].plan)) \in {Flat, Owned(slot[i].plan)}
    BY DEF WholeSpreads
  <2>1. Ours(held)
    BY DEF IInv, Holding
  <2>2. ASSUME NEW i \in Busy
        PROVE  Only(held, Names(slot[i].plan)) \in {Flat, Owned(slot[i].plan)}
    <3>1. i \in Slots /\ Only(held, Names(slot[i].plan)) \in Rightful(slot[i], order[i])
      BY <2>1 DEF Ours, Busy
    <3>2. Rightful(slot[i], order[i]) \subseteq {Flat, Owned(slot[i].plan)}
      BY DEF Rightful, Before, After
    <3> QED BY <3>1, <3>2
  <2> QED BY <2>1, <2>2 DEF Ours
<1> QED BY <1>1, Inductive, PTL

\* owns() accounts for the book's legs at every moment of an execution.
THEOREM Owns == Spec => []BookOwns
<1>1. IInv => BookOwns
  <2> SUFFICES ASSUME IInv, ~tampered, \A i \in Slots : slot[i].phase # "halted"
               PROVE  Explained(held)
    BY DEF BookOwns
  <2>1. Ours(held)
    BY DEF IInv, Holding
  <2>2. ASSUME NEW i \in Slots, slot[i].phase # "idle"
        PROVE  Only(held, Claimed(slot[i])) \in Inventories(slot[i])
    <3>1. Only(held, Names(slot[i].plan)) \in Rightful(slot[i], order[i])
      BY <2>1, <2>2 DEF Ours
    <3> QED BY <2>2, <3>1, SlotFacts
         DEF IInv, Ordering, Rightful, Before, After, Inventories, Claimed, Slot
  <2> QED BY <2>1, <2>2 DEF Explained, Ours, Claimed
<1> QED BY <1>1, Inductive, PTL

\* An entry starts only beside a slot at rest: what was judged at the start of
\* the tick is still so when the new slot, which comes first, is served.
THEOREM OneEntry == Spec => EntryAlone
<1> DEFINE Alone ==
      \A i \in Slots : slot[i].phase = "idle" /\ slot'[i].phase = "working" =>
        \A j \in Slots \ {i} : slot[j].phase \in {"idle", "open"}
<1>1. ASSUME IInv, [Next]_vars PROVE Alone
  <2> SUFFICES ASSUME NEW i \in Slots, slot[i].phase = "idle", slot'[i].phase = "working"
               PROVE  \A j \in Slots \ {i} : slot[j].phase \in {"idle", "open"}
    OBVIOUS
  <2>1. slot \in [Slots -> Slot]
    BY <1>1 DEF IInv, Base, TypeOK
  <2>2. ~(UNCHANGED slot)
    OBVIOUS
  <2>3. PICK k \in Slots : SlotTick(k)
    BY <1>1, <2>2 DEF Next, vars, Begin, Crash, Tamper, Execute, Fail, botVars
  <2>4. k = i /\ Admit(i)
    BY <2>1, <2>2, <2>3 DEF SlotTick, Read, Skip, HaltUnmatched, AskExit, Withdraw, Commit,
       HaltChanged, HaltSettling, Settle, Admit, Becomes
  <2> QED BY <1>1, <2>4 DEF Admit, Acting, Turn, IInv, Chosen
<1> QED BY <1>1, Inductive, PTL DEF Spec, EntryAlone
=============================================================================
