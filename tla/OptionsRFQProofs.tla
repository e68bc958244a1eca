-------------------------- MODULE OptionsRFQProofs --------------------------
(* Proofs about the single-slot RFQ lifecycle, for all its constants. *)
EXTENDS OptionsRFQ, FiniteSetTheorems, TLAPS

USE DEF Labels, Holdings, Intents, Phases, InFlight

-----------------------------------------------------------------------------
(* Types *)

LEMMA JournalFields ==
  ASSUME NEW j \in Journal
  PROVE  /\ j.phase \in Phases /\ j.intent \in Intents
         /\ j.label \in 0 .. MaxRequests /\ j.nonce \in 0 .. MaxNonce
         /\ j.submitted \in Nat /\ j.acked \in BOOLEAN /\ j.acks \in Nat
         /\ j.force \in BOOLEAN /\ j.trades \in Nat /\ j.v3 \in BOOLEAN
  BY DEF Journal

\* What _acknowledge, alone or with the save that follows it, makes of a
\* journal.
LEMMA AcknowledgedType ==
  ASSUME NEW j \in Journal
  PROVE  /\ Acknowledged(j) \in Journal
         /\ \A p \in Phases : [Acknowledged(j) EXCEPT !.phase = p] \in Journal
         /\ \A p \in Phases :
              [Acknowledged(j) EXCEPT !.phase = p, !.trades = @ + 1] \in Journal
<1>1. j.acks + 1 \in Nat
  BY JournalFields
<1>2. Acknowledged(j) \in Journal
  BY <1>1 DEF Acknowledged, Journal
<1>3. ASSUME NEW k \in Journal, NEW p \in Phases
      PROVE  [k EXCEPT !.phase = p] \in Journal
  BY DEF Journal
<1>4. ASSUME NEW k \in Journal, NEW p \in Phases
      PROVE  [k EXCEPT !.phase = p, !.trades = @ + 1] \in Journal
  <2>1. k.trades + 1 \in Nat
    BY JournalFields
  <2> QED
    BY <2>1 DEF Journal
<1> QED
  BY <1>2, <1>3, <1>4

LEMMA AcknowledgedFields ==
  ASSUME NEW j \in Journal
  PROVE  LET k == Acknowledged(j) IN
         /\ k.phase = j.phase /\ k.label = j.label
         /\ k.intent = j.intent /\ k.nonce = j.nonce
  BY DEF Acknowledged, Journal

-----------------------------------------------------------------------------
LEMMA InitIInv == Init => IInv
<1> SUFFICES ASSUME Init PROVE IInv
  OBVIOUS
<1> USE DEF Init, FreshJournal, LegacyJournal, NoRFQ
<1>1. FreshJournal \in Journal /\ LegacyJournal \in Journal
  <2>1. FreshJournal \in Journal
    BY BoundsAssumption DEF Journal
  <2> QED
    BY <2>1 DEF Journal
<1>2. NoRFQ \in RFQ
  BY BoundsAssumption DEF RFQ
<1>3. TypeOK
  <2>1. journal \in Journal /\ held \in Holdings
    BY <1>1
  <2>2. rfqs \in [Labels -> RFQ]
    BY <1>2
  <2> QED
    <3>1. 0 \in 0 .. MaxConsumed
      BY BoundsAssumption
    <3> QED
      BY <2>1, <2>2, <3>1 DEF TypeOK, Pcs, Awaits
<1>4. Control /\ LabelsDrawn /\ InHand /\ Executions
  BY DEF Control, LabelsDrawn, InHand, Executions, Quoting
<1>5. Holding /\ NeverReplayed /\ WriteAhead /\ OneLiveRFQ
  BY DEF Holding, NeverReplayed, WriteAhead, OneLiveRFQ
<1> QED
  BY <1>3, <1>4, <1>5 DEF IInv

\* A step that leaves the journal, the wire and the venue alone.
LEMMA QuietStep ==
  ASSUME IInv, Control', pc' \in Pcs, seen' \in Holdings,
         consumed' \in 0 .. MaxConsumed,
         pc' = "send" => pc = "send", pc' = "submit" => pc = "submit",
         UNCHANGED <<journal, wire, venueVars>>
  PROVE  IInv'
<1> USE DEF IInv, venueVars
<1>1. TypeOK'
  BY DEF TypeOK
<1>2. LabelsDrawn' /\ InHand'
  BY DEF LabelsDrawn, InHand
<1>3. Executions' /\ Holding'
  BY DEF Executions, Holding
<1>4. NeverReplayed' /\ WriteAhead' /\ OneLiveRFQ'
  BY DEF NeverReplayed, WriteAhead, OneLiveRFQ, Request
<1> QED
  BY <1>1, <1>2, <1>3, <1>4

\* Giving up, in a state that leaves no execution behind.
LEMMA HaltStep ==
  ASSUME IInv, journal' = [journal EXCEPT !.phase = "halted"]
               \/ journal' = [Acknowledged(journal) EXCEPT !.phase = "halted"],
         Return, UNCHANGED <<consumed, wire, venueVars>>,
         \A m \in InFlight : m.kind # "execute",
         \A m \in InFlight : m.kind = "send" => journal.phase = "requesting"
  PROVE  IInv'
<1> USE DEF IInv, venueVars, Return
<1>1. TypeOK'
  <2>1. journal' \in Journal
    <3>1. CASE journal' = [journal EXCEPT !.phase = "halted"]
      BY <3>1 DEF TypeOK, Journal
    <3>2. CASE journal' = [Acknowledged(journal) EXCEPT !.phase = "halted"]
      BY <3>2, AcknowledgedType DEF TypeOK
    <3> QED
      BY <3>1, <3>2
  <2> QED
    BY <2>1 DEF TypeOK, Pcs
<1>a. /\ journal'.phase = "halted" /\ journal'.label = journal.label
      /\ journal'.intent = journal.intent /\ journal'.nonce = journal.nonce
  BY DEF TypeOK, Journal, Acknowledged
<1>2. Control'
  BY <1>a DEF Control
<1>3. LabelsDrawn' /\ InHand'
  BY <1>a DEF LabelsDrawn, InHand
<1>4. Executions' /\ Holding'
  BY <1>a DEF Executions, Holding
<1>5. NeverReplayed' /\ WriteAhead' /\ OneLiveRFQ'
  BY <1>a DEF NeverReplayed, WriteAhead, OneLiveRFQ, Request, TypeOK, Message
<1> QED
  BY <1>1, <1>2, <1>3, <1>4, <1>5

\* A request in flight belongs to an RFQ the venue has not acted on.
LEMMA NoneInFlight ==
  ASSUME IInv
  PROVE  /\ journal.phase \notin {"requesting", "halted"} =>
              \A m \in InFlight : m.kind # "send"
         /\ journal.phase # "settling" => \A m \in InFlight : m.kind # "execute"
         /\ journal.phase = "settling" /\ rfqs[journal.label].nonce = journal.nonce =>
              \A m \in InFlight : m.kind # "execute"
         /\ pc = "submit" => \A m \in InFlight : m.kind # "execute"
<1> USE DEF IInv
<1>1. journal.phase = "settling" => journal.nonce # 0
  BY DEF Control
<1>2. \A m \in InFlight : m.kind = "execute" =>
         /\ journal.phase = "settling" /\ m.label = journal.label
         /\ rfqs[m.label].nonce = 0 /\ pc # "submit"
  BY DEF WriteAhead, Request, InHand, Executions, TypeOK
<1> QED
  BY <1>1, <1>2 DEF WriteAhead

\* A save that moves the RFQ in hand to a later phase, or none.
LEMMA KeepStep ==
  ASSUME IInv, Control', Holding', journal' \in Journal,
         journal'.label = journal.label, journal'.intent = journal.intent,
         journal'.nonce = journal.nonce,
         pc' \in Pcs \ {"send", "submit"}, seen' \in Holdings,
         \A m \in InFlight : m.kind # "send" /\ m.kind # "execute",
         journal'.phase \notin {"requesting", "halted"},
         journal'.phase \in {"quoting_entry", "quoting_exit", "cancelling"} =>
           /\ journal.phase \in {"requesting", "quoting_entry", "quoting_exit", "cancelling"}
           /\ rfqs[journal.label].status # "none",
         journal'.phase = "settling" => journal.phase = "settling",
         journal'.phase \in {"idle", "open"} =>
           \A l \in Labels : l = journal.label => rfqs[l].status # "open",
         UNCHANGED <<consumed, wire, venueVars>>
  PROVE  IInv'
<1> USE DEF IInv, venueVars
<1>1. TypeOK'
  BY DEF TypeOK
<1>2. LabelsDrawn'
  BY DEF LabelsDrawn
<1>5. InHand'
  <2>1. pc' # "send" /\ pc' # "submit"
    OBVIOUS
  <2>2. journal'.phase \in {"quoting_entry", "quoting_exit", "cancelling", "settling"} =>
          rfqs[journal.label].status # "none"
    BY DEF InHand
  <2>3. journal'.phase \in {"requesting", "quoting_entry", "quoting_exit", "cancelling"} =>
          rfqs[journal.label].nonce = 0
    BY DEF InHand
  <2> QED
    BY <2>1, <2>2, <2>3 DEF InHand
<1>3. Executions'
  <2>1. /\ pc' # "submit" /\ journal'.phase \in Phases
        /\ journal'.phase \in {"quoting_entry", "quoting_exit", "cancelling"} =>
             journal.phase \notin {"settling", "idle", "open", "halted"}
    BY JournalFields
  <2> QED
    BY <2>1 DEF Executions
<1>4. NeverReplayed' /\ WriteAhead' /\ OneLiveRFQ'
  BY DEF NeverReplayed, WriteAhead, OneLiveRFQ
<1> QED
  BY <1>1, <1>2, <1>3, <1>4, <1>5

-----------------------------------------------------------------------------
(* The account and the request *)

LEMMA AccountStep == IInv /\ Account => IInv'
<1> SUFFICES ASSUME IInv, Account PROVE IInv'
  OBVIOUS
<1>1. CASE HaltUnowned
  BY <1>1, HaltStep, NoneInFlight DEF HaltUnowned, Halt
<1>2. CASE Decline
  <2>1. Control'
    BY <1>2 DEF IInv, Decline, Return, Control
  <2> QED
    BY <1>2, <2>1, QuietStep DEF Decline, Return, IInv, TypeOK, Pcs
<1>3. CASE Admit
  <2>1. Control'
    BY <1>3 DEF IInv, Admit, Suspend, Control
  <2>2. consumed' \in 0 .. MaxConsumed
    BY <1>3, BoundsAssumption DEF Admit, IInv, TypeOK
  <2> QED
    BY <1>3, <2>1, <2>2, QuietStep DEF Admit, Suspend, IInv, TypeOK, Pcs
<1>4. CASE HaltUnmatched
  BY <1>4, HaltStep, NoneInFlight DEF HaltUnmatched, Halt, IInv, Control
<1>5. CASE ServiceOpen
  <2>1. Control'
    BY <1>5 DEF IInv, ServiceOpen, Suspend, Control
  <2> QED
    BY <1>5, <2>1, QuietStep DEF ServiceOpen, Suspend, IInv, TypeOK, Pcs
<1>6. CASE Recover
  <2>1. Control'
    BY <1>6 DEF IInv, Recover, Suspend, Control
  <2> QED
    BY <1>6, <2>1, QuietStep DEF Recover, Suspend, IInv, TypeOK, Pcs, Awaits
<1> QED
  BY <1>1, <1>2, <1>3, <1>4, <1>5, <1>6 DEF Account

LEMMA RequestedJournal ==
  ASSUME journal \in Journal, journal.label < MaxRequests, NEW force \in BOOLEAN
  PROVE  LET k == Requested(force) IN
         /\ k \in Journal
         /\ k.phase = "requesting" /\ k.label = journal.label + 1
         /\ k.label \in Labels /\ k.nonce = journal.nonce
         /\ k.intent = IF journal.phase = "idle" THEN "entry" ELSE "exit"
<1>1. journal.label + 1 \in 0 .. MaxRequests /\ journal.label + 1 \in Labels
  BY JournalFields, BoundsAssumption
<1> QED
  BY <1>1 DEF Requested, Journal

LEMMA SaveRequestStep == IInv /\ SaveRequest => IInv'
<1> SUFFICES ASSUME IInv, SaveRequest PROVE IInv'
  OBVIOUS
<1> USE DEF IInv, venueVars
<1>0. /\ pc = "request" /\ journal.phase \in {"idle", "open"} /\ pc' = "send"
      /\ UNCHANGED <<seen, consumed, wire, rfqs, held, tampered, handled>>
  BY DEF SaveRequest, Control, Suspend
<1>1. /\ journal' \in Journal
      /\ journal'.phase = "requesting" /\ journal'.label = journal.label + 1
      /\ journal'.label \in Labels /\ journal'.nonce = journal.nonce
      /\ journal'.intent = IF journal.phase = "idle" THEN "entry" ELSE "exit"
  BY RequestedJournal DEF SaveRequest, TypeOK
<1>2. TypeOK'
  BY <1>0, <1>1 DEF TypeOK, Pcs
<1>3. /\ rfqs[journal'.label].status = "none" /\ rfqs[journal'.label].nonce = 0
      /\ \A m \in wire : m.label # journal'.label
  BY <1>1, JournalFields DEF LabelsDrawn, TypeOK, Message, RFQ
<1>4. \A m \in InFlight : m.kind # "send" /\ m.kind # "execute"
  BY <1>0, NoneInFlight
<1>5. Control'
  BY <1>0, <1>1 DEF Control
<1>6. LabelsDrawn'
  BY <1>0, <1>1, JournalFields DEF LabelsDrawn, TypeOK, Message
<1>7. InHand'
  BY <1>0, <1>1, <1>3, <1>4 DEF InHand
<1>8. Executions'
  BY <1>0, <1>1, <1>3 DEF Executions
<1>9. Holding'
  BY <1>0, <1>1, <1>3 DEF Holding, Before
<1>10. NeverReplayed' /\ WriteAhead' /\ OneLiveRFQ'
  BY <1>0, <1>1, <1>4 DEF NeverReplayed, WriteAhead, OneLiveRFQ
<1> QED
  BY <1>2, <1>5, <1>6, <1>7, <1>8, <1>9, <1>10

LEMMA SendStep == IInv /\ Send => IInv'
<1> SUFFICES ASSUME IInv, Send PROVE IInv'
  OBVIOUS
<1> USE DEF IInv, venueVars
<1>0. /\ pc = "send" /\ journal.phase = "requesting" /\ pc' = "sent"
      /\ journal.label \in Labels
      /\ UNCHANGED <<journal, seen, consumed, rfqs, held, tampered, handled>>
  BY DEF Send, Control, Suspend
<1>1. PICK r : r = Request("send")
  OBVIOUS
<1>a. r \in Message
  BY <1>0, <1>1, JournalFields, BoundsAssumption DEF Request, Message, TypeOK
<1>2. /\ r.kind = "send" /\ r.label = journal.label /\ r.nonce = 0
      /\ wire' = wire \cup {r} /\ r \in Message /\ r \notin wire
  BY <1>0, <1>1, <1>a DEF Request, Send, InHand
<1>3. TypeOK'
  BY <1>0, <1>2 DEF TypeOK, Pcs, Awaits
<1>4. Control' /\ LabelsDrawn'
  BY <1>0, <1>2 DEF Control, LabelsDrawn, TypeOK, Journal
<1>5. rfqs[journal.label].status = "none"
  BY <1>0 DEF InHand
<1>6. InHand'
  BY <1>0, <1>2, <1>5 DEF InHand
<1>7. Executions' /\ Holding'
  BY <1>0, <1>2 DEF Executions, Holding
<1>8. NeverReplayed'
  BY <1>0, <1>2 DEF NeverReplayed, InHand
<1>9. WriteAhead' /\ OneLiveRFQ'
  BY <1>0, <1>1, <1>2 DEF WriteAhead, OneLiveRFQ, Request
<1> QED
  BY <1>3, <1>4, <1>6, <1>7, <1>8, <1>9

LEMMA AcceptStep == IInv /\ Accept => IInv'
<1> SUFFICES ASSUME IInv, Accept PROVE IInv'
  OBVIOUS
<1>0. /\ journal.phase = "requesting" /\ rfqs[journal.label].status # "none"
      /\ journal \in Journal /\ journal' = [journal EXCEPT !.phase = Quoting(journal.intent)]
      /\ pc' = "ready" /\ seen' = "flat"
      /\ UNCHANGED <<consumed, wire, venueVars>>
  BY DEF Accept, Return, IInv, Control, TypeOK
<1>1. /\ journal' \in Journal /\ journal'.phase = Quoting(journal.intent)
      /\ journal'.phase \in {"quoting_entry", "quoting_exit"}
      /\ journal'.label = journal.label /\ journal'.intent = journal.intent
      /\ journal'.nonce = journal.nonce
  BY <1>0 DEF Quoting, Journal
<1>2. \A m \in InFlight : m.kind # "send" /\ m.kind # "execute"
  BY <1>0, NoneInFlight DEF IInv, InHand, WriteAhead, Request
<1>3. Control'
  BY <1>0, <1>1 DEF Control, IInv
<1>4. Holding'
  BY <1>0, <1>1 DEF Holding, IInv, venueVars
<1> QED
  BY <1>0, <1>1, <1>2, <1>3, <1>4, KeepStep DEF Pcs

LEMMA AskStep == IInv /\ Ask => IInv'
<1> SUFFICES ASSUME IInv, NotListed PROVE IInv'
  BY SaveRequestStep, SendStep, AcceptStep DEF Ask
<1>1. Control'
  BY DEF IInv, NotListed, Return, Control
<1> QED
  BY <1>1, QuietStep DEF NotListed, Return, IInv, TypeOK, Pcs

-----------------------------------------------------------------------------
(* Quoting and executing *)

LEMMA SaveCancelStep ==
  ASSUME IInv, SaveCancel, UNCHANGED <<seen, consumed, wire, venueVars>>,
         journal.phase \in {"quoting_entry", "quoting_exit"}
  PROVE  IInv'
<1>1. /\ journal' \in Journal /\ journal'.phase = "cancelling"
      /\ journal'.label = journal.label /\ journal'.intent = journal.intent
      /\ journal'.nonce = journal.nonce /\ pc' = "cancel"
  BY DEF SaveCancel, Suspend, IInv, TypeOK, Journal
<1>2. \A m \in InFlight : m.kind # "send" /\ m.kind # "execute"
  BY NoneInFlight
<1>3. Control'
  BY <1>1 DEF Control, IInv
<1>4. Holding'
  BY <1>1 DEF Holding, IInv, venueVars
<1>5. rfqs[journal.label].status # "none" /\ seen' \in Holdings
  BY DEF IInv, InHand, TypeOK
<1> QED
  BY <1>1, <1>2, <1>3, <1>4, <1>5, KeepStep DEF Pcs

LEMMA NoExecutionStep == IInv /\ NoExecution => IInv'
<1> SUFFICES ASSUME IInv, NoExecution PROVE IInv'
  OBVIOUS
<1>0. /\ journal.phase \in {"quoting_entry", "quoting_exit", "cancelling"}
      /\ rfqs[journal.label].status = "cancelled"
      /\ pc' = "ready" /\ seen' = "flat" /\ UNCHANGED <<consumed, wire, venueVars>>
  BY DEF NoExecution, Return, IInv, Control
<1>1. /\ journal' \in Journal
      /\ journal'.phase = IF journal.intent = "exit" THEN "open" ELSE "idle"
      /\ journal'.label = journal.label /\ journal'.intent = journal.intent
      /\ journal'.nonce = journal.nonce
  BY DEF NoExecution, IInv, TypeOK, Journal
<1>2. \A m \in InFlight : m.kind # "send" /\ m.kind # "execute"
  BY <1>0, NoneInFlight
<1>3. Control'
  BY <1>0, <1>1 DEF Control, IInv
<1>4. Holding'
  BY <1>0, <1>1, JournalFields DEF Holding, IInv, venueVars, Before, TypeOK
<1> QED
  BY <1>0, <1>1, <1>2, <1>3, <1>4, KeepStep DEF Pcs

LEMMA ReadOffersStep == IInv /\ ReadOffers => IInv'
<1> SUFFICES ASSUME IInv, ReadOffers PROVE IInv'
  OBVIOUS
<1>0. /\ journal.phase \in {"quoting_entry", "quoting_exit"}
      /\ rfqs[journal.label].status = "open"
      /\ pc' = "offers" /\ UNCHANGED <<seen, consumed, wire, venueVars>>
  BY DEF ReadOffers, Suspend
<1>1. /\ journal' \in Journal /\ journal'.phase = journal.phase
      /\ journal'.label = journal.label /\ journal'.intent = journal.intent
      /\ journal'.nonce = journal.nonce
  BY DEF ReadOffers, IInv, TypeOK, Journal
<1>2. \A m \in InFlight : m.kind # "send" /\ m.kind # "execute"
  BY <1>0, NoneInFlight
<1>3. Control'
  BY <1>0, <1>1 DEF Control, IInv
<1>4. Holding'
  BY <1>0, <1>1 DEF Holding, IInv, venueVars
<1>5. seen' \in Holdings
  BY <1>0 DEF IInv, TypeOK
<1> QED
  BY <1>0, <1>1, <1>2, <1>3, <1>4, <1>5, KeepStep DEF Pcs, Awaits

LEMMA NextNonceBound ==
  ASSUME journal \in Journal, NEW clock \in 0 .. MaxNonce, NextNonce(clock) <= MaxNonce
  PROVE  NextNonce(clock) \in 0 .. MaxNonce /\ NextNonce(clock) > journal.nonce
  BY JournalFields, BoundsAssumption DEF NextNonce

LEMMA SaveExecutionStep == IInv /\ SaveExecution => IInv'
<1> SUFFICES ASSUME IInv, SaveExecution PROVE IInv'
  OBVIOUS
<1> USE DEF IInv, venueVars
<1>0. /\ journal \in Journal /\ journal.phase \in {"quoting_entry", "quoting_exit"}
      /\ journal.phase = Quoting(journal.intent)
      /\ pc' = "submit" /\ UNCHANGED <<seen, consumed, wire, rfqs, held, tampered, handled>>
  BY DEF SaveExecution, Suspend, Control, TypeOK, Quoting
<1>1. PICK clock \in 0 .. MaxNonce :
        /\ NextNonce(clock) <= MaxNonce
        /\ journal' = [journal EXCEPT
             !.phase = "settling", !.nonce = NextNonce(clock),
             !.submitted = @ + 1, !.acked = FALSE]
  BY DEF SaveExecution
<1>2. NextNonce(clock) \in 0 .. MaxNonce /\ NextNonce(clock) > journal.nonce
  BY <1>0, <1>1, NextNonceBound
<1>3. /\ journal' \in Journal /\ journal'.phase = "settling"
      /\ journal'.label = journal.label /\ journal'.intent = journal.intent
      /\ journal'.nonce = NextNonce(clock)
  <2>1. journal.submitted + 1 \in Nat
    BY <1>0, JournalFields
  <2> QED
    BY <1>0, <1>1, <1>2, <2>1 DEF Journal
<1>4. \A m \in InFlight : m.kind # "send" /\ m.kind # "execute"
  BY <1>0, NoneInFlight
<1>5. TypeOK'
  BY <1>0, <1>3 DEF TypeOK, Pcs
<1>6. Control'
  BY <1>0, <1>2, <1>3, JournalFields DEF Control
<1>7. LabelsDrawn'
  BY <1>0, <1>3 DEF LabelsDrawn
<1>8. InHand'
  BY <1>0, <1>3, <1>4 DEF InHand
<1>9. Executions'
  BY <1>0, <1>2, <1>3, JournalFields DEF Executions
<1>10. Holding'
  BY <1>0, <1>3 DEF Holding
<1>11. NeverReplayed' /\ WriteAhead' /\ OneLiveRFQ'
  BY <1>0, <1>3, <1>4 DEF NeverReplayed, WriteAhead, OneLiveRFQ
<1> QED
  BY <1>5, <1>6, <1>7, <1>8, <1>9, <1>10, <1>11

LEMMA SubmitStep == IInv /\ Submit => IInv'
<1> SUFFICES ASSUME IInv, Submit PROVE IInv'
  OBVIOUS
<1> USE DEF IInv, venueVars
<1>0. /\ pc = "submit" /\ journal.phase = "settling" /\ pc' = "submitted"
      /\ journal.label \in Labels /\ journal.nonce \in 1 .. journal.nonce
      /\ UNCHANGED <<journal, seen, consumed, rfqs, held, tampered, handled>>
  BY JournalFields DEF Submit, Control, Suspend, TypeOK
<1>1. PICK r : r = Request("execute")
  OBVIOUS
<1>2. r \in Message
  BY <1>0, <1>1, JournalFields DEF Request, Message, TypeOK
<1>3. /\ r.kind = "execute" /\ r.label = journal.label /\ r.nonce = journal.nonce
      /\ wire' = wire \cup {r}
      /\ \A m \in wire : m.kind = "execute" =>
           m.label # journal.label /\ m.nonce # journal.nonce
  <2>1. \A m \in wire : m.kind = "execute" =>
          m.label # journal.label /\ m.nonce # journal.nonce
    BY <1>0, JournalFields DEF Executions, TypeOK
  <2> QED
    BY <1>0, <1>1, <2>1 DEF Request, Submit
<1>4. TypeOK'
  BY <1>0, <1>2, <1>3 DEF TypeOK, Pcs, Awaits
<1>5. Control' /\ LabelsDrawn'
  BY <1>0, <1>3, JournalFields DEF Control, LabelsDrawn, TypeOK
<1>6. InHand'
  BY <1>0, <1>3 DEF InHand
<1>7. Executions' /\ Holding'
  BY <1>0, <1>3 DEF Executions, Holding
<1>8. NeverReplayed'
  BY <1>0, <1>3 DEF NeverReplayed
<1>9. WriteAhead' /\ OneLiveRFQ'
  BY <1>0, <1>1, <1>3 DEF WriteAhead, OneLiveRFQ, Request
<1> QED
  BY <1>4, <1>5, <1>6, <1>7, <1>8, <1>9

LEMMA CancelStep == IInv /\ Cancel => IInv'
<1> SUFFICES ASSUME IInv, Cancel PROVE IInv'
  OBVIOUS
<1> USE DEF IInv, venueVars
<1>0. /\ pc = "cancel" /\ journal.phase = "cancelling" /\ pc' = "ready" /\ seen' = "flat"
      /\ journal.label \in Labels
      /\ UNCHANGED <<journal, consumed, rfqs, held, tampered, handled>>
  BY DEF Cancel, Control, Return
<1>1. PICK r : r = Request("cancel")
  OBVIOUS
<1>2. r \in Message
  BY <1>0, <1>1, JournalFields, BoundsAssumption DEF Request, Message, TypeOK
<1>3. r.kind = "cancel" /\ r.label = journal.label /\ wire' = wire \cup {r}
  BY <1>1 DEF Request, Cancel
<1>4. TypeOK'
  BY <1>0, <1>2, <1>3 DEF TypeOK, Pcs
<1>5. Control' /\ LabelsDrawn'
  BY <1>0, <1>3, JournalFields DEF Control, LabelsDrawn, TypeOK
<1>6. InHand'
  BY <1>0, <1>3 DEF InHand
<1>7. Executions' /\ Holding'
  BY <1>0, <1>3 DEF Executions, Holding
<1>8. NeverReplayed' /\ WriteAhead' /\ OneLiveRFQ'
  BY <1>0, <1>3 DEF NeverReplayed, WriteAhead, OneLiveRFQ, Request
<1> QED
  BY <1>4, <1>5, <1>6, <1>7, <1>8

\* A pass over the execution row that is acknowledged, and what follows it.
LEMMA AcknowledgedStep ==
  ASSUME IInv, journal.phase = "settling", rfqs[journal.label].nonce = journal.nonce,
         NEW p \in {"settling", "open", "idle"},
         p = "open" => journal.intent = "entry", p = "idle" => journal.intent = "exit",
         \/ journal' = Acknowledged(journal) /\ p = "settling"
         \/ journal' = [Acknowledged(journal) EXCEPT !.phase = p]
         \/ journal' = [Acknowledged(journal) EXCEPT !.phase = p, !.trades = @ + 1],
         Return, UNCHANGED <<consumed, wire, venueVars>>
  PROVE  IInv'
<1>0. journal \in Journal /\ pc' = "ready" /\ seen' = "flat"
  BY DEF IInv, TypeOK, Return
<1>a. Acknowledged(journal) \in Journal
  BY <1>0, AcknowledgedType
<1>1. journal' \in Journal
  BY <1>0, AcknowledgedType
<1>2. /\ journal'.phase = p /\ journal'.label = journal.label
      /\ journal'.intent = journal.intent /\ journal'.nonce = journal.nonce
  BY <1>0, <1>a, AcknowledgedFields DEF Journal
<1>3. \A m \in InFlight : m.kind # "send" /\ m.kind # "execute"
  BY NoneInFlight
<1>4. journal.label \in Labels /\ rfqs[journal.label].status = "filled"
  BY DEF IInv, Control, LabelsDrawn
<1>5. Control'
  BY <1>0, <1>2 DEF Control, IInv
<1>6. Holding'
  BY <1>2, <1>4 DEF Holding, IInv, venueVars, Target
<1> QED
  BY <1>0, <1>1, <1>2, <1>3, <1>4, <1>5, <1>6, KeepStep DEF Pcs

LEMMA QuoteStep == IInv /\ Quote => IInv'
<1> SUFFICES ASSUME IInv, Quote PROVE IInv'
  OBVIOUS
<1>1. CASE HaltFilled
  BY <1>1, HaltStep, NoneInFlight DEF HaltFilled, Halt, IInv, Control
<1>2. CASE AwaitCancelled
  <2>1. Control'
    BY <1>2 DEF AwaitCancelled, Return, IInv, Control
  <2> QED
    BY <1>2, <2>1, QuietStep DEF AwaitCancelled, Return, IInv, TypeOK, Pcs
<1>3. CASE WithdrawEntry
  BY <1>3, SaveCancelStep DEF WithdrawEntry
<1>4. CASE NoDeal
  <2>0. journal.phase \in {"quoting_entry", "quoting_exit"}
    BY <1>4 DEF NoDeal, IInv, Control, Quoting
  <2>1. CASE Return /\ UNCHANGED journal
    <3>1. Control'
      BY <2>1 DEF Return, IInv, Control
    <3> QED
      BY <1>4, <2>1, <3>1, QuietStep DEF NoDeal, Return, IInv, TypeOK, Pcs
  <2>2. CASE SaveCancel /\ UNCHANGED seen
    BY <1>4, <2>0, <2>2, SaveCancelStep DEF NoDeal
  <2> QED
    BY <1>4, <2>1, <2>2 DEF NoDeal
<1>5. CASE Prepare
  <2>1. Control'
    BY <1>5 DEF Prepare, Suspend, IInv, Control
  <2> QED
    BY <1>5, <2>1, QuietStep DEF Prepare, Suspend, IInv, TypeOK, Pcs, Awaits
<1>6. CASE Overtaken
  BY <1>6, SaveCancelStep DEF Overtaken, IInv, Control, Quoting
<1>7. CASE HaltChanged
  BY <1>7, HaltStep, NoneInFlight DEF HaltChanged, Halt, IInv, Control, Quoting
<1>8. CASE Acknowledge
  BY <1>8, AcknowledgedStep DEF Acknowledge, IInv, Control
<1> QED
  BY <1>1, <1>2, <1>3, <1>4, <1>5, <1>6, <1>7, <1>8, NoExecutionStep, ReadOffersStep,
     SaveExecutionStep, SubmitStep, CancelStep DEF Quote

LEMMA SettleStep == IInv /\ Settle => IInv'
<1> SUFFICES ASSUME IInv, Settle PROVE IInv'
  OBVIOUS
<1>1. CASE NoRow
  <2>1. Control'
    BY <1>1 DEF NoRow, Return, IInv, Control
  <2> QED
    BY <1>1, <2>1, QuietStep DEF NoRow, Return, IInv, TypeOK, Pcs
<1>2. CASE HaltMismatched
  BY <1>2, HaltStep, NoneInFlight DEF HaltMismatched, RowIs, Halt, IInv, Control
<1>3. CASE HaltSettlement
  BY <1>3, HaltStep, NoneInFlight DEF HaltSettlement, RowIs, IInv, Control
<1>4. CASE AwaitInventory
  BY <1>4, AcknowledgedStep DEF AwaitInventory, RowIs, IInv, Control
<1>5. CASE SettleEntry
  BY <1>5, AcknowledgedStep DEF SettleEntry, RowIs, IInv, Control
<1>6. CASE SettleExit
  BY <1>6, AcknowledgedStep DEF SettleExit, RowIs, IInv, Control
<1> QED
  BY <1>1, <1>2, <1>3, <1>4, <1>5, <1>6 DEF Settle

-----------------------------------------------------------------------------
(* The venue *)

\* One RFQ changes, as the venue may change it, without a request's help.
LEMMA VenueUpdate ==
  ASSUME IInv, UNCHANGED <<botVars, wire>>, handled \subseteq handled', handled' \subseteq wire,
         held' \in Holdings, tampered' \in BOOLEAN, rfqs' \in [Labels -> RFQ], Holding',
         \A l \in Labels :
           /\ rfqs'[l].status = "none" => rfqs[l].status = "none"
           /\ rfqs'[l].status = "open" =>
                /\ l = journal.label
                /\ journal.phase \notin {"idle", "open"}
           /\ rfqs[l].status = "none" /\ rfqs'[l].status # "none" =>
                /\ l = journal.label /\ pc # "send"
                /\ \A m \in wire \ handled' : m.kind = "send" => m.label # l
           /\ rfqs'[l].status # "none" /\ l = journal.label => rfqs'[l].intent = journal.intent
           /\ rfqs'[l].nonce # 0 => rfqs'[l].status = "filled"
           /\ rfqs[l].nonce # rfqs'[l].nonce =>
                /\ l = journal.label /\ rfqs'[l].nonce = journal.nonce
                /\ journal.phase = "settling" /\ pc # "submit"
                /\ \A m \in wire \ handled' : m.kind = "execute" => m.label # l
  PROVE  IInv'
<1> USE DEF IInv, botVars
<1>1. TypeOK'
  BY DEF TypeOK
<1>2. Control'
  BY DEF Control
<1>3. LabelsDrawn'
  BY DEF LabelsDrawn
<1>4. InHand'
  <2>1. journal.phase \notin {"idle", "open", "halted"} => journal.label \in Labels
    BY DEF Control
  <2>2. pc = "send" => rfqs'[journal.label].status = "none"
    BY <2>1 DEF InHand, Control
  <2>3. \A m \in wire \ handled' :
          /\ m.kind = "send" => rfqs'[m.label].status = "none"
          /\ m.kind = "execute" => rfqs'[m.label].nonce = 0
    <3> SUFFICES ASSUME NEW m \in wire \ handled'
                 PROVE  /\ m.kind = "send" => rfqs'[m.label].status = "none"
                        /\ m.kind = "execute" => rfqs'[m.label].nonce = 0
      OBVIOUS
    <3>1. m \in InFlight /\ m.label \in Labels
      BY DEF TypeOK, Message
    <3> QED
      BY <3>1 DEF InHand
  <2>4. journal.phase \in {"quoting_entry", "quoting_exit", "cancelling", "settling"} =>
          rfqs'[journal.label].status # "none"
    BY <2>1 DEF InHand
  <2>5. \/ journal.phase \in {"requesting", "quoting_entry", "quoting_exit", "cancelling"}
        \/ pc = "submit"
        => rfqs'[journal.label].nonce = 0
    BY <2>1 DEF InHand, Control
  <2>6. \A l \in Labels : l = journal.label /\ rfqs'[l].nonce # 0 => rfqs'[l].nonce = journal.nonce
    BY DEF InHand
  <2> QED
    BY <2>2, <2>3, <2>4, <2>5, <2>6 DEF InHand
<1>5. Executions'
  BY DEF Executions
<1>6. NeverReplayed' /\ WriteAhead' /\ OneLiveRFQ'
  BY DEF NeverReplayed, WriteAhead, OneLiveRFQ, Request
<1> QED
  BY <1>1, <1>2, <1>3, <1>4, <1>5, <1>6

LEMMA OpenRFQStep == IInv /\ (\E m \in InFlight : OpenRFQ(m)) => IInv'
<1> SUFFICES ASSUME IInv, NEW m \in InFlight, OpenRFQ(m) PROVE IInv'
  OBVIOUS
<1>1. /\ m \in wire /\ m.label \in Labels /\ m.kind = "send" /\ m = Request("send")
      /\ m.label = journal.label /\ m.intent = journal.intent
      /\ journal.phase \in {"requesting", "halted"} /\ rfqs[m.label].status = "none"
  BY DEF OpenRFQ, IInv, TypeOK, Message, WriteAhead, InHand, Request
<1>2. /\ rfqs \in [Labels -> RFQ] /\ rfqs[m.label] \in RFQ
      /\ rfqs' = [rfqs EXCEPT ![m.label] = [@ EXCEPT !.status = "open", !.intent = m.intent]]
      /\ m.intent \in Intents
  BY <1>1, JournalFields DEF OpenRFQ, IInv, TypeOK
<1>3. /\ rfqs' \in [Labels -> RFQ]
      /\ rfqs'[m.label].status = "open" /\ rfqs'[m.label].intent = m.intent
      /\ rfqs'[m.label].nonce = rfqs[m.label].nonce
      /\ \A l \in Labels : l # m.label => rfqs'[l] = rfqs[l]
  BY <1>1, <1>2 DEF RFQ
<1>4. pc # "send"
  BY <1>1 DEF IInv, InHand
<1>5. \A n \in wire \ handled' : n.kind = "send" => n.label # m.label
  BY <1>1 DEF IInv, NeverReplayed, OpenRFQ
<1>6. Holding'
  BY <1>1, <1>3 DEF IInv, Holding, OpenRFQ, botVars
<1>7. rfqs[m.label].nonce = 0
  BY <1>1 DEF IInv, LabelsDrawn
<1>8. \A l \in Labels : l # m.label =>
        /\ rfqs[l].status = "open" => l = journal.label /\ journal.phase \notin {"idle", "open"}
        /\ rfqs[l].status # "none" /\ l = journal.label => rfqs[l].intent = journal.intent
        /\ rfqs[l].nonce # 0 => rfqs[l].status = "filled"
  BY DEF IInv, OneLiveRFQ, InHand, LabelsDrawn
<1>9. UNCHANGED <<botVars, wire, held, tampered>> /\ handled' = handled \cup {m}
  BY DEF OpenRFQ
<1>10. /\ handled \subseteq handled' /\ handled' \subseteq wire
       /\ held' \in Holdings /\ tampered' \in BOOLEAN
  BY <1>1, <1>9 DEF IInv, TypeOK
<1>11. \A l \in Labels :
         /\ rfqs'[l].status = "none" => rfqs[l].status = "none"
         /\ rfqs'[l].status = "open" => l = journal.label /\ journal.phase \notin {"idle", "open"}
         /\ rfqs[l].status = "none" /\ rfqs'[l].status # "none" =>
              /\ l = journal.label /\ pc # "send"
              /\ \A n \in wire \ handled' : n.kind = "send" => n.label # l
         /\ rfqs'[l].status # "none" /\ l = journal.label => rfqs'[l].intent = journal.intent
         /\ rfqs'[l].nonce # 0 => rfqs'[l].status = "filled"
  <2> SUFFICES ASSUME NEW l \in Labels
               PROVE  /\ rfqs'[l].status = "none" => rfqs[l].status = "none"
                      /\ rfqs'[l].status = "open" => l = journal.label /\ journal.phase \notin {"idle", "open"}
                      /\ rfqs[l].status = "none" /\ rfqs'[l].status # "none" =>
                           /\ l = journal.label /\ pc # "send"
                           /\ \A n \in wire \ handled' : n.kind = "send" => n.label # l
                      /\ rfqs'[l].status # "none" /\ l = journal.label => rfqs'[l].intent = journal.intent
                      /\ rfqs'[l].nonce # 0 => rfqs'[l].status = "filled"
    OBVIOUS
  <2>1. CASE l = m.label
    BY <1>1, <1>3, <1>4, <1>5, <1>7, <2>1
  <2>2. CASE l # m.label
    BY <1>3, <1>8, <2>2
  <2> QED
    BY <2>1, <2>2
<1> QED
  BY <1>3, <1>6, <1>9, <1>10, <1>11, VenueUpdate

\* An open RFQ is closed: withdrawn, expired, or taken by somebody else.
LEMMA CloseStep ==
  ASSUME IInv, NEW l \in Labels, rfqs[l].status = "open",
         NEW s \in {"cancelled", "filled"},
         rfqs' = [rfqs EXCEPT ![l].status = s], s = "filled" => tampered',
         held' \in Holdings, tampered' \in BOOLEAN, tampered => tampered',
         ~tampered' => held' = held,
         handled \subseteq handled', handled' \subseteq wire, UNCHANGED <<botVars, wire>>
  PROVE  IInv'
<1>1. /\ rfqs \in [Labels -> RFQ] /\ rfqs[l] \in RFQ
      /\ rfqs' = [rfqs EXCEPT ![l] = [@ EXCEPT !.status = s]]
  BY DEF IInv, TypeOK
<1>2. /\ rfqs' \in [Labels -> RFQ]
      /\ rfqs'[l].status = s /\ rfqs'[l].intent = rfqs[l].intent
      /\ rfqs'[l].nonce = rfqs[l].nonce
      /\ \A k \in Labels : k # l => rfqs'[k] = rfqs[k]
  BY <1>1 DEF RFQ
<1>3. l = journal.label
  BY DEF IInv, OneLiveRFQ
<1>4. Holding'
  BY <1>2, <1>3 DEF IInv, Holding, botVars
<1>5. rfqs[l].nonce = 0
  BY DEF IInv, LabelsDrawn
<1>6. \A k \in Labels :
        /\ rfqs[k].status = "open" => k = journal.label /\ journal.phase \notin {"idle", "open"}
        /\ rfqs[k].status # "none" /\ k = journal.label => rfqs[k].intent = journal.intent
        /\ rfqs[k].nonce # 0 => rfqs[k].status = "filled"
  BY DEF IInv, OneLiveRFQ, InHand, LabelsDrawn
<1> QED
  BY <1>2, <1>4, <1>5, <1>6, VenueUpdate

LEMMA ExecuteStep == IInv /\ (\E m \in InFlight : Execute(m)) => IInv'
<1> SUFFICES ASSUME IInv, NEW m \in InFlight, Execute(m) PROVE IInv'
  OBVIOUS
<1>1. /\ m \in wire /\ m.label \in Labels /\ m.kind = "execute" /\ m = Request("execute")
      /\ m.label = journal.label /\ m.nonce = journal.nonce /\ m.intent = journal.intent
      /\ journal.phase = "settling" /\ pc # "submit" /\ rfqs[m.label].status = "open"
  BY DEF Execute, IInv, TypeOK, Message, WriteAhead, Executions, Request
<1>2. PICK row \in Rows :
        rfqs' = [rfqs EXCEPT ![m.label] =
                   [@ EXCEPT !.status = "filled", !.nonce = m.nonce, !.row = row]]
  BY DEF Execute
<1>3. /\ rfqs \in [Labels -> RFQ] /\ rfqs[m.label] \in RFQ
      /\ m.nonce \in 0 .. MaxNonce /\ m.nonce # 0
      /\ row \in {"clean", "failed", "mismatched", "overcharged"}
  BY <1>1, JournalFields, VenueAssumption DEF IInv, TypeOK, Control
<1>4. /\ rfqs' \in [Labels -> RFQ]
      /\ rfqs'[m.label].status = "filled" /\ rfqs'[m.label].nonce = m.nonce
      /\ rfqs'[m.label].intent = rfqs[m.label].intent
      /\ \A l \in Labels : l # m.label => rfqs'[l] = rfqs[l]
  BY <1>1, <1>2, <1>3 DEF RFQ
<1>5. \A n \in wire \ handled' : n.kind = "execute" => n.label # m.label
  BY <1>1 DEF IInv, NeverReplayed, Execute
<1>6. Holding'
  BY <1>1, <1>4, JournalFields DEF IInv, TypeOK, Holding, Execute, botVars, Traded, Before, Target
<1>7. held' \in Holdings
  BY DEF Execute, Traded, Target
<1>8. \A l \in Labels :
        /\ rfqs[l].status = "open" => l = journal.label /\ journal.phase \notin {"idle", "open"}
        /\ rfqs[l].status # "none" /\ l = journal.label => rfqs[l].intent = journal.intent
        /\ rfqs[l].nonce # 0 => rfqs[l].status = "filled"
  BY DEF IInv, OneLiveRFQ, InHand, LabelsDrawn
<1> QED
  <2>1. /\ UNCHANGED <<botVars, wire>> /\ tampered' \in BOOLEAN
        /\ handled \subseteq handled' /\ handled' \subseteq wire
    BY <1>1 DEF Execute, IInv, TypeOK
  <2>2. \A l \in Labels :
           /\ rfqs'[l].status = "none" => rfqs[l].status = "none"
           /\ rfqs'[l].status = "open" =>
                l = journal.label /\ journal.phase \notin {"idle", "open"}
           /\ rfqs[l].status = "none" /\ rfqs'[l].status # "none" =>
                /\ l = journal.label /\ pc # "send"
                /\ \A n \in wire \ handled' : n.kind = "send" => n.label # l
           /\ rfqs'[l].status # "none" /\ l = journal.label => rfqs'[l].intent = journal.intent
           /\ rfqs'[l].nonce # 0 => rfqs'[l].status = "filled"
           /\ rfqs[l].nonce # rfqs'[l].nonce =>
                /\ l = journal.label /\ rfqs'[l].nonce = journal.nonce
                /\ journal.phase = "settling" /\ pc # "submit"
                /\ \A n \in wire \ handled' : n.kind = "execute" => n.label # l
    BY <1>1, <1>4, <1>5, <1>8
  <2> QED
    BY <1>4, <1>6, <1>7, <2>1, <2>2, VenueUpdate

LEMMA LoseStep == IInv /\ (\E m \in InFlight : Lose(m)) => IInv'
<1> SUFFICES ASSUME IInv, NEW m \in InFlight, Lose(m) PROVE IInv'
  OBVIOUS
<1>1. Holding'
  BY DEF IInv, Holding, Lose, botVars
<1>2. \A l \in Labels :
        /\ rfqs[l].status = "open" => l = journal.label /\ journal.phase \notin {"idle", "open"}
        /\ rfqs[l].status # "none" /\ l = journal.label => rfqs[l].intent = journal.intent
        /\ rfqs[l].nonce # 0 => rfqs[l].status = "filled"
  BY DEF IInv, OneLiveRFQ, InHand, LabelsDrawn
<1> QED
  BY <1>1, <1>2, VenueUpdate DEF Lose, IInv, TypeOK

LEMMA FailBatchStep == IInv /\ (\E l \in Labels : FailBatch(l)) => IInv'
<1> SUFFICES ASSUME IInv, NEW l \in Labels, FailBatch(l) PROVE IInv'
  OBVIOUS
<1>1. /\ rfqs \in [Labels -> RFQ] /\ rfqs[l] \in RFQ
      /\ rfqs' = [rfqs EXCEPT ![l] = [@ EXCEPT !.row = "failed"]]
  BY DEF IInv, TypeOK, FailBatch
<1>2. /\ rfqs' \in [Labels -> RFQ]
      /\ rfqs'[l].status = rfqs[l].status /\ rfqs'[l].intent = rfqs[l].intent
      /\ rfqs'[l].nonce = rfqs[l].nonce
      /\ \A k \in Labels : k # l => rfqs'[k] = rfqs[k]
  BY <1>1 DEF RFQ
<1>3. Holding'
  <2>1. journal.phase \notin {"idle", "open", "halted"} => journal.label \in Labels
    BY DEF IInv, Control
  <2> QED
    BY <1>2, <2>1 DEF IInv, Holding, FailBatch, botVars
<1>4. \A k \in Labels :
        /\ rfqs[k].status = "open" => k = journal.label /\ journal.phase \notin {"idle", "open"}
        /\ rfqs[k].status # "none" /\ k = journal.label => rfqs[k].intent = journal.intent
        /\ rfqs[k].nonce # 0 => rfqs[k].status = "filled"
  BY DEF IInv, OneLiveRFQ, InHand, LabelsDrawn
<1> QED
  BY <1>2, <1>3, <1>4, VenueUpdate DEF FailBatch, IInv, TypeOK

LEMMA TamperStep == IInv /\ Tamper => IInv'
<1> SUFFICES ASSUME IInv, Tamper PROVE IInv'
  OBVIOUS
<1>1. tampered' = TRUE /\ held' \in Holdings /\ handled \subseteq wire
      /\ UNCHANGED <<botVars, wire, handled>>
  BY DEF Tamper, IInv, TypeOK
<1>2. CASE UNCHANGED rfqs
  <2>1. Holding'
    BY <1>1 DEF Holding
  <2>2. \A k \in Labels :
          /\ rfqs[k].status = "open" => k = journal.label /\ journal.phase \notin {"idle", "open"}
          /\ rfqs[k].status # "none" /\ k = journal.label => rfqs[k].intent = journal.intent
          /\ rfqs[k].nonce # 0 => rfqs[k].status = "filled"
    BY DEF IInv, OneLiveRFQ, InHand, LabelsDrawn
  <2> QED
    BY <1>1, <1>2, <2>1, <2>2, VenueUpdate DEF IInv, TypeOK
<1>3. ASSUME NEW l \in Labels, rfqs[l].status = "open",
             rfqs' = [rfqs EXCEPT ![l].status = "filled"]
      PROVE  IInv'
  BY <1>1, <1>3, CloseStep
<1> QED
  BY <1>2, <1>3 DEF Tamper

LEMMA VenueStep == IInv /\ Venue => IInv'
<1> SUFFICES ASSUME IInv, Venue PROVE IInv'
  OBVIOUS
<1>1. ASSUME NEW m \in InFlight, CancelRFQ(m) PROVE IInv'
  <2>1. m.label \in Labels
    BY <1>1 DEF CancelRFQ, IInv, OneLiveRFQ, LabelsDrawn, TypeOK, Message
  <2> QED
    BY <1>1, <2>1, CloseStep DEF CancelRFQ, IInv, TypeOK
<1>2. ASSUME NEW l \in Labels, Expire(l) PROVE IInv'
  BY <1>2, CloseStep DEF Expire, IInv, TypeOK
<1> QED
  BY <1>1, <1>2, OpenRFQStep, ExecuteStep, LoseStep, FailBatchStep, TamperStep DEF Venue

-----------------------------------------------------------------------------
(* The invariant *)

LEMMA NextIInv == IInv /\ [Next]_vars => IInv'
<1> SUFFICES ASSUME IInv, [Next]_vars PROVE IInv'
  OBVIOUS
<1>1. CASE Tick
  <2>1. Control'
    BY <1>1 DEF Tick, Suspend, IInv, Control
  <2> QED
    BY <1>1, <2>1, QuietStep DEF Tick, Suspend, IInv, TypeOK, Pcs, Awaits
<1>2. CASE Interrupt
  <2>1. Control'
    BY <1>2 DEF Interrupt, Return, IInv, Control
  <2> QED
    BY <1>2, <2>1, QuietStep DEF Interrupt, Return, IInv, TypeOK, Pcs
<1>3. CASE UNCHANGED vars
  <2>1. Control'
    BY <1>3 DEF vars, IInv, Control
  <2> QED
    BY <1>3, <2>1, QuietStep DEF vars, venueVars, IInv, TypeOK
<1> QED
  BY <1>1, <1>2, <1>3, AccountStep, AskStep, QuoteStep, SettleStep, VenueStep DEF Next, Bot

\* The strengthened invariant holds of every behaviour, for every bound and
\* whether or not somebody else uses the subaccount.
THEOREM Inductive == Spec => []IInv
<1>1. Init => IInv
  BY InitIInv
<1>2. IInv /\ [Next]_vars => IInv'
  BY NextIInv
<1> QED
  BY <1>1, <1>2, PTL DEF Spec

\* Every variable of the slot and of the venue has its type.
THEOREM TypeCorrect == Spec => []TypeOK
<1>1. IInv => TypeOK
  BY DEF IInv
<1> QED
  BY <1>1, Inductive, PTL

\* The journal never disowns a position of an undisturbed subaccount.
THEOREM NeverDisowned == Spec => []InventoryOwned
<1>1. IInv => InventoryOwned
  BY JournalFields DEF IInv, TypeOK, Holding, InventoryOwned, Inventories, Expected, Before,
     Target, Control, Quoting
<1> QED
  BY <1>1, Inductive, PTL

\* No request is sent twice, none outlives what the journal says of it, and
\* the slot never has a live RFQ it has forgotten.
THEOREM RequestsSafe == Spec => [](NeverReplayed /\ WriteAhead /\ OneLiveRFQ)
<1>1. IInv => NeverReplayed /\ WriteAhead /\ OneLiveRFQ
  BY DEF IInv
<1> QED
  BY <1>1, Inductive, PTL
-----------------------------------------------------------------------------
(* The accounts: signals *)

\* A wire to which one request is added.
LEMMA OneMore ==
  ASSUME SignalsSpent, NEW r, r \notin wire, wire' = wire \cup {r}
  PROVE  /\ IsFiniteSet(wire')
         /\ EntrySends' = IF r.kind = "send" /\ r.intent = "entry"
                          THEN EntrySends \cup {r} ELSE EntrySends
         /\ IsFiniteSet(EntrySends) /\ Cardinality(EntrySends) \in Nat
         /\ Cardinality(EntrySends \cup {r}) = Cardinality(EntrySends) + 1
<1>1. IsFiniteSet(wire)
  BY DEF SignalsSpent
<1>2. IsFiniteSet(wire')
  BY <1>1, FS_AddElement
<1>3. EntrySends \subseteq wire
  BY DEF EntrySends
<1>4. IsFiniteSet(EntrySends) /\ Cardinality(EntrySends) \in Nat
  BY <1>1, <1>3, FS_Subset, FS_CardinalityType
<1>5. Cardinality(EntrySends \cup {r}) = Cardinality(EntrySends) + 1
  BY <1>3, <1>4, FS_AddElement
<1>6. EntrySends' = IF r.kind = "send" /\ r.intent = "entry"
                    THEN EntrySends \cup {r} ELSE EntrySends
  BY DEF EntrySends
<1> QED
  BY <1>2, <1>4, <1>5, <1>6

\* Nothing is sent, and no signal is in hand that was not before.
LEMMA SpentKept ==
  ASSUME SignalsSpent, TypeOK, UNCHANGED <<wire, consumed>>, Granted' => Granted
  PROVE  SignalsSpent'
<1>1. EntrySends \subseteq wire /\ IsFiniteSet(wire)
  BY DEF EntrySends, SignalsSpent
<1>2. Cardinality(EntrySends) \in Nat /\ consumed \in Nat
  BY <1>1, FS_Subset, FS_CardinalityType DEF TypeOK
<1>3. EntrySends' = EntrySends
  BY DEF EntrySends
<1> QED
  BY <1>2, <1>3 DEF SignalsSpent

\* A request that is not an entry leaves.
LEMMA SpentOther ==
  ASSUME SignalsSpent, TypeOK, NEW r, wire' = wire \cup {r}, consumed' = consumed,
         ~(r.kind = "send" /\ r.intent = "entry"), ~Granted'
  PROVE  SignalsSpent'
<1>1. CASE r \in wire
  BY <1>1, SpentKept
<1>2. CASE r \notin wire
  <2>1. /\ IsFiniteSet(wire') /\ EntrySends' = EntrySends
        /\ Cardinality(EntrySends) \in Nat
    BY <1>2, OneMore
  <2>2. consumed \in Nat
    BY DEF TypeOK
  <2> QED
    BY <2>1, <2>2 DEF SignalsSpent
<1> QED
  BY <1>1, <1>2

LEMMA SpentSend ==
  ASSUME IInv, SignalsSpent, Send
  PROVE  SignalsSpent'
<1>1. PICK r : r = Request("send")
  OBVIOUS
<1>2. /\ r.kind = "send" /\ r.intent = journal.intent /\ r \notin wire
      /\ wire' = wire \cup {r} /\ consumed' = consumed /\ consumed \in Nat
      /\ pc = "send" /\ pc' = "sent"
  BY <1>1 DEF Send, Request, Suspend, IInv, InHand, TypeOK
<1>3. ~Granted' /\ (Granted <=> journal.intent = "entry")
  BY <1>2 DEF Granted
<1>4. CASE journal.intent # "entry"
  BY <1>2, <1>3, <1>4, SpentOther DEF IInv
<1>5. CASE journal.intent = "entry"
  <2>1. /\ IsFiniteSet(wire') /\ EntrySends' = EntrySends \cup {r}
        /\ Cardinality(EntrySends) \in Nat
        /\ Cardinality(EntrySends \cup {r}) = Cardinality(EntrySends) + 1
    BY <1>2, <1>5, OneMore
  <2> QED
    BY <1>2, <1>3, <1>5, <2>1 DEF SignalsSpent
<1> QED
  BY <1>4, <1>5

LEMMA SpentAdmit ==
  ASSUME IInv, SignalsSpent, Admit
  PROVE  SignalsSpent'
<1>1. EntrySends \subseteq wire /\ IsFiniteSet(wire)
  BY DEF EntrySends, SignalsSpent
<1>2. Cardinality(EntrySends) \in Nat /\ consumed \in Nat
  BY <1>1, FS_Subset, FS_CardinalityType DEF IInv, TypeOK
<1>3. EntrySends' = EntrySends /\ wire' = wire /\ consumed' = consumed + 1
  BY DEF EntrySends, Admit
<1>4. ~Granted
  BY DEF Granted, Admit
<1> QED
  BY <1>1, <1>2, <1>3, <1>4 DEF SignalsSpent

LEMMA SpentStep ==
  ASSUME IInv, SignalsSpent, [Next]_vars
  PROVE  SignalsSpent'
<1> USE DEF IInv
<1>1. CASE SaveRequest
  <2>1. UNCHANGED <<wire, consumed>> /\ (Granted' => Granted)
    BY <1>1 DEF SaveRequest, Granted, Requested, Suspend, Control, TypeOK, Journal
  <2> QED
    BY <2>1, SpentKept
<1>2. CASE Submit \/ Cancel
  <2>1. PICK kind \in {"execute", "cancel"} : wire' = wire \cup {Request(kind)}
    BY <1>2 DEF Submit, Cancel
  <2>2. Request(kind).kind = kind
    BY DEF Request
  <2>3. consumed' = consumed /\ ~Granted'
    BY <1>2 DEF Submit, Cancel, Suspend, Return, Granted
  <2> QED
    BY <2>1, <2>2, <2>3, SpentOther
<1>3. ASSUME UNCHANGED <<wire, consumed>>, pc' \notin {"request", "send"}
      PROVE  SignalsSpent'
  BY <1>3, SpentKept DEF Granted
<1>4. CASE Tick \/ HaltUnowned \/ Decline \/ HaltUnmatched \/ Recover
  BY <1>3, <1>4 DEF Tick, HaltUnowned, Decline, HaltUnmatched, Recover, Halt,
                    Return, Suspend
<1>5. CASE ServiceOpen
  <2>1. UNCHANGED <<wire, consumed, journal>> /\ journal.phase = "open" /\ pc' # "send"
    BY <1>5 DEF ServiceOpen, Suspend
  <2> QED
    BY <2>1, SpentKept DEF Granted
<1>6. CASE Accept \/ NotListed \/ Settle \/ Interrupt
  BY <1>3, <1>6 DEF Accept, NotListed, Settle, NoRow, HaltMismatched, HaltSettlement,
                    AwaitInventory, SettleEntry, SettleExit, Interrupt, Halt, Return
<1>7. CASE \/ HaltFilled \/ NoExecution \/ AwaitCancelled \/ WithdrawEntry \/ ReadOffers
           \/ NoDeal \/ Prepare \/ Overtaken \/ HaltChanged \/ SaveExecution \/ Acknowledge
  BY <1>3, <1>7 DEF HaltFilled, NoExecution, AwaitCancelled, WithdrawEntry, ReadOffers,
                    NoDeal, Prepare, Overtaken, HaltChanged, SaveExecution, Acknowledge,
                    SaveCancel, Halt, Return, Suspend
<1>8. CASE Venue \/ UNCHANGED vars
  <2>1. UNCHANGED <<wire, consumed, journal, pc>>
    BY <1>8 DEF Venue, OpenRFQ, CancelRFQ, Execute, Lose, Expire, FailBatch, Tamper,
                botVars, vars
  <2> QED
    BY <2>1, SpentKept DEF Granted
<1> QED
  BY <1>1, <1>2, <1>4, <1>5, <1>6, <1>7, <1>8, SpentSend, SpentAdmit
     DEF Next, Bot, Account, Ask, Quote
-----------------------------------------------------------------------------
(* The accounts: executions and trades *)

Asking == {"requesting", "quoting_entry", "quoting_exit", "cancelling"}

\* What a step of the bot may do to the journal.
Moves ==
  /\ journal.phase \in Asking /\ ~Executed
  /\ journal'.phase \in Asking \cup {IF journal.intent = "exit" THEN "open" ELSE "idle"}
  /\ journal'.label = journal.label /\ journal'.intent = journal.intent
  /\ journal'.submitted = journal.submitted /\ journal'.acks = journal.acks
  /\ journal'.trades = journal.trades /\ journal'.v3 = journal.v3

Draws ==
  /\ journal.phase \in {"idle", "open"} /\ journal'.phase = "requesting"
  /\ journal'.intent = IF journal.phase = "idle" THEN "entry" ELSE "exit"
  /\ journal'.submitted = journal.submitted /\ journal'.acks = journal.acks
  /\ journal'.trades = journal.trades
  /\ journal'.v3 = (journal.phase = "idle" \/ journal.v3)

Commits ==
  /\ journal.phase \in Asking /\ ~Executed /\ journal'.phase = "settling"
  /\ journal'.label = journal.label /\ journal'.intent = journal.intent
  /\ journal'.submitted = journal.submitted + 1 /\ journal'.acks = journal.acks
  /\ journal'.acked = FALSE
  /\ journal'.trades = journal.trades /\ journal'.v3 = journal.v3

Records ==
  /\ journal.phase = "settling" /\ Executed
  /\ journal'.label = journal.label /\ journal'.intent = journal.intent
  /\ journal'.submitted = journal.submitted /\ journal'.v3 = journal.v3
  /\ journal'.acks = journal.acks + (IF journal.acked THEN 0 ELSE 1)
  /\ journal'.acked = TRUE
  /\ \/ journal'.phase \in {"settling", "halted"} /\ journal'.trades = journal.trades
     \/ /\ journal.intent = "entry" /\ journal'.phase = "open"
        /\ journal'.trades = journal.trades
     \/ /\ journal.intent = "exit" /\ journal'.phase = "idle"
        /\ journal'.trades = journal.trades + 1

Halts ==
  /\ journal.phase = "settling" => Executed
  /\ journal'.phase = "halted"
  /\ journal'.submitted = journal.submitted /\ journal'.acks = journal.acks
  /\ journal'.v3 = journal.v3

\* The RFQ of a phase before "settling" was not executed, and that of an
\* execution row was.
LEMMA WhenExecuted ==
  ASSUME IInv
  PROVE  /\ journal.phase \in Asking => ~Executed
         /\ journal.phase = "settling" /\ rfqs[journal.label].nonce = journal.nonce => Executed
  BY DEF IInv, InHand, Control, Executed, Filled, Asking

LEMMA HaltHalts ==
  ASSUME IInv, Halt, journal.phase = "settling" => Executed
  PROVE  Halts
  BY DEF Halt, Halts, IInv, TypeOK, Journal

\* What _acknowledge and the saves after it do to the accounts.
LEMMA AcknowledgedRecords ==
  ASSUME IInv, journal.phase = "settling", rfqs[journal.label].nonce = journal.nonce,
         \/ journal' = Acknowledged(journal)
         \/ journal' = [Acknowledged(journal) EXCEPT !.phase = "halted"]
         \/ /\ journal' = [Acknowledged(journal) EXCEPT !.phase = "open"]
            /\ journal.intent = "entry"
         \/ /\ journal' = [Acknowledged(journal) EXCEPT !.phase = "idle", !.trades = @ + 1]
            /\ journal.intent = "exit"
  PROVE  Records
<1>1. PICK k : k = Acknowledged(journal)
  OBVIOUS
<1>2. journal \in Journal /\ k \in Journal /\ Executed
  BY <1>1, AcknowledgedType, WhenExecuted DEF IInv, TypeOK
<1>3. /\ k.phase = journal.phase /\ k.label = journal.label /\ k.intent = journal.intent
      /\ k.submitted = journal.submitted /\ k.v3 = journal.v3 /\ k.trades = journal.trades
      /\ k.acks = journal.acks + (IF journal.acked THEN 0 ELSE 1) /\ k.acked = TRUE
  <2>1. journal.acks \in Nat /\ journal.acked \in BOOLEAN
    BY <1>2, JournalFields
  <2>2. CASE journal.acked
    BY <1>1, <2>1, <2>2 DEF Acknowledged
  <2>3. CASE ~journal.acked
    BY <1>1, <1>2, <2>1, <2>3 DEF Acknowledged, Journal
  <2> QED
    BY <2>2, <2>3
<1>4. CASE journal' = k \/ journal' = [k EXCEPT !.phase = "halted"]
  BY <1>2, <1>3, <1>4 DEF Records, Journal
<1>5. CASE journal' = [k EXCEPT !.phase = "open"] /\ journal.intent = "entry"
  BY <1>2, <1>3, <1>5 DEF Records, Journal
<1>6. CASE /\ journal' = [k EXCEPT !.phase = "idle", !.trades = @ + 1]
           /\ journal.intent = "exit"
  BY <1>2, <1>3, <1>6 DEF Records, Journal
<1> QED
  BY <1>1, <1>4, <1>5, <1>6

LEMMA BotMoves ==
  ASSUME IInv, Bot
  PROVE  /\ rfqs' = rfqs
         /\ journal' = journal \/ Moves \/ Draws \/ Commits \/ Records \/ Halts
<1>1. rfqs' = rfqs
  BY DEF Bot, Tick, Account, HaltUnowned, Decline, Admit, HaltUnmatched, ServiceOpen,
         Recover, Ask, SaveRequest, Send, Accept, NotListed, Quote, HaltFilled,
         NoExecution, AwaitCancelled, WithdrawEntry, ReadOffers, NoDeal, Prepare,
         Overtaken, HaltChanged, SaveExecution, Submit, Acknowledge, Cancel, Settle,
         NoRow, HaltMismatched, HaltSettlement, AwaitInventory, SettleEntry, SettleExit,
         Interrupt, venueVars
<1>2. journal \in Journal
  BY DEF IInv, TypeOK
<1>3. CASE \/ Tick \/ Decline \/ Admit \/ ServiceOpen \/ Recover \/ Send \/ NotListed
           \/ AwaitCancelled \/ Prepare \/ Submit \/ Cancel \/ NoRow \/ Interrupt
  BY <1>1, <1>3 DEF Tick, Decline, Admit, ServiceOpen, Recover, Send, NotListed,
              AwaitCancelled, Prepare, Submit, Cancel, NoRow, Interrupt
<1>4. CASE HaltUnowned \/ HaltUnmatched \/ HaltFilled \/ HaltChanged
  <2>1. Halt /\ journal.phase # "settling"
    BY <1>4 DEF HaltUnowned, HaltUnmatched, HaltFilled, HaltChanged, IInv, Control, Quoting
  <2> QED
    BY <1>1, <2>1, HaltHalts
<1>5. CASE HaltMismatched
  BY <1>1, <1>5, HaltHalts, WhenExecuted DEF HaltMismatched, RowIs, IInv, Control
<1>6. CASE SaveRequest
  <2>1. /\ journal.phase \in {"idle", "open"}
        /\ \E force \in BOOLEAN : journal' = Requested(force)
    BY <1>6 DEF SaveRequest, IInv, Control
  <2>2. Draws
    <3>1. journal.label + 1 \in Int /\ journal.v3 \in BOOLEAN
      BY <1>2, JournalFields
    <3> QED
      BY <1>2, <2>1, <3>1 DEF Draws, Requested, Journal
  <2> QED
    BY <1>1, <2>2
<1>7. CASE Accept
  <2>1. journal.phase = "requesting" /\ journal' = [journal EXCEPT !.phase = Quoting(journal.intent)]
    BY <1>7 DEF Accept, IInv, Control
  <2>2. Moves
    BY <1>2, <2>1, WhenExecuted DEF Moves, Asking, Quoting, Journal
  <2> QED
    BY <1>1, <2>2
<1>8. CASE NoExecution
  <2>1. journal.phase \in Asking
    BY <1>8 DEF NoExecution, IInv, Control, Asking
  <2>2. Moves
    BY <1>2, <1>8, <2>1, WhenExecuted DEF Moves, NoExecution, Journal
  <2> QED
    BY <1>1, <2>2
<1>9. CASE WithdrawEntry \/ NoDeal \/ Overtaken
  <2>1. /\ journal.phase \in Asking
        /\ journal' = journal \/ journal' = [journal EXCEPT !.phase = "cancelling"]
    BY <1>9 DEF WithdrawEntry, NoDeal, Overtaken, SaveCancel, IInv, Control, Quoting, Asking
  <2>2. journal' = journal \/ Moves
    BY <1>2, <2>1, WhenExecuted DEF Moves, Asking, Journal
  <2> QED
    BY <1>1, <2>2
<1>10. CASE ReadOffers
  <2>1. Moves
    BY <1>2, <1>10, WhenExecuted DEF ReadOffers, Moves, Asking, Journal
  <2> QED
    BY <1>1, <2>1
<1>11. CASE SaveExecution
  <2>1. journal.phase \in Asking
    BY <1>11 DEF SaveExecution, IInv, Control, Quoting, Asking
  <2>2. Commits
    BY <1>2, <1>11, <2>1, WhenExecuted DEF SaveExecution, Commits, Journal
  <2> QED
    BY <1>1, <2>2
<1>12. CASE Acknowledge \/ AwaitInventory
  <2>1. Records
    BY <1>12, AcknowledgedRecords DEF Acknowledge, AwaitInventory, RowIs, IInv, Control
  <2> QED
    BY <1>1, <2>1
<1>13. CASE HaltSettlement \/ SettleEntry \/ SettleExit
  <2>1. Records
    BY <1>13, AcknowledgedRecords
       DEF HaltSettlement, SettleEntry, SettleExit, RowIs, IInv, Control
  <2> QED
    BY <1>1, <2>1
<1> QED
  BY <1>3, <1>4, <1>5, <1>6, <1>7, <1>8, <1>9, <1>10, <1>11, <1>12, <1>13
     DEF Bot, Account, Ask, Quote, Settle

\* The RFQs the venue executed are finitely many.
LEMMA FilledCounted ==
  ASSUME NEW S \in SUBSET Labels
  PROVE  IsFiniteSet(S) /\ Cardinality(S) \in Nat
<1>1. IsFiniteSet(1 .. MaxRequests)
  BY BoundsAssumption, FS_Interval
<1> QED
  BY <1>1, FS_Subset, FS_CardinalityType

LEMMA FilledTyped ==
  /\ Filled \subseteq Labels /\ Filled' \subseteq Labels
  /\ \A intent \in Intents : FilledAs(intent) \subseteq Filled
  BY DEF Filled, FilledAs

\* An execution fills the RFQ in hand, once.
LEMMA ExecuteFills ==
  ASSUME IInv, NEW m \in InFlight, Execute(m)
  PROVE  /\ journal.phase = "settling" /\ journal.label \in Labels /\ ~Executed
         /\ Filled' = Filled \cup {journal.label}
         /\ \A intent \in Intents :
              FilledAs(intent)' = IF intent = journal.intent
                                  THEN FilledAs(intent) \cup {journal.label}
                                  ELSE FilledAs(intent)
<1>1. /\ m.label = journal.label /\ m.nonce = journal.nonce /\ m.label \in Labels
      /\ journal.phase = "settling" /\ rfqs[m.label].status = "open"
      /\ rfqs[m.label].nonce = 0 /\ rfqs[m.label].intent = journal.intent
      /\ journal.nonce # 0
  BY DEF Execute, IInv, TypeOK, Message, WriteAhead, InHand, Request, Control
<1>2. PICK row \in Rows :
        rfqs' = [rfqs EXCEPT ![m.label] =
                   [@ EXCEPT !.status = "filled", !.nonce = m.nonce, !.row = row]]
  BY DEF Execute
<1>3. rfqs \in [Labels -> RFQ] /\ rfqs[m.label] \in RFQ
  BY <1>1 DEF IInv, TypeOK
<1>4. /\ rfqs'[m.label].nonce = m.nonce /\ rfqs'[m.label].intent = journal.intent
      /\ \A l \in Labels : l # m.label => rfqs'[l] = rfqs[l]
  BY <1>1, <1>2, <1>3 DEF RFQ
<1>5. Filled' = Filled \cup {journal.label} /\ ~Executed
  BY <1>1, <1>4 DEF Filled, Executed
<1>6. ASSUME NEW intent \in Intents
      PROVE  FilledAs(intent)' = IF intent = journal.intent
                                 THEN FilledAs(intent) \cup {journal.label}
                                 ELSE FilledAs(intent)
  BY <1>1, <1>4, <1>5 DEF FilledAs, Filled
<1> QED
  BY <1>1, <1>5, <1>6

\* Nothing else the venue does executes an RFQ under a nonce of the slot, or
\* changes one it has executed.
LEMMA VenueKeeps ==
  ASSUME IInv, Venue, ~ \E m \in InFlight : Execute(m)
  PROVE  /\ UNCHANGED <<journal, pc>> /\ Filled' = Filled
         /\ \A intent \in Intents : FilledAs(intent)' = FilledAs(intent)
<1>1. ASSUME \A l \in Labels : /\ rfqs'[l].nonce = rfqs[l].nonce
                               /\ rfqs[l].nonce # 0 => rfqs'[l].intent = rfqs[l].intent
      PROVE  /\ Filled' = Filled
             /\ \A intent \in Intents : FilledAs(intent)' = FilledAs(intent)
  BY <1>1 DEF Filled, FilledAs
<1>2. UNCHANGED <<journal, pc>>
  BY DEF Venue, OpenRFQ, CancelRFQ, Execute, Lose, Expire, FailBatch, Tamper, botVars
<1>3. rfqs \in [Labels -> RFQ]
  BY DEF IInv, TypeOK
<1>4. ASSUME NEW m \in InFlight, OpenRFQ(m)
      PROVE  \A l \in Labels : /\ rfqs'[l].nonce = rfqs[l].nonce
                               /\ rfqs[l].nonce # 0 => rfqs'[l].intent = rfqs[l].intent
  <2>1. m.label \in Labels /\ rfqs[m.label] \in RFQ /\ rfqs[m.label].nonce = 0
    BY <1>4 DEF OpenRFQ, IInv, TypeOK, Message, InHand, LabelsDrawn
  <2>2. rfqs' = [rfqs EXCEPT ![m.label] = [@ EXCEPT !.status = "open", !.intent = m.intent]]
    BY <1>4 DEF OpenRFQ
  <2> QED
    BY <1>3, <2>1, <2>2 DEF RFQ
<1>5. ASSUME NEW l \in Labels, NEW s,
             \/ rfqs' = [rfqs EXCEPT ![l].status = s]
             \/ rfqs' = [rfqs EXCEPT ![l].row = s]
      PROVE  \A k \in Labels : /\ rfqs'[k].nonce = rfqs[k].nonce
                               /\ rfqs[k].nonce # 0 => rfqs'[k].intent = rfqs[k].intent
  <2>1. rfqs[l] \in RFQ
    BY <1>3
  <2>2. CASE rfqs' = [rfqs EXCEPT ![l] = [@ EXCEPT !.status = s]]
    BY <1>3, <2>1, <2>2 DEF RFQ
  <2>3. CASE rfqs' = [rfqs EXCEPT ![l] = [@ EXCEPT !.row = s]]
    BY <1>3, <2>1, <2>3 DEF RFQ
  <2> QED
    BY <1>5, <2>2, <2>3
<1>6. ASSUME NEW m \in InFlight, CancelRFQ(m)
      PROVE  \A k \in Labels : /\ rfqs'[k].nonce = rfqs[k].nonce
                               /\ rfqs[k].nonce # 0 => rfqs'[k].intent = rfqs[k].intent
  <2>1. m.label \in Labels
    BY <1>6 DEF CancelRFQ, IInv, TypeOK, Message
  <2> QED
    BY <1>5, <1>6, <2>1 DEF CancelRFQ
<1>7. ASSUME rfqs' = rfqs
      PROVE  \A k \in Labels : /\ rfqs'[k].nonce = rfqs[k].nonce
                               /\ rfqs[k].nonce # 0 => rfqs'[k].intent = rfqs[k].intent
  BY <1>7
<1>8. \A k \in Labels : /\ rfqs'[k].nonce = rfqs[k].nonce
                        /\ rfqs[k].nonce # 0 => rfqs'[k].intent = rfqs[k].intent
  BY <1>4, <1>5, <1>6, <1>7 DEF Venue, Lose, Expire, FailBatch, Tamper
<1> QED
  BY <1>1, <1>2, <1>8
\* The counts of two states in which the venue has executed the same RFQs.
LEMMA CountsTyped ==
  ASSUME IInv
  PROVE  /\ Cardinality(Filled) \in Nat
         /\ Cardinality(FilledAs("entry")) \in Nat /\ Cardinality(FilledAs("exit")) \in Nat
         /\ journal.acks \in Nat /\ journal.submitted \in Nat /\ journal.trades \in Nat
         /\ journal.acked \in BOOLEAN /\ journal.v3 \in BOOLEAN
         /\ journal.phase \in Phases /\ journal.intent \in Intents
<1>1. Filled \subseteq Labels /\ FilledAs("entry") \subseteq Labels
      /\ FilledAs("exit") \subseteq Labels
  BY FilledTyped
<1>2. journal \in Journal
  BY DEF IInv, TypeOK
<1> QED
  BY <1>1, <1>2, FilledCounted, JournalFields

LEMMA BookedBot ==
  ASSUME IInv, ExecutionsBooked, Bot
  PROVE  ExecutionsBooked'
<1>1. Filled' = Filled
  BY BotMoves DEF Filled
<1>2. Cardinality(Filled) \in Nat /\ journal.acks \in Nat /\ journal.submitted \in Nat
      /\ journal.acked \in BOOLEAN /\ journal.phase \in Phases
  BY CountsTyped
<1>3. PICK f : f = Cardinality(Filled)
  OBVIOUS
<1>4. CASE journal' = journal
  BY <1>1, <1>4 DEF ExecutionsBooked, Executed
<1>5. CASE Moves \/ Draws
  BY <1>1, <1>5 DEF ExecutionsBooked, Moves, Draws, Asking
<1>6. CASE Commits
  <2>1. ~Executed'
    BY <1>1, <1>6 DEF Commits, Executed
  <2> QED
    BY <1>1, <1>2, <1>6, <2>1 DEF ExecutionsBooked, Commits, Asking
<1>7. CASE Records
  <2>1. Executed' /\ Executed
    BY <1>1, <1>7 DEF Records, Executed
  <2>2. f = journal.submitted
    BY <1>2, <1>3, <1>7, <2>1 DEF ExecutionsBooked, Records
  <2>3. journal'.acks = journal.submitted
    BY <1>2, <1>7 DEF ExecutionsBooked, Records
  <2>4. /\ Cardinality(Filled') = f /\ journal'.acked = TRUE
        /\ journal'.submitted = journal.submitted
    BY <1>1, <1>3, <1>7 DEF Records
  <2> QED
    BY <1>2, <1>3, <2>1, <2>2, <2>3, <2>4 DEF ExecutionsBooked
<1>8. CASE Halts
  <2>1. journal.acks <= f /\ f <= journal.submitted
    BY <1>2, <1>3, <1>8 DEF ExecutionsBooked, Halts
  <2> QED
    BY <1>1, <1>3, <1>8, <2>1 DEF ExecutionsBooked, Halts
<1> QED
  BY <1>4, <1>5, <1>6, <1>7, <1>8, BotMoves

LEMMA BookedVenue ==
  ASSUME IInv, ExecutionsBooked, Venue
  PROVE  ExecutionsBooked'
<1>1. CASE ~ \E m \in InFlight : Execute(m)
  BY <1>1, VenueKeeps DEF ExecutionsBooked, Executed
<1>2. ASSUME NEW m \in InFlight, Execute(m)
      PROVE  ExecutionsBooked'
  <2>1. /\ journal.phase = "settling" /\ journal.label \in Labels /\ ~Executed
        /\ Filled' = Filled \cup {journal.label}
    BY <1>2, ExecuteFills
  <2>2. journal' = journal
    BY <1>2 DEF Execute, botVars
  <2>3. Filled \subseteq Labels /\ journal.label \notin Filled
    BY <2>1, FilledTyped DEF Executed
  <2>4. IsFiniteSet(Filled)
    BY <2>3, FilledCounted
  <2>5. Cardinality(Filled') = Cardinality(Filled) + 1
    BY <2>1, <2>3, <2>4, FS_AddElement
  <2>6. Executed'
    BY <2>1, <2>2 DEF Executed
  <2>7. Cardinality(Filled) \in Nat
    BY CountsTyped
  <2> QED
    BY <2>1, <2>2, <2>5, <2>6, <2>7 DEF ExecutionsBooked
<1> QED
  BY <1>1, <1>2

LEMMA SpreadsBot ==
  ASSUME IInv, SpreadsBooked, LegacyLeft, Bot
  PROVE  SpreadsBooked'
<1>1. /\ Filled' = Filled /\ FilledAs("entry")' = FilledAs("entry")
      /\ FilledAs("exit")' = FilledAs("exit")
  BY BotMoves DEF Filled, FilledAs
<1>2. /\ Cardinality(FilledAs("entry")) \in Nat /\ Cardinality(FilledAs("exit")) \in Nat
      /\ journal.trades \in Nat /\ journal.v3 \in BOOLEAN
      /\ journal.phase \in Phases /\ journal.intent \in Intents
  BY CountsTyped
<1>3. PICK e, x : e = Cardinality(FilledAs("entry")) /\ x = Cardinality(FilledAs("exit"))
  OBVIOUS
<1>4. CASE journal' = journal
  BY <1>1, <1>4 DEF SpreadsBooked, Unrecorded, Bought, Executed
<1>5. CASE Moves
  <2>1. (Bought' <=> Bought) /\ ~Unrecorded /\ ~Unrecorded'
    BY <1>2, <1>5 DEF Moves, Bought, Unrecorded, Asking
  <2>2. journal.v3 /\ journal.phase # "halted"
    BY <1>5 DEF LegacyLeft, Moves, Asking
  <2> QED
    BY <1>1, <1>5, <2>1, <2>2 DEF SpreadsBooked, Moves
<1>6. CASE Draws
  <2>1. (Bought' <=> Bought) /\ ~Unrecorded /\ ~Unrecorded'
    BY <1>2, <1>6 DEF Draws, Bought, Unrecorded
  <2>2. journal'.v3 => journal.v3 \/ journal.phase = "idle"
    BY <1>6 DEF Draws
  <2> QED
    BY <1>1, <1>6, <2>1, <2>2 DEF SpreadsBooked, Draws
<1>7. CASE Commits
  <2>1. ~Executed /\ ~Executed'
    BY <1>1, <1>7 DEF Commits, Executed
  <2>2. (Bought' <=> Bought) /\ ~Unrecorded /\ ~Unrecorded'
    BY <1>2, <1>7, <2>1 DEF Commits, Bought, Unrecorded, Asking
  <2>3. journal.v3 /\ journal.phase # "halted"
    BY <1>7 DEF LegacyLeft, Commits, Asking
  <2> QED
    BY <1>1, <1>7, <2>2, <2>3 DEF SpreadsBooked, Commits
<1>8. CASE Records
  <2>1. Executed /\ Executed' /\ journal.v3 /\ journal.phase = "settling"
    BY <1>1, <1>8 DEF Records, Executed, LegacyLeft
  <2>2. /\ Bought <=> journal.intent = "entry"
        /\ Unrecorded <=> journal.intent = "exit"
    BY <1>2, <2>1 DEF Bought, Unrecorded
  <2>3. /\ x = journal.trades + (IF Unrecorded THEN 1 ELSE 0)
        /\ e = x + (IF Bought THEN 1 ELSE 0)
    BY <1>3, <2>1 DEF SpreadsBooked
  <2>4. CASE journal'.phase = "settling" /\ journal'.trades = journal.trades
    <3>1. (Bought' <=> Bought) /\ (Unrecorded' <=> Unrecorded)
      BY <1>8, <2>1, <2>4 DEF Bought, Unrecorded, Records
    <3> QED
      BY <1>1, <1>3, <2>3, <2>4, <3>1 DEF SpreadsBooked
  <2>5. CASE /\ journal.intent = "entry" /\ journal'.phase = "open"
             /\ journal'.trades = journal.trades
    <3>1. Bought' /\ ~Unrecorded'
      BY <2>5 DEF Bought, Unrecorded
    <3> QED
      BY <1>1, <1>3, <2>2, <2>3, <2>5, <3>1 DEF SpreadsBooked
  <2>6. CASE /\ journal.intent = "exit" /\ journal'.phase = "idle"
             /\ journal'.trades = journal.trades + 1
    <3>1. ~Bought' /\ ~Unrecorded' /\ ~Bought /\ Unrecorded
      BY <2>2, <2>6 DEF Bought, Unrecorded
    <3>2. x = journal.trades + 1 /\ e = x + 0
      BY <2>3, <3>1
    <3>3. x = journal'.trades + 0
      BY <1>2, <1>3, <2>6, <3>2
    <3> QED
      BY <1>1, <1>3, <3>1, <3>2, <3>3 DEF SpreadsBooked
  <2>7. CASE journal'.phase = "halted"
    BY <2>7 DEF SpreadsBooked
  <2> QED
    BY <1>8, <2>4, <2>5, <2>6, <2>7 DEF Records
<1>9. CASE Halts
  BY <1>9 DEF SpreadsBooked, Halts
<1> QED
  BY <1>4, <1>5, <1>6, <1>7, <1>8, <1>9, BotMoves

LEMMA SpreadsVenue ==
  ASSUME IInv, SpreadsBooked, LegacyLeft, Venue
  PROVE  SpreadsBooked'
<1>1. CASE ~ \E m \in InFlight : Execute(m)
  BY <1>1, VenueKeeps DEF SpreadsBooked, Unrecorded, Bought, Executed
<1>2. ASSUME NEW m \in InFlight, Execute(m)
      PROVE  SpreadsBooked'
  <2>1. /\ journal.phase = "settling" /\ ~Executed
        /\ Filled' = Filled \cup {journal.label}
        /\ FilledAs("entry")' = IF "entry" = journal.intent
                                THEN FilledAs("entry") \cup {journal.label}
                                ELSE FilledAs("entry")
        /\ FilledAs("exit")' = IF "exit" = journal.intent
                               THEN FilledAs("exit") \cup {journal.label}
                               ELSE FilledAs("exit")
    BY <1>2, ExecuteFills
  <2>2. journal' = journal /\ journal.v3
    BY <1>2, <2>1 DEF Execute, botVars, LegacyLeft
  <2>3. Executed'
    BY <2>1, <2>2 DEF Executed
  <2>4. journal.label \notin FilledAs("entry") /\ journal.label \notin FilledAs("exit")
    BY <2>1, FilledTyped DEF Executed
  <2>5. FilledAs("entry") \subseteq Labels /\ FilledAs("exit") \subseteq Labels
    BY FilledTyped
  <2>6. IsFiniteSet(FilledAs("entry")) /\ IsFiniteSet(FilledAs("exit"))
    BY <2>5, FilledCounted
  <2>7. /\ Cardinality(FilledAs("entry") \cup {journal.label}) =
             Cardinality(FilledAs("entry")) + 1
        /\ Cardinality(FilledAs("exit") \cup {journal.label}) =
             Cardinality(FilledAs("exit")) + 1
    BY <2>4, <2>6, FS_AddElement
  <2>8. /\ Cardinality(FilledAs("exit")) = journal.trades + (IF Unrecorded THEN 1 ELSE 0)
        /\ Cardinality(FilledAs("entry")) =
             Cardinality(FilledAs("exit")) + (IF Bought THEN 1 ELSE 0)
    BY <2>1, <2>2 DEF SpreadsBooked
  <2>9. /\ Cardinality(FilledAs("entry")) \in Nat /\ Cardinality(FilledAs("exit")) \in Nat
        /\ journal.trades \in Nat /\ journal.intent \in Intents
    BY CountsTyped
  <2>10. CASE journal.intent = "entry"
    <3>1. ~Bought /\ Bought' /\ ~Unrecorded /\ ~Unrecorded'
      BY <2>1, <2>2, <2>3, <2>10 DEF Bought, Unrecorded
    <3>2. /\ Cardinality(FilledAs("entry")') = Cardinality(FilledAs("entry")) + 1
          /\ FilledAs("exit")' = FilledAs("exit")
      BY <2>1, <2>7, <2>10
    <3> QED
      BY <2>2, <2>8, <2>9, <3>1, <3>2 DEF SpreadsBooked
  <2>11. CASE journal.intent = "exit"
    <3>1. Bought /\ ~Bought' /\ ~Unrecorded /\ Unrecorded'
      BY <2>1, <2>2, <2>3, <2>11 DEF Bought, Unrecorded
    <3>2. /\ Cardinality(FilledAs("exit")') = Cardinality(FilledAs("exit")) + 1
          /\ FilledAs("entry")' = FilledAs("entry")
      BY <2>1, <2>7, <2>11
    <3> QED
      BY <2>2, <2>8, <2>9, <3>1, <3>2 DEF SpreadsBooked
  <2> QED
    BY <2>9, <2>10, <2>11
<1> QED
  BY <1>1, <1>2

LEMMA LegacyStep ==
  ASSUME IInv, LegacyLeft, Next
  PROVE  LegacyLeft'
<1> SUFFICES ASSUME ~journal'.v3
             PROVE  LegacyLeft'
  BY DEF LegacyLeft
<1>1. CASE Venue
  <2>1. UNCHANGED <<journal, pc>>
    BY <1>1 DEF Venue, OpenRFQ, CancelRFQ, Execute, Lose, Expire, FailBatch, Tamper, botVars
  <2> QED
    BY <2>1 DEF LegacyLeft
<1>2. CASE Bot
  <2>1. ~journal.v3
    BY <1>2, BotMoves DEF Moves, Draws, Commits, Records, Halts
  <2>2. ~SaveRequest
    BY <1>2, <2>1 DEF SaveRequest, Requested, IInv, Control, LegacyLeft, TypeOK, Journal
  <2>3. \/ journal.phase = "idle" /\ pc # "send"
        \/ journal.phase \in {"open", "halted"} /\ pc = "ready"
    BY <2>1 DEF LegacyLeft
  <2>4. pc \notin {"sent", "label", "status", "offers", "refresh", "cancel", "submit",
                   "submitted", "executions", "send"}
    BY <2>3 DEF IInv, Control, Quoting
  <2>5. Tick \/ HaltUnowned \/ Decline \/ Admit \/ Interrupt
    BY <1>2, <2>1, <2>2, <2>3, <2>4
       DEF Bot, Account, HaltUnmatched, ServiceOpen, Recover,
           Ask, Send, Accept, NotListed, Quote, HaltFilled, NoExecution, AwaitCancelled,
           WithdrawEntry, ReadOffers, NoDeal, Prepare, Overtaken, HaltChanged,
           SaveExecution, Submit, Acknowledge, Cancel, Settle, NoRow, HaltMismatched,
           HaltSettlement, AwaitInventory, SettleEntry, SettleExit
  <2>6. \/ journal' = journal /\ pc' # "send" /\ journal.phase = "idle"
        \/ journal'.phase = "halted" /\ pc' = "ready"
    BY <2>1, <2>3, <2>5 DEF Tick, HaltUnowned, Decline, Admit, Interrupt, Halt, Return,
                            Suspend, IInv, TypeOK, Journal
  <2> QED
    BY <2>6 DEF LegacyLeft
<1> QED
  BY <1>1, <1>2 DEF Next

\* The accounts of the slot, of the entry governor and of the venue agree at
\* every step, whatever is lost, late, or traded by somebody else.
THEOREM LedgerInductive == Spec => []Ledgered
<1>1. Init => Ledgered
  <2> SUFFICES ASSUME Init PROVE Ledgered
    OBVIOUS
  <2> USE DEF Init, FreshJournal, LegacyJournal, NoRFQ
  <2>1. Filled = {} /\ FilledAs("entry") = {} /\ FilledAs("exit") = {} /\ EntrySends = {}
    BY DEF Filled, FilledAs, EntrySends
  <2>2. Cardinality({}) = 0 /\ IsFiniteSet({})
    BY FS_EmptySet
  <2>3. ~Granted /\ ~Unrecorded
    BY DEF Granted, Unrecorded
  <2>4. SignalsSpent
    BY <2>1, <2>2, <2>3 DEF SignalsSpent
  <2>5. ExecutionsBooked
    BY <2>1, <2>2 DEF ExecutionsBooked
  <2>6. journal.phase = "idle" => ~Bought
    BY DEF Bought
  <2>7. SpreadsBooked
    <3>0. journal.trades = 0
      OBVIOUS
    <3>1. Cardinality(FilledAs("entry")) = 0 /\ Cardinality(FilledAs("exit")) = 0
      BY <2>1, <2>2
    <3>2. journal.phase = "idle" \/ ~journal.v3
      OBVIOUS
    <3> QED
      BY <2>3, <2>6, <3>0, <3>1, <3>2 DEF SpreadsBooked
  <2>8. LegacyLeft
    BY DEF LegacyLeft
  <2> QED
    BY <2>4, <2>5, <2>7, <2>8 DEF Ledgered
<1>2. IInv /\ Ledgered /\ [Next]_vars => Ledgered'
  <2> SUFFICES ASSUME IInv, Ledgered, [Next]_vars PROVE Ledgered'
    OBVIOUS
  <2>1. SignalsSpent'
    BY SpentStep DEF Ledgered
  <2>2. CASE Next
    <3>1. ExecutionsBooked'
      BY <2>2, BookedBot, BookedVenue DEF Next, Ledgered
    <3>2. SpreadsBooked'
      BY <2>2, SpreadsBot, SpreadsVenue DEF Next, Ledgered
    <3>3. LegacyLeft'
      BY <2>2, LegacyStep DEF Ledgered
    <3> QED
      BY <2>1, <3>1, <3>2, <3>3 DEF Ledgered
  <2>3. CASE UNCHANGED vars
    <3>1. /\ UNCHANGED <<journal, pc>> /\ Filled' = Filled
          /\ \A intent \in Intents : FilledAs(intent)' = FilledAs(intent)
      BY <2>3 DEF vars, Filled, FilledAs
    <3>2. ExecutionsBooked' /\ SpreadsBooked' /\ LegacyLeft'
      BY <3>1 DEF Ledgered, ExecutionsBooked, SpreadsBooked, LegacyLeft, Executed,
                  Unrecorded, Bought
    <3> QED
      BY <2>1, <3>2 DEF Ledgered
  <2> QED
    BY <2>2, <2>3
<1> QED
  BY <1>1, <1>2, Inductive, PTL DEF Spec

\* What status() reports is what the venue executed and what was closed, for
\* any number of requests and any room in the journal.
THEOREM AccountsKept == Spec => []Accounted
<1>1. IInv /\ Ledgered => Accounted
  <2> SUFFICES ASSUME IInv, Ledgered PROVE ExecutionsCounted /\ TradesClosed
    BY DEF Accounted
  <2>1. /\ Cardinality(Filled) \in Nat
        /\ Cardinality(FilledAs("entry")) \in Nat /\ Cardinality(FilledAs("exit")) \in Nat
        /\ journal.acks \in Nat /\ journal.submitted \in Nat /\ journal.trades \in Nat
        /\ journal.phase \in Phases
    BY CountsTyped
  <2>2. ExecutionsCounted
    BY <2>1 DEF Ledgered, ExecutionsBooked, ExecutionsCounted
  <2>3. /\ journal.phase = "idle" => ~Bought /\ ~Unrecorded
        /\ journal.phase = "open" => Bought /\ ~Unrecorded
    BY DEF Bought, Unrecorded
  <2>4. TradesClosed
    BY <2>1, <2>3 DEF Ledgered, SpreadsBooked, TradesClosed
  <2> QED
    BY <2>2, <2>4
<1> QED
  BY <1>1, LedgerInductive, Inductive, PTL

\* A signal the governor consumed buys at most one entry RFQ: a crash can
\* waste it, and can never use it twice.
THEOREM SignalsBuyOnce == Spec => []EntriesConsumed
<1>1. IInv /\ Ledgered => EntriesConsumed
  <2> SUFFICES ASSUME IInv, Ledgered PROVE EntriesConsumed
    OBVIOUS
  <2>1. EntrySends \subseteq wire /\ IsFiniteSet(wire) /\ consumed \in Nat
    BY DEF EntrySends, Ledgered, SignalsSpent, IInv, TypeOK
  <2>2. Cardinality(EntrySends) \in Nat
    BY <2>1, FS_Subset, FS_CardinalityType
  <2>3. Cardinality(EntrySends) <= consumed
    BY <2>1, <2>2 DEF Ledgered, SignalsSpent
  <2> QED
    BY <2>3 DEF EntriesConsumed, EntrySends
<1> QED
  BY <1>1, LedgerInductive, Inductive, PTL
-----------------------------------------------------------------------------
(* The abstract owner *)

\* A step that leaves what the owner shows alone.
LEMMA OwnerStutters ==
  ASSUME Inventories(journal)' = Inventories(journal), held' = held, Armed' = Armed
  PROVE  UNCHANGED Owner!ownerVars
  BY DEF Owner!ownerVars

\* What the journal allows in each phase.
LEMMA InventoriesOf ==
  ASSUME NEW j \in Journal
  PROVE  /\ j.phase = "idle" => Inventories(j) = {"flat"}
         /\ j.phase = "open" => Inventories(j) = {"pair"}
         /\ j.phase \in Asking => Inventories(j) = {Before(j.intent)}
         /\ j.phase = "settling" => Inventories(j) = {"flat", "pair"}
         /\ j.phase = "halted" => Inventories(j) = {"flat", "pair", "other"}
  BY JournalFields DEF Inventories, Expected, Asking, Before

LEMMA OwnerInit ==
  ASSUME Init
  PROVE  Owner!Init
<1>1. journal \in Journal
  BY InitIInv DEF IInv, TypeOK
<1>2. CASE journal = FreshJournal /\ held = "flat"
  <2>1. journal.phase = "idle"
    BY <1>2 DEF FreshJournal
  <2>2. Inventories(journal) = {"flat"} /\ ~Armed
    BY <1>1, <2>1, InventoriesOf DEF Armed
  <2> QED
    BY <1>2, <2>2 DEF Owner!Init, Owner!Whole
<1>3. CASE journal = LegacyJournal /\ held = "pair"
  <2>1. journal.phase = "open"
    BY <1>3 DEF LegacyJournal, FreshJournal
  <2>2. Inventories(journal) = {"pair"} /\ ~Armed
    BY <1>1, <2>1, InventoriesOf DEF Armed
  <2> QED
    BY <1>3, <2>2 DEF Owner!Init, Owner!Whole
<1> QED
  BY <1>2, <1>3 DEF Init

LEMMA OwnerBot ==
  ASSUME IInv, IInv', ~tampered, Bot
  PROVE  [Owner!Next]_(Owner!ownerVars)
<1>1. journal \in Journal /\ journal' \in Journal
  BY DEF IInv, TypeOK
<1>2. rfqs' = rfqs /\ held' = held
  BY DEF Bot, Tick, Account, HaltUnowned, Decline, Admit, HaltUnmatched, ServiceOpen,
         Recover, Ask, SaveRequest, Send, Accept, NotListed, Quote, HaltFilled,
         NoExecution, AwaitCancelled, WithdrawEntry, ReadOffers, NoDeal, Prepare,
         Overtaken, HaltChanged, SaveExecution, Submit, Acknowledge, Cancel, Settle,
         NoRow, HaltMismatched, HaltSettlement, AwaitInventory, SettleEntry, SettleExit,
         Interrupt, venueVars
<1>3. Inventories(journal)' = Inventories(journal')
  BY DEF Inventories, Expected
<1>4. Executed => rfqs[journal.label].status = "filled"
  BY DEF Executed, Filled, IInv, LabelsDrawn
<1>5. CASE journal' = journal
  <2>1. Inventories(journal)' = Inventories(journal) /\ Armed' = Armed
    BY <1>2, <1>5 DEF Armed, Inventories, Expected
  <2> QED
    BY <1>2, <2>1, OwnerStutters
<1>6. CASE Moves
  <2>1. Inventories(journal') = Inventories(journal)
    <3>1. Inventories(journal) = {Before(journal.intent)}
      BY <1>1, <1>6, InventoriesOf DEF Moves
    <3>2. CASE journal'.phase \in Asking
      BY <1>1, <1>6, <3>1, <3>2, InventoriesOf DEF Moves
    <3>3. CASE journal'.phase \notin Asking
      BY <1>1, <1>6, <3>1, <3>3, InventoriesOf DEF Moves, Before, Journal
    <3> QED
      BY <3>2, <3>3
  <2>2. Armed = FALSE /\ Armed' = FALSE
    BY <1>6 DEF Moves, Asking, Armed
  <2> QED
    BY <1>2, <1>3, <2>1, <2>2, OwnerStutters
<1>7. CASE Draws
  <2>1. Inventories(journal') = Inventories(journal)
    <3>1. Inventories(journal') = {Before(journal'.intent)}
      BY <1>1, <1>7, InventoriesOf DEF Draws, Asking
    <3>2. Before(journal'.intent) = IF journal.phase = "idle" THEN "flat" ELSE "pair"
      BY <1>7 DEF Draws, Before
    <3> QED
      BY <1>1, <1>7, <3>1, <3>2, InventoriesOf DEF Draws
  <2>2. Armed = FALSE /\ Armed' = FALSE
    BY <1>7 DEF Draws, Armed
  <2> QED
    BY <1>2, <1>3, <2>1, <2>2, OwnerStutters
<1>8. CASE Commits
  <2>1. Inventories(journal) = {Before(journal.intent)}
    BY <1>1, <1>8, InventoriesOf DEF Commits
  <2>2. held = Before(journal.intent) /\ rfqs[journal.label].status # "filled"
    BY <1>8 DEF Commits, Asking, IInv, Holding
  <2>3. Inventories(journal)' = {"flat", "pair"}
    BY <1>1, <1>3, <1>8, InventoriesOf DEF Commits
  <2>4. Armed'
    BY <1>2, <1>8, <2>2 DEF Commits, Armed
  <2>5. Owner!Decide
    BY <1>2, <2>1, <2>2, <2>3, <2>4 DEF Owner!Decide, Owner!Whole
  <2> QED
    BY <2>5 DEF Owner!Next
<1>9. CASE Records
  <2>1. /\ Inventories(journal) = {"flat", "pair"} /\ journal.phase = "settling"
        /\ rfqs[journal.label].status = "filled" /\ held = Target(journal.intent)
    BY <1>1, <1>4, <1>9, InventoriesOf DEF Records, IInv, Holding
  <2>2. Armed = FALSE /\ Armed' = FALSE
    BY <1>2, <1>9, <2>1 DEF Records, Armed
  <2>3. CASE journal'.phase = "settling"
    <3>1. Inventories(journal)' = Inventories(journal)
      BY <1>1, <1>3, <2>1, <2>3, InventoriesOf
    <3> QED
      BY <1>2, <2>2, <3>1, OwnerStutters
  <2>4. CASE journal'.phase = "halted"
    <3>1. Inventories(journal)' = {"flat", "pair", "other"}
      BY <1>1, <1>3, <2>4, InventoriesOf
    <3>2. "other" \notin {"flat", "pair"}
      OBVIOUS
    <3>3. Owner!Freeze
      BY <1>2, <2>1, <2>2, <3>1, <3>2 DEF Owner!Freeze, Owner!Anything, Owner!Whole
    <3> QED
      BY <3>3 DEF Owner!Next
  <2>5. CASE \/ journal.intent = "entry" /\ journal'.phase = "open"
             \/ journal.intent = "exit" /\ journal'.phase = "idle"
    <3>1. Inventories(journal)' = {held}
      BY <1>1, <1>3, <2>1, <2>5, InventoriesOf DEF Target
    <3>2. Owner!Learn
      BY <1>2, <2>1, <2>2, <3>1 DEF Owner!Learn, Owner!Whole
    <3> QED
      BY <3>2 DEF Owner!Next
  <2> QED
    BY <1>9, <2>3, <2>4, <2>5 DEF Records
<1>10. CASE Halts
  <2>1. Inventories(journal)' = {"flat", "pair", "other"}
    BY <1>1, <1>3, <1>10, InventoriesOf DEF Halts
  <2>2. Armed = FALSE /\ Armed' = FALSE
    BY <1>4, <1>10 DEF Halts, Armed
  <2>3. CASE journal.phase = "halted"
    <3>1. Inventories(journal)' = Inventories(journal)
      BY <1>1, <2>1, <2>3, InventoriesOf
    <3> QED
      BY <1>2, <2>2, <3>1, OwnerStutters
  <2>4. CASE journal.phase # "halted"
    <3>1. "other" \notin Inventories(journal)
      BY <1>1, <2>4, InventoriesOf, JournalFields DEF Asking, Before
    <3>2. Owner!Freeze
      BY <1>2, <2>1, <2>2, <3>1 DEF Owner!Freeze, Owner!Anything, Owner!Whole
    <3> QED
      BY <3>2 DEF Owner!Next
  <2> QED
    BY <2>3, <2>4
<1> QED
  BY <1>5, <1>6, <1>7, <1>8, <1>9, <1>10, BotMoves

LEMMA OwnerVenue ==
  ASSUME IInv, IInv', ~tampered, ~Foreign, Venue
  PROVE  [Owner!Next]_(Owner!ownerVars)
<1>1. journal \in Journal /\ journal' = journal /\ Inventories(journal)' = Inventories(journal)
  BY DEF IInv, TypeOK, Venue, OpenRFQ, CancelRFQ, Execute, Lose, Expire, FailBatch, Tamper,
         botVars, Inventories, Expected
<1>2. ASSUME NEW m \in InFlight, Execute(m)
      PROVE  Owner!Trade
  <2>1. /\ journal.phase = "settling" /\ journal.label \in Labels /\ ~Executed
        /\ Filled' = Filled \cup {journal.label}
    BY <1>2, ExecuteFills
  <2>2. /\ m.label = journal.label /\ m.intent = journal.intent
        /\ rfqs[journal.label].status = "open" /\ journal.intent \in Intents
    BY <1>1, <1>2, JournalFields DEF Execute, IInv, WriteAhead, Request
  <2>3. rfqs'[journal.label].status = "filled"
    <3>1. Executed'
      BY <1>1, <2>1 DEF Executed
    <3> QED
      BY <1>1, <3>1 DEF Executed, Filled, IInv, LabelsDrawn
  <2>4. held = Before(journal.intent) /\ held' = Target(journal.intent)
    BY <1>2, <2>1, <2>2 DEF IInv, Holding, Execute, Traded
  <2>5. Armed /\ ~Armed'
    BY <1>1, <2>1, <2>2, <2>3 DEF Armed
  <2>6. Inventories(journal) = {"flat", "pair"}
    BY <1>1, <2>1, InventoriesOf
  <2> QED
    BY <1>1, <2>2, <2>4, <2>5, <2>6 DEF Owner!Trade, Owner!Whole, Before, Target
<1>3. CASE ~ \E m \in InFlight : Execute(m)
  <2>1. held' = held
    BY <1>3 DEF Venue, OpenRFQ, CancelRFQ, Execute, Lose, Expire, FailBatch, Tamper
  <2>2. rfqs \in [Labels -> RFQ]
    BY DEF IInv, TypeOK
  <2>3. journal.phase = "settling" => journal.label \in Labels
    BY DEF IInv, Control
  <2>4. ASSUME journal.phase = "settling"
        PROVE  rfqs'[journal.label].status = "filled" <=> rfqs[journal.label].status = "filled"
    <3>1. ASSUME NEW l \in Labels, rfqs[l].status = "open",
                 rfqs' = [rfqs EXCEPT ![l].status = "cancelled"]
          PROVE  rfqs'[journal.label].status = "filled" <=> rfqs[journal.label].status = "filled"
      <4>1. rfqs[l] \in RFQ
        BY <2>2
      <4> QED
        BY <2>2, <2>3, <2>4, <3>1, <4>1 DEF RFQ
    <3>2. ASSUME NEW l \in Labels, rfqs' = [rfqs EXCEPT ![l].row = "failed"]
          PROVE  rfqs'[journal.label].status = "filled" <=> rfqs[journal.label].status = "filled"
      <4>1. rfqs[l] \in RFQ
        BY <2>2
      <4> QED
        BY <2>2, <2>3, <2>4, <3>2, <4>1 DEF RFQ
    <3>3. ASSUME NEW m \in InFlight, CancelRFQ(m)
          PROVE  rfqs'[journal.label].status = "filled" <=> rfqs[journal.label].status = "filled"
      <4>1. m.label \in Labels
        BY <3>3 DEF CancelRFQ, IInv, TypeOK, Message
      <4> QED
        BY <3>1, <3>3, <4>1 DEF CancelRFQ
    <3>4. \A m \in InFlight : ~OpenRFQ(m)
      BY <2>4 DEF OpenRFQ, IInv, WriteAhead
    <3> QED
      BY <1>3, <3>1, <3>2, <3>3, <3>4 DEF Venue, Lose, Expire, FailBatch, Tamper
  <2>5. Armed' = Armed
    BY <1>1, <2>4 DEF Armed
  <2> QED
    BY <1>1, <2>1, <2>5, OwnerStutters
<1> QED
  BY <1>2, <1>3 DEF Owner!Next

\* The slot, its journal and the venue implement the abstract owner as long
\* as nobody else trades on the subaccount: through crashes, lost answers and
\* late requests the spread changes hands as a whole, once per decision, only
\* after the journal has stopped claiming to know where it is.
THEOREM OwnerImplemented == ~Foreign => (Spec => ImplementsOwner)
<1> SUFFICES ASSUME ~Foreign PROVE Spec => ImplementsOwner
  OBVIOUS
<1>1. Init => ~tampered
  BY DEF Init
<1>2. ~tampered /\ [Next]_vars => ~tampered'
  BY DEF Next, vars, Bot, Tick, Account, HaltUnowned, Decline, Admit, HaltUnmatched,
         ServiceOpen, Recover, Ask, SaveRequest, Send, Accept, NotListed, Quote, HaltFilled,
         NoExecution, AwaitCancelled, WithdrawEntry, ReadOffers, NoDeal, Prepare,
         Overtaken, HaltChanged, SaveExecution, Submit, Acknowledge, Cancel, Settle,
         NoRow, HaltMismatched, HaltSettlement, AwaitInventory, SettleEntry, SettleExit,
         Interrupt, Venue, OpenRFQ, CancelRFQ, Execute, Lose, Expire, FailBatch, Tamper,
         venueVars
<1>3. IInv /\ IInv' /\ ~tampered /\ [Next]_vars => [Owner!Next]_(Owner!ownerVars)
  <2> SUFFICES ASSUME IInv, IInv', ~tampered, [Next]_vars
               PROVE  [Owner!Next]_(Owner!ownerVars)
    OBVIOUS
  <2>1. CASE UNCHANGED vars
    <3>1. Inventories(journal)' = Inventories(journal) /\ held' = held /\ Armed' = Armed
      BY <2>1 DEF vars, Inventories, Expected, Armed
    <3> QED
      BY <3>1, OwnerStutters
  <2> QED
    BY <2>1, OwnerBot, OwnerVenue DEF Next
<1>4. Init => Owner!Init
  BY OwnerInit
<1> QED
  BY <1>1, <1>2, <1>3, <1>4, Inductive, PTL DEF Spec, ImplementsOwner, Owner!Spec
=============================================================================
