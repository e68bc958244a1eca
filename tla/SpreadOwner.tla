---------------------------- MODULE SpreadOwner ----------------------------
(***************************************************************************)
(* What a spread slot promises, with the venue's protocol left out: the    *)
(* spread changes hands as a whole, at most once per decision, only after  *)
(* the owner's durable record has stopped claiming to know where it is,    *)
(* and the record becomes certain again only when it is right.             *)
(***************************************************************************)
VARIABLES
  held,    \* what the account holds of the spread
  record,  \* the holdings the owner's durable record allows
  armed    \* may the decision in hand still take effect?

ownerVars == <<held, record, armed>>

Whole    == {"flat", "pair"}
Anything == Whole \cup {"other"}

Init ==
  /\ held \in Whole
  /\ record = {held}
  /\ armed = FALSE

\* The owner decides to trade and says first that either outcome is possible.
Decide ==
  /\ record = {held}
  /\ record' = Whole /\ armed' = TRUE
  /\ UNCHANGED held

\* The whole spread is bought, or sold.
Trade ==
  /\ armed /\ record = Whole
  /\ held' \in Whole \ {held}
  /\ armed' = FALSE
  /\ UNCHANGED record

\* The owner has seen the outcome.
Learn ==
  /\ ~armed /\ record = Whole
  /\ record' = {held}
  /\ UNCHANGED <<held, armed>>

\* The owner gives up knowing: no decision is left behind, and none follows.
Freeze ==
  /\ record # Anything /\ ~armed
  /\ record' = Anything
  /\ UNCHANGED <<held, armed>>

Next == Decide \/ Trade \/ Learn \/ Freeze

Spec == Init /\ [][Next]_ownerVars
=============================================================================
