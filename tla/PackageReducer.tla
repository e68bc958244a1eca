---------------------------- MODULE PackageReducer ----------------------------
(***************************************************************************)
(* The pure reducer of src/execution/paired.py: the lifecycle of one       *)
(* atomic package of a buy and a sell leg.  Reports are cumulative counts  *)
(* of lots and say nothing about when they were taken.                     *)
(*                                                                         *)
(* An event that transition rejects with ValueError changes nothing and is *)
(* not among Events.  The five flags and limits of entry_guard are one     *)
(* flag, "clear".                                                          *)
(***************************************************************************)
EXTENDS Integers

CONSTANTS
  Lots,   \* the lot counts an event may carry
  Cents   \* the amounts a reservation, and a budget, may have

ASSUME QuantityAssumption == Lots \subseteq Nat /\ Cents \subseteq Nat

VARIABLE state

Phases  == {"flat", "opening", "open", "closing", "halted"}
Reasons == {"", "pending", "unmatched", "duplicate"}

State ==
  [phase : Phases, target : Nat, open_buy : Nat, open_sell : Nat,
   close_buy : Nat, close_sell : Nat, reserved : Nat, reason : Reasons,
   reported : {<<>>} \cup (Int \X Int)]

Flat ==
  [phase |-> "flat", target |-> 0, open_buy |-> 0, open_sell |-> 0,
   close_buy |-> 0, close_sell |-> 0, reserved |-> 0, reason |-> "",
   reported |-> <<>>]

Prepares == [type : {"prepare"}, target : Lots, reserve : Cents, budget : Cents,
             clear : BOOLEAN]
Reports  == [type : {"open_report", "close_report"}, buy : Lots, sell : Lots,
             terminal : BOOLEAN]
Events   == Prepares \cup Reports \cup [type : {"request_close", "timeout"}]

Exposure(s) == <<s.open_buy - s.close_buy, s.open_sell - s.close_sell>>

-----------------------------------------------------------------------------
(* The reducer *)

\* Mutant: the two legs need not agree.
UnmatchedReportGuard(previous, e, limit) ==
  /\ e.buy >= previous[1] /\ e.sell >= previous[2]
  /\ e.buy <= limit /\ e.sell <= limit

\* A cumulative report is accepted if it goes back on nothing, both legs
\* agree, and neither exceeds the limit.
MatchedReportGuard(previous, e, limit) ==
  /\ e.buy >= previous[1] /\ e.sell >= previous[2] /\ e.buy = e.sell
  /\ e.buy <= limit /\ e.sell <= limit

\* A package is prepared on a flat, unreserved account whose budget covers it.
Prepared(s, e) ==
  IF /\ e.clear /\ s.phase = "flat" /\ s.reserved = 0
     /\ e.reserve > 0 /\ e.reserve <= e.budget - s.reserved
     /\ e.target > 0
  THEN [Flat EXCEPT !.phase = "opening", !.target = e.target, !.reserved = e.reserve]
  ELSE s

TimedOut(s) ==
  IF s.phase \in {"opening", "closing"}
  THEN [s EXCEPT !.phase = "halted", !.reason = "pending"]
  ELSE s

Unmatched(s, e) ==
  [s EXCEPT !.phase = "halted", !.reason = "unmatched",
            !.reported = <<e.buy, e.sell>>]

Opened(s, e) ==
  LET updated == [s EXCEPT !.open_buy = e.buy, !.open_sell = e.sell]
  IN  CASE ~e.terminal -> updated
        [] e.terminal /\ e.buy = 0 -> Flat
        [] e.terminal /\ e.buy # 0 -> [updated EXCEPT !.phase = "open"]

\* Mutant: any terminal report of a close ends the package.
ClosedAnyhow(s, e) ==
  LET updated == [s EXCEPT !.close_buy = e.buy, !.close_sell = e.sell]
  IN  IF e.terminal THEN Flat ELSE updated

\* A close that ended short leaves the package open, counts kept.
Closed(s, e) ==
  LET updated == [s EXCEPT !.close_buy = e.buy, !.close_sell = e.sell]
  IN  CASE ~e.terminal -> updated
        [] e.terminal /\ e.buy = s.open_buy -> Flat
        [] e.terminal /\ e.buy # s.open_buy -> [updated EXCEPT !.phase = "open"]

Reported(s, e) ==
  IF e.type = "open_report"
  THEN IF s.phase = "opening"
            /\ MatchedReportGuard(<<s.open_buy, s.open_sell>>, e, s.target)
       THEN Opened(s, e) ELSE Unmatched(s, e)
  ELSE IF s.phase = "closing"
            /\ MatchedReportGuard(<<s.close_buy, s.close_sell>>, e, s.open_buy)
       THEN Closed(s, e) ELSE Unmatched(s, e)

Transition(s, e) ==
  IF s.phase = "halted" THEN s
  ELSE CASE e.type = "prepare" -> Prepared(s, e)
         [] e.type = "request_close" ->
              IF s.phase = "open" THEN [s EXCEPT !.phase = "closing"] ELSE s
         [] e.type = "timeout" -> TimedOut(s)
         [] e.type \in {"open_report", "close_report"} -> Reported(s, e)

\* Mutant: the halted state is built afresh.
ConflictingForgets(s) ==
  [Flat EXCEPT !.phase = "halted", !.reason = "duplicate", !.reported = Exposure(s)]

\* PairedModel.apply: an event id was used again for another event.
Conflicting(s) ==
  [s EXCEPT !.phase = "halted", !.reason = "duplicate", !.reported = Exposure(s)]

-----------------------------------------------------------------------------
(* Specification *)

Init     == state = Flat
Reduce   == \E e \in Events : state' = Transition(state, e)
Conflict == state' = Conflicting(state)
Next     == Reduce \/ Conflict
Spec     == Init /\ [][Next]_state

-----------------------------------------------------------------------------
(* Properties *)

TypeOK == state \in State

\* The project's own invariant(): an account called flat has nothing open and
\* nothing reserved; an active package has its reservation, and legs that
\* agree lot for lot within the target; a halted one keeps its reservation.
Invariant ==
  /\ state.phase = "halted" => state.target = 0 \/ state.reserved > 0
  /\ state.phase = "flat" => state.reserved = 0 /\ Exposure(state) = <<0, 0>>
  /\ state.phase \notin {"halted", "flat"} =>
       /\ state.reserved > 0
       /\ state.close_buy <= state.open_buy /\ state.open_buy <= state.target
       /\ state.open_buy = state.open_sell /\ state.close_buy = state.close_sell

\* "It doesn't pretend the account is flat": of all events, only a final,
\* matched report makes an account flat, of a close that closed every lot of
\* both legs or of an opening that bought and sold none.
FlatOnlyWhenClosed ==
  \A e \in Events : state # Flat /\ Transition(state, e) = Flat =>
    /\ e.type \in {"open_report", "close_report"} /\ e.terminal
    /\ e.type = "open_report" => <<e.buy, e.sell>> = <<0, 0>>
    /\ e.type = "close_report" => <<e.buy, e.sell>> = <<state.open_buy, state.open_sell>>

\* "Faults retain reservations/exposure": neither a fault nor anything after
\* it changes the reservation, the target or what is open.
FaultsRetained ==
  [][/\ state.phase = "halted" => state'.phase = "halted"
     /\ state'.phase = "halted" =>
          /\ state'.reserved = state.reserved /\ state'.target = state.target
          /\ Exposure(state') = Exposure(state)]_state

\* A reservation is given back only with the package that held it, when the
\* reducer takes the account for flat, and never by a fault.
ReservationHeld ==
  [][state.reserved > 0 /\ state'.reserved # state.reserved =>
       /\ state' = Flat
       /\ state.phase \in {"opening", "closing"}
       /\ state.phase = "opening" => state.open_buy = 0]_state
=============================================================================
