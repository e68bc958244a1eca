---------------------------- MODULE MCOptionsRFQ ----------------------------
(* Model-checking instances of the single-slot RFQ lifecycle. *)
EXTENDS OptionsRFQ
=============================================================================
