---------------------------- MODULE MCOptionsBook ----------------------------
(* Two disjoint spreads and one that shares a leg with each of them.        *)
EXTENDS OptionsBook

CONSTANTS c1, c2, c3, c4

Spreads == {[buy |-> c1, sell |-> c2], [buy |-> c3, sell |-> c4],
            [buy |-> c2, sell |-> c3]}
=============================================================================
