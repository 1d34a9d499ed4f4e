------------------------------- MODULE MCPvp -------------------------------
(* Small instances of Pvp: two characters who may attack each other, one of    *)
(* whom has no wallet yet.                                                     *)
EXTENDS Pvp, TLC

CONSTANTS p1, p2, ana, bia

MCPower == [c \in Char |-> IF c = ana THEN 10 ELSE 20]
MCMoral == [c \in Char |-> IF c = ana THEN 0 ELSE 2]
MCNil == [c \in Char |-> IF c = ana THEN 2 ELSE 1]
MCBalance == [c \in Char |-> IF c = ana THEN NoRow ELSE 4]
Symmetry == Permutations(Proc)
=============================================================================
