------------------------------- MODULE MCCrew -------------------------------
(* A small instance of Crew: requests one at a time, and two requests at a time *)
(* of whose invites one may expire.  Two of the three characters come from one  *)
(* district.                                                                    *)
EXTENDS Crew, TLC

CONSTANTS p1, p2, ana, bia, caio, k1, k2, n1, n2, north, south

MCOrigin == [x \in Char |-> IF x = caio THEN south ELSE north]
MCBalance == [x \in Char |-> IF x = ana THEN 2 ELSE IF x = bia THEN 1 ELSE 0]
Symmetry == Permutations(Proc) \cup Permutations(CrewId) \cup Permutations(Name)

\* Overlapping requests are followed while one invite has expired at most.
MCNext == Next /\ (hist'.alone \/ Cardinality(hist'.expired) <= 1)
MCSpec == Init /\ [][MCNext]_vars
=============================================================================
