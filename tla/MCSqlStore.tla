------------------------------ MODULE MCSqlStore ------------------------------
(* Values of the tables' constants for TLC. *)
EXTENDS PyStore, TLC

CONSTANT p1

OneProcess == {[c \in Callers |-> p1]}

\* Callers are interchangeable: the layouts are closed under their permutations.
Symmetry == Permutations(Callers)
=============================================================================
