----------------------------- MODULE MCComptes ------------------------------
(* Instances of Comptes for TLC. *)
EXTENDS Comptes, TLC

CONSTANTS e1, r1, r2

Symetrie == Permutations(Requetes)
=============================================================================
