----------------------------- MODULE MCVisiteur -----------------------------
(* Instances of Visiteur for TLC. *)
EXTENDS Visiteur, TLC

CONSTANTS p1, p2, r1, r2

Symetrie == Permutations(Produits) \cup Permutations(Requetes)
=============================================================================
