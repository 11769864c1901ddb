------------------------------ MODULE MCCaisse ------------------------------
(* Instances of Caisse for TLC. *)
EXTENDS Caisse

CONSTANTS c1, u1, l1, adm, p1, o1, o2, r1, r2, a1

UneLigne == [u \in Clients |-> [p \in Produits |-> 1]]
StockUn == [p \in Produits |-> [stock |-> 1, isAvailable |-> TRUE]]
Symetrie == Permutations(Requetes) \cup Permutations(Ordres)
MaximumClics == [EN_LIGNE |-> 2, A_LA_LIVRAISON |-> 3]
=============================================================================
