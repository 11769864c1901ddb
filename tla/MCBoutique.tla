----------------------------- MODULE MCBoutique -----------------------------
(* Instances of Boutique for TLC. *)
EXTENDS Boutique, TLC

CONSTANTS c1, c2, u1, l1, adm, p1, p2, o1, o2, r1, r2, a1, a2

UneLigne == [u \in Clients |-> [p \in Produits |-> 1]]
StockDeux == [p \in Produits |-> [stock |-> 2, isAvailable |-> TRUE]]
Reassort == {[stock |-> 1, isAvailable |-> TRUE],
             [stock |-> 0, isAvailable |-> FALSE]}

Symetrie == Permutations(Requetes) \cup Permutations(Ordres)
              \cup Permutations(Commandes)
=============================================================================
