---------------------------- MODULE Encaissement ----------------------------
(***************************************************************************)
(* What the shop promises about money, whatever requests interleave and    *)
(* whichever of them die:                                                  *)
(*   - an online order leaves the initial state, other than by being       *)
(*     cancelled, is given to a deliverer, or moves the stock only after   *)
(*     its money was taken;                                                *)
(*   - a cash order is delivered only after its money was taken;           *)
(*   - an invoice exists only for an order whose money was taken, and      *)
(*     invoices are numbered 1, 2, 3, ... without a gap, in the order in   *)
(*     which they are made.                                                *)
(* One action per event; there are no requests, no PayPal and no crashes.  *)
(***************************************************************************)
EXTENDS Integers

CONSTANTS Commandes, Livreurs, Aucun

VARIABLES
  suivi,      \* state of delivery
  methode,    \* payment method
  encaisse,   \* the money was taken
  livreur,    \* the deliverer
  sorties,    \* times the quantities were taken out of the stock, net
  numero      \* number of the invoice, 0 if none

evars == <<suivi, methode, encaisse, livreur, sorties, numero>>

EInit ==
  /\ suivi = [c \in Commandes |-> "AUCUN"]
  /\ methode = [c \in Commandes |-> "AUCUNE"]
  /\ encaisse = [c \in Commandes |-> FALSE]
  /\ livreur = [c \in Commandes |-> Aucun]
  /\ sorties = [c \in Commandes |-> 0]
  /\ numero = [c \in Commandes |-> 0]

\* The gate: an online order does nothing before its money is there.
Confirmee(c) == methode[c] = "EN_LIGNE" => encaisse[c]

Passer(c, m, n) ==
  /\ suivi[c] = "AUCUN"
  /\ n = IF m = "EN_LIGNE" THEN 0 ELSE 1
  /\ suivi' = [suivi EXCEPT ![c] = "EN_ATTENTE"]
  /\ methode' = [methode EXCEPT ![c] = m]
  /\ sorties' = [sorties EXCEPT ![c] = @ + n]
  /\ UNCHANGED <<encaisse, livreur, numero>>

Encaisser(c) ==
  /\ suivi[c] # "AUCUN"
  /\ encaisse' = [encaisse EXCEPT ![c] = TRUE]
  /\ UNCHANGED <<suivi, methode, livreur, sorties, numero>>

Suivre(c, e) ==
  /\ suivi[c] # "AUCUN"
  /\ e # "ANNULEE" => Confirmee(c)
  /\ e = "LIVREE" => encaisse[c]
  /\ suivi' = [suivi EXCEPT ![c] = e]
  /\ UNCHANGED <<methode, encaisse, livreur, sorties, numero>>

Confier(c, l) ==
  /\ suivi[c] # "AUCUN"
  /\ Confirmee(c)
  /\ livreur' = [livreur EXCEPT ![c] = l]
  /\ UNCHANGED <<suivi, methode, encaisse, sorties, numero>>

Sortir(c) ==
  /\ suivi[c] # "AUCUN"
  /\ Confirmee(c)
  /\ sorties' = [sorties EXCEPT ![c] = @ + 1]
  /\ UNCHANGED <<suivi, methode, encaisse, livreur, numero>>

\* A client's cancellation puts back the quantities of a confirmed order.
AnnulerEtRendre(c) ==
  /\ suivi[c] # "AUCUN"
  /\ Confirmee(c)
  /\ suivi' = [suivi EXCEPT ![c] = "ANNULEE"]
  /\ sorties' = [sorties EXCEPT ![c] = @ - 1]
  /\ UNCHANGED <<methode, encaisse, livreur, numero>>

\* The invoices made before are numbered 1 .. n.
Facturer(c, n) ==
  /\ encaisse[c]
  /\ numero[c] = 0
  /\ {numero[d] : d \in Commandes} = 0 .. n
  /\ numero' = [numero EXCEPT ![c] = n + 1]
  /\ UNCHANGED <<suivi, methode, encaisse, livreur, sorties>>

ENext ==
  \E c \in Commandes :
    \/ \E m \in {"EN_LIGNE", "A_LA_LIVRAISON"}, n \in {0, 1} : Passer(c, m, n)
    \/ Encaisser(c)
    \/ \E e \in {"EN_ATTENTE", "EN_LIVRAISON", "LIVREE", "ANNULEE"} :
         Suivre(c, e)
    \/ \E l \in Livreurs : Confier(c, l)
    \/ Sortir(c)
    \/ AnnulerEtRendre(c)
    \/ \E n \in {numero[d] : d \in Commandes} : Facturer(c, n)

ESpec == EInit /\ [][ENext]_evars
=============================================================================
