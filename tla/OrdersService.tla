--------------------------- MODULE OrdersService ----------------------------
(***************************************************************************)
(* backend/src/orders/orders.service.ts.  A handler reads the order (or    *)
(* the cart) and checks its guards in one step, and writes in a later one. *)
(***************************************************************************)
EXTENDS Donnees

StockSuffisant(l) ==
  \A p \in Presents(l) : produit[p].isAvailable /\ produit[p].stock >= l[p]

\* Bound: an id for every order that is being created.
IdDisponible ==
  Cardinality({q \in Requetes : req[q].pc = "create"})
    < Cardinality({c \in Commandes : ~Existe(c)})

\* create: read the cart, check each line against availability and stock.
Create(r, u, m, a) ==
  /\ Libre(r)
  /\ IdDisponible
  /\ u \in Verifies
  /\ Presents(panier[u]) # {}
  /\ StockSuffisant(panier[u])
  /\ Etape(r, [pc |-> "create", client |-> u, methode |-> m, adresse |-> a,
               lignes |-> panier[u]])
  /\ UNCHANGED <<commande, paiement, facture, produit, panier, paypal, net,
                 courriels, pannes>>

\* create: the transaction.  Only a cash order takes the stock, and it empties
\* the whole cart, whatever was added to it since it was read.
CreateTransaction(r) ==
  /\ req[r].pc = "create"
  /\ \E c \in Commandes :
       /\ ~Existe(c)
       /\ commande' = [commande EXCEPT ![c] =
            [etat |-> "EN_ATTENTE", client |-> req[r].client,
             lignes |-> req[r].lignes, livreur |-> Aucun,
             adresse |-> req[r].adresse]]
       /\ paiement' = [paiement EXCEPT ![c] =
            [methode |-> req[r].methode, statut |-> "PENDING",
             transaction |-> Aucun]]
       /\ \/ /\ req[r].methode = "EN_LIGNE"
             /\ UNCHANGED <<produit, panier, net>>
          \/ /\ req[r].methode # "EN_LIGNE"
             /\ Disponibles(req[r].lignes)
             /\ produit' = Ajuste(req[r].lignes, -1)
             /\ panier' = [panier EXCEPT ![req[r].client] = AucuneLigne]
             /\ net' = [net EXCEPT ![c] = @ + 1]
  /\ Repond(r)
  /\ UNCHANGED <<facture, paypal, courriels, pannes>>

----------------------------------------------------------------------------
\* assertModifiable: an online order until its payment was processed, a cash
\* order until it leaves.
Modifiable(c) ==
  IF EnLigne(c) THEN paiement[c].statut = "PENDING"
                ELSE commande[c].etat = "EN_ATTENTE"

\* update, by the owner: read and check, then write the address.
Update(r, c, a) ==
  /\ Libre(r)
  /\ Existe(c)
  /\ Modifiable(c)
  /\ Etape(r, [pc |-> "update", c |-> c, adresse |-> a])
  /\ UNCHANGED <<commande, paiement, facture, produit, panier, paypal, net,
                 courriels, pannes>>

UpdateEcrire(r) ==
  /\ req[r].pc = "update"
  /\ commande' = [commande EXCEPT ![req[r].c].adresse = req[r].adresse]
  /\ Repond(r)
  /\ UNCHANGED <<paiement, facture, produit, panier, paypal, net, courriels,
                 pannes>>

----------------------------------------------------------------------------
\* Mutant: every cancellation restores (the first correction of RECOVERY.md).
CancelRestaure(r, c) ==
  /\ commande[c].etat = "EN_ATTENTE"
  /\ Etape(r, [pc |-> "cancel", c |-> c, jamaisConsommee |-> FALSE])

\* cancel, first part: what the read decides, for the owner's own request and
\* for a capture PayPal refused.
CancelLire(r, c) ==
  /\ commande[c].etat = "EN_ATTENTE"
  /\ Etape(r, [pc |-> "cancel", c |-> c,
               jamaisConsommee |-> EnLigneNonPaye(c)])

\* Bound: MaxRestitutions.
Cancel(r, c) ==
  /\ Libre(r)
  /\ net[c] >= -MaxRestitutions
  /\ CancelLire(r, c)
  /\ UNCHANGED <<commande, paiement, facture, produit, panier, paypal, net,
                 courriels, pannes>>

\* The cart u with the lines of an order added to it again.
Rendu(u, l) ==
  [p \in Produits |-> IF p \in Presents(panier[u]) \cup Presents(l)
                        THEN Quantite(panier[u], p) + Quantite(l, p)
                        ELSE Aucun]

\* cancel: the transaction.
CancelTransaction(r) ==
  LET c == req[r].c
      l == commande[c].lignes
      u == commande[c].client
  IN  /\ req[r].pc = "cancel"
      /\ \/ /\ req[r].jamaisConsommee
            /\ UNCHANGED <<produit, panier, net>>
         \/ /\ ~req[r].jamaisConsommee
            /\ Disponibles(l)
            /\ produit' = Ajuste(l, 1)
            /\ panier' = [panier EXCEPT ![u] = Rendu(u, l)]
            /\ net' = [net EXCEPT ![c] = @ - 1]
      /\ commande' = [commande EXCEPT ![c].etat = "ANNULEE"]
      /\ Repond(r)
      /\ UNCHANGED <<paiement, facture, paypal, courriels, pannes>>

----------------------------------------------------------------------------
\* assignLivreur, by an admin: no condition on the state of the order.
AssignLivreur(r, c, l) ==
  /\ Libre(r)
  /\ Admins # {}
  /\ Existe(c)
  /\ ~EnLigneNonPaye(c)
  /\ Etape(r, [pc |-> "assignLivreur", c |-> c, livreur |-> l])
  /\ UNCHANGED <<commande, paiement, facture, produit, panier, paypal, net,
                 courriels, pannes>>

AssignLivreurEcrire(r) ==
  /\ req[r].pc = "assignLivreur"
  /\ commande' = [commande EXCEPT ![req[r].c].livreur = req[r].livreur]
  /\ Repond(r)
  /\ UNCHANGED <<paiement, facture, produit, panier, paypal, net, courriels,
                 pannes>>

----------------------------------------------------------------------------
AdminOuLivreurAssigne(u, c) == u \in Admins \/ commande[c].livreur = u

\* Mutant: the cash need not be confirmed.
ProgressionSansCash(u, c, e) ==
  /\ AdminOuLivreurAssigne(u, c)
  /\ commande[c].etat \in {"LIVREE", "ANNULEE"} => e = commande[c].etat
  /\ e # "ANNULEE" => ~EnLigneNonPaye(c)

\* updateStatus: who may move order c to state e, and when.
Progression(u, c, e) ==
  /\ AdminOuLivreurAssigne(u, c)
  /\ commande[c].etat \in {"LIVREE", "ANNULEE"} => e = commande[c].etat
  /\ e = "LIVREE" /\ ALaLivraison(c) => Paye(c)
  /\ e # "ANNULEE" => ~EnLigneNonPaye(c)

UpdateStatus(r, u, c, e) ==
  /\ Libre(r)
  /\ Existe(c)
  /\ Progression(u, c, e)
  /\ Etape(r, [pc |-> "updateStatus", c |-> c, etat |-> e])
  /\ UNCHANGED <<commande, paiement, facture, produit, panier, paypal, net,
                 courriels, pannes>>

\* The write restores neither stock nor cart, for ANNULEE either.
UpdateStatusEcrire(r) ==
  /\ req[r].pc = "updateStatus"
  /\ commande' = [commande EXCEPT ![req[r].c].etat = req[r].etat]
  /\ Repond(r)
  /\ UNCHANGED <<paiement, facture, produit, panier, paypal, net, courriels,
                 pannes>>

----------------------------------------------------------------------------
\* confirmOnlinePaymentSuccess: the transaction locks the products it
\* decrements and reads the rows of the cart ...
ConfirmOnlinePaymentSuccess(r) ==
  LET c == req[r].c IN
  /\ req[r].pc = "confirmOnline"
  /\ Disponibles(commande[c].lignes)
  /\ Etape(r, [pc |-> "consommer", c |-> c, vu |-> panier[commande[c].client]])
  /\ UNCHANGED <<commande, paiement, facture, produit, panier, paypal, net,
                 courriels, pannes>>

\* ... then deletes or decrements the rows it saw.  A row deleted in between
\* makes the write throw: the transaction is rolled back, the request fails.
Consommation(r) ==
  LET c == req[r].c
      u == commande[c].client
      l == commande[c].lignes
      vus == Presents(l) \cap Presents(req[r].vu)
      vides == {p \in vus : req[r].vu[p] <= l[p]}
  IN  IF vus \subseteq Presents(panier[u])
      THEN /\ produit' = Ajuste(l, -1)
           /\ panier' = [panier EXCEPT ![u] =
                [p \in Produits |->
                   IF p \in vides THEN Aucun
                   ELSE IF p \in vus THEN panier[u][p] - l[p]
                   ELSE panier[u][p]]]
           /\ net' = [net EXCEPT ![c] = @ + 1]
           /\ Etape(r, [pc |-> "generate", c |-> c])
      ELSE /\ Repond(r)
           /\ UNCHANGED <<produit, panier, net>>

ConfirmOnlinePaymentTransaction(r) ==
  /\ req[r].pc = "consommer"
  /\ Consommation(r)
  /\ UNCHANGED <<commande, paiement, facture, paypal, courriels, pannes>>

----------------------------------------------------------------------------
OrdersNext(r) ==
  \/ \E u \in Clients, m \in Methodes, a \in Adresses : Create(r, u, m, a)
  \/ CreateTransaction(r)
  \/ \E c \in Commandes, a \in Adresses : Update(r, c, a)
  \/ UpdateEcrire(r)
  \/ \E c \in Commandes : Cancel(r, c)
  \/ CancelTransaction(r)
  \/ \E c \in Commandes, l \in Livreurs : AssignLivreur(r, c, l)
  \/ AssignLivreurEcrire(r)
  \/ \E u \in Admins \cup Livreurs, c \in Commandes, e \in Etats :
       UpdateStatus(r, u, c, e)
  \/ UpdateStatusEcrire(r)
  \/ ConfirmOnlinePaymentSuccess(r)
  \/ ConfirmOnlinePaymentTransaction(r)
=============================================================================
