------------------------------ MODULE Donnees -------------------------------
(***************************************************************************)
(* What the order, payment and invoice services share: the rows they keep  *)
(* in PostgreSQL (backend/prisma/schema.prisma), the PayPal orders they    *)
(* create, and the HTTP requests that are running.                         *)
(*                                                                         *)
(* A request is a record: "pc" names the await it is stopped at, the other *)
(* fields are the local variables of the handler that it still needs.  A   *)
(* prisma call or an interactive transaction is one step (READ COMMITTED,  *)
(* visible when it commits); everything a handler read before that step    *)
(* may be stale by then.                                                   *)
(***************************************************************************)
EXTENDS Integers, FiniteSets

CONSTANTS
  Commandes,        \* ids of the orders that can be created
  Clients,          \* users with the role client
  Verifies,         \* the clients whose e-mail address is verified
  Livreurs,         \* users with the role livreur
  Admins,           \* users with the role admin
  Produits,         \* ids of the products
  Ordres,           \* ids PayPal gives to the orders created there
  Requetes,         \* slots for HTTP requests running at the same time
  Methodes,         \* the payment methods clients choose in this instance
  Adresses,         \* delivery addresses
  Quantites,        \* quantities a client puts in the cart ({}: no edit)
  Reassorts,        \* [stock, isAvailable] values an admin sets ({}: none)
  PanierInitial,    \* the carts at the beginning
  ProduitInitial,   \* the products at the beginning
  MaxPannes,        \* bound: requests that die before they finish
  MaxRestitutions,  \* bound: surplus of restorations a cancel may start from
  Aucun             \* no client, no deliverer, no transaction id

Etats == {"EN_ATTENTE", "EN_LIVRAISON", "LIVREE", "ANNULEE"}
Statuts == {"PENDING", "SUCCESS", "FAILED"}

\* The rows of a cart, or the lines of an order: the quantity of each product
\* that has one, Aucun for the others.
Lignes == [Produits -> {Aucun} \cup Int]
AucuneLigne == [p \in Produits |-> Aucun]
Presents(l) == {p \in Produits : l[p] # Aucun}
Quantite(l, p) == IF l[p] = Aucun THEN 0 ELSE l[p]

ASSUME DonneesAssumption ==
  /\ IsFiniteSet(Commandes)
  /\ Verifies \subseteq Clients
  /\ Methodes \subseteq {"EN_LIGNE", "A_LA_LIVRAISON"}
  /\ Quantites \subseteq Nat \ {0}
  /\ Reassorts \subseteq [stock : Nat, isAvailable : BOOLEAN]
  /\ PanierInitial \in [Clients -> Lignes]
  /\ ProduitInitial \in [Produits -> [stock : Nat, isAvailable : BOOLEAN]]
  /\ MaxPannes \in Nat
  /\ MaxRestitutions \in Nat
  /\ Aucun \notin Clients \cup Livreurs \cup Ordres \cup Adresses \cup Int

VARIABLES
  commande,   \* table Commande with its lines
  paiement,   \* table Paiement, one row for each order
  facture,    \* table Facture: the number of an order's invoice, 0 if none
  produit,    \* table Produit: stock and isAvailable
  panier,     \* table Panier with its lines
  paypal,     \* state of each PayPal order, at PayPal
  req,        \* the running requests
  net,        \* decrements minus increments of the stock made for an order
  courriels,  \* success and invoice e-mails sent for an order
  pannes      \* requests that died so far

vars == <<commande, paiement, facture, produit, panier, paypal, req, net,
          courriels, pannes>>

NonCommande == [etat |-> "AUCUN", client |-> Aucun, lignes |-> AucuneLigne,
                livreur |-> Aucun, adresse |-> Aucun]
NonPaiement == [methode |-> "AUCUNE", statut |-> "PENDING",
                transaction |-> Aucun]

Init ==
  /\ commande = [c \in Commandes |-> NonCommande]
  /\ paiement = [c \in Commandes |-> NonPaiement]
  /\ facture = [c \in Commandes |-> 0]
  /\ produit = ProduitInitial
  /\ panier = PanierInitial
  /\ paypal = [o \in Ordres |-> [etat |-> "AUCUN", commande |-> Aucun]]
  /\ req = [r \in Requetes |-> [pc |-> "libre"]]
  /\ net = [c \in Commandes |-> 0]
  /\ courriels = [c \in Commandes |-> [succes |-> 0, facture |-> 0]]
  /\ pannes = 0

----------------------------------------------------------------------------
CommandeT == [etat : Etats \cup {"AUCUN"}, client : Clients \cup {Aucun},
              lignes : Lignes, livreur : Livreurs \cup {Aucun},
              adresse : Adresses \cup {Aucun}]
PaiementT == [methode : {"EN_LIGNE", "A_LA_LIVRAISON", "AUCUNE"},
              statut : Statuts, transaction : Ordres \cup {Aucun}]
PaypalT == [etat : {"AUCUN", "CREATED", "APPROVED", "COMPLETED"},
            commande : Commandes \cup {Aucun}]

\* One set of records for each await a handler can be stopped at.
EtapeCreate == [pc : {"create"}, client : Clients, methode : Methodes,
                adresse : Adresses, lignes : Lignes]
EtapeUpdate == [pc : {"update"}, c : Commandes, adresse : Adresses]
EtapeCancel == [pc : {"cancel"}, c : Commandes, jamaisConsommee : BOOLEAN]
EtapeAssign == [pc : {"assignLivreur"}, c : Commandes, livreur : Livreurs]
EtapeStatus == [pc : {"updateStatus"}, c : Commandes, etat : Etats]
EtapeInitiate == [pc : {"initiate"}, c : Commandes, ordre : Ordres]
EtapeCapture == [pc : {"capture"}, c : Commandes, ordre : Ordres]
EtapeIssue == [pc : {"statut", "notifier"}, c : Commandes, success : BOOLEAN]
EtapeSuite == [pc : {"confirmOnline", "echec", "generate", "sendInvoice"},
               c : Commandes]
EtapeConsommer == [pc : {"consommer"}, c : Commandes, vu : Lignes]
EtapeFacture == [pc : {"facture"}, c : Commandes, numero : Nat \ {0}]
Etapes ==
  [pc : {"libre"}] \cup EtapeCreate \cup EtapeUpdate \cup EtapeCancel
  \cup EtapeAssign \cup EtapeStatus \cup EtapeInitiate \cup EtapeCapture
  \cup EtapeIssue \cup EtapeSuite \cup EtapeConsommer \cup EtapeFacture

\* Types of the tables, of PayPal's orders and of the running requests.
TypeOK ==
  /\ commande \in [Commandes -> CommandeT]
  /\ paiement \in [Commandes -> PaiementT]
  /\ facture \in [Commandes -> Nat]
  /\ produit \in [Produits -> [stock : Int, isAvailable : BOOLEAN]]
  /\ panier \in [Clients -> Lignes]
  /\ paypal \in [Ordres -> PaypalT]
  /\ req \in [Requetes -> Etapes]
  /\ net \in [Commandes -> Int]
  /\ courriels \in [Commandes -> [succes : Nat, facture : Nat]]
  /\ pannes \in 0 .. MaxPannes

----------------------------------------------------------------------------
Existe(c) == commande[c].etat # "AUCUN"
EnLigne(c) == paiement[c].methode = "EN_LIGNE"
ALaLivraison(c) == paiement[c].methode = "A_LA_LIVRAISON"
Paye(c) == paiement[c].statut = "SUCCESS"

\* Mutant: only a refused payment counts as not made.
EnLigneRefuse(c) == EnLigne(c) /\ paiement[c].statut = "FAILED"

\* An online order that is not paid: the condition under which assignLivreur
\* and updateStatus refuse, cancel restores nothing, and the payment handlers
\* go on.
EnLigneNonPaye(c) == EnLigne(c) /\ ~Paye(c)

\* Request r goes on to step e, or answers.
Libre(r) == req[r].pc = "libre"
Etape(r, e) == req' = [req EXCEPT ![r] = e]
Repond(r) == Etape(r, [pc |-> "libre"])

\* Products whose rows are locked by a transaction that updated the stock and
\* has not committed: only confirmOnlinePaymentSuccess holds them across a
\* read of another table.
Verrouilles ==
  UNION {Presents(commande[req[r].c].lignes) :
           r \in {q \in Requetes : req[q].pc = "consommer"}}
Disponibles(l) == Presents(l) \cap Verrouilles = {}

\* The stock after an order of lines l was taken out (s = -1) or put back.
Ajuste(l, s) ==
  [p \in Produits |-> [produit[p] EXCEPT !.stock = @ + s * Quantite(l, p)]]
=============================================================================
