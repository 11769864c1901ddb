--------------------------- MODULE BoutiquePreuves ---------------------------
(***************************************************************************)
(* Theorems of Boutique for every number of orders, products, users,       *)
(* PayPal orders, running requests and failures: the invariants, the same  *)
(* two for one request at a time and no failure, as the code needs, and    *)
(* the refinement of Encaissement.                                         *)
(***************************************************************************)
EXTENDS Boutique, FiniteSetTheorems, TLAPS

----------------------------------------------------------------------------
\* A request that goes on to a well-formed step leaves req well formed.
LEMMA EtapeType ==
  ASSUME req \in [Requetes -> Etapes], NEW r \in Requetes,
         NEW e \in Etapes, Etape(r, e)
  PROVE  req' \in [Requetes -> Etapes]
BY DEF Etape

\* A request that answers does too.
LEMMA RepondType ==
  ASSUME req \in [Requetes -> Etapes], NEW r \in Requetes, Repond(r)
  PROVE  req' \in [Requetes -> Etapes]
BY DEF Repond, Etape, Etapes

\* "pc" tells which of the records of Etapes a request is.
LEMMA EtapeSelonPc ==
  ASSUME NEW q \in Etapes
  PROVE  /\ q.pc = "create" => q \in EtapeCreate
         /\ q.pc = "update" => q \in EtapeUpdate
         /\ q.pc = "cancel" => q \in EtapeCancel
         /\ q.pc = "assignLivreur" => q \in EtapeAssign
         /\ q.pc = "updateStatus" => q \in EtapeStatus
         /\ q.pc = "initiate" => q \in EtapeInitiate
         /\ q.pc = "capture" => q \in EtapeCapture
         /\ q.pc \in {"statut", "notifier"} => q \in EtapeIssue
         /\ q.pc \in {"confirmOnline", "echec", "generate", "sendInvoice"}
              => q \in EtapeSuite
         /\ q.pc = "consommer" => q \in EtapeConsommer
         /\ q.pc = "facture" => q \in EtapeFacture
BY DEF Etapes, EtapeCreate, EtapeUpdate, EtapeCancel, EtapeAssign,
       EtapeStatus, EtapeInitiate, EtapeCapture, EtapeIssue, EtapeSuite,
       EtapeConsommer, EtapeFacture

\* Quantities are integers, and the stock stays an integer when an order is
\* taken out of it or put back.
LEMMA QuantiteType ==
  ASSUME NEW l \in Lignes, NEW p \in Produits
  PROVE  Quantite(l, p) \in Int
BY DEF Lignes, Quantite

LEMMA AjusteType ==
  ASSUME produit \in [Produits -> [stock : Int, isAvailable : BOOLEAN]],
         NEW l \in Lignes, NEW s \in Int
  PROVE  Ajuste(l, s) \in [Produits -> [stock : Int, isAvailable : BOOLEAN]]
BY QuantiteType DEF Ajuste

LEMMA RenduType ==
  ASSUME panier \in [Clients -> Lignes], NEW u \in Clients, NEW l \in Lignes
  PROVE  Rendu(u, l) \in Lignes
BY DEF Rendu, Presents, Quantite, Lignes

\* An order whose state, deliverer or address was written is still a row.
LEMMA CommandeType ==
  ASSUME commande \in [Commandes -> CommandeT], NEW c \in Commandes
  PROVE  /\ \A e \in Etats :
              [commande EXCEPT ![c].etat = e] \in [Commandes -> CommandeT]
         /\ \A l \in Livreurs :
              [commande EXCEPT ![c].livreur = l] \in [Commandes -> CommandeT]
         /\ \A a \in Adresses :
              [commande EXCEPT ![c].adresse = a] \in [Commandes -> CommandeT]
<1>1. commande[c] \in CommandeT
  OBVIOUS
<1>2. /\ \A e \in Etats : [commande[c] EXCEPT !.etat = e] \in CommandeT
      /\ \A l \in Livreurs : [commande[c] EXCEPT !.livreur = l] \in CommandeT
      /\ \A a \in Adresses : [commande[c] EXCEPT !.adresse = a] \in CommandeT
  BY <1>1 DEF CommandeT
<1> QED BY <1>2

\* Type correctness is preserved: one step per action.
LEMMA TypeOrders ==
  ASSUME TypeOK, TablesFideles, NEW r \in Requetes, RequeteFidele(req[r]),
         OrdersNext(r)
  PROVE  TypeOK'
<1> USE DonneesAssumption
<1>1. ASSUME NEW u \in Clients, NEW m \in Methodes, NEW a \in Adresses,
             Create(r, u, m, a)
      PROVE  TypeOK'
  <2>1. [pc |-> "create", client |-> u, methode |-> m, adresse |-> a,
         lignes |-> panier[u]] \in Etapes
    BY DEF TypeOK, Etapes, EtapeCreate
  <2> QED BY <1>1, <2>1, EtapeType DEF Create, TypeOK
<1>2. CASE CreateTransaction(r)
  <2>1. req[r] \in EtapeCreate
    BY <1>2, EtapeSelonPc DEF TypeOK, CreateTransaction
  <2>2. PICK c \in Commandes : CreateTransaction(r)!2!(c)
    BY <1>2 DEF CreateTransaction
  <2>3. /\ commande' \in [Commandes -> CommandeT]
        /\ paiement' \in [Commandes -> PaiementT]
    BY <2>1, <2>2 DEF TypeOK, CommandeT, PaiementT, EtapeCreate, Etats, Statuts
  <2>4. produit' \in [Produits -> [stock : Int, isAvailable : BOOLEAN]]
    BY <2>1, <2>2, AjusteType DEF TypeOK, EtapeCreate
  <2>5. panier' \in [Clients -> Lignes]
    <3>1. AucuneLigne \in Lignes
      BY DEF AucuneLigne, Lignes
    <3> QED BY <2>2, <3>1 DEF TypeOK
  <2>6. net' \in [Commandes -> Int]
    BY <2>1, <2>2 DEF TypeOK
  <2> QED
    BY <1>2, <2>3, <2>4, <2>5, <2>6, RepondType DEF CreateTransaction, TypeOK
<1>3. ASSUME NEW c \in Commandes, NEW a \in Adresses, Update(r, c, a)
      PROVE  TypeOK'
  <2>1. [pc |-> "update", c |-> c, adresse |-> a] \in Etapes
    BY DEF Etapes, EtapeUpdate
  <2> QED BY <1>3, <2>1, EtapeType DEF Update, TypeOK
<1>4. CASE UpdateEcrire(r)
  <2>1. req[r] \in EtapeUpdate
    BY <1>4, EtapeSelonPc DEF TypeOK, UpdateEcrire
  <2>2. commande' \in [Commandes -> CommandeT]
    BY <1>4, <2>1, CommandeType DEF UpdateEcrire, TypeOK, EtapeUpdate
  <2> QED BY <1>4, <2>2, RepondType DEF UpdateEcrire, TypeOK
<1>5. ASSUME NEW c \in Commandes, Cancel(r, c)
      PROVE  TypeOK'
  <2>1. [pc |-> "cancel", c |-> c, jamaisConsommee |-> EnLigneNonPaye(c)]
          \in Etapes
    BY DEF Etapes, EtapeCancel, EnLigneNonPaye
  <2> QED BY <1>5, <2>1, EtapeType DEF Cancel, CancelLire, TypeOK
<1>6. CASE CancelTransaction(r)
  <2>1. req[r] \in EtapeCancel
    BY <1>6, EtapeSelonPc DEF TypeOK, CancelTransaction
  <2>2. commande' \in [Commandes -> CommandeT]
    BY <1>6, <2>1, CommandeType DEF CancelTransaction, TypeOK, EtapeCancel, Etats
  <2>3. commande[req[r].c].lignes \in Lignes
    BY <2>1 DEF TypeOK, CommandeT, EtapeCancel
  <2>4. produit' \in [Produits -> [stock : Int, isAvailable : BOOLEAN]]
    BY <1>6, <2>3, AjusteType DEF CancelTransaction, TypeOK
  <2>5. panier' \in [Clients -> Lignes]
    BY <1>6, <2>3, RenduType DEF CancelTransaction, TypeOK
  <2>6. net' \in [Commandes -> Int]
    BY <1>6, <2>1 DEF CancelTransaction, TypeOK, EtapeCancel
  <2> QED
    BY <1>6, <2>2, <2>4, <2>5, <2>6, RepondType DEF CancelTransaction, TypeOK
<1>7. ASSUME NEW c \in Commandes, NEW l \in Livreurs, AssignLivreur(r, c, l)
      PROVE  TypeOK'
  <2>1. [pc |-> "assignLivreur", c |-> c, livreur |-> l] \in Etapes
    BY DEF Etapes, EtapeAssign
  <2> QED BY <1>7, <2>1, EtapeType DEF AssignLivreur, TypeOK
<1>8. CASE AssignLivreurEcrire(r)
  <2>1. req[r] \in EtapeAssign
    BY <1>8, EtapeSelonPc DEF TypeOK, AssignLivreurEcrire
  <2>2. commande' \in [Commandes -> CommandeT]
    BY <1>8, <2>1, CommandeType DEF AssignLivreurEcrire, TypeOK, EtapeAssign
  <2> QED BY <1>8, <2>2, RepondType DEF AssignLivreurEcrire, TypeOK
<1>9. ASSUME NEW u \in Admins \cup Livreurs, NEW c \in Commandes,
             NEW e \in Etats, UpdateStatus(r, u, c, e)
      PROVE  TypeOK'
  <2>1. [pc |-> "updateStatus", c |-> c, etat |-> e] \in Etapes
    BY DEF Etapes, EtapeStatus
  <2> QED BY <1>9, <2>1, EtapeType DEF UpdateStatus, TypeOK
<1>10. CASE UpdateStatusEcrire(r)
  <2>1. req[r] \in EtapeStatus
    BY <1>10, EtapeSelonPc DEF TypeOK, UpdateStatusEcrire
  <2>2. commande' \in [Commandes -> CommandeT]
    BY <1>10, <2>1, CommandeType DEF UpdateStatusEcrire, TypeOK, EtapeStatus
  <2> QED BY <1>10, <2>2, RepondType DEF UpdateStatusEcrire, TypeOK
<1>11. CASE ConfirmOnlinePaymentSuccess(r)
  <2>1. req[r] \in EtapeSuite
    BY <1>11, EtapeSelonPc DEF TypeOK, ConfirmOnlinePaymentSuccess
  <2>2. commande[req[r].c].client \in Clients
    BY <1>11, <2>1
    DEF ConfirmOnlinePaymentSuccess, RequeteFidele, TablesFideles, EtapeSuite
  <2>3. [pc |-> "consommer", c |-> req[r].c,
         vu |-> panier[commande[req[r].c].client]] \in Etapes
    BY <2>1, <2>2 DEF TypeOK, Etapes, EtapeConsommer, EtapeSuite
  <2> QED
    BY <1>11, <2>3, EtapeType DEF ConfirmOnlinePaymentSuccess, TypeOK
<1>12. CASE ConfirmOnlinePaymentTransaction(r)
  <2> DEFINE c == req[r].c
             u == commande[c].client
             l == commande[c].lignes
             vus == Presents(l) \cap Presents(req[r].vu)
             vides == {p \in vus : req[r].vu[p] <= l[p]}
             reste == [p \in Produits |->
                         IF p \in vides THEN Aucun
                         ELSE IF p \in vus THEN panier[u][p] - l[p]
                         ELSE panier[u][p]]
  <2>1. req[r] \in EtapeConsommer
    BY <1>12, EtapeSelonPc DEF TypeOK, ConfirmOnlinePaymentTransaction
  <2>2. c \in Commandes /\ u \in Clients /\ l \in Lignes
    BY <1>12, <2>1
    DEF ConfirmOnlinePaymentTransaction, RequeteFidele, TablesFideles,
        EtapeConsommer, TypeOK, CommandeT
  <2>3. CASE vus \subseteq Presents(panier[u])
    <3>1. /\ produit' = Ajuste(l, -1)
          /\ panier' = [panier EXCEPT ![u] = reste]
          /\ net' = [net EXCEPT ![c] = @ + 1]
          /\ Etape(r, [pc |-> "generate", c |-> c])
      BY <1>12, <2>3 DEF ConfirmOnlinePaymentTransaction, Consommation
    <3>2. panier[u] \in Lignes
      BY <2>2 DEF TypeOK
    <3>3. \A p \in vus : panier[u][p] - l[p] \in Int
      BY <2>2, <2>3, <3>2 DEF Presents, Lignes
    <3>4. reste \in Lignes
      BY <3>2, <3>3 DEF Lignes
    <3>5. panier' \in [Clients -> Lignes]
      BY <3>1, <3>4 DEF TypeOK
    <3>6. produit' \in [Produits -> [stock : Int, isAvailable : BOOLEAN]]
      BY <2>2, <3>1, AjusteType DEF TypeOK
    <3>7. net' \in [Commandes -> Int]
      BY <2>2, <3>1 DEF TypeOK
    <3>8. [pc |-> "generate", c |-> c] \in Etapes
      BY <2>2 DEF Etapes, EtapeSuite
    <3> QED
      BY <1>12, <3>1, <3>5, <3>6, <3>7, <3>8, EtapeType
      DEF ConfirmOnlinePaymentTransaction, TypeOK
  <2>4. CASE ~(vus \subseteq Presents(panier[u]))
    BY <1>12, <2>4, RepondType
    DEF ConfirmOnlinePaymentTransaction, Consommation, TypeOK
  <2> QED BY <2>3, <2>4
<1> QED
  BY <1>1, <1>2, <1>3, <1>4, <1>5, <1>6, <1>7, <1>8, <1>9, <1>10, <1>11, <1>12
  DEF OrdersNext

LEMMA TypeInvoices ==
  ASSUME TypeOK, NEW r \in Requetes, InvoicesNext(r)
  PROVE  TypeOK'
<1> USE DonneesAssumption
<1>1. CASE GenerateForCommande(r)
  <2>1. req[r] \in EtapeSuite
    BY <1>1, EtapeSelonPc DEF TypeOK, GenerateForCommande
  <2>2. ProchainNumero \in Nat \ {0}
    BY FS_Subset, FS_CardinalityType DEF ProchainNumero, Facturees
  <2>3. /\ [pc |-> "sendInvoice", c |-> req[r].c] \in Etapes
        /\ [pc |-> "facture", c |-> req[r].c, numero |-> ProchainNumero]
             \in Etapes
    BY <2>1, <2>2 DEF Etapes, EtapeSuite, EtapeFacture
  <2> QED BY <1>1, <2>3, EtapeType DEF GenerateForCommande, TypeOK
<1>2. CASE FactureCreate(r)
  <2>1. req[r] \in EtapeFacture
    BY <1>2, EtapeSelonPc DEF TypeOK, FactureCreate
  <2>2. facture' \in [Commandes -> Nat]
    BY <1>2, <2>1 DEF FactureCreate, TypeOK, EtapeFacture
  <2>3. [pc |-> "sendInvoice", c |-> req[r].c] \in Etapes
    BY <2>1 DEF Etapes, EtapeSuite, EtapeFacture
  <2> QED
    BY <1>2, <2>2, <2>3, EtapeType, RepondType DEF FactureCreate, TypeOK
<1>3. CASE SendInvoiceByEmail(r)
  <2>1. req[r] \in EtapeSuite
    BY <1>3, EtapeSelonPc DEF TypeOK, SendInvoiceByEmail
  <2>2. courriels' \in [Commandes -> [succes : Nat, facture : Nat]]
    BY <1>3, <2>1 DEF SendInvoiceByEmail, TypeOK, EtapeSuite
  <2> QED BY <1>3, <2>2, RepondType DEF SendInvoiceByEmail, TypeOK
<1> QED BY <1>1, <1>2, <1>3 DEF InvoicesNext

LEMMA TypePayments ==
  ASSUME TypeOK, TablesFideles, NEW r \in Requetes, PaymentsNext(r)
  PROVE  TypeOK'
<1> USE DonneesAssumption
<1>1. ASSUME NEW c \in Commandes, NEW o \in Ordres,
             InitiateOnlinePayment(r, c, o)
      PROVE  TypeOK'
  <2>1. [pc |-> "initiate", c |-> c, ordre |-> o] \in Etapes
    BY DEF Etapes, EtapeInitiate
  <2>2. paypal' \in [Ordres -> PaypalT]
    BY <1>1 DEF InitiateOnlinePayment, TypeOK, PaypalT
  <2> QED BY <1>1, <2>1, <2>2, EtapeType DEF InitiateOnlinePayment, TypeOK
<1>2. CASE InitiateEcrire(r)
  <2>1. req[r] \in EtapeInitiate
    BY <1>2, EtapeSelonPc DEF TypeOK, InitiateEcrire
  <2>2. paiement[req[r].c] \in PaiementT
    BY <2>1 DEF TypeOK, EtapeInitiate
  <2>3. [paiement[req[r].c] EXCEPT !.transaction = req[r].ordre] \in PaiementT
    BY <2>1, <2>2 DEF PaiementT, EtapeInitiate
  <2>4. paiement' \in [Commandes -> PaiementT]
    BY <1>2, <2>3 DEF InitiateEcrire, TypeOK
  <2> QED BY <1>2, <2>4, RepondType DEF InitiateEcrire, TypeOK
<1>3. ASSUME NEW c \in Commandes, CaptureOnlinePayment(r, c)
      PROVE  TypeOK'
  <2>1. paiement[c].transaction \in Ordres
    BY <1>3 DEF CaptureOnlinePayment, TypeOK, PaiementT
  <2>2. [pc |-> "capture", c |-> c, ordre |-> paiement[c].transaction]
          \in Etapes
    BY <2>1 DEF Etapes, EtapeCapture
  <2> QED BY <1>3, <2>2, EtapeType DEF CaptureOnlinePayment, TypeOK
<1>4. CASE CaptureOrder(r)
  <2>1. req[r] \in EtapeCapture
    BY <1>4, EtapeSelonPc DEF TypeOK, CaptureOrder
  <2>2. \A s \in BOOLEAN :
          [pc |-> "statut", c |-> req[r].c, success |-> s] \in Etapes
    BY <2>1 DEF Etapes, EtapeCapture, EtapeIssue
  <2>3. paypal[req[r].ordre] \in PaypalT
    BY <2>1 DEF TypeOK, EtapeCapture
  <2>4. \A e \in {"CREATED", "COMPLETED"} :
          [paypal[req[r].ordre] EXCEPT !.etat = e] \in PaypalT
    BY <2>3 DEF PaypalT
  <2>5. paypal' \in [Ordres -> PaypalT]
    BY <1>4, <2>4 DEF CaptureOrder, TypeOK
  <2> QED BY <1>4, <2>2, <2>5, EtapeType DEF CaptureOrder, TypeOK
<1>5. CASE StatutEcrire(r)
  <2>1. req[r] \in EtapeIssue
    BY <1>5, EtapeSelonPc DEF TypeOK, StatutEcrire
  <2>2. [req[r] EXCEPT !.pc = "notifier"] \in Etapes
    BY <2>1 DEF Etapes, EtapeIssue
  <2>3. paiement[req[r].c] \in PaiementT
    BY <2>1 DEF TypeOK, EtapeIssue
  <2>4. [paiement[req[r].c] EXCEPT !.statut = StatutDe(req[r].success)]
          \in PaiementT
    BY <2>3 DEF PaiementT, StatutDe, Statuts
  <2>5. paiement' \in [Commandes -> PaiementT]
    BY <1>5, <2>4 DEF StatutEcrire, TypeOK
  <2> QED BY <1>5, <2>2, <2>5, EtapeType DEF StatutEcrire, TypeOK
<1>6. CASE Notifier(r)
  <2>1. req[r] \in EtapeIssue
    BY <1>6, EtapeSelonPc DEF TypeOK, Notifier
  <2>2. [pc |-> SuiteDe(req[r].c, req[r].success), c |-> req[r].c] \in Etapes
    BY <2>1 DEF Etapes, EtapeIssue, EtapeSuite, SuiteDe
  <2>3. courriels' \in [Commandes -> [succes : Nat, facture : Nat]]
    BY <1>6, <2>1 DEF Notifier, TypeOK, EtapeIssue
  <2> QED BY <1>6, <2>2, <2>3, EtapeType DEF Notifier, TypeOK
<1>7. CASE CancelApresEchec(r)
  <2>1. req[r] \in EtapeSuite
    BY <1>7, EtapeSelonPc DEF TypeOK, CancelApresEchec
  <2>2. [pc |-> "cancel", c |-> req[r].c,
         jamaisConsommee |-> EnLigneNonPaye(req[r].c)] \in Etapes
    BY <2>1 DEF Etapes, EtapeCancel, EtapeSuite, EnLigneNonPaye
  <2> QED
    BY <1>7, <2>2, EtapeType, RepondType
    DEF CancelApresEchec, CancelLire, TypeOK
<1>8. ASSUME NEW u \in Admins \cup Livreurs, NEW c \in Commandes,
             ConfirmCashPayment(r, u, c)
      PROVE  TypeOK'
  <2>1. [pc |-> "statut", c |-> c, success |-> TRUE] \in Etapes
    BY DEF Etapes, EtapeIssue
  <2> QED BY <1>8, <2>1, EtapeType DEF ConfirmCashPayment, TypeOK
<1> QED
  BY <1>1, <1>2, <1>3, <1>4, <1>5, <1>6, <1>7, <1>8 DEF PaymentsNext

\* The cart, the catalogue, PayPal's pages and the failures.
LEMMA TypeReste ==
  ASSUME TypeOK,
         \/ \E r \in Requetes : ClientNext(r) \/ AdminNext(r) \/ Panne(r)
         \/ \E o \in Ordres : ClientApprouve(o)
  PROVE  TypeOK'
<1> USE DonneesAssumption
<1>1. ASSUME NEW r \in Requetes, ClientNext(r)
      PROVE  TypeOK'
  <2>1. PICK u \in Clients, p \in Produits :
          \/ \E q \in Quantites : ModifierPanier(r, u, p, q)
          \/ RetirerDuPanier(r, u, p)
    BY <1>1 DEF ClientNext
  <2>2. PICK q \in {Aucun} \cup Int : panier' = [panier EXCEPT ![u][p] = q]
    BY <2>1 DEF ModifierPanier, RetirerDuPanier
  <2>3. panier[u] \in Lignes
    BY DEF TypeOK
  <2>4. [panier[u] EXCEPT ![p] = q] \in Lignes
    BY <2>3 DEF Lignes
  <2>5. panier' \in [Clients -> Lignes]
    BY <2>2, <2>4 DEF TypeOK
  <2> QED BY <2>1, <2>5 DEF ModifierPanier, RetirerDuPanier, TypeOK
<1>2. ASSUME NEW r \in Requetes, AdminNext(r)
      PROVE  TypeOK'
  BY <1>2 DEF AdminNext, ReassortProduit, TypeOK
<1>3. ASSUME NEW r \in Requetes, Panne(r)
      PROVE  TypeOK'
  <2>1. req' \in [Requetes -> Etapes]
    BY <1>3, RepondType DEF Panne, TypeOK
  <2> QED BY <1>3, <2>1 DEF Panne, TypeOK
<1>4. ASSUME NEW o \in Ordres, ClientApprouve(o)
      PROVE  TypeOK'
  <2>1. [paypal[o] EXCEPT !.etat = "APPROVED"] \in PaypalT
    BY DEF TypeOK, PaypalT
  <2>2. paypal' \in [Ordres -> PaypalT]
    BY <1>4, <2>1 DEF ClientApprouve, TypeOK
  <2> QED BY <1>4, <2>2 DEF ClientApprouve, TypeOK
<1> QED BY <1>1, <1>2, <1>3, <1>4

LEMMA TypePas ==
  ASSUME Inductif, [Next]_vars
  PROVE  TypeOK'
<1>1. CASE Next
  BY <1>1, TypeOrders, TypeInvoices, TypePayments, TypeReste
  DEF Next, Inductif
<1>2. CASE UNCHANGED vars
  BY <1>2 DEF vars, Inductif, TypeOK
<1> QED BY <1>1, <1>2

----------------------------------------------------------------------------
\* What no step takes back: an order stays an order of the same client paid
\* the same way, the money taken for it stays taken, a PayPal order stays one
\* of the same order, and no invoice disappears.
Acquis ==
  /\ \A c \in Commandes : Existe(c) =>
       /\ Existe(c)'
       /\ commande'[c].client = commande[c].client
       /\ paiement'[c].methode = paiement[c].methode
       /\ Encaisse(c) => Encaisse(c)'
  /\ \A o \in Ordres : paypal[o].etat # "AUCUN" =>
       /\ paypal'[o].etat # "AUCUN"
       /\ paypal'[o].commande = paypal[o].commande

tables == <<commande, paiement, paypal, facture>>

\* The actions that change the tables of the invariant.
EcritCommande(r) ==
  \/ UpdateEcrire(r) \/ CancelTransaction(r) \/ AssignLivreurEcrire(r)
  \/ UpdateStatusEcrire(r)

EcritTables(r) ==
  \/ CreateTransaction(r)
  \/ EcritCommande(r)
  \/ InitiateEcrire(r)
  \/ StatutEcrire(r)
  \/ CaptureOrder(r)
  \/ FactureCreate(r)
  \/ \E c \in Commandes, o \in Ordres : InitiateOnlinePayment(r, c, o)

LEMMA Cadre ==
  ASSUME [Next]_vars
  PROVE  \/ UNCHANGED tables
         \/ \E r \in Requetes : EcritTables(r)
         \/ \E o \in Ordres : ClientApprouve(o)
<1>1. ASSUME NEW r \in Requetes, OrdersNext(r)
      PROVE  UNCHANGED tables \/ EcritTables(r)
  BY <1>1
  DEF OrdersNext, Create, Update, Cancel, CancelLire, AssignLivreur,
      UpdateStatus, ConfirmOnlinePaymentSuccess,
      ConfirmOnlinePaymentTransaction, EcritTables, EcritCommande, tables
<1>2. ASSUME NEW r \in Requetes, InvoicesNext(r)
      PROVE  UNCHANGED tables \/ EcritTables(r)
  BY <1>2
  DEF InvoicesNext, GenerateForCommande, SendInvoiceByEmail, EcritTables,
      tables
<1>3. ASSUME NEW r \in Requetes, PaymentsNext(r)
      PROVE  UNCHANGED tables \/ EcritTables(r)
  BY <1>3
  DEF PaymentsNext, CaptureOnlinePayment, Notifier, CancelApresEchec,
      ConfirmCashPayment, EcritTables, tables
<1>4. ASSUME NEW r \in Requetes, ClientNext(r) \/ AdminNext(r) \/ Panne(r)
      PROVE  UNCHANGED tables
  BY <1>4
  DEF ClientNext, ModifierPanier, RetirerDuPanier, AdminNext, ReassortProduit,
      Panne, tables
<1> QED BY <1>1, <1>2, <1>3, <1>4 DEF Next, vars, tables

\* Nothing but the state, the deliverer or the address of an order changes.
LEMMA CommandeEcrite ==
  ASSUME TypeOK, NEW r \in Requetes, EcritCommande(r)
  PROVE  /\ \A c \in Commandes :
              /\ commande'[c].client = commande[c].client
              /\ commande'[c].livreur # commande[c].livreur =>
                   c = req[r].c /\ req[r].pc = "assignLivreur"
              /\ commande'[c].etat # commande[c].etat =>
                   /\ c = req[r].c
                   /\ \/ req[r].pc = "cancel" /\ commande'[c].etat = "ANNULEE"
                      \/ /\ req[r].pc = "updateStatus"
                         /\ commande'[c].etat = req[r].etat
                         /\ req[r].etat \in Etats
         /\ UNCHANGED <<paiement, paypal, facture>>
<1>1. CASE UpdateEcrire(r)
  BY <1>1 DEF UpdateEcrire, TypeOK, CommandeT
<1>2. CASE CancelTransaction(r)
  BY <1>2 DEF CancelTransaction, TypeOK, CommandeT
<1>3. CASE AssignLivreurEcrire(r)
  BY <1>3 DEF AssignLivreurEcrire, TypeOK, CommandeT
<1>4. CASE UpdateStatusEcrire(r)
  <2>1. req[r] \in EtapeStatus
    BY <1>4, EtapeSelonPc DEF TypeOK, UpdateStatusEcrire
  <2> QED BY <1>4, <2>1 DEF UpdateStatusEcrire, TypeOK, CommandeT, EtapeStatus
<1> QED BY <1>1, <1>2, <1>3, <1>4 DEF EcritCommande

\* PayPal's orders only go forward once they exist.
LEMMA CapturesCroissent ==
  ASSUME TypeOK,
         \/ UNCHANGED paypal
         \/ \E r \in Requetes : CaptureOrder(r)
         \/ \E r \in Requetes, d \in Commandes, o \in Ordres :
              InitiateOnlinePayment(r, d, o)
         \/ \E o \in Ordres : ClientApprouve(o)
  PROVE  /\ \A c \in Commandes : Captures(c) \subseteq Captures(c)'
         /\ \A o \in Ordres : paypal[o].etat # "AUCUN" =>
              /\ paypal'[o].etat # "AUCUN"
              /\ paypal'[o].commande = paypal[o].commande
<1>1. CASE UNCHANGED paypal
  BY <1>1 DEF Captures
<1>2. ASSUME NEW r \in Requetes, CaptureOrder(r)
      PROVE  \A o \in Ordres :
               /\ paypal[o].etat = "COMPLETED" => paypal'[o].etat = "COMPLETED"
               /\ paypal[o].etat # "AUCUN" => paypal'[o].etat # "AUCUN"
               /\ paypal'[o].commande = paypal[o].commande
  <2>1. req[r].ordre \in Ordres
    BY <1>2, EtapeSelonPc DEF CaptureOrder, TypeOK, EtapeCapture
  <2>2. \/ /\ paypal[req[r].ordre].etat = "APPROVED"
           /\ \E e \in {"COMPLETED", "CREATED"} :
                paypal' = [paypal EXCEPT ![req[r].ordre].etat = e]
        \/ UNCHANGED paypal
    BY <1>2 DEF CaptureOrder
  <2>3. /\ paypal \in [Ordres -> PaypalT]
        /\ DOMAIN paypal[req[r].ordre] = {"etat", "commande"}
    BY <2>1 DEF TypeOK, PaypalT
  <2>4. ASSUME NEW e \in {"COMPLETED", "CREATED"}, NEW o \in Ordres,
               paypal[req[r].ordre].etat = "APPROVED",
               paypal' = [paypal EXCEPT ![req[r].ordre].etat = e]
        PROVE  /\ paypal[o].etat = "COMPLETED" => paypal'[o].etat = "COMPLETED"
               /\ paypal[o].etat # "AUCUN" => paypal'[o].etat # "AUCUN"
               /\ paypal'[o].commande = paypal[o].commande
    BY <2>1, <2>3, <2>4
  <2>5. CASE UNCHANGED paypal
    BY <2>5
  <2> QED BY <2>2, <2>4, <2>5
<1>3. ASSUME NEW r \in Requetes, NEW d \in Commandes, NEW x \in Ordres,
             InitiateOnlinePayment(r, d, x)
      PROVE  \A o \in Ordres :
               paypal[o].etat # "AUCUN" => paypal'[o] = paypal[o]
  BY <1>3 DEF InitiateOnlinePayment, TypeOK
<1>4. ASSUME NEW x \in Ordres, ClientApprouve(x)
      PROVE  \A o \in Ordres :
               /\ paypal[o].etat = "COMPLETED" => paypal'[o].etat = "COMPLETED"
               /\ paypal[o].etat # "AUCUN" => paypal'[o].etat # "AUCUN"
               /\ paypal'[o].commande = paypal[o].commande
  BY <1>4 DEF ClientApprouve, TypeOK, PaypalT
<1> QED BY <1>1, <1>2, <1>3, <1>4 DEF Captures

LEMMA AcquisPas ==
  ASSUME Inductif, [Next]_vars
  PROVE  Acquis
<1> USE DEF Inductif
<1>1. CASE UNCHANGED tables
  BY <1>1 DEF Acquis, tables, Existe, Encaisse, EnLigne, ALaLivraison, Paye,
              Captures
<1>2. ASSUME NEW r \in Requetes, CreateTransaction(r)
      PROVE  Acquis
  <2>1. PICK d \in Commandes : CreateTransaction(r)!2!(d)
    BY <1>2 DEF CreateTransaction
  <2>2. UNCHANGED paypal
    BY <1>2 DEF CreateTransaction
  <2>3. \A c \in Commandes : Existe(c) =>
          commande'[c] = commande[c] /\ paiement'[c] = paiement[c]
    BY <2>1 DEF TypeOK, Existe
  <2> QED
    BY <2>2, <2>3 DEF Acquis, Existe, Encaisse, EnLigne, ALaLivraison, Paye,
                      Captures
<1>3. ASSUME NEW r \in Requetes, EcritCommande(r)
      PROVE  Acquis
  <2>1. \A c \in Commandes : Existe(c) => Existe(c)'
    BY <1>3, CommandeEcrite DEF Existe, Etats
  <2> QED
    BY <1>3, <2>1, CommandeEcrite
    DEF Acquis, Encaisse, EnLigne, ALaLivraison, Paye, Captures
<1>4. ASSUME NEW r \in Requetes, InitiateEcrire(r)
      PROVE  Acquis
  <2>1. \A c \in Commandes : /\ paiement'[c].methode = paiement[c].methode
                             /\ paiement'[c].statut = paiement[c].statut
    BY <1>4 DEF InitiateEcrire, TypeOK, PaiementT
  <2> QED
    BY <1>4, <2>1 DEF InitiateEcrire, Acquis, Existe, Encaisse, EnLigne,
                      ALaLivraison, Paye, Captures
<1>5. ASSUME NEW r \in Requetes, StatutEcrire(r)
      PROVE  Acquis
  <2>1. \A c \in Commandes :
          /\ paiement'[c].methode = paiement[c].methode
          /\ ALaLivraison(c) /\ Paye(c) => paiement'[c].statut = "SUCCESS"
    BY <1>5 DEF StatutEcrire, StatutDe, TypeOK, PaiementT, RequeteFidele,
                EnLigne, ALaLivraison, Paye
  <2> QED
    BY <1>5, <2>1 DEF StatutEcrire, Acquis, Existe, Encaisse, EnLigne,
                      ALaLivraison, Paye, Captures
<1>6. CASE \/ \E r \in Requetes : CaptureOrder(r)
           \/ \E r \in Requetes, d \in Commandes, o \in Ordres :
                InitiateOnlinePayment(r, d, o)
           \/ \E o \in Ordres : ClientApprouve(o)
  <2>1. UNCHANGED <<commande, paiement>>
    BY <1>6 DEF CaptureOrder, InitiateOnlinePayment, ClientApprouve
  <2>2. \A c \in Commandes : Captures(c) \subseteq Captures(c)'
    BY <1>6, CapturesCroissent
  <2>3. \A c \in Commandes : Encaisse(c) => Encaisse(c)'
    BY <2>1, <2>2 DEF Encaisse, EnLigne, ALaLivraison, Paye
  <2>4. \A c \in Commandes : Existe(c) => Existe(c)'
    BY <2>1 DEF Existe
  <2>5. \A o \in Ordres : paypal[o].etat # "AUCUN" =>
          paypal'[o].etat # "AUCUN" /\ paypal'[o].commande = paypal[o].commande
    BY <1>6, CapturesCroissent
  <2> QED BY <2>1, <2>3, <2>4, <2>5 DEF Acquis
<1>7. ASSUME NEW r \in Requetes, FactureCreate(r)
      PROVE  Acquis
  BY <1>7 DEF FactureCreate, Acquis, Existe, Encaisse, EnLigne, ALaLivraison,
              Paye, Captures
<1> QED
  BY <1>1, <1>2, <1>3, <1>4, <1>5, <1>6, <1>7, Cadre DEF EcritTables

----------------------------------------------------------------------------
\* The parts of TablesFideles, for one order and for one PayPal order.
CommandeFidele(c) ==
  /\ Existe(c) <=> paiement[c].methode # "AUCUNE"
  /\ Existe(c) => commande[c].client \in Clients
  /\ ~Existe(c) => commande[c].livreur = Aucun
  /\ EnLigne(c) /\ Paye(c) => Encaisse(c)
  /\ commande[c].etat = "LIVREE" => Encaisse(c)
  /\ facture[c] # 0 => Encaisse(c)
  /\ LET o == paiement[c].transaction
     IN  o # Aucun => paypal[o].etat # "AUCUN" /\ paypal[o].commande = c

OrdreFidele(o) ==
  paypal[o].etat # "AUCUN" =>
    paypal[o].commande \in Commandes /\ EnLigne(paypal[o].commande)

LEMMA TablesParties ==
  TablesFideles <=> /\ \A c \in Commandes : CommandeFidele(c)
                    /\ \A o \in Ordres : OrdreFidele(o)
BY DEF TablesFideles, CommandeFidele, OrdreFidele

\* Money taken belongs to an order that exists.
LEMMA EncaisseeExiste ==
  ASSUME TypeOK, TablesFideles, NEW c \in Commandes, Encaisse(c)
  PROVE  Existe(c)
BY DEF TablesFideles, Encaisse, EnLigne, ALaLivraison

\* A PayPal order stays one of an online order when nothing is taken back.
LEMMA OrdresAcquis ==
  ASSUME TypeOK, TablesFideles, Acquis, NEW o \in Ordres,
         paypal[o].etat # "AUCUN"
  PROVE  OrdreFidele(o)'
<1>1. /\ paypal[o].commande \in Commandes
      /\ EnLigne(paypal[o].commande)
      /\ Existe(paypal[o].commande)
  BY DEF TablesFideles, EnLigne
<1> QED BY <1>1 DEF Acquis, OrdreFidele, EnLigne

LEMMA TablesPas ==
  ASSUME Inductif, [Next]_vars, Acquis
  PROVE  TablesFideles'
<1> USE DEF Inductif
<1>a. ASSUME \A c \in Commandes : CommandeFidele(c)',
             \A o \in Ordres : OrdreFidele(o)'
      PROVE  TablesFideles'
  BY <1>a DEF TablesFideles, CommandeFidele, OrdreFidele
<1>b. /\ \A c \in Commandes : CommandeFidele(c)
      /\ \A o \in Ordres : OrdreFidele(o)
  BY TablesParties
<1>c. \A c \in Commandes : Encaisse(c) => Encaisse(c)'
  BY EncaisseeExiste DEF Acquis
<1>1. CASE UNCHANGED tables
  BY <1>1, <1>a, <1>b DEF tables, CommandeFidele, OrdreFidele, Existe,
                          Encaisse, EnLigne, ALaLivraison, Paye, Captures
<1>2. ASSUME NEW r \in Requetes, CreateTransaction(r)
      PROVE  TablesFideles'
  <2>1. PICK d \in Commandes : CreateTransaction(r)!2!(d)
    BY <1>2 DEF CreateTransaction
  <2>2. UNCHANGED <<paypal, facture>> /\ req[r] \in EtapeCreate
    BY <1>2, EtapeSelonPc DEF CreateTransaction, TypeOK
  <2>3. ASSUME NEW c \in Commandes, c # d
        PROVE  CommandeFidele(c)'
    <3>1. commande'[c] = commande[c] /\ paiement'[c] = paiement[c]
      BY <2>1, <2>3 DEF TypeOK
    <3> QED
      BY <1>b, <2>2, <3>1 DEF CommandeFidele, Existe, Encaisse, EnLigne,
                              ALaLivraison, Paye, Captures
  <2>4. CommandeFidele(d)'
    <3>1. /\ commande'[d].etat = "EN_ATTENTE"
          /\ commande'[d].client \in Clients
          /\ paiement'[d].methode # "AUCUNE"
          /\ paiement'[d].statut = "PENDING"
          /\ paiement'[d].transaction = Aucun
      BY <2>1, <2>2, DonneesAssumption DEF EtapeCreate, TypeOK
    <3>2. facture'[d] = 0
      BY <1>b, <2>1, <2>2, EncaisseeExiste DEF CommandeFidele
    <3> QED BY <3>1, <3>2 DEF CommandeFidele, Existe, EnLigne, Paye
  <2>5. ASSUME NEW o \in Ordres
        PROVE  OrdreFidele(o)'
    BY <2>2, OrdresAcquis DEF OrdreFidele
  <2> QED BY <2>3, <2>4, <2>5, <1>a
<1>3. ASSUME NEW r \in Requetes, EcritCommande(r)
      PROVE  TablesFideles'
  <2>1. /\ UNCHANGED <<paiement, paypal, facture>>
        /\ \A c \in Commandes :
             /\ commande'[c].client = commande[c].client
             /\ Existe(c) => Existe(c)'
    BY <1>3, CommandeEcrite DEF Acquis
  <2>2. ASSUME NEW c \in Commandes
        PROVE  /\ Existe(c)' => Existe(c)
               /\ commande'[c].etat = "LIVREE" => Encaisse(c)
    <3>1. CASE commande'[c].etat = commande[c].etat
      BY <1>b, <3>1 DEF Existe, CommandeFidele
    <3>2. CASE commande'[c].etat # commande[c].etat
      <4>1. commande'[c].etat = "LIVREE" => Encaisse(c)
        BY <1>3, <3>2, CommandeEcrite DEF RequeteFidele
      <4>2. Existe(c)
        BY <1>3, <3>2, CommandeEcrite DEF RequeteFidele
      <4> QED BY <4>1, <4>2
    <3> QED BY <3>1, <3>2
  <2>a. ASSUME NEW c \in Commandes, ~Existe(c)
        PROVE  commande'[c].livreur = Aucun
    <3>1. commande'[c].livreur = commande[c].livreur
      BY <1>3, <2>a, CommandeEcrite DEF RequeteFidele
    <3> QED BY <1>b, <2>a, <3>1 DEF CommandeFidele
  <2>3. ASSUME NEW c \in Commandes
        PROVE  CommandeFidele(c)'
    BY <1>b, <1>c, <2>1, <2>2, <2>a DEF CommandeFidele, EnLigne, Paye
  <2>4. ASSUME NEW o \in Ordres
        PROVE  OrdreFidele(o)'
    BY <2>1, OrdresAcquis DEF OrdreFidele
  <2> QED BY <2>3, <2>4, <1>a
<1>4. ASSUME NEW r \in Requetes, InitiateEcrire(r)
      PROVE  TablesFideles'
  <2>1. UNCHANGED <<commande, paypal, facture>> /\ req[r] \in EtapeInitiate
    BY <1>4, EtapeSelonPc DEF InitiateEcrire, TypeOK
  <2>2. ASSUME NEW c \in Commandes
        PROVE  /\ paiement'[c].methode = paiement[c].methode
               /\ paiement'[c].statut = paiement[c].statut
               /\ \/ paiement'[c].transaction = paiement[c].transaction
                  \/ c = req[r].c /\ paiement'[c].transaction = req[r].ordre
    BY <1>4, <2>1 DEF InitiateEcrire, TypeOK, PaiementT
  <2>3. paypal[req[r].ordre].etat # "AUCUN"
          /\ paypal[req[r].ordre].commande = req[r].c
    BY <1>4 DEF InitiateEcrire, RequeteFidele
  <2>4. ASSUME NEW c \in Commandes
        PROVE  CommandeFidele(c)'
    BY <1>b, <1>c, <2>1, <2>2, <2>3 DEF CommandeFidele, Existe, EnLigne, Paye
  <2>5. ASSUME NEW o \in Ordres
        PROVE  OrdreFidele(o)'
    BY <2>1, OrdresAcquis DEF OrdreFidele
  <2> QED BY <2>4, <2>5, <1>a
<1>5. ASSUME NEW r \in Requetes, StatutEcrire(r)
      PROVE  TablesFideles'
  <2>1. UNCHANGED <<commande, paypal, facture>> /\ req[r] \in EtapeIssue
    BY <1>5, EtapeSelonPc DEF StatutEcrire, TypeOK
  <2>2. ASSUME NEW c \in Commandes
        PROVE  /\ paiement'[c].methode = paiement[c].methode
               /\ paiement'[c].transaction = paiement[c].transaction
               /\ \/ paiement'[c].statut = paiement[c].statut
                  \/ /\ c = req[r].c
                     /\ paiement'[c].statut = StatutDe(req[r].success)
    BY <1>5, <2>1 DEF StatutEcrire, TypeOK, PaiementT
  <2>3. req[r].success /\ EnLigne(req[r].c) => Encaisse(req[r].c)
    BY <1>5 DEF StatutEcrire, RequeteFidele
  <2>4. ASSUME NEW c \in Commandes
        PROVE  EnLigne(c)' /\ Paye(c)' => Encaisse(c)
    BY <1>b, <2>2, <2>3 DEF CommandeFidele, EnLigne, Paye, StatutDe
  <2>5. ASSUME NEW c \in Commandes
        PROVE  CommandeFidele(c)'
    BY <1>b, <1>c, <2>1, <2>2, <2>4 DEF CommandeFidele, Existe
  <2>6. ASSUME NEW o \in Ordres
        PROVE  OrdreFidele(o)'
    BY <2>1, OrdresAcquis DEF OrdreFidele
  <2> QED BY <2>5, <2>6, <1>a
<1>6. CASE \/ \E r \in Requetes : CaptureOrder(r)
           \/ \E r \in Requetes, d \in Commandes, x \in Ordres :
                InitiateOnlinePayment(r, d, x)
           \/ \E x \in Ordres : ClientApprouve(x)
  <2>1. UNCHANGED <<commande, paiement, facture>>
    BY <1>6 DEF CaptureOrder, InitiateOnlinePayment, ClientApprouve
  <2>2. ASSUME NEW c \in Commandes
        PROVE  CommandeFidele(c)'
    <3>1. paiement[c].transaction \in Ordres \cup {Aucun}
      BY DEF TypeOK, PaiementT
    <3> QED
      BY <1>b, <1>c, <2>1, <3>1
      DEF CommandeFidele, Existe, EnLigne, Paye, Acquis
  <2>3. ASSUME NEW o \in Ordres, paypal'[o].etat # "AUCUN",
               paypal[o].etat = "AUCUN"
        PROVE  OrdreFidele(o)'
    <3>1. ~ \E x \in Ordres : ClientApprouve(x)
      BY <2>3 DEF ClientApprouve, TypeOK, PaypalT
    <3>2. ASSUME NEW r \in Requetes, CaptureOrder(r)
          PROVE  FALSE
      <4>1. \/ /\ paypal[req[r].ordre].etat = "APPROVED"
               /\ \E e \in {"COMPLETED", "CREATED"} :
                    paypal' = [paypal EXCEPT ![req[r].ordre].etat = e]
            \/ UNCHANGED paypal
        BY <3>2 DEF CaptureOrder
      <4> QED BY <2>3, <4>1 DEF TypeOK
    <3>3. PICK r \in Requetes, d \in Commandes, x \in Ordres :
            InitiateOnlinePayment(r, d, x)
      BY <1>6, <3>1, <3>2
    <3>4. x = o /\ paypal'[o].commande = d
      BY <2>3, <3>3 DEF InitiateOnlinePayment, TypeOK
    <3>5. EnLigne(d)'
      BY <2>1, <3>3 DEF InitiateOnlinePayment, EnLigneNonPaye, EnLigne
    <3> QED BY <3>4, <3>5 DEF OrdreFidele, EnLigne
  <2>4. ASSUME NEW o \in Ordres
        PROVE  OrdreFidele(o)'
    <3>1. CASE paypal[o].etat # "AUCUN"
      BY <3>1, OrdresAcquis
    <3>2. CASE paypal'[o].etat = "AUCUN"
      BY <3>2 DEF OrdreFidele
    <3> QED BY <2>3, <3>1, <3>2
  <2> QED BY <2>2, <2>4, <1>a
<1>7. ASSUME NEW r \in Requetes, FactureCreate(r)
      PROVE  TablesFideles'
  <2>1. UNCHANGED <<commande, paiement, paypal>> /\ req[r] \in EtapeFacture
    BY <1>7, EtapeSelonPc DEF FactureCreate, TypeOK
  <2>2. ASSUME NEW c \in Commandes
        PROVE  facture'[c] = facture[c] \/ c = req[r].c
    BY <1>7, <2>1 DEF FactureCreate, TypeOK
  <2>3. Encaisse(req[r].c)
    BY <1>7 DEF FactureCreate, RequeteFidele
  <2>4. ASSUME NEW c \in Commandes
        PROVE  CommandeFidele(c)'
    BY <1>b, <1>c, <2>1, <2>2, <2>3 DEF CommandeFidele, Existe, EnLigne, Paye
  <2>5. ASSUME NEW o \in Ordres
        PROVE  OrdreFidele(o)'
    BY <2>1, OrdresAcquis DEF OrdreFidele
  <2> QED BY <2>4, <2>5, <1>a
<1> QED
  BY <1>1, <1>2, <1>3, <1>4, <1>5, <1>6, <1>7, Cadre DEF EcritTables

----------------------------------------------------------------------------
\* What a request believes of the money does not become false while it waits.
LEMMA RequeteStable ==
  ASSUME TypeOK, TablesFideles, Acquis, NEW q \in Etapes, RequeteFidele(q)
  PROVE  RequeteFidele(q)'
<1>1. CASE q.pc \in {"libre", "create"}
  BY <1>1 DEF RequeteFidele
<1>2. CASE q.pc \notin {"libre", "create"}
  <2>1. q.c \in Commandes /\ Existe(q.c)
    BY <1>2 DEF RequeteFidele, Etapes, EtapeCreate, EtapeUpdate, EtapeCancel,
                EtapeAssign, EtapeStatus, EtapeInitiate, EtapeCapture,
                EtapeIssue, EtapeSuite, EtapeConsommer, EtapeFacture
  <2>2. /\ Existe(q.c)'
        /\ EnLigne(q.c)' <=> EnLigne(q.c)
        /\ Encaisse(q.c) => Encaisse(q.c)'
    BY <2>1 DEF Acquis, EnLigne
  <2>3. q.pc \in {"initiate", "capture"} => q.ordre \in Ordres
    BY EtapeSelonPc DEF EtapeInitiate, EtapeCapture
  <2>4. q.pc \in {"initiate", "capture"} =>
          paypal'[q.ordre].etat # "AUCUN" /\ paypal'[q.ordre].commande = q.c
    BY <2>3 DEF RequeteFidele, Acquis
  <2> QED BY <2>2, <2>4 DEF RequeteFidele, Confirmee
<1> QED BY <1>1, <1>2

\* So only the request that moves has to be looked at.
LEMMA RequetesStables ==
  ASSUME Inductif, Acquis, NEW r \in Requetes, NEW e,
         \/ Etape(r, e) /\ RequeteFidele(e)'
         \/ Repond(r)
         \/ UNCHANGED req
  PROVE  \A x \in Requetes : RequeteFidele(req[x])'
<1> SUFFICES ASSUME NEW x \in Requetes
             PROVE  RequeteFidele(req[x])'
  OBVIOUS
<1>1. req \in [Requetes -> Etapes] /\ RequeteFidele(req[x])
  BY DEF Inductif, TypeOK
<1>2. CASE req'[x] = req[x]
  <2>1. \A q \in Etapes : RequeteFidele(q) => RequeteFidele(q)'
    BY RequeteStable DEF Inductif
  <2> QED BY <1>1, <1>2, <2>1 DEF RequeteFidele
<1>3. CASE req'[x] = [pc |-> "libre"]
  BY <1>3 DEF RequeteFidele
<1>4. CASE req'[x] = e /\ RequeteFidele(e)'
  BY <1>4 DEF RequeteFidele
<1> QED BY <1>1, <1>2, <1>3, <1>4 DEF Repond, Etape

LEMMA RequeteSuivante ==
  ASSUME Inductif, Acquis, TypeOK', NEW r \in Requetes, NEW e, Etape(r, e),
         RequeteFidele(e)
  PROVE  \A x \in Requetes : RequeteFidele(req[x])'
<1>1. e \in Etapes
  BY DEF Etape, TypeOK, Inductif
<1>2. RequeteFidele(e)'
  BY <1>1, RequeteStable DEF Inductif
<1> QED BY <1>2, RequetesStables

\* The conditions the handlers test give what RequeteFidele needs.
LEMMA Conditions ==
  ASSUME Inductif, NEW c \in Commandes
  PROVE  /\ ~EnLigneNonPaye(c) => Confirmee(c)
         /\ Existe(c) /\ ~EnLigne(c) => ALaLivraison(c)
         /\ ALaLivraison(c) /\ Paye(c) => Encaisse(c)
         /\ EnLigne(c) \/ ALaLivraison(c) => Existe(c)
         /\ EnLigne(c) => ~ALaLivraison(c)
<1>1. paiement[c].methode \in {"EN_LIGNE", "A_LA_LIVRAISON", "AUCUNE"}
  BY DEF Inductif, TypeOK, PaiementT
<1> QED
  BY <1>1 DEF Inductif, TablesFideles, EnLigneNonPaye, Confirmee, EnLigne,
              ALaLivraison, Encaisse

LEMMA RequetesOrders ==
  ASSUME Inductif, Acquis, TypeOK', NEW r \in Requetes, OrdersNext(r)
  PROVE  \A x \in Requetes : RequeteFidele(req[x])'
<1>1. ASSUME NEW u \in Clients, NEW m \in Methodes, NEW a \in Adresses,
             Create(r, u, m, a)
      PROVE  \A x \in Requetes : RequeteFidele(req[x])'
  BY <1>1, RequeteSuivante DEF Create, RequeteFidele
<1>2. ASSUME NEW c \in Commandes, NEW a \in Adresses, Update(r, c, a)
      PROVE  \A x \in Requetes : RequeteFidele(req[x])'
  BY <1>2, RequeteSuivante DEF Update, RequeteFidele
<1>3. ASSUME NEW c \in Commandes, Cancel(r, c)
      PROVE  \A x \in Requetes : RequeteFidele(req[x])'
  <2>1. Existe(c)
    BY <1>3 DEF Cancel, CancelLire, Existe
  <2>2. RequeteFidele([pc |-> "cancel", c |-> c,
                       jamaisConsommee |-> EnLigneNonPaye(c)])
    BY <2>1, Conditions DEF RequeteFidele
  <2> QED BY <1>3, <2>2, RequeteSuivante DEF Cancel, CancelLire
<1>4. ASSUME NEW c \in Commandes, NEW l \in Livreurs, AssignLivreur(r, c, l)
      PROVE  \A x \in Requetes : RequeteFidele(req[x])'
  <2>1. RequeteFidele([pc |-> "assignLivreur", c |-> c, livreur |-> l])
    BY <1>4, Conditions DEF AssignLivreur, RequeteFidele
  <2> QED BY <1>4, <2>1, RequeteSuivante DEF AssignLivreur
<1>5. ASSUME NEW u \in Admins \cup Livreurs, NEW c \in Commandes,
             NEW e \in Etats, UpdateStatus(r, u, c, e)
      PROVE  \A x \in Requetes : RequeteFidele(req[x])'
  <2>1. /\ Existe(c)
        /\ e # "ANNULEE" => Confirmee(c)
        /\ e = "LIVREE" /\ ALaLivraison(c) => Encaisse(c)
    BY <1>5, Conditions DEF UpdateStatus, Progression
  <2>2. e = "LIVREE" => Encaisse(c)
    BY <2>1, Conditions DEF Confirmee
  <2>3. RequeteFidele([pc |-> "updateStatus", c |-> c, etat |-> e])
    BY <2>1, <2>2 DEF RequeteFidele
  <2> QED BY <1>5, <2>3, RequeteSuivante DEF UpdateStatus
<1>6. CASE \/ CreateTransaction(r) \/ UpdateEcrire(r) \/ CancelTransaction(r)
           \/ AssignLivreurEcrire(r) \/ UpdateStatusEcrire(r)
  BY <1>6, RequetesStables
  DEF CreateTransaction, UpdateEcrire, CancelTransaction, AssignLivreurEcrire,
      UpdateStatusEcrire
<1>7. CASE ConfirmOnlinePaymentSuccess(r)
  <2>1. RequeteFidele([pc |-> "consommer", c |-> req[r].c,
                       vu |-> panier[commande[req[r].c].client]])
    BY <1>7 DEF ConfirmOnlinePaymentSuccess, Inductif, RequeteFidele
  <2> QED BY <1>7, <2>1, RequeteSuivante DEF ConfirmOnlinePaymentSuccess
<1>8. CASE ConfirmOnlinePaymentTransaction(r)
  <2>1. RequeteFidele([pc |-> "generate", c |-> req[r].c])
    BY <1>8 DEF ConfirmOnlinePaymentTransaction, Inductif, RequeteFidele
  <2>2. Etape(r, [pc |-> "generate", c |-> req[r].c]) \/ Repond(r)
    BY <1>8 DEF ConfirmOnlinePaymentTransaction, Consommation
  <2> QED BY <2>1, <2>2, RequeteSuivante, RequetesStables
<1> QED
  BY <1>1, <1>2, <1>3, <1>4, <1>5, <1>6, <1>7, <1>8 DEF OrdersNext

LEMMA RequetesInvoices ==
  ASSUME Inductif, Acquis, TypeOK', NEW r \in Requetes, InvoicesNext(r)
  PROVE  \A x \in Requetes : RequeteFidele(req[x])'
<1>1. CASE GenerateForCommande(r)
  <2>1. /\ RequeteFidele([pc |-> "sendInvoice", c |-> req[r].c])
        /\ RequeteFidele([pc |-> "facture", c |-> req[r].c,
                          numero |-> ProchainNumero])
    BY <1>1 DEF GenerateForCommande, Inductif, RequeteFidele
  <2> QED BY <1>1, <2>1, RequeteSuivante DEF GenerateForCommande
<1>2. CASE FactureCreate(r)
  <2>1. RequeteFidele([pc |-> "sendInvoice", c |-> req[r].c])
    BY <1>2 DEF FactureCreate, Inductif, RequeteFidele
  <2> QED BY <1>2, <2>1, RequeteSuivante, RequetesStables DEF FactureCreate
<1>3. CASE SendInvoiceByEmail(r)
  BY <1>3, RequetesStables DEF SendInvoiceByEmail
<1> QED BY <1>1, <1>2, <1>3 DEF InvoicesNext

LEMMA RequetesPayments ==
  ASSUME Inductif, Acquis, TypeOK', NEW r \in Requetes, PaymentsNext(r)
  PROVE  \A x \in Requetes : RequeteFidele(req[x])'
<1>1. ASSUME NEW c \in Commandes, NEW o \in Ordres,
             InitiateOnlinePayment(r, c, o)
      PROVE  \A x \in Requetes : RequeteFidele(req[x])'
  <2> DEFINE e == [pc |-> "initiate", c |-> c, ordre |-> o]
  <2>1. Existe(c)'
    BY <1>1, Conditions DEF InitiateOnlinePayment, EnLigneNonPaye, Acquis
  <2>2. paypal'[o].etat # "AUCUN" /\ paypal'[o].commande = c
    BY <1>1 DEF InitiateOnlinePayment, Inductif, TypeOK
  <2>3. RequeteFidele(e)'
    BY <2>1, <2>2 DEF RequeteFidele
  <2> QED BY <1>1, <2>3, RequetesStables DEF InitiateOnlinePayment
<1>2. CASE InitiateEcrire(r)
  BY <1>2, RequetesStables DEF InitiateEcrire
<1>3. ASSUME NEW c \in Commandes, CaptureOnlinePayment(r, c)
      PROVE  \A x \in Requetes : RequeteFidele(req[x])'
  <2>1. RequeteFidele([pc |-> "capture", c |-> c,
                       ordre |-> paiement[c].transaction])
    BY <1>3, Conditions
    DEF CaptureOnlinePayment, EnLigneNonPaye, RequeteFidele, Inductif,
        TablesFideles
  <2> QED BY <1>3, <2>1, RequeteSuivante DEF CaptureOnlinePayment
<1>4. CASE CaptureOrder(r)
  <2>1. PICK c \in Commandes, o \in Ordres :
          req[r] = [pc |-> "capture", c |-> c, ordre |-> o]
    BY <1>4, EtapeSelonPc DEF CaptureOrder, Inductif, TypeOK, EtapeCapture
  <2>2. Existe(c) /\ paypal[o].etat # "AUCUN" /\ paypal[o].commande = c
    BY <2>1 DEF Inductif, RequeteFidele
  <2>3. EnLigne(c) /\ EnLigne(c)' /\ Existe(c)'
    BY <2>2 DEF Inductif, TablesFideles, Acquis, EnLigne
  <2>4. CASE /\ paypal' = [paypal EXCEPT ![o].etat = "COMPLETED"]
             /\ Etape(r, [pc |-> "statut", c |-> c, success |-> TRUE])
    <3>1. paypal'[o].etat = "COMPLETED" /\ paypal'[o].commande = c
      BY <2>2, <2>4 DEF Inductif, TypeOK, PaypalT
    <3>2. Encaisse(c)'
      BY <2>3, <3>1 DEF Encaisse, Captures
    <3>3. RequeteFidele([pc |-> "statut", c |-> c, success |-> TRUE])'
      BY <2>3, <3>2 DEF RequeteFidele
    <3> QED BY <2>4, <3>3, RequetesStables
  <2>5. CASE Etape(r, [pc |-> "statut", c |-> c, success |-> FALSE])
    <3>1. RequeteFidele([pc |-> "statut", c |-> c, success |-> FALSE])'
      BY <2>3 DEF RequeteFidele
    <3> QED BY <2>5, <3>1, RequetesStables
  <2> QED BY <1>4, <2>1, <2>4, <2>5 DEF CaptureOrder
<1>5. CASE StatutEcrire(r)
  <2>1. PICK c \in Commandes, s \in BOOLEAN :
          req[r] = [pc |-> "statut", c |-> c, success |-> s]
    BY <1>5, EtapeSelonPc DEF StatutEcrire, Inductif, TypeOK, EtapeIssue
  <2> DEFINE e == [pc |-> "notifier", c |-> c, success |-> s]
  <2>2. Etape(r, e)
    BY <1>5, <2>1 DEF StatutEcrire
  <2>3. Existe(c) /\ IF EnLigne(c) THEN s => Encaisse(c) ELSE s
    BY <2>1 DEF Inductif, RequeteFidele
  <2>4. Existe(c)' /\ (EnLigne(c)' <=> EnLigne(c))
    BY <2>3 DEF Acquis, EnLigne
  <2>5. CASE EnLigne(c)
    <3>1. s => Encaisse(c)'
      BY <2>3, <2>5 DEF Acquis
    <3>2. RequeteFidele(e)'
      BY <2>4, <2>5, <3>1 DEF RequeteFidele
    <3> QED BY <2>2, <3>2, RequetesStables
  <2>6. CASE ~EnLigne(c)
    <3>1. ALaLivraison(c)
      BY <2>3, <2>6, Conditions
    <3>2. /\ paiement'[c].methode = "A_LA_LIVRAISON"
          /\ paiement'[c].statut = "SUCCESS"
      BY <1>5, <2>1, <2>3, <2>6, <3>1
      DEF StatutEcrire, StatutDe, Inductif, TypeOK, PaiementT, ALaLivraison
    <3>3. Encaisse(c)'
      BY <3>2 DEF Encaisse, EnLigne, ALaLivraison, Paye
    <3>4. RequeteFidele(e)'
      BY <2>3, <2>4, <2>6, <3>3 DEF RequeteFidele
    <3> QED BY <2>2, <3>4, RequetesStables
  <2> QED BY <2>5, <2>6
<1>6. CASE Notifier(r)
  <2>1. /\ Existe(req[r].c)
        /\ req[r].success => Encaisse(req[r].c)
    BY <1>6 DEF Notifier, Inductif, RequeteFidele
  <2>2. RequeteFidele([pc |-> SuiteDe(req[r].c, req[r].success),
                       c |-> req[r].c])
    BY <2>1 DEF RequeteFidele, SuiteDe
  <2> QED BY <1>6, <2>2, RequeteSuivante DEF Notifier
<1>7. CASE CancelApresEchec(r)
  <2>1. req[r].c \in Commandes
    BY <1>7, EtapeSelonPc DEF CancelApresEchec, Inductif, TypeOK, EtapeSuite
  <2>2. RequeteFidele([pc |-> "cancel", c |-> req[r].c,
                       jamaisConsommee |-> EnLigneNonPaye(req[r].c)])
    BY <1>7, <2>1, Conditions DEF CancelApresEchec, Inductif, RequeteFidele
  <2> QED
    BY <1>7, <2>2, RequeteSuivante, RequetesStables
    DEF CancelApresEchec, CancelLire
<1>8. ASSUME NEW u \in Admins \cup Livreurs, NEW c \in Commandes,
             ConfirmCashPayment(r, u, c)
      PROVE  \A x \in Requetes : RequeteFidele(req[x])'
  <2>1. RequeteFidele([pc |-> "statut", c |-> c, success |-> TRUE])
    BY <1>8, Conditions DEF ConfirmCashPayment, RequeteFidele
  <2> QED BY <1>8, <2>1, RequeteSuivante DEF ConfirmCashPayment
<1> QED
  BY <1>1, <1>2, <1>3, <1>4, <1>5, <1>6, <1>7, <1>8 DEF PaymentsNext

LEMMA RequetesPas ==
  ASSUME Inductif, [Next]_vars, Acquis, TypeOK'
  PROVE  \A x \in Requetes : RequeteFidele(req[x])'
<1>1. ASSUME NEW r \in Requetes, ClientNext(r) \/ AdminNext(r) \/ Panne(r)
      PROVE  \A x \in Requetes : RequeteFidele(req[x])'
  BY <1>1, RequetesStables
  DEF ClientNext, ModifierPanier, RetirerDuPanier, AdminNext, ReassortProduit,
      Panne
<1>2. CASE UNCHANGED req
  BY <1>2, RequetesStables
<1>3. CASE \E o \in Ordres : ClientApprouve(o)
  BY <1>2, <1>3 DEF ClientApprouve
<1> QED
  BY <1>1, <1>2, <1>3, RequetesOrders, RequetesInvoices, RequetesPayments
  DEF Next, vars

----------------------------------------------------------------------------
LEMMA CardinaliteFacturees ==
  IsFiniteSet(Facturees) /\ Cardinality(Facturees) \in Nat
BY DonneesAssumption, FS_Subset, FS_CardinalityType DEF Facturees

\* A number that was drawn and that no invoice has is the next one.
LEMMA FacturesPas ==
  ASSUME Inductif, [Next]_vars
  PROVE  /\ FacturesSequentielles'
         /\ Cardinality(Facturees) <= Cardinality(Facturees)'
<1> USE DEF Inductif
<1>1. CASE UNCHANGED facture
  <2>1. Facturees' = Facturees
    BY <1>1 DEF Facturees
  <2> QED BY <1>1, <2>1, CardinaliteFacturees DEF FacturesSequentielles
<1>2. ASSUME NEW r \in Requetes, FactureCreate(r), facture' # facture
      PROVE  /\ FacturesSequentielles'
             /\ Cardinality(Facturees) <= Cardinality(Facturees)'
  <2>1. PICK c \in Commandes, n \in Nat \ {0} :
          req[r] = [pc |-> "facture", c |-> c, numero |-> n]
    BY <1>2, EtapeSelonPc DEF FactureCreate, TypeOK, EtapeFacture
  <2>2. /\ ~Doublon(c, n)
        /\ facture' = [facture EXCEPT ![c] = n]
    BY <1>2, <2>1 DEF FactureCreate
  <2>3. n = Cardinality(Facturees) + 1
    <3>1. n \notin {facture[d] : d \in Facturees}
      BY <2>2 DEF Doublon, Facturees
    <3>2. n <= Cardinality(Facturees) + 1
      BY <2>1 DEF NumerosTires
    <3> QED BY <3>1, <3>2, CardinaliteFacturees DEF FacturesSequentielles
  <2>4. Facturees' = Facturees \cup {c} /\ c \notin Facturees
    BY <2>2 DEF Facturees, Doublon, TypeOK
  <2>5. Cardinality(Facturees') = Cardinality(Facturees) + 1
    BY <2>4, CardinaliteFacturees, FS_AddElement
  <2>6. \A d \in Facturees : facture'[d] = facture[d]
    BY <2>2, <2>4 DEF TypeOK, Facturees
  <2>7. facture'[c] = n
    BY <2>2 DEF TypeOK
  <2>8. {facture'[d] : d \in Facturees'} = {facture[d] : d \in Facturees} \cup {n}
    BY <2>4, <2>6, <2>7
  <2>9. {facture'[d] : d \in Facturees'} = 1 .. Cardinality(Facturees')
    <3>1. \A k \in Nat : (1 .. k) \cup {k + 1} = 1 .. (k + 1)
      OBVIOUS
    <3>2. {facture[d] : d \in Facturees} = 1 .. Cardinality(Facturees)
      BY DEF FacturesSequentielles
    <3> QED BY <2>3, <2>5, <2>8, <3>1, <3>2, CardinaliteFacturees
  <2>10. \A d \in Facturees : facture[d] # n
    BY <2>2 DEF Doublon, Facturees
  <2>11. \A d, e \in Facturees' : facture'[d] = facture'[e] => d = e
    BY <2>4, <2>6, <2>7, <2>10 DEF FacturesSequentielles
  <2> QED
    BY <2>5, <2>9, <2>11, CardinaliteFacturees DEF FacturesSequentielles
<1>3. UNCHANGED facture \/ \E r \in Requetes : FactureCreate(r)
  <2>1. ASSUME NEW r \in Requetes, EcritTables(r)
        PROVE  UNCHANGED facture \/ FactureCreate(r)
    BY <2>1
    DEF EcritTables, CreateTransaction, EcritCommande, UpdateEcrire,
        CancelTransaction, AssignLivreurEcrire, UpdateStatusEcrire,
        InitiateEcrire, StatutEcrire, CaptureOrder, InitiateOnlinePayment
  <2> QED BY <2>1, Cadre DEF tables, ClientApprouve
<1> QED BY <1>1, <1>2, <1>3

\* A number is drawn by GenerateForCommande only.
LEMMA Tirage ==
  ASSUME Inductif, [Next]_vars, NEW x \in Requetes, req'[x].pc = "facture"
  PROVE  \/ req'[x] = req[x]
         \/ /\ req'[x].numero = ProchainNumero
            /\ UNCHANGED facture
<1>1. req \in [Requetes -> Etapes]
  BY DEF Inductif, TypeOK
<1>2. ASSUME NEW r \in Requetes, NEW e, Etape(r, e), e.pc # "facture"
      PROVE  req'[x] = req[x]
  BY <1>1, <1>2 DEF Etape
<1>3. ASSUME NEW r \in Requetes, Repond(r)
      PROVE  req'[x] = req[x]
  BY <1>1, <1>3 DEF Repond, Etape
<1>4. ASSUME NEW r \in Requetes, OrdersNext(r)
      PROVE  req'[x] = req[x]
  BY <1>2, <1>3, <1>4
  DEF OrdersNext, Create, CreateTransaction, Update, UpdateEcrire, Cancel,
      CancelLire, CancelTransaction, AssignLivreur, AssignLivreurEcrire,
      UpdateStatus, UpdateStatusEcrire, ConfirmOnlinePaymentSuccess,
      ConfirmOnlinePaymentTransaction, Consommation
<1>5. ASSUME NEW r \in Requetes, InvoicesNext(r)
      PROVE  \/ req'[x] = req[x]
             \/ /\ req'[x].numero = ProchainNumero
                /\ UNCHANGED facture
  <2>1. CASE GenerateForCommande(r)
    <3>1. CASE x = r /\ Etape(r, [pc |-> "facture", c |-> req[r].c,
                                  numero |-> ProchainNumero])
      BY <1>1, <2>1, <3>1 DEF GenerateForCommande, Etape
    <3>2. CASE x # r
      BY <1>1, <2>1, <3>2 DEF GenerateForCommande, Etape
    <3> QED BY <1>2, <2>1, <3>1, <3>2 DEF GenerateForCommande
  <2>2. CASE FactureCreate(r) \/ SendInvoiceByEmail(r)
    BY <1>2, <1>3, <2>2 DEF FactureCreate, SendInvoiceByEmail
  <2> QED BY <1>5, <2>1, <2>2 DEF InvoicesNext
<1>6. ASSUME NEW r \in Requetes, PaymentsNext(r)
      PROVE  req'[x] = req[x]
  <2>1. CASE StatutEcrire(r)
    <3>1. [req[r] EXCEPT !.pc = "notifier"].pc = "notifier"
      BY <2>1, <1>1, EtapeSelonPc DEF StatutEcrire, EtapeIssue
    <3> QED BY <1>2, <2>1, <3>1 DEF StatutEcrire
  <2>2. CASE Notifier(r)
    <3>1. SuiteDe(req[r].c, req[r].success) # "facture"
      BY DEF SuiteDe
    <3> QED BY <1>2, <2>2, <3>1 DEF Notifier
  <2>3. CASE ~(StatutEcrire(r) \/ Notifier(r))
    BY <1>2, <1>3, <1>6, <2>3
    DEF PaymentsNext, InitiateOnlinePayment, InitiateEcrire,
        CaptureOnlinePayment, CaptureOrder, CancelApresEchec, CancelLire,
        ConfirmCashPayment
  <2> QED BY <2>1, <2>2, <2>3
<1>7. ASSUME NEW r \in Requetes, ClientNext(r) \/ AdminNext(r) \/ Panne(r)
      PROVE  req'[x] = req[x]
  BY <1>3, <1>7
  DEF ClientNext, ModifierPanier, RetirerDuPanier, AdminNext, ReassortProduit,
      Panne
<1>8. ASSUME NEW o \in Ordres, ClientApprouve(o)
      PROVE  req'[x] = req[x]
  BY <1>8 DEF ClientApprouve
<1> QED BY <1>4, <1>5, <1>6, <1>7, <1>8 DEF Next, vars

LEMMA NumerosPas ==
  ASSUME Inductif, [Next]_vars, TypeOK'
  PROVE  NumerosTires'
<1> SUFFICES ASSUME NEW x \in Requetes, req'[x].pc = "facture"
             PROVE  req'[x].numero <= Cardinality(Facturees)' + 1
  BY DEF NumerosTires
<1>1. /\ Cardinality(Facturees) <= Cardinality(Facturees)'
      /\ Cardinality(Facturees) \in Nat
  BY FacturesPas, CardinaliteFacturees
<1>2. Cardinality(Facturees)' \in Nat
  BY DonneesAssumption, FS_Subset, FS_CardinalityType DEF Facturees
<1>3. CASE req'[x] = req[x]
  <2>1. /\ req[x].numero <= Cardinality(Facturees) + 1
        /\ req[x].numero \in Nat
    BY <1>3, EtapeSelonPc DEF Inductif, NumerosTires, TypeOK, EtapeFacture
  <2> QED BY <1>1, <1>2, <1>3, <2>1
<1>4. CASE req'[x].numero = ProchainNumero
  BY <1>1, <1>2, <1>4 DEF ProchainNumero
<1> QED BY <1>3, <1>4, Tirage

----------------------------------------------------------------------------
LEMMA InductifInit ==
  ASSUME Init
  PROVE  Inductif
<1> USE DonneesAssumption DEF Init
<1>1. TypeOK
  <2>1. NonCommande \in CommandeT /\ NonPaiement \in PaiementT
    BY DEF NonCommande, NonPaiement, CommandeT, PaiementT, AucuneLigne,
           Lignes, Statuts
  <2>2. produit \in [Produits -> [stock : Int, isAvailable : BOOLEAN]]
    OBVIOUS
  <2> QED BY <2>1, <2>2 DEF TypeOK, PaypalT, Etapes
<1>2. TablesFideles
  BY DEF TablesFideles, NonCommande, NonPaiement, Existe, EnLigne
<1>3. \A r \in Requetes : RequeteFidele(req[r])
  BY DEF RequeteFidele
<1>4. Facturees = {} /\ Cardinality(Facturees) = 0
  BY FS_EmptySet DEF Facturees
<1>5. FacturesSequentielles
  BY <1>4 DEF FacturesSequentielles
<1>6. NumerosTires
  BY DEF NumerosTires
<1> QED BY <1>1, <1>2, <1>3, <1>5, <1>6 DEF Inductif

LEMMA InductifPas ==
  ASSUME Inductif, [Next]_vars
  PROVE  Inductif'
<1>1. TypeOK' /\ Acquis
  BY TypePas, AcquisPas
<1> QED
  BY <1>1, TablesPas, RequetesPas, FacturesPas, NumerosPas DEF Inductif

\* What the handlers believe is true, in every interleaving of any number of
\* them and after any number of failures.
THEOREM InductifVrai == Spec => []Inductif
<1>1. Init => Inductif
  BY InductifInit
<1>2. Inductif /\ [Next]_vars => Inductif'
  BY InductifPas
<1> QED BY <1>1, <1>2, PTL DEF Spec

\* The tables and the running requests keep their types.
THEOREM TypeCorrect == Spec => []TypeOK
<1>1. Inductif => TypeOK
  BY DEF Inductif
<1> QED BY <1>1, InductifVrai, PTL

\* No order is delivered before its money was taken.
THEOREM LivreeEncaisseeVrai == Spec => []LivreeEncaissee
<1>1. Inductif => LivreeEncaissee
  BY DEF Inductif, TablesFideles, LivreeEncaissee
<1> QED BY <1>1, InductifVrai, PTL

\* Invoices are numbered 1 .. n, without gap or duplicate, although each
\* number is a count that may be stale.
THEOREM FacturesSequentiellesVrai == Spec => []FacturesSequentielles
<1>1. Inductif => FacturesSequentielles
  BY DEF Inductif
<1> QED BY <1>1, InductifVrai, PTL

----------------------------------------------------------------------------
(* The stock and the captures.                                             *)

\* A request that holds a capture, or its success, and has not taken the
\* quantities of order c out of the stock yet.
Suspendue(q, c) ==
  /\ q.pc \in {"statut", "notifier", "confirmOnline", "consommer"}
  /\ q.c = c
  /\ q.pc \in {"statut", "notifier"} => q.success

EnSuspens(c) == {r \in Requetes : Suspendue(req[r], c)}

\* Each capture pays for one exit from the stock, made or still to be made.
SortiesJustes ==
  /\ \A c \in Commandes :
       /\ IsFiniteSet(Captures(c)) /\ IsFiniteSet(EnSuspens(c))
       /\ EnLigne(c) =>
            net[c] + Cardinality(EnSuspens(c)) <= Cardinality(Captures(c))
       /\ ~EnLigne(c) => net[c] <= 1
       /\ ~Existe(c) => net[c] <= 0
  /\ \A r \in Requetes :
       req[r].pc \in {"confirmOnline", "consommer"} => EnLigne(req[r].c)

\* How a step of request r changes the number of requests that hold a capture.
LEMMA SuspensEtape ==
  ASSUME TypeOK, NEW r \in Requetes, NEW e, Etape(r, e), NEW c \in Commandes,
         IsFiniteSet(EnSuspens(c))
  PROVE  /\ IsFiniteSet(EnSuspens(c)')
         /\ Cardinality(EnSuspens(c)) \in Nat /\ Cardinality(EnSuspens(c)') \in Nat
         /\ Suspendue(e, c) =>
              Cardinality(EnSuspens(c)') = IF Suspendue(req[r], c)
                THEN Cardinality(EnSuspens(c)) ELSE Cardinality(EnSuspens(c)) + 1
         /\ ~Suspendue(e, c) =>
              Cardinality(EnSuspens(c)') = IF Suspendue(req[r], c)
                THEN Cardinality(EnSuspens(c)) - 1 ELSE Cardinality(EnSuspens(c))
<1>1. PICK S : S = EnSuspens(c)
  OBVIOUS
<1>2. PICK T : T = EnSuspens(c)'
  OBVIOUS
<1>3. req \in [Requetes -> Etapes] /\ req' = [req EXCEPT ![r] = e]
  BY DEF TypeOK, Etape
<1>4. \A x \in Requetes : req'[x] = IF x = r THEN e ELSE req[x]
  BY <1>3
<1>5. S = {x \in Requetes : Suspendue(req[x], c)}
  BY <1>1 DEF EnSuspens
<1>6. T = {x \in Requetes : Suspendue(req'[x], c)}
  BY <1>2 DEF EnSuspens, Suspendue
<1>7. r \in S <=> Suspendue(req[r], c)
  BY <1>5
<1>8. CASE Suspendue(e, c)
  <2>1. T = S \cup {r}
    BY <1>4, <1>5, <1>6, <1>8
  <2>2. IsFiniteSet(T)
        /\ Cardinality(T) = IF r \in S THEN Cardinality(S) ELSE Cardinality(S) + 1
    BY <1>1, <2>1, FS_AddElement
  <2>3. Cardinality(S) \in Nat /\ Cardinality(T) \in Nat
    BY <1>1, <2>2, FS_CardinalityType
  <2> QED
    BY <1>1, <1>2, <1>7, <1>8, <2>2, <2>3
<1>9. CASE ~Suspendue(e, c)
  <2>1. T = S \ {r}
    BY <1>4, <1>5, <1>6, <1>9
  <2>2. IsFiniteSet(T)
        /\ Cardinality(T) = IF r \in S THEN Cardinality(S) - 1 ELSE Cardinality(S)
    BY <1>1, <2>1, FS_RemoveElement
  <2>3. Cardinality(S) \in Nat /\ Cardinality(T) \in Nat
    BY <1>1, <2>2, FS_CardinalityType
  <2> QED
    BY <1>1, <1>2, <1>7, <1>9, <2>2, <2>3
<1> QED
  BY <1>8, <1>9

\* The existence of an order goes with its payment.
LEMMA ExisteSelonMethode ==
  ASSUME Inductif, Inductif', NEW c \in Commandes,
         paiement'[c].methode = paiement[c].methode
  PROVE  (Existe(c)' <=> Existe(c)) /\ (EnLigne(c)' <=> EnLigne(c))
BY DEF Inductif, TablesFideles, EnLigne

\* A step that captures nothing, takes nothing out of the stock and holds no
\* further capture.
LEMMA SortiesEtape ==
  ASSUME Inductif, Inductif', SortiesJustes, NEW r \in Requetes, NEW e, Etape(r, e),
         \A c \in Commandes : paiement'[c].methode = paiement[c].methode,
         \A c \in Commandes : Captures(c)' = Captures(c),
         \A c \in Commandes : net'[c] <= net[c],
         \A c \in Commandes : EnLigne(c) /\ Suspendue(e, c) => Suspendue(req[r], c),
         e.pc \in {"confirmOnline", "consommer"} => EnLigne(e.c) /\ e.c \in Commandes
  PROVE  SortiesJustes'
<1>1. TypeOK /\ TypeOK' /\ net \in [Commandes -> Int] /\ net' \in [Commandes -> Int]
  BY DEF Inductif, TypeOK
<1>2. ASSUME NEW c \in Commandes
      PROVE  /\ IsFiniteSet(Captures(c)') /\ IsFiniteSet(EnSuspens(c)')
             /\ EnLigne(c)' =>
                  net'[c] + Cardinality(EnSuspens(c)') <= Cardinality(Captures(c)')
             /\ ~EnLigne(c)' => net'[c] <= 1
             /\ ~Existe(c)' => net'[c] <= 0
  <2>1. /\ IsFiniteSet(Captures(c)) /\ IsFiniteSet(EnSuspens(c))
        /\ EnLigne(c) =>
             net[c] + Cardinality(EnSuspens(c)) <= Cardinality(Captures(c))
        /\ ~EnLigne(c) => net[c] <= 1
        /\ ~Existe(c) => net[c] <= 0
    BY DEF SortiesJustes
  <2>2. (Existe(c)' <=> Existe(c)) /\ (EnLigne(c)' <=> EnLigne(c))
    BY ExisteSelonMethode
  <2>3. /\ IsFiniteSet(EnSuspens(c)')
        /\ Cardinality(EnSuspens(c)) \in Nat /\ Cardinality(EnSuspens(c)') \in Nat
        /\ EnLigne(c) => Cardinality(EnSuspens(c)') <= Cardinality(EnSuspens(c))
    BY <1>1, <2>1, SuspensEtape
  <2>4. net[c] \in Int /\ net'[c] \in Int /\ net'[c] <= net[c]
    BY <1>1
  <2>5. Captures(c)' = Captures(c) /\ Cardinality(Captures(c)) \in Nat
    BY <2>1, FS_CardinalityType
  <2> QED
    BY <2>1, <2>2, <2>3, <2>4, <2>5
<1>3. ASSUME NEW x \in Requetes, req'[x].pc \in {"confirmOnline", "consommer"}
      PROVE  paiement'[req'[x].c].methode = "EN_LIGNE"
  <2>1. req \in [Requetes -> Etapes] /\ req' = [req EXCEPT ![r] = e]
    BY <1>1 DEF TypeOK, Etape
  <2>2. CASE x = r
    BY <1>3, <2>1, <2>2 DEF EnLigne
  <2>3. CASE x # r
    <3>1. req'[x] = req[x] /\ EnLigne(req[x].c)
      BY <1>3, <2>1, <2>3 DEF SortiesJustes
    <3>2. req[x].c \in Commandes
      BY <1>3, <2>1, <3>1, EtapeSelonPc DEF EtapeSuite, EtapeConsommer
    <3> QED
      BY <3>1, <3>2 DEF EnLigne
  <2> QED
    BY <2>2, <2>3
<1> QED
  BY <1>2, <1>3 DEF SortiesJustes, EnLigne

\* A step of no request.
LEMMA SortiesMemes ==
  ASSUME Inductif, Inductif', SortiesJustes, UNCHANGED <<req, net, paiement>>,
         \A c \in Commandes : Captures(c)' = Captures(c)
  PROVE  SortiesJustes'
<1>1. ASSUME NEW c \in Commandes
      PROVE  /\ IsFiniteSet(Captures(c)') /\ IsFiniteSet(EnSuspens(c)')
             /\ EnLigne(c)' =>
                  net'[c] + Cardinality(EnSuspens(c)') <= Cardinality(Captures(c)')
             /\ ~EnLigne(c)' => net'[c] <= 1
             /\ ~Existe(c)' => net'[c] <= 0
  <2>1. EnSuspens(c)' = EnSuspens(c)
    BY DEF EnSuspens, Suspendue
  <2>2. (Existe(c)' <=> Existe(c)) /\ (EnLigne(c)' <=> EnLigne(c))
    BY ExisteSelonMethode
  <2> QED
    BY <2>1, <2>2 DEF SortiesJustes
<1>2. \A r \in Requetes :
        req'[r].pc \in {"confirmOnline", "consommer"} => EnLigne(req[r].c)'
  BY DEF SortiesJustes, EnLigne
<1> QED
  BY <1>1, <1>2 DEF SortiesJustes, EnLigne

\* A request that goes on to an await where it holds no capture, or answers.
LEMMA SortiesRepos ==
  ASSUME Inductif, Inductif', SortiesJustes, NEW r \in Requetes, NEW e, Etape(r, e),
         e.pc \notin {"statut", "notifier", "confirmOnline", "consommer"},
         \A c \in Commandes : paiement'[c].methode = paiement[c].methode,
         \A c \in Commandes : Captures(c)' = Captures(c),
         \A c \in Commandes : net'[c] <= net[c]
  PROVE  SortiesJustes'
<1>1. \A c \in Commandes : ~Suspendue(e, c)
  BY DEF Suspendue
<1> QED
  BY <1>1, SortiesEtape

\* Neither the payments, nor PayPal's orders, nor the stock.
LEMMA SortiesCalmes ==
  ASSUME Inductif, Inductif', SortiesJustes, NEW r \in Requetes, NEW e, Etape(r, e),
         e.pc \notin {"statut", "notifier", "confirmOnline", "consommer"},
         UNCHANGED <<paiement, paypal, net>>
  PROVE  SortiesJustes'
<1>1. /\ \A c \in Commandes : paiement'[c].methode = paiement[c].methode
      /\ \A c \in Commandes : Captures(c)' = Captures(c)
      /\ \A c \in Commandes : net'[c] <= net[c]
  BY DEF Captures, Inductif, TypeOK
<1> QED
  BY <1>1, SortiesRepos

\* PayPal's orders other than the completed ones.
LEMMA CapturesMemes ==
  ASSUME TypeOK, NEW o \in Ordres, NEW x, paypal' = [paypal EXCEPT ![o] = x],
         paypal[o].etat # "COMPLETED", x.etat # "COMPLETED"
  PROVE  \A c \in Commandes : Captures(c)' = Captures(c)
BY DEF Captures, TypeOK

\* An order is created.
LEMMA SortiesCreate ==
  ASSUME Inductif, Inductif', SortiesJustes, NEW r \in Requetes, CreateTransaction(r)
  PROVE  SortiesJustes'
<1>1. PICK d \in Commandes : CreateTransaction(r)!2!(d)
  BY DEF CreateTransaction
<1>2. /\ req[r].pc = "create" /\ Repond(r) /\ UNCHANGED paypal /\ ~Existe(d)
      /\ req[r] \in EtapeCreate
  BY <1>1, EtapeSelonPc DEF CreateTransaction, Inductif, TypeOK
<1>3. TypeOK /\ TypeOK' /\ net \in [Commandes -> Int] /\ Repond(r)
  BY <1>2 DEF Inductif, TypeOK
<1>4. PICK e : e = [pc |-> "libre"] /\ Etape(r, e)
  BY <1>2 DEF Repond
<1>5. ASSUME NEW c \in Commandes
      PROVE  /\ IsFiniteSet(Captures(c)') /\ IsFiniteSet(EnSuspens(c)')
             /\ Captures(c)' = Captures(c) /\ EnSuspens(c)' = EnSuspens(c)
  <2>1. Captures(c)' = Captures(c)
    BY <1>2 DEF Captures
  <2>2. EnSuspens(c)' = EnSuspens(c)
    BY <1>2, <1>3 DEF EnSuspens, Suspendue, Repond, Etape, TypeOK
  <2> QED
    BY <2>1, <2>2 DEF SortiesJustes
<1>6. ASSUME NEW c \in Commandes, c # d
      PROVE  /\ EnLigne(c)' =>
                  net'[c] + Cardinality(EnSuspens(c)') <= Cardinality(Captures(c)')
             /\ ~EnLigne(c)' => net'[c] <= 1
             /\ ~Existe(c)' => net'[c] <= 0
  <2>1. commande'[c] = commande[c] /\ paiement'[c] = paiement[c] /\ net'[c] = net[c]
    BY <1>1, <1>3, <1>6 DEF TypeOK
  <2> QED
    BY <1>5, <2>1 DEF SortiesJustes, EnLigne, Existe
<1>7. /\ EnLigne(d)' => net'[d] + Cardinality(EnSuspens(d)') <= Cardinality(Captures(d)')
      /\ ~EnLigne(d)' => net'[d] <= 1
      /\ ~Existe(d)' => net'[d] <= 0
  <2>1. /\ commande'[d].etat = "EN_ATTENTE" /\ paiement'[d].methode = req[r].methode
        /\ net[d] <= 0 /\ net[d] \in Int
        /\ IF req[r].methode = "EN_LIGNE" THEN net'[d] = net[d] ELSE net'[d] = net[d] + 1
    BY <1>1, <1>2, <1>3 DEF TypeOK, SortiesJustes
  <2>2. EnSuspens(d) = {}
    <3>1. \A x \in Requetes : ~Suspendue(req[x], d)
      BY <1>2 DEF Inductif, RequeteFidele, Suspendue
    <3> QED
      BY <3>1 DEF EnSuspens
  <2>3. Cardinality(EnSuspens(d)') = 0
    BY <1>5, <2>2, FS_EmptySet
  <2>4. Cardinality(Captures(d)') \in Nat
    BY <1>5, FS_CardinalityType
  <2> QED
    BY <2>1, <2>3, <2>4 DEF EnLigne, Existe
<1>8. ASSUME NEW x \in Requetes, req'[x].pc \in {"confirmOnline", "consommer"}
      PROVE  paiement'[req'[x].c].methode = "EN_LIGNE"
  <2>1. req'[x] = req[x] /\ EnLigne(req[x].c)
    BY <1>2, <1>3, <1>8 DEF Repond, Etape, TypeOK, SortiesJustes
  <2>2. Existe(req[x].c) /\ req[x].c \in Commandes
    <3>1. req[x] \in Etapes /\ RequeteFidele(req[x])
      BY DEF Inductif, TypeOK
    <3>2. req[x].c \in Commandes
      BY <1>8, <2>1, <3>1, EtapeSelonPc DEF EtapeSuite, EtapeConsommer
    <3>3. Existe(req[x].c)
      BY <1>8, <2>1, <3>1 DEF RequeteFidele
    <3> QED
      BY <3>2, <3>3
  <2> QED
    BY <1>1, <1>2, <1>3, <2>1, <2>2 DEF EnLigne, TypeOK
<1> QED
  BY <1>5, <1>6, <1>7, <1>8 DEF SortiesJustes, EnLigne

\* PayPal takes the money: the request holds one capture more, or none.
LEMMA SortiesCapture ==
  ASSUME Inductif, Inductif', SortiesJustes, NEW r \in Requetes, CaptureOrder(r)
  PROVE  SortiesJustes'
<1>1. PICK d \in Commandes, o \in Ordres :
        req[r] = [pc |-> "capture", c |-> d, ordre |-> o]
  BY EtapeSelonPc DEF CaptureOrder, Inductif, TypeOK, EtapeCapture
<1>2. PICK e, f : /\ e = [pc |-> "statut", c |-> d, success |-> TRUE]
                  /\ f = [pc |-> "statut", c |-> d, success |-> FALSE]
  OBVIOUS
<1>3. /\ UNCHANGED <<paiement, net>>
      /\ paypal[o].etat # "AUCUN" /\ paypal[o].commande = d
      /\ \/ /\ paypal[o].etat = "APPROVED" /\ Etape(r, e)
            /\ paypal' = [paypal EXCEPT ![o].etat = "COMPLETED"]
         \/ /\ paypal[o].etat = "APPROVED" /\ Etape(r, f)
            /\ paypal' = [paypal EXCEPT ![o].etat = "CREATED"]
         \/ Etape(r, f) /\ UNCHANGED paypal
  BY <1>1, <1>2 DEF CaptureOrder, Inductif, RequeteFidele
<1>4. /\ TypeOK /\ TypeOK' /\ net \in [Commandes -> Int] /\ net' = net
      /\ paypal \in [Ordres -> PaypalT] /\ paypal[o] \in PaypalT
      /\ \A c \in Commandes : paiement'[c].methode = paiement[c].methode
      /\ \A c \in Commandes : net'[c] <= net[c]
  BY <1>3 DEF Inductif, TypeOK
<1>5. /\ \A c \in Commandes : ~Suspendue(f, c) /\ ~Suspendue(req[r], c)
      /\ \A c \in Commandes : Suspendue(e, c) <=> c = d
      /\ f.pc \notin {"confirmOnline", "consommer"}
      /\ e.pc \notin {"confirmOnline", "consommer"}
  BY <1>1, <1>2 DEF Suspendue
<1>6. ASSUME Etape(r, f), \A c \in Commandes : Captures(c)' = Captures(c)
      PROVE  SortiesJustes'
  BY <1>4, <1>5, <1>6, SortiesEtape
<1>7. CASE Etape(r, f) /\ UNCHANGED paypal
  <2>1. \A c \in Commandes : Captures(c)' = Captures(c)
    BY <1>7 DEF Captures
  <2> QED
    BY <1>6, <1>7, <2>1
<1>8. CASE /\ paypal[o].etat = "APPROVED" /\ Etape(r, f)
           /\ paypal' = [paypal EXCEPT ![o].etat = "CREATED"]
  <2>1. PICK x : x = [paypal[o] EXCEPT !.etat = "CREATED"]
    OBVIOUS
  <2>2. paypal' = [paypal EXCEPT ![o] = x] /\ x.etat # "COMPLETED"
    BY <1>4, <1>8, <2>1 DEF PaypalT
  <2>3. \A c \in Commandes : Captures(c)' = Captures(c)
    BY <1>4, <1>8, <2>2, CapturesMemes
  <2> QED
    BY <1>6, <1>8, <2>3
<1>9. CASE /\ paypal[o].etat = "APPROVED" /\ Etape(r, e)
           /\ paypal' = [paypal EXCEPT ![o].etat = "COMPLETED"]
  <2>1. PICK x : x = [paypal[o] EXCEPT !.etat = "COMPLETED"]
    OBVIOUS
  <2>2. /\ paypal' = [paypal EXCEPT ![o] = x] /\ x.etat = "COMPLETED"
        /\ x.commande = d
    BY <1>3, <1>4, <1>9, <2>1 DEF PaypalT
  <2>3. \A p \in Ordres : paypal'[p] = IF p = o THEN x ELSE paypal[p]
    BY <1>4, <2>2
  <2>4. Captures(d)' = Captures(d) \cup {o} /\ o \notin Captures(d)
    BY <1>3, <1>9, <2>2, <2>3 DEF Captures
  <2>5. \A c \in Commandes : c # d => Captures(c)' = Captures(c)
    BY <1>3, <2>2, <2>3 DEF Captures
  <2>6. ASSUME NEW c \in Commandes
        PROVE  /\ IsFiniteSet(Captures(c)') /\ IsFiniteSet(EnSuspens(c)')
               /\ EnLigne(c)' =>
                    net'[c] + Cardinality(EnSuspens(c)') <= Cardinality(Captures(c)')
               /\ ~EnLigne(c)' => net'[c] <= 1
               /\ ~Existe(c)' => net'[c] <= 0
    <3>1. /\ IsFiniteSet(Captures(c)) /\ IsFiniteSet(EnSuspens(c))
          /\ EnLigne(c) =>
               net[c] + Cardinality(EnSuspens(c)) <= Cardinality(Captures(c))
          /\ ~EnLigne(c) => net[c] <= 1
          /\ ~Existe(c) => net[c] <= 0
      BY DEF SortiesJustes
    <3>2. (Existe(c)' <=> Existe(c)) /\ (EnLigne(c)' <=> EnLigne(c))
      BY <1>4, ExisteSelonMethode
    <3>3. net[c] \in Int /\ net'[c] = net[c] /\ Cardinality(Captures(c)) \in Nat
      BY <1>4, <3>1, FS_CardinalityType
    <3>4. /\ IsFiniteSet(EnSuspens(c)') /\ Cardinality(EnSuspens(c)) \in Nat
          /\ Cardinality(EnSuspens(c)') =
               Cardinality(EnSuspens(c)) + IF c = d THEN 1 ELSE 0
      BY <1>4, <1>5, <1>9, <3>1, SuspensEtape
    <3>5. CASE c = d
      <4>1. IsFiniteSet(Captures(c)')
            /\ Cardinality(Captures(c)') = Cardinality(Captures(c)) + 1
        BY <2>4, <3>1, <3>5, FS_AddElement
      <4> QED
        BY <3>1, <3>2, <3>3, <3>4, <3>5, <4>1
    <3>6. CASE c # d
      BY <2>5, <3>1, <3>2, <3>3, <3>4, <3>6
    <3> QED
      BY <3>5, <3>6
  <2>7. ASSUME NEW y \in Requetes, req'[y].pc \in {"confirmOnline", "consommer"}
        PROVE  paiement'[req'[y].c].methode = "EN_LIGNE"
    <3>1. req'[y] = req[y]
      BY <1>2, <1>4, <1>9, <2>7 DEF Etape, TypeOK
    <3> QED
      BY <1>3, <2>7, <3>1 DEF SortiesJustes, EnLigne
  <2> QED
    BY <2>6, <2>7 DEF SortiesJustes, EnLigne
<1> QED
  BY <1>3, <1>7, <1>8, <1>9

\* The quantities of an online order leave the stock, or the transaction is
\* rolled back: the request holds its capture no more.
LEMMA SortiesConsommer ==
  ASSUME Inductif, Inductif', SortiesJustes, NEW r \in Requetes,
         ConfirmOnlinePaymentTransaction(r)
  PROVE  SortiesJustes'
<1>1. PICK d : d = req[r].c
  OBVIOUS
<1>2. /\ req[r].pc = "consommer" /\ UNCHANGED <<commande, paiement, paypal>>
      /\ \/ net' = [net EXCEPT ![d] = @ + 1] /\ Etape(r, [pc |-> "generate", c |-> d])
         \/ UNCHANGED net /\ Repond(r)
  BY <1>1 DEF ConfirmOnlinePaymentTransaction, Consommation
<1>3. /\ TypeOK /\ TypeOK' /\ net \in [Commandes -> Int] /\ d \in Commandes
      /\ EnLigne(d) /\ \A c \in Commandes : Suspendue(req[r], c) <=> c = d
  <2>1. req[r] \in Etapes
    BY DEF Inductif, TypeOK
  <2>2. d \in Commandes
    BY <1>1, <1>2, <2>1, EtapeSelonPc DEF EtapeConsommer
  <2> QED
    BY <1>1, <1>2, <2>2 DEF Inductif, TypeOK, SortiesJustes, Suspendue
<1>4. CASE UNCHANGED net /\ Repond(r)
  BY <1>2, <1>4, SortiesCalmes DEF Repond
<1>5. CASE net' = [net EXCEPT ![d] = @ + 1] /\ Etape(r, [pc |-> "generate", c |-> d])
  <2>1. PICK e : e = [pc |-> "generate", c |-> d]
    OBVIOUS
  <2>2. Etape(r, e) /\ \A c \in Commandes : ~Suspendue(e, c)
    BY <1>5, <2>1 DEF Suspendue
  <2>3. ASSUME NEW c \in Commandes
        PROVE  /\ IsFiniteSet(Captures(c)') /\ IsFiniteSet(EnSuspens(c)')
               /\ EnLigne(c)' =>
                    net'[c] + Cardinality(EnSuspens(c)') <= Cardinality(Captures(c)')
               /\ ~EnLigne(c)' => net'[c] <= 1
               /\ ~Existe(c)' => net'[c] <= 0
    <3>1. /\ IsFiniteSet(Captures(c)) /\ IsFiniteSet(EnSuspens(c))
          /\ EnLigne(c) =>
               net[c] + Cardinality(EnSuspens(c)) <= Cardinality(Captures(c))
          /\ ~EnLigne(c) => net[c] <= 1
          /\ ~Existe(c) => net[c] <= 0
      BY DEF SortiesJustes
    <3>2. (Existe(c)' <=> Existe(c)) /\ (EnLigne(c)' <=> EnLigne(c))
      BY <1>2, ExisteSelonMethode
    <3>3. Captures(c)' = Captures(c) /\ Cardinality(Captures(c)) \in Nat
      BY <1>2, <3>1, FS_CardinalityType DEF Captures
    <3>4. /\ IsFiniteSet(EnSuspens(c)') /\ Cardinality(EnSuspens(c)) \in Nat
          /\ Cardinality(EnSuspens(c)') =
               Cardinality(EnSuspens(c)) - IF c = d THEN 1 ELSE 0
      BY <1>3, <2>2, <3>1, SuspensEtape
    <3>5. net[c] \in Int /\ net'[c] = net[c] + IF c = d THEN 1 ELSE 0
      BY <1>3, <1>5
    <3>6. d = c => EnLigne(c) /\ Existe(c)
      BY <1>3 DEF Inductif, TablesFideles, EnLigne
    <3> QED
      BY <3>1, <3>2, <3>3, <3>4, <3>5, <3>6
  <2>4. ASSUME NEW y \in Requetes, req'[y].pc \in {"confirmOnline", "consommer"}
        PROVE  paiement'[req'[y].c].methode = "EN_LIGNE"
    <3>1. req'[y] = req[y]
      BY <1>3, <2>1, <2>2, <2>4 DEF Etape, TypeOK
    <3> QED
      BY <1>2, <2>4, <3>1 DEF SortiesJustes, EnLigne
  <2> QED
    BY <2>3, <2>4 DEF SortiesJustes, EnLigne
<1> QED
  BY <1>2, <1>4, <1>5

\* The services of the orders.
LEMMA SortiesOrders ==
  ASSUME Inductif, Inductif', SortiesJustes, NEW r \in Requetes, OrdersNext(r)
  PROVE  SortiesJustes'
<1> USE DEF Repond
<1>1. ASSUME NEW u \in Clients, NEW m \in Methodes, NEW a \in Adresses,
             Create(r, u, m, a)
      PROVE  SortiesJustes'
  <2>1. PICK e : e = [pc |-> "create", client |-> u, methode |-> m, adresse |-> a,
                      lignes |-> panier[u]]
    OBVIOUS
  <2>2. Etape(r, e) /\ e.pc = "create" /\ UNCHANGED <<paiement, paypal, net>>
    BY <1>1, <2>1 DEF Create
  <2> QED
    BY <2>2, SortiesCalmes
<1>2. CASE CreateTransaction(r)
  BY <1>2, SortiesCreate
<1>3. ASSUME NEW c \in Commandes, NEW a \in Adresses, Update(r, c, a)
      PROVE  SortiesJustes'
  <2>1. PICK e : e = [pc |-> "update", c |-> c, adresse |-> a]
    OBVIOUS
  <2>2. Etape(r, e) /\ e.pc = "update" /\ UNCHANGED <<paiement, paypal, net>>
    BY <1>3, <2>1 DEF Update
  <2> QED
    BY <2>2, SortiesCalmes
<1>4. CASE UpdateEcrire(r) \/ AssignLivreurEcrire(r) \/ UpdateStatusEcrire(r)
  BY <1>4, SortiesCalmes
  DEF UpdateEcrire, AssignLivreurEcrire, UpdateStatusEcrire
<1>5. ASSUME NEW c \in Commandes, Cancel(r, c)
      PROVE  SortiesJustes'
  <2>1. PICK e : e = [pc |-> "cancel", c |-> c, jamaisConsommee |-> EnLigneNonPaye(c)]
    OBVIOUS
  <2>2. Etape(r, e) /\ e.pc = "cancel" /\ UNCHANGED <<paiement, paypal, net>>
    BY <1>5, <2>1 DEF Cancel, CancelLire
  <2> QED
    BY <2>2, SortiesCalmes
<1>6. CASE CancelTransaction(r)
  <2>1. /\ Repond(r) /\ UNCHANGED <<paiement, paypal>>
        /\ UNCHANGED net \/ net' = [net EXCEPT ![req[r].c] = @ - 1]
    BY <1>6 DEF CancelTransaction
  <2>2. \A c \in Commandes : net'[c] <= net[c]
    BY <2>1 DEF Inductif, TypeOK
  <2>3. \A c \in Commandes : Captures(c)' = Captures(c)
    BY <2>1 DEF Captures
  <2> QED
    BY <2>1, <2>2, <2>3, SortiesRepos
<1>7. ASSUME NEW c \in Commandes, NEW l \in Livreurs, AssignLivreur(r, c, l)
      PROVE  SortiesJustes'
  <2>1. PICK e : e = [pc |-> "assignLivreur", c |-> c, livreur |-> l]
    OBVIOUS
  <2>2. Etape(r, e) /\ e.pc = "assignLivreur" /\ UNCHANGED <<paiement, paypal, net>>
    BY <1>7, <2>1 DEF AssignLivreur
  <2> QED
    BY <2>2, SortiesCalmes
<1>8. ASSUME NEW u, NEW c \in Commandes, NEW s \in Etats, UpdateStatus(r, u, c, s)
      PROVE  SortiesJustes'
  <2>1. PICK e : e = [pc |-> "updateStatus", c |-> c, etat |-> s]
    OBVIOUS
  <2>2. Etape(r, e) /\ e.pc = "updateStatus" /\ UNCHANGED <<paiement, paypal, net>>
    BY <1>8, <2>1 DEF UpdateStatus
  <2> QED
    BY <2>2, SortiesCalmes
<1>9. CASE ConfirmOnlinePaymentSuccess(r)
  <2>1. PICK e : e = [pc |-> "consommer", c |-> req[r].c,
                      vu |-> panier[commande[req[r].c].client]]
    OBVIOUS
  <2>2. /\ req[r].pc = "confirmOnline" /\ Etape(r, e)
        /\ UNCHANGED <<paiement, paypal, net>>
    BY <1>9, <2>1 DEF ConfirmOnlinePaymentSuccess
  <2>3. req[r].c \in Commandes /\ EnLigne(req[r].c)
    <3>1. req[r] \in Etapes
      BY DEF Inductif, TypeOK
    <3> QED
      BY <2>2, <3>1, EtapeSelonPc DEF EtapeSuite, SortiesJustes
  <2>4. /\ \A c \in Commandes : Suspendue(e, c) => Suspendue(req[r], c)
        /\ e.pc = "consommer" /\ e.c = req[r].c
    BY <2>1, <2>2 DEF Suspendue
  <2>5. /\ \A c \in Commandes : paiement'[c].methode = paiement[c].methode
        /\ \A c \in Commandes : Captures(c)' = Captures(c)
        /\ \A c \in Commandes : net'[c] <= net[c]
    BY <2>2 DEF Captures, Inductif, TypeOK
  <2> QED
    BY <2>2, <2>3, <2>4, <2>5, SortiesEtape
<1>10. CASE ConfirmOnlinePaymentTransaction(r)
  BY <1>10, SortiesConsommer
<1> QED
  BY <1>1, <1>2, <1>3, <1>4, <1>5, <1>6, <1>7, <1>8, <1>9, <1>10 DEF OrdersNext

\* The service of the invoices.
LEMMA SortiesInvoices ==
  ASSUME Inductif, Inductif', SortiesJustes, NEW r \in Requetes, InvoicesNext(r)
  PROVE  SortiesJustes'
<1>1. /\ UNCHANGED <<paiement, paypal, net>>
      /\ \/ Etape(r, [pc |-> "sendInvoice", c |-> req[r].c])
         \/ Etape(r, [pc |-> "facture", c |-> req[r].c, numero |-> ProchainNumero])
         \/ Repond(r)
  BY DEF InvoicesNext, GenerateForCommande, FactureCreate, SendInvoiceByEmail
<1>2. CASE Etape(r, [pc |-> "sendInvoice", c |-> req[r].c])
  BY <1>1, <1>2, SortiesCalmes
<1>3. CASE Etape(r, [pc |-> "facture", c |-> req[r].c, numero |-> ProchainNumero])
  BY <1>1, <1>3, SortiesCalmes
<1>4. CASE Repond(r)
  BY <1>1, <1>4, SortiesCalmes DEF Repond
<1> QED
  BY <1>1, <1>2, <1>3, <1>4

\* The service of the payments.
LEMMA SortiesPayments ==
  ASSUME Inductif, Inductif', SortiesJustes, NEW r \in Requetes, PaymentsNext(r)
  PROVE  SortiesJustes'
<1>a. TypeOK /\ net \in [Commandes -> Int]
  BY DEF Inductif, TypeOK
<1>1. ASSUME NEW d \in Commandes, NEW o \in Ordres, InitiateOnlinePayment(r, d, o)
      PROVE  SortiesJustes'
  <2>1. PICK e, x : /\ e = [pc |-> "initiate", c |-> d, ordre |-> o]
                    /\ x = [etat |-> "CREATED", commande |-> d]
    OBVIOUS
  <2>2. /\ Etape(r, e) /\ UNCHANGED <<paiement, net>> /\ e.pc = "initiate"
        /\ paypal[o].etat = "AUCUN" /\ paypal' = [paypal EXCEPT ![o] = x]
        /\ x.etat = "CREATED"
    BY <1>1, <2>1 DEF InitiateOnlinePayment
  <2>3. \A c \in Commandes : Captures(c)' = Captures(c)
    BY <1>a, <2>2, CapturesMemes
  <2>4. /\ \A c \in Commandes : paiement'[c].methode = paiement[c].methode
        /\ \A c \in Commandes : net'[c] <= net[c]
    BY <1>a, <2>2
  <2> QED
    BY <2>2, <2>3, <2>4, SortiesRepos
<1>2. CASE InitiateEcrire(r)
  <2>1. /\ Repond(r) /\ UNCHANGED <<paypal, net>>
        /\ paiement' = [paiement EXCEPT ![req[r].c].transaction = req[r].ordre]
    BY <1>2 DEF InitiateEcrire
  <2>2. \A c \in Commandes : paiement'[c].methode = paiement[c].methode
    BY <1>a, <2>1 DEF TypeOK, PaiementT
  <2>3. \A c \in Commandes : Captures(c)' = Captures(c)
    BY <2>1 DEF Captures
  <2>4. \A c \in Commandes : net'[c] <= net[c]
    BY <1>a, <2>1
  <2> QED
    BY <2>1, <2>2, <2>3, <2>4, SortiesRepos DEF Repond
<1>3. ASSUME NEW d \in Commandes, CaptureOnlinePayment(r, d)
      PROVE  SortiesJustes'
  <2>1. PICK e : e = [pc |-> "capture", c |-> d, ordre |-> paiement[d].transaction]
    OBVIOUS
  <2>2. Etape(r, e) /\ e.pc = "capture" /\ UNCHANGED <<paiement, paypal, net>>
    BY <1>3, <2>1 DEF CaptureOnlinePayment
  <2> QED
    BY <2>2, SortiesCalmes
<1>4. CASE CaptureOrder(r)
  BY <1>4, SortiesCapture
<1>5. CASE StatutEcrire(r)
  <2>1. PICK d \in Commandes, s \in BOOLEAN :
          req[r] = [pc |-> "statut", c |-> d, success |-> s]
    BY <1>5, EtapeSelonPc DEF StatutEcrire, Inductif, TypeOK, EtapeIssue
  <2>2. PICK e : e = [pc |-> "notifier", c |-> d, success |-> s]
    OBVIOUS
  <2>3. /\ Etape(r, e) /\ UNCHANGED <<paypal, net>>
        /\ paiement' = [paiement EXCEPT ![d].statut = StatutDe(s)]
    BY <1>5, <2>1, <2>2 DEF StatutEcrire
  <2>4. \A c \in Commandes : paiement'[c].methode = paiement[c].methode
    BY <1>a, <2>3 DEF TypeOK, PaiementT
  <2>5. /\ \A c \in Commandes : Suspendue(e, c) => Suspendue(req[r], c)
        /\ e.pc \notin {"confirmOnline", "consommer"}
    BY <2>1, <2>2 DEF Suspendue
  <2>6. \A c \in Commandes : Captures(c)' = Captures(c)
    BY <2>3 DEF Captures
  <2>7. \A c \in Commandes : net'[c] <= net[c]
    BY <1>a, <2>3
  <2> QED
    BY <2>3, <2>4, <2>5, <2>6, <2>7, SortiesEtape
<1>6. CASE Notifier(r)
  <2>1. PICK d \in Commandes, s \in BOOLEAN :
          req[r] = [pc |-> "notifier", c |-> d, success |-> s]
    BY <1>6, EtapeSelonPc DEF Notifier, Inductif, TypeOK, EtapeIssue
  <2>2. PICK e : e = [pc |-> SuiteDe(d, s), c |-> d]
    OBVIOUS
  <2>3. Etape(r, e) /\ UNCHANGED <<paiement, paypal, net>>
    BY <1>6, <2>1, <2>2 DEF Notifier
  <2>4. /\ \A c \in Commandes : Suspendue(e, c) => Suspendue(req[r], c)
        /\ e.pc \in {"confirmOnline", "consommer"} => EnLigne(e.c) /\ e.c \in Commandes
    BY <2>1, <2>2 DEF Suspendue, SuiteDe
  <2>5. /\ \A c \in Commandes : paiement'[c].methode = paiement[c].methode
        /\ \A c \in Commandes : Captures(c)' = Captures(c)
        /\ \A c \in Commandes : net'[c] <= net[c]
    BY <1>a, <2>3 DEF Captures
  <2> QED
    BY <2>3, <2>4, <2>5, SortiesEtape
<1>7. CASE CancelApresEchec(r)
  <2>1. PICK e : e = [pc |-> "cancel", c |-> req[r].c,
                      jamaisConsommee |-> EnLigneNonPaye(req[r].c)]
    OBVIOUS
  <2>2. /\ Etape(r, e) \/ Repond(r)
        /\ e.pc = "cancel" /\ UNCHANGED <<paiement, paypal, net>>
    BY <1>7, <2>1 DEF CancelApresEchec, CancelLire
  <2>3. CASE Etape(r, e)
    BY <2>2, <2>3, SortiesCalmes
  <2>4. CASE Repond(r)
    BY <2>2, <2>4, SortiesCalmes DEF Repond
  <2> QED
    BY <2>2, <2>3, <2>4
<1>8. ASSUME NEW u, NEW d \in Commandes, ConfirmCashPayment(r, u, d)
      PROVE  SortiesJustes'
  <2>1. PICK e : e = [pc |-> "statut", c |-> d, success |-> TRUE]
    OBVIOUS
  <2>2. /\ Etape(r, e) /\ ALaLivraison(d) /\ UNCHANGED <<paiement, paypal, net>>
    BY <1>8, <2>1 DEF ConfirmCashPayment
  <2>3. /\ \A c \in Commandes : Suspendue(e, c) => ~EnLigne(c)
        /\ e.pc \notin {"confirmOnline", "consommer"}
    BY <2>1, <2>2 DEF Suspendue, EnLigne, ALaLivraison
  <2>4. /\ \A c \in Commandes : paiement'[c].methode = paiement[c].methode
        /\ \A c \in Commandes : Captures(c)' = Captures(c)
        /\ \A c \in Commandes : net'[c] <= net[c]
    BY <1>a, <2>2 DEF Captures
  <2> QED
    BY <2>2, <2>3, <2>4, SortiesEtape
<1> QED
  BY <1>1, <1>2, <1>3, <1>4, <1>5, <1>6, <1>7, <1>8 DEF PaymentsNext

\* Every step.
LEMMA SortiesPas ==
  ASSUME Inductif, SortiesJustes, [Next]_vars
  PROVE  SortiesJustes'
<1>a. Inductif'
  BY InductifPas
<1>1. ASSUME NEW r \in Requetes, Panne(r)
      PROVE  SortiesJustes'
  BY <1>a, <1>1, SortiesCalmes DEF Panne, Repond
<1>2. ASSUME NEW r \in Requetes, ClientNext(r) \/ AdminNext(r)
      PROVE  SortiesJustes'
  <2>1. UNCHANGED <<req, net, paiement, paypal>>
    BY <1>2 DEF ClientNext, ModifierPanier, RetirerDuPanier, AdminNext, ReassortProduit
  <2> QED
    BY <1>a, <2>1, SortiesMemes DEF Captures
<1>3. ASSUME NEW o \in Ordres, ClientApprouve(o)
      PROVE  SortiesJustes'
  <2>1. PICK x : x = [paypal[o] EXCEPT !.etat = "APPROVED"]
    OBVIOUS
  <2>2. /\ UNCHANGED <<req, net, paiement>> /\ paypal[o].etat = "CREATED"
        /\ paypal' = [paypal EXCEPT ![o] = x] /\ x.etat = "APPROVED"
    BY <1>3, <2>1 DEF ClientApprouve, Inductif, TypeOK, PaypalT
  <2>3. \A c \in Commandes : Captures(c)' = Captures(c)
    BY <2>2, CapturesMemes DEF Inductif
  <2> QED
    BY <1>a, <2>2, <2>3, SortiesMemes
<1>4. CASE UNCHANGED vars
  BY <1>a, <1>4, SortiesMemes DEF vars, Captures
<1> QED
  BY <1>a, <1>1, <1>2, <1>3, <1>4, SortiesOrders, SortiesInvoices, SortiesPayments
  DEF Next

LEMMA SortiesInit ==
  ASSUME Init
  PROVE  SortiesJustes
<1>1. ASSUME NEW c \in Commandes
      PROVE  /\ IsFiniteSet(Captures(c)) /\ IsFiniteSet(EnSuspens(c))
             /\ ~EnLigne(c) /\ net[c] = 0
  <2>1. Captures(c) = {} /\ EnSuspens(c) = {}
    BY DEF Init, Captures, EnSuspens, Suspendue
  <2> QED
    BY <2>1, FS_EmptySet DEF Init, EnLigne, NonPaiement
<1>2. \A r \in Requetes : req[r].pc = "libre"
  BY DEF Init
<1> QED
  BY <1>1, <1>2 DEF SortiesJustes

\* However many requests run and die, the quantities of an order leave the stock
\* at most once for each capture PayPal completed, and once for a cash order.
THEOREM UneSortieParCaptureVraie == Spec => []UneSortieParCapture
<1>1. Init => Inductif /\ SortiesJustes
  BY InductifInit, SortiesInit
<1>2. Inductif /\ SortiesJustes /\ [Next]_vars => (Inductif /\ SortiesJustes)'
  BY InductifPas, SortiesPas
<1>3. Inductif /\ SortiesJustes => UneSortieParCapture
  <2> SUFFICES ASSUME Inductif, SortiesJustes, NEW c \in Commandes
               PROVE  net[c] <= IF EnLigne(c) THEN Cardinality(Captures(c)) ELSE 1
    BY DEF UneSortieParCapture
  <2>1. /\ Cardinality(EnSuspens(c)) \in Nat /\ Cardinality(Captures(c)) \in Nat
        /\ net[c] \in Int
    BY FS_CardinalityType DEF SortiesJustes, Inductif, TypeOK
  <2> QED
    BY <2>1 DEF SortiesJustes
<1> QED
  BY <1>1, <1>2, <1>3, PTL DEF Spec

----------------------------------------------------------------------------
(* One request at a time and no failure.                                   *)

\* A request is at one of the awaits of P for order c.
Sur(c, P) == \E r \in Requetes : req[r].pc \in P /\ req[r].c = c

\* What a confirmed payment still owes, await after await.
ASortir == {"notifier", "confirmOnline", "consommer"}
AFacturer == ASortir \cup {"generate", "facture"}
AEnvoyer == AFacturer \cup {"sendInvoice"}

\* PayPal has the money exactly when the table says so or is about to.
DebitSeul(c) ==
  /\ \A o, p \in Captures(c) : o = p
  /\ EnLigne(c) =>
       (Captures(c) # {} <=>
          \/ Paye(c)
          \/ \E r \in Requetes :
               req[r].pc = "statut" /\ req[r].c = c /\ req[r].success)
  /\ Paye(c) => Existe(c)

\* Every order but the online one that is not paid, or whose payment is being
\* confirmed, was taken out of the stock; a cancellation may have put it back.
SortieSeule(c) ==
  LET due == IF EnLigne(c) THEN Paye(c) /\ ~Sur(c, ASortir) ELSE Existe(c)
  IN  /\ net[c] \in {0, 1}
      /\ ~due => net[c] = 0
      /\ due /\ commande[c].etat # "ANNULEE" => net[c] = 1

\* Each document of a paid order exists once its await is behind.
DocumentsSeuls(c) ==
  /\ courriels[c].succes = IF Paye(c) /\ ~Sur(c, {"notifier"}) THEN 1 ELSE 0
  /\ courriels[c].facture = IF Paye(c) /\ ~Sur(c, AEnvoyer) THEN 1 ELSE 0
  /\ facture[c] # 0 <=> Paye(c) /\ ~Sur(c, AFacturer)

\* What the request read is what it would read again.
RequeteSeule(q) ==
  LET c == q.c IN
  /\ q.pc \in {"capture", "echec"} => EnLigneNonPaye(c)
  /\ q.pc = "statut" => ~Paye(c)
  /\ q.pc = "notifier" => (Paye(c) <=> q.success)
  /\ q.pc \in {"confirmOnline", "consommer"} => EnLigne(c)
  /\ q.pc \in AEnvoyer \ {"notifier"} => Paye(c)
  /\ q.pc = "consommer" => q.vu = panier[commande[c].client]
  /\ q.pc = "facture" => q.numero = ProchainNumero
  /\ q.pc = "cancel" => /\ commande[c].etat = "EN_ATTENTE"
                        /\ q.jamaisConsommee <=> EnLigneNonPaye(c)
  /\ q.pc = "updateStatus" =>
       (commande[c].etat = "ANNULEE" => q.etat = "ANNULEE")

Seul ==
  /\ \A c \in Commandes : DebitSeul(c) /\ SortieSeule(c) /\ DocumentsSeuls(c)
  /\ \A r \in Requetes : RequeteSeule(req[r])

\* The request went on to e.
LEMMA SeulEtape ==
  ASSUME TypeOK, NEW r, Requetes = {r}, NEW e, Etape(r, e), RequeteSeule(e)',
         \A c \in Commandes : DebitSeul(c)' /\ SortieSeule(c)' /\ DocumentsSeuls(c)'
  PROVE  Seul'
<1>1. ASSUME NEW x \in Requetes
      PROVE  RequeteSeule(req[x])'
  <2>1. req'[x] = e
    BY DEF TypeOK, Etape
  <2> QED
    BY <2>1 DEF RequeteSeule
<1> QED
  BY <1>1 DEF Seul

\* A step that neither starts nor ends the confirmation of a payment: the money,
\* the stock and the documents stay, and a cancelled order stays cancelled.
LEMMA SeulCalme ==
  ASSUME TypeOK, Seul, NEW r, Requetes = {r}, NEW e, Etape(r, e), RequeteSeule(e)',
         req[r].pc \notin AEnvoyer \cup {"statut"}, e.pc \notin AEnvoyer \cup {"statut"},
         \A c \in Commandes : /\ paiement'[c].methode = paiement[c].methode
                              /\ paiement'[c].statut = paiement[c].statut,
         \A c \in Commandes : Captures(c)' = Captures(c),
         \A c \in Commandes : Existe(c)' <=> Existe(c),
         \A c \in Commandes :
           commande[c].etat = "ANNULEE" => commande'[c].etat = "ANNULEE",
         UNCHANGED <<net, courriels, facture>>
  PROVE  Seul'
<1>1. /\ req'[r] = e
      /\ \A c \in Commandes : DebitSeul(c) /\ SortieSeule(c) /\ DocumentsSeuls(c)
  BY DEF TypeOK, Etape, Seul
<1>2. ASSUME NEW c \in Commandes
      PROVE  /\ ~Sur(c, ASortir) /\ ~Sur(c, AFacturer) /\ ~Sur(c, AEnvoyer)
             /\ ~Sur(c, {"notifier"})
             /\ ~Sur(c, ASortir)' /\ ~Sur(c, AFacturer)' /\ ~Sur(c, AEnvoyer)'
             /\ ~Sur(c, {"notifier"})'
  BY <1>1 DEF Sur, ASortir, AFacturer, AEnvoyer
<1>3. ASSUME NEW c \in Commandes
      PROVE  DebitSeul(c)'
  <2>1. /\ req[r].pc # "statut" /\ req'[r].pc # "statut"
        /\ Captures(c)' = Captures(c) /\ (EnLigne(c)' <=> EnLigne(c))
        /\ Paye(c)' <=> Paye(c)
    BY <1>1 DEF EnLigne, Paye
  <2> QED
    BY <1>1, <2>1 DEF DebitSeul
<1>4. ASSUME NEW c \in Commandes
      PROVE  SortieSeule(c)'
  BY <1>1, <1>2 DEF SortieSeule, EnLigne, Paye
<1>5. ASSUME NEW c \in Commandes
      PROVE  DocumentsSeuls(c)'
  BY <1>1, <1>2 DEF DocumentsSeuls, Paye
<1> QED
  BY <1>3, <1>4, <1>5, SeulEtape

\* A step of no request.
LEMMA SeulMemes ==
  ASSUME TypeOK, Seul, NEW r, Requetes = {r},
         UNCHANGED <<commande, paiement, facture, req, net, courriels>>,
         UNCHANGED panier \/ req[r].pc = "libre",
         \A c \in Commandes : Captures(c)' = Captures(c)
  PROVE  Seul'
<1>1. ASSUME NEW c \in Commandes
      PROVE  DebitSeul(c)' /\ SortieSeule(c)' /\ DocumentsSeuls(c)'
  <2>1. DebitSeul(c) /\ SortieSeule(c) /\ DocumentsSeuls(c)
    BY DEF Seul
  <2>2. DebitSeul(c)'
    BY <2>1 DEF DebitSeul, EnLigne, Paye, Existe
  <2>3. SortieSeule(c)'
    BY <2>1 DEF SortieSeule, Sur, EnLigne, Paye, Existe
  <2>4. DocumentsSeuls(c)'
    BY <2>1 DEF DocumentsSeuls, Sur, Paye
  <2> QED
    BY <2>2, <2>3, <2>4
<1>2. ASSUME NEW x \in Requetes
      PROVE  RequeteSeule(req[x])'
  <2>1. RequeteSeule(req[r]) /\ x = r
    BY DEF Seul
  <2>2. ProchainNumero' = ProchainNumero
    BY DEF ProchainNumero, Facturees
  <2>3. CASE req[r].pc = "libre"
    BY <2>1, <2>3 DEF RequeteSeule, AEnvoyer, AFacturer, ASortir
  <2>4. CASE UNCHANGED panier
    BY <2>1, <2>2, <2>4 DEF RequeteSeule, EnLigneNonPaye, EnLigne, Paye
  <2> QED
    BY <2>3, <2>4
<1> QED
  BY <1>1, <1>2 DEF Seul

\* What the only request and an order are like.
LEMMA SeulFaits ==
  ASSUME Inductif, Seul, NEW r, Requetes = {r}
  PROVE  /\ TypeOK /\ TablesFideles /\ FacturesSequentielles
         /\ req[r] \in Etapes /\ RequeteSeule(req[r]) /\ RequeteFidele(req[r])
         /\ \A c \in Commandes : DebitSeul(c)
         /\ \A c \in Commandes : SortieSeule(c)
         /\ \A c \in Commandes : DocumentsSeuls(c)
BY DEF Inductif, TypeOK, Seul

\* Where the only request is, in terms of its state.
LEMMA SurUn ==
  ASSUME NEW r, Requetes = {r}, NEW q, req[r] = q, NEW e, req'[r] = e, NEW c
  PROVE  /\ Sur(c, ASortir) <=>
              q.pc \in {"notifier", "confirmOnline", "consommer"} /\ q.c = c
         /\ Sur(c, AFacturer) <=>
              /\ q.pc \in {"notifier", "confirmOnline", "consommer", "generate",
                           "facture"}
              /\ q.c = c
         /\ Sur(c, AEnvoyer) <=>
              /\ q.pc \in {"notifier", "confirmOnline", "consommer", "generate",
                           "facture", "sendInvoice"}
              /\ q.c = c
         /\ Sur(c, {"notifier"}) <=> q.pc = "notifier" /\ q.c = c
         /\ Sur(c, ASortir)' <=>
              e.pc \in {"notifier", "confirmOnline", "consommer"} /\ e.c = c
         /\ Sur(c, AFacturer)' <=>
              /\ e.pc \in {"notifier", "confirmOnline", "consommer", "generate",
                           "facture"}
              /\ e.c = c
         /\ Sur(c, AEnvoyer)' <=>
              /\ e.pc \in {"notifier", "confirmOnline", "consommer", "generate",
                           "facture", "sendInvoice"}
              /\ e.c = c
         /\ Sur(c, {"notifier"})' <=> e.pc = "notifier" /\ e.c = c
BY DEF Sur, ASortir, AFacturer, AEnvoyer

\* An order is created.
LEMMA SeulCreate ==
  ASSUME Inductif, Seul, NEW r, Requetes = {r}, CreateTransaction(r)
  PROVE  Seul'
<1>0. r \in Requetes
  OBVIOUS
<1>1. PICK d \in Commandes : CreateTransaction(r)!2!(d)
  BY DEF CreateTransaction
<1>2. PICK q, e : q = req[r] /\ e = [pc |-> "libre"]
  OBVIOUS
<1>3. /\ q.pc = "create" /\ Etape(r, e) /\ UNCHANGED <<paypal, courriels, facture>>
      /\ ~Existe(d) /\ q \in EtapeCreate /\ req'[r] = e
  BY <1>0, <1>1, <1>2, EtapeSelonPc DEF CreateTransaction, Inductif, TypeOK, Repond, Etape
<1>4. /\ TypeOK /\ TablesFideles /\ net \in [Commandes -> Int]
      /\ commande \in [Commandes -> CommandeT] /\ paiement \in [Commandes -> PaiementT]
      /\ DonneesAssumption
  BY DonneesAssumption DEF Inductif, TypeOK
<1>5. /\ \A c \in Commandes : c # d => /\ commande'[c] = commande[c]
                                      /\ paiement'[c] = paiement[c]
                                      /\ net'[c] = net[c]
      /\ commande'[d].etat = "EN_ATTENTE" /\ paiement'[d].methode = q.methode
      /\ paiement'[d].statut = "PENDING"
      /\ IF q.methode = "EN_LIGNE" THEN net'[d] = net[d] ELSE net'[d] = net[d] + 1
  BY <1>1, <1>2, <1>4
<1>6. ASSUME NEW c \in Commandes
      PROVE  DebitSeul(c)' /\ SortieSeule(c)' /\ DocumentsSeuls(c)'
  <2>1. DebitSeul(c) /\ SortieSeule(c) /\ DocumentsSeuls(c)
    BY DEF Seul
  <2>2. PICK K : K = Captures(c)
    OBVIOUS
  <2>3. /\ K = Captures(c)' /\ req[r].pc # "statut" /\ req'[r].pc # "statut"
        /\ \A x \in Requetes : req[x].pc # "statut" /\ req'[x].pc # "statut"
    BY <1>0, <1>2, <1>3, <2>2 DEF Captures
  <2>4. /\ ~Sur(c, ASortir) /\ ~Sur(c, AFacturer) /\ ~Sur(c, AEnvoyer)
        /\ ~Sur(c, {"notifier"})
        /\ ~Sur(c, ASortir)' /\ ~Sur(c, AFacturer)' /\ ~Sur(c, AEnvoyer)'
        /\ ~Sur(c, {"notifier"})'
    BY <1>2, <1>3, SurUn
  <2>5. CASE c # d
    <3>1. (EnLigne(c)' <=> EnLigne(c)) /\ (Paye(c)' <=> Paye(c)) /\ (Existe(c)' <=> Existe(c))
          /\ commande'[c].etat = commande[c].etat /\ net'[c] = net[c]
      BY <1>5, <2>5 DEF EnLigne, Paye, Existe
    <3>2. DebitSeul(c)'
      BY <2>1, <2>2, <2>3, <3>1 DEF DebitSeul
    <3>3. SortieSeule(c)'
      BY <2>1, <2>4, <3>1 DEF SortieSeule
    <3>4. DocumentsSeuls(c)'
      BY <1>3, <2>1, <2>4, <3>1 DEF DocumentsSeuls
    <3> QED
      BY <3>2, <3>3, <3>4
  <2>6. CASE c = d
    <3>1. /\ ~EnLigne(d) /\ ~Paye(d) /\ net[d] = 0 /\ K = {}
      <4>1. ~EnLigne(d) /\ ~Paye(d)
        BY <1>3, <1>4, <2>1, <2>6 DEF TablesFideles, EnLigne, DebitSeul
      <4>2. net[d] = 0
        BY <1>3, <2>1, <2>6, <4>1 DEF SortieSeule
      <4>3. K = {}
        BY <1>4, <2>2, <2>6, <4>1 DEF TablesFideles, Captures
      <4> QED
        BY <4>1, <4>2, <4>3
    <3>2. /\ ~Paye(d)' /\ Existe(d)' /\ commande'[d].etat # "ANNULEE"
          /\ IF EnLigne(d)' THEN net'[d] = 0 ELSE net'[d] = 1
      BY <1>4, <1>5, <3>1 DEF Paye, Existe, EnLigne
    <3>3. DebitSeul(c)'
      BY <2>3, <2>6, <3>1, <3>2 DEF DebitSeul
    <3>4. SortieSeule(c)'
      BY <2>4, <2>6, <3>1, <3>2 DEF SortieSeule
    <3>5. DocumentsSeuls(c)'
      BY <1>3, <2>1, <2>4, <2>6, <3>1, <3>2 DEF DocumentsSeuls
    <3> QED
      BY <3>3, <3>4, <3>5
  <2> QED
    BY <2>5, <2>6
<1>7. RequeteSeule(e)'
  BY <1>2 DEF RequeteSeule, AEnvoyer, AFacturer, ASortir
<1> QED
  BY <1>3, <1>4, <1>6, <1>7, SeulEtape

\* An order is cancelled.
LEMMA SeulCancel ==
  ASSUME Inductif, Seul, NEW r, Requetes = {r}, CancelTransaction(r)
  PROVE  Seul'
<1>0. r \in Requetes
  OBVIOUS
<1>1. PICK q, e, d : q = req[r] /\ e = [pc |-> "libre"] /\ d = q.c
  OBVIOUS
<1>2. /\ q.pc = "cancel" /\ Etape(r, e)
      /\ UNCHANGED <<paiement, paypal, courriels, facture>>
      /\ IF q.jamaisConsommee THEN UNCHANGED net ELSE net' = [net EXCEPT ![d] = @ - 1]
      /\ commande' = [commande EXCEPT ![d].etat = "ANNULEE"]
  BY <1>1 DEF CancelTransaction, Repond
<1>3. /\ TypeOK /\ net \in [Commandes -> Int] /\ commande \in [Commandes -> CommandeT]
      /\ d \in Commandes /\ req'[r] = e /\ Existe(d)
      /\ commande[d].etat = "EN_ATTENTE" /\ (q.jamaisConsommee <=> EnLigneNonPaye(d))
  <2>1. q \in Etapes /\ RequeteSeule(q) /\ RequeteFidele(q)
    BY <1>1, SeulFaits
  <2>2. d \in Commandes
    BY <1>1, <1>2, <2>1, EtapeSelonPc DEF EtapeCancel
  <2> QED
    BY <1>0, <1>1, <1>2, <2>1, <2>2
    DEF RequeteSeule, RequeteFidele, Inductif, TypeOK, Etape
<1>4. \A c \in Commandes :
        /\ commande'[c].etat = IF c = d THEN "ANNULEE" ELSE commande[c].etat
        /\ net'[c] = IF c = d /\ ~q.jamaisConsommee THEN net[c] - 1 ELSE net[c]
  BY <1>2, <1>3 DEF CommandeT
<1>5. ASSUME NEW c \in Commandes
      PROVE  DebitSeul(c)' /\ SortieSeule(c)' /\ DocumentsSeuls(c)'
  <2>1. DebitSeul(c) /\ SortieSeule(c) /\ DocumentsSeuls(c)
    BY DEF Seul
  <2>2. /\ Captures(c)' = Captures(c) /\ req[r].pc # "statut" /\ req'[r].pc # "statut"
    BY <1>1, <1>2, <1>3 DEF Captures
  <2>3. /\ ~Sur(c, ASortir) /\ ~Sur(c, AFacturer) /\ ~Sur(c, AEnvoyer)
        /\ ~Sur(c, {"notifier"})
        /\ ~Sur(c, ASortir)' /\ ~Sur(c, AFacturer)' /\ ~Sur(c, AEnvoyer)'
        /\ ~Sur(c, {"notifier"})'
    BY <1>1, <1>2, <1>3, SurUn
  <2>4. /\ (EnLigne(c)' <=> EnLigne(c)) /\ (Paye(c)' <=> Paye(c))
        /\ Existe(c)' <=> Existe(c)
    BY <1>2, <1>3, <1>4 DEF EnLigne, Paye, Existe
  <2>5. DebitSeul(c)'
    BY <2>1, <2>2, <2>4 DEF DebitSeul
  <2>6. SortieSeule(c)'
    BY <1>3, <1>4, <2>1, <2>3, <2>4 DEF SortieSeule, EnLigneNonPaye
  <2>7. DocumentsSeuls(c)'
    BY <1>2, <2>1, <2>3, <2>4 DEF DocumentsSeuls
  <2> QED
    BY <2>5, <2>6, <2>7
<1>6. RequeteSeule(e)'
  BY <1>1 DEF RequeteSeule, AEnvoyer, AFacturer, ASortir
<1> QED
  BY <1>2, <1>3, <1>5, <1>6, SeulEtape

\* PayPal takes the money, or does not.
LEMMA SeulCapture ==
  ASSUME Inductif, Seul, NEW r, Requetes = {r}, CaptureOrder(r)
  PROVE  Seul'
<1>0. r \in Requetes
  OBVIOUS
<1>1. PICK d \in Commandes, o \in Ordres :
        req[r] = [pc |-> "capture", c |-> d, ordre |-> o]
  BY <1>0, EtapeSelonPc DEF CaptureOrder, Inductif, TypeOK, EtapeCapture
<1>a. PICK s \in BOOLEAN :
        /\ Etape(r, [pc |-> "statut", c |-> d, success |-> s])
        /\ IF s THEN /\ paypal[o].etat = "APPROVED"
                     /\ paypal' = [paypal EXCEPT ![o].etat = "COMPLETED"]
                ELSE \/ /\ paypal[o].etat = "APPROVED"
                        /\ paypal' = [paypal EXCEPT ![o].etat = "CREATED"]
                     \/ UNCHANGED paypal
  <2>1. \/ /\ paypal[o].etat = "APPROVED"
           /\ paypal' = [paypal EXCEPT ![o].etat = "COMPLETED"]
           /\ Etape(r, [pc |-> "statut", c |-> d, success |-> TRUE])
        \/ /\ \/ /\ paypal[o].etat = "APPROVED"
                 /\ paypal' = [paypal EXCEPT ![o].etat = "CREATED"]
              \/ UNCHANGED paypal
           /\ Etape(r, [pc |-> "statut", c |-> d, success |-> FALSE])
    BY <1>1 DEF CaptureOrder
  <2>2. CASE /\ paypal[o].etat = "APPROVED"
             /\ paypal' = [paypal EXCEPT ![o].etat = "COMPLETED"]
             /\ Etape(r, [pc |-> "statut", c |-> d, success |-> TRUE])
    <3> WITNESS TRUE \in BOOLEAN
    <3> QED
      BY <2>2
  <2>3. CASE /\ \/ /\ paypal[o].etat = "APPROVED"
                   /\ paypal' = [paypal EXCEPT ![o].etat = "CREATED"]
                \/ UNCHANGED paypal
             /\ Etape(r, [pc |-> "statut", c |-> d, success |-> FALSE])
    <3> WITNESS FALSE \in BOOLEAN
    <3> QED
      BY <2>3
  <2> QED
    BY <2>1, <2>2, <2>3
<1>b. PICK e : e = [pc |-> "statut", c |-> d, success |-> s]
  OBVIOUS
<1>2. /\ e = [pc |-> "statut", c |-> d, success |-> s] /\ Etape(r, e)
      /\ IF s THEN /\ paypal[o].etat = "APPROVED"
                   /\ paypal' = [paypal EXCEPT ![o].etat = "COMPLETED"]
              ELSE \/ /\ paypal[o].etat = "APPROVED"
                      /\ paypal' = [paypal EXCEPT ![o].etat = "CREATED"]
                   \/ UNCHANGED paypal
  BY <1>a, <1>b
<1>3. /\ UNCHANGED <<commande, paiement, panier, net, courriels, facture>>
      /\ TypeOK /\ paypal \in [Ordres -> PaypalT] /\ req'[r] = e
      /\ paypal[o].commande = d /\ EnLigne(d) /\ ~Paye(d)
  <2>1. RequeteSeule(req[r]) /\ RequeteFidele(req[r])
    BY SeulFaits
  <2> QED
    BY <1>0, <1>1, <1>2, <2>1
    DEF CaptureOrder, RequeteSeule, RequeteFidele, EnLigneNonPaye, Inductif, TypeOK, Etape
<1>4. Captures(d) = {}
  <2>1. DebitSeul(d)
    BY DEF Seul
  <2>2. \A x \in Requetes : req[x].pc # "statut"
    BY <1>1
  <2> QED
    BY <1>3, <2>1, <2>2 DEF DebitSeul
<1>5. \A c \in Commandes : Captures(c)' = IF c = d /\ s THEN {o} ELSE Captures(c)
  <2>1. PICK x : x = IF s THEN [paypal[o] EXCEPT !.etat = "COMPLETED"]
                          ELSE [paypal[o] EXCEPT !.etat = "CREATED"]
    OBVIOUS
  <2>2. CASE s
    <3>1. /\ paypal' = [paypal EXCEPT ![o] = x] /\ x.etat = "COMPLETED"
          /\ x.commande = d
      BY <1>2, <1>3, <2>1, <2>2 DEF PaypalT
    <3>2. \A p \in Ordres : paypal'[p] = IF p = o THEN x ELSE paypal[p]
      BY <1>3, <3>1
    <3>3. Captures(d)' = {o}
      BY <1>4, <3>1, <3>2 DEF Captures
    <3>4. \A c \in Commandes : c # d => Captures(c)' = Captures(c)
      BY <1>3, <3>1, <3>2 DEF Captures
    <3> QED
      BY <2>2, <3>3, <3>4
  <2>3. CASE ~s /\ UNCHANGED paypal
    BY <2>3 DEF Captures
  <2>4. CASE ~s /\ ~UNCHANGED paypal
    <3>1. /\ paypal' = [paypal EXCEPT ![o] = x] /\ x.etat = "CREATED"
          /\ paypal[o].etat = "APPROVED"
      BY <1>2, <1>3, <2>1, <2>4 DEF PaypalT
    <3>2. \A c \in Commandes : Captures(c)' = Captures(c)
      BY <1>3, <3>1, CapturesMemes
    <3> QED
      BY <2>4, <3>2
  <2> QED
    BY <1>2, <2>2, <2>3, <2>4
<1>6. ASSUME NEW c \in Commandes
      PROVE  DebitSeul(c)' /\ SortieSeule(c)' /\ DocumentsSeuls(c)'
  <2>1. DebitSeul(c) /\ SortieSeule(c) /\ DocumentsSeuls(c)
    BY DEF Seul
  <2>2. PICK K, L : K = Captures(c) /\ L = Captures(c)'
    OBVIOUS
  <2>3. /\ ~Sur(c, ASortir) /\ ~Sur(c, AFacturer) /\ ~Sur(c, AEnvoyer)
        /\ ~Sur(c, {"notifier"})
        /\ ~Sur(c, ASortir)' /\ ~Sur(c, AFacturer)' /\ ~Sur(c, AEnvoyer)'
        /\ ~Sur(c, {"notifier"})'
    BY <1>1, <1>2, <1>3, SurUn
  <2>4. /\ (EnLigne(c)' <=> EnLigne(c)) /\ (Paye(c)' <=> Paye(c))
        /\ Existe(c)' <=> Existe(c)
    BY <1>3 DEF EnLigne, Paye, Existe
  <2>5. DebitSeul(c)'
    <3>1. /\ \A x, y \in K : x = y
          /\ EnLigne(c) => (K # {} <=> Paye(c))
          /\ Paye(c) => Existe(c)
      BY <1>1, <2>1, <2>2 DEF DebitSeul
    <3>2. L = IF c = d /\ s THEN {o} ELSE K
      BY <1>5, <2>2
    <3>3. (\E x \in Requetes : req'[x].pc = "statut" /\ req'[x].c = c /\ req'[x].success)
            <=> c = d /\ s
      BY <1>2, <1>3
    <3>4. K = {} \/ c # d
      BY <1>4, <2>2
    <3>5. \A x, y \in L : x = y
      BY <3>1, <3>2
    <3>6. EnLigne(c)' => (L # {} <=> Paye(c)' \/ (c = d /\ s))
      <4>1. CASE c = d
        <5>1. ~Paye(c)' /\ K = {}
          BY <1>3, <2>4, <3>4, <4>1
        <5>2. L # {} <=> s
          BY <3>2, <4>1, <5>1
        <5> QED
          BY <4>1, <5>1, <5>2
      <4>2. CASE c # d
        <5>1. L = K
          BY <3>2, <4>2
        <5> QED
          BY <2>4, <3>1, <4>2, <5>1
      <4> QED
        BY <4>1, <4>2
    <3> QED
      BY <2>2, <2>4, <3>1, <3>3, <3>5, <3>6, Zenon DEF DebitSeul
  <2>6. SortieSeule(c)'
    BY <1>3, <2>1, <2>3, <2>4 DEF SortieSeule
  <2>7. DocumentsSeuls(c)'
    BY <1>3, <2>1, <2>3, <2>4 DEF DocumentsSeuls
  <2> QED
    BY <2>5, <2>6, <2>7
<1>7. RequeteSeule(e)'
  BY <1>2, <1>3 DEF RequeteSeule, AEnvoyer, AFacturer, ASortir, Paye
<1> QED
  BY <1>2, <1>3, <1>6, <1>7, SeulEtape

\* The issue of the payment is written.
LEMMA SeulStatut ==
  ASSUME Inductif, Seul, NEW r, Requetes = {r}, StatutEcrire(r)
  PROVE  Seul'
<1>0. r \in Requetes
  OBVIOUS
<1>1. PICK d \in Commandes, s \in BOOLEAN :
        req[r] = [pc |-> "statut", c |-> d, success |-> s]
  BY <1>0, EtapeSelonPc DEF StatutEcrire, Inductif, TypeOK, EtapeIssue
<1>2. PICK e : e = [pc |-> "notifier", c |-> d, success |-> s]
  OBVIOUS
<1>3. /\ Etape(r, e) /\ UNCHANGED <<commande, paypal, net, courriels, facture>>
      /\ paiement' = [paiement EXCEPT ![d].statut = StatutDe(s)]
      /\ TypeOK /\ paiement \in [Commandes -> PaiementT] /\ req'[r] = e
      /\ ~Paye(d) /\ Existe(d)
  <2>1. RequeteSeule(req[r]) /\ RequeteFidele(req[r])
    BY SeulFaits
  <2>2. ~Paye(d) /\ Existe(d)
    BY <1>1, <2>1 DEF RequeteSeule, RequeteFidele
  <2>3. [req[r] EXCEPT !.pc = "notifier"] = e /\ TypeOK
    BY <1>1, <1>2 DEF Inductif
  <2>4. /\ Etape(r, e) /\ UNCHANGED <<commande, paypal, net, courriels, facture>>
        /\ paiement' = [paiement EXCEPT ![d].statut = StatutDe(s)]
    BY <1>1, <2>3 DEF StatutEcrire
  <2> QED
    BY <1>0, <2>2, <2>3, <2>4 DEF TypeOK, Etape
<1>4. \A c \in Commandes :
        /\ paiement'[c].methode = paiement[c].methode
        /\ paiement'[c].statut = IF c = d THEN StatutDe(s) ELSE paiement[c].statut
  BY <1>3 DEF PaiementT
<1>5. ASSUME NEW c \in Commandes
      PROVE  DebitSeul(c)' /\ SortieSeule(c)' /\ DocumentsSeuls(c)'
  <2>1. DebitSeul(c) /\ SortieSeule(c) /\ DocumentsSeuls(c)
    BY DEF Seul
  <2>2. PICK K : K = Captures(c) /\ K = Captures(c)'
    BY <1>3 DEF Captures
  <2>3. /\ ~Sur(c, ASortir) /\ ~Sur(c, AFacturer) /\ ~Sur(c, AEnvoyer)
        /\ ~Sur(c, {"notifier"})
        /\ Sur(c, ASortir)' <=> c = d
        /\ Sur(c, AFacturer)' <=> c = d
        /\ Sur(c, AEnvoyer)' <=> c = d
        /\ Sur(c, {"notifier"})' <=> c = d
    BY <1>1, <1>2, <1>3, SurUn
  <2>4. /\ (EnLigne(c)' <=> EnLigne(c)) /\ (Existe(c)' <=> Existe(c))
        /\ Paye(c)' <=> (IF c = d THEN s ELSE Paye(c))
    BY <1>3, <1>4 DEF EnLigne, Paye, Existe, StatutDe
  <2>5. DebitSeul(c)'
    <3>a. (\E x \in Requetes : req[x].pc = "statut" /\ req[x].c = c /\ req[x].success)
            <=> c = d /\ s
      BY <1>1
    <3>1. /\ \A x, y \in K : x = y
          /\ EnLigne(c) => (K # {} <=> Paye(c) \/ (c = d /\ s))
          /\ Paye(c) => Existe(c)
      BY <2>1, <2>2, <3>a, Zenon DEF DebitSeul
    <3>2. \A x \in Requetes : req'[x].pc # "statut"
      BY <1>2, <1>3
    <3>3. EnLigne(c)' => (K # {} <=> Paye(c)')
      BY <1>3, <2>4, <3>1
    <3>4. Paye(c)' => Existe(c)'
      BY <1>3, <2>4, <3>1
    <3> QED
      BY <2>2, <3>1, <3>2, <3>3, <3>4, Zenon DEF DebitSeul
  <2>6. SortieSeule(c)'
    BY <1>3, <2>1, <2>3, <2>4 DEF SortieSeule
  <2>7. DocumentsSeuls(c)'
    BY <1>3, <2>1, <2>3, <2>4 DEF DocumentsSeuls
  <2> QED
    BY <2>5, <2>6, <2>7
<1>6. RequeteSeule(e)'
  <2>1. Paye(d)' <=> s
    BY <1>4 DEF Paye, StatutDe
  <2> QED
    BY <1>2, <2>1 DEF RequeteSeule, AEnvoyer, AFacturer, ASortir, Paye
<1> QED
  BY <1>2, <1>3, <1>5, <1>6, SeulEtape

\* The client is told.
LEMMA SeulNotifier ==
  ASSUME Inductif, Seul, NEW r, Requetes = {r}, Notifier(r)
  PROVE  Seul'
<1>0. r \in Requetes
  OBVIOUS
<1>1. PICK d \in Commandes, s \in BOOLEAN :
        req[r] = [pc |-> "notifier", c |-> d, success |-> s]
  BY <1>0, EtapeSelonPc DEF Notifier, Inductif, TypeOK, EtapeIssue
<1>2. PICK e : e = [pc |-> SuiteDe(d, s), c |-> d]
  OBVIOUS
<1>3. /\ Etape(r, e) /\ UNCHANGED <<commande, paiement, paypal, net, facture>>
      /\ courriels' = IF s THEN [courriels EXCEPT ![d].succes = @ + 1] ELSE courriels
      /\ TypeOK /\ courriels \in [Commandes -> [succes : Nat, facture : Nat]]
      /\ req'[r] = e
      /\ (Paye(d) <=> s) /\ (~s => EnLigne(d))
  <2>1. RequeteSeule(req[r]) /\ RequeteFidele(req[r])
    BY SeulFaits
  <2>2. (Paye(d) <=> s) /\ (~s => EnLigne(d))
    BY <1>1, <2>1 DEF RequeteSeule, RequeteFidele
  <2> QED
    BY <1>0, <1>1, <1>2, <2>2 DEF Notifier, Inductif, TypeOK, Etape
<1>4. \A c \in Commandes :
        /\ courriels'[c].facture = courriels[c].facture
        /\ courriels'[c].succes =
             IF c = d /\ s THEN courriels[c].succes + 1 ELSE courriels[c].succes
  BY <1>3
<1>5. /\ e.c = d
      /\ e.pc = IF ~s THEN "echec" ELSE IF EnLigne(d) THEN "confirmOnline" ELSE "generate"
  BY <1>2 DEF SuiteDe
<1>6. ASSUME NEW c \in Commandes
      PROVE  DebitSeul(c)' /\ SortieSeule(c)' /\ DocumentsSeuls(c)'
  <2>1. DebitSeul(c) /\ SortieSeule(c) /\ DocumentsSeuls(c)
    BY DEF Seul
  <2>2. Captures(c) = Captures(c)' /\ req[r].pc # "statut" /\ req'[r].pc # "statut"
    BY <1>1, <1>3, <1>5 DEF Captures
  <2>3. /\ Sur(c, ASortir) <=> c = d
        /\ Sur(c, AFacturer) <=> c = d
        /\ Sur(c, AEnvoyer) <=> c = d
        /\ Sur(c, {"notifier"}) <=> c = d
    BY <1>1, <1>3, SurUn
  <2>4. /\ Sur(c, ASortir)' <=> c = d /\ s /\ EnLigne(d)
        /\ Sur(c, AFacturer)' <=> c = d /\ s
        /\ Sur(c, AEnvoyer)' <=> c = d /\ s
        /\ ~Sur(c, {"notifier"})'
    BY <1>1, <1>3, <1>5, SurUn
  <2>5. /\ (EnLigne(c)' <=> EnLigne(c)) /\ (Existe(c)' <=> Existe(c))
        /\ Paye(c)' <=> Paye(c)
    BY <1>3 DEF EnLigne, Paye, Existe
  <2>6. DebitSeul(c)'
    BY <2>1, <2>2, <2>5 DEF DebitSeul
  <2>7. SortieSeule(c)'
    BY <1>3, <2>1, <2>3, <2>4, <2>5 DEF SortieSeule
  <2>8. DocumentsSeuls(c)'
    BY <1>3, <1>4, <2>1, <2>3, <2>4, <2>5 DEF DocumentsSeuls
  <2> QED
    BY <2>6, <2>7, <2>8
<1>7. RequeteSeule(e)'
  BY <1>3, <1>5
  DEF RequeteSeule, AEnvoyer, AFacturer, ASortir, Paye, EnLigne, EnLigneNonPaye
<1> QED
  BY <1>3, <1>6, <1>7, SeulEtape

\* The transaction that takes the quantities out begins.
LEMMA SeulConfirmer ==
  ASSUME Inductif, Seul, NEW r, Requetes = {r}, ConfirmOnlinePaymentSuccess(r)
  PROVE  Seul'
<1>0. r \in Requetes
  OBVIOUS
<1>1. PICK d \in Commandes : req[r] = [pc |-> "confirmOnline", c |-> d]
  BY <1>0, EtapeSelonPc
  DEF ConfirmOnlinePaymentSuccess, Inductif, TypeOK, EtapeSuite
<1>2. PICK e : e = [pc |-> "consommer", c |-> d, vu |-> panier[commande[d].client]]
  OBVIOUS
<1>3. /\ Etape(r, e)
      /\ UNCHANGED <<commande, paiement, panier, paypal, net, courriels, facture>>
      /\ TypeOK /\ req'[r] = e /\ EnLigne(d) /\ Paye(d)
  <2>1. RequeteSeule(req[r]) /\ TypeOK
    BY SeulFaits
  <2>2. EnLigne(d) /\ Paye(d)
    BY <1>1, <2>1 DEF RequeteSeule, AEnvoyer, AFacturer, ASortir
  <2> QED
    BY <1>0, <1>1, <1>2, <2>1, <2>2 DEF ConfirmOnlinePaymentSuccess, TypeOK, Etape
<1>4. ASSUME NEW c \in Commandes
      PROVE  DebitSeul(c)' /\ SortieSeule(c)' /\ DocumentsSeuls(c)'
  <2>1. DebitSeul(c) /\ SortieSeule(c) /\ DocumentsSeuls(c)
    BY DEF Seul
  <2>2. Captures(c) = Captures(c)' /\ req[r].pc # "statut" /\ req'[r].pc # "statut"
    BY <1>1, <1>2, <1>3 DEF Captures
  <2>3. /\ Sur(c, ASortir) <=> c = d
        /\ Sur(c, AFacturer) <=> c = d
        /\ Sur(c, AEnvoyer) <=> c = d
        /\ ~Sur(c, {"notifier"})
    BY <1>1, <1>3, SurUn
  <2>4. /\ Sur(c, ASortir)' <=> c = d
        /\ Sur(c, AFacturer)' <=> c = d
        /\ Sur(c, AEnvoyer)' <=> c = d
        /\ ~Sur(c, {"notifier"})'
    BY <1>1, <1>2, <1>3, SurUn
  <2>5. /\ (EnLigne(c)' <=> EnLigne(c)) /\ (Existe(c)' <=> Existe(c))
        /\ Paye(c)' <=> Paye(c)
    BY <1>3 DEF EnLigne, Paye, Existe
  <2>6. DebitSeul(c)'
    BY <2>1, <2>2, <2>5 DEF DebitSeul
  <2>7. SortieSeule(c)'
    BY <1>3, <2>1, <2>3, <2>4, <2>5 DEF SortieSeule
  <2>8. DocumentsSeuls(c)'
    BY <1>3, <2>1, <2>3, <2>4, <2>5 DEF DocumentsSeuls
  <2> QED
    BY <2>6, <2>7, <2>8
<1>5. RequeteSeule(e)'
  BY <1>2, <1>3 DEF RequeteSeule, AEnvoyer, AFacturer, ASortir, Paye, EnLigne
<1> QED
  BY <1>3, <1>4, <1>5, SeulEtape

\* ... and commits: no line of the cart was deleted since it was read.
LEMMA SeulConsommer ==
  ASSUME Inductif, Seul, NEW r, Requetes = {r}, ConfirmOnlinePaymentTransaction(r)
  PROVE  Seul'
<1>0. r \in Requetes
  OBVIOUS
<1>1. PICK q, d : q = req[r] /\ d = q.c
  OBVIOUS
<1>a. /\ q.pc = "consommer" /\ d \in Commandes /\ EnLigne(d) /\ Paye(d)
      /\ q.vu = panier[commande[d].client] /\ TypeOK
  <2>1. RequeteSeule(q) /\ q \in Etapes /\ TypeOK
    BY <1>1, SeulFaits
  <2>2. q.pc = "consommer"
    BY <1>1 DEF ConfirmOnlinePaymentTransaction
  <2>3. d \in Commandes
    BY <1>1, <2>1, <2>2, EtapeSelonPc DEF EtapeConsommer
  <2> QED
    BY <1>1, <2>1, <2>2, <2>3 DEF RequeteSeule, AEnvoyer, AFacturer, ASortir
<1>2. PICK e : e = [pc |-> "generate", c |-> d]
  OBVIOUS
<1>3. /\ Etape(r, e)
      /\ UNCHANGED <<commande, paiement, paypal, courriels, facture>>
      /\ net' = [net EXCEPT ![d] = @ + 1]
      /\ net \in [Commandes -> Int] /\ req'[r] = e
  <2>1. /\ Etape(r, e) /\ net' = [net EXCEPT ![d] = @ + 1]
        /\ UNCHANGED <<commande, paiement, paypal, courriels, facture>>
    BY <1>1, <1>2, <1>a DEF ConfirmOnlinePaymentTransaction, Consommation
  <2> QED
    BY <1>0, <1>a, <2>1 DEF TypeOK, Etape
<1>4. ASSUME NEW c \in Commandes
      PROVE  DebitSeul(c)' /\ SortieSeule(c)' /\ DocumentsSeuls(c)'
  <2>1. DebitSeul(c) /\ SortieSeule(c) /\ DocumentsSeuls(c)
    BY DEF Seul
  <2>2. Captures(c) = Captures(c)' /\ req[r].pc # "statut" /\ req'[r].pc # "statut"
    BY <1>1, <1>2, <1>a, <1>3 DEF Captures
  <2>3. /\ Sur(c, ASortir) <=> c = d
        /\ Sur(c, AFacturer) <=> c = d
        /\ Sur(c, AEnvoyer) <=> c = d
        /\ ~Sur(c, {"notifier"})
    BY <1>1, <1>a, <1>3, SurUn
  <2>4. /\ ~Sur(c, ASortir)'
        /\ Sur(c, AFacturer)' <=> c = d
        /\ Sur(c, AEnvoyer)' <=> c = d
        /\ ~Sur(c, {"notifier"})'
    BY <1>1, <1>2, <1>3, SurUn
  <2>5. /\ (EnLigne(c)' <=> EnLigne(c)) /\ (Existe(c)' <=> Existe(c))
        /\ Paye(c)' <=> Paye(c)
    BY <1>3 DEF EnLigne, Paye, Existe
  <2>6. DebitSeul(c)'
    BY <2>1, <2>2, <2>5 DEF DebitSeul
  <2>7. net'[c] = IF c = d THEN net[c] + 1 ELSE net[c]
    BY <1>3
  <2>8. SortieSeule(c)'
    BY <1>3, <1>a, <2>1, <2>3, <2>4, <2>5, <2>7 DEF SortieSeule
  <2>9. DocumentsSeuls(c)'
    BY <1>3, <2>1, <2>3, <2>4, <2>5 DEF DocumentsSeuls
  <2> QED
    BY <2>6, <2>8, <2>9
<1>5. RequeteSeule(e)'
  BY <1>2, <1>3, <1>a DEF RequeteSeule, AEnvoyer, AFacturer, ASortir, Paye
<1> QED
  BY <1>a, <1>3, <1>4, <1>5, SeulEtape

\* The invoice is numbered: none exists yet.
LEMMA SeulGenerate ==
  ASSUME Inductif, Seul, NEW r, Requetes = {r}, GenerateForCommande(r)
  PROVE  Seul'
<1>0. r \in Requetes
  OBVIOUS
<1>1. PICK d \in Commandes : req[r] = [pc |-> "generate", c |-> d]
  BY <1>0, EtapeSelonPc DEF GenerateForCommande, Inductif, TypeOK, EtapeSuite
<1>2. PICK e : e = [pc |-> "facture", c |-> d, numero |-> ProchainNumero]
  OBVIOUS
<1>a. /\ Paye(d) /\ facture[d] = 0 /\ TypeOK
  <2>1. RequeteSeule(req[r]) /\ TypeOK /\ DocumentsSeuls(d)
    BY SeulFaits
  <2>2. Paye(d)
    BY <1>1, <2>1 DEF RequeteSeule, AEnvoyer, AFacturer, ASortir
  <2>3. Sur(d, AFacturer)
    BY <1>0, <1>1 DEF Sur, AFacturer
  <2> QED
    BY <2>1, <2>2, <2>3 DEF DocumentsSeuls
<1>3. /\ Etape(r, e) /\ req'[r] = e
      /\ UNCHANGED <<commande, paiement, panier, paypal, net, courriels, facture>>
  BY <1>0, <1>1, <1>2, <1>a DEF GenerateForCommande, Facturees, TypeOK, Etape
<1>4. ASSUME NEW c \in Commandes
      PROVE  DebitSeul(c)' /\ SortieSeule(c)' /\ DocumentsSeuls(c)'
  <2>1. DebitSeul(c) /\ SortieSeule(c) /\ DocumentsSeuls(c)
    BY DEF Seul
  <2>2. Captures(c) = Captures(c)' /\ req[r].pc # "statut" /\ req'[r].pc # "statut"
    BY <1>1, <1>2, <1>3 DEF Captures
  <2>3. /\ ~Sur(c, ASortir)
        /\ Sur(c, AFacturer) <=> c = d
        /\ Sur(c, AEnvoyer) <=> c = d
        /\ ~Sur(c, {"notifier"})
    BY <1>1, <1>3, SurUn
  <2>4. /\ ~Sur(c, ASortir)'
        /\ Sur(c, AFacturer)' <=> c = d
        /\ Sur(c, AEnvoyer)' <=> c = d
        /\ ~Sur(c, {"notifier"})'
    BY <1>1, <1>2, <1>3, SurUn
  <2>5. /\ (EnLigne(c)' <=> EnLigne(c)) /\ (Existe(c)' <=> Existe(c))
        /\ Paye(c)' <=> Paye(c)
    BY <1>3 DEF EnLigne, Paye, Existe
  <2>6. DebitSeul(c)'
    BY <2>1, <2>2, <2>5 DEF DebitSeul
  <2>7. SortieSeule(c)'
    BY <1>3, <2>1, <2>3, <2>4, <2>5 DEF SortieSeule
  <2>8. DocumentsSeuls(c)'
    BY <1>3, <2>1, <2>3, <2>4, <2>5 DEF DocumentsSeuls
  <2> QED
    BY <2>6, <2>7, <2>8
<1>5. RequeteSeule(e)'
  <2>1. ProchainNumero' = ProchainNumero
    BY <1>3 DEF ProchainNumero, Facturees
  <2> QED
    BY <1>2, <1>3, <1>a, <2>1 DEF RequeteSeule, AEnvoyer, AFacturer, ASortir, Paye
<1> QED
  BY <1>a, <1>3, <1>4, <1>5, SeulEtape

\* The insert succeeds: the number is the next one.
LEMMA SeulFacture ==
  ASSUME Inductif, Seul, NEW r, Requetes = {r}, FactureCreate(r)
  PROVE  Seul'
<1>0. r \in Requetes
  OBVIOUS
<1>1. PICK d \in Commandes, n \in Nat \ {0} :
        req[r] = [pc |-> "facture", c |-> d, numero |-> n]
  BY <1>0, EtapeSelonPc DEF FactureCreate, Inductif, TypeOK, EtapeFacture
<1>2. PICK e : e = [pc |-> "sendInvoice", c |-> d]
  OBVIOUS
<1>a. /\ Paye(d) /\ facture[d] = 0 /\ TypeOK /\ n = ProchainNumero
  <2>1. RequeteSeule(req[r]) /\ TypeOK /\ DocumentsSeuls(d)
    BY SeulFaits
  <2>2. Paye(d) /\ n = ProchainNumero
    BY <1>1, <2>1 DEF RequeteSeule, AEnvoyer, AFacturer, ASortir
  <2>3. Sur(d, AFacturer)
    BY <1>0, <1>1 DEF Sur, AFacturer
  <2> QED
    BY <2>1, <2>2, <2>3 DEF DocumentsSeuls
<1>b. ~Doublon(d, n)
  <2>1. PICK F, k : F = Facturees /\ k = Cardinality(Facturees)
    OBVIOUS
  <2>2. /\ k \in Nat /\ n = k + 1 /\ d \notin F
        /\ {facture[c] : c \in F} = 1 .. k
    BY <1>a, <2>1, CardinaliteFacturees
    DEF ProchainNumero, Inductif, FacturesSequentielles, Facturees
  <2>3. ASSUME NEW c \in Commandes, facture[c] = n
        PROVE  FALSE
    <3>1. c \in F
      BY <2>1, <2>3 DEF Facturees
    <3>2. n \in 1 .. k
      BY <2>2, <2>3, <3>1
    <3> QED
      BY <2>2, <3>2
  <2> QED
    BY <2>1, <2>2, <2>3 DEF Doublon
<1>3. /\ Etape(r, e) /\ req'[r] = e /\ facture' = [facture EXCEPT ![d] = n]
      /\ facture \in [Commandes -> Nat]
      /\ UNCHANGED <<commande, paiement, panier, paypal, net, courriels>>
  BY <1>0, <1>1, <1>2, <1>a, <1>b DEF FactureCreate, TypeOK, Etape
<1>4. ASSUME NEW c \in Commandes
      PROVE  DebitSeul(c)' /\ SortieSeule(c)' /\ DocumentsSeuls(c)'
  <2>1. DebitSeul(c) /\ SortieSeule(c) /\ DocumentsSeuls(c)
    BY DEF Seul
  <2>2. Captures(c) = Captures(c)' /\ req[r].pc # "statut" /\ req'[r].pc # "statut"
    BY <1>1, <1>2, <1>3 DEF Captures
  <2>3. /\ ~Sur(c, ASortir)
        /\ Sur(c, AFacturer) <=> c = d
        /\ Sur(c, AEnvoyer) <=> c = d
        /\ ~Sur(c, {"notifier"})
    BY <1>1, <1>3, SurUn
  <2>4. /\ ~Sur(c, ASortir)'
        /\ ~Sur(c, AFacturer)'
        /\ Sur(c, AEnvoyer)' <=> c = d
        /\ ~Sur(c, {"notifier"})'
    BY <1>1, <1>2, <1>3, SurUn
  <2>5. /\ (EnLigne(c)' <=> EnLigne(c)) /\ (Existe(c)' <=> Existe(c))
        /\ Paye(c)' <=> Paye(c)
    BY <1>3 DEF EnLigne, Paye, Existe
  <2>6. DebitSeul(c)'
    BY <2>1, <2>2, <2>5 DEF DebitSeul
  <2>7. SortieSeule(c)'
    BY <1>3, <2>1, <2>3, <2>4, <2>5 DEF SortieSeule
  <2>8. facture'[c] = IF c = d THEN n ELSE facture[c]
    BY <1>3
  <2>9. DocumentsSeuls(c)'
    BY <1>a, <1>3, <2>1, <2>3, <2>4, <2>5, <2>8 DEF DocumentsSeuls
  <2> QED
    BY <2>6, <2>7, <2>9
<1>5. RequeteSeule(e)'
  BY <1>2, <1>3, <1>a DEF RequeteSeule, AEnvoyer, AFacturer, ASortir, Paye
<1> QED
  BY <1>a, <1>3, <1>4, <1>5, SeulEtape

\* The invoice is sent.
LEMMA SeulEnvoi ==
  ASSUME Inductif, Seul, NEW r, Requetes = {r}, SendInvoiceByEmail(r)
  PROVE  Seul'
<1>0. r \in Requetes
  OBVIOUS
<1>1. PICK d \in Commandes : req[r] = [pc |-> "sendInvoice", c |-> d]
  BY <1>0, EtapeSelonPc DEF SendInvoiceByEmail, Inductif, TypeOK, EtapeSuite
<1>2. PICK e : e = [pc |-> "libre"]
  OBVIOUS
<1>a. /\ Paye(d) /\ facture[d] # 0 /\ TypeOK
  <2>1. RequeteSeule(req[r]) /\ TypeOK /\ DocumentsSeuls(d)
    BY SeulFaits
  <2>2. Paye(d)
    BY <1>1, <2>1 DEF RequeteSeule, AEnvoyer, AFacturer, ASortir
  <2>3. ~Sur(d, AFacturer)
    BY <1>0, <1>1 DEF Sur, AFacturer, ASortir
  <2> QED
    BY <2>1, <2>2, <2>3 DEF DocumentsSeuls
<1>3. /\ Etape(r, e) /\ req'[r] = e
      /\ courriels' = [courriels EXCEPT ![d].facture = @ + 1]
      /\ courriels \in [Commandes -> [succes : Nat, facture : Nat]]
      /\ UNCHANGED <<commande, paiement, panier, paypal, net, facture>>
  BY <1>0, <1>1, <1>2, <1>a DEF SendInvoiceByEmail, Facturees, TypeOK, Etape, Repond
<1>4. ASSUME NEW c \in Commandes
      PROVE  DebitSeul(c)' /\ SortieSeule(c)' /\ DocumentsSeuls(c)'
  <2>1. DebitSeul(c) /\ SortieSeule(c) /\ DocumentsSeuls(c)
    BY DEF Seul
  <2>2. Captures(c) = Captures(c)' /\ req[r].pc # "statut" /\ req'[r].pc # "statut"
    BY <1>1, <1>2, <1>3 DEF Captures
  <2>3. /\ ~Sur(c, ASortir)
        /\ ~Sur(c, AFacturer)
        /\ Sur(c, AEnvoyer) <=> c = d
        /\ ~Sur(c, {"notifier"})
    BY <1>1, <1>3, SurUn
  <2>4. /\ ~Sur(c, ASortir)' /\ ~Sur(c, AFacturer)' /\ ~Sur(c, AEnvoyer)'
        /\ ~Sur(c, {"notifier"})'
    BY <1>1, <1>2, <1>3, SurUn
  <2>5. /\ (EnLigne(c)' <=> EnLigne(c)) /\ (Existe(c)' <=> Existe(c))
        /\ Paye(c)' <=> Paye(c)
    BY <1>3 DEF EnLigne, Paye, Existe
  <2>6. DebitSeul(c)'
    BY <2>1, <2>2, <2>5 DEF DebitSeul
  <2>7. SortieSeule(c)'
    BY <1>3, <2>1, <2>3, <2>4, <2>5 DEF SortieSeule
  <2>8. /\ courriels'[c].succes = courriels[c].succes
        /\ courriels'[c].facture =
             IF c = d THEN courriels[c].facture + 1 ELSE courriels[c].facture
    BY <1>3
  <2>9. DocumentsSeuls(c)'
    BY <1>a, <1>3, <2>1, <2>3, <2>4, <2>5, <2>8 DEF DocumentsSeuls
  <2> QED
    BY <2>6, <2>7, <2>9
<1>5. RequeteSeule(e)'
  BY <1>2 DEF RequeteSeule, AEnvoyer, AFacturer, ASortir
<1> QED
  BY <1>a, <1>3, <1>4, <1>5, SeulEtape

\* The cash is confirmed by the deliverer.
LEMMA SeulCash ==
  ASSUME Inductif, Seul, NEW r, Requetes = {r}, NEW u, NEW d \in Commandes,
         ConfirmCashPayment(r, u, d)
  PROVE  Seul'
<1>0. r \in Requetes
  OBVIOUS
<1>1. PICK e : e = [pc |-> "statut", c |-> d, success |-> TRUE]
  OBVIOUS
<1>2. /\ req[r].pc = "libre" /\ Etape(r, e) /\ ~EnLigne(d) /\ ~Paye(d)
      /\ UNCHANGED <<commande, paiement, panier, paypal, net, courriels, facture>>
      /\ TypeOK /\ req'[r] = e
  BY <1>0, <1>1
  DEF ConfirmCashPayment, Libre, ALaLivraison, EnLigne, Inductif, TypeOK, Etape
<1>3. ASSUME NEW c \in Commandes
      PROVE  DebitSeul(c)' /\ SortieSeule(c)' /\ DocumentsSeuls(c)'
  <2>1. DebitSeul(c) /\ SortieSeule(c) /\ DocumentsSeuls(c)
    BY DEF Seul
  <2>2. /\ ~Sur(c, ASortir) /\ ~Sur(c, AFacturer) /\ ~Sur(c, AEnvoyer)
        /\ ~Sur(c, {"notifier"})
        /\ ~Sur(c, ASortir)' /\ ~Sur(c, AFacturer)' /\ ~Sur(c, AEnvoyer)'
        /\ ~Sur(c, {"notifier"})'
    BY <1>1, <1>2, SurUn
  <2>3. /\ (EnLigne(c)' <=> EnLigne(c)) /\ (Existe(c)' <=> Existe(c))
        /\ (Paye(c)' <=> Paye(c)) /\ Captures(c)' = Captures(c)
    BY <1>2 DEF EnLigne, Paye, Existe, Captures
  <2>4. DebitSeul(c)'
    BY <1>1, <1>2, <2>1, <2>3 DEF DebitSeul
  <2>5. SortieSeule(c)'
    BY <1>2, <2>1, <2>2, <2>3 DEF SortieSeule
  <2>6. DocumentsSeuls(c)'
    BY <1>2, <2>1, <2>2, <2>3 DEF DocumentsSeuls
  <2> QED
    BY <2>4, <2>5, <2>6
<1>4. RequeteSeule(e)'
  BY <1>1, <1>2 DEF RequeteSeule, AEnvoyer, AFacturer, ASortir, Paye
<1> QED
  BY <1>2, <1>3, <1>4, SeulEtape

\* The steps that only read, or write what is not money, stock or document.
LEMMA SeulLecture ==
  ASSUME TypeOK, Seul, NEW r, Requetes = {r}, NEW e, Etape(r, e),
         req[r].pc \notin AEnvoyer \cup {"statut"}, e.pc \notin AEnvoyer \cup {"statut"},
         UNCHANGED <<commande, paiement, facture, paypal, net, courriels>>,
         e.pc \in {"capture", "echec"} => EnLigneNonPaye(e.c),
         e.pc = "cancel" => /\ commande[e.c].etat = "EN_ATTENTE"
                            /\ e.jamaisConsommee <=> EnLigneNonPaye(e.c),
         e.pc = "updateStatus" =>
           (commande[e.c].etat = "ANNULEE" => e.etat = "ANNULEE")
  PROVE  Seul'
<1>1. RequeteSeule(e)'
  <2>1. e.pc \in {"capture", "echec", "cancel"} =>
          (EnLigneNonPaye(e.c)' <=> EnLigneNonPaye(e.c))
    BY DEF EnLigneNonPaye, EnLigne, Paye
  <2> QED
    BY <2>1 DEF RequeteSeule, AEnvoyer, AFacturer, ASortir
<1>2. /\ \A c \in Commandes : /\ paiement'[c].methode = paiement[c].methode
                              /\ paiement'[c].statut = paiement[c].statut
      /\ \A c \in Commandes : Captures(c)' = Captures(c)
      /\ \A c \in Commandes : Existe(c)' <=> Existe(c)
      /\ \A c \in Commandes :
           commande[c].etat = "ANNULEE" => commande'[c].etat = "ANNULEE"
  BY DEF Captures, Existe
<1> QED
  BY <1>1, <1>2, SeulCalme

\* A column of an order is written.
LEMMA SeulEcriture ==
  ASSUME Inductif, Seul, NEW r, Requetes = {r},
         \/ UpdateEcrire(r) \/ AssignLivreurEcrire(r) \/ UpdateStatusEcrire(r)
  PROVE  Seul'
<1>0. r \in Requetes
  OBVIOUS
<1>1. PICK q, e, d : q = req[r] /\ e = [pc |-> "libre"] /\ d = q.c
  OBVIOUS
<1>2. /\ q.pc \in {"update", "assignLivreur", "updateStatus"} /\ Etape(r, e)
      /\ UNCHANGED <<paiement, facture, paypal, net, courriels>>
      /\ \/ commande' = [commande EXCEPT ![d].adresse = q.adresse]
         \/ commande' = [commande EXCEPT ![d].livreur = q.livreur]
         \/ /\ q.pc = "updateStatus"
            /\ commande' = [commande EXCEPT ![d].etat = q.etat]
  BY <1>1 DEF UpdateEcrire, AssignLivreurEcrire, UpdateStatusEcrire, Repond
<1>3. /\ TypeOK /\ commande \in [Commandes -> CommandeT]
      /\ d \in Commandes /\ Existe(d)
      /\ q.pc = "updateStatus" =>
           q.etat \in Etats /\ (commande[d].etat = "ANNULEE" => q.etat = "ANNULEE")
  <2>1. q \in Etapes /\ RequeteSeule(q) /\ RequeteFidele(q) /\ TypeOK
    BY <1>1, SeulFaits
  <2>2. d \in Commandes /\ (q.pc = "updateStatus" => q.etat \in Etats)
    BY <1>1, <1>2, <2>1, EtapeSelonPc DEF EtapeUpdate, EtapeAssign, EtapeStatus
  <2> QED
    BY <1>1, <1>2, <2>1, <2>2 DEF RequeteSeule, RequeteFidele, TypeOK
<1>4. /\ \A c \in Commandes : Existe(c)' <=> Existe(c)
      /\ \A c \in Commandes :
           commande[c].etat = "ANNULEE" => commande'[c].etat = "ANNULEE"
  <2>1. CASE commande' = [commande EXCEPT ![d].adresse = q.adresse]
    BY <1>3, <2>1 DEF Existe, CommandeT
  <2>2. CASE commande' = [commande EXCEPT ![d].livreur = q.livreur]
    BY <1>3, <2>2 DEF Existe, CommandeT
  <2>3. CASE /\ q.pc = "updateStatus"
             /\ commande' = [commande EXCEPT ![d].etat = q.etat]
    <3>1. \A c \in Commandes :
            commande'[c].etat = IF c = d THEN q.etat ELSE commande[c].etat
      BY <1>3, <2>3 DEF CommandeT
    <3>2. q.etat # "AUCUN"
      BY <1>3, <2>3 DEF Etats
    <3> QED
      BY <1>3, <2>3, <3>1, <3>2 DEF Existe
  <2> QED
    BY <1>2, <2>1, <2>2, <2>3
<1>5. RequeteSeule(e)'
  BY <1>1 DEF RequeteSeule, AEnvoyer, AFacturer, ASortir
<1>6. /\ \A c \in Commandes : /\ paiement'[c].methode = paiement[c].methode
                              /\ paiement'[c].statut = paiement[c].statut
      /\ \A c \in Commandes : Captures(c)' = Captures(c)
      /\ req[r].pc \notin AEnvoyer \cup {"statut"}
      /\ e.pc \notin AEnvoyer \cup {"statut"}
  BY <1>1, <1>2 DEF Captures, AEnvoyer, AFacturer, ASortir
<1> QED
  BY <1>2, <1>3, <1>4, <1>5, <1>6, SeulCalme

LEMMA SeulOrders ==
  ASSUME Inductif, Seul, NEW r, Requetes = {r}, OrdersNext(r)
  PROVE  Seul'
<1>a. /\ TypeOK
      /\ {"libre", "create", "update", "cancel", "assignLivreur", "updateStatus"}
           \cap (AEnvoyer \cup {"statut"}) = {}
  BY DEF Inductif, AEnvoyer, AFacturer, ASortir
<1>1. ASSUME NEW u \in Clients, NEW m \in Methodes, NEW a \in Adresses,
             Create(r, u, m, a)
      PROVE  Seul'
  <2>1. PICK e : e = [pc |-> "create", client |-> u, methode |-> m, adresse |-> a,
                      lignes |-> panier[u]]
    OBVIOUS
  <2>2. /\ Etape(r, e) /\ req[r].pc = "libre" /\ e.pc = "create"
        /\ UNCHANGED <<commande, paiement, facture, paypal, net, courriels>>
    BY <1>1, <2>1 DEF Create, Libre
  <2> QED
    BY <1>a, <2>2, SeulLecture
<1>2. ASSUME NEW c \in Commandes, NEW a \in Adresses, Update(r, c, a)
      PROVE  Seul'
  <2>1. PICK e : e = [pc |-> "update", c |-> c, adresse |-> a]
    OBVIOUS
  <2>2. /\ Etape(r, e) /\ req[r].pc = "libre" /\ e.pc = "update"
        /\ UNCHANGED <<commande, paiement, facture, paypal, net, courriels>>
    BY <1>2, <2>1 DEF Update, Libre
  <2> QED
    BY <1>a, <2>2, SeulLecture
<1>3. ASSUME NEW c \in Commandes, Cancel(r, c)
      PROVE  Seul'
  <2>1. PICK e : e = [pc |-> "cancel", c |-> c, jamaisConsommee |-> EnLigneNonPaye(c)]
    OBVIOUS
  <2>2. /\ Etape(r, e) /\ req[r].pc = "libre" /\ e.pc = "cancel" /\ e.c = c
        /\ e.jamaisConsommee <=> EnLigneNonPaye(c)
        /\ commande[c].etat = "EN_ATTENTE"
        /\ UNCHANGED <<commande, paiement, facture, paypal, net, courriels>>
    BY <1>3, <2>1 DEF Cancel, CancelLire, Libre
  <2> QED
    BY <1>a, <2>2, SeulLecture
<1>4. ASSUME NEW c \in Commandes, NEW l \in Livreurs, AssignLivreur(r, c, l)
      PROVE  Seul'
  <2>1. PICK e : e = [pc |-> "assignLivreur", c |-> c, livreur |-> l]
    OBVIOUS
  <2>2. /\ Etape(r, e) /\ req[r].pc = "libre" /\ e.pc = "assignLivreur"
        /\ UNCHANGED <<commande, paiement, facture, paypal, net, courriels>>
    BY <1>4, <2>1 DEF AssignLivreur, Libre
  <2> QED
    BY <1>a, <2>2, SeulLecture
<1>5. ASSUME NEW u, NEW c \in Commandes, NEW s \in Etats, UpdateStatus(r, u, c, s)
      PROVE  Seul'
  <2>1. PICK e : e = [pc |-> "updateStatus", c |-> c, etat |-> s]
    OBVIOUS
  <2>2. /\ Etape(r, e) /\ req[r].pc = "libre" /\ e.pc = "updateStatus" /\ e.c = c
        /\ e.etat = s /\ (commande[c].etat = "ANNULEE" => s = "ANNULEE")
        /\ UNCHANGED <<commande, paiement, facture, paypal, net, courriels>>
    BY <1>5, <2>1 DEF UpdateStatus, Progression, Libre
  <2> QED
    BY <1>a, <2>2, SeulLecture
<1> QED
  BY <1>1, <1>2, <1>3, <1>4, <1>5, SeulCreate, SeulEcriture, SeulCancel,
     SeulConfirmer, SeulConsommer
  DEF OrdersNext

LEMMA SeulPayments ==
  ASSUME Inductif, Seul, NEW r, Requetes = {r}, PaymentsNext(r)
  PROVE  Seul'
<1>a. /\ TypeOK
      /\ {"libre", "initiate", "capture", "echec", "cancel"}
           \cap (AEnvoyer \cup {"statut"}) = {}
  BY DEF Inductif, AEnvoyer, AFacturer, ASortir
<1>1. ASSUME NEW d \in Commandes, NEW o \in Ordres, InitiateOnlinePayment(r, d, o)
      PROVE  Seul'
  <2>1. PICK e, x : /\ e = [pc |-> "initiate", c |-> d, ordre |-> o]
                    /\ x = [etat |-> "CREATED", commande |-> d]
    OBVIOUS
  <2>2. /\ Etape(r, e) /\ req[r].pc = "libre" /\ e.pc = "initiate"
        /\ UNCHANGED <<commande, paiement, facture, net, courriels>>
        /\ paypal[o].etat = "AUCUN" /\ paypal' = [paypal EXCEPT ![o] = x]
        /\ x.etat = "CREATED"
    BY <1>1, <2>1 DEF InitiateOnlinePayment, Libre
  <2>3. \A c \in Commandes : Captures(c)' = Captures(c)
    BY <1>a, <2>2, CapturesMemes
  <2>4. RequeteSeule(e)'
    BY <2>2 DEF RequeteSeule, AEnvoyer, AFacturer, ASortir
  <2>5. /\ \A c \in Commandes : /\ paiement'[c].methode = paiement[c].methode
                                /\ paiement'[c].statut = paiement[c].statut
        /\ \A c \in Commandes : Existe(c)' <=> Existe(c)
        /\ \A c \in Commandes :
             commande[c].etat = "ANNULEE" => commande'[c].etat = "ANNULEE"
    BY <2>2 DEF Existe
  <2> QED
    BY <1>a, <2>2, <2>3, <2>4, <2>5, SeulCalme
<1>2. CASE InitiateEcrire(r)
  <2>1. PICK e : e = [pc |-> "libre"]
    OBVIOUS
  <2>2. /\ Etape(r, e) /\ req[r].pc = "initiate"
        /\ UNCHANGED <<commande, paypal, facture, net, courriels>>
        /\ paiement' = [paiement EXCEPT ![req[r].c].transaction = req[r].ordre]
    BY <1>2, <2>1 DEF InitiateEcrire, Repond
  <2>3. \A c \in Commandes : /\ paiement'[c].methode = paiement[c].methode
                             /\ paiement'[c].statut = paiement[c].statut
    BY <1>a, <2>2 DEF TypeOK, PaiementT
  <2>4. RequeteSeule(e)'
    BY <2>1 DEF RequeteSeule, AEnvoyer, AFacturer, ASortir
  <2>5. /\ \A c \in Commandes : Captures(c)' = Captures(c)
        /\ \A c \in Commandes : Existe(c)' <=> Existe(c)
        /\ \A c \in Commandes :
             commande[c].etat = "ANNULEE" => commande'[c].etat = "ANNULEE"
    BY <2>2 DEF Existe, Captures
  <2> QED
    BY <1>a, <2>1, <2>2, <2>3, <2>4, <2>5, SeulCalme
<1>3. ASSUME NEW d \in Commandes, CaptureOnlinePayment(r, d)
      PROVE  Seul'
  <2>1. PICK e : e = [pc |-> "capture", c |-> d, ordre |-> paiement[d].transaction]
    OBVIOUS
  <2>2. /\ Etape(r, e) /\ req[r].pc = "libre" /\ e.pc = "capture" /\ e.c = d
        /\ EnLigneNonPaye(d)
        /\ UNCHANGED <<commande, paiement, facture, paypal, net, courriels>>
    BY <1>3, <2>1 DEF CaptureOnlinePayment, Libre
  <2> QED
    BY <1>a, <2>2, SeulLecture
<1>4. CASE CancelApresEchec(r)
  <2>1. PICK d, e : /\ d = req[r].c
                    /\ e = [pc |-> "cancel", c |-> d, jamaisConsommee |-> EnLigneNonPaye(d)]
    OBVIOUS
  <2>2. /\ req[r].pc = "echec"
        /\ \/ Etape(r, e) /\ commande[d].etat = "EN_ATTENTE"
           \/ Repond(r)
        /\ UNCHANGED <<commande, paiement, facture, paypal, net, courriels>>
    BY <1>4, <2>1 DEF CancelApresEchec, CancelLire
  <2>3. CASE Etape(r, e) /\ commande[d].etat = "EN_ATTENTE"
    <3>1. e.pc = "cancel" /\ e.c = d /\ (e.jamaisConsommee <=> EnLigneNonPaye(d))
      BY <2>1
    <3> QED
      BY <1>a, <2>2, <2>3, <3>1, SeulLecture
  <2>4. CASE Repond(r)
    BY <1>a, <2>2, <2>4, SeulLecture DEF Repond
  <2> QED
    BY <2>2, <2>3, <2>4
<1> QED
  BY <1>1, <1>2, <1>3, <1>4, SeulCapture, SeulStatut, SeulNotifier, SeulCash
  DEF PaymentsNext

LEMMA SeulPas ==
  ASSUME Inductif, Seul, NEW r, Requetes = {r}, MaxPannes = 0, [Next]_vars
  PROVE  Seul'
<1>0. r \in Requetes /\ TypeOK
  BY DEF Inductif
<1>1. ASSUME Panne(r)
      PROVE  FALSE
  BY <1>0, <1>1 DEF Panne, TypeOK
<1>2. ASSUME ClientNext(r) \/ AdminNext(r)
      PROVE  Seul'
  <2>1. /\ UNCHANGED <<commande, paiement, facture, paypal, req, net, courriels>>
        /\ req[r].pc = "libre"
    BY <1>2
    DEF ClientNext, ModifierPanier, RetirerDuPanier, AdminNext, ReassortProduit, Libre
  <2> QED
    BY <1>0, <2>1, SeulMemes DEF Captures
<1>3. ASSUME NEW o \in Ordres, ClientApprouve(o)
      PROVE  Seul'
  <2>1. PICK x : x = [paypal[o] EXCEPT !.etat = "APPROVED"]
    OBVIOUS
  <2>2. /\ UNCHANGED <<commande, paiement, facture, panier, req, net, courriels>>
        /\ paypal[o].etat = "CREATED"
        /\ paypal' = [paypal EXCEPT ![o] = x] /\ x.etat = "APPROVED"
    BY <1>3, <2>1 DEF ClientApprouve, Inductif, TypeOK, PaypalT
  <2>3. \A c \in Commandes : Captures(c)' = Captures(c)
    BY <1>0, <2>2, CapturesMemes
  <2> QED
    BY <1>0, <2>2, <2>3, SeulMemes
<1>4. CASE UNCHANGED vars
  BY <1>0, <1>4, SeulMemes DEF vars, Captures
<1>5. ASSUME InvoicesNext(r)
      PROVE  Seul'
  BY <1>5, SeulGenerate, SeulFacture, SeulEnvoi DEF InvoicesNext
<1>6. \A x \in Requetes : x = r
  OBVIOUS
<1> QED
  BY <1>1, <1>2, <1>3, <1>4, <1>5, <1>6, SeulOrders, SeulPayments DEF Next

LEMMA SeulInit ==
  ASSUME Init
  PROVE  Seul
<1>1. /\ \A r \in Requetes : req[r].pc = "libre"
      /\ \A c \in Commandes : /\ ~EnLigne(c) /\ ~Paye(c) /\ ~Existe(c)
                              /\ Captures(c) = {} /\ net[c] = 0 /\ facture[c] = 0
                              /\ courriels[c] = [succes |-> 0, facture |-> 0]
  BY DEF Init, NonCommande, NonPaiement, EnLigne, Paye, Existe, Captures
<1>2. \A r \in Requetes : RequeteSeule(req[r])
  BY <1>1 DEF RequeteSeule, AEnvoyer, AFacturer, ASortir
<1>3. ASSUME NEW c \in Commandes
      PROVE  DebitSeul(c) /\ SortieSeule(c) /\ DocumentsSeuls(c)
  <2>1. DebitSeul(c)
    BY <1>1 DEF DebitSeul
  <2>2. SortieSeule(c)
    BY <1>1 DEF SortieSeule
  <2>3. DocumentsSeuls(c)
    BY <1>1 DEF DocumentsSeuls
  <2> QED
    BY <2>1, <2>2, <2>3
<1> QED
  BY <1>2, <1>3 DEF Seul

\* With one request at a time and no failure, the stock of a cash order and of a
\* paid online order is out, once, and that of any other is in.
THEOREM StockJusteVrai ==
  ASSUME NEW r, Requetes = {r}, MaxPannes = 0
  PROVE  Spec => []StockJuste
<1>1. Init => Inductif /\ Seul
  BY InductifInit, SeulInit
<1>2. Inductif /\ Seul /\ [Next]_vars => (Inductif /\ Seul)'
  BY InductifPas, SeulPas
<1>3. Inductif /\ Seul => StockJuste
  <2> SUFFICES ASSUME Inductif, Seul, AuRepos, NEW c \in Commandes
               PROVE  /\ net[c] \in {0, 1}
                      /\ Existe(c) /\ commande[c].etat # "ANNULEE" =>
                           (net[c] = 1 <=> ALaLivraison(c) \/ Paye(c))
                      /\ EnLigneNonPaye(c) => net[c] = 0
    BY DEF StockJuste
  <2>1. ~Sur(c, ASortir) /\ SortieSeule(c)
    BY DEF AuRepos, Libre, Sur, ASortir, Seul
  <2>2. Existe(c) => EnLigne(c) \/ ALaLivraison(c)
    BY DEF Inductif, TypeOK, PaiementT, TablesFideles, EnLigne, ALaLivraison
  <2>3. ~(EnLigne(c) /\ ALaLivraison(c))
    BY DEF EnLigne, ALaLivraison
  <2> QED
    BY <2>1, <2>2, <2>3 DEF SortieSeule, EnLigneNonPaye
<1> QED
  BY <1>1, <1>2, <1>3, PTL DEF Spec

\* With one request at a time and no failure, nothing happens twice and nothing is
\* forgotten: one debit, one e-mail of each kind and one invoice for an order.
THEOREM UneSeuleFoisVrai ==
  ASSUME NEW r, Requetes = {r}, MaxPannes = 0
  PROVE  Spec => []UneSeuleFois
<1>1. Init => Inductif /\ Seul
  BY InductifInit, SeulInit
<1>2. Inductif /\ Seul /\ [Next]_vars => (Inductif /\ Seul)'
  BY InductifPas, SeulPas
<1>3. Inductif /\ Seul => UneSeuleFois
  <2> SUFFICES ASSUME Inductif, Seul
               PROVE  UneSeuleFois
    OBVIOUS
  <2>1. ASSUME NEW c \in Commandes
        PROVE  /\ Cardinality(Captures(c)) <= 1
               /\ AuRepos /\ EnLigne(c) => (Paye(c) <=> Captures(c) # {})
    <3>1. DebitSeul(c)
      BY DEF Seul
    <3>2. AuRepos => \A x \in Requetes : req[x].pc # "statut"
      BY DEF AuRepos, Libre
    <3>3. Cardinality(Captures(c)) <= 1
      <4>1. CASE Captures(c) = {}
        BY <4>1, FS_EmptySet
      <4>2. CASE Captures(c) # {}
        <5>1. PICK o : Captures(c) = {o}
          BY <3>1, <4>2 DEF DebitSeul
        <5> QED
          BY <5>1, FS_Singleton
      <4> QED
        BY <4>1, <4>2
    <3> QED
      BY <3>1, <3>2, <3>3 DEF DebitSeul
  <2>2. UnSeulCourriel
    BY DEF UnSeulCourriel, Seul, DocumentsSeuls
  <2>3. EncaisseeFacturee
    <3> SUFFICES ASSUME AuRepos, NEW c \in Commandes, Encaisse(c)
                 PROVE  facture[c] # 0
      BY DEF EncaisseeFacturee
    <3>1. ~Sur(c, AFacturer) /\ DocumentsSeuls(c)
      BY DEF AuRepos, Libre, Sur, AFacturer, ASortir, Seul
    <3>2. Paye(c)
      BY <2>1 DEF Encaisse
    <3> QED
      BY <3>1, <3>2 DEF DocumentsSeuls
  <2> QED
    BY <2>1, <2>2, <2>3 DEF UneSeuleFois, UnSeulDebit, Inductif
<1> QED
  BY <1>1, <1>2, <1>3, PTL DEF Spec

----------------------------------------------------------------------------
(* Boutique implements Encaissement: each step of a request is an event of
   the abstract specification, or changes nothing that it sees. *)

\* What the abstract specification sees of the shop.
VuSuivi == [c \in Commandes |-> commande[c].etat]
VuMethode == [c \in Commandes |-> paiement[c].methode]
VuEncaisse == [c \in Commandes |-> Encaisse(c)]
VuLivreur == [c \in Commandes |-> commande[c].livreur]
Vu == <<VuSuivi, VuMethode, VuEncaisse, VuLivreur, net, facture>>

LEMMA VuInchange ==
  ASSUME UNCHANGED Vu
  PROVE  UNCHANGED Promesse!evars
BY DEF Vu, VuSuivi, VuMethode, VuEncaisse, VuLivreur, Promesse!evars

\* The money of every order is seen the same when neither the payments nor
\* PayPal's orders change.
LEMMA EncaisseInchange ==
  ASSUME UNCHANGED <<paiement, paypal>>
  PROVE  UNCHANGED <<VuMethode, VuEncaisse>>
BY DEF VuMethode, VuEncaisse, Encaisse, EnLigne, ALaLivraison, Paye, Captures

\* The gate of the abstract specification is the one of the handlers.
LEMMA MemePorte ==
  ASSUME NEW c \in Commandes, Confirmee(c)
  PROVE  Promesse!Confirmee(c)
BY DEF Promesse!Confirmee, Confirmee, EnLigne

LEMMA PromesseInit ==
  ASSUME Init
  PROVE  Promesse!EInit
BY DEF Init, Promesse!EInit, NonCommande, NonPaiement, Encaisse, EnLigne,
       ALaLivraison

\* create is Passer.
LEMMA PromesseCreate ==
  ASSUME Inductif, NEW r \in Requetes, CreateTransaction(r)
  PROVE  Promesse!ENext
<1>1. PICK d \in Commandes : CreateTransaction(r)!2!(d)
  BY DEF CreateTransaction
<1>2. /\ req[r] \in EtapeCreate
      /\ UNCHANGED <<facture, paypal>>
  BY EtapeSelonPc DEF CreateTransaction, Inductif, TypeOK
<1> DEFINE m == req[r].methode
<1>3. PICK n \in {0, 1} : /\ n = IF m = "EN_LIGNE" THEN 0 ELSE 1
                          /\ net' = [net EXCEPT ![d] = @ + n]
  BY <1>1 DEF Inductif, TypeOK
<1>4. m \in {"EN_LIGNE", "A_LA_LIVRAISON"}
  BY <1>2, DonneesAssumption DEF EtapeCreate
<1>5. /\ VuSuivi[d] = "AUCUN"
      /\ VuSuivi' = [VuSuivi EXCEPT ![d] = "EN_ATTENTE"]
      /\ VuMethode' = [VuMethode EXCEPT ![d] = m]
  BY <1>1 DEF VuSuivi, VuMethode, Existe, Inductif, TypeOK
<1>6. VuLivreur' = VuLivreur
  <2>1. commande[d].livreur = Aucun
    BY <1>1 DEF Inductif, TablesFideles
  <2>2. \A c \in Commandes : commande'[c].livreur = commande[c].livreur
    BY <1>1, <2>1 DEF Inductif, TypeOK
  <2> QED BY <2>2 DEF VuLivreur
<1>7. VuEncaisse' = VuEncaisse
  <2>1. ASSUME NEW c \in Commandes, c # d
        PROVE  Encaisse(c)' = Encaisse(c)
    <3>1. paiement'[c] = paiement[c]
      BY <1>1, <2>1 DEF Inductif, TypeOK
    <3> QED BY <1>2, <3>1 DEF Encaisse, EnLigne, ALaLivraison, Paye, Captures
  <2>2. ~Encaisse(d)
    BY <1>1, EncaisseeExiste DEF Inductif
  <2>3. Captures(d)' = {}
    <3>1. \A o \in Ordres : paypal[o].etat = "COMPLETED" => paypal[o].commande # d
      BY <1>1 DEF Inductif, TablesFideles, Existe, EnLigne
    <3> QED BY <1>2, <3>1 DEF Captures
  <2>4. paiement'[d].statut = "PENDING"
    BY <1>1 DEF Inductif, TypeOK
  <2>5. ~Encaisse(d)'
    BY <2>3, <2>4 DEF Encaisse, Paye
  <2>6. \A c \in Commandes : Encaisse(c)' = Encaisse(c)
    BY <2>1, <2>2, <2>5 DEF Encaisse, EnLigne, ALaLivraison, Paye
  <2> QED BY <2>6 DEF VuEncaisse
<1>8. Promesse!Passer(d, m, n)
  BY <1>2, <1>3, <1>5, <1>6, <1>7
  DEF Promesse!Passer, VuSuivi, VuMethode, VuEncaisse, VuLivreur
<1> QED BY <1>3, <1>4, <1>8 DEF Promesse!ENext

\* The writes of update, cancel, assignLivreur and updateStatus.
LEMMA PromesseCommande ==
  ASSUME Inductif, NEW r \in Requetes, EcritCommande(r)
  PROVE  [Promesse!ENext]_(Promesse!evars)
<1> USE DEF Inductif
<1>1. UNCHANGED <<VuMethode, VuEncaisse>> /\ UNCHANGED facture
  BY EncaisseInchange
  DEF EcritCommande, UpdateEcrire, CancelTransaction, AssignLivreurEcrire,
      UpdateStatusEcrire
<1>2. CASE UpdateEcrire(r)
  <2>1. \A c \in Commandes : /\ commande'[c].etat = commande[c].etat
                             /\ commande'[c].livreur = commande[c].livreur
    BY <1>2 DEF UpdateEcrire, TypeOK, CommandeT
  <2> QED
    BY <1>1, <1>2, <2>1, VuInchange DEF UpdateEcrire, Vu, VuSuivi, VuLivreur
<1>3. CASE CancelTransaction(r)
  <2>1. PICK c \in Commandes : c = req[r].c
    BY <1>3, EtapeSelonPc DEF CancelTransaction, TypeOK, EtapeCancel
  <2>2. Existe(c) /\ (req[r].jamaisConsommee \/ Confirmee(c))
    BY <1>3, <2>1 DEF CancelTransaction, RequeteFidele
  <2>3. /\ VuSuivi' = [VuSuivi EXCEPT ![c] = "ANNULEE"]
        /\ VuSuivi[c] # "AUCUN"
        /\ VuLivreur' = VuLivreur
    BY <1>3, <2>1, <2>2 DEF CancelTransaction, TypeOK, CommandeT, VuSuivi,
                            VuLivreur, Existe
  <2>4. CASE UNCHANGED net
    <3>1. Promesse!Suivre(c, "ANNULEE")
      BY <1>1, <2>1, <2>3, <2>4
      DEF Promesse!Suivre, VuSuivi, VuMethode, VuEncaisse, VuLivreur
    <3> QED BY <2>1, <3>1 DEF Promesse!ENext
  <2>5. CASE net' = [net EXCEPT ![c] = @ - 1] /\ Confirmee(c)
    <3>1. Promesse!AnnulerEtRendre(c)
      BY <1>1, <2>1, <2>3, <2>5, MemePorte
      DEF Promesse!AnnulerEtRendre, VuSuivi, VuMethode, VuEncaisse, VuLivreur
    <3> QED BY <2>1, <3>1 DEF Promesse!ENext
  <2> QED BY <1>3, <2>1, <2>2, <2>4, <2>5 DEF CancelTransaction
<1>4. CASE AssignLivreurEcrire(r)
  <2>1. PICK c \in Commandes, l \in Livreurs :
          c = req[r].c /\ l = req[r].livreur
    BY <1>4, EtapeSelonPc DEF AssignLivreurEcrire, TypeOK, EtapeAssign
  <2>2. Existe(c) /\ Confirmee(c)
    BY <1>4, <2>1 DEF AssignLivreurEcrire, RequeteFidele
  <2>3. /\ VuSuivi' = VuSuivi
        /\ VuSuivi[c] # "AUCUN"
        /\ VuLivreur' = [VuLivreur EXCEPT ![c] = l]
        /\ UNCHANGED net
    BY <1>4, <2>1, <2>2 DEF AssignLivreurEcrire, TypeOK, CommandeT, VuSuivi,
                            VuLivreur, Existe
  <2>4. Promesse!Confier(c, l)
    BY <1>1, <2>1, <2>2, <2>3, MemePorte
    DEF Promesse!Confier, VuSuivi, VuMethode, VuEncaisse, VuLivreur
  <2> QED BY <2>1, <2>4 DEF Promesse!ENext
<1>5. CASE UpdateStatusEcrire(r)
  <2>1. PICK c \in Commandes, e \in Etats : c = req[r].c /\ e = req[r].etat
    BY <1>5, EtapeSelonPc DEF UpdateStatusEcrire, TypeOK, EtapeStatus
  <2>2. /\ Existe(c)
        /\ e # "ANNULEE" => Confirmee(c)
        /\ e = "LIVREE" => Encaisse(c)
    BY <1>5, <2>1 DEF UpdateStatusEcrire, RequeteFidele
  <2>3. /\ VuSuivi' = [VuSuivi EXCEPT ![c] = e]
        /\ VuSuivi[c] # "AUCUN"
        /\ VuLivreur' = VuLivreur
        /\ UNCHANGED net
    BY <1>5, <2>1, <2>2 DEF UpdateStatusEcrire, TypeOK, CommandeT, VuSuivi,
                            VuLivreur, Existe
  <2>4. Promesse!Suivre(c, e)
    BY <1>1, <2>1, <2>2, <2>3, MemePorte
    DEF Promesse!Suivre, VuSuivi, VuMethode, VuEncaisse, VuLivreur
  <2> QED BY <2>1, <2>4 DEF Promesse!ENext, Etats
<1> QED BY <1>2, <1>3, <1>4, <1>5 DEF EcritCommande

\* Money taken for one order is Encaisser, or was seen before.
LEMMA PromesseArgent ==
  ASSUME NEW c \in Commandes, Existe(c), Encaisse(c)',
         \A d \in Commandes \ {c} : Encaisse(d)' = Encaisse(d),
         UNCHANGED <<VuSuivi, VuMethode, VuLivreur, net, facture>>
  PROVE  Promesse!ENext
<1>1. VuEncaisse' = [VuEncaisse EXCEPT ![c] = TRUE]
  <2>1. Encaisse(c)' = TRUE
    BY DEF Encaisse, EnLigne, ALaLivraison, Paye
  <2> QED BY <2>1 DEF VuEncaisse
<1>2. VuSuivi[c] # "AUCUN"
  BY DEF VuSuivi, Existe
<1>3. Promesse!Encaisser(c)
  BY <1>1, <1>2
  DEF Promesse!Encaisser, VuSuivi, VuMethode, VuEncaisse, VuLivreur
<1> QED BY <1>3 DEF Promesse!ENext

\* The writes of the payments, and PayPal's orders.
LEMMA PromessePaiement ==
  ASSUME Inductif,
         \/ \E r \in Requetes : \/ InitiateEcrire(r)
                                \/ StatutEcrire(r)
                                \/ CaptureOrder(r)
         \/ \E r \in Requetes, d \in Commandes, x \in Ordres :
              InitiateOnlinePayment(r, d, x)
         \/ \E x \in Ordres : ClientApprouve(x)
  PROVE  [Promesse!ENext]_(Promesse!evars)
<1> USE DEF Inductif
<1>1. UNCHANGED <<VuSuivi, VuLivreur, net, facture>>
  BY DEF InitiateEcrire, StatutEcrire, CaptureOrder, InitiateOnlinePayment,
         ClientApprouve, VuSuivi, VuLivreur
<1>2. \A c \in Commandes : paiement'[c].methode = paiement[c].methode
  <2>1. \/ UNCHANGED paiement
        \/ \E r \in Requetes : InitiateEcrire(r) \/ StatutEcrire(r)
    BY DEF CaptureOrder, InitiateOnlinePayment, ClientApprouve
  <2>2. ASSUME NEW r \in Requetes, InitiateEcrire(r)
        PROVE  \A c \in Commandes : paiement'[c].methode = paiement[c].methode
    BY <2>2 DEF InitiateEcrire, TypeOK, PaiementT
  <2>3. ASSUME NEW r \in Requetes, StatutEcrire(r)
        PROVE  \A c \in Commandes : paiement'[c].methode = paiement[c].methode
    BY <2>3 DEF StatutEcrire, TypeOK, PaiementT
  <2> QED BY <2>1, <2>2, <2>3
<1>3. VuMethode' = VuMethode
  BY <1>2 DEF VuMethode
<1>4. CASE \A c \in Commandes : Encaisse(c)' = Encaisse(c)
  BY <1>1, <1>3, <1>4, VuInchange DEF Vu, VuEncaisse
<1>5. ASSUME NEW r \in Requetes, InitiateEcrire(r)
      PROVE  \A c \in Commandes : Encaisse(c)' = Encaisse(c)
  <2>1. \A c \in Commandes : paiement'[c].statut = paiement[c].statut
    BY <1>5 DEF InitiateEcrire, TypeOK, PaiementT
  <2> QED
    BY <1>2, <1>5, <2>1 DEF InitiateEcrire, Encaisse, EnLigne, ALaLivraison,
                            Paye, Captures
<1>6. ASSUME NEW r \in Requetes, StatutEcrire(r)
      PROVE  \/ \A c \in Commandes : Encaisse(c)' = Encaisse(c)
             \/ Promesse!ENext
  <2>1. PICK c \in Commandes, s \in BOOLEAN :
          req[r] = [pc |-> "statut", c |-> c, success |-> s]
    BY <1>6, EtapeSelonPc DEF StatutEcrire, TypeOK, EtapeIssue
  <2>2. Existe(c) /\ (~EnLigne(c) => s)
    BY <2>1 DEF RequeteFidele
  <2>3. /\ paiement' = [paiement EXCEPT ![c].statut = StatutDe(s)]
        /\ UNCHANGED paypal
    BY <1>6, <2>1 DEF StatutEcrire
  <2>4. \A d \in Commandes \ {c} : Encaisse(d)' = Encaisse(d)
    BY <2>3 DEF TypeOK, Encaisse, EnLigne, ALaLivraison, Paye, Captures
  <2>5. CASE EnLigne(c)
    <3>1. Encaisse(c)' = Encaisse(c)
      BY <1>2, <2>3, <2>5 DEF Encaisse, EnLigne, Captures
    <3> QED BY <2>4, <3>1
  <2>6. CASE ~EnLigne(c)
    <3>1. ALaLivraison(c)
      BY <2>2, <2>6, Conditions
    <3>2. paiement'[c].methode = "A_LA_LIVRAISON"
      BY <1>2, <3>1 DEF ALaLivraison
    <3>3. paiement'[c].statut = "SUCCESS"
      BY <2>2, <2>3, <2>6 DEF StatutDe, TypeOK, PaiementT
    <3>4. Encaisse(c)'
      BY <3>2, <3>3 DEF Encaisse, EnLigne, ALaLivraison, Paye
    <3> QED BY <1>1, <1>3, <2>2, <2>4, <3>4, PromesseArgent
  <2> QED BY <2>5, <2>6
<1>7. ASSUME NEW r \in Requetes, CaptureOrder(r)
      PROVE  \/ \A c \in Commandes : Encaisse(c)' = Encaisse(c)
             \/ Promesse!ENext
  <2>1. PICK c \in Commandes, o \in Ordres :
          req[r] = [pc |-> "capture", c |-> c, ordre |-> o]
    BY <1>7, EtapeSelonPc DEF CaptureOrder, TypeOK, EtapeCapture
  <2>2. /\ Existe(c)
        /\ paypal[o].etat # "AUCUN"
        /\ paypal[o].commande = c
    BY <2>1 DEF RequeteFidele
  <2>3. EnLigne(c) /\ UNCHANGED paiement
    BY <1>7, <2>2 DEF CaptureOrder, TablesFideles
  <2>4. CASE paypal' = [paypal EXCEPT ![o].etat = "COMPLETED"]
    <3>1. /\ paypal'[o].etat = "COMPLETED"
          /\ paypal'[o].commande = c
          /\ \A x \in Ordres \ {o} : paypal'[x] = paypal[x]
      BY <2>2, <2>4 DEF TypeOK, PaypalT
    <3>2. Encaisse(c)'
      BY <2>3, <3>1 DEF Encaisse, EnLigne, Captures
    <3>3. ASSUME NEW d \in Commandes \ {c}
          PROVE  Captures(d)' = Captures(d)
      BY <2>2, <3>1 DEF Captures
    <3>4. \A d \in Commandes \ {c} : Encaisse(d)' = Encaisse(d)
      BY <2>3, <3>3 DEF Encaisse, EnLigne, ALaLivraison, Paye
    <3> QED BY <1>1, <1>3, <2>2, <3>2, <3>4, PromesseArgent
  <2>5. CASE \/ /\ paypal[o].etat = "APPROVED"
                /\ paypal' = [paypal EXCEPT ![o].etat = "CREATED"]
             \/ UNCHANGED paypal
    <3>1. \A x \in Ordres : /\ paypal'[x].commande = paypal[x].commande
                            /\ paypal'[x].etat = "COMPLETED" <=>
                                 paypal[x].etat = "COMPLETED"
      BY <2>5 DEF TypeOK, PaypalT
    <3>2. \A d \in Commandes : Captures(d)' = Captures(d)
      BY <3>1 DEF Captures
    <3> QED BY <2>3, <3>2 DEF Encaisse, EnLigne, ALaLivraison, Paye
  <2> QED BY <1>7, <2>1, <2>4, <2>5 DEF CaptureOrder
<1>8. ASSUME \/ \E r \in Requetes, d \in Commandes, x \in Ordres :
                  InitiateOnlinePayment(r, d, x)
             \/ \E x \in Ordres : ClientApprouve(x)
      PROVE  \A c \in Commandes : Encaisse(c)' = Encaisse(c)
  <2>1. UNCHANGED paiement
    BY <1>8 DEF InitiateOnlinePayment, ClientApprouve
  <2> DEFINE Meme(o) ==
        /\ paypal'[o].etat = "COMPLETED" <=> paypal[o].etat = "COMPLETED"
        /\ paypal'[o].etat = "COMPLETED" =>
             paypal'[o].commande = paypal[o].commande
  <2>2. \A o \in Ordres : Meme(o)
    <3>1. ASSUME NEW r \in Requetes, NEW d \in Commandes, NEW x \in Ordres,
                 InitiateOnlinePayment(r, d, x), NEW o \in Ordres
          PROVE  Meme(o)
      BY <3>1 DEF InitiateOnlinePayment, TypeOK
    <3>2. ASSUME NEW x \in Ordres, ClientApprouve(x), NEW o \in Ordres
          PROVE  Meme(o)
      BY <3>2 DEF ClientApprouve, TypeOK, PaypalT
    <3> QED BY <1>8, <3>1, <3>2
  <2>3. \A c \in Commandes : Captures(c)' = Captures(c)
    BY <2>2 DEF Captures
  <2> QED BY <2>1, <2>3 DEF Encaisse, EnLigne, ALaLivraison, Paye
<1> QED BY <1>4, <1>5, <1>6, <1>7, <1>8

\* The consumption is Sortir.
LEMMA PromesseConsommation ==
  ASSUME Inductif, NEW r \in Requetes, ConfirmOnlinePaymentTransaction(r)
  PROVE  [Promesse!ENext]_(Promesse!evars)
<1> USE DEF Inductif
<1>1. PICK c \in Commandes : c = req[r].c
  BY EtapeSelonPc DEF ConfirmOnlinePaymentTransaction, TypeOK, EtapeConsommer
<1>2. Existe(c) /\ Encaisse(c)
  BY <1>1 DEF ConfirmOnlinePaymentTransaction, RequeteFidele
<1>3. /\ UNCHANGED <<commande, paiement, facture, paypal>>
      /\ UNCHANGED net \/ net' = [net EXCEPT ![c] = @ + 1]
  BY <1>1 DEF ConfirmOnlinePaymentTransaction, Consommation
<1>4. UNCHANGED <<VuSuivi, VuMethode, VuEncaisse, VuLivreur>>
  BY <1>3, EncaisseInchange DEF VuSuivi, VuLivreur
<1>5. CASE UNCHANGED net
  BY <1>3, <1>4, <1>5, VuInchange DEF Vu
<1>6. CASE net' = [net EXCEPT ![c] = @ + 1]
  <2>1. VuSuivi[c] # "AUCUN"
    BY <1>2 DEF VuSuivi, Existe
  <2>2. Confirmee(c)
    BY <1>2 DEF Confirmee
  <2>3. Promesse!Sortir(c)
    BY <1>3, <1>4, <1>6, <2>1, <2>2, MemePorte
    DEF Promesse!Sortir, VuSuivi, VuMethode, VuEncaisse, VuLivreur
  <2> QED BY <2>3 DEF Promesse!ENext
<1> QED BY <1>3, <1>5, <1>6

\* The insert of an invoice is Facturer.
LEMMA PromesseFacture ==
  ASSUME Inductif, [Next]_vars, NEW r \in Requetes, FactureCreate(r)
  PROVE  [Promesse!ENext]_(Promesse!evars)
<1> USE DEF Inductif
<1>1. PICK c \in Commandes, n \in Nat \ {0} :
        req[r] = [pc |-> "facture", c |-> c, numero |-> n]
  BY EtapeSelonPc DEF FactureCreate, TypeOK, EtapeFacture
<1>2. UNCHANGED <<VuSuivi, VuMethode, VuEncaisse, VuLivreur, net>>
  <2>1. UNCHANGED <<commande, paiement, paypal, net>>
    BY DEF FactureCreate
  <2> QED BY <2>1, EncaisseInchange DEF VuSuivi, VuLivreur
<1>3. CASE UNCHANGED facture
  BY <1>2, <1>3, VuInchange DEF Vu
<1>4. CASE facture' = [facture EXCEPT ![c] = n] /\ ~Doublon(c, n)
  <2> DEFINE k == Cardinality(Facturees)
  <2>1. n = k + 1 /\ k \in Nat
    <3>1. n \notin {facture[d] : d \in Facturees}
      BY <1>4 DEF Doublon, Facturees
    <3>2. n <= k + 1
      BY <1>1 DEF NumerosTires
    <3> QED BY <3>1, <3>2, CardinaliteFacturees DEF FacturesSequentielles
  <2>2. Encaisse(c) /\ facture[c] = 0
    BY <1>1, <1>4 DEF FactureCreate, RequeteFidele, Doublon, Facturees
  <2>3. {facture[d] : d \in Commandes} = 0 .. k
    <3>1. {facture[d] : d \in Facturees} = 1 .. k
      BY DEF FacturesSequentielles
    <3>2. {facture[d] : d \in Commandes} = {facture[d] : d \in Facturees} \cup {0}
      BY <2>2 DEF Facturees
    <3>3. (1 .. k) \cup {0} = 0 .. k
      BY <2>1
    <3> QED BY <3>1, <3>2, <3>3
  <2>4. PICK m \in {facture[d] : d \in Commandes} : m = n - 1
    BY <2>1, <2>3
  <2>5. {facture[d] : d \in Commandes} = 0 .. m /\ n = m + 1
    BY <2>1, <2>3, <2>4
  <2>6. Promesse!Facturer(c, m)
    BY <1>2, <1>4, <2>2, <2>5
    DEF Promesse!Facturer, VuSuivi, VuMethode, VuEncaisse, VuLivreur
  <2> QED BY <2>4, <2>6 DEF Promesse!ENext
<1> QED BY <1>1, <1>3, <1>4 DEF FactureCreate

LEMMA PromessePas ==
  ASSUME Inductif, [Next]_vars
  PROVE  [Promesse!ENext]_(Promesse!evars)
<1>1. CASE UNCHANGED <<tables, net>>
  BY <1>1, EncaisseInchange, VuInchange DEF tables, Vu, VuSuivi, VuLivreur
<1>2. CASE \E r \in Requetes : EcritTables(r)
  BY <1>2, PromesseCreate, PromesseCommande, PromessePaiement, PromesseFacture
  DEF EcritTables
<1>3. CASE \E o \in Ordres : ClientApprouve(o)
  BY <1>3, PromessePaiement
<1>4. CASE \E r \in Requetes : ConfirmOnlinePaymentTransaction(r)
  BY <1>4, PromesseConsommation
<1>5. \/ UNCHANGED net
      \/ \E r \in Requetes : \/ CreateTransaction(r)
                             \/ CancelTransaction(r)
                             \/ ConfirmOnlinePaymentTransaction(r)
  <2>1. ASSUME NEW r \in Requetes, OrdersNext(r)
        PROVE  \/ UNCHANGED net
               \/ CreateTransaction(r)
               \/ CancelTransaction(r)
               \/ ConfirmOnlinePaymentTransaction(r)
    BY <2>1
    DEF OrdersNext, Create, Update, UpdateEcrire, Cancel, AssignLivreur,
        AssignLivreurEcrire, UpdateStatus, UpdateStatusEcrire,
        ConfirmOnlinePaymentSuccess
  <2>2. ASSUME NEW r \in Requetes, InvoicesNext(r) \/ PaymentsNext(r)
        PROVE  UNCHANGED net
    BY <2>2
    DEF InvoicesNext, GenerateForCommande, FactureCreate, SendInvoiceByEmail,
        PaymentsNext, InitiateOnlinePayment, InitiateEcrire,
        CaptureOnlinePayment, CaptureOrder, StatutEcrire, Notifier,
        CancelApresEchec, ConfirmCashPayment
  <2>3. ASSUME NEW r \in Requetes, ClientNext(r) \/ AdminNext(r) \/ Panne(r)
        PROVE  UNCHANGED net
    BY <2>3
    DEF ClientNext, ModifierPanier, RetirerDuPanier, AdminNext,
        ReassortProduit, Panne
  <2> QED BY <2>1, <2>2, <2>3 DEF Next, vars, ClientApprouve
<1> QED
  BY <1>1, <1>2, <1>3, <1>4, <1>5, Cadre DEF EcritTables, EcritCommande, tables

\* Every behaviour of the shop, with any number of requests and failures, is
\* one of Encaissement.
THEOREM ArgentDAbordVrai == Spec => ArgentDAbord
<1>1. Init => Promesse!EInit
  BY PromesseInit
<1>2. Inductif /\ [Next]_vars => [Promesse!ENext]_(Promesse!evars)
  BY PromessePas
<1> QED
  BY <1>1, <1>2, InductifVrai, PTL DEF Spec, ArgentDAbord, Promesse!ESpec

----------------------------------------------------------------------------
(* From the money to the invoice.                                          *)

\* A request that goes on to step e leaves the others where they are.
LEMMA PorteEtape ==
  ASSUME TypeOK, NEW r \in Requetes, NEW e, Etape(r, e), NEW c,
         NEW x \in Requetes, Porteur(req[x], c), x # r \/ Porteur(e, c)
  PROVE  Porte(c)'
<1>1. CASE x # r
  <2>1. req'[x] = req[x]
    BY <1>1 DEF Etape, TypeOK
  <2> QED BY <2>1 DEF Porte, Porteur
<1>2. CASE Porteur(e, c)
  <2>1. req'[r] = e
    BY DEF Etape, TypeOK
  <2> QED BY <1>2, <2>1 DEF Porte, Porteur
<1> QED BY <1>1, <1>2

\* A step of a request keeps every other one on its way to the invoice.
LEMMA PorteAutre ==
  ASSUME TypeOK, NEW r \in Requetes, NEW c, NEW x \in Requetes, x # r,
         Porteur(req[x], c),
         \/ OrdersNext(r) \/ InvoicesNext(r) \/ PaymentsNext(r)
         \/ ClientNext(r) \/ AdminNext(r) \/ Panne(r)
  PROVE  Porte(c)'
<1>1. UNCHANGED req \/ \E e : Etape(r, e)
  <2>1. CASE OrdersNext(r)
    BY <2>1
    DEF OrdersNext, Create, CreateTransaction, Update, UpdateEcrire, Cancel,
        CancelLire, CancelTransaction, AssignLivreur, AssignLivreurEcrire,
        UpdateStatus, UpdateStatusEcrire, ConfirmOnlinePaymentSuccess,
        ConfirmOnlinePaymentTransaction, Consommation, Repond
  <2>2. CASE InvoicesNext(r)
    BY <2>2
    DEF InvoicesNext, GenerateForCommande, FactureCreate, SendInvoiceByEmail,
        Repond
  <2>3. CASE PaymentsNext(r)
    BY <2>3
    DEF PaymentsNext, InitiateOnlinePayment, InitiateEcrire,
        CaptureOnlinePayment, CaptureOrder, StatutEcrire, Notifier,
        CancelApresEchec, CancelLire, ConfirmCashPayment, Repond
  <2>4. CASE ClientNext(r) \/ AdminNext(r) \/ Panne(r)
    BY <2>4
    DEF ClientNext, ModifierPanier, RetirerDuPanier, AdminNext,
        ReassortProduit, Panne, Repond
  <2> QED BY <2>1, <2>2, <2>3, <2>4
<1>2. CASE UNCHANGED req
  BY <1>2 DEF Porte, Porteur
<1> QED BY <1>1, <1>2, PorteEtape

\* A request on its way takes its next step towards the invoice, has made it, or
\* is stopped.
LEMMA PorteurAvance ==
  ASSUME Inductif, NEW r \in Requetes, NEW c \in Commandes, Porteur(req[r], c),
         facture'[c] = 0,
         \/ OrdersNext(r) \/ InvoicesNext(r) \/ PaymentsNext(r)
         \/ ClientNext(r) \/ AdminNext(r) \/ Panne(r)
  PROVE  Porte(c)' \/ Interrompue(c)
<1> USE DEF Inductif
<1>0. /\ TypeOK /\ req[r].c = c
      /\ req[r].pc \in {"statut", "notifier", "confirmOnline", "consommer",
                        "generate", "facture"}
      /\ req[r].pc \in {"statut", "notifier"} => req[r].success
  BY DEF Porteur
<1>1. CASE Panne(r)
  <2>1. pannes' > pannes /\ req'[r].pc = "libre"
    BY <1>1 DEF Panne, Repond, Etape, TypeOK
  <2> QED BY <2>1 DEF Interrompue
<1>2. CASE ClientNext(r) \/ AdminNext(r)
  BY <1>0, <1>2
  DEF ClientNext, ModifierPanier, RetirerDuPanier, AdminNext, ReassortProduit,
      Libre
<1>3. CASE OrdersNext(r)
  <2>1. ConfirmOnlinePaymentSuccess(r) \/ ConfirmOnlinePaymentTransaction(r)
    BY <1>0, <1>3
    DEF OrdersNext, Create, CreateTransaction, Update, UpdateEcrire, Cancel,
        CancelTransaction, AssignLivreur, AssignLivreurEcrire, UpdateStatus,
        UpdateStatusEcrire, Libre
  <2>2. CASE ConfirmOnlinePaymentSuccess(r)
    <3> DEFINE e == [pc |-> "consommer", c |-> c,
                     vu |-> panier[commande[c].client]]
    <3>1. Etape(r, e)
      BY <1>0, <2>2 DEF ConfirmOnlinePaymentSuccess
    <3>2. Porteur(e, c)
      BY DEF Porteur
    <3> QED BY <1>0, <3>1, <3>2, PorteEtape
  <2>3. CASE ConfirmOnlinePaymentTransaction(r)
    <3> DEFINE l == commande[c].lignes
               vus == Presents(l) \cap Presents(req[r].vu)
               u == commande[c].client
    <3>1. CASE vus \subseteq Presents(panier[u])
      <4>1. Etape(r, [pc |-> "generate", c |-> c])
        BY <1>0, <2>3, <3>1 DEF ConfirmOnlinePaymentTransaction, Consommation
      <4>2. Porteur([pc |-> "generate", c |-> c], c)
        BY DEF Porteur
      <4> QED BY <1>0, <4>1, <4>2, PorteEtape
    <3>2. CASE ~(vus \subseteq Presents(panier[u]))
      <4>1. Repond(r) /\ req[r].pc = "consommer"
        BY <1>0, <2>3, <3>2 DEF ConfirmOnlinePaymentTransaction, Consommation
      <4>2. RangDisparu(r)
        BY <1>0, <3>2, <4>1 DEF RangDisparu, Presents
      <4>3. req'[r].pc = "libre"
        BY <1>0, <4>1 DEF Repond, Etape, TypeOK
      <4> QED BY <1>0, <4>2, <4>3 DEF Interrompue
    <3> QED BY <3>1, <3>2
  <2> QED BY <2>1, <2>2, <2>3
<1>4. CASE InvoicesNext(r)
  <2>1. CASE GenerateForCommande(r)
    <3> DEFINE e == [pc |-> "facture", c |-> c, numero |-> ProchainNumero]
    <3>1. c \notin Facturees
      BY <2>1 DEF GenerateForCommande, Facturees
    <3>2. Etape(r, e)
      BY <1>0, <2>1, <3>1 DEF GenerateForCommande
    <3>3. Porteur(e, c)
      BY DEF Porteur
    <3> QED BY <1>0, <3>2, <3>3, PorteEtape
  <2>2. CASE FactureCreate(r)
    <3>1. req[r].pc = "facture" /\ req[r] \in EtapeFacture
      BY <1>0, <2>2, EtapeSelonPc DEF FactureCreate, TypeOK
    <3>2. req[r].numero \in Nat \ {0}
      BY <3>1 DEF EtapeFacture
    <3>3. CASE Doublon(c, req[r].numero)
      <4>1. Repond(r) /\ UNCHANGED facture
        BY <1>0, <2>2, <3>3 DEF FactureCreate
      <4>2. c \notin Facturees
        BY <4>1 DEF Facturees
      <4>3. PICK d \in Commandes : facture[d] = req[r].numero
        BY <3>3, <4>2 DEF Doublon
      <4>4. d \in Facturees \ {c}
        BY <3>2, <4>2, <4>3 DEF Facturees
      <4>5. NumeroPris(r)
        BY <1>0, <3>1, <4>3, <4>4 DEF NumeroPris
      <4>6. req'[r].pc = "libre"
        BY <1>0, <4>1 DEF Repond, Etape, TypeOK
      <4> QED BY <1>0, <4>5, <4>6 DEF Interrompue
    <3>4. CASE ~Doublon(c, req[r].numero)
      <4>1. facture' = [facture EXCEPT ![c] = req[r].numero]
        BY <1>0, <2>2, <3>4 DEF FactureCreate
      <4> QED BY <3>2, <4>1 DEF TypeOK
    <3> QED BY <3>3, <3>4
  <2> QED BY <1>0, <1>4, <2>1, <2>2 DEF InvoicesNext, SendInvoiceByEmail
<1>5. CASE PaymentsNext(r)
  <2>1. StatutEcrire(r) \/ Notifier(r)
    BY <1>0, <1>5
    DEF PaymentsNext, InitiateOnlinePayment, InitiateEcrire,
        CaptureOnlinePayment, CaptureOrder, CancelApresEchec,
        ConfirmCashPayment, Libre
  <2>2. req[r] \in EtapeIssue
    BY <1>0, <2>1, EtapeSelonPc DEF StatutEcrire, Notifier, TypeOK
  <2>3. CASE StatutEcrire(r)
    <3> DEFINE e == [req[r] EXCEPT !.pc = "notifier"]
    <3>1. Etape(r, e) /\ req[r].pc = "statut"
      BY <2>3 DEF StatutEcrire
    <3>2. Porteur(e, c)
      BY <1>0, <2>2, <3>1 DEF Porteur, EtapeIssue
    <3> QED BY <1>0, <3>1, <3>2, PorteEtape
  <2>4. CASE Notifier(r)
    <3> DEFINE e == [pc |-> SuiteDe(c, req[r].success), c |-> c]
    <3>1. Etape(r, e) /\ req[r].success
      BY <1>0, <2>4 DEF Notifier
    <3>2. Porteur(e, c)
      BY <3>1 DEF Porteur, SuiteDe
    <3> QED BY <1>0, <3>1, <3>2, PorteEtape
  <2> QED BY <2>1, <2>3, <2>4
<1> QED BY <1>1, <1>2, <1>3, <1>4, <1>5

\* Only a capture PayPal completed and a confirmation of cash take the money of
\* an order, and the request that did goes on.
LEMMA EncaisseePortee ==
  ASSUME Inductif, [Next]_vars, NEW c \in Commandes, ~Encaisse(c), Encaisse(c)'
  PROVE  Porte(c)'
<1> USE DEF Inductif
<1>1. CASE UNCHANGED tables
  BY <1>1 DEF tables, Encaisse, EnLigne, ALaLivraison, Paye, Captures
<1>2. ASSUME NEW r \in Requetes, CreateTransaction(r)
      PROVE  FALSE
  <2>1. PICK d \in Commandes : CreateTransaction(r)!2!(d)
    BY <1>2 DEF CreateTransaction
  <2>2. UNCHANGED paypal
    BY <1>2 DEF CreateTransaction
  <2>3. d = c
    BY <2>1, <2>2
    DEF TypeOK, Encaisse, EnLigne, ALaLivraison, Paye, Captures
  <2>4. paiement'[c].statut = "PENDING"
    BY <2>1, <2>3 DEF TypeOK
  <2>5. Captures(c)' = {}
    BY <2>1, <2>2, <2>3 DEF Captures, TablesFideles, Existe, EnLigne
  <2> QED BY <2>4, <2>5 DEF Encaisse, Paye
<1>3. ASSUME NEW r \in Requetes, EcritCommande(r)
      PROVE  FALSE
  BY <1>3, CommandeEcrite DEF Encaisse, EnLigne, ALaLivraison, Paye, Captures
<1>4. ASSUME NEW r \in Requetes, InitiateEcrire(r)
      PROVE  FALSE
  <2>1. \A d \in Commandes : /\ paiement'[d].methode = paiement[d].methode
                             /\ paiement'[d].statut = paiement[d].statut
    BY <1>4 DEF InitiateEcrire, TypeOK, PaiementT
  <2> QED
    BY <1>4, <2>1 DEF InitiateEcrire, Encaisse, EnLigne, ALaLivraison, Paye,
                      Captures
<1>5. ASSUME NEW r \in Requetes, StatutEcrire(r)
      PROVE  Porte(c)'
  <2> DEFINE e == [req[r] EXCEPT !.pc = "notifier"]
  <2>1. req[r] \in EtapeIssue /\ Etape(r, e) /\ UNCHANGED paypal
    BY <1>5, EtapeSelonPc DEF StatutEcrire, TypeOK
  <2>2. paiement' = [paiement EXCEPT ![req[r].c].statut = StatutDe(req[r].success)]
    BY <1>5 DEF StatutEcrire
  <2>3. paiement'[c].methode = paiement[c].methode
    BY <2>2 DEF TypeOK, PaiementT
  <2>4. ~EnLigne(c) /\ Paye(c)' /\ ~Paye(c)
    BY <2>1, <2>3 DEF Encaisse, EnLigne, ALaLivraison, Captures
  <2>5. req[r].c = c /\ req[r].success
    BY <2>1, <2>2, <2>4 DEF Paye, StatutDe, TypeOK, PaiementT, EtapeIssue
  <2>6. req'[r] = e
    BY <2>1 DEF Etape, TypeOK
  <2> QED BY <2>1, <2>5, <2>6 DEF Porte, Porteur, EtapeIssue
<1>6. ASSUME NEW r \in Requetes, CaptureOrder(r)
      PROVE  Porte(c)'
  <2> DEFINE o == req[r].ordre
             e == [pc |-> "statut", c |-> req[r].c, success |-> TRUE]
  <2>1. /\ o \in Ordres /\ req[r].pc = "capture"
        /\ UNCHANGED <<paiement, commande>>
    BY <1>6, EtapeSelonPc DEF CaptureOrder, TypeOK, EtapeCapture
  <2>2. paypal[o].commande = req[r].c
    BY <2>1 DEF RequeteFidele
  <2>3. EnLigne(c) /\ Captures(c) = {} /\ Captures(c)' # {}
    BY <2>1 DEF Encaisse, EnLigne, ALaLivraison, Paye
  <2>4. /\ paypal' = [paypal EXCEPT ![o].etat = "COMPLETED"] /\ Etape(r, e)
        /\ req[r].c = c
    <3>1. CASE /\ paypal' = [paypal EXCEPT ![o].etat = "COMPLETED"]
               /\ Etape(r, e)
      BY <2>1, <2>2, <2>3, <3>1 DEF Captures, TypeOK, PaypalT
    <3>2. CASE paypal' = [paypal EXCEPT ![o].etat = "CREATED"]
      BY <2>1, <2>3, <3>2 DEF Captures, TypeOK, PaypalT
    <3>3. CASE UNCHANGED paypal
      BY <2>3, <3>3 DEF Captures
    <3> QED BY <1>6, <3>1, <3>2, <3>3 DEF CaptureOrder
  <2>5. req'[r] = e
    BY <2>4 DEF Etape, TypeOK
  <2> QED BY <2>4, <2>5 DEF Porte, Porteur
<1>7. ASSUME NEW r \in Requetes, FactureCreate(r)
      PROVE  FALSE
  BY <1>7 DEF FactureCreate, Encaisse, EnLigne, ALaLivraison, Paye, Captures
<1>8. ASSUME NEW r \in Requetes, NEW d \in Commandes, NEW o \in Ordres,
             InitiateOnlinePayment(r, d, o)
      PROVE  FALSE
  <2>1. UNCHANGED paiement /\ Captures(c)' = Captures(c)
    BY <1>8 DEF InitiateOnlinePayment, Captures, TypeOK, PaypalT
  <2> QED BY <2>1 DEF Encaisse, EnLigne, ALaLivraison, Paye
<1>9. ASSUME NEW o \in Ordres, ClientApprouve(o)
      PROVE  FALSE
  <2>1. UNCHANGED paiement /\ Captures(c)' = Captures(c)
    BY <1>9 DEF ClientApprouve, Captures, TypeOK, PaypalT
  <2> QED BY <2>1 DEF Encaisse, EnLigne, ALaLivraison, Paye
<1> QED
  BY <1>1, <1>2, <1>3, <1>4, <1>5, <1>6, <1>7, <1>8, <1>9, Cadre
  DEF EcritTables

LEMMA SuiviePas ==
  ASSUME Inductif, [Next]_vars, NEW c \in Commandes, Encaisse(c)',
         facture'[c] = 0, Encaisse(c) => Porte(c)
  PROVE  Porte(c)' \/ Interrompue(c)
<1>1. CASE ~Encaisse(c)
  BY <1>1, EncaisseePortee
<1>2. CASE Encaisse(c)
  <2>1. PICK x \in Requetes : Porteur(req[x], c)
    BY <1>2 DEF Porte
  <2>2. CASE UNCHANGED req
    BY <2>1, <2>2 DEF Porte, Porteur
  <2>3. ASSUME NEW r \in Requetes,
               \/ OrdersNext(r) \/ InvoicesNext(r) \/ PaymentsNext(r)
               \/ ClientNext(r) \/ AdminNext(r) \/ Panne(r)
        PROVE  Porte(c)' \/ Interrompue(c)
    <3>1. CASE r = x
      BY <2>1, <2>3, <3>1, PorteurAvance
    <3>2. CASE r # x
      BY <2>1, <2>3, <3>2, PorteAutre DEF Inductif
    <3> QED BY <3>1, <3>2
  <2> QED BY <2>2, <2>3 DEF Next, vars, ClientApprouve
<1> QED BY <1>1, <1>2

\* From the money to the invoice, for any number of orders, of requests at a
\* time and of failures: nothing else stops the request that has the money than
\* its death, a number that two orders drew and a row of the cart that is gone.
THEOREM FactureSuivieVraie == Spec => FactureSuivie
<1>1. Inductif /\ [Next]_vars =>
        [\A c \in Commandes :
           Encaisse(c)' /\ facture'[c] = 0 /\ (Encaisse(c) => Porte(c))
             => Porte(c)' \/ Interrompue(c)]_vars
  BY SuiviePas
<1> QED BY <1>1, InductifVrai, PTL DEF Spec, FactureSuivie
=============================================================================
