---------------------------- MODULE CaissePreuves ----------------------------
(***************************************************************************)
(* Theorems of Suivi and Caisse, for any number of orders, people,         *)
(* products, PayPal orders, running requests and failures: every answer    *)
(* gives its button back, the client's page follows its order, and, when   *)
(* nobody reloads the return page while it waits, the buttons agree with   *)
(* the services and PayPal's pages tell the truth.                         *)
(***************************************************************************)
EXTENDS Caisse, BoutiquePreuves

----------------------------------------------------------------------------
(* What a slot and a tab hold.                                             *)

GestesEquipe == {"statut", "assigner", "cash"}
GestesClient == {"commander", "initier", "capturer", "annuler"}

GesteT == [quoi : {"rien"} \cup GestesEquipe \cup GestesClient,
           u : Equipe \cup {Aucun}, c : Commandes \cup {Aucun},
           rep : {"", "attend", "ok", "erreur", "refus"}]
PageT == [nom : {"caisse", "paypal", "retour", "annule", "suivi"},
          de : Commandes \cup Ordres \cup {Aucun},
          montre : {"prete", "attente", "succes", "erreur", "refus", "expiree",
                    "annulee"},
          par : Requetes \cup {Aucun}]

TypeCaisse ==
  /\ TypeSuivi
  /\ clic \in [Requetes -> GesteT]
  /\ onglet \in [Clients -> PageT]

\* The awaits of a request, by the click it comes from.
Attentes ==
  [quoi \in {"rien"} \cup GestesEquipe \cup GestesClient |->
     CASE quoi = "rien" -> {}
       [] quoi = "statut" -> {"updateStatus"}
       [] quoi = "assigner" -> {"assignLivreur"}
       [] quoi = "cash" -> {"statut", "notifier", "generate", "facture", "sendInvoice"}
       [] quoi = "commander" -> {"create"}
       [] quoi = "initier" -> {"initiate"}
       [] quoi = "capturer" -> {"capture", "statut", "notifier", "echec", "cancel",
            "confirmOnline", "consommer", "generate", "facture", "sendInvoice"}
       [] quoi = "annuler" -> {"cancel"}]

\* Click k, its request q and its event e: they are about one order, whose
\* payment is of the kind the click is for.
Slot(k, q, e) ==
  /\ IF k.quoi = "rien" THEN k = Rien ELSE k.rep # ""
  /\ k.rep = "attend" <=> (q.pc # "libre" \/ e # Aucun)
  /\ e # Aucun => k.quoi = "statut" /\ q.pc = "libre"
  /\ k.quoi \in GestesEquipe => k.u \in Equipe
  /\ k.quoi \notin GestesEquipe => k.u = Aucun
  /\ k.quoi \notin {"rien", "commander"} \/ (k.quoi = "commander" /\ k.rep = "ok") =>
       k.c \in Commandes /\ Existe(k.c)
  /\ k.quoi \in {"initier", "capturer", "annuler"} => EnLigne(k.c)
  /\ k.quoi = "cash" => ALaLivraison(k.c)
  /\ k.quoi = "initier" /\ k.rep = "ok" => paiement[k.c].transaction # Aucun
  /\ q.pc # "libre" => q.pc \in Attentes[k.quoi]
  /\ q.pc \notin {"libre", "create"} => q.c = k.c

SlotsSuivis == \A r \in Requetes : Slot(clic[r], req[r], emission[r])

\* Order c is one of client u.
DeSien(u, c) == c \in Commandes /\ Existe(c) /\ commande[c].client = u

\* A page is about an order of its client, paid on line where PayPal leads.
PageFidele(u, p) ==
  /\ p.nom \in {"retour", "annule", "suivi"} => DeSien(u, p.de)
  /\ p.nom \in {"retour", "annule"} => EnLigne(p.de)
  /\ p.nom = "paypal" => /\ p.de \in Ordres /\ paypal[p.de].etat # "AUCUN"
                         /\ DeSien(u, paypal[p.de].commande)
  /\ p.par # Aucun => p.montre = "attente" /\ p.nom \in {"caisse", "retour", "annule"}
  /\ p.montre = "attente" => p.par # Aucun

\* Page p of u waits for the click k it made itself.
AttenteFidele(u, p, k, q) ==
  /\ p.nom = "caisse" => k.quoi \in {"commander", "initier"}
  /\ p.nom = "retour" => k.quoi = "capturer" /\ k.c = p.de
  /\ p.nom = "annule" => k.quoi \in {"initier", "annuler"} /\ k.c = p.de
  /\ q.pc = "create" => q.client = u
  /\ k.quoi # "commander" \/ k.rep = "ok" => DeSien(u, k.c)

OngletsSuivis ==
  /\ \A u \in Clients : PageFidele(u, onglet[u])
  /\ \A u \in Clients : onglet[u].par # Aucun =>
       AttenteFidele(u, onglet[u], clic[onglet[u].par], req[onglet[u].par])
  /\ \A u, v \in Clients :
       onglet[u].par = onglet[v].par /\ onglet[u].par # Aucun => u = v

\* A page of the staff shows orders that exist, and to a driver his own.
VuesFideles ==
  \A u \in Equipe, c \in Commandes : vu[u][c] # Aucun =>
    /\ Existe(c) /\ vu[u][c].methode = paiement[c].methode
    /\ u \in Admins \/ vu[u][c].livreur = u

Pages == TypeCaisse /\ SlotsSuivis /\ OngletsSuivis /\ VuesFideles

----------------------------------------------------------------------------
(* The steps of the services.                                              *)

\* A handler that goes on is at the await its name says.
LEMMA AvanceParPc ==
  ASSUME NEW r, Avance(r)
  PROVE  /\ req[r].pc \in {"create", "update", "cancel", "assignLivreur", "updateStatus",
              "confirmOnline", "consommer", "initiate", "capture", "statut", "notifier",
              "echec", "generate", "facture", "sendInvoice"}
         /\ req[r].pc = "create" => CreateTransaction(r)
         /\ req[r].pc = "update" => UpdateEcrire(r)
         /\ req[r].pc = "cancel" => CancelTransaction(r)
         /\ req[r].pc = "assignLivreur" => AssignLivreurEcrire(r)
         /\ req[r].pc = "updateStatus" => UpdateStatusEcrire(r)
         /\ req[r].pc = "confirmOnline" => ConfirmOnlinePaymentSuccess(r)
         /\ req[r].pc = "consommer" => ConfirmOnlinePaymentTransaction(r)
         /\ req[r].pc = "initiate" => InitiateEcrire(r)
         /\ req[r].pc = "capture" => CaptureOrder(r)
         /\ req[r].pc = "statut" => StatutEcrire(r)
         /\ req[r].pc = "notifier" => Notifier(r)
         /\ req[r].pc = "echec" => CancelApresEchec(r)
         /\ req[r].pc = "generate" => GenerateForCommande(r)
         /\ req[r].pc = "facture" => FactureCreate(r)
         /\ req[r].pc = "sendInvoice" => SendInvoiceByEmail(r)
<1>1. \/ CreateTransaction(r) /\ req[r].pc = "create"
      \/ UpdateEcrire(r) /\ req[r].pc = "update"
      \/ CancelTransaction(r) /\ req[r].pc = "cancel"
      \/ AssignLivreurEcrire(r) /\ req[r].pc = "assignLivreur"
      \/ UpdateStatusEcrire(r) /\ req[r].pc = "updateStatus"
      \/ ConfirmOnlinePaymentSuccess(r) /\ req[r].pc = "confirmOnline"
      \/ ConfirmOnlinePaymentTransaction(r) /\ req[r].pc = "consommer"
      \/ InitiateEcrire(r) /\ req[r].pc = "initiate"
      \/ CaptureOrder(r) /\ req[r].pc = "capture"
      \/ StatutEcrire(r) /\ req[r].pc = "statut"
      \/ Notifier(r) /\ req[r].pc = "notifier"
      \/ CancelApresEchec(r) /\ req[r].pc = "echec"
      \/ GenerateForCommande(r) /\ req[r].pc = "generate"
      \/ FactureCreate(r) /\ req[r].pc = "facture"
      \/ SendInvoiceByEmail(r) /\ req[r].pc = "sendInvoice"
  BY DEF Avance, CreateTransaction, UpdateEcrire, CancelTransaction,
     AssignLivreurEcrire, UpdateStatusEcrire, ConfirmOnlinePaymentSuccess,
     ConfirmOnlinePaymentTransaction, InitiateEcrire, CaptureOrder, StatutEcrire,
     Notifier, CancelApresEchec, InvoicesNext, GenerateForCommande, FactureCreate,
     SendInvoiceByEmail
<1> QED BY <1>1, SMTT(30)

\* The await after that of q is e's.
Suivante(q, e) ==
  /\ e.pc # "libre" => e.c = q.c
  /\ \/ /\ q.pc \in {"create", "update", "cancel", "assignLivreur", "updateStatus",
                     "initiate", "sendInvoice"}
        /\ e.pc = "libre"
     \/ q.pc = "capture" /\ e.pc = "statut"
     \/ q.pc = "statut" /\ e.pc = "notifier" /\ e.success = q.success
     \/ q.pc = "notifier" /\ e.pc = SuiteDe(q.c, q.success)
     \/ /\ q.pc = "echec"
        /\ \/ e.pc = "libre"
           \/ e.pc = "cancel" /\ e.jamaisConsommee = EnLigneNonPaye(q.c)
     \/ q.pc = "confirmOnline" /\ e.pc = "consommer" /\ e.vu = panier[commande[q.c].client]
     \/ q.pc = "consommer" /\ e.pc \in {"generate", "libre"}
     \/ /\ q.pc = "generate"
        /\ \/ e.pc = "sendInvoice" /\ q.c \in Facturees
           \/ e.pc = "facture" /\ e.numero = ProchainNumero
     \/ q.pc = "facture" /\ e.pc \in {"sendInvoice", "libre"}

LEMMA AvanceSuivante ==
  ASSUME Inductif, NEW r \in Requetes, Avance(r)
  PROVE  /\ req' = [req EXCEPT ![r] = req'[r]] /\ req'[r] \in Etapes
         /\ Suivante(req[r], req'[r])
<1>0. req \in [Requetes -> Etapes] /\ req' \in [Requetes -> Etapes]
  <2>1. Next
    BY DEF Next, Avance, OrdersNext, PaymentsNext, InvoicesNext
  <2>2. Inductif'
    BY <2>1, InductifPas
  <2>3. TypeOK /\ TypeOK'
    BY <2>2, Zenon DEF Inductif
  <2> QED BY <2>3 DEF TypeOK
<1>1. /\ req' = [req EXCEPT ![r] = req'[r]]
      /\ req'[r] \in Etapes
  BY <1>0, Zenon DEF Avance, CreateTransaction, UpdateEcrire, CancelTransaction,
     AssignLivreurEcrire, UpdateStatusEcrire, ConfirmOnlinePaymentSuccess,
     ConfirmOnlinePaymentTransaction, InitiateEcrire, CaptureOrder, StatutEcrire,
     Notifier, CancelApresEchec, InvoicesNext, GenerateForCommande, FactureCreate,
     SendInvoiceByEmail, Repond, Etape, Consommation, CancelLire
<1>2. Suivante(req[r], req'[r])
  <2> USE <1>0, AvanceParPc DEF Suivante, Repond, Etape
  <2>1. CASE req[r].pc \in {"create", "update", "cancel", "assignLivreur",
                            "updateStatus", "initiate", "sendInvoice"}
    <3>1. req'[r] = [pc |-> "libre"]
      <4> HIDE DEF Suivante
      <4> QED
        BY <2>1 DEF CreateTransaction, UpdateEcrire, CancelTransaction,
           AssignLivreurEcrire, UpdateStatusEcrire, InitiateEcrire, SendInvoiceByEmail
    <3> QED BY <2>1, <3>1
  <2>2. CASE req[r].pc = "capture"
    <3>1. PICK s : req'[r] = [pc |-> "statut", c |-> req[r].c, success |-> s]
      <4> HIDE DEF Suivante
      <4> QED BY <2>2 DEF CaptureOrder
    <3> QED BY <2>2, <3>1
  <2>3. CASE req[r].pc = "statut"
    <3>1. req[r] \in EtapeIssue
      BY <2>3, EtapeSelonPc
    <3>2. /\ [req[r] EXCEPT !.pc = "notifier"].pc = "notifier"
          /\ [req[r] EXCEPT !.pc = "notifier"].c = req[r].c
          /\ [req[r] EXCEPT !.pc = "notifier"].success = req[r].success
      BY <3>1 DEF EtapeIssue
    <3> QED BY <2>3, <3>2 DEF StatutEcrire
  <2>4. CASE req[r].pc = "notifier"
    <3>1. req'[r] = [pc |-> SuiteDe(req[r].c, req[r].success), c |-> req[r].c]
      <4> HIDE DEF Suivante
      <4> QED BY <2>4 DEF Notifier
    <3> QED BY <2>4, <3>1
  <2>5. CASE req[r].pc = "echec"
    BY <2>5 DEF CancelApresEchec, CancelLire
  <2>6. CASE req[r].pc = "confirmOnline"
    BY <2>6 DEF ConfirmOnlinePaymentSuccess
  <2>7. CASE req[r].pc = "consommer"
    <3>1. \/ Etape(r, [pc |-> "generate", c |-> req[r].c])
          \/ Etape(r, [pc |-> "libre"])
      <4> HIDE DEF Etape, Suivante
      <4> QED BY <2>7 DEF ConfirmOnlinePaymentTransaction, Consommation
    <3> QED BY <2>7, <3>1
  <2>8. CASE req[r].pc = "generate"
    BY <2>8 DEF GenerateForCommande
  <2>9. CASE req[r].pc = "facture"
    BY <2>9 DEF FactureCreate
  <2> QED BY <2>1, <2>2, <2>3, <2>4, <2>5, <2>6, <2>7, <2>8, <2>9
<1> QED BY <1>1, <1>2

\* What a handler leaves alone in the tables.
LEMMA AvanceTables ==
  ASSUME Inductif, NEW r \in Requetes, Avance(r)
  PROVE  /\ pannes' = pannes
         /\ req[r].pc # "create" => \A d \in Commandes \ {req[r].c} :
              /\ commande'[d] = commande[d] /\ paiement'[d] = paiement[d]
              /\ facture'[d] = facture[d] /\ net'[d] = net[d]
         /\ req[r].pc \notin {"create", "cancel", "updateStatus"} =>
              \A d \in Commandes : commande'[d].etat = commande[d].etat
         /\ req[r].pc \notin {"create", "assignLivreur"} =>
              \A d \in Commandes : commande'[d].livreur = commande[d].livreur
         /\ req[r].pc # "create" => \A d \in Commandes :
              /\ commande'[d].client = commande[d].client
              /\ commande'[d].lignes = commande[d].lignes
         /\ req[r].pc \notin {"create", "cancel", "consommer"} =>
              panier' = panier /\ net' = net
         /\ req[r].pc \notin {"create", "statut"} =>
              \A d \in Commandes : paiement'[d].statut = paiement[d].statut
         /\ req[r].pc \notin {"create", "initiate"} =>
              \A d \in Commandes : paiement'[d].transaction = paiement[d].transaction
         /\ req[r].pc # "create" =>
              \A d \in Commandes : paiement'[d].methode = paiement[d].methode
         /\ req[r].pc # "facture" => facture' = facture
         /\ req[r].pc # "capture" => paypal' = paypal
<1>0. TypeOK
  BY DEF Inductif
<1>1. CASE req[r].pc = "create"
  BY <1>1, AvanceParPc DEF CreateTransaction
<1>2. CASE req[r].pc \in {"confirmOnline", "notifier", "echec", "generate",
                          "sendInvoice", "capture"}
  BY <1>2, AvanceParPc
  DEF ConfirmOnlinePaymentSuccess, Notifier, CancelApresEchec, CaptureOrder,
      GenerateForCommande, SendInvoiceByEmail
<1>3. CASE req[r].pc \in {"update", "cancel", "assignLivreur", "updateStatus"}
  <2>1. /\ \E e, l, a : \/ commande' = [commande EXCEPT ![req[r].c].etat = e]
                           /\ req[r].pc \in {"cancel", "updateStatus"}
                        \/ commande' = [commande EXCEPT ![req[r].c].livreur = l]
                           /\ req[r].pc = "assignLivreur"
                        \/ commande' = [commande EXCEPT ![req[r].c].adresse = a]
                           /\ req[r].pc = "update"
        /\ UNCHANGED <<paiement, facture, paypal, pannes>>
        /\ req[r].pc # "cancel" => UNCHANGED <<panier, net>>
    BY <1>3, AvanceParPc DEF UpdateEcrire, CancelTransaction, AssignLivreurEcrire,
       UpdateStatusEcrire
  <2>2. \A d \in Commandes : commande[d] \in CommandeT
    BY <1>0 DEF TypeOK
  <2>3. \A d \in Commandes :
          /\ d # req[r].c => commande'[d] = commande[d]
          /\ req[r].pc \notin {"cancel", "updateStatus"} =>
               commande'[d].etat = commande[d].etat
          /\ req[r].pc # "assignLivreur" => commande'[d].livreur = commande[d].livreur
          /\ commande'[d].client = commande[d].client
          /\ commande'[d].lignes = commande[d].lignes
    BY <1>0, <2>1, <2>2 DEF TypeOK, CommandeT
  <2>4. req[r].pc = "cancel" => \A d \in Commandes : d # req[r].c => net'[d] = net[d]
    BY <1>0, AvanceParPc DEF CancelTransaction, TypeOK
  <2> QED BY <1>3, <2>1, <2>3, <2>4
<1>4. CASE req[r].pc \in {"initiate", "statut"}
  <2>1. /\ \/ /\ req[r].pc = "initiate"
              /\ \E t : paiement' = [paiement EXCEPT ![req[r].c].transaction = t]
           \/ /\ req[r].pc = "statut"
              /\ \E e : paiement' = [paiement EXCEPT ![req[r].c].statut = e]
        /\ UNCHANGED <<commande, facture, panier, net, paypal, pannes>>
    BY <1>4, AvanceParPc DEF InitiateEcrire, StatutEcrire
  <2>2. \A d \in Commandes : paiement[d] \in PaiementT
    BY <1>0 DEF TypeOK
  <2>3. CASE req[r].pc = "initiate"
    <3>1. PICK t : paiement' = [paiement EXCEPT ![req[r].c].transaction = t]
      BY <2>1, <2>3
    <3> QED BY <1>0, <2>1, <2>2, <2>3, <3>1 DEF TypeOK, PaiementT
  <2>4. CASE req[r].pc = "statut"
    <3>1. PICK e : paiement' = [paiement EXCEPT ![req[r].c].statut = e]
      BY <2>1, <2>4
    <3> QED BY <1>0, <2>1, <2>2, <2>4, <3>1 DEF TypeOK, PaiementT
  <2> QED BY <1>4, <2>3, <2>4
<1>5. CASE req[r].pc = "consommer"
  <2>1. /\ UNCHANGED <<commande, paiement, facture, paypal, pannes>>
        /\ net' = [net EXCEPT ![req[r].c] = @ + 1] \/ net' = net
    BY <1>5, AvanceParPc DEF ConfirmOnlinePaymentTransaction, Consommation
  <2> QED BY <1>0, <1>5, <2>1 DEF TypeOK
<1>6. CASE req[r].pc = "facture"
  <2>1. /\ UNCHANGED <<commande, paiement, panier, net, paypal, pannes>>
        /\ facture' = [facture EXCEPT ![req[r].c] = req[r].numero] \/ facture' = facture
    BY <1>6, AvanceParPc DEF FactureCreate
  <2> QED BY <1>0, <1>6, <2>1 DEF TypeOK
<1> QED BY <1>1, <1>2, <1>3, <1>4, <1>5, <1>6, AvanceParPc

\* create inserts one order; the order of the answer is that one.
LEMMA CreateUne ==
  ASSUME Inductif, NEW r \in Requetes, CreateTransaction(r)
  PROVE  /\ req[r] \in EtapeCreate
         /\ \E c \in Commandes :
              /\ Creee = c /\ ~Existe(c) /\ Existe(c)'
              /\ CreateTransaction(r)!2!(c)
              /\ \A d \in Commandes \ {c} :
                   /\ commande'[d] = commande[d] /\ paiement'[d] = paiement[d]
                   /\ net'[d] = net[d]
<1>1. PICK c \in Commandes : CreateTransaction(r)!2!(c)
  BY DEF CreateTransaction
<1>2. /\ \A d \in Commandes \ {c} :
           /\ commande'[d] = commande[d] /\ paiement'[d] = paiement[d]
           /\ net'[d] = net[d]
      /\ ~Existe(c) /\ commande'[c].etat = "EN_ATTENTE"
  BY <1>1 DEF Inductif, TypeOK
<1>3. Existe(c)' /\ \A d \in Commandes \ {c} : Existe(d)' <=> Existe(d)
  BY <1>2 DEF Existe
<1>4. Creee = c
  BY <1>2, <1>3 DEF Creee
<1>5. req[r] \in EtapeCreate
  BY EtapeSelonPc DEF CreateTransaction, Inductif, TypeOK
<1> QED BY <1>1, <1>2, <1>3, <1>4, <1>5

----------------------------------------------------------------------------
(* The steps of the pages.                                                 *)

MemesCaptures == \A c \in Commandes : Captures(c)' = Captures(c)

\* What click quoi of u on order c may be about.
ClicFidele(quoi, u, c) ==
  \/ quoi \in GestesEquipe /\ u \in Equipe /\ c \in Commandes /\ Existe(c)
     /\ (quoi = "cash" => ALaLivraison(c))
  \/ quoi = "commander" /\ u \in Clients /\ c = Aucun
  \/ quoi \in {"initier", "capturer", "annuler"} /\ u \in Clients
     /\ DeSien(u, c) /\ EnLigne(c)

\* Its first await, and what the read decided.
Premier(quoi, u, c, e) ==
  \/ quoi = "statut" /\ e.pc = "updateStatus" /\ e.c = c
     /\ (e.etat # "ANNULEE" => ~EnLigneNonPaye(c))
  \/ quoi = "assigner" /\ e.pc = "assignLivreur" /\ e.c = c /\ ~EnLigneNonPaye(c)
  \/ quoi = "cash" /\ e.pc = "statut" /\ e.c = c
  \/ quoi = "commander" /\ e.pc = "create" /\ e.client = u /\ e.lignes = panier[u]
  \/ quoi = "initier" /\ e.pc = "initiate" /\ e.c = c
  \/ quoi = "capturer" /\ e.pc = "capture" /\ e.c = c /\ ~Paye(c)
  \/ quoi = "annuler" /\ e.pc = "cancel" /\ e.c = c
     /\ e.jamaisConsommee = EnLigneNonPaye(c)

Clic(quoi, u, c, rep) ==
  [quoi |-> quoi, u |-> IF quoi \in GestesEquipe THEN u ELSE Aucun, c |-> c, rep |-> rep]

\* A request leaves, or is answered without an await.
Lance(r, quoi, u, c, rep) ==
  /\ Libre(r) /\ ClicFidele(quoi, u, c)
  /\ clic' = [clic EXCEPT ![r] = Clic(quoi, u, c, rep)]
  /\ \/ /\ rep = "attend"
        /\ req' = [req EXCEPT ![r] = req'[r]] /\ Premier(quoi, u, c, req'[r])
     \/ rep \in {"ok", "erreur"} /\ UNCHANGED req
  /\ rep = "ok" => quoi \in {"cash", "capturer"} /\ Paye(c)
  /\ MemesCaptures
  /\ UNCHANGED <<commande, paiement, facture, produit, panier, net, courriels,
                 pannes, emission, suivi>>

\* The captures do not see an order that starts or is approved at PayPal.
LEMMA CapturesInitier ==
  ASSUME TypeOK, NEW r, NEW c, NEW o, InitiateOnlinePayment(r, c, o)
  PROVE  MemesCaptures
BY DEF InitiateOnlinePayment, MemesCaptures, Captures, TypeOK

LEMMA CapturesApprouver ==
  ASSUME TypeOK, NEW o, ClientApprouve(o)
  PROVE  MemesCaptures
<1>1. \A p \in Ordres : paypal[p] \in PaypalT
  BY DEF TypeOK
<1>2. \A p \in Ordres : /\ paypal'[p].etat = "COMPLETED" <=> paypal[p].etat = "COMPLETED"
                        /\ paypal'[p].commande = paypal[p].commande
  BY <1>1 DEF ClientApprouve, PaypalT, TypeOK
<1> QED BY <1>2 DEF MemesCaptures, Captures

LEMMA CapturesInchangees ==
  ASSUME UNCHANGED paypal
  PROVE  MemesCaptures
BY DEF MemesCaptures, Captures

LEMMA LanceAttend ==
  ASSUME TypeOK, NEW r \in Requetes, NEW quoi, NEW u, NEW c, NEW e, Etape(r, e),
         Libre(r), ClicFidele(quoi, u, c), Premier(quoi, u, c, e), MemesCaptures,
         clic' = [clic EXCEPT ![r] = Clic(quoi, u, c, "attend")],
         UNCHANGED <<commande, paiement, facture, produit, panier, net, courriels,
                     pannes, emission, suivi>>
  PROVE  Lance(r, quoi, u, c, "attend")
<1>1. req' = [req EXCEPT ![r] = e] /\ req'[r] = e
  BY DEF Etape, TypeOK
<1> QED BY <1>1 DEF Lance

LEMMA LanceAussitot ==
  ASSUME NEW r, NEW quoi, NEW u, NEW c, NEW rep \in {"ok", "erreur"},
         Libre(r), ClicFidele(quoi, u, c), rep = "ok" => quoi \in {"cash", "capturer"} /\ Paye(c),
         clic' = [clic EXCEPT ![r] = Clic(quoi, u, c, rep)],
         UNCHANGED <<vars, emission, suivi>>
  PROVE  Lance(r, quoi, u, c, rep)
BY CapturesInchangees DEF Lance, vars

\* The clicks of the staff.
LEMMA LanceStatut ==
  ASSUME Inductif, Pages, NEW r \in Requetes, NEW u \in Equipe, NEW c \in Commandes,
         NEW e \in Etats, CliquerStatut(r, u, c, e)
  PROVE  \E rep : Lance(r, "statut", u, c, rep)
<1>1. vu[u][c] # Aucun /\ Existe(c) /\ TypeOK
  BY DEF CliquerStatut, Boutons, Pages, VuesFideles, Inductif
<1>2. ClicFidele("statut", u, c)
  BY <1>1 DEF ClicFidele, GestesEquipe
<1>3. /\ Libre(r) /\ UNCHANGED <<emission, suivi>>
      /\ \/ /\ UpdateStatus(r, u, c, e) /\ Progression(u, c, e)
            /\ clic' = [clic EXCEPT ![r] = Geste("statut", u, c)]
         \/ /\ clic' = [clic EXCEPT ![r] = [Geste("statut", u, c) EXCEPT !.rep = "erreur"]]
            /\ UNCHANGED vars
  BY DEF CliquerStatut, Cliquer, Envoyer
<1>4. /\ Geste("statut", u, c) = Clic("statut", u, c, "attend")
      /\ [Geste("statut", u, c) EXCEPT !.rep = "erreur"] = Clic("statut", u, c, "erreur")
  BY DEF Geste, Clic, GestesEquipe
<1>5. CASE UpdateStatus(r, u, c, e) /\ Progression(u, c, e)
           /\ clic' = [clic EXCEPT ![r] = Geste("statut", u, c)]
  <2>1. Premier("statut", u, c, [pc |-> "updateStatus", c |-> c, etat |-> e])
    BY <1>5 DEF Premier, Progression
  <2> QED BY <1>1, <1>2, <1>3, <1>4, <1>5, <2>1, LanceAttend, CapturesInchangees
       DEF UpdateStatus
<1>6. CASE clic' = [clic EXCEPT ![r] = Clic("statut", u, c, "erreur")] /\ UNCHANGED vars
  BY <1>2, <1>3, <1>6, LanceAussitot
<1> QED BY <1>3, <1>4, <1>5, <1>6

LEMMA LanceLivreur ==
  ASSUME Inductif, Pages, NEW r \in Requetes, NEW u \in Equipe, NEW c \in Commandes,
         NEW l, CliquerLivreur(r, u, c, l)
  PROVE  \E rep : Lance(r, "assigner", u, c, rep)
<1>1. vu[u][c] # Aucun /\ Existe(c) /\ TypeOK
  BY DEF CliquerLivreur, Pages, VuesFideles, Inductif
<1>2. ClicFidele("assigner", u, c)
  BY <1>1 DEF ClicFidele, GestesEquipe
<1>3. /\ Libre(r) /\ UNCHANGED <<emission, suivi>>
      /\ \/ /\ AssignLivreur(r, c, l) /\ ~EnLigneNonPaye(c)
            /\ clic' = [clic EXCEPT ![r] = Geste("assigner", u, c)]
         \/ /\ clic' = [clic EXCEPT ![r] = [Geste("assigner", u, c) EXCEPT !.rep = "erreur"]]
            /\ UNCHANGED vars
  BY DEF CliquerLivreur, Cliquer, Envoyer
<1>4. /\ Geste("assigner", u, c) = Clic("assigner", u, c, "attend")
      /\ [Geste("assigner", u, c) EXCEPT !.rep = "erreur"] = Clic("assigner", u, c, "erreur")
  BY DEF Geste, Clic, GestesEquipe
<1>5. CASE AssignLivreur(r, c, l) /\ ~EnLigneNonPaye(c)
           /\ clic' = [clic EXCEPT ![r] = Geste("assigner", u, c)]
  <2>1. Premier("assigner", u, c, [pc |-> "assignLivreur", c |-> c, livreur |-> l])
    BY <1>5 DEF Premier
  <2> QED BY <1>1, <1>2, <1>3, <1>4, <1>5, <2>1, LanceAttend, CapturesInchangees
       DEF AssignLivreur
<1>6. CASE clic' = [clic EXCEPT ![r] = Clic("assigner", u, c, "erreur")] /\ UNCHANGED vars
  BY <1>2, <1>3, <1>6, LanceAussitot
<1> QED BY <1>3, <1>4, <1>5, <1>6

LEMMA LanceCash ==
  ASSUME Inductif, Pages, NEW r \in Requetes, NEW u \in Equipe, NEW c \in Commandes,
         CliquerCash(r, u, c)
  PROVE  \E rep : Lance(r, "cash", u, c, rep)
<1>1. vu[u][c] # Aucun /\ Existe(c) /\ ALaLivraison(c) /\ TypeOK
  BY DEF CliquerCash, BoutonCash, Pages, VuesFideles, Inductif, ALaLivraison
<1>2. ClicFidele("cash", u, c)
  BY <1>1 DEF ClicFidele, GestesEquipe
<1>3. /\ Libre(r) /\ UNCHANGED <<emission, suivi>>
      /\ \/ /\ ConfirmCashPayment(r, u, c)
            /\ clic' = [clic EXCEPT ![r] = Geste("cash", u, c)]
         \/ /\ clic' = [clic EXCEPT ![r] = [Geste("cash", u, c) EXCEPT !.rep = "erreur"]]
            /\ UNCHANGED vars
         \/ /\ clic' = [clic EXCEPT ![r] = [Geste("cash", u, c) EXCEPT !.rep = "ok"]]
            /\ UNCHANGED vars /\ Paye(c)
  BY DEF CliquerCash, Cliquer, Envoyer
<1>4. /\ Geste("cash", u, c) = Clic("cash", u, c, "attend")
      /\ \A rep : [Geste("cash", u, c) EXCEPT !.rep = rep] = Clic("cash", u, c, rep)
  BY DEF Geste, Clic, GestesEquipe
<1>5. CASE ConfirmCashPayment(r, u, c)
           /\ clic' = [clic EXCEPT ![r] = Geste("cash", u, c)]
  <2>1. Premier("cash", u, c, [pc |-> "statut", c |-> c, success |-> TRUE])
    BY <1>5 DEF Premier
  <2> QED BY <1>1, <1>2, <1>3, <1>4, <1>5, <2>1, LanceAttend, CapturesInchangees
       DEF ConfirmCashPayment
<1>6. CASE clic' = [clic EXCEPT ![r] = Clic("cash", u, c, "erreur")] /\ UNCHANGED vars
  BY <1>2, <1>3, <1>6, LanceAussitot
<1>7. CASE clic' = [clic EXCEPT ![r] = Clic("cash", u, c, "ok")] /\ UNCHANGED vars /\ Paye(c)
  BY <1>2, <1>3, <1>7, LanceAussitot
<1> QED BY <1>3, <1>4, <1>5, <1>6, <1>7

\* The order that the tab of u is paying.
Courante(u) ==
  LET p == onglet[u]  k == clic[p.par] IN
  CASE p.nom \in {"retour", "annule"} -> {p.de}
    [] p.nom = "paypal" -> {paypal[p.de].commande}
    [] p.nom = "caisse" /\ p.par # Aucun ->
         IF k.quoi = "initier" \/ (k.rep = "ok" /\ EnLigne(k.c)) THEN {k.c} ELSE {}
    [] OTHER -> {}

\* A page of u asks and waits: a page that was ready, or the checkout that goes
\* on with initiate.
Demande(r, u, quoi, c, rep) ==
  /\ Lance(r, quoi, u, c, rep)
  /\ onglet' = [onglet EXCEPT ![u] = [onglet[u] EXCEPT !.montre = "attente", !.par = r]]
  /\ UNCHANGED <<vu, occupe, encaisse, rafraichit, erreur, clics, aVoir>>
  /\ \/ /\ clic[r] = Rien /\ onglet[u].montre = "prete"
        /\ \/ onglet[u].nom = "caisse" /\ quoi = "commander"
           \/ onglet[u].nom = "retour" /\ quoi = "capturer" /\ c = onglet[u].de
           \/ onglet[u].nom = "annule" /\ quoi \in {"initier", "annuler"} /\ c = onglet[u].de
     \/ /\ onglet[u].nom = "caisse" /\ onglet[u].par = r /\ quoi = "initier"
        /\ clic[r].quoi = "commander" /\ clic[r].rep = "ok" /\ clic[r].c = c

\* The tab of u goes to page p, about the order it was paying; what p says is
\* the answer.
Va(u, p) ==
  /\ onglet' = [onglet EXCEPT ![u] = p]
  /\ p \in PageT /\ p.par = Aucun /\ PageFidele(u, p)
  /\ p.nom \in {"retour", "annule"} => p.de \in Courante(u)
  /\ p.nom = "paypal" => paypal[p.de].commande \in Courante(u)
  /\ p.nom = "retour" /\ p.montre \in {"succes", "refus"} =>
       LET k == clic[onglet[u].par] IN
       /\ onglet[u].par # Aucun /\ k.quoi = "capturer" /\ k.c = p.de
       /\ k.rep = IF p.montre = "succes" THEN "ok" ELSE "refus"
  /\ UNCHANGED <<vu, occupe, encaisse, rafraichit, erreur, clics, emission, suivi, aVoir>>

\* A page gets its answer; nobody gets that of a capture whose page was reloaded.
Rend(r) == Repondue(r) /\ clic' = [clic EXCEPT ![r] = Rien] /\ UNCHANGED <<vars, emission>>
Recoit(r, u, p) == Rend(r) /\ onglet[u].par = r /\ Va(u, p)
Orphelin(r) ==
  /\ Rend(r) /\ clic[r].quoi = "capturer" /\ \A u \in Clients : onglet[u].par # r
  /\ UNCHANGED <<vu, occupe, encaisse, rafraichit, erreur, clics, suivi, aVoir, onglet>>

\* The client goes to a page without an answer.
Navigation(u, p) ==
  /\ Va(u, p) /\ (onglet[u].par # Aucun => Recharge)
  /\ MemesCaptures
  /\ UNCHANGED <<commande, paiement, facture, produit, panier, req, net, courriels,
                 pannes, clic>>

\* What Pages says of one tab and of the slot it waits for.
LEMMA PagesDe ==
  ASSUME Pages, NEW u \in Clients
  PROVE  /\ onglet[u] \in PageT /\ PageFidele(u, onglet[u])
         /\ onglet \in [Clients -> PageT] /\ clic \in [Requetes -> GesteT]
         /\ onglet[u].par # Aucun =>
              /\ onglet[u].par \in Requetes
              /\ AttenteFidele(u, onglet[u], clic[onglet[u].par], req[onglet[u].par])
              /\ clic[onglet[u].par] \in GesteT
              /\ Slot(clic[onglet[u].par], req[onglet[u].par], emission[onglet[u].par])
BY DEF Pages, TypeCaisse, OngletsSuivis, SlotsSuivis, PageT

\* A page that asks.
LEMMA DemandeCommander ==
  ASSUME Inductif, Pages, NEW r \in Requetes, NEW u \in Clients, NEW m, NEW a,
         Commander(r, u, m, a)
  PROVE  \E rep : Demande(r, u, "commander", Aucun, rep)
<1>1. ClicFidele("commander", u, Aucun) /\ TypeOK
  BY DEF ClicFidele, Inductif
<1>2. /\ Libre(r) /\ UNCHANGED <<emission, suivi, aVoir>>
      /\ clic[r] = Rien /\ Prete(u, "caisse")
      /\ onglet' = [onglet EXCEPT ![u] = [onglet[u] EXCEPT !.montre = "attente", !.par = r]]
      /\ UNCHANGED <<vu, occupe, encaisse, rafraichit, erreur, clics>>
      /\ \/ /\ Create(r, u, m, a)
            /\ clic' = [clic EXCEPT ![r] = Geste("commander", Aucun, Aucun)]
         \/ /\ clic' = [clic EXCEPT ![r] = [Geste("commander", Aucun, Aucun) EXCEPT !.rep = "erreur"]]
            /\ UNCHANGED vars
  BY DEF Commander, Demander, Envoyer, Montrer
<1>3. /\ Geste("commander", Aucun, Aucun) = Clic("commander", u, Aucun, "attend")
      /\ [Geste("commander", Aucun, Aucun) EXCEPT !.rep = "erreur"]
           = Clic("commander", u, Aucun, "erreur")
  BY DEF Geste, Clic, GestesEquipe
<1>4. CASE Create(r, u, m, a) /\ clic' = [clic EXCEPT ![r] = Geste("commander", Aucun, Aucun)]
  <2> DEFINE e == [pc |-> "create", client |-> u, methode |-> m, adresse |-> a,
                   lignes |-> panier[u]]
  <2>1. Premier("commander", u, Aucun, e)
    BY DEF Premier
  <2>2. Etape(r, e)
    BY <1>4 DEF Create
  <2> HIDE DEF e
  <2>3. Lance(r, "commander", u, Aucun, "attend")
    BY <1>1, <1>2, <1>3, <1>4, <2>1, <2>2, LanceAttend, CapturesInchangees DEF Create
  <2> QED BY <1>2, <2>3 DEF Demande, Prete
<1>5. CASE clic' = [clic EXCEPT ![r] = Clic("commander", u, Aucun, "erreur")] /\ UNCHANGED vars
  <2>1. Lance(r, "commander", u, Aucun, "erreur")
    BY <1>1, <1>2, <1>5, LanceAussitot
  <2> QED BY <1>2, <2>1 DEF Demande, Prete
<1> QED BY <1>2, <1>3, <1>4, <1>5

LEMMA DemandeInitier ==
  ASSUME Inductif, Pages, NEW r \in Requetes, NEW u \in Clients, NEW o \in Ordres,
         NEW c, DeSien(u, c), EnLigne(c),
         Demander(r, u, "initier", c, EnLigneNonPaye(c), FALSE, InitiateOnlinePayment(r, c, o)),
         \/ Prete(u, "annule") /\ c = onglet[u].de /\ clic[r] = Rien
         \/ /\ onglet[u].nom = "caisse" /\ onglet[u].par = r
            /\ clic[r].quoi = "commander" /\ clic[r].rep = "ok" /\ clic[r].c = c
  PROVE  \E rep : Demande(r, u, "initier", c, rep)
<1>1. ClicFidele("initier", u, c) /\ TypeOK
  BY DEF ClicFidele, Inductif
<1>2. /\ Libre(r) /\ UNCHANGED <<emission, suivi, aVoir>>
      /\ onglet' = [onglet EXCEPT ![u] = [onglet[u] EXCEPT !.montre = "attente", !.par = r]]
      /\ UNCHANGED <<vu, occupe, encaisse, rafraichit, erreur, clics>>
      /\ \/ /\ InitiateOnlinePayment(r, c, o)
            /\ clic' = [clic EXCEPT ![r] = Geste("initier", Aucun, c)]
         \/ /\ clic' = [clic EXCEPT ![r] = [Geste("initier", Aucun, c) EXCEPT !.rep = "erreur"]]
            /\ UNCHANGED vars
  BY DEF Demander, Envoyer, Montrer
<1>3. /\ Geste("initier", Aucun, c) = Clic("initier", u, c, "attend")
      /\ [Geste("initier", Aucun, c) EXCEPT !.rep = "erreur"] = Clic("initier", u, c, "erreur")
  BY DEF Geste, Clic, GestesEquipe
<1>4. CASE /\ InitiateOnlinePayment(r, c, o)
           /\ clic' = [clic EXCEPT ![r] = Geste("initier", Aucun, c)]
  <2> DEFINE e == [pc |-> "initiate", c |-> c, ordre |-> o]
  <2>1. Premier("initier", u, c, e)
    BY DEF Premier
  <2>2. Etape(r, e)
    BY <1>4 DEF InitiateOnlinePayment
  <2> HIDE DEF e
  <2>3. Lance(r, "initier", u, c, "attend")
    BY <1>1, <1>2, <1>3, <1>4, <2>1, <2>2, LanceAttend, CapturesInitier
    DEF InitiateOnlinePayment
  <2> QED BY <1>2, <2>3 DEF Demande, Prete
<1>5. CASE clic' = [clic EXCEPT ![r] = Clic("initier", u, c, "erreur")] /\ UNCHANGED vars
  <2>1. Lance(r, "initier", u, c, "erreur")
    BY <1>1, <1>2, <1>5, LanceAussitot
  <2> QED BY <1>2, <2>1 DEF Demande, Prete
<1> QED BY <1>2, <1>3, <1>4, <1>5

LEMMA DemandeCapturer ==
  ASSUME Inductif, Pages, NEW r \in Requetes, NEW u \in Clients, Capturer(r, u)
  PROVE  \E rep : Demande(r, u, "capturer", onglet[u].de, rep)
<1> DEFINE c == onglet[u].de
<1>1. DeSien(u, c) /\ EnLigne(c) /\ TypeOK
  BY PagesDe DEF Inductif, PageFidele, Capturer, Prete
<1>2. ClicFidele("capturer", u, c)
  BY <1>1 DEF ClicFidele
<1>3. /\ Libre(r) /\ UNCHANGED <<emission, suivi, aVoir>>
      /\ clic[r] = Rien /\ Prete(u, "retour")
      /\ onglet' = [onglet EXCEPT ![u] = [onglet[u] EXCEPT !.montre = "attente", !.par = r]]
      /\ UNCHANGED <<vu, occupe, encaisse, rafraichit, erreur, clics>>
      /\ \/ /\ CaptureOnlinePayment(r, c)
            /\ clic' = [clic EXCEPT ![r] = Geste("capturer", Aucun, c)]
         \/ /\ clic' = [clic EXCEPT ![r] = [Geste("capturer", Aucun, c) EXCEPT !.rep = "erreur"]]
            /\ UNCHANGED vars
         \/ /\ clic' = [clic EXCEPT ![r] = [Geste("capturer", Aucun, c) EXCEPT !.rep = "ok"]]
            /\ UNCHANGED vars /\ Paye(c)
  BY DEF Capturer, Demander, Envoyer, Montrer
<1>4. /\ Geste("capturer", Aucun, c) = Clic("capturer", u, c, "attend")
      /\ \A rep : [Geste("capturer", Aucun, c) EXCEPT !.rep = rep] = Clic("capturer", u, c, rep)
  BY DEF Geste, Clic, GestesEquipe
<1>5. CASE /\ CaptureOnlinePayment(r, c)
           /\ clic' = [clic EXCEPT ![r] = Geste("capturer", Aucun, c)]
  <2> DEFINE e == [pc |-> "capture", c |-> c, ordre |-> paiement[c].transaction]
  <2>1. Premier("capturer", u, c, e)
    BY <1>5 DEF Premier, CaptureOnlinePayment, EnLigneNonPaye
  <2>2. Etape(r, e)
    BY <1>5 DEF CaptureOnlinePayment
  <2> HIDE DEF e
  <2>3. Lance(r, "capturer", u, c, "attend")
    BY <1>1, <1>2, <1>3, <1>4, <1>5, <2>1, <2>2, LanceAttend, CapturesInchangees
    DEF CaptureOnlinePayment
  <2> QED BY <1>3, <2>3 DEF Demande, Prete
<1> HIDE DEF c
<1>6. CASE clic' = [clic EXCEPT ![r] = Clic("capturer", u, c, "erreur")] /\ UNCHANGED vars
  <2>1. Lance(r, "capturer", u, c, "erreur")
    BY <1>2, <1>3, <1>6, LanceAussitot
  <2> QED BY <1>3, <2>1 DEF Demande, Prete, c
<1>7. CASE /\ clic' = [clic EXCEPT ![r] = Clic("capturer", u, c, "ok")]
           /\ UNCHANGED vars /\ Paye(c)
  <2>1. Lance(r, "capturer", u, c, "ok")
    BY <1>2, <1>3, <1>7, LanceAussitot
  <2> QED BY <1>3, <2>1 DEF Demande, Prete, c
<1> QED BY <1>3, <1>4, <1>5, <1>6, <1>7

LEMMA DemandeAnnuler ==
  ASSUME Inductif, Pages, NEW r \in Requetes, NEW u \in Clients, Annuler(r, u)
  PROVE  \E rep : Demande(r, u, "annuler", onglet[u].de, rep)
<1> DEFINE c == onglet[u].de
<1>1. DeSien(u, c) /\ EnLigne(c) /\ TypeOK
  BY PagesDe DEF Inductif, PageFidele, Annuler, Prete
<1>2. ClicFidele("annuler", u, c)
  BY <1>1 DEF ClicFidele
<1>3. /\ Libre(r) /\ UNCHANGED <<emission, suivi, aVoir>>
      /\ clic[r] = Rien /\ Prete(u, "annule")
      /\ onglet' = [onglet EXCEPT ![u] = [onglet[u] EXCEPT !.montre = "attente", !.par = r]]
      /\ UNCHANGED <<vu, occupe, encaisse, rafraichit, erreur, clics>>
      /\ \/ /\ Cancel(r, c)
            /\ clic' = [clic EXCEPT ![r] = Geste("annuler", Aucun, c)]
         \/ /\ clic' = [clic EXCEPT ![r] = [Geste("annuler", Aucun, c) EXCEPT !.rep = "erreur"]]
            /\ UNCHANGED vars
  BY DEF Annuler, Demander, Envoyer, Montrer
<1>4. /\ Geste("annuler", Aucun, c) = Clic("annuler", u, c, "attend")
      /\ [Geste("annuler", Aucun, c) EXCEPT !.rep = "erreur"] = Clic("annuler", u, c, "erreur")
  BY DEF Geste, Clic, GestesEquipe
<1>5. CASE Cancel(r, c) /\ clic' = [clic EXCEPT ![r] = Geste("annuler", Aucun, c)]
  <2> DEFINE e == [pc |-> "cancel", c |-> c, jamaisConsommee |-> EnLigneNonPaye(c)]
  <2>1. Premier("annuler", u, c, e)
    BY DEF Premier
  <2>2. Etape(r, e)
    BY <1>5 DEF Cancel, CancelLire
  <2> HIDE DEF e
  <2>3. Lance(r, "annuler", u, c, "attend")
    BY <1>1, <1>2, <1>3, <1>4, <1>5, <2>1, <2>2, LanceAttend, CapturesInchangees
    DEF Cancel
  <2> QED BY <1>3, <2>3 DEF Demande, Prete
<1>6. CASE clic' = [clic EXCEPT ![r] = Clic("annuler", u, c, "erreur")] /\ UNCHANGED vars
  <2>1. Lance(r, "annuler", u, c, "erreur")
    BY <1>2, <1>3, <1>6, LanceAussitot
  <2> QED BY <1>3, <2>1 DEF Demande, Prete
<1> QED BY <1>3, <1>4, <1>5, <1>6

\* The requests that the pages send.
LEMMA PagesDemandent ==
  ASSUME Inductif, Pages, NEW r \in Requetes, NEW u \in Clients,
         \/ \E m \in Methodes, a \in Adresses : Commander(r, u, m, a)
         \/ Capturer(r, u) \/ Annuler(r, u)
         \/ \E o \in Ordres : CommandeePuisInitier(r, u, o) \/ Reessayer(r, u, o)
  PROVE  \E quoi, c, rep : Demande(r, u, quoi, c, rep)
<1>1. ASSUME NEW o \in Ordres, CommandeePuisInitier(r, u, o)
      PROVE  \E quoi, c, rep : Demande(r, u, quoi, c, rep)
  <2> DEFINE c == clic[r].c
  <2>1. /\ onglet[u].nom = "caisse" /\ onglet[u].par = r
        /\ clic[r].quoi = "commander" /\ clic[r].rep = "ok" /\ EnLigne(c)
        /\ Demander(r, u, "initier", c, EnLigneNonPaye(c), FALSE, InitiateOnlinePayment(r, c, o))
    BY <1>1 DEF CommandeePuisInitier, Attendue
  <2>2. r # Aucun
    BY SuiviAssumption
  <2>3. DeSien(u, c)
    BY <2>1, <2>2, PagesDe DEF AttenteFidele
  <2>4. \E rep : Demande(r, u, "initier", c, rep)
    BY <2>1, <2>3, DemandeInitier
  <2> QED BY <2>4
<1>2. ASSUME NEW o \in Ordres, Reessayer(r, u, o)
      PROVE  \E quoi, c, rep : Demande(r, u, quoi, c, rep)
  <2> DEFINE c == onglet[u].de
  <2>1. /\ Prete(u, "annule") /\ clic[r] = Rien
        /\ Demander(r, u, "initier", c, EnLigneNonPaye(c), FALSE, InitiateOnlinePayment(r, c, o))
    BY <1>2 DEF Reessayer
  <2>2. DeSien(u, c) /\ EnLigne(c)
    BY <2>1, PagesDe DEF Prete, PageFidele
  <2>3. \E rep : Demande(r, u, "initier", c, rep)
    BY <2>1, <2>2, DemandeInitier
  <2> QED BY <2>3
<1> QED BY <1>1, <1>2, DemandeCommander, DemandeCapturer, DemandeAnnuler

\* The pages that the client goes to.
LEMMA Naviguent ==
  ASSUME Inductif, Pages, NEW u \in Clients, Navigue(u)
  PROVE  \E p \in PageT : Navigation(u, p)
<1> DEFINE q == onglet[u]
<1>0. /\ q \in PageT /\ PageFidele(u, q) /\ onglet \in [Clients -> PageT]
      /\ TypeOK /\ TablesFideles
  BY PagesDe DEF Inductif
<1>1. ASSUME NEW p \in PageT, Montrer(u, p), UNCHANGED <<clic, emission, suivi, aVoir>>,
             UNCHANGED <<commande, paiement, facture, produit, panier, req, net,
                         courriels, pannes>>,
             p.par = Aucun, p.montre \notin {"succes", "refus"}, MemesCaptures,
             q.par # Aucun => Recharge, PageFidele(u, p),
             p.nom \in {"retour", "annule"} => p.de \in Courante(u),
             p.nom = "paypal" => paypal[p.de].commande \in Courante(u)
      PROVE  Navigation(u, p)
  BY <1>1 DEF Navigation, Va, Montrer
<1>2. CASE Approuver(u) \/ Renoncer(u)
  <2> DEFINE c == paypal[q.de].commande
  <2>1. q.nom = "paypal" /\ q.par = Aucun
    BY <1>0, <1>2 DEF Approuver, Renoncer, Prete, PageFidele
  <2>2. q.de \in Ordres /\ DeSien(u, c) /\ EnLigne(c)
    BY <1>0, <2>1 DEF PageFidele, TablesFideles
  <2>3. c \in Courante(u)
    BY <2>1 DEF Courante
  <2>4. PICK nom \in {"retour", "annule"} : Montrer(u, Page(nom, c, "prete", Aucun))
    BY <1>2 DEF Approuver, Renoncer
  <2>5. Page(nom, c, "prete", Aucun) \in PageT
    BY <2>2 DEF Page, PageT, DeSien
  <2>6. PageFidele(u, Page(nom, c, "prete", Aucun))
    BY <2>2 DEF Page, PageFidele
  <2>7. MemesCaptures
    BY <1>0, <1>2, CapturesApprouver, CapturesInchangees DEF Approuver, Renoncer, vars
  <2>8. /\ UNCHANGED <<clic, emission, suivi, aVoir>>
        /\ UNCHANGED <<commande, paiement, facture, produit, panier, req, net,
                       courriels, pannes>>
    BY <1>2 DEF Approuver, Renoncer, ClientApprouve, vars
  <2>9. LET p == Page(nom, c, "prete", Aucun) IN
        /\ p.par = Aucun /\ p.montre = "prete" /\ p.de = c /\ p.nom = nom
    BY DEF Page
  <2> QED BY <1>1, <2>1, <2>3, <2>4, <2>5, <2>6, <2>7, <2>8, <2>9
<1>3. ASSUME NEW o \in Ordres, Reculer(u, o)
      PROVE  \E p \in PageT : Navigation(u, p)
  <2> DEFINE p == Page("paypal", o, "prete", Aucun)
  <2>1. /\ q.nom \in {"retour", "annule"} /\ q.par = Aucun /\ paypal[o].etat # "AUCUN"
        /\ paypal[o].commande = q.de
    BY <1>3 DEF Reculer
  <2>2. DeSien(u, q.de) /\ q.de \in Courante(u)
    BY <1>0, <2>1 DEF PageFidele, Courante
  <2>3. p \in PageT /\ PageFidele(u, p) /\ p.par = Aucun /\ p.montre = "prete"
        /\ p.nom = "paypal" /\ p.de = o
    BY <2>1, <2>2 DEF Page, PageT, PageFidele
  <2>4. /\ Montrer(u, p) /\ UNCHANGED <<clic, emission, suivi, aVoir>> /\ UNCHANGED vars
        /\ MemesCaptures
    BY <1>3, CapturesInchangees DEF Reculer, vars
  <2> QED BY <1>1, <2>1, <2>2, <2>3, <2>4 DEF vars
<1>4. CASE SessionExpiree(u) \/ Recharger(u) \/ VoirCommande(u)
  <2>1. /\ q.nom = "retour" /\ DeSien(u, q.de) /\ EnLigne(q.de) /\ q.de \in Courante(u)
        /\ q.par # Aucun => Recharge
    BY <1>0, <1>4 DEF SessionExpiree, Recharger, VoirCommande, Prete, PageFidele, Courante
  <2>2. /\ UNCHANGED <<clic, emission, suivi, aVoir>> /\ UNCHANGED vars
        /\ MemesCaptures
    BY <1>4, CapturesInchangees DEF SessionExpiree, Recharger, VoirCommande, vars
  <2>3. CASE SessionExpiree(u)
    <3> DEFINE p == [q EXCEPT !.montre = "expiree"]
    <3>1. q.par = Aucun
      BY <1>0, <2>3 DEF SessionExpiree, Prete, PageFidele
    <3>2. p \in PageT /\ p.nom = "retour" /\ p.de = q.de /\ p.montre = "expiree"
          /\ p.par = Aucun
      BY <1>0, <2>1, <3>1 DEF PageT
    <3>3. PageFidele(u, p)
      BY <2>1, <3>2 DEF PageFidele
    <3>4. Montrer(u, p)
      BY <2>3 DEF SessionExpiree
    <3> QED BY <1>1, <2>1, <2>2, <3>2, <3>3, <3>4 DEF vars
  <2>4. ASSUME NEW nom \in {"retour", "suivi"}, Montrer(u, Page(nom, q.de, "prete", Aucun))
        PROVE  \E p \in PageT : Navigation(u, p)
    <3> DEFINE p == Page(nom, q.de, "prete", Aucun)
    <3>1. /\ p \in PageT /\ p.nom = nom /\ p.de = q.de /\ p.montre = "prete"
          /\ p.par = Aucun
      BY <2>1 DEF Page, PageT, DeSien
    <3>2. PageFidele(u, p)
      BY <2>1, <3>1 DEF PageFidele
    <3> QED BY <1>1, <2>1, <2>2, <2>4, <3>1, <3>2 DEF vars
  <2> QED BY <1>4, <2>3, <2>4 DEF Recharger, VoirCommande
<1> QED BY <1>2, <1>3, <1>4 DEF Navigue

\* The pages that get an answer.
LEMMA Recoivent ==
  ASSUME Inductif, Pages, NEW r \in Requetes, NEW u \in Clients,
         Commandee(r, u) \/ VersPaypal(r, u) \/ Reessayee(r, u) \/ Annulee(r, u)
           \/ Capturee(r, u)
  PROVE  (\E p \in PageT : Recoit(r, u, p)) \/ Orphelin(r)
<1> DEFINE q == onglet[u]
           k == clic[r]
<1>0. /\ q \in PageT /\ PageFidele(u, q) /\ TypeOK /\ TablesFideles
      /\ k \in GesteT /\ Slot(k, req[r], emission[r]) /\ r # Aucun
      /\ q.par = r => AttenteFidele(u, q, k, req[r])
  BY PagesDe, SuiviAssumption DEF Inductif, Pages, TypeCaisse, SlotsSuivis
<1>1. ASSUME NEW p \in PageT, Repondue(r), Recevoir(r, u, p), q.par = r,
             p.par = Aucun, PageFidele(u, p),
             p.nom \in {"retour", "annule"} => p.de \in Courante(u),
             p.nom = "paypal" => paypal[p.de].commande \in Courante(u),
             p.nom = "retour" /\ p.montre \in {"succes", "refus"} =>
               /\ k.quoi = "capturer" /\ k.c = p.de
               /\ k.rep = IF p.montre = "succes" THEN "ok" ELSE "refus"
      PROVE  Recoit(r, u, p)
  BY <1>0, <1>1 DEF Recoit, Va, Rend, Recevoir, Montrer
<1>2. Panier \in PageT /\ Panier.par = Aucun /\ Panier.nom = "caisse" /\ PageFidele(u, Panier)
  BY DEF Panier, Page, PageT, PageFidele
<1>3. CASE Commandee(r, u)
  <2>1. q.par = r /\ Repondue(r) /\ k.quoi = "commander"
    BY <1>3 DEF Commandee, Attendue
  <2>2. CASE k.rep = "ok" /\ Recevoir(r, u, Page("suivi", k.c, "prete", Aucun))
    <3> DEFINE p == Page("suivi", k.c, "prete", Aucun)
    <3>1. DeSien(u, k.c)
      BY <1>0, <2>1, <2>2 DEF AttenteFidele
    <3>2. p \in PageT /\ p.par = Aucun /\ p.nom = "suivi" /\ PageFidele(u, p)
      BY <3>1 DEF Page, PageT, PageFidele, DeSien
    <3> QED BY <1>1, <2>1, <2>2, <3>2
  <2>3. CASE Recevoir(r, u, Panier)
    BY <1>1, <1>2, <2>1, <2>3
  <2> QED BY <1>3, <2>2, <2>3 DEF Commandee
<1>4. CASE VersPaypal(r, u) \/ Reessayee(r, u)
  <2>1. q.par = r /\ Repondue(r) /\ k.quoi = "initier" /\ q.nom \in {"caisse", "annule"}
    BY <1>4 DEF VersPaypal, Reessayee, Attendue
  <2>2. DeSien(u, k.c) /\ EnLigne(k.c) /\ (q.nom = "annule" => q.de = k.c)
    BY <1>0, <2>1 DEF AttenteFidele, Slot
  <2>3. k.c \in Courante(u)
    BY <1>0, <2>1, <2>2 DEF Courante
  <2>4. CASE k.rep = "ok" /\ Recevoir(r, u, Page("paypal", paiement[k.c].transaction, "prete", Aucun))
    <3> DEFINE o == paiement[k.c].transaction
               p == Page("paypal", o, "prete", Aucun)
    <3>1. k.c \in Commandes /\ o # Aucun
      BY <1>0, <2>1, <2>2, <2>4 DEF Slot, DeSien
    <3>2. o \in Ordres /\ paypal[o].etat # "AUCUN" /\ paypal[o].commande = k.c
      BY <1>0, <3>1 DEF TablesFideles, TypeOK, PaiementT
    <3>3. p \in PageT /\ p.par = Aucun /\ p.nom = "paypal" /\ p.de = o
      BY <3>2 DEF Page, PageT
    <3>4. PageFidele(u, p)
      BY <2>2, <3>2 DEF PageFidele, Page
    <3> QED BY <1>1, <2>1, <2>3, <2>4, <3>2, <3>3, <3>4
  <2>5. CASE q.nom = "annule" /\ Recevoir(r, u, Page("annule", q.de, "prete", Aucun))
    <3> DEFINE p == Page("annule", q.de, "prete", Aucun)
    <3>1. p \in PageT /\ p.par = Aucun /\ p.nom = "annule" /\ p.de = k.c /\ PageFidele(u, p)
      BY <2>2, <2>5 DEF Page, PageT, PageFidele, DeSien
    <3> QED BY <1>1, <2>1, <2>3, <2>5, <3>1
  <2>6. CASE Recevoir(r, u, Panier)
    BY <1>1, <1>2, <2>1, <2>6
  <2> QED BY <1>4, <2>4, <2>5, <2>6 DEF VersPaypal, Reessayee, Attendue
<1>5. CASE Annulee(r, u)
  <2>1. /\ q.par = r /\ Repondue(r) /\ q.nom = "annule"
        /\ \E m \in {"annulee", "prete"} : Recevoir(r, u, Page("annule", q.de, m, Aucun))
    BY <1>5 DEF Annulee, Attendue
  <2>2. DeSien(u, q.de) /\ EnLigne(q.de) /\ q.de \in Courante(u)
    <3>1. DeSien(u, q.de) /\ EnLigne(q.de)
      BY <1>0, <2>1 DEF PageFidele
    <3>2. q.de \in Courante(u)
      BY <1>0, <2>1 DEF Courante
    <3> QED BY <3>1, <3>2
  <2>3. PICK m \in {"annulee", "prete"} : Recevoir(r, u, Page("annule", q.de, m, Aucun))
    BY <2>1
  <2> DEFINE p == Page("annule", q.de, m, Aucun)
  <2>4. p \in PageT /\ p.par = Aucun /\ p.nom = "annule" /\ p.de = q.de /\ PageFidele(u, p)
    BY <2>2 DEF Page, PageT, PageFidele, DeSien
  <2>5. Recevoir(r, u, p) /\ p.nom = "annule" /\ p.de \in Courante(u)
    BY <2>2, <2>3, <2>4 DEF Page
  <2> HIDE DEF p
  <2> QED BY <1>1, <2>1, <2>4, <2>5
<1>6. CASE Capturee(r, u)
  <2>1. Repondue(r) /\ k.quoi = "capturer" /\ u = commande[k.c].client
    BY <1>6, Zenon DEF Capturee
  <2>2. CASE q.par = r
    <3> DEFINE p == Page("retour", q.de, Montre(k.rep), Aucun)
    <3>1. Recevoir(r, u, p)
      BY <1>6, <2>2 DEF Capturee
    <3>2. q.nom = "retour" /\ k.c = q.de /\ DeSien(u, q.de) /\ EnLigne(q.de)
      BY <1>0, <2>1, <2>2 DEF AttenteFidele, PageFidele
    <3>3. k.rep \in {"ok", "erreur", "refus"}
      BY <1>0, <2>1 DEF Slot, GesteT, Repondue
    <3>4. /\ Montre(k.rep) \in {"succes", "erreur", "refus"}
          /\ Montre(k.rep) = "succes" => k.rep = "ok"
          /\ Montre(k.rep) = "refus" => k.rep = "refus"
      BY <3>3 DEF Montre
    <3>5. p \in PageT /\ p.par = Aucun /\ p.nom = "retour" /\ p.de = q.de
          /\ p.montre = Montre(k.rep)
      BY <3>2, <3>4 DEF Page, PageT, DeSien
    <3>6. PageFidele(u, p)
      BY <3>2, <3>4, <3>5 DEF PageFidele
    <3>7. q.de \in Courante(u)
      BY <3>2 DEF Courante
    <3> HIDE DEF p
    <3> QED BY <1>1, <2>1, <2>2, <3>1, <3>2, <3>4, <3>5, <3>6, <3>7
  <2>3. CASE q.par # r
    <3>1. ASSUME NEW v \in Clients, onglet[v].par = r
          PROVE  FALSE
      <4>1. AttenteFidele(v, onglet[v], k, req[r])
        BY <1>0, <3>1, PagesDe
      <4>2. v = u
        BY <2>1, <4>1 DEF AttenteFidele, DeSien
      <4> QED BY <2>3, <3>1, <4>2
    <3>2. onglet' = onglet
      BY <1>6, <2>3 DEF Capturee, Recevoir, Montrer, Pages, TypeCaisse
    <3> QED BY <1>6, <2>1, <3>1, <3>2 DEF Capturee, Orphelin, Rend, Recevoir, Montrer
  <2> QED BY <2>2, <2>3
<1> QED BY <1>3, <1>4, <1>5, <1>6

\* A click of the staff, and what the page does at once.
EquipeClique(r, quoi, u, c, rep) ==
  /\ Lance(r, quoi, u, c, rep) /\ clic[r] = Rien /\ UNCHANGED <<vu, rafraichit, onglet>>
  /\ clics < MaxClics[paiement[c].methode] /\ clics' = clics + 1
  /\ \/ /\ quoi = "statut"
        /\ occupe' = [occupe EXCEPT ![u] = IF u \in Admins THEN {c} ELSE @ \cup {c}]
        /\ erreur' = [erreur EXCEPT ![u] = @ \ {"statut"}]
        /\ UNCHANGED encaisse
     \/ quoi = "assigner" /\ occupe' = [occupe EXCEPT ![u] = {c}]
        /\ UNCHANGED <<encaisse, erreur>>
     \/ /\ quoi = "cash"
        /\ encaisse' = [encaisse EXCEPT ![u] = @ \cup {c}]
        /\ erreur' = [erreur EXCEPT ![u] = @ \ {"cash"}]
        /\ UNCHANGED occupe
  /\ aVoir' = IF quoi = "assigner" THEN aVoir ELSE [aVoir EXCEPT ![u] = @ \cup {c}]

\* The kinds of steps.
Genre ==
  \/ \E r \in Requetes, u \in Equipe, c \in Commandes, quoi \in GestesEquipe :
       \E rep : EquipeClique(r, quoi, u, c, rep)
  \/ \E r \in Requetes, u \in Clients : \E quoi, c, rep : Demande(r, u, quoi, c, rep)
  \/ \E r \in Requetes : /\ RetourEquipe(r) \/ Pas(r) \/ Mourir(r) \/ Perdre(r) \/ Emettre(r)
                       /\ UNCHANGED onglet
  \/ \E u \in Equipe : (Rafraichir(u) \/ Charger(u)) /\ UNCHANGED onglet
  \/ \E c \in Commandes : ClientSuit(c) /\ UNCHANGED onglet
  \/ \E r \in Requetes, u \in Clients, p \in PageT : Recoit(r, u, p)
  \/ \E r \in Requetes : Orphelin(r)
  \/ \E u \in Clients, p \in PageT : Navigation(u, p)

LEMMA Genres ==
  ASSUME Inductif, Pages, NextCaisse
  PROVE  Genre
<1>1. ASSUME NEW r \in Requetes, NEW u \in Equipe, NEW c \in Commandes, UNCHANGED onglet,
             \/ \E e \in Etats : CliquerStatut(r, u, c, e)
             \/ \E l \in Livreurs : CliquerLivreur(r, u, c, l)
             \/ CliquerCash(r, u, c)
      PROVE  Genre
  <2>1. UNCHANGED vu /\ UNCHANGED rafraichit /\ clic[r] = Rien
        /\ clics < MaxClics[paiement[c].methode] /\ clics' = clics + 1
    BY <1>1 DEF CliquerStatut, CliquerLivreur, CliquerCash, Cliquer
  <2>2. ASSUME NEW e \in Etats, CliquerStatut(r, u, c, e)
        PROVE  \E rep : EquipeClique(r, "statut", u, c, rep)
    <3>1. PICK rep : Lance(r, "statut", u, c, rep)
      BY <2>2, LanceStatut
    <3> QED BY <1>1, <2>1, <2>2, <3>1 DEF EquipeClique, CliquerStatut, Cliquer
  <2>3. ASSUME NEW l, CliquerLivreur(r, u, c, l)
        PROVE  \E rep : EquipeClique(r, "assigner", u, c, rep)
    <3>1. PICK rep : Lance(r, "assigner", u, c, rep)
      BY <2>3, LanceLivreur
    <3> QED BY <1>1, <2>1, <2>3, <3>1 DEF EquipeClique, CliquerLivreur, Cliquer
  <2>4. ASSUME CliquerCash(r, u, c)
        PROVE  \E rep : EquipeClique(r, "cash", u, c, rep)
    <3>1. PICK rep : Lance(r, "cash", u, c, rep)
      BY <2>4, LanceCash
    <3> QED BY <1>1, <2>1, <2>4, <3>1 DEF EquipeClique, CliquerCash, Cliquer
  <2>5. \E quoi \in GestesEquipe : \E rep : EquipeClique(r, quoi, u, c, rep)
    BY <1>1, <2>2, <2>3, <2>4 DEF GestesEquipe
  <2> QED BY <2>5 DEF Genre
<1>2. ASSUME NEW r \in Requetes, PagesNext(r)
      PROVE  Genre
  BY <1>2, PagesDemandent, Recoivent DEF PagesNext, Genre
<1>3. ASSUME NEW u \in Clients, Navigue(u)
      PROVE  Genre
  BY <1>3, Naviguent DEF Genre
<1>4. ASSUME NEW u \in Clients, onglet[u].nom = "suivi", ClientSuit(onglet[u].de), UNCHANGED onglet
      PROVE  Genre
  <2>1. onglet[u].de \in Commandes
    BY <1>4, PagesDe DEF PageFidele, DeSien
  <2> QED BY <1>4, <2>1 DEF Genre
<1>5. ASSUME NEW r \in Requetes, EquipeNext(r), UNCHANGED onglet
      PROVE  Genre
  <2>1. CASE RetourEquipe(r)
    BY <1>5, <2>1 DEF Genre
  <2>2. ASSUME ~RetourEquipe(r)
        PROVE  Genre
    <3>1. PICK u \in Equipe, c \in Commandes :
            \/ \E e \in Etats : CliquerStatut(r, u, c, e)
            \/ \E l \in Livreurs : CliquerLivreur(r, u, c, l)
            \/ CliquerCash(r, u, c)
      BY <1>5, <2>2 DEF EquipeNext
    <3> QED BY <1>1, <1>5, <3>1
  <2> QED BY <2>1, <2>2
<1>6. ASSUME NEW r \in Requetes, Pas(r) \/ Mourir(r) \/ Perdre(r) \/ Emettre(r),
             UNCHANGED onglet
      PROVE  Genre
  BY <1>6 DEF Genre
<1>7. ASSUME NEW u \in Equipe, Rafraichir(u) \/ Charger(u), UNCHANGED onglet
      PROVE  Genre
  BY <1>7 DEF Genre
<1> QED BY <1>2, <1>3, <1>4, <1>5, <1>6, <1>7 DEF NextCaisse

\* The same, for what a step does to the tables.
LEMMA Sortes ==
  ASSUME Genre
  PROVE  \/ \E r \in Requetes : \E quoi, u, c, rep : Lance(r, quoi, u, c, rep)
         \/ \E r \in Requetes :
              RetourEquipe(r) \/ Mourir(r) \/ Perdre(r) \/ Emettre(r) \/ Rend(r)
         \/ \E r \in Requetes : Pas(r) /\ UNCHANGED onglet
         \/ \E u \in Equipe : Rafraichir(u) \/ Charger(u)
         \/ \E c \in Commandes : ClientSuit(c)
         \/ \E u \in Clients, p \in PageT : Navigation(u, p)
<1>1. ASSUME NEW r, NEW quoi, NEW u, NEW c, NEW rep, EquipeClique(r, quoi, u, c, rep)
      PROVE  Lance(r, quoi, u, c, rep)
  BY <1>1 DEF EquipeClique
<1>2. ASSUME NEW r, NEW quoi, NEW u, NEW c, NEW rep, Demande(r, u, quoi, c, rep)
      PROVE  Lance(r, quoi, u, c, rep)
  BY <1>2 DEF Demande
<1>3. ASSUME NEW r, NEW u, NEW p, Recoit(r, u, p)
      PROVE  Rend(r)
  BY <1>3 DEF Recoit
<1>4. ASSUME NEW r, Orphelin(r)
      PROVE  Rend(r)
  BY <1>4 DEF Orphelin
<1> QED BY <1>1, <1>2, <1>3, <1>4 DEF Genre

\* Every step of the pages is one of Boutique, or changes nothing there.
LEMMA UnPas ==
  ASSUME Inductif, Pages, [NextCaisse]_toutes
  PROVE  [Next]_vars
<1>1. ASSUME NEW r \in Requetes, NEW u \in Equipe, NEW c \in Commandes,
             \/ \E e \in Etats : CliquerStatut(r, u, c, e)
             \/ \E l \in Livreurs : CliquerLivreur(r, u, c, l)
             \/ CliquerCash(r, u, c)
      PROVE  [Next]_vars
  <2>1. \/ UNCHANGED vars
        \/ \E e \in Etats : UpdateStatus(r, u, c, e)
        \/ \E l \in Livreurs : AssignLivreur(r, c, l)
        \/ ConfirmCashPayment(r, u, c)
    BY <1>1 DEF CliquerStatut, CliquerLivreur, CliquerCash, Cliquer, Envoyer
  <2> QED BY <2>1 DEF Next, OrdersNext, PaymentsNext, Equipe
<1>2. ASSUME NEW r \in Requetes, NEW u \in Clients, NEW m \in Methodes, NEW a \in Adresses,
             Commander(r, u, m, a)
      PROVE  [Next]_vars
  <2>1. UNCHANGED vars \/ Create(r, u, m, a)
    BY <1>2 DEF Commander, Demander, Envoyer
  <2> QED BY <2>1 DEF Next, OrdersNext
<1>3. ASSUME NEW r \in Requetes, NEW u \in Clients, NEW o \in Ordres,
             CommandeePuisInitier(r, u, o) \/ Reessayer(r, u, o)
      PROVE  [Next]_vars
  <2>1. CASE CommandeePuisInitier(r, u, o)
    <3>1. /\ UNCHANGED vars \/ InitiateOnlinePayment(r, clic[r].c, o)
          /\ onglet[u].par = r /\ clic[r].rep = "ok"
      BY <2>1 DEF CommandeePuisInitier, Demander, Envoyer, Attendue
    <3>2. clic[r].c \in Commandes
      BY <3>1, PagesDe, SuiviAssumption DEF AttenteFidele, DeSien
    <3> QED BY <3>1, <3>2 DEF Next, PaymentsNext
  <2>2. CASE Reessayer(r, u, o)
    <3>1. /\ UNCHANGED vars \/ InitiateOnlinePayment(r, onglet[u].de, o)
          /\ onglet[u].nom = "annule"
      BY <2>2 DEF Reessayer, Demander, Envoyer, Prete
    <3>2. onglet[u].de \in Commandes
      BY <3>1, PagesDe DEF PageFidele, DeSien
    <3> QED BY <3>1, <3>2 DEF Next, PaymentsNext
  <2> QED BY <1>3, <2>1, <2>2
<1>4. ASSUME NEW r \in Requetes, NEW u \in Clients, Capturer(r, u) \/ Annuler(r, u)
      PROVE  [Next]_vars
  <2>1. /\ UNCHANGED vars \/ CaptureOnlinePayment(r, onglet[u].de) \/ Cancel(r, onglet[u].de)
        /\ onglet[u].nom \in {"retour", "annule"}
    BY <1>4 DEF Capturer, Annuler, Demander, Envoyer, Prete
  <2>2. onglet[u].de \in Commandes
    BY <2>1, PagesDe DEF PageFidele, DeSien
  <2> QED BY <2>1, <2>2 DEF Next, OrdersNext, PaymentsNext
<1>5. ASSUME NEW r \in Requetes, NEW u \in Clients,
             Commandee(r, u) \/ VersPaypal(r, u) \/ Reessayee(r, u) \/ Annulee(r, u)
               \/ Capturee(r, u)
      PROVE  UNCHANGED vars
  BY <1>5 DEF Commandee, VersPaypal, Reessayee, Annulee, Capturee, Recevoir
<1>6. ASSUME NEW u \in Clients, Navigue(u)
      PROVE  [Next]_vars
  <2>1. CASE Approuver(u)
    <3>1. onglet[u].de \in Ordres /\ ClientApprouve(onglet[u].de)
      BY <2>1, PagesDe DEF Approuver, Prete, PageFidele
    <3> QED BY <3>1 DEF Next
  <2>2. CASE ~Approuver(u)
    BY <1>6, <2>2 DEF Navigue, Renoncer, SessionExpiree, Recharger, VoirCommande, Reculer
  <2> QED BY <2>1, <2>2
<1>7. ASSUME NEW r \in Requetes,
             RetourEquipe(r) \/ Pas(r) \/ Mourir(r) \/ Perdre(r) \/ Emettre(r)
      PROVE  [Next]_vars
  <2>1. UNCHANGED vars \/ Avance(r) \/ Panne(r)
    BY <1>7 DEF RetourEquipe, Pas, Mourir, Perdre, Emettre
  <2> QED BY <2>1 DEF Next, Avance, OrdersNext, PaymentsNext, InvoicesNext
<1>8. ASSUME NEW u, Rafraichir(u) \/ Charger(u)
      PROVE  UNCHANGED vars
  BY <1>8 DEF Rafraichir, Charger
<1>9. ASSUME NEW c, ClientSuit(c)
      PROVE  UNCHANGED vars
  BY <1>9 DEF ClientSuit, OuvrirSuivi, Joindre, Couper
<1>10. ASSUME UNCHANGED toutes
       PROVE  UNCHANGED vars
  BY <1>10 DEF toutes
<1> QED
  BY <1>1, <1>2, <1>3, <1>4, <1>5, <1>6, <1>7, <1>8, <1>9, <1>10
  DEF NextCaisse, PagesNext, EquipeNext

----------------------------------------------------------------------------
(* What a running handler changes on the pages.                            *)

\* The click behind each await.
LEMMA AttentesDe ==
  ASSUME NEW quoi \in {"rien"} \cup GestesEquipe \cup GestesClient, NEW pc \in Attentes[quoi]
  PROVE  /\ quoi # "rien" /\ pc # "libre" /\ pc # "update"
         /\ pc = "updateStatus" <=> quoi = "statut"
         /\ pc = "assignLivreur" <=> quoi = "assigner"
         /\ pc = "create" <=> quoi = "commander"
         /\ pc = "initiate" <=> quoi = "initier"
         /\ pc \in {"capture", "echec", "confirmOnline", "consommer"} => quoi = "capturer"
         /\ pc = "cancel" => quoi \in {"capturer", "annuler"}
         /\ pc \in {"statut", "notifier", "generate", "facture", "sendInvoice"} =>
              quoi \in {"cash", "capturer"}
<1>1. CASE quoi = "rien"
  BY <1>1 DEF Attentes
<1>2. CASE quoi \in GestesEquipe
  BY <1>2 DEF Attentes, GestesEquipe
<1>3. CASE quoi \in GestesClient
  BY <1>3 DEF Attentes, GestesClient
<1> QED BY <1>1, <1>2, <1>3

LEMMA GesteAttend ==
  ASSUME NEW k \in GesteT, NEW pc \in Attentes[k.quoi]
  PROVE  /\ k.quoi # "rien" /\ pc # "libre" /\ pc # "update"
         /\ pc = "updateStatus" <=> k.quoi = "statut"
         /\ pc = "assignLivreur" <=> k.quoi = "assigner"
         /\ pc = "create" <=> k.quoi = "commander"
         /\ pc = "initiate" <=> k.quoi = "initier"
         /\ pc \in {"capture", "echec", "confirmOnline", "consommer"} => k.quoi = "capturer"
         /\ pc = "cancel" => k.quoi \in {"capturer", "annuler"}
         /\ pc \in {"statut", "notifier", "generate", "facture", "sendInvoice"} =>
              k.quoi \in {"cash", "capturer"}
<1>1. PICK quoi \in {"rien"} \cup GestesEquipe \cup GestesClient : quoi = k.quoi
  BY DEF GesteT
<1> QED BY <1>1, AttentesDe

\* What Pages says of a slot whose request runs.
LEMMA SlotEnCours ==
  ASSUME Pages, NEW r \in Requetes, req[r].pc # "libre"
  PROVE  /\ clic[r] \in GesteT /\ clic[r].rep = "attend" /\ emission[r] = Aucun
         /\ clic[r].quoi # "rien" /\ req[r].pc \in Attentes[clic[r].quoi]
         /\ clic[r].quoi \in GestesEquipe => clic[r].u \in Equipe
         /\ clic[r].quoi \notin GestesEquipe => clic[r].u = Aucun
         /\ req[r].pc # "create" =>
              req[r].c = clic[r].c /\ clic[r].c \in Commandes /\ Existe(clic[r].c)
<1>1. clic[r] \in GesteT /\ Slot(clic[r], req[r], emission[r])
  BY DEF Pages, TypeCaisse, SlotsSuivis
<1>2. clic[r].quoi \in {"rien"} \cup GestesEquipe \cup GestesClient
  BY <1>1 DEF GesteT
<1>3. req[r].pc \in Attentes[clic[r].quoi] /\ clic[r].rep = "attend" /\ emission[r] = Aucun
  BY <1>1 DEF Slot
<1>4. clic[r].quoi # "rien" /\ (req[r].pc # "create" => clic[r].quoi # "commander")
  BY <1>2, <1>3, AttentesDe
<1> QED BY <1>1, <1>3, <1>4 DEF Slot

\* The client's pages can no longer be relied on.
Brouille == [d \in Commandes |-> IF suivi[d] = PasOuverte
               THEN PasOuverte ELSE [suivi[d] EXCEPT !.intact = FALSE]]

\* The click that an answer leaves in its slot.
LEMMA ReponseDe ==
  ASSUME NEW k \in GesteT, NEW i, NEW d
  PROVE  /\ [k EXCEPT !.rep = i] = [quoi |-> k.quoi, u |-> k.u, c |-> k.c, rep |-> i]
         /\ [[k EXCEPT !.rep = i] EXCEPT !.c = d]
              = [quoi |-> k.quoi, u |-> k.u, c |-> d, rep |-> i]
<1>1. PICK m : m = [k EXCEPT !.rep = i]
  OBVIOUS
<1>2. m = [quoi |-> k.quoi, u |-> k.u, c |-> k.c, rep |-> i]
  BY <1>1 DEF GesteT
<1>3. [m EXCEPT !.c = d] = [quoi |-> k.quoi, u |-> k.u, c |-> d, rep |-> i]
  BY <1>2
<1> QED BY <1>1, <1>2, <1>3, Zenon

LEMMA PasCreate ==
  ASSUME Inductif, Pages, NEW r \in Requetes, Pas(r), req[r].pc = "create"
  PROVE  /\ CreateTransaction(r) /\ clic[r].quoi = "commander"
         /\ clic' = [clic EXCEPT ![r] = Clic("commander", Aucun, Creee, "ok")]
         /\ UNCHANGED <<emission, suivi, aVoir, vu, occupe, encaisse, rafraichit,
                        erreur, clics>>
<1>1. CreateTransaction(r)
  BY AvanceParPc DEF Pas
<1>2. clic[r] \in GesteT /\ clic[r].quoi = "commander" /\ clic[r].u = Aucun
  <2>1. clic[r] \in GesteT /\ req[r].pc \in Attentes[clic[r].quoi]
    BY SlotEnCours
  <2>2. clic[r].quoi = "commander"
    BY <2>1, GesteAttend
  <2> QED BY <2>1, <2>2, SlotEnCours DEF GestesEquipe
<1>3. Libre(r)'
  BY <1>1 DEF CreateTransaction, Repond, Etape, Libre, Inductif, TypeOK
<1>4. Issue(r) = "ok"
  BY DEF Issue
<1>5. /\ clic' = [clic EXCEPT ![r].rep = Issue(r), ![r].c = Creee]
      /\ UNCHANGED <<emission, suivi, aVoir, vu, occupe, encaisse, rafraichit,
                     erreur, clics>>
  BY <1>3 DEF Pas
<1>6. [[clic[r] EXCEPT !.rep = "ok"] EXCEPT !.c = Creee] = Clic("commander", Aucun, Creee, "ok")
  <2>2. [[clic[r] EXCEPT !.rep = "ok"] EXCEPT !.c = Creee]
          = [quoi |-> clic[r].quoi, u |-> clic[r].u, c |-> Creee, rep |-> "ok"]
    BY <1>2, ReponseDe, Zenon
  <2>3. Clic("commander", Aucun, Creee, "ok")
          = [quoi |-> "commander", u |-> Aucun, c |-> Creee, rep |-> "ok"]
    BY DEF Clic, GestesEquipe
  <2> QED BY <1>2, <2>2, <2>3
<1>7. clic \in [Requetes -> GesteT]
  BY DEF Pages, TypeCaisse
<1> QED BY <1>1, <1>2, <1>4, <1>5, <1>6, <1>7

\* How a handler about order c leaves the pages.
PasEcrit(r, c) ==
  /\ UNCHANGED <<vu, occupe, encaisse, rafraichit, erreur, clics>>
  /\ emission' = IF req[r].pc = "updateStatus"
                   THEN [emission EXCEPT ![r] = VueDe(c)'] ELSE emission
  /\ clic' = IF req'[r].pc = "libre" /\ req[r].pc # "updateStatus"
               THEN [clic EXCEPT ![r] = [clic[r] EXCEPT !.rep = Issue(r)]] ELSE clic
  /\ \/ aVoir' = aVoir
     \/ clic[r].u # Aucun /\ aVoir' = [aVoir EXCEPT ![clic[r].u] = @ \cup {c}]
  /\ suivi' = IF \/ req[r].pc = "updateStatus" /\ \E q \in Requetes : emission[q] # Aucun
                 \/ /\ VueDe(c)' # VueDe(c) /\ commande'[c].etat = "ANNULEE"
                    /\ req[r].pc # "updateStatus"
                THEN Brouille ELSE suivi

LEMMA PasAutre ==
  ASSUME Inductif, Pages, NEW r \in Requetes, Pas(r), req[r].pc # "create"
  PROVE  \E c \in Commandes : c = req[r].c /\ PasEcrit(r, c)
<1>1. req[r].pc # "libre"
  BY AvanceParPc DEF Pas
<1>2. PICK c \in Commandes : c = req[r].c /\ c = clic[r].c /\ c # Aucun
  BY <1>1, SlotEnCours, SuiviAssumption
<1>3. clic[r] \in GesteT
  BY <1>1, SlotEnCours
<1>4. PICK d \in {IF req[r].pc = "create" THEN Aucun ELSE req[r].c} : Pas(r)!2!(d)
  BY Zenon DEF Pas
<1>5. d = c
  BY <1>2, <1>4
<1>6. Pas(r)!2!(c)
  BY <1>4, <1>5, Zenon
<1>7. /\ emission' = IF req[r].pc = "updateStatus"
                          THEN [emission EXCEPT ![r] = VueDe(c)'] ELSE emission
      /\ clic' = IF req'[r].pc = "libre" /\ req[r].pc # "updateStatus"
                      THEN [clic EXCEPT ![r].rep = Issue(r),
                                        ![r].c = IF c = Aucun THEN Creee ELSE @] ELSE clic
      /\ \/ aVoir' = aVoir
         \/ clic[r].u # Aucun /\ aVoir' = [aVoir EXCEPT ![clic[r].u] = @ \cup {c}]
      /\ suivi' = IF \/ req[r].pc = "updateStatus" /\ \E q \in Requetes : emission[q] # Aucun
                     \/ /\ VueDe(c)' # VueDe(c) /\ commande'[c].etat = "ANNULEE"
                        /\ req[r].pc # "updateStatus"
                       THEN Brouille ELSE suivi
  BY <1>2, <1>6 DEF AEmettre, Libre, Brouille
<1>8. UNCHANGED <<vu, occupe, encaisse, rafraichit, erreur, clics>>
  BY DEF Pas
<1>9. [clic EXCEPT ![r].rep = Issue(r), ![r].c = IF c = Aucun THEN Creee ELSE @]
        = [clic EXCEPT ![r] = [clic[r] EXCEPT !.rep = Issue(r)]]
  <2>1. clic \in [Requetes -> GesteT]
    BY DEF Pages, TypeCaisse
  <2>2. [[clic[r] EXCEPT !.rep = Issue(r)] EXCEPT !.c = c]
          = [quoi |-> clic[r].quoi, u |-> clic[r].u, c |-> c, rep |-> Issue(r)]
    BY <1>3, ReponseDe, Zenon
  <2>3. [clic[r] EXCEPT !.rep = Issue(r)]
          = [quoi |-> clic[r].quoi, u |-> clic[r].u, c |-> c, rep |-> Issue(r)]
    BY <1>2, <1>3, ReponseDe, Zenon
  <2> QED BY <1>2, <2>1, <2>2, <2>3
<1> QED BY <1>2, <1>7, <1>8, <1>9 DEF PasEcrit

----------------------------------------------------------------------------
(* What every step keeps of the pages.                                     *)

\* What no step takes back, seen from the pages.
Reste ==
  /\ Inductif' /\ Acquis
  /\ \A c \in Commandes :
       paiement[c].transaction # Aucun => paiement'[c].transaction # Aucun

LEMMA ResteVrai ==
  ASSUME Inductif, Pages, [NextCaisse]_toutes
  PROVE  Reste
<1>1. [Next]_vars
  BY UnPas
<1>2. Inductif' /\ Acquis
  BY <1>1, InductifPas, AcquisPas
<1>3. ASSUME NEW r \in Requetes, EcritTables(r), NEW c \in Commandes,
             paiement[c].transaction # Aucun
      PROVE  paiement'[c].transaction # Aucun
  <2>0. TypeOK /\ TablesFideles /\ req[r] \in Etapes
    BY DEF Inductif, TypeOK
  <2>1. CASE CreateTransaction(r)
    <3>1. Existe(c)
      BY <1>3, <2>0 DEF TablesFideles, TypeOK, PaiementT, EnLigne
    <3>2. paiement'[c] = paiement[c]
      BY <2>1, <3>1, CreateUne
    <3> QED BY <1>3, <3>2
  <2>2. CASE InitiateEcrire(r)
    <3>1. req[r].ordre # Aucun
      BY <2>0, <2>2, EtapeSelonPc, DonneesAssumption DEF InitiateEcrire, EtapeInitiate
    <3> QED BY <1>3, <2>0, <2>2, <3>1 DEF InitiateEcrire, TypeOK, PaiementT
  <2>3. CASE StatutEcrire(r)
    BY <1>3, <2>0, <2>3 DEF StatutEcrire, TypeOK, PaiementT
  <2>4. CASE ~CreateTransaction(r) /\ ~InitiateEcrire(r) /\ ~StatutEcrire(r)
    BY <1>3, <2>4
    DEF EcritTables, EcritCommande, UpdateEcrire, CancelTransaction, AssignLivreurEcrire,
        UpdateStatusEcrire, CaptureOrder, FactureCreate, InitiateOnlinePayment
  <2> QED BY <2>1, <2>2, <2>3, <2>4
<1> QED BY <1>1, <1>2, <1>3, Cadre DEF Reste, tables, ClientApprouve

\* What a page gets of an order that exists.
LEMMA VueType ==
  ASSUME TypeOK, TablesFideles, NEW c \in Commandes, Existe(c)
  PROVE  VueDe(c) \in Vue /\ VueDe(c) # Aucun
<1>1. commande[c] \in CommandeT /\ paiement[c] \in PaiementT
  BY DEF TypeOK
<1>2. VueDe(c) \in Vue
  BY <1>1 DEF TablesFideles, Existe, VueDe, Vue, CommandeT, PaiementT
<1> QED BY <1>2, SuiviAssumption

LEMMA VueTypeSuivante ==
  ASSUME Reste, NEW c \in Commandes, Existe(c)
  PROVE  VueDe(c)' \in Vue /\ VueDe(c)' # Aucun
<1>1. commande'[c] \in CommandeT /\ paiement'[c] \in PaiementT /\ Existe(c)'
  BY DEF Reste, Inductif, TypeOK, Acquis
<1>2. VueDe(c)' \in Vue
  BY <1>1 DEF Reste, Inductif, TablesFideles, Existe, VueDe, Vue, CommandeT, PaiementT
<1> QED BY <1>2, SuiviAssumption

LEMMA DeSienDure ==
  ASSUME Inductif, Reste, NEW u, NEW c, DeSien(u, c)
  PROVE  /\ DeSien(u, c)' /\ paiement'[c].methode = paiement[c].methode
BY DEF Reste, DeSien, Acquis

LEMMA SlotDure ==
  ASSUME Inductif, Reste, NEW k \in GesteT, NEW q, NEW e, Slot(k, q, e)
  PROVE  Slot(k, q, e)'
<1>1. k.c \in Commandes /\ Existe(k.c) =>
        /\ Existe(k.c)' /\ paiement'[k.c].methode = paiement[k.c].methode
        /\ paiement[k.c].transaction # Aucun => paiement'[k.c].transaction # Aucun
  BY DEF Reste, Acquis
<1>2. k.quoi \in {"rien", "commander"} \cup {"initier", "capturer", "annuler"} \cup GestesEquipe
  BY DEF GesteT, GestesClient
<1> QED BY <1>1, <1>2 DEF Slot, EnLigne, ALaLivraison, GestesEquipe

LEMMA PageDure ==
  ASSUME Inductif, Reste, NEW u, NEW p, PageFidele(u, p)
  PROVE  PageFidele(u, p)'
<1>1. p.nom \in {"retour", "annule", "suivi"} =>
        DeSien(u, p.de)' /\ paiement'[p.de].methode = paiement[p.de].methode
  BY DeSienDure DEF PageFidele
<1>2. p.nom = "paypal" =>
        /\ paypal'[p.de].etat # "AUCUN" /\ paypal'[p.de].commande = paypal[p.de].commande
        /\ DeSien(u, paypal[p.de].commande)'
  <2> SUFFICES ASSUME p.nom = "paypal"
               PROVE  <1>2!2
    OBVIOUS
  <2>1. p.de \in Ordres /\ paypal[p.de].etat # "AUCUN" /\ DeSien(u, paypal[p.de].commande)
    BY DEF PageFidele
  <2>2. paypal'[p.de].etat # "AUCUN" /\ paypal'[p.de].commande = paypal[p.de].commande
    BY <2>1 DEF Reste, Acquis
  <2>3. PICK c : c = paypal[p.de].commande
    OBVIOUS
  <2>4. DeSien(u, c)'
    BY <2>1, <2>3, DeSienDure
  <2> QED BY <2>2, <2>3, <2>4 DEF DeSien
<1> QED BY <1>1, <1>2 DEF PageFidele, EnLigne, DeSien

LEMMA AttenteDure ==
  ASSUME Inductif, Reste, NEW u, NEW p, NEW k, NEW q, AttenteFidele(u, p, k, q)
  PROVE  AttenteFidele(u, p, k, q)'
BY DeSienDure DEF AttenteFidele

\* Only the slot that moves has to be looked at ...
LEMMA SlotsAutres ==
  ASSUME Inductif, Pages, Reste, NEW r \in Requetes, Slot(clic[r], req[r], emission[r])',
         \A s \in Requetes \ {r} :
           clic'[s] = clic[s] /\ req'[s] = req[s] /\ emission'[s] = emission[s]
  PROVE  SlotsSuivis'
<1>1. ASSUME NEW s \in Requetes \ {r}
      PROVE  Slot(clic[s], req[s], emission[s])'
  <2>1. PICK k, q, e : k \in GesteT /\ k = clic[s] /\ q = req[s] /\ e = emission[s]
    BY DEF Pages, TypeCaisse
  <2>2. Slot(k, q, e)
    BY <2>1 DEF Pages, SlotsSuivis
  <2>3. Slot(k, q, e)'
    BY <2>1, <2>2, SlotDure
  <2> QED BY <2>1, <2>3 DEF Slot
<1> QED BY <1>1 DEF SlotsSuivis

LEMMA SlotsInchanges ==
  ASSUME Inductif, Pages, Reste, UNCHANGED <<clic, req, emission>>
  PROVE  SlotsSuivis'
<1> SUFFICES ASSUME NEW s \in Requetes
             PROVE  Slot(clic[s], req[s], emission[s])'
  BY DEF SlotsSuivis
<1>1. PICK k, q, e : k \in GesteT /\ k = clic[s] /\ q = req[s] /\ e = emission[s]
  BY DEF Pages, TypeCaisse
<1>2. Slot(k, q, e)
  BY <1>1 DEF Pages, SlotsSuivis
<1>3. Slot(k, q, e)'
  BY <1>1, <1>2, SlotDure
<1> QED BY <1>1, <1>3 DEF Slot

\* ... only the tab that moves, and the one that waits for that slot ...
Attend(u) == AttenteFidele(u, onglet[u], clic[onglet[u].par], req[onglet[u].par])

LEMMA AttendDure ==
  ASSUME Inductif, Pages, Reste, NEW u \in Clients, onglet[u].par # Aucun,
         onglet'[u] = onglet[u],
         clic'[onglet[u].par] = clic[onglet[u].par], req'[onglet[u].par] = req[onglet[u].par]
  PROVE  Attend(u)'
<1>1. PICK p, k, q : p = onglet[u] /\ k = clic[p.par] /\ q = req[p.par]
  OBVIOUS
<1>2. AttenteFidele(u, p, k, q)
  BY <1>1, PagesDe
<1>3. AttenteFidele(u, p, k, q)'
  BY <1>2, AttenteDure
<1> QED BY <1>1, <1>3 DEF Attend, AttenteFidele

LEMMA OngletsAutres ==
  ASSUME Inductif, Pages, Reste, NEW r \in Requetes,
         \A s \in Requetes \ {r} : clic'[s] = clic[s] /\ req'[s] = req[s],
         \A u \in Clients :
           \/ /\ onglet'[u] = onglet[u]
              /\ onglet[u].par = r => Attend(u)'
           \/ /\ PageFidele(u, onglet[u])'
              /\ onglet'[u].par = Aucun \/ (onglet'[u].par = r /\ Attend(u)')
              /\ onglet'[u].par # Aucun =>
                   \A v \in Clients \ {u} : onglet'[v] = onglet[v] /\ onglet[v].par # r
  PROVE  OngletsSuivis'
<1>1. ASSUME NEW u \in Clients
      PROVE  PageFidele(u, onglet[u])' /\ (onglet'[u].par # Aucun => Attend(u)')
  <2>1. CASE onglet'[u] = onglet[u] /\ (onglet[u].par = r => Attend(u)')
    <3>1. PICK p : p = onglet[u]
      OBVIOUS
    <3>2. PageFidele(u, p)'
      BY <3>1, PagesDe, PageDure
    <3>3. PageFidele(u, onglet[u])'
      BY <2>1, <3>1, <3>2 DEF PageFidele
    <3>4. onglet[u].par # Aucun /\ onglet[u].par # r => Attend(u)'
      BY <2>1, PagesDe, AttendDure
    <3> QED BY <2>1, <3>3, <3>4
  <2>2. CASE PageFidele(u, onglet[u])' /\ (onglet'[u].par = Aucun \/ (onglet'[u].par = r /\ Attend(u)'))
    BY <2>2
  <2> QED BY <2>1, <2>2
<1>2. ASSUME NEW u \in Clients, NEW v \in Clients,
             onglet'[u].par = onglet'[v].par, onglet'[u].par # Aucun
      PROVE  u = v
  BY <1>2 DEF Pages, OngletsSuivis
<1> QED BY <1>1, <1>2 DEF OngletsSuivis, Attend

LEMMA OngletsInchanges ==
  ASSUME Inductif, Pages, Reste, UNCHANGED <<clic, req>>,
         \A u \in Clients : \/ onglet'[u] = onglet[u]
                            \/ onglet'[u].par = Aucun /\ PageFidele(u, onglet[u])'
  PROVE  OngletsSuivis'
<1>1. ASSUME NEW u \in Clients
      PROVE  PageFidele(u, onglet[u])' /\ (onglet'[u].par # Aucun => Attend(u)')
  <2>1. CASE onglet'[u] = onglet[u]
    <3>1. PICK p : p = onglet[u]
      OBVIOUS
    <3>2. PageFidele(u, p)'
      BY <3>1, PagesDe, PageDure
    <3>3. PageFidele(u, onglet[u])'
      BY <2>1, <3>1, <3>2 DEF PageFidele
    <3> QED BY <2>1, <3>3, AttendDure
  <2>2. CASE onglet'[u].par = Aucun /\ PageFidele(u, onglet[u])'
    BY <2>2
  <2> QED BY <2>1, <2>2
<1>2. ASSUME NEW u \in Clients, NEW v \in Clients,
             onglet'[u].par = onglet'[v].par, onglet'[u].par # Aucun
      PROVE  u = v
  BY <1>2 DEF Pages, OngletsSuivis
<1> QED BY <1>1, <1>2 DEF OngletsSuivis, Attend

\* ... and what the staff saw is still there.
LEMMA VuesInchangees ==
  ASSUME Pages, Reste, UNCHANGED vu
  PROVE  VuesFideles'
BY DEF Pages, VuesFideles, Reste, Acquis

----------------------------------------------------------------------------
(* The pages after each kind of step.                                      *)

\* A slot whose click leaves.
LEMMA SlotLance ==
  ASSUME Inductif, Pages, Reste, NEW r \in Requetes, NEW quoi, NEW u, NEW c, NEW rep,
         Lance(r, quoi, u, c, rep), clic[r].rep # "attend"
  PROVE  /\ clic'[r] = Clic(quoi, u, c, rep) /\ clic' \in [Requetes -> GesteT]
         /\ \A s \in Requetes \ {r} :
              clic'[s] = clic[s] /\ req'[s] = req[s] /\ emission'[s] = emission[s]
         /\ SlotsSuivis'
         /\ quoi \in GestesEquipe \cup GestesClient /\ rep \in {"attend", "ok", "erreur"}
<1>1. /\ clic \in [Requetes -> GesteT] /\ emission[r] = Aucun /\ emission' = emission
      /\ req \in [Requetes -> Etapes] /\ Libre(r)
  BY DEF Pages, TypeCaisse, SlotsSuivis, Slot, Lance, Libre, Inductif, TypeOK
<1>2. quoi \in GestesEquipe \cup GestesClient /\ rep \in {"attend", "ok", "erreur"}
  BY DEF Lance, ClicFidele, GestesClient
<1>3. c \in Commandes \cup {Aucun} /\ (quoi \in GestesEquipe => u \in Equipe)
  BY DEF Lance, ClicFidele, DeSien, GestesEquipe
<1>4. clic'[r] = Clic(quoi, u, c, rep) /\ clic' = [clic EXCEPT ![r] = Clic(quoi, u, c, rep)]
  BY <1>1 DEF Lance
<1>5. Clic(quoi, u, c, rep) \in GesteT
  BY <1>2, <1>3 DEF Clic, GesteT, GestesEquipe
<1>6. \A s \in Requetes \ {r} :
        clic'[s] = clic[s] /\ req'[s] = req[s] /\ emission'[s] = emission[s]
  <2>1. req' = [req EXCEPT ![r] = req'[r]] \/ req' = req
    BY DEF Lance
  <2> QED BY <1>1, <1>4, <2>1
<1>7. Slot(clic[r], req[r], emission[r])'
  <2> DEFINE k == Clic(quoi, u, c, rep)
  <2>1. /\ k.quoi = quoi /\ k.c = c /\ k.rep = rep
        /\ k.u = IF quoi \in GestesEquipe THEN u ELSE Aucun
    BY DEF Clic
  <2>2. clic'[r] = k /\ emission'[r] = Aucun
    BY <1>1, <1>4
  <2>3. /\ quoi # "rien" /\ rep # ""
        /\ quoi \in GestesEquipe => u \in Equipe /\ c \in Commandes /\ Existe(c)
        /\ quoi = "cash" => ALaLivraison(c)
        /\ quoi \in {"initier", "capturer", "annuler"} => c \in Commandes /\ Existe(c) /\ EnLigne(c)
        /\ rep = "ok" => quoi \in {"cash", "capturer"}
        /\ quoi \in GestesEquipe \cup {"initier", "capturer", "annuler", "commander"}
    BY DEF Lance, ClicFidele, DeSien, GestesEquipe
  <2>4. /\ c \in Commandes /\ Existe(c) =>
             Existe(c)' /\ paiement'[c].methode = paiement[c].methode
        /\ quoi \in {"initier", "capturer", "annuler"} => EnLigne(c)'
        /\ quoi = "cash" => ALaLivraison(c)'
    BY <2>3 DEF Reste, Acquis, EnLigne, ALaLivraison, GestesEquipe
  <2>5. \/ rep = "attend" /\ Premier(quoi, u, c, req'[r])
        \/ rep # "attend" /\ req'[r].pc = "libre"
    BY <1>1 DEF Lance, Libre
  <2>6. ASSUME rep = "attend", Premier(quoi, u, c, req'[r])
        PROVE  /\ req'[r].pc # "libre" /\ req'[r].pc \in Attentes[quoi]
               /\ req'[r].pc # "create" => req'[r].c = c
    BY <2>6, <1>2 DEF Premier, Attentes, GestesEquipe, GestesClient
  <2> HIDE DEF k
  <2> QED BY <2>1, <2>2, <2>3, <2>4, <2>5, <2>6 DEF Slot, GestesEquipe
<1>8. SlotsSuivis'
  BY <1>6, <1>7, SlotsAutres
<1> QED BY <1>1, <1>2, <1>4, <1>5, <1>6, <1>8

LEMMA RienChamps ==
  /\ Rien.quoi = "rien" /\ Rien.rep = "" /\ Rien.u = Aucun /\ Rien.c = Aucun
  /\ Rien \in GesteT
BY DEF Rien, GesteT

\* The tab that waits for slot r made its click.
LEMMA AttentesPages ==
  ASSUME Pages, NEW u \in Clients, onglet[u].par # Aucun
  PROVE  /\ onglet[u].par \in Requetes /\ onglet[u].montre = "attente"
         /\ onglet[u].nom \in {"caisse", "retour", "annule"}
         /\ clic[onglet[u].par].quoi \in GestesClient
         /\ clic[onglet[u].par] # Rien
         /\ \A v \in Clients : onglet[v].par = onglet[u].par => v = u
<1>1. /\ PageFidele(u, onglet[u]) /\ onglet[u].par \in Requetes
      /\ AttenteFidele(u, onglet[u], clic[onglet[u].par], req[onglet[u].par])
  BY PagesDe
<1>2. /\ onglet[u].montre = "attente" /\ onglet[u].nom \in {"caisse", "retour", "annule"}
      /\ clic[onglet[u].par].quoi \in GestesClient
  BY <1>1 DEF PageFidele, AttenteFidele, GestesClient
<1>3. clic[onglet[u].par] # Rien
  BY <1>2, RienChamps DEF GestesClient
<1> QED BY <1>1, <1>2, <1>3 DEF Pages, OngletsSuivis

LEMMA PagesEquipe ==
  ASSUME Inductif, Pages, Reste, NEW r \in Requetes, NEW quoi \in GestesEquipe,
         NEW u \in Equipe, NEW c \in Commandes, NEW rep, EquipeClique(r, quoi, u, c, rep)
  PROVE  Pages'
<1>0. Lance(r, quoi, u, c, rep) /\ clic[r] = Rien /\ clic[r].rep # "attend"
  BY RienChamps DEF EquipeClique
<1>1. /\ clic' \in [Requetes -> GesteT] /\ SlotsSuivis'
      /\ \A s \in Requetes \ {r} : clic'[s] = clic[s] /\ req'[s] = req[s]
  BY <1>0, SlotLance
<1>2. OngletsSuivis'
  <2>1. \A v \in Clients : onglet[v].par # r
    BY <1>0, AttentesPages, SuiviAssumption
  <2>2. onglet' = onglet
    BY DEF EquipeClique
  <2> QED BY <1>1, <2>1, <2>2, OngletsAutres
<1>3. VuesFideles'
  BY VuesInchangees DEF EquipeClique
<1>4. clics' \in 0 .. MaxClics["EN_LIGNE"] + MaxClics["A_LA_LIVRAISON"]
  <2>1. Existe(c) /\ clics \in Nat /\ MaxClics["EN_LIGNE"] \in Nat
        /\ MaxClics["A_LA_LIVRAISON"] \in Nat
    BY <1>0, SuiviAssumption DEF Lance, ClicFidele, DeSien, Pages, TypeCaisse, TypeSuivi,
       GestesEquipe
  <2>2. paiement[c].methode \in {"EN_LIGNE", "A_LA_LIVRAISON"}
    BY <2>1 DEF Inductif, TablesFideles, TypeOK, PaiementT
  <2>3. clics < MaxClics[paiement[c].methode] /\ clics' = clics + 1
    BY DEF EquipeClique
  <2> QED BY <2>1, <2>2, <2>3
<1>5. TypeCaisse'
  <2>1. /\ occupe' \in [Equipe -> SUBSET Commandes]
        /\ encaisse' \in [Equipe -> SUBSET Commandes]
        /\ erreur' \in [Equipe -> SUBSET {"statut", "cash"}]
    <3>1. /\ occupe \in [Equipe -> SUBSET Commandes]
          /\ encaisse \in [Equipe -> SUBSET Commandes]
          /\ erreur \in [Equipe -> SUBSET {"statut", "cash"}]
      BY DEF Pages, TypeCaisse, TypeSuivi
    <3>2. CASE quoi = "statut"
      BY <3>1, <3>2 DEF EquipeClique
    <3>3. CASE quoi = "assigner"
      BY <3>1, <3>3 DEF EquipeClique
    <3>4. CASE quoi = "cash"
      BY <3>1, <3>4 DEF EquipeClique
    <3> QED BY <3>2, <3>3, <3>4 DEF GestesEquipe
  <2>2. UNCHANGED <<vu, rafraichit, onglet, emission, suivi>>
    BY <1>0 DEF EquipeClique, Lance
  <2>3. aVoir' \in [Equipe -> SUBSET Commandes]
    BY DEF EquipeClique, Pages, TypeCaisse, TypeSuivi
  <2> QED BY <1>1, <1>4, <2>1, <2>2, <2>3 DEF Pages, TypeCaisse, TypeSuivi, Reste, Inductif
<1> QED BY <1>1, <1>2, <1>3, <1>5 DEF Pages

LEMMA PagesDemande ==
  ASSUME Inductif, Pages, Reste, NEW r \in Requetes, NEW u \in Clients,
         NEW quoi, NEW c, NEW rep, Demande(r, u, quoi, c, rep)
  PROVE  Pages'
<1> DEFINE p == onglet[u]
           q == [onglet[u] EXCEPT !.montre = "attente", !.par = r]
<1>0. Lance(r, quoi, u, c, rep) /\ clic[r].rep # "attend"
  BY RienChamps DEF Demande
<1>1. /\ clic' \in [Requetes -> GesteT] /\ SlotsSuivis' /\ clic'[r] = Clic(quoi, u, c, rep)
      /\ rep \in {"attend", "ok", "erreur"}
      /\ \A s \in Requetes \ {r} : clic'[s] = clic[s] /\ req'[s] = req[s]
  BY <1>0, SlotLance
<1>2. /\ p \in PageT /\ PageFidele(u, p) /\ onglet \in [Clients -> PageT] /\ r # Aucun
  BY PagesDe, SuiviAssumption
<1>3. /\ q \in PageT /\ q.nom = p.nom /\ q.de = p.de /\ q.montre = "attente" /\ q.par = r
  BY <1>2 DEF PageT
<1>4. onglet'[u] = q /\ onglet' = [onglet EXCEPT ![u] = q]
  BY <1>2 DEF Demande
<1>5. /\ \/ p.nom = "caisse" /\ quoi \in {"commander", "initier"}
         \/ p.nom = "retour" /\ quoi = "capturer" /\ c = p.de
         \/ p.nom = "annule" /\ quoi \in {"initier", "annuler"} /\ c = p.de
      /\ \A v \in Clients \ {u} : onglet[v].par # r
  <2>1. CASE clic[r] = Rien
    BY <1>2, <2>1, AttentesPages, RienChamps DEF Demande
  <2>2. CASE onglet[u].par = r
    BY <1>2, <2>2, AttentesPages DEF Demande
  <2> QED BY <2>1, <2>2 DEF Demande
<1>6. PageFidele(u, onglet[u])'
  <2>1. PICK d : d = p
    OBVIOUS
  <2>2. PageFidele(u, d)'
    BY <1>2, <2>1, PageDure
  <2> HIDE DEF q
  <2> QED BY <1>2, <1>3, <1>4, <1>5, <2>1, <2>2 DEF PageFidele
<1>7. Attend(u)'
  <2>1. /\ clic'[r].quoi = quoi /\ clic'[r].c = c /\ clic'[r].rep = rep
    BY <1>1 DEF Clic
  <2>2. quoi # "commander" => DeSien(u, c)
    BY <1>0, <1>5 DEF Lance, ClicFidele, GestesEquipe
  <2>3. quoi # "commander" => DeSien(u, c)'
    BY <2>2, DeSienDure
  <2>4. quoi = "commander" => rep # "ok"
    BY <1>0 DEF Lance
  <2>5. req'[r].pc = "create" => req'[r].client = u
    BY <1>0 DEF Lance, Premier, Libre
  <2> HIDE DEF q, p
  <2>6. PICK d : d = q
    OBVIOUS
  <2>7. AttenteFidele(u, d, clic[r], req[r])'
    BY <1>3, <1>5, <2>1, <2>3, <2>4, <2>5, <2>6 DEF AttenteFidele, DeSien
  <2> QED BY <1>3, <1>4, <2>6, <2>7 DEF Attend, AttenteFidele
<1> HIDE DEF q, p
<1>8. OngletsSuivis'
  <2>1. \A v \in Clients \ {u} : onglet'[v] = onglet[v]
    BY <1>2, <1>4
  <2> QED BY <1>1, <1>3, <1>4, <1>5, <1>6, <1>7, <2>1, OngletsAutres
<1>9. VuesFideles'
  BY VuesInchangees DEF Demande
<1>10. TypeCaisse'
  <2>1. UNCHANGED <<vu, occupe, encaisse, rafraichit, erreur, clics, emission, suivi, aVoir>>
    BY <1>0 DEF Demande, Lance
  <2> QED BY <1>1, <1>2, <1>3, <1>4, <2>1 DEF Pages, TypeCaisse, TypeSuivi, Reste, Inductif
<1> QED BY <1>1, <1>8, <1>9, <1>10 DEF Pages

\* A slot whose answer was read.
LEMMA SlotRendu ==
  ASSUME Inductif, Pages, Reste, NEW r \in Requetes, Repondue(r),
         clic' = [clic EXCEPT ![r] = Rien], UNCHANGED <<req, emission>>
  PROVE  /\ clic' \in [Requetes -> GesteT] /\ clic'[r] = Rien /\ SlotsSuivis'
         /\ \A s \in Requetes \ {r} : clic'[s] = clic[s] /\ req'[s] = req[s]
<1>1. clic \in [Requetes -> GesteT] /\ Slot(clic[r], req[r], emission[r])
  BY DEF Pages, TypeCaisse, SlotsSuivis
<1>2. /\ clic' \in [Requetes -> GesteT] /\ clic'[r] = Rien
      /\ \A s \in Requetes \ {r} : clic'[s] = clic[s]
  BY <1>1, RienChamps
<1>3. req[r].pc = "libre" /\ emission[r] = Aucun
  BY <1>1 DEF Slot, Repondue
<1>4. Slot(clic[r], req[r], emission[r])'
  BY <1>2, <1>3, RienChamps DEF Slot, GestesEquipe
<1> QED BY <1>2, <1>4, SlotsAutres

LEMMA PagesRetour ==
  ASSUME Inductif, Pages, Reste, NEW r \in Requetes, RetourEquipe(r), UNCHANGED onglet
  PROVE  Pages'
<1>0. /\ Repondue(r) /\ clic' = [clic EXCEPT ![r] = Rien] /\ UNCHANGED <<req, emission>>
      /\ UNCHANGED <<vu, suivi, clics, aVoir>>
  BY DEF RetourEquipe, vars
<1>1. /\ clic' \in [Requetes -> GesteT] /\ SlotsSuivis'
      /\ \A s \in Requetes \ {r} : clic'[s] = clic[s] /\ req'[s] = req[s]
  BY <1>0, SlotRendu
<1>2. clic[r].quoi \in GestesEquipe
  BY DEF RetourEquipe, RetourStatut, RetourLivreur, RetourCash, GestesEquipe
<1>3. \A v \in Clients : onglet[v].par # r
  BY <1>2, AttentesPages, SuiviAssumption DEF GestesEquipe, GestesClient
<1>4. OngletsSuivis'
  BY <1>1, <1>3, OngletsAutres
<1>5. VuesFideles'
  BY <1>0, VuesInchangees
<1>6. TypeCaisse'
  <2>1. /\ occupe' \in [Equipe -> SUBSET Commandes]
        /\ encaisse' \in [Equipe -> SUBSET Commandes]
        /\ erreur' \in [Equipe -> SUBSET {"statut", "cash"}]
        /\ rafraichit' \in [Equipe -> BOOLEAN]
    <3>1. /\ occupe \in [Equipe -> SUBSET Commandes]
          /\ encaisse \in [Equipe -> SUBSET Commandes]
          /\ erreur \in [Equipe -> SUBSET {"statut", "cash"}]
          /\ rafraichit \in [Equipe -> BOOLEAN]
      BY DEF Pages, TypeCaisse, TypeSuivi
    <3>2. CASE RetourStatut(r)
      <4>1. PICK u, o : /\ occupe' = [occupe EXCEPT ![u] = o]
                        /\ o = {} \/ o = occupe[u] \ {clic[r].c}
        BY <3>2 DEF RetourStatut
      <4>2. occupe' \in [Equipe -> SUBSET Commandes] /\ encaisse' = encaisse
        <5>1. occupe' \in [Equipe -> SUBSET Commandes]
          BY <3>1, <4>1
        <5>2. encaisse' = encaisse
          BY <3>2 DEF RetourStatut
        <5> QED BY <5>1, <5>2
      <4>3. erreur' \in [Equipe -> SUBSET {"statut", "cash"}]
        <5>1. erreur' = erreur \/ \E x : erreur' = [erreur EXCEPT ![x] = @ \cup {"statut"}]
          BY <3>2 DEF RetourStatut
        <5> QED BY <3>1, <5>1
      <4>4. rafraichit' \in [Equipe -> BOOLEAN]
        <5>1. rafraichit' = rafraichit \/ \E x : rafraichit' = [rafraichit EXCEPT ![x] = TRUE]
          BY <3>2 DEF RetourStatut
        <5> QED BY <3>1, <5>1
      <4> QED BY <3>1, <4>2, <4>3, <4>4
    <3>3. CASE RetourLivreur(r)
      BY <3>1, <3>3 DEF RetourLivreur
    <3>4. CASE RetourCash(r)
      <4>1. CASE clic[r].rep = "ok"
        BY <3>1, <3>4, <4>1 DEF RetourCash
      <4>2. CASE clic[r].rep # "ok"
        <5>1. PICK u, c :
                /\ encaisse' = [encaisse EXCEPT ![u] = encaisse[u] \ {c}]
                /\ erreur' = [erreur EXCEPT ![u] = erreur[u] \cup {"cash"}]
                /\ UNCHANGED <<rafraichit, occupe>>
          BY <3>4, <4>2 DEF RetourCash
        <5>2. encaisse' \in [Equipe -> SUBSET Commandes]
          BY <3>1, <5>1
        <5>3. erreur' \in [Equipe -> SUBSET {"statut", "cash"}]
          BY <3>1, <5>1
        <5> QED BY <3>1, <5>1, <5>2, <5>3
      <4> QED BY <4>1, <4>2
    <3> QED BY <3>2, <3>3, <3>4 DEF RetourEquipe
  <2> QED BY <1>0, <1>1, <2>1 DEF Pages, TypeCaisse, TypeSuivi, Reste, Inductif
<1> QED BY <1>1, <1>4, <1>5, <1>6 DEF Pages

LEMMA PagesOrphelin ==
  ASSUME Inductif, Pages, Reste, NEW r \in Requetes, Orphelin(r)
  PROVE  Pages'
<1>0. /\ Repondue(r) /\ clic' = [clic EXCEPT ![r] = Rien] /\ UNCHANGED <<req, emission>>
      /\ \A u \in Clients : onglet[u].par # r
      /\ UNCHANGED <<vu, occupe, encaisse, rafraichit, erreur, clics, suivi, aVoir, onglet>>
  BY DEF Orphelin, Rend, vars
<1>1. /\ clic' \in [Requetes -> GesteT] /\ SlotsSuivis'
      /\ \A s \in Requetes \ {r} : clic'[s] = clic[s] /\ req'[s] = req[s]
  BY <1>0, SlotRendu
<1>2. OngletsSuivis'
  BY <1>0, <1>1, OngletsAutres
<1>3. TypeCaisse'
  BY <1>0, <1>1 DEF Pages, TypeCaisse, TypeSuivi, Reste, Inductif
<1> QED BY <1>0, <1>1, <1>2, <1>3, VuesInchangees DEF Pages

LEMMA PagesVont ==
  ASSUME Inductif, Pages, Reste, NEW u \in Clients, NEW p \in PageT,
         \/ \E r \in Requetes : Recoit(r, u, p)
         \/ Navigation(u, p)
  PROVE  Pages'
<1>0. /\ onglet' = [onglet EXCEPT ![u] = p] /\ p.par = Aucun /\ PageFidele(u, p)
      /\ UNCHANGED <<vu, occupe, encaisse, rafraichit, erreur, clics, emission, suivi, aVoir>>
  BY DEF Recoit, Navigation, Va
<1>1. /\ onglet' \in [Clients -> PageT] /\ onglet'[u] = p
      /\ \A v \in Clients \ {u} : onglet'[v] = onglet[v]
  BY <1>0, PagesDe
<1>2. PageFidele(u, onglet[u])'
  <2>1. PageFidele(u, p)'
    BY <1>0, PageDure
  <2> QED BY <1>1, <2>1 DEF PageFidele
<1>3. clic' \in [Requetes -> GesteT] /\ SlotsSuivis' /\ OngletsSuivis'
  <2>1. ASSUME NEW r \in Requetes, Recoit(r, u, p)
        PROVE  clic' \in [Requetes -> GesteT] /\ SlotsSuivis' /\ OngletsSuivis'
    <3>1. /\ Repondue(r) /\ clic' = [clic EXCEPT ![r] = Rien] /\ UNCHANGED <<req, emission>>
          /\ onglet[u].par = r /\ r # Aucun
      BY <2>1, SuiviAssumption DEF Recoit, Rend, vars
    <3>2. /\ clic' \in [Requetes -> GesteT] /\ SlotsSuivis'
          /\ \A s \in Requetes \ {r} : clic'[s] = clic[s] /\ req'[s] = req[s]
      BY <3>1, SlotRendu
    <3>3. \A v \in Clients \ {u} : onglet[v].par # r
      BY <3>1, AttentesPages
    <3>4. OngletsSuivis'
      BY <1>0, <1>1, <1>2, <3>2, <3>3, OngletsAutres
    <3> QED BY <3>2, <3>4
  <2>2. ASSUME Navigation(u, p)
        PROVE  clic' \in [Requetes -> GesteT] /\ SlotsSuivis' /\ OngletsSuivis'
    <3>1. UNCHANGED <<clic, req, emission>> /\ clic \in [Requetes -> GesteT]
      BY <1>0, <2>2 DEF Navigation, Pages, TypeCaisse
    <3> QED BY <1>0, <1>1, <1>2, <3>1, SlotsInchanges, OngletsInchanges
  <2> QED BY <2>1, <2>2
<1>4. TypeCaisse'
  BY <1>0, <1>1, <1>3 DEF Pages, TypeCaisse, TypeSuivi, Reste, Inductif
<1> QED BY <1>0, <1>3, <1>4, VuesInchangees DEF Pages

\* A handler that dies, and the event that goes out.
LEMMA SlotFini ==
  ASSUME Inductif, Pages, Reste, NEW r \in Requetes, NEW rep \in {"ok", "erreur"},
         clic[r].rep = "attend", clic' = [clic EXCEPT ![r].rep = rep],
         clic[r].quoi = "commander" => rep = "erreur",
         clic[r].quoi = "initier" => rep = "erreur",
         req'[r].pc = "libre", emission'[r] = Aucun,
         \A s \in Requetes \ {r} : req'[s] = req[s] /\ emission'[s] = emission[s]
  PROVE  clic' \in [Requetes -> GesteT] /\ SlotsSuivis' /\ (onglet' = onglet => OngletsSuivis')
<1>1. /\ clic \in [Requetes -> GesteT] /\ clic[r] \in GesteT
      /\ Slot(clic[r], req[r], emission[r])
  BY DEF Pages, TypeCaisse, SlotsSuivis
<1> DEFINE k == [clic[r] EXCEPT !.rep = rep]
<1>2. /\ k \in GesteT /\ k.quoi = clic[r].quoi /\ k.u = clic[r].u /\ k.c = clic[r].c
      /\ k.rep = rep
  BY <1>1 DEF GesteT
<1>3. clic'[r] = k /\ clic' = [clic EXCEPT ![r] = k]
  BY <1>1
<1> HIDE DEF k
<1>4. clic' \in [Requetes -> GesteT] /\ \A s \in Requetes \ {r} : clic'[s] = clic[s]
  BY <1>1, <1>2, <1>3
<1>5. PICK d \in GesteT : d = clic[r]
  BY <1>1
<1>6. Slot(clic[r], req[r], emission[r])'
  <2>1. PICK q, e : q = req[r] /\ e = emission[r]
    OBVIOUS
  <2>2. Slot(d, q, e)'
    BY <1>1, <1>5, <2>1, SlotDure
  <2>3. d.rep = "attend"
    BY <1>5
  <2> QED BY <1>2, <1>3, <1>5, <2>2, <2>3, RienChamps DEF Slot
<1>7. SlotsSuivis'
  BY <1>4, <1>6, SlotsAutres
<1>8. ASSUME onglet' = onglet
      PROVE  OngletsSuivis'
  <2>1. ASSUME NEW u \in Clients, onglet[u].par = r
        PROVE  Attend(u)'
    <3>1. PICK p, q : p = onglet[u] /\ q = req[r]
      OBVIOUS
    <3>2. AttenteFidele(u, p, d, q)
      BY <1>5, <2>1, <3>1, PagesDe, SuiviAssumption
    <3>3. AttenteFidele(u, p, d, q)'
      BY <3>2, AttenteDure
    <3> QED BY <1>2, <1>3, <1>5, <1>8, <2>1, <3>1, <3>3 DEF Attend, AttenteFidele
  <2> QED BY <1>4, <1>8, <2>1, OngletsAutres
<1> QED BY <1>4, <1>7, <1>8

LEMMA PagesMourir ==
  ASSUME Inductif, Pages, Reste, NEW r \in Requetes, Mourir(r), UNCHANGED onglet
  PROVE  Pages'
<1>1. req[r].pc # "libre" /\ req' = [req EXCEPT ![r] = [pc |-> "libre"]]
  BY DEF Mourir, Panne, Libre, Repond, Etape
<1>2. clic[r].rep = "attend" /\ emission[r] = Aucun
  BY <1>1, SlotEnCours
<1>3. /\ clic' = [clic EXCEPT ![r].rep = "erreur"] /\ emission' = emission
      /\ UNCHANGED <<vu, occupe, encaisse, rafraichit, erreur, suivi, clics, aVoir>>
  BY DEF Mourir
<1>4. req'[r].pc = "libre" /\ \A s \in Requetes \ {r} : req'[s] = req[s]
  BY <1>1 DEF Inductif, TypeOK
<1>5. clic' \in [Requetes -> GesteT] /\ SlotsSuivis' /\ OngletsSuivis'
  BY <1>2, <1>3, <1>4, SlotFini
<1>6. TypeCaisse'
  BY <1>3, <1>5 DEF Pages, TypeCaisse, TypeSuivi, Reste, Inductif
<1> QED BY <1>3, <1>5, <1>6, VuesInchangees DEF Pages

\* An answer that is lost.
LEMMA PagesPerdre ==
  ASSUME Inductif, Pages, Reste, NEW r \in Requetes, Perdre(r), UNCHANGED onglet
  PROVE  Pages'
<1>1. /\ clic \in [Requetes -> GesteT] /\ clic[r] \in GesteT
      /\ Slot(clic[r], req[r], emission[r]) /\ clic[r].rep \in {"ok", "refus"}
      /\ clic' = [clic EXCEPT ![r].rep = "erreur"]
      /\ UNCHANGED <<req, emission, vu, occupe, encaisse, rafraichit, erreur, suivi, clics>>
  BY DEF Perdre, Pages, TypeCaisse, SlotsSuivis, vars
<1> DEFINE k == [clic[r] EXCEPT !.rep = "erreur"]
<1>2. /\ k \in GesteT /\ k.quoi = clic[r].quoi /\ k.u = clic[r].u /\ k.c = clic[r].c
      /\ k.rep = "erreur"
  BY <1>1 DEF GesteT
<1>3. clic'[r] = k /\ clic' = [clic EXCEPT ![r] = k]
  BY <1>1
<1> HIDE DEF k
<1>4. clic' \in [Requetes -> GesteT] /\ \A s \in Requetes \ {r} : clic'[s] = clic[s]
  BY <1>1, <1>2, <1>3
<1>5. PICK d \in GesteT : d = clic[r]
  BY <1>1
<1>6. Slot(clic[r], req[r], emission[r])'
  <2>1. PICK q, e : q = req[r] /\ e = emission[r]
    OBVIOUS
  <2>2. Slot(d, q, e)'
    BY <1>1, <1>5, <2>1, SlotDure
  <2>3. d.rep \in {"ok", "refus"}
    BY <1>1, <1>5
  <2> QED BY <1>1, <1>2, <1>3, <1>5, <2>1, <2>2, <2>3, RienChamps DEF Slot
<1>7. SlotsSuivis'
  BY <1>1, <1>4, <1>6, SlotsAutres
<1>8. OngletsSuivis'
  <2>1. ASSUME NEW u \in Clients, onglet[u].par = r
        PROVE  Attend(u)'
    <3>1. PICK p, q : p = onglet[u] /\ q = req[r]
      OBVIOUS
    <3>2. AttenteFidele(u, p, d, q)
      BY <1>5, <2>1, <3>1, PagesDe, SuiviAssumption
    <3>3. AttenteFidele(u, p, d, q)'
      BY <3>2, AttenteDure
    <3> QED BY <1>1, <1>2, <1>3, <1>5, <2>1, <3>1, <3>3 DEF Attend, AttenteFidele
  <2> QED BY <1>1, <1>4, <2>1, OngletsAutres
<1>9. TypeCaisse'
  <2>1. aVoir' \in [Equipe -> SUBSET Commandes]
    BY DEF Perdre, Pages, TypeCaisse, TypeSuivi
  <2> QED BY <1>1, <1>4, <2>1 DEF Pages, TypeCaisse, TypeSuivi, Reste, Inductif
<1> QED BY <1>1, <1>7, <1>8, <1>9, VuesInchangees DEF Pages, Perdre

LEMMA SuiviType ==
  ASSUME Pages, NEW c \in Commandes, NEW v \in Vue
  PROVE  /\ suivi[c] # PasOuverte =>
              suivi[c] \in [page : {"ouverte"}, jointe : BOOLEAN, vu : Vue, intact : BOOLEAN]
         /\ Brouille \in [Commandes -> {PasOuverte} \cup
              [page : {"ouverte"}, jointe : BOOLEAN, vu : Vue, intact : BOOLEAN]]
BY DEF Pages, TypeCaisse, TypeSuivi, Brouille

LEMMA PagesEmettre ==
  ASSUME Inductif, Pages, Reste, NEW r \in Requetes, Emettre(r), UNCHANGED onglet
  PROVE  Pages'
<1>1. /\ emission[r] # Aucun /\ clic' = [clic EXCEPT ![r].rep = "ok"]
      /\ emission' = [emission EXCEPT ![r] = Aucun]
      /\ UNCHANGED <<vu, occupe, encaisse, rafraichit, erreur, clics, aVoir, req>>
      /\ NotifyOrderUpdate(clic[r].c, emission[r])
  BY DEF Emettre, vars
<1>2. /\ Slot(clic[r], req[r], emission[r]) /\ emission \in [Requetes -> Vue \cup {Aucun}]
      /\ emission[r] \in Vue
  BY <1>1 DEF Pages, SlotsSuivis, TypeCaisse, TypeSuivi
<1>3. /\ clic[r].rep = "attend" /\ clic[r].quoi = "statut" /\ req[r].pc = "libre"
      /\ clic[r].c \in Commandes
  BY <1>1, <1>2 DEF Slot
<1>4. clic' \in [Requetes -> GesteT] /\ SlotsSuivis' /\ OngletsSuivis'
  BY <1>1, <1>2, <1>3, SlotFini
<1>5. suivi' \in [Commandes -> {PasOuverte} \cup
              [page : {"ouverte"}, jointe : BOOLEAN, vu : Vue, intact : BOOLEAN]]
  <2>1. suivi \in [Commandes -> {PasOuverte} \cup
              [page : {"ouverte"}, jointe : BOOLEAN, vu : Vue, intact : BOOLEAN]]
    BY DEF Pages, TypeCaisse, TypeSuivi
  <2>2. suivi[clic[r].c] # PasOuverte =>
          /\ [suivi[clic[r].c] EXCEPT !.vu = emission[r]]
               \in [page : {"ouverte"}, jointe : BOOLEAN, vu : Vue, intact : BOOLEAN]
          /\ [suivi[clic[r].c] EXCEPT !.intact = FALSE]
               \in [page : {"ouverte"}, jointe : BOOLEAN, vu : Vue, intact : BOOLEAN]
    BY <1>2, <1>3, SuiviType
  <2> QED BY <1>1, <1>3, <2>1, <2>2 DEF NotifyOrderUpdate
<1>6. TypeCaisse'
  <2>1. emission' \in [Requetes -> Vue \cup {Aucun}]
    BY <1>1, <1>2
  <2> QED BY <1>1, <1>4, <1>5, <2>1 DEF Pages, TypeCaisse, TypeSuivi, Reste, Inductif
<1> QED BY <1>1, <1>4, <1>6, VuesInchangees DEF Pages

LEMMA PagesCharger ==
  ASSUME Inductif, Pages, Reste, NEW u \in Equipe, Rafraichir(u) \/ Charger(u),
         UNCHANGED onglet
  PROVE  Pages'
<1>1. /\ vu' = [vu EXCEPT ![u] = Lister(u)]
      /\ UNCHANGED <<occupe, encaisse, clic, emission, suivi, clics, req>>
      /\ UNCHANGED <<commande, paiement>>
      /\ rafraichit' = [rafraichit EXCEPT ![u] = FALSE]
      /\ erreur' \in {erreur, [erreur EXCEPT ![u] = {}]}
      /\ aVoir' = [aVoir EXCEPT ![u] = {}]
  BY DEF Rafraichir, Charger, vars
<1>2. Lister(u) \in [Commandes -> Vue \cup {Aucun}]
  BY VueType DEF Lister, Inductif
<1>3. SlotsSuivis' /\ OngletsSuivis'
  BY <1>1, SlotsInchanges, OngletsInchanges
<1>4. TypeCaisse'
  BY <1>1, <1>2 DEF Pages, TypeCaisse, TypeSuivi, Reste, Inductif
<1>5. VuesFideles'
  <2> SUFFICES ASSUME NEW v \in Equipe, NEW c \in Commandes, vu'[v][c] # Aucun
               PROVE  /\ Existe(c)' /\ vu'[v][c].methode = paiement'[c].methode
                      /\ v \in Admins \/ vu'[v][c].livreur = v
    BY DEF VuesFideles
  <2>1. CASE v # u
    <3>1. vu'[v] = vu[v]
      BY <1>1, <2>1 DEF Pages, TypeCaisse, TypeSuivi
    <3> QED BY <1>1, <3>1 DEF Pages, VuesFideles, Existe
  <2>2. CASE v = u
    <3>1. vu'[v][c] = Lister(u)[c]
      BY <1>1, <2>2 DEF Pages, TypeCaisse, TypeSuivi
    <3>2. Existe(c) /\ AdminOuLivreurAssigne(u, c) /\ vu'[v][c] = VueDe(c)
      BY <3>1 DEF Lister
    <3> QED BY <1>1, <2>2, <3>2 DEF VueDe, AdminOuLivreurAssigne, Existe
  <2> QED BY <2>1, <2>2
<1> QED BY <1>3, <1>4, <1>5 DEF Pages

LEMMA PagesSuivi ==
  ASSUME Inductif, Pages, Reste, NEW c \in Commandes, ClientSuit(c), UNCHANGED onglet
  PROVE  Pages'
<1> DEFINE S == [page : {"ouverte"}, jointe : BOOLEAN, vu : Vue, intact : BOOLEAN]
<1>1. UNCHANGED <<vu, occupe, encaisse, rafraichit, erreur, clic, emission, clics, aVoir, req>>
  BY DEF ClientSuit, OuvrirSuivi, Joindre, Couper, vars
<1>2. SlotsSuivis' /\ OngletsSuivis' /\ VuesFideles'
  BY <1>1, SlotsInchanges, OngletsInchanges, VuesInchangees
<1>3. suivi \in [Commandes -> {PasOuverte} \cup S]
  BY DEF Pages, TypeCaisse, TypeSuivi
<1>4. suivi' \in [Commandes -> {PasOuverte} \cup S]
  <2>1. CASE OuvrirSuivi(c)
    <3>1. [page |-> "ouverte", jointe |-> FALSE, vu |-> VueDe(c),
           intact |-> \A r \in Requetes : emission[r] = Aucun] \in S
      BY <2>1, VueType DEF OuvrirSuivi, Inductif
    <3> QED BY <1>3, <2>1, <3>1 DEF OuvrirSuivi
  <2>2. CASE Joindre(c)
    <3>1. [suivi[c] EXCEPT !.jointe = TRUE] \in S
      BY <1>3, <2>2 DEF Joindre
    <3> QED BY <1>3, <2>2, <3>1 DEF Joindre
  <2>3. CASE Couper(c)
    <3>1. [suivi[c] EXCEPT !.jointe = FALSE] \in S
      BY <1>3, <2>3 DEF Couper
    <3> QED BY <1>3, <2>3, <3>1 DEF Couper
  <2> QED BY <2>1, <2>2, <2>3 DEF ClientSuit
<1>5. TypeCaisse'
  BY <1>1, <1>4 DEF Pages, TypeCaisse, TypeSuivi, Reste, Inductif
<1> QED BY <1>2, <1>5 DEF Pages

\* A handler that goes on.
LEMMA PagesPasCreate ==
  ASSUME Inductif, Pages, Reste, NEW r \in Requetes, Pas(r), req[r].pc = "create",
         UNCHANGED onglet
  PROVE  Pages'
<1>1. /\ CreateTransaction(r) /\ clic[r].quoi = "commander"
      /\ clic' = [clic EXCEPT ![r] = Clic("commander", Aucun, Creee, "ok")]
      /\ UNCHANGED <<emission, suivi, aVoir, vu, occupe, encaisse, rafraichit, erreur, clics>>
  BY PasCreate
<1>2. PICK c \in Commandes : /\ Creee = c /\ Existe(c)'
                             /\ commande'[c].client = req[r].client
  BY <1>1, CreateUne DEF Inductif, TypeOK
<1>3. /\ clic \in [Requetes -> GesteT] /\ emission[r] = Aucun
      /\ Clic("commander", Aucun, c, "ok") \in GesteT
  BY <1>1, SlotEnCours DEF Pages, TypeCaisse, Clic, GesteT, GestesEquipe, GestesClient
<1>4. /\ clic'[r].quoi = "commander" /\ clic'[r].u = Aucun /\ clic'[r].c = c
      /\ clic'[r].rep = "ok" /\ clic' \in [Requetes -> GesteT]
      /\ \A s \in Requetes \ {r} : clic'[s] = clic[s]
  BY <1>1, <1>2, <1>3 DEF Clic, GestesEquipe
<1>5. req'[r].pc = "libre" /\ \A s \in Requetes \ {r} : req'[s] = req[s]
  BY <1>1 DEF CreateTransaction, Repond, Etape, Inductif, TypeOK
<1>6. SlotsSuivis'
  <2>1. Slot(clic[r], req[r], emission[r])'
    BY <1>1, <1>2, <1>3, <1>4, <1>5 DEF Slot, GestesEquipe
  <2> QED BY <1>1, <1>4, <1>5, <2>1, SlotsAutres
<1>7. OngletsSuivis'
  <2>1. ASSUME NEW u \in Clients, onglet[u].par = r
        PROVE  Attend(u)'
    <3>1. AttenteFidele(u, onglet[u], clic[r], req[r])
      BY <2>1, PagesDe, SuiviAssumption
    <3>2. onglet[u].nom = "caisse" /\ req[r].client = u
      BY <1>1, <2>1, <3>1, AttentesPages, SuiviAssumption DEF AttenteFidele
    <3>3. DeSien(u, c)'
      BY <1>2, <3>2 DEF DeSien
    <3> QED BY <1>2, <1>4, <1>5, <2>1, <3>2, <3>3 DEF Attend, AttenteFidele, DeSien
  <2> QED BY <1>4, <1>5, <2>1, OngletsAutres
<1>8. TypeCaisse'
  BY <1>1, <1>4 DEF Pages, TypeCaisse, TypeSuivi, Reste, Inductif
<1> QED BY <1>1, <1>6, <1>7, <1>8, VuesInchangees DEF Pages

LEMMA AttentesSuite ==
  ASSUME Inductif, Pages, NEW r \in Requetes, req[r].pc \notin {"libre", "create"},
         NEW e, Suivante(req[r], e), e.pc # "libre"
  PROVE  e.pc \in Attentes[clic[r].quoi] /\ e.pc # "create" /\ e.c = clic[r].c
<1>1. /\ clic[r].quoi \in {"rien"} \cup GestesEquipe \cup GestesClient
      /\ req[r].pc \in Attentes[clic[r].quoi]
      /\ req[r].c = clic[r].c /\ clic[r].c \in Commandes
      /\ clic[r].quoi = "cash" => ALaLivraison(clic[r].c)
      /\ RequeteFidele(req[r]) /\ req[r] \in Etapes
  BY SlotEnCours DEF GesteT, Pages, SlotsSuivis, Slot, Inductif, TypeOK
<1>2. clic[r].quoi \in {"cash", "capturer"}
  BY <1>1, AttentesDe DEF Suivante
<1>3. CASE clic[r].quoi = "capturer"
  BY <1>1, <1>3 DEF Suivante, SuiteDe, Attentes, GestesClient, GestesEquipe
<1>4. CASE clic[r].quoi = "cash"
  <2>1. req[r].pc \in {"statut", "notifier", "generate", "facture", "sendInvoice"}
    BY <1>1, <1>4 DEF Attentes, GestesClient, GestesEquipe
  <2>2. ~EnLigne(clic[r].c)
    BY <1>1, <1>4 DEF EnLigne, ALaLivraison
  <2>3. req[r].pc = "notifier" => req[r].success
    BY <1>1, <2>2 DEF RequeteFidele
  <2>4. e.pc \in {"notifier", "generate", "facture", "sendInvoice"}
    BY <1>1, <2>1, <2>2, <2>3 DEF Suivante, SuiteDe
  <2> QED BY <1>1, <1>4, <2>4 DEF Attentes, GestesClient, GestesEquipe, Suivante
<1> QED BY <1>2, <1>3, <1>4

\* What a running request will answer.
LEMMA IssueDe ==
  ASSUME NEW r
  PROVE  /\ Issue(r) \in {"ok", "erreur", "refus"}
         /\ Issue(r) = "refus" <=> req[r].pc = "cancel" /\ clic[r].quoi = "capturer"
         /\ req[r].pc \in {"facture", "consommer", "echec"} => Issue(r) = "erreur"
BY DEF Issue

LEMMA PagesPasAutre ==
  ASSUME Inductif, Pages, Reste, NEW r \in Requetes, Pas(r), req[r].pc # "create",
         UNCHANGED onglet
  PROVE  Pages'
<1>0. Avance(r) /\ req[r].pc \notin {"libre", "create"}
  BY AvanceParPc DEF Pas
<1>1. PICK c \in Commandes : c = req[r].c /\ PasEcrit(r, c)
  BY PasAutre
<1>2. /\ req' = [req EXCEPT ![r] = req'[r]] /\ Suivante(req[r], req'[r])
      /\ req \in [Requetes -> Etapes]
  BY <1>0, AvanceSuivante DEF Inductif, TypeOK
<1>3. \A s \in Requetes \ {r} : req'[s] = req[s]
  BY <1>2
<1>4. PICK d \in GesteT : d = clic[r]
  BY <1>0, SlotEnCours
<1>5. /\ d.quoi # "rien" /\ d.quoi # "commander" /\ d.c = c /\ Existe(c) /\ d.rep = "attend"
      /\ d.quoi = "statut" <=> req[r].pc = "updateStatus"
      /\ d.quoi = "initier" <=> req[r].pc = "initiate"
      /\ emission[r] = Aucun /\ Slot(d, req[r], emission[r])
      /\ clic \in [Requetes -> GesteT] /\ emission \in [Requetes -> Vue \cup {Aucun}]
      /\ d.quoi \in GestesEquipe => d.u \in Equipe
      /\ d.quoi \notin GestesEquipe => d.u = Aucun
  <2>2. /\ d.rep = "attend" /\ emission[r] = Aucun /\ d.quoi # "rien" /\ d.c = c /\ Existe(c)
        /\ req[r].pc \in Attentes[d.quoi]
        /\ d.quoi \in GestesEquipe => d.u \in Equipe
        /\ d.quoi \notin GestesEquipe => d.u = Aucun
    BY <1>0, <1>1, <1>4, SlotEnCours
  <2>3. /\ d.quoi # "commander"
        /\ d.quoi = "statut" <=> req[r].pc = "updateStatus"
        /\ d.quoi = "initier" <=> req[r].pc = "initiate"
    <3>1. PICK pc \in Attentes[d.quoi] : pc = req[r].pc
      BY <2>2
    <3> QED BY <1>0, <3>1, GesteAttend
  <2>4. /\ Slot(d, req[r], emission[r]) /\ clic \in [Requetes -> GesteT]
        /\ emission \in [Requetes -> Vue \cup {Aucun}]
    BY <1>4 DEF Pages, SlotsSuivis, TypeCaisse, TypeSuivi
  <2> QED BY <2>2, <2>3, <2>4
<1>6. /\ d.quoi \in {"initier", "capturer", "annuler"} => EnLigne(c)'
      /\ d.quoi = "cash" => ALaLivraison(c)' /\ Existe(c)'
      /\ Existe(c)'
  BY <1>1, <1>5 DEF Slot, EnLigne, ALaLivraison, Reste, Acquis
<1>7. PICK i : i = Issue(r)
  OBVIOUS
<1> DEFINE k == [d EXCEPT !.rep = i]
<1>8. /\ k \in GesteT /\ k.quoi = d.quoi /\ k.u = d.u /\ k.c = c /\ k.rep = i
      /\ i \in {"ok", "erreur", "refus"}
  BY <1>5, <1>7, IssueDe DEF GesteT
<1> HIDE DEF k
<1>9. /\ clic'[r] = IF req'[r].pc = "libre" /\ req[r].pc # "updateStatus" THEN k ELSE d
      /\ clic' \in [Requetes -> GesteT]
      /\ emission'[r] = IF req[r].pc = "updateStatus" THEN VueDe(c)' ELSE Aucun
      /\ \A s \in Requetes \ {r} : clic'[s] = clic[s] /\ emission'[s] = emission[s]
  <2>1. clic' = IF req'[r].pc = "libre" /\ req[r].pc # "updateStatus"
                  THEN [clic EXCEPT ![r] = k] ELSE clic
    BY <1>1, <1>4, <1>7 DEF PasEcrit, k
  <2>2. emission' = IF req[r].pc = "updateStatus"
                      THEN [emission EXCEPT ![r] = VueDe(c)'] ELSE emission
    BY <1>1 DEF PasEcrit
  <2> QED BY <1>4, <1>5, <1>8, <2>1, <2>2
<1>10. VueDe(c)' \in Vue /\ VueDe(c)' # Aucun
  BY <1>5, VueTypeSuivante
<1>11. Slot(clic[r], req[r], emission[r])'
  <2>1. CASE req[r].pc = "updateStatus"
    <3>1. req'[r].pc = "libre"
      BY <1>2, <2>1 DEF Suivante
    <3> QED BY <1>5, <1>6, <1>9, <1>10, <2>1, <3>1 DEF Slot, GestesEquipe
  <2>2. CASE req[r].pc # "updateStatus" /\ req'[r].pc = "libre"
    <3>1. d.quoi = "initier" => paiement'[c].transaction # Aucun
      <4> SUFFICES ASSUME req[r].pc = "initiate"
                   PROVE  paiement'[c].transaction # Aucun
        BY <1>5
      <4>1. InitiateEcrire(r)
        BY <1>0, AvanceParPc
      <4>2. req[r].ordre # Aucun
        BY <1>2, EtapeSelonPc, DonneesAssumption DEF EtapeInitiate
      <4> QED BY <1>1, <4>1, <4>2 DEF InitiateEcrire, Inductif, TypeOK, PaiementT
    <3> QED BY <1>5, <1>6, <1>8, <1>9, <2>2, <3>1 DEF Slot
  <2>3. CASE req[r].pc # "updateStatus" /\ req'[r].pc # "libre"
    <3>1. req'[r].pc \in Attentes[d.quoi] /\ req'[r].pc # "create" /\ req'[r].c = c
      BY <1>0, <1>2, <1>4, <1>5, <2>3, AttentesSuite
    <3> QED BY <1>5, <1>6, <1>9, <2>3, <3>1 DEF Slot
  <2> QED BY <2>1, <2>2, <2>3
<1>12. SlotsSuivis'
  BY <1>3, <1>9, <1>11, SlotsAutres
<1>13. OngletsSuivis'
  <2>1. ASSUME NEW u \in Clients, onglet[u].par = r
        PROVE  Attend(u)'
    <3>1. PICK p, q : p = onglet[u] /\ q = req[r]
      OBVIOUS
    <3>2. AttenteFidele(u, p, d, q)
      BY <1>4, <2>1, <3>1, PagesDe, SuiviAssumption
    <3>3. AttenteFidele(u, p, d, q)'
      BY <3>2, AttenteDure
    <3>4. req'[r].pc # "create"
      BY <1>0, <1>2, AttentesSuite
    <3> QED BY <1>5, <1>8, <1>9, <2>1, <3>1, <3>3, <3>4 DEF Attend, AttenteFidele
  <2> QED BY <1>3, <1>9, <2>1, OngletsAutres
<1>14. TypeCaisse'
  <2>1. emission' \in [Requetes -> Vue \cup {Aucun}]
    <3>1. emission' = IF req[r].pc = "updateStatus"
                        THEN [emission EXCEPT ![r] = VueDe(c)'] ELSE emission
      BY <1>1 DEF PasEcrit
    <3> QED BY <1>5, <1>10, <3>1
  <2>2. aVoir' \in [Equipe -> SUBSET Commandes]
    <3>1. aVoir \in [Equipe -> SUBSET Commandes]
      BY DEF Pages, TypeCaisse, TypeSuivi
    <3>2. aVoir' = aVoir \/ aVoir' = [aVoir EXCEPT ![clic[r].u] = @ \cup {c}]
      BY <1>1 DEF PasEcrit
    <3> QED BY <1>1, <3>1, <3>2
  <2>3. suivi' \in [Commandes -> {PasOuverte} \cup
              [page : {"ouverte"}, jointe : BOOLEAN, vu : Vue, intact : BOOLEAN]]
    BY <1>1, <1>10, SuiviType DEF PasEcrit, Pages, TypeCaisse, TypeSuivi
  <2>4. UNCHANGED <<vu, occupe, encaisse, rafraichit, erreur, clics>>
    BY <1>1 DEF PasEcrit
  <2> QED BY <1>9, <2>1, <2>2, <2>3, <2>4 DEF Pages, TypeCaisse, TypeSuivi, Reste, Inductif
<1>15. VuesFideles'
  BY <1>1, VuesInchangees DEF PasEcrit
<1> QED BY <1>12, <1>13, <1>14, <1>15 DEF Pages

LEMMA PagesInchangees ==
  ASSUME Inductif, Pages, Reste, UNCHANGED toutes
  PROVE  Pages'
<1>1. UNCHANGED <<suivis, onglet, req, clic, emission, vu>>
  BY DEF toutes, suivis, vars
<1>2. SlotsSuivis' /\ OngletsSuivis' /\ VuesFideles'
  BY <1>1, SlotsInchanges, OngletsInchanges, VuesInchangees
<1>3. TypeCaisse'
  BY <1>1 DEF Pages, TypeCaisse, TypeSuivi, Reste, Inductif, suivis
<1> QED BY <1>2, <1>3 DEF Pages

LEMMA PagesPas ==
  ASSUME Inductif, Pages, [NextCaisse]_toutes
  PROVE  Pages' /\ Reste
<1>1. Reste
  BY ResteVrai
<1>2. CASE UNCHANGED toutes
  BY <1>1, <1>2, PagesInchangees
<1>3. CASE NextCaisse
  <2>1. Genre
    BY <1>3, Genres
  <2>2. ASSUME NEW r \in Requetes, Pas(r), UNCHANGED onglet
        PROVE  Pages'
    BY <1>1, <2>2, PagesPasCreate, PagesPasAutre
  <2>3. ASSUME NEW r \in Requetes,
               RetourEquipe(r) \/ Pas(r) \/ Mourir(r) \/ Perdre(r) \/ Emettre(r),
               UNCHANGED onglet
        PROVE  Pages'
    BY <1>1, <2>2, <2>3, PagesRetour, PagesMourir, PagesPerdre, PagesEmettre
  <2> QED
    BY <1>1, <2>1, <2>3, PagesEquipe, PagesDemande, PagesCharger, PagesSuivi, PagesVont,
       PagesOrphelin DEF Genre
<1> QED BY <1>1, <1>2, <1>3

LEMMA PagesInit ==
  ASSUME InitCaisse
  PROVE  Inductif /\ Pages
<1>1. Inductif /\ Init
  BY InductifInit DEF InitCaisse, InitSuivi
<1>2. /\ vu = [u \in Equipe |-> Lister(u)] /\ clic = [r \in Requetes |-> Rien]
      /\ emission = [r \in Requetes |-> Aucun] /\ suivi = [c \in Commandes |-> PasOuverte]
      /\ onglet = [u \in Clients |-> Panier] /\ req = [r \in Requetes |-> [pc |-> "libre"]]
      /\ \A c \in Commandes : ~Existe(c)
  BY DEF InitCaisse, InitSuivi, Init, NonCommande, Existe
<1>3. vu = [u \in Equipe |-> [c \in Commandes |-> Aucun]]
  BY <1>2 DEF Lister
<1>4. Panier \in PageT /\ Panier.par = Aucun /\ Panier.nom = "caisse" /\ Panier.montre = "prete"
  BY DEF Panier, Page, PageT
<1>5. TypeCaisse
  <2>1. clics \in 0 .. MaxClics["EN_LIGNE"] + MaxClics["A_LA_LIVRAISON"]
    BY SuiviAssumption DEF InitCaisse, InitSuivi
  <2>2. /\ occupe = [u \in Equipe |-> {}] /\ encaisse = [u \in Equipe |-> {}]
        /\ rafraichit = [u \in Equipe |-> FALSE] /\ erreur = [u \in Equipe |-> {}]
        /\ aVoir = [u \in Equipe |-> {}]
    BY DEF InitCaisse, InitSuivi
  <2>3. /\ TypeOK /\ vu \in [Equipe -> [Commandes -> Vue \cup {Aucun}]]
        /\ occupe \in [Equipe -> SUBSET Commandes] /\ encaisse \in [Equipe -> SUBSET Commandes]
        /\ rafraichit \in [Equipe -> BOOLEAN]
        /\ erreur \in [Equipe -> SUBSET {"statut", "cash"}]
        /\ aVoir \in [Equipe -> SUBSET Commandes]
    BY <1>1, <1>3, <2>2 DEF Inductif
  <2>4. /\ emission \in [Requetes -> Vue \cup {Aucun}] /\ clic \in [Requetes -> GesteT]
        /\ onglet \in [Clients -> PageT]
    BY <1>2, <1>4, RienChamps
  <2>5. suivi \in [Commandes -> {PasOuverte} \cup
              [page : {"ouverte"}, jointe : BOOLEAN, vu : Vue, intact : BOOLEAN]]
    BY <1>2
  <2> QED BY <2>1, <2>3, <2>4, <2>5 DEF TypeCaisse, TypeSuivi
<1>6. SlotsSuivis
  BY <1>2, RienChamps DEF SlotsSuivis, Slot, GestesEquipe
<1>7. OngletsSuivis
  BY <1>2, <1>4 DEF OngletsSuivis, PageFidele
<1>8. VuesFideles
  BY <1>3 DEF VuesFideles
<1> QED BY <1>1, <1>5, <1>6, <1>7, <1>8 DEF Pages

\* The pages are clients of the services: whatever they do is a behaviour of
\* Boutique, so every theorem about Boutique holds of them.
THEOREM CaisseEstBoutique == SpecCaisse => Spec
<1>1. InitCaisse => Inductif /\ Pages /\ Init
  BY PagesInit DEF InitCaisse, InitSuivi
<1>2. Inductif /\ Pages /\ [NextCaisse]_toutes => Inductif' /\ Pages' /\ [Next]_vars
  BY PagesPas, UnPas DEF Reste
<1> QED BY <1>1, <1>2, PTL DEF SpecCaisse, Spec

LEMMA PagesVrai == SpecCaisse => [](Inductif /\ Pages)
<1>1. InitCaisse => Inductif /\ Pages
  BY PagesInit
<1>2. Inductif /\ Pages /\ [NextCaisse]_toutes => Inductif' /\ Pages'
  BY PagesPas DEF Reste
<1> QED BY <1>1, <1>2, PTL DEF SpecCaisse

----------------------------------------------------------------------------
(* The client's page follows the order.                                    *)

\* As long as nothing was missed, at most one event is on its way; it carries
\* the state the order has, and every other page shows it already.
SuiviDe(c) ==
  /\ Existe(c)
  /\ suivi[c].intact =>
       /\ \A r, q \in Requetes : emission[r] # Aucun /\ emission[q] # Aucun => r = q
       /\ \A r \in Requetes : emission[r] # Aucun /\ clic[r].c = c =>
            emission[r].etat = commande[c].etat
       /\ (\A r \in Requetes : emission[r] # Aucun => clic[r].c # c) =>
            suivi[c].vu.etat = commande[c].etat

SuiviFort == \A c \in Commandes : suivi[c] # PasOuverte => SuiviDe(c)

\* Steps that the client's page does not see.
LEMMA SuiviStable ==
  ASSUME Reste, SuiviFort, UNCHANGED <<suivi, emission>>,
         \A c \in Commandes : Existe(c) => commande'[c].etat = commande[c].etat,
         \A r \in Requetes : emission[r] # Aucun => clic'[r].c = clic[r].c
  PROVE  SuiviFort'
<1> SUFFICES ASSUME NEW c \in Commandes, suivi[c] # PasOuverte
             PROVE  SuiviDe(c)'
  BY DEF SuiviFort
<1>1. SuiviDe(c) /\ Existe(c)' /\ commande'[c].etat = commande[c].etat
  BY DEF SuiviFort, SuiviDe, Reste, Acquis
<1>2. suivi'[c] = suivi[c] /\ emission' = emission
  OBVIOUS
<1> QED BY <1>1, <1>2 DEF SuiviDe

LEMMA BrouilleDe ==
  ASSUME Pages, NEW c \in Commandes
  PROVE  /\ suivi[c] = PasOuverte => Brouille[c] = PasOuverte
         /\ suivi[c] # PasOuverte => Brouille[c].intact = FALSE
<1>1. suivi[c] \in {PasOuverte} \cup
         [page : {"ouverte"}, jointe : BOOLEAN, vu : Vue, intact : BOOLEAN]
  BY DEF Pages, TypeCaisse, TypeSuivi
<1> QED BY <1>1 DEF Brouille

LEMMA SuiviPasCreate ==
  ASSUME Inductif, Pages, Reste, SuiviFort, NEW r \in Requetes, Pas(r), req[r].pc = "create"
  PROVE  SuiviFort'
<1>1. /\ CreateTransaction(r)
      /\ clic' = [clic EXCEPT ![r] = Clic("commander", Aucun, Creee, "ok")]
      /\ UNCHANGED <<emission, suivi>>
  BY PasCreate
<1>2. emission[r] = Aucun /\ clic \in [Requetes -> GesteT]
  BY SlotEnCours DEF Pages, TypeCaisse
<1>3. \A c \in Commandes : Existe(c) => commande'[c].etat = commande[c].etat
  BY <1>1, CreateUne
<1> QED BY <1>1, <1>2, <1>3, SuiviStable

LEMMA SuiviPasAutre ==
  ASSUME Inductif, Pages, Reste, SuiviFort, NEW r \in Requetes, Pas(r), req[r].pc # "create"
  PROVE  SuiviFort'
<1>0. Avance(r) /\ req[r].pc \notin {"libre", "create"}
  BY AvanceParPc DEF Pas
<1>1. PICK c \in Commandes : c = req[r].c /\ PasEcrit(r, c)
  BY PasAutre
<1>2. /\ \A d \in Commandes \ {c} : commande'[d] = commande[d]
      /\ req[r].pc \notin {"cancel", "updateStatus"} =>
           \A d \in Commandes : commande'[d].etat = commande[d].etat
  BY <1>0, <1>1, AvanceTables
<1>3. /\ clic[r].c = c /\ emission[r] = Aucun /\ clic \in [Requetes -> GesteT]
      /\ emission \in [Requetes -> Vue \cup {Aucun}]
  BY <1>0, <1>1, SlotEnCours DEF Pages, TypeCaisse, TypeSuivi
<1>4. \A s \in Requetes : clic'[s].c = clic[s].c
  BY <1>1, <1>3 DEF PasEcrit, GesteT
<1>5. CASE suivi' = Brouille
  <2> SUFFICES ASSUME NEW d \in Commandes, suivi'[d] # PasOuverte
               PROVE  SuiviDe(d)'
    BY DEF SuiviFort
  <2>1. suivi[d] # PasOuverte /\ suivi'[d].intact = FALSE
    BY <1>5, BrouilleDe
  <2>2. Existe(d)'
    BY <2>1 DEF SuiviFort, SuiviDe, Reste, Acquis
  <2> QED BY <2>1, <2>2 DEF SuiviDe
<1>6. CASE suivi' = suivi /\ req[r].pc = "updateStatus" /\ \A q \in Requetes : emission[q] = Aucun
  <2> SUFFICES ASSUME NEW d \in Commandes, suivi'[d] # PasOuverte
               PROVE  SuiviDe(d)'
    BY DEF SuiviFort
  <2>1. SuiviDe(d) /\ Existe(d)' /\ suivi'[d] = suivi[d]
    BY <1>6 DEF SuiviFort, SuiviDe, Reste, Acquis
  <2>2. emission'[r].etat = commande'[c].etat /\ emission'[r] # Aucun
        /\ \A q \in Requetes \ {r} : emission'[q] = Aucun
    <3>1. emission' = [emission EXCEPT ![r] = VueDe(c)']
      BY <1>1, <1>6 DEF PasEcrit
    <3>2. VueDe(c)' # Aucun
      BY <1>0, <1>1, SlotEnCours, VueTypeSuivante
    <3>3. emission'[r] = VueDe(c)'
      BY <1>3, <3>1
    <3>4. (VueDe(c)').etat = commande'[c].etat
      BY DEF VueDe
    <3> QED BY <1>3, <1>6, <3>1, <3>2, <3>3, <3>4
  <2>3. d # c => commande'[d].etat = commande[d].etat
    BY <1>2
  <2> QED BY <1>3, <1>4, <1>6, <2>1, <2>2, <2>3 DEF SuiviDe
<1>7. CASE suivi' = suivi /\ req[r].pc # "updateStatus"
  <2>1. emission' = emission
    BY <1>1, <1>7 DEF PasEcrit
  <2>2. commande'[c].etat = commande[c].etat \/ suivi' = Brouille
    <3> SUFFICES ASSUME req[r].pc = "cancel", commande'[c].etat # commande[c].etat
                 PROVE  suivi' = Brouille
      BY <1>2, <1>7
    <3>1. commande'[c].etat = "ANNULEE"
      <4>1. commande' = [commande EXCEPT ![c].etat = "ANNULEE"]
        BY <1>0, <1>1, AvanceParPc DEF CancelTransaction
      <4> QED BY <4>1 DEF Inductif, TypeOK, CommandeT
    <3>2. VueDe(c)' # VueDe(c)
      <4>1. (VueDe(c)').etat = commande'[c].etat /\ VueDe(c).etat = commande[c].etat
        BY DEF VueDe
      <4> QED BY <4>1
    <3> QED BY <1>1, <1>7, <3>1, <3>2 DEF PasEcrit
  <2> QED BY <1>2, <1>4, <1>5, <1>7, <2>1, <2>2, SuiviStable
<1> QED BY <1>1, <1>5, <1>6, <1>7 DEF PasEcrit

LEMMA SuiviEmettre ==
  ASSUME Inductif, Pages, Reste, SuiviFort, NEW r \in Requetes, Emettre(r)
  PROVE  SuiviFort'
<1>1. /\ emission[r] # Aucun /\ clic' = [clic EXCEPT ![r].rep = "ok"]
      /\ emission' = [emission EXCEPT ![r] = Aucun] /\ UNCHANGED commande
      /\ NotifyOrderUpdate(clic[r].c, emission[r])
  BY DEF Emettre, vars
<1>2. PICK c \in Commandes : c = clic[r].c
  BY <1>1 DEF Pages, SlotsSuivis, Slot
<1>3. /\ clic \in [Requetes -> GesteT] /\ emission \in [Requetes -> Vue \cup {Aucun}]
      /\ \A s \in Requetes : clic'[s].c = clic[s].c
      /\ suivi \in [Commandes -> {PasOuverte} \cup
           [page : {"ouverte"}, jointe : BOOLEAN, vu : Vue, intact : BOOLEAN]]
  BY <1>1 DEF Pages, TypeCaisse, TypeSuivi, GesteT
<1>4. emission'[r] = Aucun /\ \A s \in Requetes \ {r} : emission'[s] = emission[s]
  BY <1>1, <1>3
<1> SUFFICES ASSUME NEW d \in Commandes, suivi'[d] # PasOuverte
             PROVE  SuiviDe(d)'
  BY DEF SuiviFort
<1>5. CASE d # c
  <2>1. suivi'[d] = suivi[d]
    BY <1>1, <1>2, <1>3, <1>5 DEF NotifyOrderUpdate
  <2>2. SuiviDe(d)
    BY <2>1 DEF SuiviFort
  <2> QED BY <1>1, <1>2, <1>3, <1>4, <1>5, <2>1, <2>2 DEF SuiviDe, Existe
<1>6. CASE d = c
  <2>1. suivi[c] # PasOuverte
    BY <1>1, <1>2, <1>6 DEF NotifyOrderUpdate
  <2>2. SuiviDe(c)
    BY <2>1 DEF SuiviFort
  <2>3. suivi[c] \in [page : {"ouverte"}, jointe : BOOLEAN, vu : Vue, intact : BOOLEAN]
    BY <1>3, <2>1
  <2>4. CASE suivi[c].jointe
    <3>1. suivi'[c].vu = emission[r] /\ suivi'[c].intact = suivi[c].intact
      BY <1>1, <1>2, <1>3, <2>1, <2>3, <2>4 DEF NotifyOrderUpdate
    <3> QED BY <1>1, <1>2, <1>3, <1>4, <1>6, <2>2, <3>1 DEF SuiviDe, Existe
  <2>5. CASE ~suivi[c].jointe
    <3>1. suivi'[c].intact = FALSE
      BY <1>1, <1>2, <1>3, <2>1, <2>3, <2>5 DEF NotifyOrderUpdate
    <3> QED BY <1>1, <1>6, <2>2, <3>1 DEF SuiviDe, Existe
  <2> QED BY <2>4, <2>5
<1> QED BY <1>5, <1>6

LEMMA SuiviClient ==
  ASSUME Pages, SuiviFort, NEW c \in Commandes, ClientSuit(c)
  PROVE  SuiviFort'
<1>1. UNCHANGED <<clic, emission, commande>>
  BY DEF ClientSuit, OuvrirSuivi, Joindre, Couper, vars
<1>2. suivi \in [Commandes -> {PasOuverte} \cup
           [page : {"ouverte"}, jointe : BOOLEAN, vu : Vue, intact : BOOLEAN]]
  BY DEF Pages, TypeCaisse, TypeSuivi
<1> SUFFICES ASSUME NEW d \in Commandes, suivi'[d] # PasOuverte
             PROVE  SuiviDe(d)'
  BY DEF SuiviFort
<1>3. CASE suivi'[d] = suivi[d]
  BY <1>1, <1>3 DEF SuiviFort, SuiviDe, Existe
<1>4. CASE OuvrirSuivi(c) /\ d = c
  <2>1. /\ suivi'[c] = [page |-> "ouverte", jointe |-> FALSE, vu |-> VueDe(c),
                        intact |-> \A r \in Requetes : emission[r] = Aucun]
        /\ Existe(c)
    BY <1>2, <1>4 DEF OuvrirSuivi
  <2>2. /\ suivi'[c].intact <=> \A r \in Requetes : emission[r] = Aucun
        /\ suivi'[c].vu.etat = commande[c].etat
    BY <2>1 DEF VueDe
  <2> QED BY <1>1, <1>4, <2>1, <2>2 DEF SuiviDe, Existe
<1>5. CASE (Joindre(c) \/ Couper(c)) /\ d = c
  <2>1. suivi[c] # PasOuverte /\ suivi'[c].vu = suivi[c].vu /\ suivi'[c].intact = suivi[c].intact
    BY <1>2, <1>5 DEF Joindre, Couper
  <2>2. SuiviDe(c)
    BY <2>1 DEF SuiviFort
  <2> QED BY <1>1, <1>5, <2>1, <2>2 DEF SuiviDe, Existe
<1>6. d # c => suivi'[d] = suivi[d]
  BY <1>2 DEF ClientSuit, OuvrirSuivi, Joindre, Couper
<1> QED BY <1>3, <1>4, <1>5, <1>6 DEF ClientSuit

LEMMA SuiviPas ==
  ASSUME Inductif, Pages, SuiviFort, [NextCaisse]_toutes
  PROVE  SuiviFort'
<1>0. Reste
  BY ResteVrai
<1>1. ASSUME NEW r \in Requetes, emission[r] = Aucun,
             UNCHANGED <<commande, suivi, emission>>, clic \in [Requetes -> GesteT],
             \A s \in Requetes \ {r} : clic'[s] = clic[s]
      PROVE  SuiviFort'
  BY <1>0, <1>1, SuiviStable
<1>2. clic \in [Requetes -> GesteT]
  BY DEF Pages, TypeCaisse
<1>3. ASSUME NEW r \in Requetes, NEW quoi, NEW u, NEW c, NEW rep, Lance(r, quoi, u, c, rep),
             clic[r].rep # "attend"
      PROVE  SuiviFort'
  <2>1. emission[r] = Aucun
    BY <1>3 DEF Pages, SlotsSuivis, Slot
  <2> QED BY <1>1, <1>2, <1>3, <2>1 DEF Lance
<1>4. ASSUME NEW r \in Requetes, Repondue(r), clic' = [clic EXCEPT ![r] = Rien],
             UNCHANGED <<commande, suivi, emission>>
      PROVE  SuiviFort'
  <2>1. emission[r] = Aucun
    BY <1>4 DEF Pages, SlotsSuivis, Slot, Repondue
  <2> QED BY <1>1, <1>2, <1>4, <2>1
<1>5. ASSUME UNCHANGED <<commande, suivi, emission, clic>>
      PROVE  SuiviFort'
  BY <1>0, <1>5, SuiviStable
<1>6. ASSUME NEW r \in Requetes,
             RetourEquipe(r) \/ Pas(r) \/ Mourir(r) \/ Perdre(r) \/ Emettre(r)
      PROVE  SuiviFort'
  <2>1. CASE RetourEquipe(r)
    BY <1>4, <2>1 DEF RetourEquipe, vars
  <2>2. CASE Pas(r)
    BY <1>0, <2>2, SuiviPasCreate, SuiviPasAutre
  <2>3. CASE Mourir(r)
    <3>1. emission[r] = Aucun
      BY <2>3, SlotEnCours DEF Mourir, Panne, Libre
    <3> QED BY <1>1, <1>2, <2>3, <3>1 DEF Mourir, Panne
  <2>4. CASE Emettre(r)
    BY <1>0, <2>4, SuiviEmettre
  <2>5. CASE Perdre(r)
    <3>1. emission[r] = Aucun
      BY <2>5 DEF Perdre, Pages, SlotsSuivis, Slot
    <3> QED BY <1>1, <1>2, <2>5, <3>1 DEF Perdre, vars
  <2> QED BY <1>6, <2>1, <2>2, <2>3, <2>4, <2>5
<1>7. CASE UNCHANGED toutes
  BY <1>5, <1>7 DEF toutes, vars, suivis
<1>8. CASE NextCaisse
  <2>1. Genre
    BY <1>8, Genres
  <2>2. ASSUME NEW r \in Requetes, NEW u \in Equipe, NEW c \in Commandes,
               NEW quoi \in GestesEquipe, NEW rep, EquipeClique(r, quoi, u, c, rep)
        PROVE  SuiviFort'
    BY <1>3, <2>2, RienChamps DEF EquipeClique
  <2>3. ASSUME NEW r \in Requetes, NEW u \in Clients, NEW quoi, NEW c, NEW rep,
               Demande(r, u, quoi, c, rep)
        PROVE  SuiviFort'
    BY <1>3, <2>3, RienChamps DEF Demande
  <2>4. ASSUME NEW u, Rafraichir(u) \/ Charger(u)
        PROVE  SuiviFort'
    BY <1>5, <2>4 DEF Rafraichir, Charger, vars
  <2>5. ASSUME NEW r \in Requetes, NEW u \in Clients, NEW p \in PageT, Recoit(r, u, p)
        PROVE  SuiviFort'
    BY <1>4, <2>5 DEF Recoit, Rend, Va, vars
  <2>6. ASSUME NEW r \in Requetes, Orphelin(r)
        PROVE  SuiviFort'
    BY <1>4, <2>6 DEF Orphelin, Rend, vars
  <2>7. ASSUME NEW u \in Clients, NEW p \in PageT, Navigation(u, p)
        PROVE  SuiviFort'
    BY <1>5, <2>7 DEF Navigation, Va
  <2> QED BY <1>6, <2>1, <2>2, <2>3, <2>4, <2>5, <2>6, <2>7, SuiviClient DEF Genre
<1> QED BY <1>7, <1>8

\* The page a client follows the order on is never behind without saying so:
\* unless an event was missed, it shows the state of the order as soon as no
\* event is on its way.
THEOREM SuiviFideleVrai == SpecCaisse => []SuiviFidele
<1>1. InitCaisse => SuiviFort
  BY DEF InitCaisse, InitSuivi, SuiviFort
<1>2. Inductif /\ Pages /\ SuiviFort /\ [NextCaisse]_toutes => SuiviFort'
  BY SuiviPas
<1>3. SuiviFort => SuiviFidele
  BY DEF SuiviFort, SuiviDe, SuiviFidele
<1> QED BY <1>1, <1>2, <1>3, PagesVrai, PTL DEF SpecCaisse

----------------------------------------------------------------------------
(* The buttons come back, and the pages show what their clicks changed.    *)

\* The click of slot r will refresh the page of u, or show an error there: any
\* change of status or confirmation of cash, an assignment of c once answered.
GesteEnCours(r, u, c) ==
  /\ clic[r].u = u
  /\ clic[r].quoi \in {"statut", "cash"} \/ (clic[r].rep = "ok" /\ clic[r].c = c)

\* Each order the page of u has to show again has a click of u behind it.
GestesVusFort ==
  \A u \in Equipe : \A c \in aVoir[u] :
    erreur[u] = {} /\ ~rafraichit[u] => \E r \in Requetes : GesteEnCours(r, u, c)

\* A button that is off waits for the answer of its click.
Occupent(r, u, c) == clic[r].quoi \in {"statut", "assigner"} /\ clic[r].u = u /\ clic[r].c = c
Encaissent(r, u, c) == clic[r].quoi = "cash" /\ clic[r].u = u /\ clic[r].c = c
BoutonsFort ==
  \A u \in Equipe, c \in Commandes :
    /\ c \in occupe[u] => \E r \in Requetes : Occupent(r, u, c)
    /\ c \in encaisse[u] => \E r \in Requetes : Encaissent(r, u, c)

GestesFort == GestesVusFort /\ BoutonsFort

\* The clicks of the staff stay where they are.
MemeGeste(r) ==
  /\ clic'[r].quoi = clic[r].quoi /\ clic'[r].u = clic[r].u /\ clic'[r].c = clic[r].c
  /\ clic[r].rep = "ok" => clic'[r].rep = "ok"
MemesGestes == \A r \in Requetes : clic[r].u \in Equipe => MemeGeste(r)

LEMMA GestesStables ==
  ASSUME GestesFort, MemesGestes, UNCHANGED <<occupe, encaisse>>,
         \A u \in Equipe : \A c \in aVoir'[u] :
           \/ c \in aVoir[u] /\ erreur'[u] = erreur[u] /\ rafraichit'[u] = rafraichit[u]
           \/ \E r \in Requetes : GesteEnCours(r, u, c)'
  PROVE  GestesFort'
<1>1. ASSUME NEW u \in Equipe, NEW c, NEW r \in Requetes, GesteEnCours(r, u, c)
      PROVE  GesteEnCours(r, u, c)'
  BY <1>1 DEF GesteEnCours, MemesGestes, MemeGeste
<1>2. GestesVusFort'
  BY <1>1 DEF GestesFort, GestesVusFort
<1>3. \A u \in Equipe, c \in Commandes, r \in Requetes :
        /\ Occupent(r, u, c) => Occupent(r, u, c)'
        /\ Encaissent(r, u, c) => Encaissent(r, u, c)'
  BY DEF MemesGestes, MemeGeste, Occupent, Encaissent
<1>4. BoutonsFort'
  BY <1>3 DEF GestesFort, BoutonsFort
<1> QED BY <1>2, <1>4 DEF GestesFort

\* The slots of the clients are nobody's in the staff.
LEMMA SlotClient ==
  ASSUME Pages, NEW r \in Requetes,
         clic[r] = Rien \/ clic[r].quoi \in GestesClient
  PROVE  clic[r].u \notin Equipe
<1>1. clic[r].u = Aucun
  BY RienChamps DEF Pages, SlotsSuivis, Slot, GestesEquipe, GestesClient
<1> QED BY <1>1, DonneesAssumption, SuiviAssumption DEF Equipe

\* And those of the staff are clicks of the staff.
LEMMA SlotEquipe ==
  ASSUME Pages, NEW r \in Requetes, clic[r].u \in Equipe
  PROVE  clic[r].quoi \in GestesEquipe
BY DonneesAssumption, SuiviAssumption DEF Pages, SlotsSuivis, Slot, Equipe

LEMMA GestesClients ==
  ASSUME Pages, GestesFort, NEW r \in Requetes,
         clic[r] = Rien \/ clic[r].quoi \in GestesClient,
         \A s \in Requetes \ {r} : clic'[s] = clic[s],
         UNCHANGED <<occupe, encaisse, rafraichit, erreur, aVoir>>
  PROVE  GestesFort'
<1>1. MemesGestes
  BY SlotClient DEF MemesGestes, MemeGeste
<1> QED BY <1>1, GestesStables

LEMMA GestesEquipePas ==
  ASSUME Inductif, Pages, Reste, GestesFort, NEW r \in Requetes, NEW quoi \in GestesEquipe,
         NEW u \in Equipe, NEW c \in Commandes, NEW rep, EquipeClique(r, quoi, u, c, rep)
  PROVE  GestesFort'
<1>1. /\ Lance(r, quoi, u, c, rep) /\ clic[r] = Rien /\ clic[r].rep # "attend"
      /\ UNCHANGED rafraichit
  BY RienChamps DEF EquipeClique, Lance
<1>2. /\ clic'[r] = Clic(quoi, u, c, rep)
      /\ \A s \in Requetes \ {r} : clic'[s] = clic[s]
  BY <1>1, SlotLance
<1>3. clic'[r].quoi = quoi /\ clic'[r].u = u /\ clic'[r].c = c
  BY <1>2 DEF Clic
<1>4. MemesGestes
  BY <1>1, <1>2, SlotClient DEF MemesGestes, MemeGeste
<1>5. /\ occupe \in [Equipe -> SUBSET Commandes] /\ encaisse \in [Equipe -> SUBSET Commandes]
      /\ erreur \in [Equipe -> SUBSET {"statut", "cash"}] /\ aVoir \in [Equipe -> SUBSET Commandes]
  BY DEF Pages, TypeCaisse, TypeSuivi
<1>6. GestesVusFort'
  <2> SUFFICES ASSUME NEW v \in Equipe, NEW d \in aVoir'[v], erreur'[v] = {}, ~rafraichit'[v]
               PROVE  \E s \in Requetes : GesteEnCours(s, v, d)'
    BY DEF GestesVusFort
  <2>1. CASE v = u /\ quoi \in {"statut", "cash"}
    BY <1>3, <2>1 DEF GesteEnCours
  <2>2. CASE v # u \/ quoi = "assigner"
    <3>1. erreur'[v] = erreur[v] /\ aVoir'[v] = aVoir[v]
      BY <1>5, <2>2 DEF EquipeClique
    <3>2. PICK s \in Requetes : GesteEnCours(s, v, d)
      BY <1>1, <3>1 DEF GestesFort, GestesVusFort
    <3>3. GesteEnCours(s, v, d)'
      BY <1>4, <3>2 DEF GesteEnCours, MemesGestes, MemeGeste
    <3> QED BY <3>3
  <2> QED BY <2>1, <2>2 DEF GestesEquipe
<1>7. BoutonsFort'
  <2> SUFFICES ASSUME NEW v \in Equipe, NEW d \in Commandes
               PROVE  /\ d \in occupe'[v] => \E s \in Requetes : Occupent(s, v, d)'
                      /\ d \in encaisse'[v] => \E s \in Requetes : Encaissent(s, v, d)'
    BY DEF BoutonsFort
  <2>1. \A s \in Requetes : /\ Occupent(s, v, d) => Occupent(s, v, d)'
                            /\ Encaissent(s, v, d) => Encaissent(s, v, d)'
    BY <1>4 DEF MemesGestes, MemeGeste, Occupent, Encaissent
  <2>2. d \in occupe'[v] => d \in occupe[v] \/ Occupent(r, v, d)'
    BY <1>3, <1>5 DEF EquipeClique, Occupent
  <2>3. d \in encaisse'[v] => d \in encaisse[v] \/ Encaissent(r, v, d)'
    BY <1>3, <1>5 DEF EquipeClique, Encaissent
  <2> QED BY <2>1, <2>2, <2>3 DEF GestesFort, BoutonsFort
<1> QED BY <1>6, <1>7 DEF GestesFort

LEMMA GestesRetour ==
  ASSUME Inductif, Pages, GestesFort, NEW r \in Requetes, RetourEquipe(r)
  PROVE  GestesFort'
<1> DEFINE u == clic[r].u
           c == clic[r].c
<1>1. /\ clic \in [Requetes -> GesteT] /\ clic' = [clic EXCEPT ![r] = Rien] /\ aVoir' = aVoir
      /\ occupe \in [Equipe -> SUBSET Commandes] /\ encaisse \in [Equipe -> SUBSET Commandes]
      /\ erreur \in [Equipe -> SUBSET {"statut", "cash"}] /\ rafraichit \in [Equipe -> BOOLEAN]
  BY DEF RetourEquipe, Pages, TypeCaisse, TypeSuivi
<1>2. \A s \in Requetes \ {r} : clic'[s] = clic[s]
  BY <1>1
<1>3. clic[r].quoi \in GestesEquipe /\ u \in Equipe
  BY DEF RetourEquipe, RetourStatut, RetourLivreur, RetourCash, Pages, SlotsSuivis, Slot,
     GestesEquipe
<1>4. /\ \A v \in Equipe \ {u} : /\ occupe'[v] = occupe[v] /\ encaisse'[v] = encaisse[v]
                                 /\ erreur'[v] = erreur[v] /\ rafraichit'[v] = rafraichit[v]
      /\ \A d : GesteEnCours(r, u, d) => rafraichit'[u] \/ erreur'[u] # {}
      /\ \/ erreur'[u] = erreur[u] \/ erreur'[u] # {}
      /\ rafraichit[u] => rafraichit'[u]
      /\ \A d \in Commandes :
           /\ d \in occupe'[u] => d \in occupe[u] /\ ~Occupent(r, u, d)
           /\ d \in encaisse'[u] => d \in encaisse[u] /\ ~Encaissent(r, u, d)
  <2>1. CASE RetourStatut(r)
    BY <1>1, <1>3, <2>1 DEF RetourStatut, GesteEnCours, Occupent, Encaissent
  <2>2. CASE RetourLivreur(r)
    BY <1>1, <1>3, <2>2 DEF RetourLivreur, GesteEnCours, Occupent, Encaissent
  <2>3. CASE RetourCash(r)
    BY <1>1, <1>3, <2>3 DEF RetourCash, GesteEnCours, Occupent, Encaissent
  <2> QED BY <2>1, <2>2, <2>3 DEF RetourEquipe
<1>5. PICK w \in Equipe : w = u
  BY <1>3
<1>6. GestesVusFort'
  <2> SUFFICES ASSUME NEW v \in Equipe, NEW d \in aVoir'[v], erreur'[v] = {}, ~rafraichit'[v]
               PROVE  \E s \in Requetes : GesteEnCours(s, v, d)'
    BY DEF GestesVusFort
  <2>1. erreur[v] = {} /\ ~rafraichit[v]
    BY <1>4, <1>5
  <2>2. PICK s \in Requetes : GesteEnCours(s, v, d)
    BY <1>1, <2>1 DEF GestesFort, GestesVusFort
  <2>3. s # r
    BY <1>4, <1>5, <2>2 DEF GesteEnCours
  <2> QED BY <1>2, <2>2, <2>3 DEF GesteEnCours
<1>7. BoutonsFort'
  <2> SUFFICES ASSUME NEW v \in Equipe, NEW d \in Commandes
               PROVE  /\ d \in occupe'[v] => \E s \in Requetes : Occupent(s, v, d)'
                      /\ d \in encaisse'[v] => \E s \in Requetes : Encaissent(s, v, d)'
    BY DEF BoutonsFort
  <2>1. \A s \in Requetes \ {r} : /\ Occupent(s, v, d) => Occupent(s, v, d)'
                                  /\ Encaissent(s, v, d) => Encaissent(s, v, d)'
    BY <1>2 DEF Occupent, Encaissent
  <2>2. /\ d \in occupe'[v] => d \in occupe[v] /\ ~Occupent(r, v, d)
        /\ d \in encaisse'[v] => d \in encaisse[v] /\ ~Encaissent(r, v, d)
    <3>1. CASE v = u
      BY <1>4, <3>1
    <3>2. CASE v # u
      BY <1>4, <3>2 DEF Occupent, Encaissent
    <3> QED BY <3>1, <3>2
  <2> QED BY <2>1, <2>2 DEF GestesFort, BoutonsFort
<1> QED BY <1>6, <1>7 DEF GestesFort

LEMMA GestesPasAutre ==
  ASSUME Inductif, Pages, GestesFort, NEW r \in Requetes, Pas(r), req[r].pc # "create"
  PROVE  GestesFort'
<1>0. Avance(r) /\ req[r].pc # "libre"
  BY AvanceParPc DEF Pas
<1>1. PICK c \in Commandes : c = req[r].c /\ PasEcrit(r, c)
  BY PasAutre
<1>2. /\ clic \in [Requetes -> GesteT] /\ aVoir \in [Equipe -> SUBSET Commandes]
      /\ clic[r] \in GesteT /\ clic[r].rep = "attend" /\ req[r].pc \in Attentes[clic[r].quoi]
      /\ clic[r].quoi \in GestesEquipe => clic[r].u \in Equipe
      /\ clic[r].quoi \notin GestesEquipe => clic[r].u = Aucun
  BY <1>0, SlotEnCours DEF Pages, TypeCaisse, TypeSuivi
<1>3. /\ \A s \in Requetes \ {r} : clic'[s] = clic[s]
      /\ clic'[r].quoi = clic[r].quoi /\ clic'[r].u = clic[r].u /\ clic'[r].c = clic[r].c
      /\ req'[r].pc = "libre" /\ req[r].pc # "updateStatus" => clic'[r].rep = Issue(r)
  <2>1. CASE clic' = clic /\ ~(req'[r].pc = "libre" /\ req[r].pc # "updateStatus")
    BY <2>1
  <2>2. CASE clic' = [clic EXCEPT ![r] = [clic[r] EXCEPT !.rep = Issue(r)]]
    <3>1. [clic[r] EXCEPT !.rep = Issue(r)]
            = [quoi |-> clic[r].quoi, u |-> clic[r].u, c |-> clic[r].c, rep |-> Issue(r)]
      BY <1>2, ReponseDe, Zenon
    <3>2. clic'[r] = [quoi |-> clic[r].quoi, u |-> clic[r].u, c |-> clic[r].c, rep |-> Issue(r)]
      BY <1>2, <2>2, <3>1
    <3> QED BY <1>2, <2>2, <3>2
  <2> QED BY <1>1, <2>1, <2>2 DEF PasEcrit
<1>4. MemesGestes
  BY <1>2, <1>3 DEF MemesGestes, MemeGeste
<1>5. ASSUME NEW u \in Equipe, NEW d \in aVoir'[u], d \notin aVoir[u]
      PROVE  GesteEnCours(r, u, d)'
  <2>0. req[r].c = clic[r].c
    BY <1>0, SlotEnCours
  <2>1. clic[r].u = u /\ clic[r].u # Aucun /\ d = clic[r].c
    BY <1>1, <1>2, <1>5, <2>0 DEF PasEcrit
  <2>2. clic[r].quoi \in GestesEquipe
    BY <1>2, <2>1
  <2>3. CASE clic[r].quoi = "assigner"
    <3>1. req[r].pc = "assignLivreur"
      BY <1>2, <2>3 DEF Attentes, GestesEquipe
    <3>2. req'[r].pc = "libre" /\ Issue(r) = "ok"
      BY <1>0, <3>1, AvanceSuivante DEF Suivante, Issue
    <3> QED BY <1>3, <2>1, <3>1, <3>2 DEF GesteEnCours
  <2>4. CASE clic[r].quoi \in {"statut", "cash"}
    BY <1>3, <2>1, <2>4 DEF GesteEnCours
  <2> QED BY <2>2, <2>3, <2>4 DEF GestesEquipe
<1> QED BY <1>1, <1>4, <1>5, GestesStables DEF PasEcrit

\* A step that leaves the buttons and the clicks of the staff alone.
LEMMA GestesInchanges ==
  ASSUME GestesFort, UNCHANGED <<clic, occupe, encaisse, rafraichit, erreur, aVoir>>
  PROVE  GestesFort'
BY GestesStables DEF MemesGestes, MemeGeste

LEMMA GestesReponse ==
  ASSUME Pages, GestesFort, NEW r \in Requetes, clic[r].rep = "attend", NEW rep,
         clic' = [clic EXCEPT ![r] = [clic[r] EXCEPT !.rep = rep]],
         UNCHANGED <<occupe, encaisse, rafraichit, erreur, aVoir>>
  PROVE  GestesFort'
<1>1. clic \in [Requetes -> GesteT]
  BY DEF Pages, TypeCaisse
<1>2. [clic[r] EXCEPT !.rep = rep]
        = [quoi |-> clic[r].quoi, u |-> clic[r].u, c |-> clic[r].c, rep |-> rep]
  BY <1>1, ReponseDe, Zenon
<1>3. /\ clic'[r] = [quoi |-> clic[r].quoi, u |-> clic[r].u, c |-> clic[r].c, rep |-> rep]
      /\ \A s \in Requetes \ {r} : clic'[s] = clic[s]
  BY <1>1, <1>2
<1>4. MemesGestes
  BY <1>3 DEF MemesGestes, MemeGeste
<1> QED BY <1>4, GestesStables

LEMMA GestesLire ==
  ASSUME Pages, GestesFort, NEW u \in Equipe, Rafraichir(u) \/ Charger(u)
  PROVE  GestesFort'
<1>1. /\ aVoir \in [Equipe -> SUBSET Commandes] /\ erreur \in [Equipe -> SUBSET {"statut", "cash"}]
      /\ rafraichit \in [Equipe -> BOOLEAN]
  BY DEF Pages, TypeCaisse, TypeSuivi
<1>2. UNCHANGED <<clic, occupe, encaisse>>
  BY DEF Rafraichir, Charger
<1>3. \A v \in Equipe :
        \/ aVoir'[v] = aVoir[v] /\ erreur'[v] = erreur[v] /\ rafraichit'[v] = rafraichit[v]
        \/ aVoir'[v] = {}
  BY <1>1 DEF Rafraichir, Charger
<1> QED BY <1>2, <1>3, GestesStables DEF MemesGestes, MemeGeste

\* An answer that is lost: the page owes nothing for an assignment any more, and
\* the click of a status or of cash still ends in an error.
LEMMA GestesPerdre ==
  ASSUME Pages, GestesFort, NEW r \in Requetes, Perdre(r)
  PROVE  GestesFort'
<1>1. /\ clic \in [Requetes -> GesteT] /\ clic' = [clic EXCEPT ![r].rep = "erreur"]
      /\ aVoir \in [Equipe -> SUBSET Commandes] /\ clic[r].rep \in {"ok", "refus"}
      /\ UNCHANGED <<occupe, encaisse, rafraichit, erreur>>
  BY DEF Perdre, Pages, TypeCaisse, TypeSuivi
<1>2. \A s \in Requetes : /\ clic'[s].quoi = clic[s].quoi /\ clic'[s].u = clic[s].u
                          /\ clic'[s].c = clic[s].c /\ (s # r => clic'[s] = clic[s])
  <2>1. clic' = [clic EXCEPT ![r] = [clic[r] EXCEPT !.rep = "erreur"]]
    BY <1>1
  <2>2. [clic[r] EXCEPT !.rep = "erreur"]
          = [quoi |-> clic[r].quoi, u |-> clic[r].u, c |-> clic[r].c, rep |-> "erreur"]
    BY <1>1, ReponseDe, Zenon
  <2>3. clic'[r] = [quoi |-> clic[r].quoi, u |-> clic[r].u, c |-> clic[r].c, rep |-> "erreur"]
    BY <1>1, <2>1, <2>2
  <2> QED BY <1>1, <2>1, <2>3
<1>3. GestesVusFort'
  <2> SUFFICES ASSUME NEW u \in Equipe, NEW c \in aVoir'[u], erreur'[u] = {}, ~rafraichit'[u]
               PROVE  \E s \in Requetes : GesteEnCours(s, u, c)'
    BY DEF GestesVusFort
  <2>1. /\ c \in aVoir[u]
        /\ clic[r].quoi = "assigner" /\ clic[r].u = u => c # clic[r].c
    BY <1>1 DEF Perdre
  <2>2. PICK s \in Requetes : GesteEnCours(s, u, c)
    BY <1>1, <2>1 DEF GestesFort, GestesVusFort
  <2>3. s = r => clic[r].quoi \in {"statut", "cash"}
    BY <2>1, <2>2, SlotEquipe DEF GesteEnCours, GestesEquipe
  <2> QED BY <1>2, <2>2, <2>3 DEF GesteEnCours
<1>4. BoutonsFort'
  BY <1>1, <1>2 DEF GestesFort, BoutonsFort, Occupent, Encaissent
<1> QED BY <1>3, <1>4 DEF GestesFort

LEMMA GestesPas ==
  ASSUME Inductif, Pages, GestesFort, [NextCaisse]_toutes
  PROVE  GestesFort'
<1>0. Reste
  BY ResteVrai
<1>1. CASE UNCHANGED toutes
  BY <1>1, GestesInchanges DEF toutes, suivis
<1>2. CASE NextCaisse
  <2>1. Genre
    BY <1>2, Genres
  <2>2. ASSUME NEW r \in Requetes,
               RetourEquipe(r) \/ Pas(r) \/ Mourir(r) \/ Perdre(r) \/ Emettre(r)
        PROVE  GestesFort'
    <3>1. CASE RetourEquipe(r)
      BY <3>1, GestesRetour
    <3>2. CASE Pas(r) /\ req[r].pc = "create"
      <4>1. /\ clic[r].quoi \in GestesClient
            /\ \A s \in Requetes \ {r} : clic'[s] = clic[s]
            /\ UNCHANGED <<occupe, encaisse, rafraichit, erreur, aVoir>>
        BY <3>2, PasCreate DEF GestesClient, Pages, TypeCaisse
      <4> QED BY <4>1, GestesClients
    <3>3. CASE Pas(r) /\ req[r].pc # "create"
      BY <3>3, GestesPasAutre
    <3>4. CASE Mourir(r)
      <4>1. clic[r].rep = "attend"
        BY <3>4, SlotEnCours DEF Mourir, Panne, Libre
      <4> QED BY <3>4, <4>1, GestesReponse DEF Mourir
    <3>5. CASE Emettre(r)
      <4>1. clic[r].rep = "attend"
        BY <3>5 DEF Emettre, Pages, SlotsSuivis, Slot
      <4> QED BY <3>5, <4>1, GestesReponse DEF Emettre
    <3>6. CASE Perdre(r)
      BY <3>6, GestesPerdre
    <3> QED BY <2>2, <3>1, <3>2, <3>3, <3>4, <3>5, <3>6
  <2>3. ASSUME NEW r \in Requetes, NEW u \in Clients, NEW quoi, NEW c, NEW rep,
               Demande(r, u, quoi, c, rep)
        PROVE  GestesFort'
    <3>1. /\ clic[r] = Rien \/ clic[r].quoi \in GestesClient
          /\ \A s \in Requetes \ {r} : clic'[s] = clic[s]
          /\ UNCHANGED <<occupe, encaisse, rafraichit, erreur, aVoir>>
      BY <2>3 DEF Demande, Lance, GestesClient, Pages, TypeCaisse
    <3> QED BY <3>1, GestesClients
  <2>4. ASSUME NEW r \in Requetes, clic[r].quoi \in GestesClient, Rend(r),
               UNCHANGED <<occupe, encaisse, rafraichit, erreur, aVoir>>
        PROVE  GestesFort'
    <3>1. \A s \in Requetes \ {r} : clic'[s] = clic[s]
      BY <2>4 DEF Rend, Pages, TypeCaisse
    <3> QED BY <2>4, <3>1, GestesClients
  <2>5. ASSUME NEW r \in Requetes, NEW u \in Clients, NEW p \in PageT, Recoit(r, u, p)
        PROVE  GestesFort'
    <3>1. clic[r].quoi \in GestesClient
      BY <2>5, AttentesPages, SuiviAssumption DEF Recoit
    <3> QED BY <2>4, <2>5, <3>1 DEF Recoit, Va
  <2>6. ASSUME NEW r \in Requetes, Orphelin(r)
        PROVE  GestesFort'
    BY <2>4, <2>6 DEF Orphelin, GestesClient
  <2>7. ASSUME NEW u \in Clients, NEW p \in PageT, Navigation(u, p)
        PROVE  GestesFort'
    BY <2>7, GestesInchanges DEF Navigation, Va
  <2>8. ASSUME NEW c \in Commandes, ClientSuit(c)
        PROVE  GestesFort'
    BY <2>8, GestesInchanges DEF ClientSuit, OuvrirSuivi, Joindre, Couper
  <2>9. ASSUME NEW r \in Requetes, NEW u \in Equipe, NEW c \in Commandes,
               NEW quoi \in GestesEquipe, NEW rep, EquipeClique(r, quoi, u, c, rep)
        PROVE  GestesFort'
    BY <1>0, <2>9, GestesEquipePas
  <2> QED BY <2>1, <2>2, <2>3, <2>5, <2>6, <2>7, <2>8, <2>9, GestesLire DEF Genre
<1> QED BY <1>1, <1>2

\* Whatever happens to its request, a click gives its button back (finally of
\* orders-admin.tsx:97, checkout-form.tsx:54).  A change of status or a cash
\* confirmation - accepted, refused, dead half way or with its answer lost - ends
\* with a refresh or an error on the page of who clicked.  An assignment ends so
\* only when it is answered: its refusal and its failure show nothing there
\* (orders-admin.tsx:66-77, a finally without a catch).
THEOREM GestesRendusVrai == SpecCaisse => []GestesRendus
<1>1. InitCaisse => GestesFort
  BY DEF InitCaisse, InitSuivi, GestesFort, GestesVusFort, BoutonsFort
<1>2. Inductif /\ Pages /\ GestesFort /\ [NextCaisse]_toutes => GestesFort'
  BY GestesPas
<1>3. Pages /\ GestesFort => GestesRendus
  <2> SUFFICES ASSUME Pages, GestesFort
               PROVE  GestesRendus
    OBVIOUS
  <2>1. TypeSuivi
    BY DEF Pages, TypeCaisse
  <2>2. SesGestesVus
    BY DEF SesGestesVus, AttendRien, GestesFort, GestesVusFort, GesteEnCours
  <2>3. \A u \in Clients : onglet[u].par # Aucun => clic[onglet[u].par] # Rien
    BY AttentesPages, RienChamps
  <2>4. BoutonsRendus
    BY <2>3 DEF BoutonsRendus, GestesFort, BoutonsFort, Occupent, Encaissent
  <2> QED BY <2>1, <2>2, <2>4 DEF GestesRendus
<1> QED BY <1>1, <1>2, <1>3, PagesVrai, PTL DEF SpecCaisse

----------------------------------------------------------------------------
(* When no return page is reloaded while it waits, a payment that was made *)
(* stays made: one capture of an order runs at a time.                     *)

\* Every request of a client has its tab.
Attendus ==
  \A r \in Requetes : clic[r].quoi \in GestesClient => \E u \in Clients : onglet[u].par = r

\* The payment that request q has written is a success.
Reussi(q) == q.pc \in {"confirmOnline", "consommer"} \/ (q.pc = "notifier" /\ q.success)
Abouti(q) == Reussi(q) \/ q.pc \in {"generate", "facture", "sendInvoice"}

\* What click k and its request q believe of the payment of their order.
Argent(k, q) ==
  /\ k.quoi = "capturer" /\ q.pc # "libre" => (Abouti(q) <=> Paye(k.c))
  /\ q.pc = "updateStatus" /\ q.etat # "ANNULEE" /\ EnLigne(k.c) => Paye(k.c)
  /\ q.pc = "assignLivreur" /\ EnLigne(k.c) => Paye(k.c)
  /\ k.quoi = "capturer" /\ k.rep = "ok" => Paye(k.c)
  /\ k.rep = "refus" => /\ k.quoi = "capturer" /\ ~Paye(k.c)
                        /\ commande[k.c].etat = "ANNULEE"

\* What the return page says.
MontrePaye(p) ==
  p.nom = "retour" =>
    /\ p.montre = "succes" => Paye(p.de)
    /\ p.montre = "refus" => ~Paye(p.de) /\ commande[p.de].etat = "ANNULEE"

LivreursPayes == \A c \in Commandes : EnLigneNonPaye(c) => commande[c].livreur = Aucun

Payes ==
  /\ Attendus
  /\ \A r \in Requetes : Argent(clic[r], req[r])
  /\ \A u \in Clients : MontrePaye(onglet[u])
  /\ LivreursPayes
  /\ \A c \in Commandes : Paye(c) => Existe(c)

\* Two requests of the payment pages are about two orders.
GestesPaiement == {"initier", "capturer", "annuler"}

LEMMA SeuleDemande ==
  ASSUME Pages, Attendus, NEW r \in Requetes, NEW s \in Requetes,
         clic[r].quoi \in GestesPaiement, clic[s].quoi \in GestesPaiement, clic[r].c = clic[s].c
  PROVE  r = s
<1>1. PICK u \in Clients, v \in Clients : onglet[u].par = r /\ onglet[v].par = s
  BY DEF Attendus, GestesPaiement, GestesClient
<1>2. r # Aucun /\ s # Aucun
  BY SuiviAssumption
<1>3. DeSien(u, clic[r].c) /\ DeSien(v, clic[s].c)
  BY <1>1, <1>2, PagesDe DEF AttenteFidele, GestesPaiement
<1> QED BY <1>1, <1>3 DEF DeSien

\* The tab of a client waits for the capture of his order.
LEMMA CaptureAttendue ==
  ASSUME Pages, Attendus, NEW s \in Requetes, clic[s].quoi \in GestesPaiement,
         NEW u \in Clients, DeSien(u, clic[s].c)
  PROVE  onglet[u].par = s
<1>1. PICK v \in Clients : onglet[v].par = s
  BY DEF Attendus, GestesPaiement, GestesClient
<1>2. DeSien(v, clic[s].c)
  BY <1>1, PagesDe, SuiviAssumption DEF AttenteFidele, GestesPaiement
<1> QED BY <1>1, <1>2 DEF DeSien

\* Nothing but a handler changes the orders, their payments and the money taken.
Calme == UNCHANGED <<commande, paiement, facture, panier, net>> /\ MemesCaptures

LEMMA CalmeSaufPas ==
  ASSUME Inductif, Pages, [NextCaisse]_toutes
  PROVE  Calme \/ \E r \in Requetes : Pas(r)
<1>1. CASE UNCHANGED toutes
  BY <1>1, CapturesInchangees DEF Calme, toutes, vars
<1>2. CASE NextCaisse
  <2>1. Genre
    BY <1>2, Genres
  <2>2. ASSUME NEW r, RetourEquipe(r) \/ Mourir(r) \/ Perdre(r) \/ Emettre(r)
        PROVE  Calme
    BY <2>2, CapturesInchangees DEF RetourEquipe, Mourir, Panne, Perdre, Emettre, vars, Calme
  <2>3. ASSUME NEW r, NEW quoi, NEW u, NEW c, NEW rep, Lance(r, quoi, u, c, rep)
        PROVE  Calme
    BY <2>3 DEF Lance, Calme
  <2>4. ASSUME NEW u, Rafraichir(u) \/ Charger(u)
        PROVE  Calme
    BY <2>4, CapturesInchangees DEF Rafraichir, Charger, vars, Calme
  <2>5. ASSUME NEW c, ClientSuit(c)
        PROVE  Calme
    BY <2>5, CapturesInchangees DEF ClientSuit, OuvrirSuivi, Joindre, Couper, vars, Calme
  <2>6. ASSUME NEW r, Rend(r)
        PROVE  Calme
    BY <2>6, CapturesInchangees DEF Rend, vars, Calme
  <2>7. ASSUME NEW u, NEW p, Navigation(u, p)
        PROVE  Calme
    BY <2>7 DEF Navigation, Calme
  <2> QED BY <2>1, <2>2, <2>3, <2>4, <2>5, <2>6, <2>7, Sortes
<1> QED BY <1>1, <1>2

\* What a step changes of the payment, the state and the driver of an order.
ArgentDe(c) ==
  /\ ~Existe(c) => commande'[c].livreur = Aucun /\ ~Paye(c)'
  /\ Existe(c) /\ Paye(c) => Paye(c)'
  /\ Existe(c) /\ EnLigneNonPaye(c) =>
       /\ Paye(c)' => \E s \in Requetes : /\ clic[s].quoi = "capturer" /\ clic[s].c = c
                                          /\ req[s].pc = "statut" /\ req'[s] # req[s]
       /\ commande[c].etat = "ANNULEE" => commande'[c].etat = "ANNULEE"
       /\ commande[c].livreur = Aucun => commande'[c].livreur = Aucun

LEMMA ArgentPas ==
  ASSUME Inductif, Pages, Payes, NEW r \in Requetes, Pas(r), NEW c \in Commandes
  PROVE  ArgentDe(c)
<1>0. Avance(r) /\ TypeOK /\ TablesFideles
  BY DEF Pas, Inductif
<1>1. CASE req[r].pc = "create"
  <2>1. PICK d \in Commandes : /\ ~Existe(d) /\ CreateTransaction(r)!2!(d)
                               /\ \A b \in Commandes \ {d} : commande'[b] = commande[b]
                                    /\ paiement'[b] = paiement[b]
    BY <1>0, <1>1, AvanceParPc, CreateUne
  <2>2. commande'[d].livreur = Aucun /\ paiement'[d].statut = "PENDING"
    BY <1>0, <2>1 DEF TypeOK
  <2> QED BY <1>0, <2>1, <2>2 DEF ArgentDe, TablesFideles, Paye, EnLigneNonPaye, Payes
<1>2. CASE req[r].pc # "create"
  <2>0. req[r].pc # "libre"
    BY <1>0, AvanceParPc
  <2>1. /\ req[r].pc \in Attentes[clic[r].quoi] /\ req[r].c = clic[r].c /\ clic[r] \in GesteT
        /\ Slot(clic[r], req[r], emission[r]) /\ Argent(clic[r], req[r]) /\ RequeteFidele(req[r])
    BY <1>2, <2>0, SlotEnCours DEF Pages, SlotsSuivis, Payes, Inductif
  <2>2. c # req[r].c => commande'[c] = commande[c] /\ paiement'[c] = paiement[c]
    BY <1>0, <1>2, AvanceTables
  <2>3. c # req[r].c => ArgentDe(c)
    BY <1>0, <2>2 DEF ArgentDe, Paye, EnLigneNonPaye, TablesFideles, Payes
  <2>4. CASE c = req[r].c
    <3>0. Existe(c) /\ EnLigne(c) => clic[r].quoi # "cash"
      BY <2>1, <2>4 DEF Slot, EnLigne, ALaLivraison
    <3>1. Existe(c)
      BY <1>2, <2>0, <2>4, SlotEnCours
    <3>2. CASE req[r].pc = "statut"
      <4>1. /\ commande' = commande /\ paiement'[c].statut = StatutDe(req[r].success)
            /\ paiement'[c].methode = paiement[c].methode
        <5>1. /\ commande' = commande
              /\ paiement' = [paiement EXCEPT ![c].statut = StatutDe(req[r].success)]
          BY <1>0, <2>4, <3>2, AvanceParPc DEF StatutEcrire
        <5>2. paiement \in [Commandes -> PaiementT] /\ paiement[c] \in PaiementT
          BY <1>0 DEF TypeOK
        <5> QED BY <5>1, <5>2 DEF PaiementT
      <4>2. req'[r].pc # "statut"
        BY <1>0, <3>2, AvanceSuivante DEF Suivante
      <4>3. clic[r].quoi \in {"cash", "capturer"}
        BY <2>1, <3>2, GesteAttend
      <4>4. CASE clic[r].quoi = "cash"
        <5>1. ~EnLigne(c) /\ req[r].success
          BY <2>1, <2>4, <3>2, <4>4 DEF Slot, ALaLivraison, EnLigne, RequeteFidele
        <5> QED BY <3>1, <4>1, <5>1 DEF ArgentDe, Paye, EnLigneNonPaye, StatutDe
      <4>5. CASE clic[r].quoi = "capturer"
        <5>1. ~Paye(c)
          BY <2>1, <2>4, <3>2, <4>5 DEF Argent, Abouti, Reussi
        <5> QED BY <2>1, <2>4, <3>1, <3>2, <4>1, <4>2, <4>5, <5>1 DEF ArgentDe
      <4> QED BY <4>3, <4>4, <4>5
    <3>3. CASE req[r].pc # "statut"
      <4>1. paiement'[c].statut = paiement[c].statut
        BY <1>0, <1>2, <3>3, AvanceTables
      <4>2. EnLigneNonPaye(c) /\ commande[c].etat = "ANNULEE" => commande'[c].etat = "ANNULEE"
        <5>1. CASE req[r].pc \notin {"cancel", "updateStatus"}
          BY <1>0, <1>2, <5>1, AvanceTables
        <5>2. CASE req[r].pc = "cancel"
          BY <1>0, <2>4, <5>2, AvanceParPc DEF CancelTransaction, TypeOK, CommandeT
        <5>3. CASE req[r].pc = "updateStatus"
          <6>1. commande'[c].etat = req[r].etat
            <7>1. commande' = [commande EXCEPT ![c].etat = req[r].etat]
              BY <1>0, <2>4, <5>3, AvanceParPc DEF UpdateStatusEcrire
            <7>2. commande \in [Commandes -> CommandeT] /\ commande[c] \in CommandeT
              BY <1>0 DEF TypeOK
            <7> QED BY <7>1, <7>2 DEF CommandeT
          <6> QED BY <2>1, <2>4, <5>3, <6>1 DEF Argent, EnLigneNonPaye
        <5> QED BY <5>1, <5>2, <5>3
      <4>3. EnLigneNonPaye(c) => commande'[c].livreur = commande[c].livreur
        <5>1. CASE req[r].pc # "assignLivreur"
          BY <1>0, <1>2, <5>1, AvanceTables
        <5>2. CASE req[r].pc = "assignLivreur"
          BY <2>1, <2>4, <5>2 DEF Argent, EnLigneNonPaye
        <5> QED BY <5>1, <5>2
      <4> QED BY <3>1, <4>1, <4>2, <4>3 DEF ArgentDe, Paye, EnLigneNonPaye
    <3> QED BY <3>2, <3>3
  <2> QED BY <2>3, <2>4
<1> QED BY <1>1, <1>2

LEMMA ArgentDure ==
  ASSUME Inductif, Pages, Payes, [NextCaisse]_toutes, NEW c \in Commandes
  PROVE  ArgentDe(c)
<1>1. ASSUME Calme
      PROVE  ArgentDe(c)
  BY <1>1 DEF Calme, ArgentDe, Paye, EnLigneNonPaye, EnLigne, Existe, Inductif, TablesFideles,
     Payes
<1> QED BY <1>1, CalmeSaufPas, ArgentPas

LEMMA ArgentSlot ==
  ASSUME Inductif, Pages, Payes, [NextCaisse]_toutes, NEW r \in Requetes,
         clic'[r] = clic[r], req'[r] = req[r]
  PROVE  Argent(clic[r], req[r])'
<1>1. PICK k, q : k = clic[r] /\ q = req[r]
  OBVIOUS
<1>2. /\ k \in GesteT /\ Slot(k, q, emission[r]) /\ Argent(k, q)
      /\ q.pc # "libre" => q.pc \in Attentes[k.quoi]
  BY <1>1, SlotEnCours DEF Pages, TypeCaisse, SlotsSuivis, Payes
<1>3. q.pc \in {"updateStatus", "assignLivreur"} => k.quoi \in {"statut", "assigner"}
  BY <1>2, GesteAttend
<1>4. ASSUME k.quoi \in {"statut", "assigner", "capturer"}
      PROVE  /\ k.c \in Commandes /\ Existe(k.c) /\ ArgentDe(k.c) /\ EnLigne(k.c)' = EnLigne(k.c)
             /\ k.quoi = "capturer" => EnLigne(k.c)
  <2>1. k.c \in Commandes /\ Existe(k.c) /\ (k.quoi = "capturer" => EnLigne(k.c))
    BY <1>2, <1>4 DEF Slot
  <2>2. paiement'[k.c].methode = paiement[k.c].methode
    BY <2>1, ResteVrai DEF Reste, Acquis
  <2> QED BY <2>1, <2>2, ArgentDure DEF EnLigne
<1>5. k.quoi = "capturer" => Paye(k.c)' = Paye(k.c)
  <2> SUFFICES ASSUME k.quoi = "capturer", ~Paye(k.c), Paye(k.c)'
               PROVE  FALSE
    BY <1>4 DEF ArgentDe, Paye
  <2>1. PICK s \in Requetes : clic[s].quoi = "capturer" /\ clic[s].c = k.c /\ req'[s] # req[s]
    BY <1>4 DEF ArgentDe, EnLigneNonPaye
  <2>2. s = r
    BY <1>1, <2>1, SeuleDemande DEF Payes, GestesPaiement
  <2> QED BY <2>1, <2>2
<1>6. Argent(k, q)'
  BY <1>2, <1>3, <1>4, <1>5 DEF Argent, ArgentDe, EnLigneNonPaye, Abouti, Reussi
<1> QED BY <1>1, <1>6 DEF Argent, Abouti, Reussi

LEMMA MontreDure ==
  ASSUME Inductif, Pages, Payes, [NextCaisse]_toutes, NEW u \in Clients, onglet'[u] = onglet[u]
  PROVE  MontrePaye(onglet[u])'
<1>1. PICK p : p = onglet[u]
  OBVIOUS
<1>2. MontrePaye(p) /\ PageFidele(u, p)
  BY <1>1, PagesDe DEF Payes
<1>3. ASSUME p.nom = "retour", p.montre \in {"succes", "refus"}
      PROVE  /\ p.montre = "succes" => Paye(p.de)'
             /\ p.montre = "refus" => ~Paye(p.de)' /\ commande'[p.de].etat = "ANNULEE"
  <2>1. DeSien(u, p.de) /\ Existe(p.de) /\ p.de \in Commandes /\ EnLigne(p.de) /\ p.par = Aucun
    BY <1>2, <1>3 DEF PageFidele, DeSien
  <2>2. ArgentDe(p.de)
    BY <2>1, ArgentDure
  <2>3. ASSUME ~Paye(p.de), Paye(p.de)'
        PROVE  FALSE
    <3>1. PICK s \in Requetes : clic[s].quoi = "capturer" /\ clic[s].c = p.de
      BY <2>1, <2>2, <2>3 DEF ArgentDe, EnLigneNonPaye
    <3>2. onglet[u].par = s
      BY <2>1, <3>1, CaptureAttendue DEF Payes, GestesPaiement
    <3> QED BY <1>1, <2>1, <3>2, SuiviAssumption
  <2> QED BY <1>2, <1>3, <2>1, <2>2, <2>3 DEF MontrePaye, ArgentDe, EnLigneNonPaye
<1>4. MontrePaye(p)'
  BY <1>3 DEF MontrePaye
<1> QED BY <1>1, <1>4 DEF MontrePaye

LEMMA LivreursPas ==
  ASSUME Inductif, Pages, Payes, [NextCaisse]_toutes
  PROVE  LivreursPayes' /\ \A c \in Commandes : Paye(c)' => Existe(c)'
<1> SUFFICES ASSUME NEW c \in Commandes
             PROVE  /\ EnLigneNonPaye(c)' => commande'[c].livreur = Aucun
                    /\ Paye(c)' => Existe(c)'
  BY DEF LivreursPayes
<1>1. ArgentDe(c)
  BY ArgentDure
<1>2. Existe(c) => EnLigne(c) = EnLigne(c)' /\ Existe(c)'
  BY ResteVrai DEF Reste, Acquis, EnLigne
<1> QED BY <1>1, <1>2 DEF ArgentDe, EnLigneNonPaye, Payes, LivreursPayes

\* Only the slot and the tab that move have to be looked at.
LEMMA PayesSuite ==
  ASSUME Inductif, Pages, Payes, [NextCaisse]_toutes, NEW r \in Requetes, Attendus',
         \A s \in Requetes \ {r} : clic'[s] = clic[s] /\ req'[s] = req[s],
         Argent(clic[r], req[r])' \/ (clic'[r] = clic[r] /\ req'[r] = req[r]),
         \A u \in Clients : onglet'[u] = onglet[u] \/ MontrePaye(onglet[u])'
  PROVE  Payes'
<1>1. \A s \in Requetes : Argent(clic[s], req[s])'
  BY ArgentSlot
<1>2. \A u \in Clients : MontrePaye(onglet[u])'
  BY MontreDure
<1> QED BY <1>1, <1>2, LivreursPas DEF Payes

LEMMA PayesInchanges ==
  ASSUME Inductif, Pages, Payes, [NextCaisse]_toutes, UNCHANGED <<clic, req>>,
         Attendus', \A u \in Clients : onglet'[u] = onglet[u] \/ MontrePaye(onglet[u])'
  PROVE  Payes'
<1>1. \A s \in Requetes : Argent(clic[s], req[s])'
  BY ArgentSlot
<1>2. \A u \in Clients : MontrePaye(onglet[u])'
  BY MontreDure
<1> QED BY <1>1, <1>2, LivreursPas DEF Payes

LEMMA AttendusMemes ==
  ASSUME Attendus, UNCHANGED onglet, \A s \in Requetes : clic'[s].quoi \in {clic[s].quoi, "rien"}
           \cup GestesEquipe
  PROVE  Attendus'
BY DEF Attendus, GestesEquipe, GestesClient

\* The slot after each kind of step.
LEMMA ArgentLance ==
  ASSUME Inductif, Pages, NEW r \in Requetes, NEW quoi, NEW u, NEW c, NEW rep,
         Lance(r, quoi, u, c, rep), clic'[r] = Clic(quoi, u, c, rep)
  PROVE  Argent(clic[r], req[r])'
<1>1. clic'[r].quoi = quoi /\ clic'[r].c = c /\ clic'[r].rep = rep
  BY DEF Clic
<1>2. /\ rep # "refus" /\ (rep = "ok" => Paye(c))
      /\ UNCHANGED <<commande, paiement>>
      /\ \/ req'[r].pc = "libre" /\ rep # "attend"
         \/ rep = "attend" /\ Premier(quoi, u, c, req'[r])
  BY DEF Lance, Libre
<1>3. Paye(c)' = Paye(c) /\ EnLigne(c)' = EnLigne(c)
  BY <1>2 DEF Paye, EnLigne
<1>4. CASE req'[r].pc = "libre" /\ rep # "attend"
  BY <1>1, <1>2, <1>3, <1>4 DEF Argent, Paye
<1>5. CASE rep = "attend" /\ Premier(quoi, u, c, req'[r])
  <2>1. /\ req'[r].pc = "updateStatus" /\ req'[r].etat # "ANNULEE" => ~EnLigneNonPaye(c)
        /\ req'[r].pc = "assignLivreur" => ~EnLigneNonPaye(c)
        /\ quoi = "capturer" => req'[r].pc = "capture" /\ ~Paye(c)
    BY <1>5 DEF Premier
  <2> QED BY <1>1, <1>3, <1>5, <2>1 DEF Argent, Abouti, Reussi, EnLigneNonPaye, Paye, EnLigne
<1> QED BY <1>2, <1>4, <1>5

LEMMA ArgentRien ==
  ASSUME NEW r \in Requetes, clic'[r].quoi \in {"rien", "statut"} \/ clic'[r].rep = "erreur",
         clic'[r].rep # "refus", req'[r].pc = "libre"
  PROVE  Argent(clic[r], req[r])'
BY DEF Argent

\* What the step of a handler leaves in its slot.
ReponseFaite(r) ==
  /\ clic'[r].quoi = clic[r].quoi /\ clic'[r].c = clic[r].c
  /\ \/ clic'[r].rep = "attend"
     \/ clic'[r].rep = Issue(r) /\ req'[r].pc = "libre"
  /\ \A s \in Requetes \ {r} : clic'[s] = clic[s]

LEMMA ReponsePas ==
  ASSUME Inductif, Pages, NEW r \in Requetes, Pas(r), req[r].pc # "create"
  PROVE  ReponseFaite(r) /\ clic'[r].u = clic[r].u
<1>0. req[r].pc # "libre"
  BY AvanceParPc DEF Pas
<1>1. PICK c \in Commandes : PasEcrit(r, c)
  BY PasAutre
<1>2. clic \in [Requetes -> GesteT] /\ clic[r] \in GesteT /\ clic[r].rep = "attend"
  BY <1>0, SlotEnCours DEF Pages, TypeCaisse
<1>3. CASE clic' = clic
  BY <1>2, <1>3 DEF ReponseFaite
<1>4. CASE clic' = [clic EXCEPT ![r] = [clic[r] EXCEPT !.rep = Issue(r)]] /\ req'[r].pc = "libre"
  <2>1. [clic[r] EXCEPT !.rep = Issue(r)]
          = [quoi |-> clic[r].quoi, u |-> clic[r].u, c |-> clic[r].c, rep |-> Issue(r)]
    BY <1>2, ReponseDe, Zenon
  <2>2. clic'[r] = [quoi |-> clic[r].quoi, u |-> clic[r].u, c |-> clic[r].c, rep |-> Issue(r)]
    BY <1>2, <1>4, <2>1
  <2> QED BY <1>2, <1>4, <2>2 DEF ReponseFaite
<1> QED BY <1>1, <1>3, <1>4 DEF PasEcrit

\* Before and after a step of the handler of a capture, its success is written
\* exactly when the payment is.
LEMMA CapturePas ==
  ASSUME Inductif, Pages, Payes, NEW r \in Requetes, Pas(r), clic[r].quoi = "capturer",
         NEW c, c = clic[r].c
  PROVE  /\ req'[r].pc # "libre" => (Abouti(req'[r]) <=> Paye(c)')
         /\ req[r].pc # "statut" => (Paye(c)' <=> Paye(c))
         /\ req[r].pc # "create" /\ req[r].pc \in Attentes["capturer"] /\ req[r].c = c
<1>0. Avance(r) /\ req[r].pc # "libre"
  BY AvanceParPc DEF Pas
<1>1. /\ req[r].pc \in Attentes["capturer"] /\ Argent(clic[r], req[r])
      /\ Slot(clic[r], req[r], emission[r])
  BY <1>0, SlotEnCours DEF Payes, Pages, SlotsSuivis
<1>2. req[r].pc \in {"capture", "statut", "notifier", "echec", "cancel",
            "confirmOnline", "consommer", "generate", "facture", "sendInvoice"}
  BY <1>1 DEF Attentes, GestesClient
<1>3. c \in Commandes /\ EnLigne(c) /\ Existe(c) /\ req[r].c = c
  BY <1>1, <1>2 DEF Slot
<1>4. Suivante(req[r], req'[r]) /\ (Abouti(req[r]) <=> Paye(c))
  BY <1>0, <1>1, <1>3, AvanceSuivante DEF Argent
<1>5. CASE req[r].pc = "statut"
  <2>1. paiement' = [paiement EXCEPT ![c].statut = StatutDe(req[r].success)]
    BY <1>0, <1>3, <1>5, AvanceParPc DEF StatutEcrire
  <2>2. paiement \in [Commandes -> PaiementT] /\ paiement[c] \in PaiementT
    BY <1>3 DEF Inductif, TypeOK
  <2>3. paiement'[c].statut = StatutDe(req[r].success)
    BY <1>3, <2>1, <2>2 DEF PaiementT
  <2>4. req[r].success \in BOOLEAN
    <3>1. req[r] \in EtapeIssue
      BY <1>5, EtapeSelonPc DEF Inductif, TypeOK
    <3> QED BY <3>1 DEF EtapeIssue
  <2>5. req'[r].pc = "notifier" /\ req'[r].success = req[r].success
    BY <1>4, <1>5 DEF Suivante
  <2>6. Abouti(req'[r]) <=> req[r].success
    BY <2>5 DEF Abouti, Reussi
  <2>7. Paye(c)' <=> req[r].success
    BY <2>3, <2>4 DEF Paye, StatutDe
  <2> QED BY <1>1, <1>2, <1>3, <1>5, <2>6, <2>7
<1>6. CASE req[r].pc # "statut"
  <2>1. Paye(c)' <=> Paye(c)
    BY <1>0, <1>2, <1>3, <1>6, AvanceTables DEF Paye
  <2>2. req'[r].pc # "libre" => (Abouti(req'[r]) <=> Abouti(req[r]))
    BY <1>2, <1>3, <1>4, <1>6 DEF Suivante, SuiteDe, Abouti, Reussi
  <2> QED BY <1>1, <1>2, <1>3, <1>4, <1>6, <2>1, <2>2
<1> QED BY <1>5, <1>6

LEMMA ArgentPasAutre ==
  ASSUME Inductif, Pages, Payes, NEW r \in Requetes, Pas(r), req[r].pc # "create"
  PROVE  Argent(clic[r], req[r])'
<1>0. Avance(r) /\ req[r].pc # "libre"
  BY AvanceParPc DEF Pas
<1>1. ReponseFaite(r)
  BY ReponsePas
<1>2. Suivante(req[r], req'[r]) /\ req[r].c = clic[r].c /\ Argent(clic[r], req[r])
  BY <1>0, AvanceSuivante, SlotEnCours DEF Payes
<1>30. PICK c : c = clic[r].c
  OBVIOUS
<1>3. req'[r].pc \notin {"updateStatus", "assignLivreur"}
  BY <1>2 DEF Suivante, SuiteDe
<1>4. ASSUME clic[r].quoi = "capturer", clic'[r].rep = "ok"
      PROVE  Paye(c)'
  <2>1. Issue(r) = "ok" /\ req'[r].pc = "libre"
    BY <1>1, <1>4 DEF ReponseFaite
  <2>2. req[r].pc \notin {"facture", "consommer", "echec", "cancel"}
    BY <1>4, <2>1, IssueDe
  <2>3. req[r].pc = "sendInvoice"
    BY <1>2, <1>30, <1>4, <2>1, <2>2, CapturePas DEF Suivante, SuiteDe, Attentes, GestesClient
  <2> QED BY <1>0, <1>2, <1>30, <1>4, <2>3, CapturePas DEF Argent, Abouti
<1>5. ASSUME clic'[r].rep = "refus"
      PROVE  /\ clic[r].quoi = "capturer" /\ ~Paye(c)'
             /\ commande'[c].etat = "ANNULEE"
  <2>1. req[r].pc = "cancel" /\ clic[r].quoi = "capturer"
    BY <1>1, <1>5, IssueDe DEF ReponseFaite
  <2>2. ~Paye(c)'
    BY <1>0, <1>2, <1>30, <2>1, CapturePas DEF Argent, Abouti, Reussi
  <2>3. c \in Commandes
    BY <1>0, <1>30, <2>1, SlotEnCours
  <2>4. commande' = [commande EXCEPT ![c].etat = "ANNULEE"]
    BY <1>0, <1>2, <1>30, <2>1, <2>3, AvanceParPc DEF CancelTransaction
  <2>5. commande \in [Commandes -> CommandeT] /\ commande[c] \in CommandeT
    BY <2>3 DEF Inductif, TypeOK
  <2>6. commande'[c].etat = "ANNULEE"
    BY <2>3, <2>4, <2>5 DEF CommandeT
  <2> QED BY <2>1, <2>2, <2>3, <2>6
<1>6. PICK k, q : k = clic'[r] /\ q = req'[r]
  OBVIOUS
<1>7. k.quoi = clic[r].quoi /\ k.c = c
  BY <1>1, <1>30, <1>6 DEF ReponseFaite
<1>8. k.quoi = "capturer" /\ q.pc # "libre" => (Abouti(q) <=> Paye(k.c)')
  BY <1>30, <1>6, <1>7, CapturePas
<1>9. Argent(k, q)'
  BY <1>3, <1>4, <1>5, <1>6, <1>7, <1>8 DEF Argent, Abouti, Reussi
<1> QED BY <1>6, <1>9 DEF Argent, Abouti, Reussi

LEMMA PayesEquipe ==
  ASSUME Inductif, Pages, Payes, [NextCaisse]_toutes, NEW r \in Requetes,
         NEW quoi \in GestesEquipe, NEW u \in Equipe, NEW c \in Commandes, NEW rep,
         EquipeClique(r, quoi, u, c, rep)
  PROVE  Payes'
<1>0. Lance(r, quoi, u, c, rep) /\ clic[r].rep # "attend" /\ UNCHANGED onglet
  BY RienChamps DEF EquipeClique
<1>1. /\ clic'[r] = Clic(quoi, u, c, rep)
      /\ \A s \in Requetes \ {r} : clic'[s] = clic[s] /\ req'[s] = req[s]
  BY <1>0, SlotLance, ResteVrai
<1>2. Argent(clic[r], req[r])'
  BY <1>0, <1>1, ArgentLance
<1>3. clic'[r].quoi = quoi
  BY <1>1 DEF Clic
<1>4. \A s \in Requetes : clic'[s].quoi \in {clic[s].quoi, "rien"} \cup GestesEquipe
  BY <1>1, <1>3
<1>5. Attendus'
  BY <1>0, <1>4, AttendusMemes DEF Payes
<1> QED BY <1>0, <1>1, <1>2, <1>5, PayesSuite

LEMMA PayesDemande ==
  ASSUME Inductif, Pages, Payes, [NextCaisse]_toutes, NEW r \in Requetes, NEW u \in Clients,
         NEW quoi, NEW c, NEW rep, Demande(r, u, quoi, c, rep)
  PROVE  Payes'
<1>0. Lance(r, quoi, u, c, rep) /\ clic[r].rep # "attend" /\ onglet \in [Clients -> PageT]
  BY RienChamps, PagesDe DEF Demande
<1>1. /\ clic'[r] = Clic(quoi, u, c, rep)
      /\ \A s \in Requetes \ {r} : clic'[s] = clic[s] /\ req'[s] = req[s]
  BY <1>0, SlotLance, ResteVrai
<1>2. Argent(clic[r], req[r])'
  BY <1>0, <1>1, ArgentLance
<1>3. /\ \A v \in Clients \ {u} : onglet'[v] = onglet[v]
      /\ onglet'[u].par = r /\ onglet'[u].montre = "attente"
      /\ onglet[u].par \in {r, Aucun}
  <2>1. onglet[u] \in PageT
    BY <1>0
  <2>2. onglet[u].par \in {r, Aucun}
    BY AttentesPages DEF Demande
  <2> QED BY <1>0, <2>1, <2>2 DEF Demande, PageT
<1>4. Attendus'
  <2> SUFFICES ASSUME NEW s \in Requetes, clic'[s].quoi \in GestesClient
               PROVE  \E v \in Clients : onglet'[v].par = s
    BY DEF Attendus
  <2>1. CASE s = r
    BY <1>3, <2>1
  <2>2. CASE s # r
    <3>1. PICK v \in Clients : onglet[v].par = s
      BY <1>1, <2>2 DEF Payes, Attendus
    <3> QED BY <1>3, <2>2, <3>1, SuiviAssumption
  <2> QED BY <2>1, <2>2
<1>5. \A v \in Clients : onglet'[v] = onglet[v] \/ MontrePaye(onglet[v])'
  BY <1>3 DEF MontrePaye
<1> QED BY <1>1, <1>2, <1>4, <1>5, PayesSuite

LEMMA PayesPasAutre ==
  ASSUME Inductif, Pages, Payes, [NextCaisse]_toutes, NEW r \in Requetes, Pas(r),
         UNCHANGED onglet
  PROVE  Payes'
<1>1. req' = [req EXCEPT ![r] = req'[r]]
  BY AvanceSuivante DEF Pas
<1>2. \A s \in Requetes \ {r} : req'[s] = req[s]
  BY <1>1 DEF Inductif, TypeOK
<1>3. CASE req[r].pc = "create"
  <2>1. clic'[r] = Clic("commander", Aucun, Creee, "ok") /\ clic[r].quoi = "commander"
        /\ \A s \in Requetes \ {r} : clic'[s] = clic[s]
    BY <1>3, PasCreate DEF Pages, TypeCaisse
  <2>2. clic'[r].quoi = "commander" /\ clic'[r].rep = "ok"
    BY <2>1 DEF Clic
  <2>3. req'[r].pc = "libre"
    BY <1>3, AvanceSuivante DEF Pas, Suivante
  <2>4. Argent(clic[r], req[r])'
    BY <2>2, <2>3 DEF Argent
  <2>5. Attendus'
    BY <2>1, <2>2, AttendusMemes DEF Payes
  <2> QED BY <1>2, <2>1, <2>4, <2>5, PayesSuite
<1>4. CASE req[r].pc # "create"
  <2>1. ReponseFaite(r) /\ Argent(clic[r], req[r])'
    BY <1>4, ReponsePas, ArgentPasAutre
  <2>2. Attendus'
    BY <2>1, AttendusMemes DEF Payes, ReponseFaite
  <2> QED BY <1>2, <2>1, <2>2, PayesSuite DEF ReponseFaite
<1> QED BY <1>3, <1>4

LEMMA PayesRendu ==
  ASSUME Inductif, Pages, Payes, [NextCaisse]_toutes, NEW r \in Requetes, Repondue(r),
         clic' = [clic EXCEPT ![r] = Rien], UNCHANGED <<req, emission>>, Attendus',
         \A u \in Clients : onglet'[u] = onglet[u] \/ MontrePaye(onglet[u])'
  PROVE  Payes'
<1>1. /\ clic'[r] = Rien
      /\ \A s \in Requetes \ {r} : clic'[s] = clic[s] /\ req'[s] = req[s]
  BY SlotRendu, ResteVrai
<1>2. req'[r].pc = "libre"
  BY DEF Pages, SlotsSuivis, Slot, Repondue
<1>3. Argent(clic[r], req[r])'
  BY <1>1, <1>2, RienChamps, ArgentRien
<1> QED BY <1>1, <1>3, PayesSuite

LEMMA PayesFini ==
  ASSUME Inductif, Pages, Payes, [NextCaisse]_toutes, NEW r \in Requetes,
         NEW rep \in {"ok", "erreur"}, UNCHANGED onglet,
         clic[r].quoi = "statut" \/ rep = "erreur",
         clic' = [clic EXCEPT ![r].rep = rep], req'[r].pc = "libre",
         \A s \in Requetes \ {r} : req'[s] = req[s]
  PROVE  Payes'
<1>1. clic \in [Requetes -> GesteT]
  BY DEF Pages, TypeCaisse
<1>2. /\ clic'[r].quoi = clic[r].quoi /\ clic'[r].rep = rep
      /\ \A s \in Requetes \ {r} : clic'[s] = clic[s]
  BY <1>1 DEF GesteT
<1>3. Argent(clic[r], req[r])'
  BY <1>2, ArgentRien
<1>4. Attendus'
  BY <1>2, AttendusMemes DEF Payes
<1> QED BY <1>2, <1>3, <1>4, PayesSuite

\* A tab that goes to a page says what is true there.
LEMMA MontreVa ==
  ASSUME Inductif, Pages, Payes, NEW u \in Clients, NEW p, Va(u, p),
         UNCHANGED <<commande, paiement>>
  PROVE  /\ MontrePaye(onglet[u])' /\ onglet'[u].par = Aucun
         /\ \A v \in Clients \ {u} : onglet'[v] = onglet[v]
<1>1. onglet'[u] = p /\ p.par = Aucun /\ \A v \in Clients \ {u} : onglet'[v] = onglet[v]
  BY PagesDe DEF Va
<1>2. ASSUME p.nom = "retour", p.montre \in {"succes", "refus"}
      PROVE  /\ p.montre = "succes" => Paye(p.de)
             /\ p.montre = "refus" => ~Paye(p.de) /\ commande[p.de].etat = "ANNULEE"
  <2>1. PICK k : k = clic[onglet[u].par]
    OBVIOUS
  <2>2. /\ onglet[u].par # Aucun /\ k.quoi = "capturer" /\ k.c = p.de
        /\ k.rep = IF p.montre = "succes" THEN "ok" ELSE "refus"
    BY <1>2, <2>1 DEF Va
  <2>3. Argent(k, req[onglet[u].par])
    BY <2>1, <2>2, AttentesPages DEF Payes
  <2> QED BY <1>2, <2>2, <2>3 DEF Argent
<1>3. MontrePaye(p)'
  BY <1>2 DEF MontrePaye, Paye
<1> QED BY <1>1, <1>3 DEF MontrePaye

LEMMA PayesPas ==
  ASSUME ~Recharge, Inductif, Pages, Payes, [NextCaisse]_toutes
  PROVE  Payes'
<1>1. CASE UNCHANGED toutes
  <2>1. UNCHANGED <<clic, req, onglet>>
    BY <1>1 DEF toutes, suivis, vars
  <2>2. Attendus'
    BY <2>1, AttendusMemes DEF Payes
  <2> QED BY <2>1, <2>2, PayesInchanges
<1>2. CASE NextCaisse
  <2>1. Genre
    BY <1>2, Genres
  <2>2. ASSUME UNCHANGED <<clic, req, onglet>>
        PROVE  Payes'
    <3>1. Attendus'
      BY <2>2, AttendusMemes DEF Payes
    <3> QED BY <2>2, <3>1, PayesInchanges
  <2>3. ASSUME NEW r \in Requetes,
               RetourEquipe(r) \/ Pas(r) \/ Mourir(r) \/ Perdre(r) \/ Emettre(r),
               UNCHANGED onglet
        PROVE  Payes'
    <3>1. CASE RetourEquipe(r)
      <4>1. /\ Repondue(r) /\ clic' = [clic EXCEPT ![r] = Rien] /\ UNCHANGED <<req, emission>>
        BY <3>1 DEF RetourEquipe, vars
      <4>2. \A s \in Requetes : clic'[s].quoi \in {clic[s].quoi, "rien"}
        BY <4>1, RienChamps DEF Pages, TypeCaisse
      <4>3. Attendus'
        BY <2>3, <4>2, AttendusMemes DEF Payes
      <4> QED BY <2>3, <4>1, <4>3, PayesRendu
    <3>2. CASE Pas(r)
      BY <2>3, <3>2, PayesPasAutre
    <3>3. CASE Mourir(r)
      <4>1. /\ clic' = [clic EXCEPT ![r].rep = "erreur"] /\ req'[r].pc = "libre"
            /\ \A s \in Requetes \ {r} : req'[s] = req[s]
        BY <3>3 DEF Mourir, Panne, Repond, Etape, Inductif, TypeOK
      <4> QED BY <2>3, <4>1, PayesFini
    <3>4. CASE Emettre(r)
      <4>1. /\ clic' = [clic EXCEPT ![r].rep = "ok"] /\ emission[r] # Aucun /\ req' = req
        BY <3>4 DEF Emettre, vars
      <4>2. clic[r].quoi = "statut" /\ req[r].pc = "libre"
        BY <4>1 DEF Pages, SlotsSuivis, Slot
      <4> QED BY <2>3, <4>1, <4>2, PayesFini
    <3>5. CASE Perdre(r)
      <4>1. /\ clic' = [clic EXCEPT ![r].rep = "erreur"] /\ clic[r].rep \in {"ok", "refus"}
            /\ req' = req
        BY <3>5 DEF Perdre, vars
      <4>2. req[r].pc = "libre"
        BY <4>1 DEF Pages, SlotsSuivis, Slot
      <4> QED BY <2>3, <4>1, <4>2, PayesFini
    <3> QED BY <2>3, <3>1, <3>2, <3>3, <3>4, <3>5
  <2>4. ASSUME NEW r \in Requetes, NEW u \in Clients, NEW p \in PageT, Recoit(r, u, p)
        PROVE  Payes'
    <3>1. /\ Repondue(r) /\ clic' = [clic EXCEPT ![r] = Rien]
          /\ UNCHANGED <<req, emission, commande, paiement>> /\ onglet[u].par = r /\ Va(u, p)
      BY <2>4 DEF Recoit, Rend, vars
    <3>2. /\ MontrePaye(onglet[u])' /\ onglet'[u].par = Aucun
          /\ \A v \in Clients \ {u} : onglet'[v] = onglet[v]
      BY <3>1, MontreVa
    <3>3. Attendus'
      <4> SUFFICES ASSUME NEW s \in Requetes, clic'[s].quoi \in GestesClient
                   PROVE  \E v \in Clients : onglet'[v].par = s
        BY DEF Attendus
      <4>1. s # r /\ clic'[s] = clic[s]
        BY <3>1, RienChamps DEF Pages, TypeCaisse, GestesClient
      <4>2. PICK v \in Clients : onglet[v].par = s
        BY <4>1 DEF Payes, Attendus
      <4> QED BY <3>1, <3>2, <4>1, <4>2
    <3> QED BY <3>1, <3>2, <3>3, PayesRendu
  <2>5. ASSUME NEW r \in Requetes, Orphelin(r)
        PROVE  FALSE
    BY <2>5 DEF Orphelin, Payes, Attendus, GestesClient
  <2>6. ASSUME NEW u \in Clients, NEW p \in PageT, Navigation(u, p)
        PROVE  Payes'
    <3>1. UNCHANGED <<clic, req, commande, paiement>> /\ onglet[u].par = Aucun /\ Va(u, p)
      BY <2>6 DEF Navigation
    <3>2. /\ MontrePaye(onglet[u])' /\ onglet'[u].par = Aucun
          /\ \A v \in Clients \ {u} : onglet'[v] = onglet[v]
      BY <3>1, MontreVa
    <3>3. Attendus'
      BY <3>1, <3>2, SuiviAssumption DEF Payes, Attendus
    <3> QED BY <3>1, <3>2, <3>3, PayesInchanges
  <2>7. ASSUME NEW u, Rafraichir(u) \/ Charger(u)
        PROVE  UNCHANGED <<clic, req>>
    BY <2>7 DEF Rafraichir, Charger, vars
  <2>8. ASSUME NEW c, ClientSuit(c)
        PROVE  UNCHANGED <<clic, req>>
    BY <2>8 DEF ClientSuit, OuvrirSuivi, Joindre, Couper, vars
  <2> QED BY <2>1, <2>2, <2>3, <2>4, <2>5, <2>6, <2>7, <2>8, PayesEquipe, PayesDemande
       DEF Genre
<1> QED BY <1>1, <1>2

LEMMA PayesInit ==
  ASSUME InitCaisse
  PROVE  Payes
<1>1. /\ \A r \in Requetes : clic[r] = Rien /\ req[r].pc = "libre"
      /\ \A c \in Commandes : commande[c].livreur = Aucun /\ paiement[c].statut = "PENDING"
      /\ \A u \in Clients : onglet[u].nom = "caisse"
  BY DEF InitCaisse, InitSuivi, Init, NonCommande, NonPaiement, Panier, Page
<1> QED BY <1>1, RienChamps DEF Payes, Attendus, Argent, MontrePaye, LivreursPayes, GestesClient, Paye

LEMMA PayesVrai ==
  ASSUME ~Recharge
  PROVE  SpecCaisse => [](Inductif /\ Pages /\ Payes)
<1>1. InitCaisse => Payes
  BY PayesInit
<1>2. Inductif /\ Pages /\ Payes /\ [NextCaisse]_toutes => Payes'
  BY PayesPas
<1> QED BY <1>1, <1>2, PagesVrai, PTL DEF SpecCaisse

\* A button drawn from an up to date page is one whose click the service
\* accepts: the driver's has no guard on the payment, because no order that is
\* paid on line and not paid yet has a driver (delivery-status-form.tsx:38).
THEOREM BoutonAccepteVrai ==
  ASSUME ~Recharge
  PROVE  SpecCaisse => []BoutonAccepte
<1>1. Inductif /\ Pages /\ Payes => BoutonAccepte
  <2> SUFFICES ASSUME Inductif, Pages, Payes, NEW u \in Equipe, NEW c \in Commandes,
                      vu[u][c] # Aucun, vu[u][c] = VueDe(c)
               PROVE  /\ \A e \in Boutons(u, c) : Progression(u, c, e)
                      /\ u \in Admins /\ ListeLivreurs(u, c) => ~EnLigneNonPaye(c)
                      /\ BoutonCash(u, c) => ALaLivraison(c) /\ AdminOuLivreurAssigne(u, c)
                      /\ u \in Admins /\ BoutonFacture(u, c) => c \in Facturees
    BY DEF BoutonAccepte
  <2>1. PICK v : v = vu[u][c]
    OBVIOUS
  <2>2. /\ v.etat = commande[c].etat /\ v.livreur = commande[c].livreur
        /\ v.methode = paiement[c].methode /\ v.statut = paiement[c].statut
        /\ v.facture = (facture[c] # 0)
    BY <2>1 DEF VueDe
  <2>3. u \in Admins \/ commande[c].livreur = u
    BY <2>1, <2>2 DEF Pages, VuesFideles
  <2>4. AdminOuLivreurAssigne(u, c)
    BY <2>3 DEF AdminOuLivreurAssigne
  <2>5. u \notin Admins => ~EnLigneNonPaye(c)
    BY <2>3, DonneesAssumption DEF Equipe, Payes, LivreursPayes
  <2>6. NonPayeeEnLigne(v) <=> EnLigneNonPaye(c)
    BY <2>2 DEF NonPayeeEnLigne, EnLigneNonPaye, EnLigne, Paye
  <2>7. \A e : CashNonConfirme(v, e) <=> e = "LIVREE" /\ ALaLivraison(c) /\ ~Paye(c)
    BY <2>2 DEF CashNonConfirme, ALaLivraison, Paye
  <2>8. ASSUME NEW e \in Boutons(u, c)
        PROVE  Progression(u, c, e)
    <3>1. CASE u \in Admins
      BY <2>1, <2>2, <2>4, <2>6, <2>7, <2>8, <3>1
      DEF Boutons, BoutonsAdmin, Finale, Progression
    <3>2. CASE u \notin Admins
      <4>1. e \in EtatSuivant[v.etat] /\ ~CashNonConfirme(v, e)
        BY <2>1, <2>8, <3>2 DEF Boutons, BoutonLivreur
      <4>2. commande[c].etat \in Etats
        <5>1. v \in Vue
          BY <2>1 DEF Pages, TypeCaisse, TypeSuivi
        <5> QED BY <2>2, <5>1 DEF Vue
      <4>3. commande[c].etat \notin {"LIVREE", "ANNULEE"}
        BY <2>2, <4>1 DEF EtatSuivant
      <4> QED BY <2>4, <2>5, <2>7, <3>2, <4>1, <4>3 DEF Progression
    <3> QED BY <3>1, <3>2
  <2>9. u \in Admins /\ ListeLivreurs(u, c) => ~EnLigneNonPaye(c)
    BY <2>1, <2>6 DEF ListeLivreurs
  <2>10. BoutonCash(u, c) => ALaLivraison(c)
    BY <2>1, <2>2 DEF BoutonCash, ALaLivraison
  <2>11. BoutonFacture(u, c) => c \in Facturees
    BY <2>1, <2>2 DEF BoutonFacture, Facturees
  <2> QED BY <2>4, <2>8, <2>9, <2>10, <2>11
<1> QED BY <1>1, PayesVrai, PTL

\* So no second capture of a paid order is possible: what the double_capture
\* run refutes with reloads holds without them (app/paiement/retour/page.tsx:14).
THEOREM CaptureIdempotenteVraie ==
  ASSUME ~Recharge
  PROVE  SpecCaisse => CaptureIdempotente
<1>1. Inductif /\ Pages /\ Payes /\ [NextCaisse]_toutes
        => [\A c \in Commandes : Paye(c) => Paye(c)']_vars
  <2> SUFFICES ASSUME Inductif, Pages, Payes, [NextCaisse]_toutes, NEW c \in Commandes, Paye(c)
               PROVE  Paye(c)'
    OBVIOUS
  <2> QED BY ArgentDure DEF ArgentDe, Payes
<1> QED BY <1>1, PayesVrai, PTL DEF SpecCaisse, CaptureIdempotente

----------------------------------------------------------------------------
(* The cart and the order that is being paid hold the same articles, and   *)
(* only one of them holds them.                                            *)

\* What click k and its request q believe of the stock and of the cart.
Stock(k, q) ==
  /\ Reussi(q) /\ k.quoi = "capturer" => net[k.c] = 0
  /\ q.pc = "consommer" => q.vu = panier[commande[k.c].client]
  /\ q.pc = "create" => q.lignes = panier[q.client]
  /\ q.pc = "cancel" => (q.jamaisConsommee <=> ~Paye(k.c))

Nets ==
  \A c \in Commandes :
    /\ ~Existe(c) => net[c] = 0
    /\ EnLigneNonPaye(c) => net[c] = 0
    /\ EnLigne(c) => net[c] <= 1

\* The articles of order c are in the cart of u, or they left the stock.
PanierSuit(u, c) ==
  \A p \in Presents(commande[c].lignes) :
    /\ net[c] = 0 => panier[u][p] = commande[c].lignes[p]
    /\ net[c] = 1 => panier[u][p] = Aucun

Paniers == \A u \in Clients : \A c \in Courante(u) : PanierSuit(u, c)

Stocks == (\A r \in Requetes : Stock(clic[r], req[r])) /\ Nets /\ Paniers

\* The order that a tab is paying.
LEMMA CouranteSelon ==
  ASSUME NEW u, NEW c
  PROVE  c \in Courante(u) <=>
           \/ onglet[u].nom \in {"retour", "annule"} /\ c = onglet[u].de
           \/ onglet[u].nom = "paypal" /\ c = paypal[onglet[u].de].commande
           \/ /\ onglet[u].nom = "caisse" /\ onglet[u].par # Aucun
              /\ c = clic[onglet[u].par].c
              /\ \/ clic[onglet[u].par].quoi = "initier"
                 \/ clic[onglet[u].par].rep = "ok" /\ EnLigne(c)
BY DEF Courante

LEMMA CouranteSuivante ==
  ASSUME NEW u, NEW c
  PROVE  (c \in Courante(u))' <=>
           \/ onglet'[u].nom \in {"retour", "annule"} /\ c = onglet'[u].de
           \/ onglet'[u].nom = "paypal" /\ c = paypal'[onglet'[u].de].commande
           \/ /\ onglet'[u].nom = "caisse" /\ onglet'[u].par # Aucun
              /\ c = clic'[onglet'[u].par].c
              /\ \/ clic'[onglet'[u].par].quoi = "initier"
                 \/ clic'[onglet'[u].par].rep = "ok" /\ EnLigne(c)'
BY DEF Courante, EnLigne

LEMMA CouranteDe ==
  ASSUME Inductif, Pages, NEW u \in Clients, NEW c, c \in Courante(u)
  PROVE  DeSien(u, c) /\ EnLigne(c)
<1>1. PageFidele(u, onglet[u])
  BY PagesDe
<1>2. CASE onglet[u].nom \in {"retour", "annule"}
  BY <1>1, <1>2, CouranteSelon DEF PageFidele
<1>3. CASE onglet[u].nom = "paypal"
  BY <1>1, <1>3, CouranteSelon DEF PageFidele, Inductif, TablesFideles
<1>4. CASE onglet[u].nom = "caisse"
  <2>1. /\ onglet[u].par # Aucun /\ c = clic[onglet[u].par].c
        /\ \/ clic[onglet[u].par].quoi = "initier"
           \/ clic[onglet[u].par].rep = "ok" /\ EnLigne(c)
    BY <1>4, CouranteSelon
  <2>2. PICK k, q, e : k = clic[onglet[u].par] /\ Slot(k, q, e) /\ AttenteFidele(u, onglet[u], k, q)
    BY <2>1, PagesDe
  <2>3. DeSien(u, c)
    BY <2>1, <2>2 DEF AttenteFidele
  <2>4. EnLigne(c)
    BY <2>1, <2>2 DEF Slot
  <2> QED BY <2>3, <2>4
<1> QED BY <1>2, <1>3, <1>4, CouranteSelon

\* What the tab of u waits for is about its order.
LEMMA CouranteAttendue ==
  ASSUME Pages, NEW u \in Clients, NEW r \in Requetes, onglet[u].par = r,
         clic[r].quoi \in GestesPaiement, NEW c, c \in Courante(u)
  PROVE  c = clic[r].c
<1>1. AttenteFidele(u, onglet[u], clic[r], req[r]) /\ onglet[u].nom \in {"caisse", "retour", "annule"}
  BY PagesDe, AttentesPages, SuiviAssumption
<1>2. onglet[u].nom = "caisse" => c = clic[r].c
  BY CouranteSelon
<1> QED BY <1>1, <1>2, CouranteSelon DEF AttenteFidele

\* Who changes the cart, and what left the stock for an order: the request its
\* tab waits for.
StockDe(r) ==
  /\ \A c \in Commandes : net'[c] # net[c] =>
       \/ ~Existe(c)
       \/ clic[r].quoi \in GestesPaiement /\ clic[r].c = c
  /\ \A u \in Clients : panier'[u] # panier[u] => onglet[u].par = r
  /\ \A c \in Commandes : Existe(c) => commande'[c].lignes = commande[c].lignes

LEMMA StockPas ==
  ASSUME Inductif, Pages, Payes, NEW r \in Requetes, Pas(r)
  PROVE  StockDe(r)
<1>0. Avance(r) /\ TypeOK /\ req[r].pc # "libre"
  BY AvanceParPc DEF Pas, Inductif
<1>1. CASE req[r].pc = "create"
  <2>1. PICK d \in Commandes : /\ ~Existe(d) /\ CreateTransaction(r)!2!(d)
                               /\ \A b \in Commandes \ {d} : commande'[b] = commande[b]
                                    /\ net'[b] = net[b]
    BY <1>0, <1>1, AvanceParPc, CreateUne
  <2>2. clic[r].quoi = "commander"
    BY <1>1, PasCreate
  <2>3. PICK u \in Clients : onglet[u].par = r
    BY <2>2 DEF Payes, Attendus, GestesClient
  <2>4. req[r].client = u
    BY <1>1, <2>3, PagesDe, SuiviAssumption DEF AttenteFidele
  <2>5. \A v \in Clients : panier'[v] # panier[v] => v = u
    BY <1>0, <2>1, <2>4 DEF TypeOK
  <2> QED BY <2>1, <2>3, <2>5 DEF StockDe
<1>2. CASE req[r].pc # "create"
  <2>1. PICK c \in Commandes : c = req[r].c /\ c = clic[r].c /\ Existe(c)
    BY <1>0, <1>2, SlotEnCours
  <2>2. \A d \in Commandes \ {c} : net'[d] = net[d]
    BY <1>0, <1>2, <2>1, AvanceTables
  <2>3. \A d \in Commandes : commande'[d].lignes = commande[d].lignes
    BY <1>0, <1>2, AvanceTables
  <2>4. CASE req[r].pc \notin {"cancel", "consommer"}
    <3>1. panier' = panier /\ net' = net
      BY <1>0, <1>2, <2>4, AvanceTables
    <3> QED BY <2>3, <3>1 DEF StockDe
  <2>5. CASE req[r].pc \in {"cancel", "consommer"}
    <3>1. clic[r].quoi \in GestesPaiement
      <4>1. clic[r] \in GesteT /\ req[r].pc \in Attentes[clic[r].quoi]
        BY <1>0, SlotEnCours
      <4> QED BY <2>5, <4>1, GesteAttend DEF GestesPaiement
    <3>2. PICK u \in Clients : onglet[u].par = r
      BY <3>1 DEF Payes, Attendus, GestesClient, GestesPaiement
    <3>3. commande[c].client = u
      BY <2>1, <3>1, <3>2, PagesDe, SuiviAssumption DEF AttenteFidele, GestesPaiement, DeSien
    <3>4. \A v \in Clients : panier'[v] # panier[v] => v = u
      <4>1. CASE req[r].pc = "cancel"
        <5>1. \/ panier' = panier
              \/ panier' = [panier EXCEPT ![u] = Rendu(u, commande[c].lignes)]
          <6>1. CancelTransaction(r)
            BY <1>0, <4>1, AvanceParPc
          <6> QED BY <2>1, <3>3, <6>1 DEF CancelTransaction
        <5> QED BY <1>0, <5>1 DEF TypeOK
      <4>2. CASE req[r].pc = "consommer"
        BY <1>0, <2>1, <3>3, <4>2, AvanceParPc
        DEF ConfirmOnlinePaymentTransaction, Consommation, TypeOK
      <4> QED BY <2>5, <4>1, <4>2
    <3> QED BY <2>1, <2>2, <2>3, <3>1, <3>2, <3>4 DEF StockDe
  <2> QED BY <2>4, <2>5
<1> QED BY <1>1, <1>2

\* The payment of an order whose page waits changes only in its own request.
LEMMA PayeTenu ==
  ASSUME Inductif, Pages, Payes, [NextCaisse]_toutes, NEW s \in Requetes,
         clic[s].quoi \in GestesPaiement, req'[s] = req[s], NEW c, c = clic[s].c
  PROVE  /\ c \in Commandes /\ Existe(c) /\ EnLigne(c) /\ (Paye(c)' <=> Paye(c))
         /\ commande'[c].client = commande[c].client
<1>1. c \in Commandes /\ Existe(c) /\ EnLigne(c)
  BY DEF Pages, SlotsSuivis, Slot, GestesPaiement
<1>2. ArgentDe(c) /\ commande'[c].client = commande[c].client
  BY <1>1, ArgentDure, ResteVrai DEF Reste, Acquis
<1>3. ASSUME ~Paye(c), Paye(c)'
      PROVE  FALSE
  <2>1. PICK t \in Requetes : clic[t].quoi = "capturer" /\ clic[t].c = c /\ req'[t] # req[t]
    BY <1>1, <1>2, <1>3 DEF ArgentDe, EnLigneNonPaye
  <2>2. t = s
    BY <2>1, SeuleDemande DEF Payes, GestesPaiement
  <2> QED BY <2>1, <2>2
<1> QED BY <1>1, <1>2, <1>3 DEF ArgentDe

\* What another slot believes of the stock and of the cart stays true.
LEMMA StockSlot ==
  ASSUME Inductif, Pages, Payes, Stocks, [NextCaisse]_toutes, NEW r \in Requetes,
         NEW s \in Requetes, clic'[s] = clic[s], req'[s] = req[s], StockDe(r), s # r
  PROVE  Stock(clic[s], req[s])'
<1>1. PICK k, q : k = clic[s] /\ q = req[s]
  OBVIOUS
<1>2. /\ k \in GesteT /\ Stock(k, q)
      /\ q.pc # "libre" => q.pc \in Attentes[k.quoi]
  BY <1>1, SlotEnCours DEF Pages, TypeCaisse, Stocks
<1>3. ASSUME k.quoi \in GestesPaiement
      PROVE  /\ net'[k.c] = net[k.c] /\ (Paye(k.c)' <=> Paye(k.c))
             /\ panier'[commande'[k.c].client] = panier[commande[k.c].client]
  <2>1. /\ k.c \in Commandes /\ Existe(k.c) /\ (Paye(k.c)' <=> Paye(k.c))
        /\ commande'[k.c].client = commande[k.c].client
    BY <1>1, <1>3, PayeTenu
  <2>2. net'[k.c] = net[k.c]
    BY <1>1, <1>3, <2>1, SeuleDemande DEF StockDe, Payes
  <2>3. PICK u \in Clients : u = commande[k.c].client
    BY <2>1 DEF Inductif, TablesFideles
  <2>4. onglet[u].par = s
    BY <1>1, <1>3, <2>1, <2>3, CaptureAttendue DEF Payes, DeSien
  <2> QED BY <2>1, <2>2, <2>3, <2>4 DEF StockDe
<1>4. ASSUME q.pc = "create"
      PROVE  panier'[q.client] = panier[q.client]
  <2>1. k.quoi = "commander"
    BY <1>2, <1>4, GesteAttend
  <2>2. PICK u \in Clients : onglet[u].par = s
    BY <1>1, <2>1 DEF Payes, Attendus, GestesClient
  <2>3. q.client = u
    BY <1>1, <1>4, <2>2, PagesDe, SuiviAssumption DEF AttenteFidele
  <2> QED BY <2>2, <2>3 DEF StockDe
<1>5. q.pc \in {"consommer", "cancel"} => k.quoi \in GestesPaiement
  BY <1>2, GesteAttend DEF GestesPaiement
<1>6. Stock(k, q)'
  BY <1>2, <1>3, <1>4, <1>5 DEF Stock, Reussi, GestesPaiement
<1> QED BY <1>1, <1>6 DEF Stock, Reussi

\* What cancel and the consumption do to the net of an order that is paid on
\* line: nothing while it is not paid, and at most one unit out.
LEMMA NetDe ==
  ASSUME Inductif, Pages, Payes, Stocks, NEW r \in Requetes, Pas(r), req[r].pc # "create",
         NEW c \in Commandes, c = clic[r].c, EnLigne(c)
  PROVE  /\ ~Paye(c) => net'[c] = net[c]
         /\ net'[c] <= 1 \/ net'[c] = net[c]
<1>0. Avance(r) /\ TypeOK /\ req[r].pc # "libre"
  BY AvanceParPc DEF Pas, Inductif
<1>1. /\ req[r].c = c /\ clic[r] \in GesteT /\ req[r].pc \in Attentes[clic[r].quoi]
      /\ Stock(clic[r], req[r]) /\ Argent(clic[r], req[r]) /\ net[c] <= 1 /\ net \in [Commandes -> Int]
  BY <1>0, SlotEnCours DEF Stocks, Nets, Payes, TypeOK
<1>2. CASE req[r].pc \notin {"cancel", "consommer"}
  BY <1>0, <1>2, AvanceTables
<1>3. CASE req[r].pc = "cancel"
  <2>1. \/ req[r].jamaisConsommee /\ net' = net
        \/ ~req[r].jamaisConsommee /\ net' = [net EXCEPT ![c] = @ - 1]
    <3>1. CancelTransaction(r)
      BY <1>0, <1>3, AvanceParPc
    <3> QED BY <1>1, <3>1 DEF CancelTransaction
  <2>2. req[r].jamaisConsommee <=> ~Paye(c)
    BY <1>1, <1>3 DEF Stock
  <2> QED BY <1>1, <2>1, <2>2
<1>4. CASE req[r].pc = "consommer"
  <2>1. clic[r].quoi = "capturer"
    BY <1>1, <1>4, GesteAttend
  <2>2. Paye(c) /\ net[c] = 0
    BY <1>1, <1>4, <2>1 DEF Argent, Stock, Abouti, Reussi
  <2>3. net' = net \/ net' = [net EXCEPT ![c] = @ + 1]
    BY <1>0, <1>1, <1>4, AvanceParPc DEF ConfirmOnlinePaymentTransaction, Consommation
  <2> QED BY <1>1, <2>2, <2>3
<1> QED BY <1>2, <1>3, <1>4

LEMMA NetsPas ==
  ASSUME Inductif, Pages, Payes, Stocks, [NextCaisse]_toutes, NEW r \in Requetes, Pas(r)
  PROVE  Nets'
<1>0. Avance(r) /\ TypeOK /\ TablesFideles /\ req[r].pc # "libre"
  BY AvanceParPc DEF Pas, Inductif
<1> SUFFICES ASSUME NEW c \in Commandes
             PROVE  /\ ~Existe(c)' => net'[c] = 0
                    /\ EnLigneNonPaye(c)' => net'[c] = 0
                    /\ EnLigne(c)' => net'[c] <= 1
  BY DEF Nets
<1>1. /\ ~Existe(c) => net[c] = 0
      /\ EnLigneNonPaye(c) => net[c] = 0
      /\ EnLigne(c) => net[c] <= 1
  BY DEF Stocks, Nets
<1>2. CASE req[r].pc = "create"
  <2>1. PICK d \in Commandes : /\ ~Existe(d) /\ CreateTransaction(r)!2!(d)
                               /\ \A b \in Commandes \ {d} : commande'[b] = commande[b]
                                    /\ paiement'[b] = paiement[b] /\ net'[b] = net[b]
    BY <1>0, <1>2, AvanceParPc, CreateUne
  <2>2. CASE c # d
    BY <1>1, <2>1, <2>2 DEF Existe, EnLigneNonPaye, EnLigne, Paye
  <2>3. CASE c = d
    <3>1. commande'[d].etat = "EN_ATTENTE" /\ paiement'[d].methode = req[r].methode
          /\ (req[r].methode = "EN_LIGNE" => net' = net)
      BY <1>0, <2>1 DEF TypeOK
    <3> QED BY <1>1, <2>1, <2>3, <3>1 DEF Existe, EnLigneNonPaye, EnLigne
  <2> QED BY <2>2, <2>3
<1>3. CASE req[r].pc # "create"
  <2>0. ArgentDe(c)
    BY ArgentDure
  <2>1. /\ Existe(c)' <=> Existe(c)
        /\ EnLigne(c)' <=> EnLigne(c)
    <3>1. paiement'[c].methode = paiement[c].methode
      BY <1>0, <1>3, AvanceTables
    <3>2. Inductif'
      BY ResteVrai DEF Reste
    <3> QED BY <1>0, <3>1, <3>2 DEF EnLigne, TablesFideles, Inductif
  <2>2. EnLigneNonPaye(c)' => EnLigneNonPaye(c)
    BY <1>0, <2>0, <2>1 DEF ArgentDe, EnLigneNonPaye, TablesFideles, Existe, EnLigne
  <2>3. CASE c # req[r].c
    <3>1. net'[c] = net[c]
      BY <1>0, <1>3, <2>3, AvanceTables
    <3> QED BY <1>1, <2>1, <2>2, <3>1
  <2>4. CASE c = req[r].c
    <3>1. c = clic[r].c /\ Existe(c)
      BY <1>0, <1>3, <2>4, SlotEnCours
    <3> QED BY <1>1, <1>3, <2>1, <2>2, <3>1, NetDe DEF EnLigneNonPaye
  <2> QED BY <2>3, <2>4
<1> QED BY <1>2, <1>3

LEMMA StockSuite ==
  ASSUME Inductif, Pages, Payes, Stocks, [NextCaisse]_toutes, NEW r \in Requetes, Pas(r)
  PROVE  Stock(clic[r], req[r])'
<1>0. Avance(r) /\ TypeOK /\ req[r].pc # "libre"
  BY AvanceParPc DEF Pas, Inductif
<1>1. CASE req[r].pc = "create"
  <2>1. req'[r].pc = "libre"
    BY <1>0, <1>1, AvanceSuivante DEF Suivante
  <2> QED BY <2>1 DEF Stock, Reussi
<1>2. CASE req[r].pc # "create"
  <2>1. PICK c \in Commandes : c = clic[r].c /\ c = req[r].c /\ Existe(c)
    BY <1>0, <1>2, SlotEnCours
  <2>2. /\ Suivante(req[r], req'[r]) /\ ReponseFaite(r) /\ Stock(clic[r], req[r])
        /\ Argent(clic[r], req[r]) /\ clic[r] \in GesteT /\ req[r].pc \in Attentes[clic[r].quoi]
        /\ Slot(clic[r], req[r], emission[r]) /\ Nets
    BY <1>0, <1>2, AvanceSuivante, ReponsePas, SlotEnCours DEF Stocks, Payes, Pages, SlotsSuivis
  <2>3. PICK k, q : k = clic'[r] /\ q = req'[r] /\ k.c = c /\ k.quoi = clic[r].quoi
    BY <2>1, <2>2 DEF ReponseFaite
  <2>4. ASSUME Reussi(q), k.quoi = "capturer"
        PROVE  net'[c] = 0
    <3>1. EnLigne(c) /\ req[r].pc \in {"statut", "notifier", "confirmOnline"}
          /\ (req[r].pc = "statut" \/ Reussi(req[r]))
      <4>1. EnLigne(c)
        BY <2>1, <2>2, <2>3, <2>4 DEF Slot
      <4>2. req[r].pc \in {"statut", "notifier", "confirmOnline"}
        BY <2>2, <2>3, <2>4 DEF Suivante, Reussi
      <4>3. req[r].pc = "notifier" => req[r].success
        BY <2>2, <2>3, <2>4 DEF Suivante, Reussi, SuiteDe
      <4> QED BY <4>1, <4>2, <4>3 DEF Reussi
    <3>2. net' = net
      BY <1>0, <3>1, AvanceTables
    <3>3. net[c] = 0
      BY <2>1, <2>2, <2>3, <2>4, <3>1
      DEF Stock, Argent, Abouti, Reussi, Nets, EnLigneNonPaye
    <3> QED BY <3>2, <3>3
  <2>5. ASSUME q.pc = "consommer"
        PROVE  q.vu = panier'[commande'[c].client]
    <3>1. req[r].pc = "confirmOnline" /\ q.vu = panier[commande[c].client]
      BY <2>1, <2>2, <2>3, <2>5 DEF Suivante, SuiteDe
    <3>2. panier' = panier /\ commande'[c].client = commande[c].client
      BY <1>0, <1>2, <3>1, AvanceTables
    <3> QED BY <3>1, <3>2
  <2>6. ASSUME q.pc = "cancel"
        PROVE  q.jamaisConsommee <=> ~Paye(c)'
    <3>1. req[r].pc = "echec" /\ q.jamaisConsommee = EnLigneNonPaye(c)
      BY <2>1, <2>2, <2>3, <2>6 DEF Suivante, SuiteDe
    <3>2. clic[r].quoi = "capturer"
      BY <2>2, <3>1, GesteAttend
    <3>3. EnLigne(c) /\ (Paye(c)' <=> Paye(c))
      BY <1>0, <2>1, <2>2, <3>1, <3>2, CapturePas DEF Slot
    <3> QED BY <3>1, <3>3 DEF EnLigneNonPaye
  <2>7. q.pc # "create"
    BY <2>2, <2>3 DEF Suivante, SuiteDe
  <2>8. Stock(k, q)'
    BY <2>3, <2>4, <2>5, <2>6, <2>7 DEF Stock, Reussi
  <2> QED BY <2>3, <2>8 DEF Stock, Reussi
<1> QED BY <1>1, <1>2

\* The cart of a client whose order is cancelled or consumed.
LEMMA PanierDe ==
  ASSUME Inductif, Pages, Payes, Stocks, NEW r \in Requetes, Pas(r),
         req[r].pc \in {"cancel", "consommer"}, NEW c \in Commandes, c = clic[r].c,
         NEW u \in Clients, commande[c].client = u, PanierSuit(u, c)
  PROVE  PanierSuit(u, c)'
<1>0. Avance(r) /\ TypeOK
  BY DEF Pas, Inductif
<1>1. /\ req[r].c = c /\ clic[r] \in GesteT /\ req[r].pc \in Attentes[clic[r].quoi]
      /\ Stock(clic[r], req[r]) /\ Argent(clic[r], req[r]) /\ net[c] \in Int
      /\ Slot(clic[r], req[r], emission[r])
  BY <1>0, SlotEnCours DEF Stocks, Payes, TypeOK, Pages, SlotsSuivis
<1>2. PICK l : l = commande[c].lignes /\ l \in Lignes /\ commande'[c].lignes = l
  BY <1>0, AvanceTables DEF TypeOK, CommandeT
<1>3. panier \in [Clients -> Lignes] /\ net \in [Commandes -> Int]
  BY <1>0 DEF TypeOK
<1>4. clic[r].quoi \in {"capturer", "annuler"} /\ EnLigne(c) /\ net[c] <= 1
  <2>1. clic[r].quoi \in {"capturer", "annuler"}
    <3>1. clic[r].quoi \in {"rien"} \cup GestesEquipe \cup GestesClient
      BY <1>1 DEF GesteT
    <3>2. CASE req[r].pc = "cancel"
      <4>1. "cancel" \in Attentes[clic[r].quoi]
        BY <1>1, <3>2
      <4> QED BY <3>1, <4>1, AttentesDe
    <3>3. CASE req[r].pc = "consommer"
      <4>1. "consommer" \in Attentes[clic[r].quoi]
        BY <1>1, <3>3
      <4>2. clic[r].quoi = "capturer"
        BY <3>1, <4>1, AttentesDe
      <4> QED BY <4>2
    <3> QED BY <3>2, <3>3
  <2>2. EnLigne(c)
    BY <1>1, <2>1 DEF Slot
  <2> QED BY <2>1, <2>2 DEF Stocks, Nets
<1> SUFFICES ASSUME NEW p \in Presents(l)
             PROVE  /\ net'[c] = 0 => panier'[u][p] = l[p]
                    /\ net'[c] = 1 => panier'[u][p] = Aucun
  BY <1>2 DEF PanierSuit
<1>5. /\ net[c] = 0 => panier[u][p] = l[p]
      /\ net[c] = 1 => panier[u][p] = Aucun
      /\ p \in Produits /\ l[p] \in Int
  BY <1>2 DEF PanierSuit, Presents, Lignes
<1>6. CASE req[r].pc = "cancel"
  <2>1. CancelTransaction(r)
    BY <1>0, <1>6, AvanceParPc
  <2>2. CASE panier' = panier /\ net' = net
    BY <1>5, <2>2
  <2>3. CASE /\ panier' = [panier EXCEPT ![u] = Rendu(u, l)]
             /\ net' = [net EXCEPT ![c] = @ - 1]
    <3>1. net'[c] = net[c] - 1 /\ panier'[u] = Rendu(u, l)
      BY <1>3, <2>3
    <3>2. net'[c] # 1 /\ (net'[c] = 0 => net[c] = 1)
      BY <1>1, <1>4, <3>1
    <3>3. panier[u][p] = Aucun => Rendu(u, l)[p] = l[p]
      BY <1>5 DEF Rendu, Quantite, Presents
    <3> QED BY <1>5, <3>1, <3>2, <3>3
  <2> QED BY <1>1, <1>2, <2>1, <2>2, <2>3 DEF CancelTransaction
<1>7. CASE req[r].pc = "consommer"
  <2>1. net[c] = 0 /\ req[r].vu = panier[u]
    <3>1. clic[r].quoi = "capturer"
      BY <1>1, <1>7, GesteAttend
    <3> QED BY <1>1, <1>7, <3>1 DEF Stock, Reussi
  <2>2. Consommation(r)
    BY <1>0, <1>7, AvanceParPc DEF ConfirmOnlinePaymentTransaction
  <2> DEFINE vus == Presents(l) \cap Presents(panier[u])
             vides == {x \in vus : panier[u][x] <= l[x]}
  <2>3. vus \subseteq Presents(panier[u])
    OBVIOUS
  <2>4. /\ panier' = [panier EXCEPT ![u] =
                [x \in Produits |->
                   IF x \in vides THEN Aucun
                   ELSE IF x \in vus THEN panier[u][x] - l[x]
                   ELSE panier[u][x]]]
        /\ net' = [net EXCEPT ![c] = @ + 1]
    BY <1>1, <1>2, <2>1, <2>2, <2>3 DEF Consommation
  <2>5. p \in vides
    BY <1>5, <2>1 DEF Presents
  <2>6. panier'[u][p] = Aucun
    BY <1>3, <1>5, <2>4, <2>5
  <2>7. net'[c] = 1
    BY <1>3, <2>1, <2>4
  <2> QED BY <2>6, <2>7
<1> QED BY <1>6, <1>7

\* The order that a tab is paying after a step of a handler: the same one, or
\* the one that was just created.
LEMMA CourantePas ==
  ASSUME Inductif, Pages, [NextCaisse]_toutes, NEW r \in Requetes, Pas(r), UNCHANGED onglet,
         NEW u \in Clients, NEW c, (c \in Courante(u))'
  PROVE  \/ c \in Courante(u)
         \/ req[r].pc = "create" /\ onglet[u].par = r /\ c = Creee /\ EnLigne(c)'
<1>0. Avance(r) /\ req[r].pc # "libre" /\ PageFidele(u, onglet[u])
  BY AvanceParPc, PagesDe DEF Pas
<1>1. CASE onglet[u].nom \in {"retour", "annule"}
  BY <1>1, CouranteSelon, CouranteSuivante
<1>2. CASE onglet[u].nom = "paypal"
  <2>1. paypal'[onglet[u].de].commande = paypal[onglet[u].de].commande
    BY <1>0, <1>2, ResteVrai DEF Reste, Acquis, PageFidele
  <2> QED BY <1>2, <2>1, CouranteSelon, CouranteSuivante
<1>3. CASE onglet[u].nom \notin {"retour", "annule", "paypal"}
  <2>1. PICK s : s = onglet[u].par
    OBVIOUS
  <2>2. /\ onglet[u].nom = "caisse" /\ s # Aucun /\ c = clic'[s].c
        /\ clic'[s].quoi = "initier" \/ (clic'[s].rep = "ok" /\ EnLigne(c)')
    BY <1>3, <2>1, CouranteSuivante
  <2>3. /\ s \in Requetes /\ AttenteFidele(u, onglet[u], clic[s], req[s])
        /\ clic[s].quoi \in {"commander", "initier"} /\ clic[s] \in GesteT
    BY <2>1, <2>2, PagesDe DEF AttenteFidele
  <2>4. CASE req[r].pc = "create"
    <3>1. clic' = [clic EXCEPT ![r] = Clic("commander", Aucun, Creee, "ok")]
      BY <2>4, PasCreate
    <3>2. clic \in [Requetes -> GesteT]
      BY PagesDe
    <3>3. CASE s = r
      <4>1. clic'[s] = Clic("commander", Aucun, Creee, "ok")
        BY <3>1, <3>2, <3>3
      <4>2. clic'[s].c = Creee /\ clic'[s].quoi = "commander"
        BY <4>1 DEF Clic
      <4> QED BY <2>1, <2>2, <2>4, <3>3, <4>2
    <3>4. CASE s # r
      <4>1. clic'[s] = clic[s]
        BY <2>3, <3>1, <3>2, <3>4
      <4>2. clic[s].quoi = "initier" \/ EnLigne(c)
        <5> SUFFICES ASSUME clic[s].rep = "ok", EnLigne(c)'
                     PROVE  EnLigne(c)
          BY <2>2, <4>1
        <5>1. c \in Commandes /\ Existe(c)
          BY <2>2, <2>3, <4>1 DEF AttenteFidele, DeSien
        <5> QED BY <5>1, ResteVrai DEF Reste, Acquis, EnLigne
      <4> QED BY <2>1, <2>2, <4>1, <4>2, CouranteSelon
    <3> QED BY <3>3, <3>4
  <2>5. CASE req[r].pc # "create"
    <3>1. ReponseFaite(r)
      BY <2>5, ReponsePas
    <3>2. CASE s = r
      <4>1. clic[r].quoi # "commander"
        BY <1>0, <2>3, <2>5, <3>2, SlotEnCours, GesteAttend
      <4>2. clic'[s].c = clic[s].c
        BY <3>1, <3>2 DEF ReponseFaite
      <4> QED BY <2>1, <2>2, <2>3, <3>2, <4>1, <4>2, CouranteSelon
    <3>3. CASE s # r
      <4>1. clic'[s] = clic[s]
        BY <2>3, <3>1, <3>3 DEF ReponseFaite
      <4>2. clic[s].quoi = "initier" \/ EnLigne(c)
        <5> SUFFICES ASSUME clic[s].rep = "ok", EnLigne(c)'
                     PROVE  EnLigne(c)
          BY <2>2, <4>1
        <5>1. c \in Commandes /\ Existe(c)
          BY <2>2, <2>3, <4>1 DEF AttenteFidele, DeSien
        <5> QED BY <5>1, ResteVrai DEF Reste, Acquis, EnLigne
      <4> QED BY <2>1, <2>2, <4>1, <4>2, CouranteSelon
    <3> QED BY <3>2, <3>3
  <2> QED BY <2>4, <2>5
<1> QED BY <1>1, <1>2, <1>3

LEMMA PaniersPas ==
  ASSUME Inductif, Pages, Payes, Stocks, [NextCaisse]_toutes, NEW r \in Requetes, Pas(r),
         UNCHANGED onglet
  PROVE  Paniers'
<1>0. Avance(r) /\ TypeOK /\ req[r].pc # "libre" /\ StockDe(r)
  BY AvanceParPc, StockPas DEF Pas, Inductif
<1> SUFFICES ASSUME NEW u \in Clients, NEW c, (c \in Courante(u))'
             PROVE  PanierSuit(u, c)'
  BY DEF Paniers
<1>1. ASSUME c \in Courante(u)
      PROVE  PanierSuit(u, c)'
  <2>1. /\ c \in Commandes /\ Existe(c) /\ commande[c].client = u /\ PanierSuit(u, c)
        /\ commande'[c].lignes = commande[c].lignes
    BY <1>0, <1>1, CouranteDe DEF DeSien, Stocks, Paniers, StockDe
  <2>2. ASSUME panier'[u] = panier[u], net'[c] = net[c]
        PROVE  PanierSuit(u, c)'
    BY <2>1, <2>2 DEF PanierSuit
  <2>3. CASE onglet[u].par # r
    <3>1. panier'[u] = panier[u]
      BY <1>0, <2>3 DEF StockDe
    <3>2. net'[c] = net[c]
      <4> SUFFICES ASSUME net'[c] # net[c]
                   PROVE  FALSE
        OBVIOUS
      <4>1. clic[r].quoi \in GestesPaiement /\ clic[r].c = c
        BY <1>0, <2>1 DEF StockDe
      <4> QED BY <2>1, <2>3, <4>1, CaptureAttendue DEF Payes, DeSien
    <3> QED BY <2>2, <3>1, <3>2
  <2>4. CASE onglet[u].par = r
    <3>1. /\ AttenteFidele(u, onglet[u], clic[r], req[r]) /\ clic[r].rep = "attend"
          /\ onglet[u].nom \in {"caisse", "retour", "annule"}
          /\ clic[r] \in GesteT /\ req[r].pc \in Attentes[clic[r].quoi]
      BY <1>0, <2>4, PagesDe, AttentesPages, SlotEnCours, SuiviAssumption
    <3>2. clic[r].quoi \in GestesPaiement
      <4>1. onglet[u].nom = "caisse" => clic[r].quoi = "initier"
        BY <1>1, <2>4, <3>1, CouranteSelon
      <4> QED BY <3>1, <4>1 DEF AttenteFidele, GestesPaiement
    <3>3. c = clic[r].c
      BY <1>1, <2>4, <3>2, CouranteAttendue
    <3>4. req[r].pc # "create"
      <4>1. ASSUME req[r].pc = "create"
            PROVE  FALSE
        <5>1. "create" \in Attentes[clic[r].quoi]
              /\ clic[r].quoi \in {"rien"} \cup GestesEquipe \cup GestesClient
          BY <3>1, <4>1 DEF GesteT
        <5>2. clic[r].quoi = "commander"
          BY <5>1, AttentesDe
        <5> QED BY <3>2, <5>2 DEF GestesPaiement
      <4> QED BY <4>1
    <3>5. CASE req[r].pc \in {"cancel", "consommer"}
      BY <2>1, <3>3, <3>5, PanierDe
    <3>6. CASE req[r].pc \notin {"cancel", "consommer"}
      <4>1. panier' = panier /\ net' = net
        BY <1>0, <3>4, <3>6, AvanceTables
      <4> QED BY <2>2, <4>1
    <3> QED BY <3>5, <3>6
  <2> QED BY <2>3, <2>4
<1>2. ASSUME req[r].pc = "create", onglet[u].par = r, c = Creee, EnLigne(c)'
      PROVE  PanierSuit(u, c)'
  <2>1. PICK d \in Commandes : /\ Creee = d /\ ~Existe(d) /\ CreateTransaction(r)!2!(d)
    BY <1>0, <1>2, AvanceParPc, CreateUne
  <2>2. /\ commande'[c].lignes = req[r].lignes
        /\ paiement'[c].methode = req[r].methode
        /\ net[c] = 0 /\ c \in Commandes
    BY <1>0, <1>2, <2>1 DEF TypeOK, Stocks, Nets
  <2>3. panier' = panier /\ net' = net
    BY <1>2, <2>1, <2>2 DEF EnLigne
  <2>4. req[r].lignes = panier[u]
    <3>1. req[r].client = u
      BY <1>2, PagesDe, SuiviAssumption DEF AttenteFidele
    <3>2. req[r].lignes = panier[req[r].client]
      BY <1>2 DEF Stocks, Stock
    <3> QED BY <3>1, <3>2
  <2> QED BY <2>2, <2>3, <2>4 DEF PanierSuit
<1> QED BY <1>1, <1>2, CourantePas

LEMMA StocksPas ==
  ASSUME Inductif, Pages, Payes, Stocks, [NextCaisse]_toutes, NEW r \in Requetes, Pas(r),
         UNCHANGED onglet
  PROVE  Stocks'
<1>1. StockDe(r) /\ Nets' /\ Paniers' /\ Stock(clic[r], req[r])'
  BY StockPas, NetsPas, PaniersPas, StockSuite
<1>2. \A s \in Requetes \ {r} : clic'[s] = clic[s] /\ req'[s] = req[s]
  <2>1. \A s \in Requetes \ {r} : req'[s] = req[s]
    BY AvanceSuivante DEF Inductif, TypeOK, Pas
  <2>2. CASE req[r].pc = "create"
    BY <2>1, <2>2, PasCreate DEF Pages, TypeCaisse
  <2>3. CASE req[r].pc # "create"
    BY <2>1, <2>3, ReponsePas DEF ReponseFaite
  <2> QED BY <2>2, <2>3
<1>3. \A s \in Requetes \ {r} : Stock(clic[s], req[s])'
  BY <1>1, <1>2, StockSlot
<1> QED BY <1>1, <1>3 DEF Stocks

\* A step that leaves the tables alone: the slot that moves, and the orders the
\* tabs are paying.
LEMMA StocksCalmes ==
  ASSUME Stocks, Calme, NEW r \in Requetes,
         \A s \in Requetes \ {r} : clic'[s] = clic[s] /\ req'[s] = req[s],
         Stock(clic[r], req[r])' \/ (clic'[r] = clic[r] /\ req'[r] = req[r]),
         \A u \in Clients : \A c : (c \in Courante(u))' => c \in Courante(u)
  PROVE  Stocks'
<1>1. Nets'
  BY DEF Stocks, Nets, Calme, Existe, EnLigneNonPaye, EnLigne, Paye
<1>2. ASSUME NEW s \in Requetes, clic'[s] = clic[s], req'[s] = req[s]
      PROVE  Stock(clic[s], req[s])'
  BY <1>2 DEF Stocks, Stock, Calme, Reussi, Paye
<1>3. Paniers'
  BY DEF Stocks, Paniers, PanierSuit, Calme
<1> QED BY <1>1, <1>2, <1>3 DEF Stocks

LEMMA StocksMemes ==
  ASSUME Stocks, Calme, UNCHANGED <<clic, req>>,
         \A u \in Clients : \A c : (c \in Courante(u))' => c \in Courante(u)
  PROVE  Stocks'
<1>1. Nets'
  BY DEF Stocks, Nets, Calme, Existe, EnLigneNonPaye, EnLigne, Paye
<1>2. \A s \in Requetes : Stock(clic[s], req[s])'
  BY DEF Stocks, Stock, Calme, Reussi, Paye
<1>3. Paniers'
  BY DEF Stocks, Paniers, PanierSuit, Calme
<1> QED BY <1>1, <1>2, <1>3 DEF Stocks

\* The slot after a click, and after an answer.
LEMMA StockLance ==
  ASSUME Inductif, Pages, NEW r \in Requetes, NEW quoi, NEW u, NEW c, NEW rep,
         Lance(r, quoi, u, c, rep), clic'[r] = Clic(quoi, u, c, rep)
  PROVE  Stock(clic[r], req[r])'
<1>1. clic'[r].quoi = quoi /\ clic'[r].c = c
  BY DEF Clic
<1>2. /\ UNCHANGED <<commande, paiement, panier, net>> /\ ClicFidele(quoi, u, c)
      /\ \/ req'[r].pc = "libre"
         \/ Premier(quoi, u, c, req'[r])
  BY DEF Lance, Libre
<1>3. CASE req'[r].pc = "libre"
  BY <1>3 DEF Stock, Reussi
<1>4. CASE Premier(quoi, u, c, req'[r])
  <2>1. /\ req'[r].pc \in {"updateStatus", "assignLivreur", "statut", "create", "initiate",
                          "capture", "cancel"}
        /\ req'[r].pc = "create" => req'[r].client = u /\ req'[r].lignes = panier[u]
        /\ req'[r].pc = "cancel" => /\ req'[r].jamaisConsommee = EnLigneNonPaye(c)
                                    /\ quoi = "annuler"
    BY <1>4 DEF Premier
  <2>2. quoi = "annuler" => EnLigne(c)
    BY <1>2 DEF ClicFidele, GestesEquipe
  <2> QED BY <1>1, <1>2, <2>1, <2>2 DEF Stock, Reussi, EnLigneNonPaye, Paye
<1> QED BY <1>2, <1>3, <1>4

LEMMA StockLibre ==
  ASSUME NEW r, req'[r].pc = "libre"
  PROVE  Stock(clic[r], req[r])'
BY DEF Stock, Reussi

\* The order that a tab is paying after a step without a handler.
LEMMA CouranteTenue ==
  ASSUME Inductif, Pages, [NextCaisse]_toutes, Calme, NEW u \in Clients, onglet'[u] = onglet[u],
         onglet[u].par # Aucun =>
           \/ clic'[onglet[u].par] = clic[onglet[u].par]
           \/ clic'[onglet[u].par].rep = "erreur"
              /\ clic'[onglet[u].par].quoi = clic[onglet[u].par].quoi
              /\ clic'[onglet[u].par].c = clic[onglet[u].par].c,
         NEW c, (c \in Courante(u))'
  PROVE  c \in Courante(u)
<1>1. CASE onglet[u].nom \in {"retour", "annule"}
  BY <1>1, CouranteSelon, CouranteSuivante
<1>2. CASE onglet[u].nom = "paypal"
  <2>1. paypal'[onglet[u].de].commande = paypal[onglet[u].de].commande
    BY <1>2, PagesDe, ResteVrai DEF Reste, Acquis, PageFidele
  <2> QED BY <1>2, <2>1, CouranteSelon, CouranteSuivante
<1>3. CASE onglet[u].nom \notin {"retour", "annule", "paypal"}
  <2>1. PICK s : s = onglet[u].par
    OBVIOUS
  <2>2. /\ onglet[u].nom = "caisse" /\ s # Aucun /\ c = clic'[s].c
        /\ clic'[s].quoi = "initier" \/ (clic'[s].rep = "ok" /\ EnLigne(c)')
    BY <1>3, <2>1, CouranteSuivante
  <2>3. EnLigne(c)' = EnLigne(c)
    BY DEF Calme, EnLigne
  <2>4. c = clic[s].c /\ (clic[s].quoi = "initier" \/ (clic[s].rep = "ok" /\ EnLigne(c)))
    BY <2>1, <2>2, <2>3
  <2> QED BY <2>1, <2>2, <2>4, CouranteSelon
<1> QED BY <1>1, <1>2, <1>3

\* A page that asks is still about the order it was about.
LEMMA CouranteDemande ==
  ASSUME Inductif, Pages, [NextCaisse]_toutes, NEW r \in Requetes, NEW u \in Clients,
         NEW quoi, NEW k, NEW rep, Demande(r, u, quoi, k, rep),
         clic'[r] = Clic(quoi, u, k, rep), NEW c, (c \in Courante(u))'
  PROVE  c \in Courante(u)
<1>1. /\ onglet'[u].nom = onglet[u].nom /\ onglet'[u].de = onglet[u].de /\ onglet'[u].par = r
      /\ onglet[u].nom \in {"caisse", "retour", "annule"}
  <2>1. onglet' = [onglet EXCEPT ![u] = [onglet[u] EXCEPT !.montre = "attente", !.par = r]]
        /\ onglet[u].nom \in {"caisse", "retour", "annule"}
    BY DEF Demande
  <2>2. onglet \in [Clients -> PageT] /\ onglet[u] \in PageT
    BY PagesDe
  <2> QED BY <2>1, <2>2 DEF PageT
<1>2. CASE onglet[u].nom \in {"retour", "annule"}
  BY <1>1, <1>2, CouranteSelon, CouranteSuivante
<1>3. CASE onglet[u].nom = "caisse"
  <2>1. /\ c = clic'[r].c
        /\ clic'[r].quoi = "initier" \/ (clic'[r].rep = "ok" /\ EnLigne(c)')
    BY <1>1, <1>3, CouranteSuivante
  <2>2. clic'[r].c = k /\ clic'[r].quoi = quoi /\ clic'[r].rep = rep
    BY DEF Clic
  <2>3. rep = "ok" => quoi \in {"cash", "capturer"}
    BY DEF Demande, Lance
  <2>4. quoi \in {"commander", "initier"}
    BY <1>3 DEF Demande
  <2>5. quoi = "initier"
    BY <2>1, <2>2, <2>3, <2>4
  <2>6. onglet[u].par = r /\ clic[r].rep = "ok" /\ clic[r].c = k
    BY <1>3, <2>5 DEF Demande
  <2>7. EnLigne(k)
    BY <2>5 DEF Demande, Lance, ClicFidele, GestesEquipe
  <2>8. r # Aucun /\ c = k
    BY <2>1, <2>2, SuiviAssumption
  <2>9. onglet[u].par # Aucun /\ c = clic[onglet[u].par].c
        /\ clic[onglet[u].par].rep = "ok" /\ EnLigne(c)
    BY <2>6, <2>7, <2>8
  <2> QED BY <1>3, <2>9, CouranteSelon
<1> QED BY <1>1, <1>2, <1>3

\* So is the page that a tab goes to.
LEMMA CouranteVa ==
  ASSUME Inductif, Pages, [NextCaisse]_toutes, NEW u \in Clients, NEW p, Va(u, p),
         NEW c, (c \in Courante(u))'
  PROVE  c \in Courante(u)
<1>1. onglet'[u] = p /\ p.par = Aucun
  BY PagesDe DEF Va
<1>2. CASE p.nom \in {"retour", "annule"}
  BY <1>1, <1>2, CouranteSuivante DEF Va
<1>3. CASE p.nom = "paypal"
  <2>1. p.de \in Ordres /\ paypal[p.de].etat # "AUCUN"
    BY <1>3 DEF Va, PageFidele
  <2>2. paypal'[p.de].commande = paypal[p.de].commande
    BY <2>1, ResteVrai DEF Reste, Acquis
  <2> QED BY <1>1, <1>3, <2>2, CouranteSuivante DEF Va
<1>4. CASE p.nom \notin {"retour", "annule", "paypal"}
  BY <1>1, <1>4, CouranteSuivante
<1> QED BY <1>2, <1>3, <1>4

LEMMA StocksSuivants ==
  ASSUME ~Recharge, Inductif, Pages, Payes, Stocks, [NextCaisse]_toutes
  PROVE  Stocks'
<1>1. CASE UNCHANGED toutes
  <2>1. UNCHANGED <<clic, req, onglet>> /\ Calme
    BY <1>1, CapturesInchangees DEF toutes, suivis, vars, Calme
  <2>2. \A u \in Clients : \A c : (c \in Courante(u))' => c \in Courante(u)
    BY <2>1, CouranteTenue
  <2> QED BY <2>1, <2>2, StocksMemes
<1>2. CASE NextCaisse
  <2>1. Genre
    BY <1>2, Genres
  <2>2. ASSUME UNCHANGED <<clic, req, onglet>>, Calme
        PROVE  Stocks'
    <3>1. \A u \in Clients : \A c : (c \in Courante(u))' => c \in Courante(u)
      BY <2>2, CouranteTenue
    <3> QED BY <2>2, <3>1, StocksMemes
  <2>3. ASSUME NEW r \in Requetes, Calme, UNCHANGED onglet, req'[r].pc = "libre",
               \A s \in Requetes \ {r} : clic'[s] = clic[s] /\ req'[s] = req[s],
               \/ \A u \in Clients : onglet[u].par # r
               \/ /\ clic'[r].rep = "erreur"
                  /\ clic'[r].quoi = clic[r].quoi /\ clic'[r].c = clic[r].c
        PROVE  Stocks'
    <3>1. ASSUME NEW u \in Clients, NEW c, (c \in Courante(u))'
          PROVE  c \in Courante(u)
      <4>1. onglet[u].par # Aucun => onglet[u].par \in Requetes
        BY PagesDe
      <4> QED BY <2>3, <3>1, <4>1, CouranteTenue
    <3>2. Stock(clic[r], req[r])'
      BY <2>3, StockLibre
    <3> QED BY <2>3, <3>1, <3>2, StocksCalmes
  <2>4. ASSUME NEW r \in Requetes, NEW quoi \in GestesEquipe, NEW u \in Equipe,
               NEW c \in Commandes, NEW rep, EquipeClique(r, quoi, u, c, rep)
        PROVE  Stocks'
    <3>1. Lance(r, quoi, u, c, rep) /\ clic[r] = Rien /\ clic[r].rep # "attend"
          /\ UNCHANGED onglet
      BY <2>4, RienChamps DEF EquipeClique
    <3>2. /\ clic'[r] = Clic(quoi, u, c, rep)
          /\ \A s \in Requetes \ {r} : clic'[s] = clic[s] /\ req'[s] = req[s]
      BY <3>1, SlotLance, ResteVrai
    <3>3. Stock(clic[r], req[r])' /\ Calme
      BY <3>1, <3>2, StockLance DEF Lance, Calme
    <3>4. \A v \in Clients : onglet[v].par # r
      BY <3>1, AttentesPages, RienChamps, SuiviAssumption
    <3>5. ASSUME NEW v \in Clients, NEW d, (d \in Courante(v))'
          PROVE  d \in Courante(v)
      <4>1. onglet[v].par # Aucun => onglet[v].par \in Requetes
        BY PagesDe
      <4> QED BY <3>1, <3>2, <3>3, <3>4, <3>5, <4>1, CouranteTenue
    <3> QED BY <3>2, <3>3, <3>5, StocksCalmes
  <2>5. ASSUME NEW r \in Requetes, NEW u \in Clients, NEW quoi, NEW c, NEW rep,
               Demande(r, u, quoi, c, rep)
        PROVE  Stocks'
    <3>1. Lance(r, quoi, u, c, rep) /\ clic[r].rep # "attend"
          /\ \A v \in Clients \ {u} : onglet'[v] = onglet[v]
      BY <2>5, RienChamps, PagesDe DEF Demande
    <3>2. /\ clic'[r] = Clic(quoi, u, c, rep)
          /\ \A s \in Requetes \ {r} : clic'[s] = clic[s] /\ req'[s] = req[s]
      BY <3>1, SlotLance, ResteVrai
    <3>3. Stock(clic[r], req[r])' /\ Calme
      BY <3>1, <3>2, StockLance DEF Lance, Calme
    <3>4. \A v \in Clients \ {u} : onglet[v].par # r
      <4>1. CASE clic[r] = Rien
        BY <4>1, AttentesPages, RienChamps, SuiviAssumption
      <4>2. CASE clic[r] # Rien
        <5>1. onglet[u].par = r
          BY <2>5, <4>2 DEF Demande
        <5> QED BY <5>1, SuiviAssumption DEF Pages, OngletsSuivis
      <4> QED BY <4>1, <4>2
    <3>5. ASSUME NEW v \in Clients, NEW d, (d \in Courante(v))'
          PROVE  d \in Courante(v)
      <4>1. CASE v = u
        BY <2>5, <3>2, <3>5, <4>1, CouranteDemande
      <4>2. CASE v # u
        <5>1. onglet[v].par # Aucun => onglet[v].par \in Requetes \ {r}
          BY <3>4, <4>2, PagesDe
        <5> QED BY <3>1, <3>2, <3>3, <3>5, <4>2, <5>1, CouranteTenue
      <4> QED BY <4>1, <4>2
    <3> QED BY <3>2, <3>3, <3>5, StocksCalmes
  <2>6. ASSUME NEW r \in Requetes, NEW u \in Clients, NEW p \in PageT, Recoit(r, u, p)
        PROVE  Stocks'
    <3>1. /\ Repondue(r) /\ clic' = [clic EXCEPT ![r] = Rien] /\ UNCHANGED <<req, emission>>
          /\ Calme /\ onglet[u].par = r /\ Va(u, p)
      BY <2>6, CapturesInchangees DEF Recoit, Rend, vars, Calme
    <3>2. /\ clic'[r] = Rien /\ req'[r].pc = "libre"
          /\ \A s \in Requetes \ {r} : clic'[s] = clic[s] /\ req'[s] = req[s]
      <4>1. req'[r].pc = "libre"
        BY <3>1 DEF Pages, SlotsSuivis, Slot, Repondue
      <4> QED BY <3>1, <4>1, SlotRendu, ResteVrai
    <3>3. \A v \in Clients \ {u} : onglet'[v] = onglet[v] /\ onglet[v].par # r
      BY <3>1, PagesDe, SuiviAssumption DEF Va, Pages, OngletsSuivis
    <3>4. ASSUME NEW v \in Clients, NEW d, (d \in Courante(v))'
          PROVE  d \in Courante(v)
      <4>1. CASE v = u
        BY <3>1, <3>4, <4>1, CouranteVa
      <4>2. CASE v # u
        <5>1. onglet[v].par # Aucun => onglet[v].par \in Requetes \ {r}
          BY <3>3, <4>2, PagesDe
        <5> QED BY <3>1, <3>2, <3>3, <3>4, <4>2, <5>1, CouranteTenue
      <4> QED BY <4>1, <4>2
    <3>5. Stock(clic[r], req[r])'
      BY <3>2, StockLibre
    <3> QED BY <3>1, <3>2, <3>4, <3>5, StocksCalmes
  <2>7. ASSUME NEW r \in Requetes, Orphelin(r)
        PROVE  FALSE
    BY <2>7 DEF Orphelin, Payes, Attendus, GestesClient
  <2>8. ASSUME NEW u \in Clients, NEW p \in PageT, Navigation(u, p)
        PROVE  Stocks'
    <3>1. UNCHANGED <<clic, req>> /\ Calme /\ Va(u, p)
      BY <2>8 DEF Navigation, Calme
    <3>2. \A v \in Clients \ {u} : onglet'[v] = onglet[v]
      BY <3>1, PagesDe DEF Va
    <3>3. ASSUME NEW v \in Clients, NEW d, (d \in Courante(v))'
          PROVE  d \in Courante(v)
      <4>1. CASE v = u
        BY <3>1, <3>3, <4>1, CouranteVa
      <4>2. CASE v # u
        BY <3>1, <3>2, <3>3, <4>2, CouranteTenue
      <4> QED BY <4>1, <4>2
    <3> QED BY <3>1, <3>3, StocksMemes
  <2>9. ASSUME NEW r \in Requetes, RetourEquipe(r) \/ Mourir(r) \/ Perdre(r) \/ Emettre(r),
               UNCHANGED onglet
        PROVE  Stocks'
    <3>0. Calme /\ clic \in [Requetes -> GesteT] /\ clic[r] \in GesteT
      BY <2>9, CapturesInchangees, PagesDe
      DEF RetourEquipe, Mourir, Panne, Perdre, Emettre, vars, Calme, Pages, TypeCaisse
    <3>1. CASE RetourEquipe(r)
      <4>1. /\ Repondue(r) /\ clic' = [clic EXCEPT ![r] = Rien] /\ UNCHANGED <<req, emission>>
            /\ clic[r].quoi \in GestesEquipe
        BY <3>1 DEF RetourEquipe, RetourStatut, RetourLivreur, RetourCash, vars, GestesEquipe
      <4>2. /\ req'[r].pc = "libre"
            /\ \A s \in Requetes \ {r} : clic'[s] = clic[s] /\ req'[s] = req[s]
        <5>1. req'[r].pc = "libre"
          BY <4>1 DEF Pages, SlotsSuivis, Slot, Repondue
        <5> QED BY <4>1, <5>1, SlotRendu, ResteVrai
      <4>3. \A u \in Clients : onglet[u].par # r
        BY <4>1, AttentesPages, SuiviAssumption DEF GestesEquipe, GestesClient
      <4> QED BY <2>3, <2>9, <3>0, <4>2, <4>3
    <3>2. CASE Mourir(r)
      <4>1. /\ clic' = [clic EXCEPT ![r].rep = "erreur"] /\ req'[r].pc = "libre"
            /\ \A s \in Requetes \ {r} : req'[s] = req[s]
        BY <3>2 DEF Mourir, Panne, Repond, Etape, Inductif, TypeOK
      <4>2. clic'[r].rep = "erreur" /\ clic'[r].quoi = clic[r].quoi /\ clic'[r].c = clic[r].c
            /\ \A s \in Requetes \ {r} : clic'[s] = clic[s]
        BY <3>0, <4>1 DEF GesteT
      <4> QED BY <2>3, <2>9, <3>0, <4>1, <4>2
    <3>3. CASE Emettre(r)
      <4>1. /\ clic' = [clic EXCEPT ![r].rep = "ok"] /\ emission[r] # Aucun /\ req' = req
        BY <3>3 DEF Emettre, vars
      <4>2. clic[r].quoi = "statut" /\ req'[r].pc = "libre"
            /\ \A s \in Requetes \ {r} : clic'[s] = clic[s] /\ req'[s] = req[s]
        BY <3>0, <4>1 DEF Pages, SlotsSuivis, Slot
      <4>3. \A u \in Clients : onglet[u].par # r
        BY <4>2, AttentesPages, SuiviAssumption DEF GestesClient
      <4> QED BY <2>3, <2>9, <3>0, <4>2, <4>3
    <3>4. CASE Perdre(r)
      <4>1. /\ clic' = [clic EXCEPT ![r].rep = "erreur"] /\ clic[r].rep \in {"ok", "refus"}
            /\ req' = req
        BY <3>4 DEF Perdre, vars
      <4>2. clic'[r].rep = "erreur" /\ clic'[r].quoi = clic[r].quoi /\ clic'[r].c = clic[r].c
            /\ \A s \in Requetes \ {r} : clic'[s] = clic[s] /\ req'[s] = req[s]
        BY <3>0, <4>1 DEF GesteT
      <4>3. req'[r].pc = "libre"
        BY <4>1 DEF Pages, SlotsSuivis, Slot
      <4> QED BY <2>3, <2>9, <3>0, <4>2, <4>3
    <3> QED BY <2>9, <3>1, <3>2, <3>3, <3>4
  <2>10. ASSUME NEW u, Rafraichir(u) \/ Charger(u)
         PROVE  UNCHANGED <<clic, req>> /\ Calme
    BY <2>10, CapturesInchangees DEF Rafraichir, Charger, vars, Calme
  <2>11. ASSUME NEW c, ClientSuit(c)
         PROVE  UNCHANGED <<clic, req>> /\ Calme
    BY <2>11, CapturesInchangees DEF ClientSuit, OuvrirSuivi, Joindre, Couper, vars, Calme
  <2> QED BY <2>1, <2>2, <2>4, <2>5, <2>6, <2>7, <2>8, <2>9, <2>10, <2>11, StocksPas
       DEF Genre
<1> QED BY <1>1, <1>2

LEMMA StocksInit ==
  ASSUME InitCaisse
  PROVE  Stocks
<1>1. /\ \A r \in Requetes : req[r].pc = "libre"
      /\ \A c \in Commandes : net[c] = 0
      /\ \A u \in Clients : onglet[u].nom = "caisse" /\ onglet[u].par = Aucun
  BY DEF InitCaisse, InitSuivi, Init, Panier, Page
<1> QED BY <1>1, CouranteSelon DEF Stocks, Stock, Nets, Paniers, Reussi

LEMMA StocksVrai ==
  ASSUME ~Recharge
  PROVE  SpecCaisse => [](Inductif /\ Pages /\ Payes /\ Stocks)
<1>1. InitCaisse => Stocks
  BY StocksInit
<1>2. Inductif /\ Pages /\ Payes /\ Stocks /\ [NextCaisse]_toutes => Stocks'
  BY StocksSuivants
<1> QED BY <1>1, <1>2, PayesVrai, PTL DEF SpecCaisse

\* After a cancellation the articles are in the cart, and once: what the
\* cancelled order had taken is back, whichever requests ran meanwhile
\* (paiement/annule/page.tsx:69, orders.service.ts:231).
THEOREM AnnuleVraie ==
  ASSUME ~Recharge
  PROVE  SpecCaisse => []AnnuleVrai
<1>1. Inductif /\ Pages /\ Stocks => AnnuleVrai
  <2> SUFFICES ASSUME Inductif, Pages, Stocks, NEW u \in Clients, NEW c, c = onglet[u].de,
                      onglet[u].nom = "annule", net[c] = 0
               PROVE  \A p \in Presents(commande[c].lignes) :
                        panier[u][p] = commande[c].lignes[p]
    BY DEF AnnuleVrai
  <2>1. c \in Courante(u)
    BY CouranteSelon
  <2> QED BY <2>1 DEF Stocks, Paniers, PanierSuit
<1> QED BY <1>1, StocksVrai, PTL

----------------------------------------------------------------------------
(* While no request dies, the money PayPal took is recorded or about to be. *)

\* A step of no handler: a request starts, or dies, or nothing runs.
Tranquille ==
  /\ Calme /\ UNCHANGED facture
  /\ \/ /\ pannes' = pannes
        /\ \A s \in Requetes : \/ req'[s] = req[s]
                               \/ /\ Libre(s)
                                  /\ req'[s].pc \in {"updateStatus", "assignLivreur", "statut",
                                       "create", "initiate", "capture", "cancel"}
     \/ /\ pannes' = pannes + 1
        /\ \A s \in Requetes : req'[s] = req[s] \/ req'[s].pc = "libre"

LEMMA LanceTranquille ==
  ASSUME Inductif, NEW r \in Requetes, NEW quoi, NEW u, NEW c, NEW rep, Lance(r, quoi, u, c, rep)
  PROVE  Tranquille
<1>1. Calme /\ UNCHANGED <<facture, pannes>> /\ Libre(r)
  BY DEF Lance, Calme
<1>2. CASE req' = req
  BY <1>1, <1>2 DEF Tranquille
<1>3. CASE req' = [req EXCEPT ![r] = req'[r]] /\ Premier(quoi, u, c, req'[r])
  <2>1. \A s \in Requetes \ {r} : req'[s] = req[s]
    BY <1>3 DEF Inductif, TypeOK
  <2>2. req'[r].pc \in {"updateStatus", "assignLivreur", "statut", "create", "initiate",
                        "capture", "cancel"}
    BY <1>3 DEF Premier
  <2> QED BY <1>1, <2>1, <2>2 DEF Tranquille
<1> QED BY <1>2, <1>3 DEF Lance

LEMMA TranquilleSaufPas ==
  ASSUME Inductif, Pages, [NextCaisse]_toutes
  PROVE  Tranquille \/ \E r \in Requetes : Pas(r) /\ UNCHANGED onglet
<1>0. ASSUME Calme, UNCHANGED <<facture, pannes, req>>
      PROVE  Tranquille
  BY <1>0 DEF Tranquille
<1>1. CASE UNCHANGED toutes
  BY <1>0, <1>1, CapturesInchangees DEF Calme, toutes, vars
<1>2. CASE NextCaisse
  <2>1. Genre
    BY <1>2, Genres
  <2>2. ASSUME NEW r, RetourEquipe(r) \/ Perdre(r) \/ Emettre(r)
        PROVE  Tranquille
    BY <1>0, <2>2, CapturesInchangees DEF RetourEquipe, Perdre, Emettre, vars, Calme
  <2>3. ASSUME NEW r, Mourir(r)
        PROVE  Tranquille
    <3>1. Calme /\ UNCHANGED facture /\ pannes' = pannes + 1
      BY <2>3, CapturesInchangees DEF Mourir, Panne, Calme
    <3>2. \A s \in Requetes : req'[s] = req[s] \/ req'[s].pc = "libre"
      BY <2>3 DEF Mourir, Panne, Repond, Etape, Inductif, TypeOK
    <3> QED BY <3>1, <3>2 DEF Tranquille
  <2>4. ASSUME NEW u, Rafraichir(u) \/ Charger(u)
        PROVE  Tranquille
    BY <1>0, <2>4, CapturesInchangees DEF Rafraichir, Charger, vars, Calme
  <2>5. ASSUME NEW c, ClientSuit(c)
        PROVE  Tranquille
    BY <1>0, <2>5, CapturesInchangees DEF ClientSuit, OuvrirSuivi, Joindre, Couper, vars, Calme
  <2>6. ASSUME NEW r, Rend(r)
        PROVE  Tranquille
    BY <1>0, <2>6, CapturesInchangees DEF Rend, vars, Calme
  <2>7. ASSUME NEW u, NEW p, Navigation(u, p)
        PROVE  Tranquille
    BY <1>0, <2>7 DEF Navigation, Calme
  <2>8. ASSUME NEW r \in Requetes, NEW quoi, NEW u, NEW c, NEW rep, Lance(r, quoi, u, c, rep)
        PROVE  Tranquille
    BY <2>8, LanceTranquille
  <2> QED BY <2>1, <2>2, <2>3, <2>4, <2>5, <2>6, <2>7, <2>8, Sortes
<1> QED BY <1>1, <1>2

\* The handler that is about to record that the money of c was taken.
Inscrit(q, c) == q.pc = "statut" /\ q.success /\ q.c = c

Debits ==
  pannes = 0 =>
    \A c \in Commandes : EnLigneNonPaye(c) /\ Captures(c) # {} =>
      \E r \in Requetes : Inscrit(req[r], c)

\* It is the capture of the order, whose page waits.
LEMMA InscritCapture ==
  ASSUME Pages, NEW r \in Requetes, NEW c \in Commandes, EnLigne(c),
         req[r].pc \in {"statut", "notifier", "confirmOnline", "consommer", "generate",
                        "facture", "sendInvoice"}, req[r].c = c
  PROVE  clic[r].quoi = "capturer" /\ clic[r].c = c
<1>1. /\ clic[r] \in GesteT /\ req[r].pc \in Attentes[clic[r].quoi] /\ clic[r].c = c
      /\ Slot(clic[r], req[r], emission[r])
  BY SlotEnCours DEF Pages, SlotsSuivis
<1>2. PICK quoi, pc : quoi = clic[r].quoi /\ pc = req[r].pc
  OBVIOUS
<1>3. quoi \in {"rien"} \cup GestesEquipe \cup GestesClient /\ pc \in Attentes[quoi]
  BY <1>1, <1>2 DEF GesteT
<1>4. quoi \in {"cash", "capturer"}
  BY <1>2, <1>3, AttentesDe
<1>5. quoi # "cash"
  BY <1>1, <1>2 DEF Slot, EnLigne, ALaLivraison
<1> QED BY <1>1, <1>2, <1>4, <1>5

LEMMA DebitsPas ==
  ASSUME Inductif, Pages, Payes, Debits, [NextCaisse]_toutes, NEW r \in Requetes, Pas(r)
  PROVE  Debits'
<1>0. Avance(r) /\ TypeOK /\ TablesFideles /\ req[r].pc # "libre"
  BY AvanceParPc DEF Pas, Inductif
<1> SUFFICES ASSUME pannes' = 0, NEW c \in Commandes, EnLigneNonPaye(c)', Captures(c)' # {}
             PROVE  \E s \in Requetes : Inscrit(req'[s], c)
  BY DEF Debits, Inscrit
<1>1. pannes = 0 /\ \A s \in Requetes \ {r} : req'[s] = req[s]
  BY <1>0, AvanceTables, AvanceSuivante DEF TypeOK
<1>2. CASE req[r].pc = "create"
  <2>1. PICK d \in Commandes : /\ ~Existe(d) /\ CreateTransaction(r)!2!(d)
                               /\ \A b \in Commandes \ {d} : commande'[b] = commande[b]
                                    /\ paiement'[b] = paiement[b]
    BY <1>0, <1>2, AvanceParPc, CreateUne
  <2>2. paypal' = paypal
    BY <1>0, <1>2, AvanceTables
  <2>3. c # d /\ Captures(c) # {}
    BY <1>0, <2>1, <2>2 DEF Captures, TablesFideles, EnLigne
  <2>4. EnLigneNonPaye(c)
    BY <2>1, <2>3 DEF EnLigneNonPaye, EnLigne, Paye
  <2>5. PICK s \in Requetes : Inscrit(req[s], c)
    BY <1>1, <2>3, <2>4 DEF Debits
  <2> QED BY <1>1, <1>2, <2>5 DEF Inscrit
<1>3. CASE req[r].pc # "create"
  <2>1. Existe(c) /\ EnLigneNonPaye(c)
    <3>1. paiement'[c].methode = paiement[c].methode
      BY <1>0, <1>3, AvanceTables
    <3>2. EnLigne(c) /\ Existe(c)
      BY <1>0, <3>1 DEF EnLigneNonPaye, EnLigne, TablesFideles
    <3> QED BY <3>2, ArgentDure DEF ArgentDe, EnLigneNonPaye
  <2>2. CASE Captures(c) # {}
    <3>1. PICK s \in Requetes : Inscrit(req[s], c)
      BY <1>1, <2>1, <2>2 DEF Debits
    <3>2. CASE s = r
      <4>1. clic[r].quoi = "capturer" /\ clic[r].c = c
        BY <2>1, <3>1, <3>2, InscritCapture DEF Inscrit, EnLigneNonPaye
      <4>2. req'[r].pc = "notifier" /\ req'[r].success
        BY <1>0, <3>1, <3>2, AvanceSuivante DEF Suivante, Inscrit
      <4>3. Paye(c)'
        BY <4>1, <4>2, CapturePas DEF Abouti, Reussi
      <4> QED BY <4>3 DEF EnLigneNonPaye
    <3> QED BY <1>1, <3>1, <3>2
  <2>3. CASE Captures(c) = {}
    <3>1. req[r].pc = "capture"
      <4>1. ASSUME req[r].pc # "capture"
            PROVE  FALSE
        <5>1. paypal' = paypal
          BY <1>0, <4>1, AvanceTables
        <5> QED BY <2>3, <5>1 DEF Captures
      <4> QED BY <4>1
    <3>2. CaptureOrder(r) /\ RequeteFidele(req[r])
      BY <1>0, <3>1, AvanceParPc DEF Inductif
    <3>3. PICK o \in Ordres : paypal'[o].etat = "COMPLETED" /\ paypal'[o].commande = c
                              /\ ~(paypal[o].etat = "COMPLETED" /\ paypal[o].commande = c)
      BY <2>3 DEF Captures
    <3>4. paypal \in [Ordres -> PaypalT] /\ paypal[o] \in PaypalT
      BY <1>0 DEF TypeOK
    <3>5. /\ paypal' = [paypal EXCEPT ![o].etat = "COMPLETED"] /\ o = req[r].ordre
          /\ Etape(r, [pc |-> "statut", c |-> req[r].c, success |-> TRUE])
      BY <3>2, <3>3, <3>4 DEF CaptureOrder, PaypalT
    <3>6. c = req[r].c
      <4>1. paypal'[o].commande = paypal[o].commande
        BY <3>4, <3>5 DEF PaypalT
      <4> QED BY <3>1, <3>2, <3>3, <3>5, <4>1 DEF RequeteFidele
    <3>7. req'[r] = [pc |-> "statut", c |-> c, success |-> TRUE]
      BY <1>0, <3>5, <3>6 DEF Etape, TypeOK
    <3> QED BY <3>7 DEF Inscrit
  <2> QED BY <2>2, <2>3
<1> QED BY <1>2, <1>3

LEMMA DebitsSuivants ==
  ASSUME Inductif, Pages, Payes, Debits, [NextCaisse]_toutes
  PROVE  Debits'
<1>1. ASSUME Tranquille
      PROVE  Debits'
  <2> SUFFICES ASSUME pannes' = 0, NEW c \in Commandes, EnLigneNonPaye(c)', Captures(c)' # {}
               PROVE  \E s \in Requetes : Inscrit(req'[s], c)
    BY DEF Debits, Inscrit
  <2>1. pannes \in Nat
    BY DonneesAssumption DEF Inductif, TypeOK
  <2>2. /\ pannes = 0
        /\ \A s \in Requetes : req'[s] = req[s] \/ Libre(s)
    BY <1>1, <2>1 DEF Tranquille
  <2>3. EnLigneNonPaye(c) /\ Captures(c) # {}
    BY <1>1 DEF Tranquille, Calme, MemesCaptures, EnLigneNonPaye, EnLigne, Paye
  <2>4. PICK s \in Requetes : Inscrit(req[s], c)
    BY <2>2, <2>3 DEF Debits
  <2> QED BY <2>2, <2>4 DEF Inscrit, Libre
<1> QED BY <1>1, TranquilleSaufPas, DebitsPas

LEMMA DebitsVrai ==
  ASSUME ~Recharge
  PROVE  SpecCaisse => [](Inductif /\ Pages /\ Payes /\ Stocks /\ Debits)
<1>1. InitCaisse => Debits
  BY DEF InitCaisse, InitSuivi, Init, Debits, EnLigneNonPaye, EnLigne, NonPaiement
<1>2. Inductif /\ Pages /\ Payes /\ Debits /\ [NextCaisse]_toutes => Debits'
  BY DebitsSuivants
<1> QED BY <1>1, <1>2, StocksVrai, PTL DEF SpecCaisse

\* A refused payment was not taken: the capture that would have recorded it has
\* answered.
LEMMA RefusVrai ==
  ASSUME Inductif, Pages, Payes, Debits, NEW u \in Clients, NEW c, c = onglet[u].de,
         onglet[u].nom = "retour"
  PROVE  /\ onglet[u].montre = "succes" => Encaisse(c)
         /\ onglet[u].montre = "refus" =>
              commande[c].etat = "ANNULEE" /\ (pannes = 0 => Captures(c) = {})
<1>1. c \in Commandes /\ Existe(c) /\ EnLigne(c) /\ DeSien(u, c) /\ MontrePaye(onglet[u])
  BY PagesDe DEF PageFidele, DeSien, Payes
<1>2. onglet[u].montre = "succes" => Encaisse(c)
  BY <1>1 DEF MontrePaye, Inductif, TablesFideles
<1>3. ASSUME onglet[u].montre = "refus", pannes = 0, Captures(c) # {}
      PROVE  FALSE
  <2>1. EnLigneNonPaye(c)
    BY <1>1, <1>3 DEF MontrePaye, EnLigneNonPaye
  <2>2. PICK r \in Requetes : Inscrit(req[r], c)
    BY <1>1, <1>3, <2>1 DEF Debits
  <2>3. clic[r].quoi = "capturer" /\ clic[r].c = c
    BY <1>1, <2>2, InscritCapture DEF Inscrit
  <2>4. onglet[u].par = r
    BY <1>1, <2>3, CaptureAttendue DEF Payes, GestesPaiement
  <2> QED BY <1>3, <2>4, AttentesPages, SuiviAssumption
<1> QED BY <1>1, <1>2, <1>3 DEF MontrePaye

----------------------------------------------------------------------------
(* Its invoice too, while no two orders draw a number at a time.           *)

\* At most one order has a number that is drawn and not inserted yet.
UnTirage ==
  \A r, q \in Requetes :
    req[r].pc = "facture" /\ req[q].pc = "facture" => req[r].c = req[q].c

\* The number that is drawn is free, or the order has its invoice; the e-mail
\* leaves after the insert.
Tirages ==
  \A r \in Requetes :
    /\ req[r].pc = "facture" =>
         req[r].numero = Cardinality(Facturees) + 1 \/ req[r].c \in Facturees
    /\ req[r].pc = "sendInvoice" => req[r].c \in Facturees

\* The handler that will insert the invoice of c.
Facture(q, c) == q.c = c /\ (Reussi(q) \/ q.pc \in {"generate", "facture"})

\* While no request dies: a payment that was made has its invoice, or the
\* handler that goes on to it; a success that was answered has it.
Invoices ==
  pannes = 0 =>
    /\ \A c \in Commandes : EnLigne(c) /\ Paye(c) /\ c \notin Facturees =>
         \E r \in Requetes : Facture(req[r], c)
    /\ \A r \in Requetes : clic[r].quoi = "capturer" /\ clic[r].rep = "ok" =>
         clic[r].c \in Facturees
    /\ \A u \in Clients : onglet[u].nom = "retour" /\ onglet[u].montre = "succes" =>
         onglet[u].de \in Facturees

LEMMA FactureesDurent ==
  ASSUME Inductif, Pages, [NextCaisse]_toutes
  PROVE  Facturees \subseteq Facturees'
<1>1. ASSUME Tranquille
      PROVE  Facturees' = Facturees
  BY <1>1 DEF Tranquille, Facturees
<1>2. ASSUME NEW r \in Requetes, Pas(r)
      PROVE  Facturees \subseteq Facturees'
  <2>0. Avance(r) /\ TypeOK
    BY <1>2 DEF Pas, Inductif
  <2>1. CASE req[r].pc # "facture"
    BY <2>0, <2>1, AvanceTables DEF Facturees
  <2>2. CASE req[r].pc = "facture"
    <3>1. FactureCreate(r) /\ req[r] \in EtapeFacture
      BY <2>0, <2>2, AvanceParPc, EtapeSelonPc DEF TypeOK
    <3> QED BY <2>0, <3>1 DEF FactureCreate, EtapeFacture, Facturees, TypeOK
  <2> QED BY <2>1, <2>2
<1> QED BY <1>1, <1>2, TranquilleSaufPas

\* What the step of a handler does to the invoices.
LEMMA FacturesDe ==
  ASSUME Inductif, Tirages, NEW r \in Requetes, Avance(r)
  PROVE  \/ Facturees' = Facturees /\ (req[r].pc = "facture" => req[r].c \in Facturees)
         \/ req[r].pc = "facture" /\ Facturees' = Facturees \cup {req[r].c}
<1>0. TypeOK
  BY DEF Inductif
<1>1. CASE req[r].pc # "facture"
  BY <1>1, AvanceTables DEF Facturees
<1>2. CASE req[r].pc = "facture"
  <2>1. FactureCreate(r) /\ req[r] \in EtapeFacture
    BY <1>0, <1>2, AvanceParPc, EtapeSelonPc DEF TypeOK
  <2>2. PICK c, n : c = req[r].c /\ n = req[r].numero /\ c \in Commandes /\ n \in Nat \ {0}
    BY <2>1 DEF EtapeFacture
  <2>3. CASE Doublon(c, n) /\ facture' = facture
    <3>1. Facturees' = Facturees
      BY <2>3 DEF Facturees
    <3>2. c \in Facturees
      <4> SUFFICES ASSUME n = Cardinality(Facturees) + 1
                   PROVE  c \in Facturees
        BY <1>2, <2>2 DEF Tirages
      <4>1. n \notin 1 .. Cardinality(Facturees)
        BY CardinaliteFacturees
      <4>2. \A d \in Facturees : facture[d] # n
        BY <4>1 DEF Inductif, FacturesSequentielles
      <4>3. \A d \in Commandes : facture[d] # n
        BY <2>2, <4>2 DEF Facturees
      <4> QED BY <2>3, <4>3 DEF Doublon
    <3> QED BY <2>2, <3>1, <3>2
  <2>4. CASE facture' = [facture EXCEPT ![c] = n]
    <3>1. Facturees' = Facturees \cup {c}
      BY <1>0, <2>2, <2>4 DEF Facturees, TypeOK
    <3> QED BY <1>2, <2>2, <3>1
  <2> QED BY <2>1, <2>2, <2>3, <2>4 DEF FactureCreate
<1> QED BY <1>1, <1>2

LEMMA TiragesPas ==
  ASSUME Inductif, UnTirage, Tirages, NEW r \in Requetes, Avance(r)
  PROVE  Tirages'
<1>1. /\ \A s \in Requetes \ {r} : req'[s] = req[s]
      /\ Suivante(req[r], req'[r]) /\ req[r] \in Etapes
  BY AvanceSuivante DEF Inductif, TypeOK
<1>2. \/ Facturees' = Facturees /\ (req[r].pc = "facture" => req[r].c \in Facturees)
      \/ req[r].pc = "facture" /\ Facturees' = Facturees \cup {req[r].c}
  BY FacturesDe
<1>3. ASSUME NEW s \in Requetes \ {r}, req[s].pc = "facture"
      PROVE  req[s].numero = Cardinality(Facturees') + 1 \/ req[s].c \in Facturees'
  <2>1. CASE Facturees' = Facturees
    BY <1>3, <2>1 DEF Tirages
  <2>2. CASE req[r].pc = "facture" /\ Facturees' = Facturees \cup {req[r].c}
    BY <1>3, <2>2 DEF UnTirage
  <2> QED BY <1>2, <2>1, <2>2
<1>4. ASSUME NEW s \in Requetes \ {r}, req[s].pc = "sendInvoice"
      PROVE  req[s].c \in Facturees'
  BY <1>2, <1>4 DEF Tirages
<1>5. ASSUME req'[r].pc = "facture"
      PROVE  req'[r].numero = Cardinality(Facturees') + 1
  <2>1. req[r].pc = "generate" /\ req'[r].numero = ProchainNumero
    BY <1>1, <1>5 DEF Suivante, SuiteDe
  <2> QED BY <1>2, <2>1 DEF ProchainNumero
<1>6. ASSUME req'[r].pc = "sendInvoice"
      PROVE  req'[r].c \in Facturees'
  <2>1. /\ req'[r].c = req[r].c /\ req[r].pc \in {"generate", "facture"}
        /\ req[r].pc = "generate" => req[r].c \in Facturees
    BY <1>1, <1>6 DEF Suivante, SuiteDe
  <2> QED BY <1>2, <2>1
<1>7. ASSUME NEW s \in Requetes
      PROVE  /\ req'[s].pc = "facture" =>
                  req'[s].numero = Cardinality(Facturees') + 1 \/ req'[s].c \in Facturees'
             /\ req'[s].pc = "sendInvoice" => req'[s].c \in Facturees'
  BY <1>1, <1>3, <1>4, <1>5, <1>6
<1> QED BY <1>7 DEF Tirages

LEMMA TiragesSuivants ==
  ASSUME Inductif, Pages, UnTirage, Tirages, [NextCaisse]_toutes
  PROVE  Tirages'
<1>1. ASSUME Tranquille
      PROVE  Tirages'
  <2>1. Facturees' = Facturees
    BY <1>1 DEF Tranquille, Facturees
  <2>2. \A s \in Requetes : req'[s] = req[s] \/ req'[s].pc \notin {"facture", "sendInvoice"}
    BY <1>1 DEF Tranquille
  <2> QED BY <2>1, <2>2 DEF Tirages
<1> QED BY <1>1, TranquilleSaufPas, TiragesPas DEF Pas

\* The handler of a payment that was made goes on to the invoice.
LEMMA FactureSuivante ==
  ASSUME Inductif, Pages, Payes, Stocks, Tirages, [NextCaisse]_toutes,
         NEW r \in Requetes, Pas(r), NEW c \in Commandes, EnLigne(c), Facture(req[r], c),
         c \notin Facturees'
  PROVE  Facture(req'[r], c)
<1>0. Avance(r) /\ TypeOK /\ Suivante(req[r], req'[r]) /\ req[r].c = c /\ c \notin Facturees
  BY AvanceSuivante, FactureesDurent DEF Pas, Inductif, Facture
<1>1. /\ req[r].pc \in {"notifier", "confirmOnline", "consommer", "generate", "facture"}
      /\ req[r].pc = "notifier" => req[r].success
  BY DEF Facture, Reussi
<1>2. req[r].pc # "facture"
  BY <1>0, FacturesDe
<1>3. ASSUME req[r].pc = "consommer"
      PROVE  req'[r].pc # "libre"
  <2>1. clic[r].quoi = "capturer" /\ clic[r].c = c
    BY <1>0, <1>3, InscritCapture
  <2>2. req[r].vu = panier[commande[c].client]
    BY <1>3, <2>1 DEF Stocks, Stock
  <2>3. Consommation(r)
    BY <1>0, <1>3, AvanceParPc DEF ConfirmOnlinePaymentTransaction
  <2>4. Etape(r, [pc |-> "generate", c |-> c])
    BY <1>0, <2>2, <2>3 DEF Consommation
  <2> QED BY <1>0, <2>4 DEF Etape, TypeOK
<1>4. req'[r].pc \in {"confirmOnline", "consommer", "generate", "facture"}
  BY <1>0, <1>1, <1>2, <1>3 DEF Suivante, SuiteDe
<1>5. req'[r].c = c
  BY <1>0, <1>4 DEF Suivante
<1> QED BY <1>4, <1>5 DEF Facture, Reussi

LEMMA InvoicesPas ==
  ASSUME Inductif, Pages, Payes, Stocks, Tirages, Invoices, [NextCaisse]_toutes,
         NEW r \in Requetes, Pas(r), UNCHANGED onglet
  PROVE  Invoices'
<1>0. Avance(r) /\ TypeOK /\ TablesFideles /\ req[r].pc # "libre" /\ pannes' = pannes
  BY AvanceParPc, AvanceTables DEF Pas, Inductif
<1>1. Facturees \subseteq Facturees' /\ \A s \in Requetes \ {r} : req'[s] = req[s]
  BY <1>0, FactureesDurent, AvanceSuivante DEF TypeOK
<1>2. ASSUME pannes = 0, NEW c \in Commandes, EnLigne(c)', Paye(c)', c \notin Facturees'
      PROVE  \E s \in Requetes : Facture(req'[s], c)
  <2>1. Existe(c) /\ EnLigne(c)
    <3>1. CASE req[r].pc = "create"
      <4>1. PICK d \in Commandes : /\ ~Existe(d) /\ CreateTransaction(r)!2!(d)
                                   /\ \A b \in Commandes \ {d} : commande'[b] = commande[b]
                                        /\ paiement'[b] = paiement[b]
        BY <1>0, <3>1, AvanceParPc, CreateUne
      <4>2. paiement'[d].statut = "PENDING"
        BY <1>0, <4>1 DEF TypeOK
      <4>3. c # d
        BY <1>2, <4>2 DEF Paye
      <4> QED BY <1>0, <1>2, <4>1, <4>3 DEF EnLigne, TablesFideles
    <3>2. CASE req[r].pc # "create"
      <4>1. paiement'[c].methode = paiement[c].methode
        BY <1>0, <3>2, AvanceTables
      <4> QED BY <1>0, <1>2, <4>1 DEF EnLigne, TablesFideles
    <3> QED BY <3>1, <3>2
  <2>2. CASE ~Paye(c)
    <3>1. PICK s \in Requetes : clic[s].quoi = "capturer" /\ clic[s].c = c
                                /\ req[s].pc = "statut" /\ req'[s] # req[s]
      BY <1>2, <2>1, <2>2, ArgentDure DEF ArgentDe, EnLigneNonPaye
    <3>2. s = r
      BY <1>1, <3>1
    <3>3. req'[r].pc = "notifier" /\ req'[r].c = c
      <4>1. req[r].c = clic[r].c /\ Suivante(req[r], req'[r])
        BY <1>0, <3>1, <3>2, SlotEnCours, AvanceSuivante
      <4> QED BY <3>1, <3>2, <4>1 DEF Suivante
    <3>4. Abouti(req'[r])
      BY <1>2, <3>1, <3>2, <3>3, CapturePas
    <3> QED BY <3>3, <3>4 DEF Facture, Abouti
  <2>3. CASE Paye(c)
    <3>1. PICK s \in Requetes : Facture(req[s], c)
      BY <1>1, <1>2, <2>1, <2>3 DEF Invoices
    <3>2. CASE s = r
      BY <1>2, <2>1, <3>1, <3>2, FactureSuivante
    <3>3. CASE s # r
      BY <1>1, <3>1, <3>3
    <3> QED BY <3>2, <3>3
  <2> QED BY <2>2, <2>3
<1>3. ASSUME pannes = 0, NEW s \in Requetes, clic'[s].quoi = "capturer", clic'[s].rep = "ok"
      PROVE  clic'[s].c \in Facturees'
  <2>1. CASE clic'[s] = clic[s]
    BY <1>1, <1>3, <2>1 DEF Invoices
  <2>2. CASE clic'[s] # clic[s]
    <3>1. req[r].pc # "create"
      <4>1. ASSUME req[r].pc = "create"
            PROVE  FALSE
        <5>1. clic' = [clic EXCEPT ![r] = Clic("commander", Aucun, Creee, "ok")]
          BY <4>1, PasCreate
        <5>2. clic'[s] = Clic("commander", Aucun, Creee, "ok")
          BY <2>2, <5>1 DEF Pages, TypeCaisse
        <5> QED BY <1>3, <5>2 DEF Clic
      <4> QED BY <4>1
    <3>2. s = r /\ ReponseFaite(r)
      BY <2>2, <3>1, ReponsePas DEF ReponseFaite
    <3>3. PICK c : c = clic[r].c
      OBVIOUS
    <3>4. /\ clic[r].quoi = "capturer" /\ clic'[r].c = c
          /\ Issue(r) = "ok" /\ req'[r].pc = "libre"
      BY <1>3, <3>2, <3>3 DEF ReponseFaite
    <3>5. req[r].pc \notin {"facture", "consommer", "echec", "cancel"}
      BY <3>4, IssueDe
    <3>6. Suivante(req[r], req'[r]) /\ req[r].c = c /\ req[r].pc \in Attentes["capturer"]
      BY <1>0, <3>3, <3>4, AvanceSuivante, CapturePas
    <3>7. req[r].pc = "sendInvoice"
      BY <3>4, <3>5, <3>6 DEF Suivante, SuiteDe, Attentes, GestesClient
    <3> QED BY <1>1, <3>2, <3>4, <3>6, <3>7 DEF Tirages
  <2> QED BY <2>1, <2>2
<1>4. pannes = 0 => \A u \in Clients : onglet'[u].nom = "retour" /\ onglet'[u].montre = "succes" =>
        onglet'[u].de \in Facturees'
  BY <1>1 DEF Invoices
<1> QED BY <1>0, <1>2, <1>3, <1>4 DEF Invoices, Facture, Reussi

\* A step of no handler: the clicks that are answered and the pages that say it.
LEMMA InvoicesTenus ==
  ASSUME Inductif, Pages, Payes, Invoices, [NextCaisse]_toutes, Tranquille,
         pannes = 0 => \A s \in Requetes :
           \/ clic'[s] = clic[s] \/ clic'[s].quoi # "capturer" \/ clic'[s].rep # "ok"
           \/ clic'[s].c \in Facturees,
         pannes = 0 => \A u \in Clients :
           \/ onglet'[u] = onglet[u] \/ onglet'[u].nom # "retour" \/ onglet'[u].montre # "succes"
           \/ onglet'[u].de \in Facturees
  PROVE  Invoices'
<1>1. Facturees' = Facturees
  BY DEF Tranquille, Facturees
<1> SUFFICES ASSUME pannes' = 0
             PROVE  Invoices'
  BY DEF Invoices
<1>2. pannes \in Nat
  BY DonneesAssumption DEF Inductif, TypeOK
<1>3. pannes = 0 /\ \A s \in Requetes : req'[s] = req[s] \/ Libre(s)
  BY <1>2 DEF Tranquille
<1>4. ASSUME NEW c \in Commandes, EnLigne(c)', Paye(c)', c \notin Facturees
      PROVE  \E s \in Requetes : Facture(req'[s], c)
  <2>1. EnLigne(c) /\ Paye(c)
    BY <1>4 DEF Tranquille, Calme, EnLigne, Paye
  <2>2. PICK s \in Requetes : Facture(req[s], c)
    BY <1>3, <1>4, <2>1 DEF Invoices
  <2> QED BY <1>3, <2>2 DEF Facture, Reussi, Libre
<1>5. \A s \in Requetes : clic'[s].quoi = "capturer" /\ clic'[s].rep = "ok" =>
        clic'[s].c \in Facturees
  BY <1>3 DEF Invoices
<1>6. \A u \in Clients : onglet'[u].nom = "retour" /\ onglet'[u].montre = "succes" =>
        onglet'[u].de \in Facturees
  BY <1>3 DEF Invoices
<1> QED BY <1>1, <1>4, <1>5, <1>6 DEF Invoices, Facture, Reussi

\* A capture that is answered at once is one of an order that has its invoice:
\* the handler that goes on to it would be another capture of the order.
LEMMA DejaFacturee ==
  ASSUME Inductif, Pages, Payes, Invoices, pannes = 0, NEW u \in Clients, NEW c, DeSien(u, c),
         EnLigne(c), Paye(c), onglet[u].montre # "attente"
  PROVE  c \in Facturees
<1> SUFFICES ASSUME c \notin Facturees
             PROVE  FALSE
  OBVIOUS
<1>1. c \in Commandes
  BY DEF DeSien
<1>2. PICK s \in Requetes : Facture(req[s], c)
  BY <1>1 DEF Invoices
<1>3. clic[s].quoi = "capturer" /\ clic[s].c = c
  BY <1>1, <1>2, InscritCapture DEF Facture, Reussi
<1>4. onglet[u].par = s
  BY <1>3, CaptureAttendue DEF Payes, GestesPaiement
<1> QED BY <1>4, AttentesPages, SuiviAssumption

\* A tab that goes to a success was answered one.
LEMMA VaFacturee ==
  ASSUME Pages, Invoices, pannes = 0, NEW u \in Clients, NEW p, Va(u, p),
         p.nom = "retour", p.montre = "succes"
  PROVE  p.de \in Facturees
<1>1. PICK k : k = clic[onglet[u].par]
  OBVIOUS
<1>2. onglet[u].par # Aucun /\ k.quoi = "capturer" /\ k.c = p.de /\ k.rep = "ok"
  BY <1>1 DEF Va
<1>3. onglet[u].par \in Requetes
  BY <1>2, AttentesPages
<1> QED BY <1>1, <1>2, <1>3 DEF Invoices

LEMMA InvoicesSuivants ==
  ASSUME Inductif, Pages, Payes, Stocks, Tirages, Invoices, [NextCaisse]_toutes
  PROVE  Invoices'
<1>1. ASSUME NEW r \in Requetes, Pas(r), UNCHANGED onglet
      PROVE  Invoices'
  BY <1>1, InvoicesPas
<1>2. ASSUME Tranquille, UNCHANGED onglet,
             \A s \in Requetes : \/ clic'[s] = clic[s] \/ clic'[s].quoi # "capturer"
                                 \/ clic'[s].rep # "ok"
      PROVE  Invoices'
  BY <1>2, InvoicesTenus
<1>3. ASSUME Tranquille, NEW r \in Requetes, NEW u \in Clients, NEW quoi, NEW c, NEW rep,
             Demande(r, u, quoi, c, rep)
      PROVE  Invoices'
  <2>1. Lance(r, quoi, u, c, rep) /\ clic[r].rep # "attend"
    BY <1>3, RienChamps DEF Demande
  <2>2. /\ clic'[r] = Clic(quoi, u, c, rep)
        /\ \A s \in Requetes \ {r} : clic'[s] = clic[s]
    BY <2>1, SlotLance, ResteVrai
  <2>3. clic'[r].quoi = quoi /\ clic'[r].c = c /\ clic'[r].rep = rep
    BY <2>2 DEF Clic
  <2>4. ASSUME pannes = 0, quoi = "capturer", rep = "ok"
        PROVE  c \in Facturees
    <3>1. DeSien(u, c) /\ EnLigne(c) /\ Paye(c)
      BY <2>1, <2>4 DEF Lance, ClicFidele, GestesEquipe
    <3>2. onglet[u].montre # "attente"
      BY <1>3, <2>4 DEF Demande
    <3> QED BY <2>4, <3>1, <3>2, DejaFacturee
  <2>5. \A v \in Clients : onglet'[v] = onglet[v] \/ onglet'[v].montre # "succes"
    <3>1. onglet \in [Clients -> PageT] /\ onglet[u] \in PageT
      BY PagesDe
    <3>2. onglet' = [onglet EXCEPT ![u] = [onglet[u] EXCEPT !.montre = "attente", !.par = r]]
      BY <1>3 DEF Demande
    <3>3. onglet'[u].montre = "attente"
      BY <3>1, <3>2 DEF PageT
    <3> QED BY <3>1, <3>2, <3>3
  <2> QED BY <1>3, <2>2, <2>3, <2>4, <2>5, InvoicesTenus
<1>4. ASSUME Tranquille, NEW u \in Clients, NEW p, Va(u, p),
             \A s \in Requetes : clic'[s] = clic[s] \/ clic'[s] = Rien
      PROVE  Invoices'
  <2>1. onglet'[u] = p /\ \A v \in Clients \ {u} : onglet'[v] = onglet[v]
    BY <1>4, PagesDe DEF Va
  <2>2. pannes = 0 /\ p.nom = "retour" /\ p.montre = "succes" => p.de \in Facturees
    BY <1>4, VaFacturee
  <2> QED BY <1>4, <2>1, <2>2, RienChamps, InvoicesTenus
<1>5. ASSUME NEW r \in Requetes, clic' = [clic EXCEPT ![r] = Rien]
      PROVE  \A s \in Requetes : clic'[s] = clic[s] \/ clic'[s] = Rien
  BY <1>5 DEF Pages, TypeCaisse
<1>6. CASE Tranquille
  <2>1. CASE UNCHANGED toutes
    BY <1>2, <1>6, <2>1 DEF toutes, suivis
  <2>2. CASE NextCaisse
    <3>1. Genre
      BY <2>2, Genres
    <3>2. ASSUME NEW r \in Requetes, NEW quoi \in GestesEquipe, NEW u \in Equipe,
                 NEW c \in Commandes, NEW rep, EquipeClique(r, quoi, u, c, rep)
          PROVE  Invoices'
      <4>1. Lance(r, quoi, u, c, rep) /\ clic[r].rep # "attend" /\ UNCHANGED onglet
        BY <3>2, RienChamps DEF EquipeClique
      <4>2. /\ clic'[r] = Clic(quoi, u, c, rep)
            /\ \A s \in Requetes \ {r} : clic'[s] = clic[s]
        BY <4>1, SlotLance, ResteVrai
      <4>3. clic'[r].quoi # "capturer"
        BY <4>2 DEF Clic, GestesEquipe
      <4> QED BY <1>2, <1>6, <4>1, <4>2, <4>3
    <3>3. ASSUME NEW r \in Requetes, RetourEquipe(r) \/ Mourir(r) \/ Perdre(r) \/ Emettre(r),
                 UNCHANGED onglet
          PROVE  Invoices'
      <4>0. clic \in [Requetes -> GesteT] /\ clic[r] \in GesteT
        BY DEF Pages, TypeCaisse
      <4>1. CASE RetourEquipe(r)
        <5>1. \A s \in Requetes : clic'[s] = clic[s] \/ clic'[s] = Rien
          BY <1>5, <4>1 DEF RetourEquipe
        <5> QED BY <1>2, <1>6, <3>3, <5>1, RienChamps
      <4>2. CASE Mourir(r) \/ Perdre(r)
        <5>1. clic' = [clic EXCEPT ![r].rep = "erreur"]
          BY <4>2 DEF Mourir, Perdre
        <5>2. \A s \in Requetes : clic'[s] = clic[s] \/ clic'[s].rep # "ok"
          BY <4>0, <5>1 DEF GesteT
        <5> QED BY <1>2, <1>6, <3>3, <5>2
      <4>3. CASE Emettre(r)
        <5>1. clic' = [clic EXCEPT ![r].rep = "ok"] /\ clic[r].quoi = "statut"
          BY <4>3 DEF Emettre, Pages, SlotsSuivis, Slot
        <5>2. \A s \in Requetes : clic'[s] = clic[s] \/ clic'[s].quoi # "capturer"
          BY <4>0, <5>1 DEF GesteT
        <5> QED BY <1>2, <1>6, <3>3, <5>2
      <4> QED BY <3>3, <4>1, <4>2, <4>3
    <3>4. ASSUME NEW u, Rafraichir(u) \/ Charger(u), UNCHANGED onglet
          PROVE  Invoices'
      BY <1>2, <1>6, <3>4 DEF Rafraichir, Charger
    <3>5. ASSUME NEW c, ClientSuit(c), UNCHANGED onglet
          PROVE  Invoices'
      BY <1>2, <1>6, <3>5 DEF ClientSuit, OuvrirSuivi, Joindre, Couper
    <3>6. ASSUME NEW r \in Requetes, NEW u \in Clients, NEW p \in PageT, Recoit(r, u, p)
          PROVE  Invoices'
      BY <1>4, <1>5, <1>6, <3>6 DEF Recoit, Rend
    <3>7. ASSUME NEW r \in Requetes, Orphelin(r)
          PROVE  Invoices'
      <4>1. \A s \in Requetes : clic'[s] = clic[s] \/ clic'[s] = Rien
        BY <1>5, <3>7 DEF Orphelin, Rend
      <4> QED BY <1>2, <1>6, <3>7, <4>1, RienChamps DEF Orphelin
    <3>8. ASSUME NEW u \in Clients, NEW p \in PageT, Navigation(u, p)
          PROVE  Invoices'
      BY <1>4, <1>6, <3>8 DEF Navigation
    <3> HIDE DEF Invoices
    <3> QED BY <1>1, <1>3, <1>6, <3>1, <3>2, <3>3, <3>4, <3>5, <3>6, <3>7, <3>8 DEF Genre
  <2> QED BY <2>1, <2>2
<1> QED BY <1>1, <1>6, TranquilleSaufPas

LEMMA InvoicesInit ==
  ASSUME InitCaisse
  PROVE  Tirages /\ Invoices
<1>1. /\ \A r \in Requetes : req[r].pc = "libre" /\ clic[r] = Rien
      /\ \A c \in Commandes : ~EnLigne(c)
      /\ \A u \in Clients : onglet[u].nom = "caisse"
  BY DEF InitCaisse, InitSuivi, Init, NonPaiement, Panier, Page, EnLigne
<1> QED BY <1>1, RienChamps DEF Tirages, Invoices

\* What PayPal's pages lead to tells the truth, whatever runs beside it: the
\* return page of a success was paid and has its invoice, that of a refusal was
\* not paid, and a cancelled order's articles are in the cart.  Two hypotheses
\* that the pages cannot do without: no reload of a return page that waits, and
\* no two orders that draw an invoice number at a time (paiement/retour/page.tsx:40,
\* paiement/annule/page.tsx:69, invoices.service.ts:37).
THEOREM PagesVraiesVrai ==
  ASSUME ~Recharge
  PROVE  SpecCaisse /\ []UnTirage => []PagesVraies
<1>1. InitCaisse => Tirages /\ Invoices
  BY InvoicesInit
<1>2. (Inductif /\ Pages /\ Payes /\ Stocks /\ UnTirage) /\ (Tirages /\ Invoices)
        /\ [NextCaisse]_toutes => (Tirages /\ Invoices)'
  BY TiragesSuivants, InvoicesSuivants
<1>3. Inductif /\ Pages /\ Payes /\ Debits /\ Invoices => RetourVrai
  <2> SUFFICES ASSUME Inductif, Pages, Payes, Debits, Invoices, NEW u \in Clients, NEW c,
                      c = onglet[u].de, onglet[u].nom = "retour"
               PROVE  /\ onglet[u].montre = "succes" =>
                           Encaisse(c) /\ (pannes = 0 => facture[c] # 0)
                      /\ onglet[u].montre = "refus" =>
                           commande[c].etat = "ANNULEE" /\ (pannes = 0 => Captures(c) = {})
    BY DEF RetourVrai
  <2> QED BY RefusVrai DEF Invoices, Facturees
<1>4. RetourVrai /\ AnnuleVrai => PagesVraies
  BY DEF PagesVraies
<1> QED BY <1>1, <1>2, <1>3, <1>4, DebitsVrai, AnnuleVraie, PTL DEF SpecCaisse
=============================================================================
