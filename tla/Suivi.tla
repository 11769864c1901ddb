------------------------------- MODULE Suivi --------------------------------
(***************************************************************************)
(* The pages on which an order is followed, over the services of Boutique: *)
(*   admin     frontend components/admin/orders-admin.tsx                  *)
(*   driver    components/livreur/livreur-dashboard.tsx with               *)
(*             delivery-status-form.tsx                                    *)
(*   both      components/payment-confirm-button.tsx                       *)
(*   client    components/order-tracker.tsx, fed by                        *)
(*             backend/src/realtime/tracking.gateway.ts                    *)
(* A page shows the orders as they were when it was loaded or refreshed.   *)
(* Its buttons are drawn from that copy; the services decide on the tables.*)
(***************************************************************************)
EXTENDS Boutique, TLC

CONSTANT MaxClics   \* bound: clicks of the staff, for each payment method

\* What a page gets of an order.
Vue == [etat : Etats, livreur : Livreurs \cup {Aucun},
        methode : {"EN_LIGNE", "A_LA_LIVRAISON"}, statut : Statuts,
        facture : BOOLEAN]

ASSUME SuiviAssumption ==
  /\ MaxClics \in [{"EN_LIGNE", "A_LA_LIVRAISON"} -> Nat]
  /\ Aucun \notin Commandes \cup Requetes \cup Admins \cup Vue

VARIABLES
  vu,          \* of each admin and driver, the orders their page shows
  occupe,      \* orders whose status or driver is being changed (busyId, loading)
  encaisse,    \* orders whose cash is being confirmed (loading)
  rafraichit,  \* whether router.refresh was called and has not come back
  erreur,      \* errors the page shows
  clic,        \* of each slot: the click its request comes from, and its answer
  emission,    \* of each slot: the order updateStatus wrote and not emitted yet
  suivi,       \* the client's page of each order
  clics,
  aVoir        \* of each page, the orders it has to show again: it asked to change
               \* their status or confirm their cash, or a request of it changed
               \* them, and it did not read them since

suivis == <<vu, occupe, encaisse, rafraichit, erreur, clic, emission, suivi,
            clics, aVoir>>

Equipe == Admins \cup Livreurs

\* ORDER_INCLUDE.
VueDe(c) == [etat |-> commande[c].etat, livreur |-> commande[c].livreur,
             methode |-> paiement[c].methode, statut |-> paiement[c].statut,
             facture |-> facture[c] # 0]

\* findAll for an admin, findMine for a driver.
Lister(u) ==
  [c \in Commandes |->
     IF Existe(c) /\ AdminOuLivreurAssigne(u, c) THEN VueDe(c) ELSE Aucun]

\* What was clicked, by whom in the staff, on which order, and the answer.
Geste(quoi, u, c) == [quoi |-> quoi, u |-> u, c |-> c, rep |-> "attend"]
Rien == [quoi |-> "rien", u |-> Aucun, c |-> Aucun, rep |-> ""]
PasOuverte == [page |-> "fermee"]

InitSuivi ==
  /\ Init
  /\ vu = [u \in Equipe |-> Lister(u)]
  /\ occupe = [u \in Equipe |-> {}]
  /\ encaisse = [u \in Equipe |-> {}]
  /\ rafraichit = [u \in Equipe |-> FALSE]
  /\ erreur = [u \in Equipe |-> {}]
  /\ clic = [r \in Requetes |-> Rien]
  /\ emission = [r \in Requetes |-> Aucun]
  /\ suivi = [c \in Commandes |-> PasOuverte]
  /\ clics = 0
  /\ aVoir = [u \in Equipe |-> {}]

----------------------------------------------------------------------------
(* The buttons.                                                            *)

Finale(v) == v.etat \in {"LIVREE", "ANNULEE"}
NonPayeeEnLigne(v) == v.methode = "EN_LIGNE" /\ v.statut # "SUCCESS"
CashNonConfirme(v, e) ==
  e = "LIVREE" /\ v.methode = "A_LA_LIVRAISON" /\ v.statut # "SUCCESS"

\* Mutant: the admin's buttons do not look at the online payment.
BoutonsAdminSansPaiement(u, c) ==
  IF Finale(vu[u][c]) \/ c \in occupe[u] THEN {}
  ELSE {e \in Etats : ~CashNonConfirme(vu[u][c], e)}

\* OrdersAdmin: the states whose button is there and enabled.  The card of an
\* unpaid online order is there too, once its toggle was clicked.
BoutonsAdmin(u, c) ==
  IF Finale(vu[u][c]) \/ c \in occupe[u] THEN {}
  ELSE {e \in Etats : /\ ~CashNonConfirme(vu[u][c], e)
                      /\ NonPayeeEnLigne(vu[u][c]) => e = "ANNULEE"}

\* OrdersAdmin: the list of drivers is enabled.
ListeLivreurs(u, c) ==
  ~Finale(vu[u][c]) /\ c \notin occupe[u] /\ ~NonPayeeEnLigne(vu[u][c])

\* OrdersAdmin: the invoice can be downloaded or printed.
BoutonFacture(u, c) == vu[u][c].facture

EtatSuivant == [EN_ATTENTE |-> {"EN_LIVRAISON"}, EN_LIVRAISON |-> {"LIVREE"},
                LIVREE |-> {}, ANNULEE |-> {}]

\* DeliveryStatusForm: the next state, none while the cash is not confirmed.
BoutonLivreur(u, c) ==
  IF c \in occupe[u] THEN {}
  ELSE {e \in EtatSuivant[vu[u][c].etat] : ~CashNonConfirme(vu[u][c], e)}

\* LivreurDashboard: the cards, "all" of them or those of the state chosen
\* above the list.
CartesLivreur(u, filtre) ==
  {c \in Commandes : vu[u][c] # Aucun /\ filtre \in {"all", vu[u][c].etat}}

\* The buttons of u on order c, whichever page u has.
Boutons(u, c) ==
  IF vu[u][c] = Aucun THEN {}
  ELSE IF u \in Admins THEN BoutonsAdmin(u, c)
  ELSE IF c \in CartesLivreur(u, "all") THEN BoutonLivreur(u, c) ELSE {}

\* PaymentConfirmButton, on both pages, for a cancelled order too.
BoutonCash(u, c) ==
  /\ vu[u][c] # Aucun
  /\ vu[u][c].methode = "A_LA_LIVRAISON" /\ vu[u][c].statut # "SUCCESS"
  /\ c \notin encaisse[u]

----------------------------------------------------------------------------
(* Clicks.                                                                 *)

\* A request d leaves for slot r.  The service runs it (Lecture), answers at
\* once (deja), or refuses it.
Envoyer(r, d, accepte, deja, Lecture) ==
  /\ Libre(r)
  /\ \/ /\ accepte /\ ~deja
        /\ Lecture
        /\ clic' = [clic EXCEPT ![r] = d]
     \/ /\ ~accepte \/ deja
        /\ clic' = [clic EXCEPT ![r] =
             [d EXCEPT !.rep = IF accepte THEN "ok" ELSE "erreur"]]
        /\ UNCHANGED vars
  /\ UNCHANGED <<emission, suivi>>

\* A click of u on order c.
Cliquer(r, u, c, quoi, accepte, deja, Lecture) ==
  /\ clic[r] = Rien
  /\ clics < MaxClics[paiement[c].methode]
  /\ clics' = clics + 1
  /\ Envoyer(r, Geste(quoi, u, c), accepte, deja, Lecture)
  /\ aVoir' = IF quoi = "assigner" THEN aVoir ELSE [aVoir EXCEPT ![u] = @ \cup {c}]
  /\ UNCHANGED <<vu, rafraichit>>

\* updateStatus of OrdersAdmin, and advance of DeliveryStatusForm.
CliquerStatut(r, u, c, e) ==
  /\ e \in Boutons(u, c)
  /\ occupe' = [occupe EXCEPT ![u] =
       IF u \in Admins THEN {c} ELSE @ \cup {c}]
  /\ erreur' = [erreur EXCEPT ![u] = @ \ {"statut"}]
  /\ Cliquer(r, u, c, "statut", Progression(u, c, e), FALSE,
             UpdateStatus(r, u, c, e))
  /\ UNCHANGED encaisse

\* assign of OrdersAdmin.
CliquerLivreur(r, u, c, l) ==
  /\ u \in Admins /\ vu[u][c] # Aucun /\ ListeLivreurs(u, c)
  /\ occupe' = [occupe EXCEPT ![u] = {c}]
  /\ Cliquer(r, u, c, "assigner", ~EnLigneNonPaye(c), FALSE,
             AssignLivreur(r, c, l))
  /\ UNCHANGED <<encaisse, erreur>>

\* confirm of PaymentConfirmButton.
CliquerCash(r, u, c) ==
  /\ BoutonCash(u, c)
  /\ encaisse' = [encaisse EXCEPT ![u] = @ \cup {c}]
  /\ erreur' = [erreur EXCEPT ![u] = @ \ {"cash"}]
  /\ Cliquer(r, u, c, "cash", ALaLivraison(c) /\ AdminOuLivreurAssigne(u, c),
             Paye(c), ConfirmCashPayment(r, u, c))
  /\ UNCHANGED occupe

\* Mutant: the error is not caught, as in assign.
RetourStatutSansErreur(r) ==
  LET u == clic[r].u  c == clic[r].c IN
  /\ clic[r].quoi = "statut"
  /\ occupe' = [occupe EXCEPT ![u] = IF u \in Admins THEN {} ELSE @ \ {c}]
  /\ rafraichit' = [rafraichit EXCEPT ![u] = @ \/ clic[r].rep = "ok"]
  /\ UNCHANGED <<encaisse, erreur>>

\* The answer to a change of status: a refresh, or an error; then the button.
RetourStatut(r) ==
  LET u == clic[r].u  c == clic[r].c IN
  /\ clic[r].quoi = "statut"
  /\ occupe' = [occupe EXCEPT ![u] = IF u \in Admins THEN {} ELSE @ \ {c}]
  /\ IF clic[r].rep = "ok"
       THEN /\ rafraichit' = [rafraichit EXCEPT ![u] = TRUE]
            /\ UNCHANGED erreur
       ELSE /\ erreur' = [erreur EXCEPT ![u] = @ \cup {"statut"}]
            /\ UNCHANGED rafraichit
  /\ UNCHANGED encaisse

\* The answer to an assignment: an error is not shown.
RetourLivreur(r) ==
  LET u == clic[r].u IN
  /\ clic[r].quoi = "assigner"
  /\ occupe' = [occupe EXCEPT ![u] = {}]
  /\ rafraichit' = [rafraichit EXCEPT ![u] = @ \/ clic[r].rep = "ok"]
  /\ UNCHANGED <<encaisse, erreur>>

\* The answer to a confirmation of cash.
RetourCash(r) ==
  LET u == clic[r].u  c == clic[r].c IN
  /\ clic[r].quoi = "cash"
  /\ encaisse' = [encaisse EXCEPT ![u] = @ \ {c}]
  /\ IF clic[r].rep = "ok"
       THEN /\ rafraichit' = [rafraichit EXCEPT ![u] = TRUE]
            /\ UNCHANGED erreur
       ELSE /\ erreur' = [erreur EXCEPT ![u] = @ \cup {"cash"}]
            /\ UNCHANGED rafraichit
  /\ UNCHANGED occupe

Repondue(r) == clic[r] # Rien /\ clic[r].rep # "attend"

RetourEquipe(r) ==
  /\ Repondue(r)
  /\ RetourStatut(r) \/ RetourLivreur(r) \/ RetourCash(r)
  /\ clic' = [clic EXCEPT ![r] = Rien]
  /\ UNCHANGED <<vars, vu, emission, suivi, clics, aVoir>>

\* router.refresh comes back: the page of the server component, with the
\* orders as they are now.
Rafraichir(u) ==
  /\ rafraichit[u]
  /\ vu' = [vu EXCEPT ![u] = Lister(u)]
  /\ rafraichit' = [rafraichit EXCEPT ![u] = FALSE]
  /\ aVoir' = [aVoir EXCEPT ![u] = {}]
  /\ UNCHANGED <<vars, occupe, encaisse, erreur, clic, emission, suivi, clics>>

\* Every request of the page of u was answered.
AttendRien(u) == \A r \in Requetes : clic[r].u # u

\* u loads the page.  Nobody does while a request of the page is running.
Charger(u) ==
  /\ AttendRien(u)
  /\ vu' = [vu EXCEPT ![u] = Lister(u)]
  /\ rafraichit' = [rafraichit EXCEPT ![u] = FALSE]
  /\ erreur' = [erreur EXCEPT ![u] = {}]
  /\ aVoir' = [aVoir EXCEPT ![u] = {}]
  /\ UNCHANGED <<vars, occupe, encaisse, clic, emission, suivi, clics>>

----------------------------------------------------------------------------
(* The services go on, and the gateway.                                    *)

\* How the request of slot r ends when its handler returns or throws there: a
\* capture that cancelled the order answers with a payment in FAILED.
Issue(r) ==
  IF req[r].pc \in {"facture", "consommer", "echec"} THEN "erreur"
  ELSE IF req[r].pc = "cancel" /\ clic[r].quoi = "capturer" THEN "refus"
  ELSE "ok"

\* Mutant: the order read before the update is emitted.
AEmettreAvant(c) == VueDe(c)

\* The order that updateStatus emits: the one the update returned.
AEmettre(c) == VueDe(c)'

\* The order that a create has just inserted.
Creee == CHOOSE c \in Commandes : ~Existe(c) /\ Existe(c)'

\* A step of a running handler.  What it changes without an event, and events
\* that may overtake one another, leave the client's page behind.
Pas(r) ==
  /\ Avance(r)
  /\ \E c \in {IF req[r].pc = "create" THEN Aucun ELSE req[r].c} :
       LET change == c # Aucun /\ VueDe(c)' # VueDe(c)
           statut == req[r].pc = "updateStatus"
       IN
       /\ emission' = IF statut THEN [emission EXCEPT ![r] = AEmettre(c)]
                                ELSE emission
       /\ clic' = IF Libre(r)' /\ ~statut
                    THEN [clic EXCEPT ![r].rep = Issue(r),
                                      ![r].c = IF c = Aucun THEN Creee ELSE @]
                    ELSE clic
       /\ aVoir' = IF change /\ clic[r].u # Aucun
                     THEN [aVoir EXCEPT ![clic[r].u] = @ \cup {c}] ELSE aVoir
       /\ suivi' = IF \/ statut /\ \E q \in Requetes : emission[q] # Aucun
                      \/ change /\ commande'[c].etat = "ANNULEE" /\ ~statut
                     THEN [d \in Commandes |-> IF suivi[d] = PasOuverte
                            THEN PasOuverte ELSE [suivi[d] EXCEPT !.intact = FALSE]]
                     ELSE suivi
  /\ UNCHANGED <<vu, occupe, encaisse, rafraichit, erreur, clics>>

Mourir(r) ==
  /\ Panne(r)
  /\ clic' = [clic EXCEPT ![r].rep = "erreur"]
  /\ UNCHANGED <<vu, occupe, encaisse, rafraichit, erreur, emission, suivi,
                 clics, aVoir>>

\* The service answered, and the answer is lost: for the page the request failed.
\* Nobody owes the page what an assignment changed, whose error is not shown.
Perdre(r) ==
  /\ MaxPannes > 0
  /\ clic[r].rep \in {"ok", "refus"}
  /\ clic' = [clic EXCEPT ![r].rep = "erreur"]
  /\ aVoir' = IF clic[r].quoi = "assigner"
                THEN [aVoir EXCEPT ![clic[r].u] = @ \ {clic[r].c}] ELSE aVoir
  /\ UNCHANGED <<vars, vu, occupe, encaisse, rafraichit, erreur, emission, suivi,
                 clics>>

\* notifyOrderUpdate: to the room of the owner.  The socket of a page that is
\* not in the room yet, or is being replaced, gets nothing.
NotifyOrderUpdate(c, v) ==
  suivi' = IF suivi[c] = PasOuverte THEN suivi
           ELSE IF suivi[c].jointe THEN [suivi EXCEPT ![c].vu = v]
           ELSE [suivi EXCEPT ![c].intact = FALSE]

Emettre(r) ==
  /\ emission[r] # Aucun
  /\ NotifyOrderUpdate(clic[r].c, emission[r])
  /\ emission' = [emission EXCEPT ![r] = Aucun]
  /\ clic' = [clic EXCEPT ![r].rep = "ok"]
  /\ UNCHANGED <<vars, vu, occupe, encaisse, rafraichit, erreur, clics, aVoir>>

\* The client loads the page of an order (findOne).
OuvrirSuivi(c) ==
  /\ Existe(c) /\ suivi[c] = PasOuverte
  /\ suivi' = [suivi EXCEPT ![c] =
       [page |-> "ouverte", jointe |-> FALSE, vu |-> VueDe(c),
        intact |-> \A r \in Requetes : emission[r] = Aucun]]
  /\ UNCHANGED <<vars, vu, occupe, encaisse, rafraichit, erreur, clic,
                 emission, clics, aVoir>>

\* handleConnection ends: the socket is in the room of the client.
Joindre(c) ==
  /\ suivi[c] # PasOuverte /\ ~suivi[c].jointe
  /\ suivi' = [suivi EXCEPT ![c].jointe = TRUE]
  /\ UNCHANGED <<vars, vu, occupe, encaisse, rafraichit, erreur, clic,
                 emission, clics, aVoir>>

\* The session has a new token: the effect closes the socket and opens one; or
\* the client leaves the page.
Couper(c) ==
  /\ suivi[c] # PasOuverte /\ suivi[c].jointe
  /\ \/ suivi' = [suivi EXCEPT ![c].jointe = FALSE]
     \/ suivi' = [suivi EXCEPT ![c] = PasOuverte]
  /\ UNCHANGED <<vars, vu, occupe, encaisse, rafraichit, erreur, clic,
                 emission, clics, aVoir>>

\* What the client's page shows of the progress: the steps done, the one that
\* runs, or that the order is cancelled.
OrderStepper(etat) ==
  LET rang == [EN_ATTENTE |-> 1, EN_LIVRAISON |-> 2, LIVREE |-> 3, ANNULEE |-> 0]
  IN  [annulee |-> etat = "ANNULEE", faites |-> 1 .. (rang[etat] - 1),
       active |-> rang[etat]]

----------------------------------------------------------------------------
EquipeNext(r) ==
  \/ \E u \in Equipe, c \in Commandes :
       \/ \E e \in Etats : CliquerStatut(r, u, c, e)
       \/ \E l \in Livreurs : CliquerLivreur(r, u, c, l)
       \/ CliquerCash(r, u, c)
  \/ RetourEquipe(r)

ClientSuit(c) == OuvrirSuivi(c) \/ Joindre(c) \/ Couper(c)

----------------------------------------------------------------------------
TypeSuivi ==
  /\ TypeOK
  /\ vu \in [Equipe -> [Commandes -> Vue \cup {Aucun}]]
  /\ occupe \in [Equipe -> SUBSET Commandes]
  /\ encaisse \in [Equipe -> SUBSET Commandes]
  /\ rafraichit \in [Equipe -> BOOLEAN]
  /\ erreur \in [Equipe -> SUBSET {"statut", "cash"}]
  /\ emission \in [Requetes -> Vue \cup {Aucun}]
  /\ suivi \in [Commandes -> {PasOuverte} \cup
       [page : {"ouverte"}, jointe : BOOLEAN, vu : Vue, intact : BOOLEAN]]
  /\ clics \in 0 .. MaxClics["EN_LIGNE"] + MaxClics["A_LA_LIVRAISON"]
  /\ aVoir \in [Equipe -> SUBSET Commandes]

\* No enabled button of a page that is up to date is refused by the service:
\* the three pages draw the guards of updateStatus, assignLivreur and
\* confirmCashPayment (orders-admin.tsx:138, delivery-status-form.tsx:38).
BoutonAccepte ==
  \A u \in Equipe, c \in Commandes :
    vu[u][c] # Aucun /\ vu[u][c] = VueDe(c) =>
      /\ \A e \in Boutons(u, c) : Progression(u, c, e)
      /\ u \in Admins /\ ListeLivreurs(u, c) => ~EnLigneNonPaye(c)
      /\ BoutonCash(u, c) => ALaLivraison(c) /\ AdminOuLivreurAssigne(u, c)
      /\ u \in Admins /\ BoutonFacture(u, c) => c \in Facturees

\* A page whose requests were all answered shows an error, or has read again, since
\* it was clicked, every order of which it asked to change the status or confirm
\* the cash: accepted, refused, dead half way, or its answer lost; and every order
\* it changed otherwise (router.refresh, catch and finally: orders-admin.tsx:88-98,
\* delivery-status-form.tsx:46-55, payment-confirm-button.tsx:33-41).  A click that
\* assigns a driver promises this only when it is answered: the page shows neither
\* its refusal nor its failure (orders-admin.tsx:66, README, "Findings").
SesGestesVus ==
  \A u \in Equipe :
    AttendRien(u) /\ ~rafraichit[u] =>
      aVoir[u] = {} \/ erreur[u] # {}

\* The client's page shows how far its order is, as long as no event was sent
\* while its socket was closed, no two events were on their way, and the order
\* was not cancelled by another route than updateStatus (order-tracker.tsx:18).
SuiviFidele ==
  \A c \in Commandes :
    suivi[c] # PasOuverte =>
      \/ ~suivi[c].intact
      \/ \E r \in Requetes : emission[r] # Aucun
      \/ OrderStepper(suivi[c].vu.etat) = OrderStepper(commande[c].etat)
=============================================================================
