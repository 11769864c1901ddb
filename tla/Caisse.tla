------------------------------- MODULE Caisse -------------------------------
(***************************************************************************)
(* The pages on which a client orders and pays, beside those of Suivi:     *)
(*   caisse  frontend components/checkout-form.tsx                         *)
(*   retour  frontend app/paiement/retour/page.tsx                         *)
(*   annule  frontend app/paiement/annule/page.tsx                         *)
(* PayPal's pages lead to the last two.  A client has one tab, which the   *)
(* history of the browser can bring back to a page of PayPal, and leaves a *)
(* page of ours only when its request was answered.                        *)
(***************************************************************************)
EXTENDS Suivi

CONSTANT Recharge   \* whether the return page is reloaded while it waits

VARIABLE onglet     \* of each client: the page, its order (or PayPal order),
                    \* what it shows and the slot of the request it waits for

toutes == <<vars, suivis, onglet>>

Page(nom, de, montre, par) ==
  [nom |-> nom, de |-> de, montre |-> montre, par |-> par]
Panier == Page("caisse", Aucun, "prete", Aucun)

InitCaisse == InitSuivi /\ onglet = [u \in Clients |-> Panier]

Montrer(u, page) ==
  /\ onglet' = [onglet EXCEPT ![u] = page]
  /\ UNCHANGED <<vu, occupe, encaisse, rafraichit, erreur, clics>>

\* A page of u sends request quoi about order c, and waits.
Demander(r, u, quoi, c, accepte, deja, Lecture) ==
  /\ Envoyer(r, Geste(quoi, Aucun, c), accepte, deja, Lecture)
  /\ UNCHANGED aVoir
  /\ Montrer(u, [onglet[u] EXCEPT !.montre = "attente", !.par = r])

\* The page of u gets its answer, and shows page.
Recevoir(r, u, page) ==
  /\ clic' = [clic EXCEPT ![r] = Rien]
  /\ Montrer(u, page)
  /\ UNCHANGED <<vars, emission, suivi, aVoir>>

\* The answer page nom of u waits for is there, the one of request quoi.
Attendue(r, u, nom, quoi) ==
  /\ onglet[u].nom = nom /\ onglet[u].par = r
  /\ Repondue(r) /\ clic[r].quoi = quoi

Prete(u, nom) == onglet[u].nom = nom /\ onglet[u].montre = "prete"

----------------------------------------------------------------------------
(* checkout-form.tsx: handleSubmit                                         *)

Commander(r, u, m, a) ==
  /\ clic[r] = Rien /\ Prete(u, "caisse") /\ IdDisponible
  /\ Demander(r, u, "commander", Aucun,
              /\ u \in Verifies
              /\ Presents(panier[u]) # {} /\ StockSuffisant(panier[u]),
              FALSE, Create(r, u, m, a))

\* For cash, the answer leads to the page of the order; an error is shown.
Commandee(r, u) ==
  LET c == clic[r].c IN
  /\ Attendue(r, u, "caisse", "commander")
  /\ \/ clic[r].rep # "ok" /\ Recevoir(r, u, Panier)
     \/ /\ clic[r].rep = "ok" /\ ~EnLigne(c)
        /\ Recevoir(r, u, Page("suivi", c, "prete", Aucun))

\* For PayPal, the handler goes on with initiate.
CommandeePuisInitier(r, u, o) ==
  LET c == clic[r].c IN
  /\ Attendue(r, u, "caisse", "commander")
  /\ clic[r].rep = "ok" /\ EnLigne(c)
  /\ Demander(r, u, "initier", c, EnLigneNonPaye(c), FALSE,
              InitiateOnlinePayment(r, c, o))

\* The answer to initiate leads to PayPal.  The form is enabled again while the
\* browser leaves it; IdDisponible bounds what a second submit would do.
VersPaypal(r, u) ==
  /\ Attendue(r, u, "caisse", "initier")
  /\ Recevoir(r, u, IF clic[r].rep = "ok"
       THEN Page("paypal", paiement[clic[r].c].transaction, "prete", Aucun)
       ELSE Panier)

----------------------------------------------------------------------------
(* PayPal's pages.                                                         *)

\* The client approves, and PayPal leads to return_url; or cancels, and PayPal
\* leads to cancel_url.
Approuver(u) ==
  /\ Prete(u, "paypal")
  /\ ClientApprouve(onglet[u].de)
  /\ Montrer(u, Page("retour", paypal[onglet[u].de].commande, "prete", Aucun))
  /\ UNCHANGED <<clic, emission, suivi, aVoir>>

Renoncer(u) ==
  /\ Prete(u, "paypal")
  /\ paypal[onglet[u].de].etat = "CREATED"
  /\ Montrer(u, Page("annule", paypal[onglet[u].de].commande, "prete", Aucun))
  /\ UNCHANGED <<vars, clic, emission, suivi, aVoir>>

\* Back to a page of PayPal of the same order.
Reculer(u, o) ==
  /\ onglet[u].nom \in {"retour", "annule"} /\ onglet[u].par = Aucun
  /\ paypal[o].etat # "AUCUN" /\ paypal[o].commande = onglet[u].de
  /\ \A r \in Requetes : req[r].pc = "initiate" => req[r].ordre # o
  /\ Montrer(u, Page("paypal", o, "prete", Aucun))
  /\ UNCHANGED <<vars, clic, emission, suivi, aVoir>>

----------------------------------------------------------------------------
(* paiement/retour/page.tsx                                                *)

\* The effect, once the session is known and authenticated.
Capturer(r, u) ==
  LET c == onglet[u].de IN
  /\ clic[r] = Rien /\ Prete(u, "retour")
  /\ Demander(r, u, "capturer", c,
              EnLigne(c) /\ (Paye(c) \/ paiement[c].transaction # Aucun),
              Paye(c), CaptureOnlinePayment(r, c))

\* The session ended during the payment: nothing is captured.
SessionExpiree(u) ==
  /\ Prete(u, "retour")
  /\ Montrer(u, [onglet[u] EXCEPT !.montre = "expiree"])
  /\ UNCHANGED <<vars, clic, emission, suivi, aVoir>>

\* Mutant: an answer without an error is a success.
MontreToujours(rep) == IF rep = "erreur" THEN "erreur" ELSE "succes"

\* What the page shows of an answer: a success for a payment in SUCCESS, the
\* cancellation of the order for another one, or the error of the service.
Montre(rep) == IF rep = "ok" THEN "succes" ELSE rep

\* The answer, shown unless the page that asked is gone.
Capturee(r, u) ==
  /\ Repondue(r) /\ clic[r].quoi = "capturer"
  /\ u = commande[clic[r].c].client
  /\ Recevoir(r, u, IF onglet[u].par = r
                      THEN Page("retour", onglet[u].de, Montre(clic[r].rep), Aucun)
                      ELSE onglet[u])

\* The link of a success: the page of the order.
VoirCommande(u) ==
  /\ onglet[u].nom = "retour" /\ onglet[u].montre = "succes"
  /\ Montrer(u, Page("suivi", onglet[u].de, "prete", Aucun))
  /\ UNCHANGED <<vars, clic, emission, suivi, aVoir>>

\* A reload: once the page was answered, or while it waits.
Recharger(u) ==
  /\ onglet[u].nom = "retour" /\ onglet[u].montre # "prete"
  /\ onglet[u].par # Aucun => Recharge
  /\ Montrer(u, Page("retour", onglet[u].de, "prete", Aucun))
  /\ UNCHANGED <<vars, clic, emission, suivi, aVoir>>

----------------------------------------------------------------------------
(* paiement/annule/page.tsx                                                *)

\* retry: another PayPal order for the same payment.
Reessayer(r, u, o) ==
  LET c == onglet[u].de IN
  /\ clic[r] = Rien /\ Prete(u, "annule")
  /\ Demander(r, u, "initier", c, EnLigneNonPaye(c), FALSE,
              InitiateOnlinePayment(r, c, o))

Reessayee(r, u) ==
  /\ Attendue(r, u, "annule", "initier")
  /\ Recevoir(r, u, IF clic[r].rep = "ok"
       THEN Page("paypal", paiement[clic[r].c].transaction, "prete", Aucun)
       ELSE Page("annule", onglet[u].de, "prete", Aucun))

\* cancelOrder: PATCH /orders/:id/cancel.
Annuler(r, u) ==
  LET c == onglet[u].de IN
  /\ clic[r] = Rien /\ Prete(u, "annule")
  /\ Demander(r, u, "annuler", c, commande[c].etat = "EN_ATTENTE", FALSE,
              Cancel(r, c))

Annulee(r, u) ==
  /\ Attendue(r, u, "annule", "annuler")
  /\ Recevoir(r, u, Page("annule", onglet[u].de,
       IF clic[r].rep = "ok" THEN "annulee" ELSE "prete", Aucun))

----------------------------------------------------------------------------
PagesNext(r) ==
  \E u \in Clients :
    \/ \E m \in Methodes, a \in Adresses : Commander(r, u, m, a)
    \/ Commandee(r, u) \/ VersPaypal(r, u) \/ Capturer(r, u) \/ Capturee(r, u)
    \/ Reessayee(r, u) \/ Annuler(r, u) \/ Annulee(r, u)
    \/ \E o \in Ordres : CommandeePuisInitier(r, u, o) \/ Reessayer(r, u, o)

Navigue(u) ==
  \/ Approuver(u) \/ Renoncer(u) \/ SessionExpiree(u) \/ Recharger(u)
  \/ VoirCommande(u)
  \/ \E o \in Ordres : Reculer(u, o)

NextCaisse ==
  \/ \E r \in Requetes : PagesNext(r)
  \/ \E u \in Clients : Navigue(u)
  \/ /\ \/ \E r \in Requetes : EquipeNext(r) \/ Pas(r) \/ Mourir(r) \/ Perdre(r)
                               \/ Emettre(r)
        \/ \E u \in Equipe : Rafraichir(u) \/ Charger(u)
        \/ \E u \in Clients :
             onglet[u].nom = "suivi" /\ ClientSuit(onglet[u].de)
     /\ UNCHANGED onglet

SpecCaisse == InitCaisse /\ [][NextCaisse]_toutes

\* Node resumes the handlers, and a browser those of its page.  A refresh may
\* take for ever: it gives no button back.
Reprend(r) ==
  \/ /\ Pas(r) \/ Emettre(r) \/ RetourEquipe(r)
     /\ UNCHANGED onglet
  \/ \E u \in Clients :
       \/ Commandee(r, u) \/ VersPaypal(r, u) \/ Capturee(r, u)
       \/ Reessayee(r, u) \/ Annulee(r, u)
       \/ \E o \in Ordres : CommandeePuisInitier(r, u, o)

FairCaisse == SpecCaisse /\ \A r \in Requetes : WF_toutes(Reprend(r))

----------------------------------------------------------------------------
\* What the return page says is true: a success was paid and has its invoice, a
\* refusal was not paid and its order is cancelled.  Of a payment whose request
\* died half way, only the first half is (paiement/retour/page.tsx:40).
RetourVrai ==
  \A u \in Clients :
    LET c == onglet[u].de IN
    onglet[u].nom = "retour" =>
      /\ onglet[u].montre = "succes" =>
           Encaisse(c) /\ (pannes = 0 => facture[c] # 0)
      /\ onglet[u].montre = "refus" =>
           commande[c].etat = "ANNULEE" /\ (pannes = 0 => Captures(c) = {})

\* After a cancellation the articles are in the cart, and once, also those of
\* an order that was paid meanwhile through another page of PayPal, unless the
\* same cancellation put more back in the stock than was taken
\* (paiement/annule/page.tsx:69, orders.service.ts:231).
AnnuleVrai ==
  \A u \in Clients :
    LET c == onglet[u].de IN
    onglet[u].nom = "annule" /\ onglet[u].montre = "annulee" /\ net[c] = 0 =>
      \A p \in Presents(commande[c].lignes) :
        panier[u][p] = commande[c].lignes[p]

\* A button is off, and a page waits, only while their own request runs: each
\* answer, the error and the failure too, gives back what its click took
\* (finally of orders-admin.tsx:97, checkout-form.tsx:54).
BoutonsRendus ==
  /\ \A u \in Equipe, c \in Commandes :
       /\ c \in occupe[u] =>
            \E r \in Requetes : /\ clic[r].quoi \in {"statut", "assigner"}
                               /\ clic[r].u = u /\ clic[r].c = c
       /\ c \in encaisse[u] =>
            \E r \in Requetes : /\ clic[r].quoi = "cash"
                               /\ clic[r].u = u /\ clic[r].c = c
  /\ \A u \in Clients :
       onglet[u].par # Aucun => clic[onglet[u].par] # Rien

\* What PayPal's pages lead to tells the truth: both pages above.
PagesVraies == RetourVrai /\ AnnuleVrai

\* Every click gives its button back, and one that changes a status or confirms
\* cash ends with the orders read again or an error on the page, whatever became of
\* its request; one that assigns a driver, only when it was answered: its refusal
\* and its failure show nothing (orders-admin.tsx:66-98,
\* payment-confirm-button.tsx:33-41).
GestesRendus == TypeSuivi /\ SesGestesVus /\ BoutonsRendus
=============================================================================
