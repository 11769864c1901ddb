-------------------------- MODULE PaymentsService ---------------------------
(***************************************************************************)
(* backend/src/payments/payments.service.ts, with PayPal's side of the     *)
(* calls paypal-client.service.ts makes.  The handlers end in steps of     *)
(* OrdersService and InvoicesService.                                      *)
(***************************************************************************)
EXTENDS OrdersService, InvoicesService

\* initiateOnlinePayment: only a payment in SUCCESS is refused, so one in
\* FAILED, or one of a cancelled order, starts again.  createOrder returns a
\* new PayPal order; nobody else knows it, so the call is in the reading step.
InitiateOnlinePayment(r, c, o) ==
  /\ Libre(r)
  /\ EnLigneNonPaye(c)
  /\ paypal[o].etat = "AUCUN"
  /\ paypal' = [paypal EXCEPT ![o] = [etat |-> "CREATED", commande |-> c]]
  /\ Etape(r, [pc |-> "initiate", c |-> c, ordre |-> o])
  /\ UNCHANGED <<commande, paiement, facture, produit, panier, net, courriels,
                 pannes>>

\* The write replaces the id of an earlier PayPal order of the same payment.
InitiateEcrire(r) ==
  /\ req[r].pc = "initiate"
  /\ paiement' = [paiement EXCEPT ![req[r].c].transaction = req[r].ordre]
  /\ Repond(r)
  /\ UNCHANGED <<commande, facture, produit, panier, paypal, net, courriels,
                 pannes>>

----------------------------------------------------------------------------
\* The client approves, on PayPal's pages, an order whose link was returned.
ClientApprouve(o) ==
  /\ paypal[o].etat = "CREATED"
  /\ \A r \in Requetes : req[r].pc = "initiate" => req[r].ordre # o
  /\ paypal' = [paypal EXCEPT ![o].etat = "APPROVED"]
  /\ UNCHANGED <<commande, paiement, facture, produit, panier, req, net,
                 courriels, pannes>>

\* captureOnlinePayment: the read.  SUCCESS returns at once; a payment that
\* was never initiated is refused.
CaptureOnlinePayment(r, c) ==
  /\ Libre(r)
  /\ EnLigneNonPaye(c)
  /\ paiement[c].transaction # Aucun
  /\ Etape(r, [pc |-> "capture", c |-> c, ordre |-> paiement[c].transaction])
  /\ UNCHANGED <<commande, paiement, facture, produit, panier, paypal, net,
                 courriels, pannes>>

\* Mutant: an order captured before counts as a success.
CaptureDejaFaite(r) ==
  LET o == req[r].ordre
      Issue(s) == Etape(r, [pc |-> "statut", c |-> req[r].c, success |-> s])
  IN  /\ req[r].pc = "capture"
      /\ \/ /\ paypal[o].etat = "APPROVED"
            /\ paypal' = [paypal EXCEPT ![o].etat = "COMPLETED"]
            /\ Issue(TRUE)
         \/ /\ Issue(paypal[o].etat = "COMPLETED")
            /\ UNCHANGED paypal
      /\ UNCHANGED <<commande, paiement, facture, produit, panier, net,
                     courriels, pannes>>

\* captureOrder: PayPal takes the money of an approved order, or the bank
\* declines and the client has to approve again.  Any other order fails, one
\* that was captured before included: the answer is not COMPLETED.
CaptureOrder(r) ==
  LET o == req[r].ordre
      Issue(s) == Etape(r, [pc |-> "statut", c |-> req[r].c, success |-> s])
  IN  /\ req[r].pc = "capture"
      /\ \/ /\ paypal[o].etat = "APPROVED"
            /\ paypal' = [paypal EXCEPT ![o].etat = "COMPLETED"]
            /\ Issue(TRUE)
         \/ /\ paypal[o].etat = "APPROVED"
            /\ paypal' = [paypal EXCEPT ![o].etat = "CREATED"]
            /\ Issue(FALSE)
         \/ /\ paypal[o].etat # "APPROVED"
            /\ Issue(FALSE)
            /\ UNCHANGED paypal
      /\ UNCHANGED <<commande, paiement, facture, produit, panier, net,
                     courriels, pannes>>

StatutDe(success) == IF success THEN "SUCCESS" ELSE "FAILED"

\* The statut that is written does not depend on the one in the table.
StatutEcrire(r) ==
  /\ req[r].pc = "statut"
  /\ paiement' = [paiement EXCEPT ![req[r].c].statut = StatutDe(req[r].success)]
  /\ Etape(r, [req[r] EXCEPT !.pc = "notifier"])
  /\ UNCHANGED <<commande, facture, produit, panier, paypal, net, courriels,
                 pannes>>

\* What is left to do: cancel the order for a refused payment, consume stock
\* and cart for an online payment, only the invoice for cash.
SuiteDe(c, success) ==
  IF ~success THEN "echec"
  ELSE IF EnLigne(c) THEN "confirmOnline" ELSE "generate"

\* sendPaymentConfirmation; only the e-mails that say "paid" are counted.
Notifier(r) ==
  LET c == req[r].c IN
  /\ req[r].pc = "notifier"
  /\ courriels' = IF req[r].success
                    THEN [courriels EXCEPT ![c].succes = @ + 1]
                    ELSE courriels
  /\ Etape(r, [pc |-> SuiteDe(c, req[r].success), c |-> c])
  /\ UNCHANGED <<commande, paiement, facture, produit, panier, paypal, net,
                 pannes>>

\* The refused capture calls cancel, which throws if the order is no longer
\* EN_ATTENTE.
CancelApresEchec(r) ==
  /\ req[r].pc = "echec"
  /\ \/ CancelLire(r, req[r].c)
     \/ commande[req[r].c].etat # "EN_ATTENTE" /\ Repond(r)
  /\ UNCHANGED <<commande, paiement, facture, produit, panier, paypal, net,
                 courriels, pannes>>

----------------------------------------------------------------------------
\* Mutant: cash that was confirmed is confirmed again.
ConfirmCashSansIdempotence(r, u, c) ==
  /\ Libre(r)
  /\ ALaLivraison(c)
  /\ AdminOuLivreurAssigne(u, c)
  /\ Etape(r, [pc |-> "statut", c |-> c, success |-> TRUE])
  /\ UNCHANGED <<commande, paiement, facture, produit, panier, paypal, net,
                 courriels, pannes>>

\* confirmCashPayment: the read.  No condition on the state of the order.
ConfirmCashPayment(r, u, c) ==
  /\ Libre(r)
  /\ ALaLivraison(c)
  /\ AdminOuLivreurAssigne(u, c)
  /\ ~Paye(c)
  /\ Etape(r, [pc |-> "statut", c |-> c, success |-> TRUE])
  /\ UNCHANGED <<commande, paiement, facture, produit, panier, paypal, net,
                 courriels, pannes>>

----------------------------------------------------------------------------
PaymentsNext(r) ==
  \/ \E c \in Commandes, o \in Ordres : InitiateOnlinePayment(r, c, o)
  \/ InitiateEcrire(r)
  \/ \E c \in Commandes : CaptureOnlinePayment(r, c)
  \/ CaptureOrder(r)
  \/ StatutEcrire(r)
  \/ Notifier(r)
  \/ CancelApresEchec(r)
  \/ \E u \in Admins \cup Livreurs, c \in Commandes :
       ConfirmCashPayment(r, u, c)
=============================================================================
