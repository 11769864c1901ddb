------------------------------ MODULE Boutique ------------------------------
(***************************************************************************)
(* The shop: OrdersService, PaymentsService and InvoicesService running in *)
(* Requetes at a time, the client at PayPal and at the cart, the admin at  *)
(* the catalogue, and requests that die half way.                          *)
(***************************************************************************)
EXTENDS PaymentsService

\* updateItem, and the row addItem creates: the client sets a quantity.
ModifierPanier(r, u, p, q) ==
  /\ Libre(r)
  /\ panier' = [panier EXCEPT ![u][p] = q]
  /\ UNCHANGED <<commande, paiement, facture, produit, paypal, req, net,
                 courriels, pannes>>

\* removeItem: the row disappears.
RetirerDuPanier(r, u, p) ==
  /\ Libre(r)
  /\ Quantites # {}
  /\ panier' = [panier EXCEPT ![u][p] = Aucun]
  /\ UNCHANGED <<commande, paiement, facture, produit, paypal, req, net,
                 courriels, pannes>>

\* ProductsService.update: an absolute stock, and the soft removal.
ReassortProduit(r, p, d) ==
  /\ Libre(r)
  /\ p \notin Verrouilles
  /\ produit' = [produit EXCEPT ![p] = d]
  /\ UNCHANGED <<commande, paiement, facture, panier, paypal, req, net,
                 courriels, pannes>>

\* A running request dies: the process stops, a query fails or times out, the
\* answer of PayPal is lost.  What it committed stays.  Bound: MaxPannes.
Panne(r) ==
  /\ ~Libre(r)
  /\ pannes < MaxPannes
  /\ pannes' = pannes + 1
  /\ Repond(r)
  /\ UNCHANGED <<commande, paiement, facture, produit, panier, paypal, net,
                 courriels>>

ClientNext(r) ==
  \E u \in Clients, p \in Produits :
    (\E q \in Quantites : ModifierPanier(r, u, p, q)) \/ RetirerDuPanier(r, u, p)

AdminNext(r) == \E p \in Produits, d \in Reassorts : ReassortProduit(r, p, d)

Next ==
  \/ \E r \in Requetes : OrdersNext(r)
  \/ \E r \in Requetes : InvoicesNext(r)
  \/ \E r \in Requetes : PaymentsNext(r)
  \/ \E r \in Requetes : ClientNext(r) \/ AdminNext(r) \/ Panne(r)
  \/ \E o \in Ordres : ClientApprouve(o)

Spec == Init /\ [][Next]_vars

\* A step of a handler that is already running.
Avance(r) ==
  \/ CreateTransaction(r) \/ UpdateEcrire(r) \/ CancelTransaction(r)
  \/ AssignLivreurEcrire(r) \/ UpdateStatusEcrire(r)
  \/ ConfirmOnlinePaymentSuccess(r) \/ ConfirmOnlinePaymentTransaction(r)
  \/ InitiateEcrire(r) \/ CaptureOrder(r) \/ StatutEcrire(r) \/ Notifier(r)
  \/ CancelApresEchec(r) \/ InvoicesNext(r)

----------------------------------------------------------------------------
Captures(c) ==
  {o \in Ordres : paypal[o].etat = "COMPLETED" /\ paypal[o].commande = c}

\* The money of the order was taken: at PayPal, or by hand.
Encaisse(c) == IF EnLigne(c) THEN Captures(c) # {}
                             ELSE ALaLivraison(c) /\ Paye(c)

Promesse == INSTANCE Encaissement WITH
  suivi <- [c \in Commandes |-> commande[c].etat],
  methode <- [c \in Commandes |-> paiement[c].methode],
  encaisse <- [c \in Commandes |-> Encaisse(c)],
  livreur <- [c \in Commandes |-> commande[c].livreur],
  sorties <- net,
  numero <- facture

AuRepos == \A r \in Requetes : Libre(r)

(***************************************************************************)
(* With any number of requests at a time and any number of failures.       *)
(***************************************************************************)

\* No step of any request, in any interleaving and after any failure, breaks
\* the promise of Encaissement: no online order is prepared, delivered,
\* assigned or taken out of the stock unpaid, no cash order is delivered
\* unpaid, no invoice precedes the money (orders.service.ts, guards of
\* assignLivreur, updateStatus and cancel; RECOVERY.md:132).
ArgentDAbord == Promesse!ESpec

\* A cash order is delivered only when its cash was confirmed, also when the
\* deliverer's click read the order before other requests changed it
\* (orders.service.ts:372).
LivreeEncaissee ==
  \A c \in Commandes : commande[c].etat = "LIVREE" => Encaisse(c)

\* The numbers of the invoices are 1 .. n, each once, although each is drawn
\* by counting (schema.prisma:147, invoices.service.ts:37).
FacturesSequentielles ==
  /\ {facture[c] : c \in Facturees} = 1 .. Cardinality(Facturees)
  /\ \A c, d \in Facturees : facture[c] = facture[d] => c = d

\* The quantities of an order leave the stock at most once for each capture
\* PayPal completed, and once for a cash order: no retry of a capture takes
\* them again (orders.service.ts:127, called from payments.service.ts:137).
UneSortieParCapture ==
  \A c \in Commandes :
    net[c] <= IF EnLigne(c) THEN Cardinality(Captures(c)) ELSE 1

\* Why the promise holds.  An order and its PayPal orders belong together;
\* what the tables say of the money is true ...
TablesFideles ==
  /\ \A c \in Commandes :
       /\ Existe(c) <=> paiement[c].methode # "AUCUNE"
       /\ Existe(c) => commande[c].client \in Clients
       /\ ~Existe(c) => commande[c].livreur = Aucun
       /\ EnLigne(c) /\ Paye(c) => Encaisse(c)
       /\ commande[c].etat = "LIVREE" => Encaisse(c)
       /\ facture[c] # 0 => Encaisse(c)
       /\ LET o == paiement[c].transaction
          IN  o # Aucun => paypal[o].etat # "AUCUN" /\ paypal[o].commande = c
  /\ \A o \in Ordres :
       paypal[o].etat # "AUCUN" =>
         paypal[o].commande \in Commandes /\ EnLigne(paypal[o].commande)

\* ... and what a request read of the money before its last await is still
\* true when it writes, because money taken is never given back.
Confirmee(c) == EnLigne(c) => Encaisse(c)

RequeteFidele(q) ==
  LET c == q.c IN
  /\ q.pc \notin {"libre", "create"} => Existe(c)
  /\ q.pc \in {"initiate", "capture"} =>
       paypal[q.ordre].etat # "AUCUN" /\ paypal[q.ordre].commande = c
  /\ q.pc = "cancel" => q.jamaisConsommee \/ Confirmee(c)
  /\ q.pc = "assignLivreur" => Confirmee(c)
  /\ q.pc = "updateStatus" => /\ q.etat # "ANNULEE" => Confirmee(c)
                              /\ q.etat = "LIVREE" => Encaisse(c)
  /\ q.pc = "statut" => IF EnLigne(c) THEN q.success => Encaisse(c)
                                      ELSE q.success
  /\ q.pc = "notifier" => IF q.success THEN Encaisse(c) ELSE EnLigne(c)
  /\ q.pc \in {"confirmOnline", "consommer", "generate", "facture",
               "sendInvoice"} => Encaisse(c)

\* A number that was drawn and not used yet is at most the next one.
NumerosTires ==
  \A r \in Requetes :
    req[r].pc = "facture" => req[r].numero <= Cardinality(Facturees) + 1

\* The inductive invariant of the proofs: in it, what a request still believes
\* of an order when it writes is true, whatever ran since it read
\* (payments.service.ts, orders.service.ts: every check precedes an await).
Inductif ==
  /\ TypeOK
  /\ TablesFideles
  /\ \A r \in Requetes : RequeteFidele(req[r])
  /\ FacturesSequentielles
  /\ NumerosTires

\* A request at step q is on its way to the invoice of order c: it has the money,
\* or is about to write that it was taken.
Porteur(q, c) ==
  /\ q.pc \in {"statut", "notifier", "confirmOnline", "consommer", "generate",
              "facture"}
  /\ q.c = c
  /\ q.pc \in {"statut", "notifier"} => q.success

Porte(c) == \E r \in Requetes : Porteur(req[r], c)

\* The number a request drew was used for another order meanwhile
\* (invoices.service.ts:37), a row of the cart it read is gone
\* (orders.service.ts:148): its next write fails.
NumeroPris(r) ==
  req[r].pc = "facture" /\ \E d \in Facturees \ {req[r].c} : facture[d] = req[r].numero
RangDisparu(r) ==
  /\ req[r].pc = "consommer"
  /\ \E p \in Presents(commande[req[r].c].lignes) :
       req[r].vu[p] # Aucun /\ panier[commande[req[r].c].client][p] = Aucun

\* This step ends a request that was on its way: it dies, or fails as above.
Interrompue(c) ==
  \E r \in Requetes :
    /\ Porteur(req[r], c) /\ req'[r].pc = "libre"
    /\ pannes' > pannes \/ NumeroPris(r) \/ RangDisparu(r)

\* From the moment the money of an order is taken, by PayPal or by hand, until it
\* has its invoice, a request is on its way to it (payments.service.ts:84-148,
\* invoices.service.ts:27-43): whatever other requests do, only its own death, a
\* number two orders drew and a row of the cart that disappeared stop it.
FactureSuivie ==
  [][\A c \in Commandes :
       Encaisse(c)' /\ facture'[c] = 0 /\ (Encaisse(c) => Porte(c))
         => Porte(c)' \/ Interrompue(c)]_vars

(***************************************************************************)
(* With one request at a time and no failure.                              *)
(***************************************************************************)

\* The stock holds an order's quantities out exactly when the order was placed
\* for cash or paid online, and was not cancelled; a cancelled one holds out
\* no more than it took (orders.service.ts:230).
StockJuste ==
  AuRepos => \A c \in Commandes :
    /\ net[c] \in {0, 1}
    /\ Existe(c) /\ commande[c].etat # "ANNULEE" =>
         (net[c] = 1 <=> ALaLivraison(c) \/ Paye(c))
    /\ EnLigneNonPaye(c) => net[c] = 0

\* One confirmation of success and one invoice are sent for an order
\* (payments.service.ts:105 and :175).
UnSeulCourriel ==
  \A c \in Commandes : courriels[c].succes <= 1 /\ courriels[c].facture <= 1

\* PayPal takes the money of an order once, and a payment recorded as FAILED
\* was not taken (payments.service.ts:105, app/paiement/retour/page.tsx:14).
UnSeulDebit ==
  \A c \in Commandes :
    /\ Cardinality(Captures(c)) <= 1
    /\ AuRepos /\ EnLigne(c) => (Paye(c) <=> Captures(c) # {})

\* When no request runs, every order whose money was taken has its invoice
\* (payments.service.ts:132 and :197).
EncaisseeFacturee ==
  AuRepos => \A c \in Commandes : Encaisse(c) => facture[c] # 0

\* Nothing happens twice and nothing is forgotten: one debit, one e-mail of each
\* kind, one invoice with the next number (payments.service.ts:105).
UneSeuleFois ==
  UnSeulDebit /\ UnSeulCourriel /\ EncaisseeFacturee /\ FacturesSequentielles

(***************************************************************************)
(* Said in a comment or a test, and not what the code does: the first is   *)
(* violated by a run, the others with the instances README gives; the last *)
(* two hold for one request at a time.                                     *)
(***************************************************************************)

\* A payment captured stays captured: a reload of the return page changes
\* nothing (app/paiement/retour/page.tsx:14).
CaptureIdempotente == [][\A c \in Commandes : Paye(c) => Paye(c)']_vars

\* Only what was taken out of the stock is put back (orders.service.ts:231).
PasDeStockFantome == AuRepos => \A c \in Commandes : net[c] >= 0

\* LIVREE and ANNULEE are final (orders.service.ts:356).
EtatsDefinitifs ==
  [][\A c \in Commandes :
       commande[c].etat \in {"LIVREE", "ANNULEE"} =>
         commande'[c].etat = commande[c].etat]_vars

\* The transaction of a cash order leaves no product it sells below zero: what
\* create checked still holds when it takes the stock (orders.service.ts:65).
VenteCouverte ==
  [][\A r \in Requetes :
       CreateTransaction(r) =>
         produit' = produit
           \/ \A p \in Presents(req[r].lignes) : produit'[p].stock >= 0]_vars
=============================================================================
