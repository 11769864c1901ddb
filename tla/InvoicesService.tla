-------------------------- MODULE InvoicesService ---------------------------
(***************************************************************************)
(* backend/src/invoices/invoices.service.ts, the part PaymentsService      *)
(* calls: the numbering of invoices and their e-mail.                      *)
(***************************************************************************)
EXTENDS Donnees

Facturees == {c \in Commandes : facture[c] # 0}

\* Mutant: the number is the count itself.
NumeroSansIncrement == Cardinality(Facturees)

\* FAC-<year>-<count + 1>, without the year: the count runs over all years.
ProchainNumero == Cardinality(Facturees) + 1

\* generateForCommande: return the invoice that exists, or count the invoices.
\* The number is a count, so two requests may draw the same one.
GenerateForCommande(r) ==
  LET c == req[r].c IN
  /\ req[r].pc = "generate"
  /\ \/ /\ c \in Facturees
        /\ Etape(r, [pc |-> "sendInvoice", c |-> c])
     \/ /\ c \notin Facturees
        /\ Etape(r, [pc |-> "facture", c |-> c,
                     numero |-> ProchainNumero])
  /\ UNCHANGED <<commande, paiement, facture, produit, panier, paypal, net,
                 courriels, pannes>>

\* The insert: commandeId and numeroFacture are unique, a duplicate of either
\* makes the whole request fail.
Doublon(c, n) == c \in Facturees \/ \E d \in Commandes : facture[d] = n

FactureCreate(r) ==
  LET c == req[r].c IN
  /\ req[r].pc = "facture"
  /\ \/ /\ Doublon(c, req[r].numero)
        /\ Repond(r)
        /\ UNCHANGED facture
     \/ /\ ~Doublon(c, req[r].numero)
        /\ facture' = [facture EXCEPT ![c] = req[r].numero]
        /\ Etape(r, [pc |-> "sendInvoice", c |-> c])
  /\ UNCHANGED <<commande, paiement, produit, panier, paypal, net, courriels,
                 pannes>>

\* sendInvoiceByEmail: one e-mail, its errors swallowed; then the handler of
\* PaymentsService answers.
SendInvoiceByEmail(r) ==
  LET c == req[r].c IN
  /\ req[r].pc = "sendInvoice"
  /\ courriels' = IF c \in Facturees
                    THEN [courriels EXCEPT ![c].facture = @ + 1]
                    ELSE courriels
  /\ Repond(r)
  /\ UNCHANGED <<commande, paiement, facture, produit, panier, paypal, net,
                 pannes>>

InvoicesNext(r) ==
  GenerateForCommande(r) \/ FactureCreate(r) \/ SendInvoiceByEmail(r)
=============================================================================
