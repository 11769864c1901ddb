----------------------------- MODULE Facturation -----------------------------
(***************************************************************************)
(* What a client pays and what the invoice says: the prices that the cart  *)
(* and the order keep (cart.service.ts, orders.service.ts), and the PDF of *)
(* backend/src/invoices/invoices.service.ts with the amount in words of    *)
(* montant-en-lettres.ts.  One client, one order at a time, operations one *)
(* after the other: Boutique has their interleavings.  Amounts are in      *)
(* millimes; the code computes them with doubles and rounds what it shows. *)
(***************************************************************************)
EXTENDS Integers, SequencesExt

CONSTANTS
  Articles,
  Prix,         \* prices, tax included; a product may be free
  Anciennes,    \* the lines of orders made before, of numbered articles
  MaxQuantite,    \* bound: quantity of a cart row
  MaxActes      \* bound: operations on prices, cart and order

\* A line has a quantity and a price.
LigneDe(A, P) == [a : A, q : Nat \ {0}, pu : P]

ASSUME FacturationAssumption ==
  /\ IsFiniteSet(Articles)
  /\ Prix # {} /\ Prix \subseteq {p \in Nat : p % 10 = 0}
  /\ \A s \in Anciennes : s # << >> /\ s \in Seq(LigneDe(Nat, Nat))
  /\ MaxQuantite \in Nat /\ MaxActes \in Nat

VARIABLES
  prix,       \* Produit.prix
  rangees,    \* the cart: quantity and prixUnitaire of each article
  commande,   \* the order: its state, method, lines and montantTotal
  facture,    \* its invoice: montant, isPrinted
  pdf,        \* the document: lines still to draw, place on the page, totals
  actes

facturation == <<prix, rangees, commande, facture, pdf, actes>>

AucuneRangee == [q |-> 0, pu |-> 0]
PasDeCommande == [etat |-> "AUCUNE", methode |-> "", lignes |-> <<>>, total |-> 0]
PasDeFacture == [montant |-> -1, isPrinted |-> FALSE]
PasDePdf == [etape |-> "rien", reste |-> <<>>, page |-> 0, y |-> 0, bas |-> 0,
             ttc |-> 0]

\* The sums of the first amounts; reduce.
Cumul(m) == LET t[n \in 0..Len(m)] == IF n = 0 THEN 0 ELSE t[n - 1] + m[n] IN t
Total(m) == Cumul(m)[Len(m)]
Montants(lignes) == [i \in DOMAIN lignes |-> lignes[i].q * lignes[i].pu]

InitFacturation ==
  /\ prix \in [Articles -> Prix]
  /\ rangees = [a \in Articles |-> AucuneRangee]
  /\ commande = PasDeCommande /\ facture = PasDeFacture
  /\ pdf = PasDePdf /\ actes = 0

PremiersPrix == [a \in Articles |-> CHOOSE p \in Prix : TRUE]

\* An order made before, paid, with its invoice.
InitAncienne ==
  /\ prix = PremiersPrix
  /\ rangees = [a \in Articles |-> AucuneRangee]
  /\ commande \in {[etat |-> "PAYEE", methode |-> "EN_LIGNE", lignes |-> s,
                    total |-> Total(Montants(s))] : s \in Anciennes}
  /\ facture = [montant |-> commande.total, isPrinted |-> FALSE]
  /\ pdf = PasDePdf /\ actes = MaxActes

----------------------------------------------------------------------------
(* Prices.                                                                 *)

Acte == pdf.etape = "rien" /\ actes < MaxActes /\ actes' = actes + 1

UpdatePrix(a, p) ==
  /\ Acte /\ p # prix[a]
  /\ prix' = [prix EXCEPT ![a] = p]
  /\ UNCHANGED <<rangees, commande, facture, pdf>>

\* addItem: a row that exists keeps the price it has.
Ajoutee(r, p) == IF r = AucuneRangee THEN [q |-> 1, pu |-> p]
                 ELSE [r EXCEPT !.q = @ + 1]

AddItem(a) ==
  /\ Acte /\ rangees[a].q < MaxQuantite
  /\ rangees' = [rangees EXCEPT ![a] = Ajoutee(@, prix[a])]
  /\ UNCHANGED <<prix, commande, facture, pdf>>

RemoveItem(a) ==
  /\ Acte /\ rangees[a] # AucuneRangee
  /\ rangees' = [rangees EXCEPT ![a] = AucuneRangee]
  /\ UNCHANGED <<prix, commande, facture, pdf>>

Presentes == {a \in Articles : rangees[a] # AucuneRangee}

\* The rows of the cart, in the order they are read.
Lues == SetToSeq(Presentes)

\* Mutant: the lines of the order get the price of the catalogue.
LignesAuPrixCourant ==
  [i \in 1..Len(Lues) |-> [a |-> Lues[i], q |-> rangees[Lues[i]].q,
                           pu |-> prix[Lues[i]]]]

\* The lines of the order keep the prices of the cart.
Lignes ==
  [i \in 1..Len(Lues) |-> [a |-> Lues[i], q |-> rangees[Lues[i]].q,
                           pu |-> rangees[Lues[i]].pu]]

\* deleteMany of the cart's rows.
RangeesSupprimees == [a \in Articles |-> AucuneRangee]

TotalPanier ==
  Total([i \in 1..Len(Lues) |-> rangees[Lues[i]].q * rangees[Lues[i]].pu])

CreateCommande(m) ==
  /\ Acte /\ Presentes # {} /\ commande.etat \in {"AUCUNE", "ANNULEE"}
  /\ commande' = [etat |-> "EN_ATTENTE", methode |-> m, lignes |-> Lignes,
                  total |-> TotalPanier]
  /\ rangees' = IF m = "A_LA_LIVRAISON" THEN RangeesSupprimees ELSE rangees
  /\ UNCHANGED <<prix, facture, pdf>>

\* The cart once every line of the order has changed the row of its article: an
\* order has one line of an article.
ParLigne(Rangee(_, _)) ==
  [a \in Articles |->
     LET siennes == {i \in DOMAIN commande.lignes : commande.lignes[i].a = a}
     IN  IF siennes = {} THEN rangees[a]
         ELSE Rangee(rangees[a], commande.lignes[CHOOSE i \in siennes : TRUE])]

\* A line goes back at the order's price or, to a row that is there again, at
\* that row's.
Rendue(r, l) == IF r = AucuneRangee THEN [q |-> l.q, pu |-> l.pu]
                ELSE [r EXCEPT !.q = @ + l.q]

Achetee(r, l) == IF r.q <= l.q THEN AucuneRangee ELSE [r EXCEPT !.q = @ - l.q]

\* cancel: a cash order gives its lines back.
CancelCommande ==
  /\ Acte /\ commande.etat = "EN_ATTENTE"
  /\ commande' = [commande EXCEPT !.etat = "ANNULEE"]
  /\ rangees' = IF commande.methode = "EN_LIGNE" THEN rangees
                 ELSE ParLigne(Rendue)
  /\ UNCHANGED <<prix, facture, pdf>>

\* The payment succeeds, and generateForCommande copies montantTotal.  Online,
\* the cart loses what was bought.
Payer ==
  /\ Acte /\ commande.etat = "EN_ATTENTE"
  /\ commande' = [commande EXCEPT !.etat = "PAYEE"]
  /\ facture' = [montant |-> commande.total, isPrinted |-> FALSE]
  /\ rangees' = IF commande.methode = "A_LA_LIVRAISON" THEN rangees
                 ELSE ParLigne(Achetee)
  /\ UNCHANGED <<prix, pdf>>

----------------------------------------------------------------------------
(* Amounts.  A price includes the tax: P / 1.19 is before tax.             *)

Tva == 19
TimbreFiscal == 1000

\* toFixed(3).
Arrondi(a, b) == (2 * a + b) \div (2 * b)

\* The part k / (100 + Tva) of an amount, as it is shown.
Part(ttc, k) ==
  (ttc \div (100 + Tva)) * k + Arrondi((ttc % (100 + Tva)) * k, 100 + Tva)

TotalHT(ttc) == Part(ttc, 100)
TotalTVA(ttc) == Part(ttc, Tva)
NetAPayer(ttc) == ttc + TimbreFiscal

----------------------------------------------------------------------------
(* montant-en-lettres.ts.  A text is the sequence of its words; hyphens and *)
(* capitals are left out.                                                   *)

Unites == <<"un", "deux", "trois", "quatre", "cinq", "six", "sept", "huit", "neuf">>
DixANeuf == [n \in 0..9 |->
  <<"dix", "onze", "douze", "treize", "quatorze", "quinze", "seize",
    "dix-sept", "dix-huit", "dix-neuf">>[n + 1]]
Dizaines == [n \in {2, 3, 4, 5, 6, 8} |->
  <<"", "vingt", "trente", "quarante", "cinquante", "soixante", "",
    "quatre-vingt">>[n]]

DeuxChiffres(n) ==
  LET dizaine == n \div 10
      unite == n % 10
  IN
  CASE n < 10 -> <<Unites[n]>>
    [] n \in 10..19 -> <<DixANeuf[n - 10]>>
    [] n = 71 -> <<"soixante", "et", "onze">>
    [] dizaine = 7 /\ n # 71 -> <<"soixante", DixANeuf[unite]>>
    [] dizaine = 9 -> <<"quatre-vingt", DixANeuf[unite]>>
    [] n = 80 -> <<"quatre-vingts">>
    [] dizaine = 8 /\ n # 80 -> <<"quatre-vingt", Unites[unite]>>
    [] OTHER -> <<Dizaines[dizaine]>> \o
                  (CASE unite = 0 -> <<>>
                     [] unite = 1 -> <<"et", "un">>
                     [] OTHER -> <<Unites[unite]>>)

\* Mutant: several hundreds always take an s.
Cents(centaines, reste) ==
  IF centaines = 1 THEN <<"cent">> ELSE <<Unites[centaines], "cents">>

\* The hundreds: an s when there are several and nothing follows.
MotCent(centaines, reste) ==
  IF centaines = 1 THEN <<"cent">>
  ELSE <<Unites[centaines], IF reste = 0 THEN "cents" ELSE "cent">>

TroisChiffres(n) ==
  LET centaines == n \div 100
      reste == n % 100
  IN  (IF centaines > 0 THEN MotCent(centaines, reste) ELSE <<>>)
        \o (IF reste > 0 THEN DeuxChiffres(reste) ELSE <<>>)

ConvertirEntier(n) ==
  LET millions == n \div 1000000
      milliers == (n % 1000000) \div 1000
      reste == n % 1000
  IN  IF n = 0 THEN <<"zero">>
      ELSE (CASE millions = 0 -> <<>>
              [] millions = 1 -> <<"un", "million">>
              [] OTHER -> TroisChiffres(millions) \o <<"millions">>)
        \o (CASE milliers = 0 -> <<>>
              [] milliers = 1 -> <<"mille">>
              [] OTHER -> TroisChiffres(milliers) \o <<"mille">>)
        \o TroisChiffres(reste)

MontantEnLettres(montant) ==
  [dinars |-> ConvertirEntier(montant \div 1000),
   millimes |-> ConvertirEntier(montant % 1000)]

----------------------------------------------------------------------------
(* The download: getFactureData, buildPdf, markPrinted.                    *)

PageBottom == 780

\* Mutant: a page is full when its last line is.
PleineSansReserve(y, reserve) == y > PageBottom

\* Whether what is next and needs reserve goes to another page.
Pleine(y, reserve) == y > PageBottom - reserve

\* The owner of the order or an admin asks for the invoice of a paid order.
\* The head of the first page, and of its table.
Download ==
  /\ pdf.etape = "rien" /\ facture # PasDeFacture
  /\ pdf' = [etape |-> "lignes", reste |-> commande.lignes, page |-> 1,
             y |-> 190 + 20, bas |-> 190 + 20, ttc |-> 0]
  /\ UNCHANGED <<prix, rangees, commande, facture, actes>>

\* A line of the table, with the head of the table on a new page.
DessinerLigne ==
  LET pleine == Pleine(pdf.y, 40)
      y == (IF pleine THEN 40 + 20 ELSE pdf.y) + 18
      l == Head(pdf.reste)
  IN  /\ pdf.etape = "lignes" /\ pdf.reste # <<>>
      /\ pdf' = [pdf EXCEPT !.reste = Tail(@), !.y = y, !.bas = y,
                   !.page = IF pleine THEN @ + 1 ELSE @,
                   !.ttc = @ + l.q * l.pu]
      /\ UNCHANGED <<prix, rangees, commande, facture, actes>>

\* The six totals, 15 apart, and the amount in words on two lines of 11.
DessinerTotaux ==
  LET pleine == Pleine(pdf.y + 15, 160)
      y == IF pleine THEN 40 ELSE pdf.y + 15
      lettres == y + 6 * 15 + 10
  IN  /\ pdf.etape = "lignes" /\ pdf.reste = <<>>
      /\ pdf' = [pdf EXCEPT !.etape = "signatures", !.y = lettres + 50,
                   !.bas = lettres + 14 + 22,
                   !.page = IF pleine THEN @ + 1 ELSE @]
      /\ UNCHANGED <<prix, rangees, commande, facture, actes>>

\* The boxes of the signatures; then the invoice is marked.
DessinerSignatures ==
  LET pleine == Pleine(pdf.y, 90)
      y == IF pleine THEN 40 ELSE pdf.y
  IN  /\ pdf.etape = "signatures"
      /\ pdf' = [pdf EXCEPT !.etape = "fini", !.y = y, !.bas = y + 12 + 70,
                   !.page = IF pleine THEN @ + 1 ELSE @]
      /\ facture' = [facture EXCEPT !.isPrinted = TRUE]
      /\ UNCHANGED <<prix, rangees, commande, actes>>

----------------------------------------------------------------------------
NextFacturation ==
  \/ \E a \in Articles :
       AddItem(a) \/ RemoveItem(a) \/ \E p \in Prix : UpdatePrix(a, p)
  \/ \E m \in {"EN_LIGNE", "A_LA_LIVRAISON"} : CreateCommande(m)
  \/ CancelCommande \/ Payer
  \/ Download \/ DessinerLigne \/ DessinerTotaux \/ DessinerSignatures

----------------------------------------------------------------------------
(* Properties.                                                             *)

\* Types: a row of the cart has a price, and an order an invoice when it is paid.
TypeFacturation ==
  /\ prix \in [Articles -> Prix]
  /\ \A a \in Articles :
       rangees[a] = AucuneRangee \/ rangees[a] \in [q : Nat \ {0}, pu : Prix]
  /\ commande.etat \in {"AUCUNE", "EN_ATTENTE", "PAYEE", "ANNULEE"}
  /\ facture.montant \in Nat \cup {-1} /\ facture.isPrinted \in BOOLEAN
  /\ facture # PasDeFacture <=> commande.etat = "PAYEE"

\* The lines of a printed invoice add up to what was paid, whatever happened
\* to the prices, the cart and earlier orders (orders.service.ts:71 and :86,
\* invoices.service.ts:44).
FactureFidele ==
  pdf.etape \in {"signatures", "fini"} =>
    pdf.ttc = facture.montant /\ pdf.ttc = commande.total

\* The three amounts of a printed invoice add up to its net, to the millime,
\* although each is rounded by itself (invoices.service.ts:239 and :260-267).
AdditionJuste ==
  pdf.etape = "signatures" =>
    TotalHT(pdf.ttc) + TotalTVA(pdf.ttc) + TimbreFiscal = NetAPayer(pdf.ttc)

\* The figures of a printed invoice: both properties above.
FactureJuste == TypeFacturation /\ FactureFidele /\ AdditionJuste

\* How a reader of French adds up the words of a number.
Valeur ==
  [un |-> 1, deux |-> 2, trois |-> 3, quatre |-> 4, cinq |-> 5, six |-> 6,
   sept |-> 7, huit |-> 8, neuf |-> 9, dix |-> 10, onze |-> 11, douze |-> 12,
   treize |-> 13, quatorze |-> 14, quinze |-> 15, seize |-> 16, vingt |-> 20,
   trente |-> 30, quarante |-> 40, cinquante |-> 50, soixante |-> 60, et |-> 0,
   zero |-> 0]
ValeurDe(mot) ==
  CASE mot = "dix-sept" -> 17 [] mot = "dix-huit" -> 18 [] mot = "dix-neuf" -> 19
    [] mot \in {"quatre-vingt", "quatre-vingts"} -> 80
    [] OTHER -> Valeur[mot]
Lue(mots) ==
  LET lire(v, mot) ==
        LET groupe == IF v.groupe = 0 THEN 1 ELSE v.groupe IN
        CASE mot \in {"cent", "cents"} -> [v EXCEPT !.groupe = groupe * 100]
          [] mot = "mille" -> [total |-> v.total + groupe * 1000, groupe |-> 0]
          [] mot \in {"million", "millions"} ->
               [total |-> v.total + groupe * 1000000, groupe |-> 0]
          [] OTHER -> [v EXCEPT !.groupe = @ + ValeurDe(mot)]
      fin == FoldLeft(lire, [total |-> 0, groupe |-> 0], mots)
  IN  fin.total + fin.groupe

\* A word of a number has its plural s exactly where it ends the number
\* (montant-en-lettres.ts:51 and :67).
AccordsDe(mots) ==
  \A i \in DOMAIN mots :
    /\ mots[i] \in {"quatre-vingts", "cents"} => i = Len(mots)
    /\ mots[i] = "quatre-vingt" => i < Len(mots)
    /\ mots[i] = "cent" /\ i > 1 /\ mots[i - 1] \in {Unites[u] : u \in 2..9} =>
         i < Len(mots)

\* The amount in words of an invoice reads as its net (invoices.service.ts:287),
\* and below 80 000 dinars its plurals are right (montant-en-lettres.ts:51 and
\* :67; README, "Findings", for larger ones).
LettresJustes ==
  pdf.etape = "signatures" =>
    LET net == NetAPayer(pdf.ttc)
        mots == MontantEnLettres(net)
    IN  /\ Lue(mots.dinars) = net \div 1000 /\ Lue(mots.millimes) = net % 1000
        /\ net < 80000000 => AccordsDe(mots.dinars) /\ AccordsDe(mots.millimes)

\* Whatever the number of lines, nothing is drawn below the bottom of a page
\* (invoices.service.ts:203, :234 and :291).
DansLaPage == pdf.bas <= PageBottom
=============================================================================
