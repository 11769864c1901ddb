----------------------------- MODULE Catalogue ------------------------------
(***************************************************************************)
(* The catalogue: backend products.service.ts, categories.service.ts and   *)
(* announcements.service.ts, with the foreign keys of schema.prisma,       *)
(* uploads.controller.ts, and the admin's pages over them:                 *)
(*   produits    products-admin.tsx, product-form.tsx, categories-panel.tsx*)
(*   inventaire  inventory-admin.tsx                                       *)
(*   annonces    announcements-admin.tsx, announcement-form.tsx            *)
(* A handler reads and checks in one step and writes in a later one; sales *)
(* go on meanwhile.                                                        *)
(***************************************************************************)
EXTENDS Integers, FiniteSets

CONSTANTS
  Categories,    \* ids of the categories
  Produits,      \* ids of the products
  Annonces,      \* ids of the announcements
  Images,        \* URLs of uploaded images
  Stocks,        \* quantities an admin types
  Volets,        \* the pages that may be used in this instance
  Creneaux,      \* slots of requests running at the same time
  MaxGestes,     \* bound, for each page: what its user does
  MaxVentes,     \* bound: sales
  MaxTemps,      \* bound: the clock, in half days
  Aucun          \* no image, no product, no draft

\* A row of the catalogue; the days of an announcement, or their instants.
LigneT == [categorie : Categories, stock : Nat, image : Images \cup {Aucun},
           actif : BOOLEAN]
FenetreT == [debut : Int, fin : Int]

\* The body of a request on a product: Aucun for a field it does not have;
\* isAvailable is TRUE where it has it.
CorpsT == [categorie : Categories \cup {Aucun}, stock : Nat \cup {Aucun},
           image : Images \cup {Aucun}, actif : BOOLEAN]
Vide == [categorie |-> Aucun, stock |-> Aucun, image |-> Aucun, actif |-> FALSE]

DuProduit == {"creer", "modifier", "retirer", "supprimer"}
DeLaCategorie == {"supprimerCategorie", "creerCategorie"}
DeLAnnonce == {"creerAnnonce", "modifierAnnonce", "supprimerAnnonce"}

\* A request: the operation, its id, the body, whether somebody typed what it
\* sends, what the form showed when it was opened, the component that sent it,
\* and the answer, "lue" once its checks have passed.
DemandeT ==
  [op : DuProduit \cup DeLaCategorie \cup DeLAnnonce,
   id : Produits \cup Categories \cup Annonces \cup {"nouveau", "nouvelle"},
   champs : CorpsT \cup FenetreT, saisi : BOOLEAN,
   base : [stock : Nat] \cup FenetreT \cup {Aucun},
   par : Produits \cup {"form", "liste"},
   rep : {"envoyee", "lue", "ok", "erreur"}]

ASSUME CatalogueAssumption ==
  /\ Categories # {} /\ Images # {} /\ Stocks \subseteq Nat /\ MaxTemps \in Nat
  /\ Produits \cap Annonces = {}
  /\ Aucun \notin Categories \cup Produits \cup Annonces
  /\ Aucun \notin Images \cup Creneaux /\ Aucun \notin {"nouveau", "nouvelle"}
  /\ Aucun \notin LigneT /\ Aucun \notin FenetreT /\ Aucun \notin DemandeT
  /\ Aucun \notin Nat /\ Aucun \notin Int
  /\ "nouveau" \notin Produits /\ "nouvelle" \notin Annonces

VARIABLES
  categories,    \* table Categorie
  nees,          \* the ids it has given: one is not given twice
  produits,      \* table Produit: Aucun for an id without a row
  vendus,        \* products that a line of an order refers to
  annonces,      \* table Annonce: the window of each, Aucun without a row
  horloge,       \* time, in half days: an even one is midnight, UTC
  req,           \* running requests
  volet,         \* the admin's page
  liste,         \* the products, categories, announcements the page shows
  rafraichit,    \* whether router.refresh has not come back
  form,          \* the modal with ProductForm or AnnouncementForm
  brouillons,    \* InventoryAdmin: the quantities typed and not saved
  savingId,      \* InventoryAdmin: the product being saved
  gestes, ventes,
  attendu,       \* the stock that sales and typed quantities amount to
  voulue,        \* the days an admin chose for each announcement
  ecrases        \* products and announcements whose form sent back a quantity
                 \* or days nobody typed and that were no longer theirs

tables == <<categories, nees, produits, vendus, annonces, horloge>>
pages == <<liste, rafraichit, form, brouillons, savingId>>
compta == <<attendu, voulue, ecrases>>
catalogue == <<tables, req, volet, pages, gestes, ventes, compta>>

Existants == {p \in Produits : produits[p] # Aucun}
Ferme == [de |-> Aucun]

\* new Date(day): midnight, UTC.
Minuit(j) == 2 * j

\* Mutant: the form shows the local day, west of Greenwich.
ToDateInputLocal(t) == (t - 1) \div 2

\* The form shows the UTC day of an instant.
ToDateInput(t) == t \div 2

\* Announcements: the days of the body become the window of the row, the other
\* fields of a row are left out.  The e-mails of a creation are not awaited.
Fenetre(champs) == [debut |-> Minuit(champs.debut), fin |-> Minuit(champs.fin)]

Premiere == CHOOSE c \in Categories : TRUE

InitCatalogue ==
  /\ volet \in Volets
  /\ categories \in {{Premiere}, Categories} /\ nees = categories
  /\ produits = [p \in Produits |->
       IF volet = "produits" /\ p # CHOOSE q \in Produits : TRUE THEN Aucun
       ELSE [categorie |-> Premiere, stock |-> 2, image |-> Aucun, actif |-> TRUE]]
  /\ vendus = {}
  /\ voulue \in [Annonces ->
                    CASE volet = "annonces" -> {Aucun, [debut |-> 0, fin |-> 1]}
                      [] volet = "accueil" -> [debut : {0}, fin : {1, 2}]
                      [] OTHER -> {Aucun}]
  /\ volet = "annonces" => \A a, b \in Annonces : voulue[a] = voulue[b]
  /\ annonces = [a \in Annonces |->
       IF voulue[a] = Aucun THEN Aucun ELSE Fenetre(voulue[a])]
  /\ horloge = 0
  /\ req = [r \in Creneaux |-> Aucun]
  /\ liste = [produits |-> produits, categories |-> categories,
              annonces |-> annonces]
  /\ rafraichit = FALSE
  /\ form = Ferme
  /\ brouillons = [p \in Produits |-> Aucun]
  /\ savingId = Aucun
  /\ gestes = 0 /\ ventes = 0
  /\ attendu = [p \in Produits |-> 2]
  /\ ecrases = {}

----------------------------------------------------------------------------
(* The services.                                                           *)

Avance(r, rep) == req' = [req EXCEPT ![r].rep = rep]
Attend(r, etape) == req[r] # Aucun /\ req[r].rep = etape

\* ensureCategorieExists, and the foreign key of a product on its category.
CleEtrangere(champs) ==
  champs.categorie # Aucun => champs.categorie \in categories

\* findOne and ensureCategorieExists.
Verifier(r) ==
  LET d == req[r]
      existe == CASE d.op = "creer" -> TRUE
                  [] d.op \in {"modifier", "retirer", "supprimer"} ->
                       d.id \in Existants
                  [] d.op = "supprimerCategorie" -> d.id \in categories
                  [] d.op \in {"modifierAnnonce", "supprimerAnnonce"} ->
                       annonces[d.id] # Aucun
                  [] OTHER -> TRUE
      categorie == d.op \in {"creer", "modifier"} => CleEtrangere(d.champs)
  IN
  /\ Attend(r, "envoyee")
  /\ Avance(r, IF existe /\ categorie THEN "lue" ELSE "erreur")
  /\ UNCHANGED <<tables, volet, pages, gestes, ventes, compta>>

Ecrire(r, possible, Ecriture) ==
  /\ Attend(r, "lue")
  /\ IF possible THEN Ecriture /\ Avance(r, "ok")
                 ELSE /\ Avance(r, "erreur")
                      /\ UNCHANGED <<tables, compta>>
  /\ UNCHANGED <<volet, pages, gestes, ventes>>

\* A written quantity that somebody typed is the new stock; one that was only
\* copied was not meant to change it.
Compter(p, champs, saisi, base) ==
  /\ UNCHANGED voulue
  /\ IF champs.stock = Aucun THEN UNCHANGED <<attendu, ecrases>>
     ELSE IF saisi THEN /\ attendu' = [attendu EXCEPT ![p] = champs.stock]
                        /\ ecrases' = ecrases \ {p}
     ELSE /\ ecrases' = IF base.stock # produits[p].stock
                          THEN ecrases \cup {p} ELSE ecrases
          /\ UNCHANGED attendu

\* create: the row has the fields of the body.
Create(r) ==
  LET d == req[r] IN
  /\ req[r] # Aucun /\ d.op = "creer"
  /\ Ecrire(r, CleEtrangere(d.champs) /\ Produits \ Existants # {},
       \E p \in Produits \ Existants :
         /\ produits' = [produits EXCEPT ![p] = [d.champs EXCEPT !.actif = TRUE]]
         /\ attendu' = [attendu EXCEPT ![p] = d.champs.stock]
         /\ ecrases' = ecrases \ {p}
         /\ UNCHANGED <<categories, nees, vendus, annonces, horloge, voulue>>)

\* Only the fields of the body are written.
Ou(valeur, avant) == IF valeur = Aucun THEN avant ELSE valeur
Ecrite(p, champs) ==
  [categorie |-> Ou(champs.categorie, produits[p].categorie),
   stock |-> Ou(champs.stock, produits[p].stock),
   image |-> Ou(champs.image, produits[p].image),
   actif |-> champs.actif \/ produits[p].actif]

Update(r) ==
  LET d == req[r] IN
  /\ req[r] # Aucun /\ d.op = "modifier"
  /\ Ecrire(r, d.id \in Existants /\ CleEtrangere(d.champs),
       /\ produits' = [produits EXCEPT ![d.id] = Ecrite(d.id, d.champs)]
       /\ Compter(d.id, d.champs, d.saisi, d.base)
       /\ UNCHANGED <<categories, nees, vendus, annonces, horloge>>)

\* Mutant: the row that the page had is written back, deactivated.
RetraitDeLaLigne(p) == [liste.produits[p] EXCEPT !.actif = FALSE]

\* remove writes isAvailable alone.
Retrait(p) == [produits[p] EXCEPT !.actif = FALSE]

RemoveProduit(r) ==
  LET d == req[r] IN
  /\ req[r] # Aucun /\ d.op = "retirer"
  /\ Ecrire(r, d.id \in Existants,
       /\ produits' = [produits EXCEPT ![d.id] = Retrait(d.id)]
       /\ UNCHANGED <<categories, nees, vendus, annonces, horloge, compta>>)

\* onDelete: Restrict of CommandeProduit.
Effacable(p) == p \in Existants /\ p \notin vendus

\* hardRemove.
HardRemove(r) ==
  LET d == req[r] IN
  /\ req[r] # Aucun /\ d.op = "supprimer"
  /\ Ecrire(r, Effacable(d.id),
       /\ produits' = [produits EXCEPT ![d.id] = Aucun]
       /\ UNCHANGED <<categories, nees, vendus, annonces, horloge, compta>>)

\* Mutant: the products the admin's page shows are looked at.
CategorieVideAffichee(c) ==
  c \in categories /\ \A p \in Existants :
    liste.produits[p] = Aucun \/ liste.produits[p].categorie # c

\* onDelete: Restrict of Produit.categorie.
CategorieVide(c) ==
  c \in categories /\ \A p \in Existants : produits[p].categorie # c

RemoveCategorie(r) ==
  LET d == req[r] IN
  /\ req[r] # Aucun /\ d.op = "supprimerCategorie"
  /\ Ecrire(r, CategorieVide(d.id),
       /\ categories' = categories \ {d.id}
       /\ UNCHANGED <<nees, produits, vendus, annonces, horloge, compta>>)

\* The name of a category is unique.
CreateCategorie(r) ==
  LET d == req[r] IN
  /\ req[r] # Aucun /\ d.op = "creerCategorie"
  /\ Ecrire(r, d.id \notin categories,
       /\ categories' = categories \cup {d.id}
       /\ nees' = nees \cup {d.id}
       /\ UNCHANGED <<produits, vendus, annonces, horloge, compta>>)

\* create and update of announcements.
AnnonceEcrire(r) ==
  LET d == req[r] IN
  /\ req[r] # Aucun /\ d.op \in {"creerAnnonce", "modifierAnnonce"}
  /\ Ecrire(r, d.op = "creerAnnonce" \/ annonces[d.id] # Aucun,
       \E a \in IF d.op = "modifierAnnonce" THEN {d.id}
                ELSE {a \in Annonces : voulue[a] = Aucun} :
         /\ annonces' = [annonces EXCEPT ![a] = Fenetre(d.champs)]
         /\ IF d.saisi
              THEN /\ voulue' = [voulue EXCEPT ![a] = d.champs]
                   /\ ecrases' = ecrases \ {a}
              ELSE /\ ecrases' = IF d.base # annonces[a]
                                   THEN ecrases \cup {a} ELSE ecrases
                   /\ UNCHANGED voulue
         /\ UNCHANGED <<categories, nees, produits, vendus, horloge, attendu>>)

RemoveAnnonce(r) ==
  LET d == req[r] IN
  /\ req[r] # Aucun /\ d.op = "supprimerAnnonce"
  /\ Ecrire(r, annonces[d.id] # Aucun,
       /\ annonces' = [annonces EXCEPT ![d.id] = Aucun]
       /\ UNCHANGED <<categories, nees, produits, vendus, horloge, compta>>)

\* findActive.
Actives == {a \in Annonces : /\ annonces[a] # Aucun
                             /\ annonces[a].debut <= horloge
                             /\ horloge <= annonces[a].fin}

\* An order takes one unit out of the stock; its line refers to the product.
Vendre(p) ==
  /\ ventes < MaxVentes
  /\ p \in Existants /\ produits[p].actif /\ produits[p].stock > 0
  /\ produits' = [produits EXCEPT ![p].stock = @ - 1]
  /\ vendus' = vendus \cup {p}
  /\ attendu' = [attendu EXCEPT ![p] = @ - 1]
  /\ ventes' = ventes + 1
  /\ UNCHANGED <<categories, nees, annonces, horloge, req, volet, pages, gestes,
                 voulue, ecrases>>

----------------------------------------------------------------------------
(* The admin's pages.                                                      *)

Geste == gestes < MaxGestes[volet] /\ gestes' = gestes + 1

\* A component of the page sends a request, in a free slot: they are alike.
Envoyer(r, op, id, champs, saisi, base, par) ==
  /\ req[r] = Aucun /\ r = CHOOSE libre \in Creneaux : req[libre] = Aucun
  /\ req' = [req EXCEPT ![r] = [op |-> op, id |-> id, champs |-> champs,
               saisi |-> saisi, base |-> base, par |-> par, rep |-> "envoyee"]]

Page(v) == volet = v /\ UNCHANGED <<tables, volet, ventes, compta>>

\* router.refresh comes back.
Rafraichir ==
  /\ rafraichit
  /\ liste' = [produits |-> produits, categories |-> categories,
               annonces |-> annonces]
  /\ rafraichit' = FALSE
  /\ UNCHANGED <<tables, req, volet, form, brouillons, savingId, gestes,
                 ventes, compta>>

\* ProductForm: opened on a product of the list, or for a new one, which is
\* refused as long as there is no category.
OuvrirForm(p) ==
  LET vu == IF p \in Produits THEN liste.produits[p]
            ELSE [categorie |-> CHOOSE c \in liste.categories : TRUE,
                  stock |-> 0, image |-> Aucun]
  IN
  /\ Page("produits") /\ Geste
  /\ p \in Produits \/ liste.categories # {}
  /\ form = Ferme /\ vu # Aucun
  /\ form' = [de |-> p, categorie |-> vu.categorie, stock |-> vu.stock,
              saisi |-> p = "nouveau", base |-> [stock |-> vu.stock],
              image |-> vu.image, choisie |-> vu.image,
              envois |-> {}, uploading |-> FALSE, melange |-> FALSE,
              envoi |-> Aucun]
  /\ UNCHANGED <<req, liste, rafraichit, brouillons, savingId>>

\* AnnouncementForm: the days of the announcement, or today and no last day.
OuvrirAnnonce(a) ==
  LET neuve == a \notin Annonces
      vu == IF neuve THEN [debut |-> horloge, fin |-> horloge]
            ELSE liste.annonces[a]
      image == IF neuve THEN Aucun ELSE CHOOSE i \in Images : TRUE
  IN
  /\ Page("annonces") /\ Geste
  /\ form = Ferme /\ vu # Aucun
  /\ form' = [de |-> a, debut |-> ToDateInput(vu.debut),
              fin |-> IF neuve THEN Aucun ELSE ToDateInput(vu.fin),
              saisi |-> neuve, base |-> vu, image |-> image, choisie |-> image,
              envois |-> {}, uploading |-> FALSE, melange |-> FALSE,
              envoi |-> Aucun]
  /\ UNCHANGED <<req, liste, rafraichit, brouillons, savingId>>

SaisirDates ==
  /\ Page("annonces") /\ Geste /\ form # Ferme
  /\ \E j \in 0..(MaxTemps \div 2) :
       \/ form' = [form EXCEPT !.debut = j, !.saisi = TRUE]
       \/ form' = [form EXCEPT !.fin = j, !.saisi = TRUE]
  /\ UNCHANGED <<req, liste, rafraichit, brouillons, savingId>>

\* A field of the form changes.
Saisir ==
  /\ Page("produits") /\ Geste /\ form # Ferme
  /\ \/ \E s \in Stocks : form' = [form EXCEPT !.stock = s, !.saisi = TRUE]
     \/ \E c \in liste.categories \ {form.categorie} :
          form' = [form EXCEPT !.categorie = c]
  /\ UNCHANGED <<req, liste, rafraichit, brouillons, savingId>>

\* handleFileChange: another upload may be on its way.
ChoisirImage(i) ==
  /\ volet \in {"produits", "annonces"} /\ Page(volet) /\ Geste /\ form # Ferme
  /\ form' = [form EXCEPT !.envois = @ \cup {i}, !.uploading = TRUE,
                          !.choisie = i, !.melange = @ \/ form.envois # {}]
  /\ UNCHANGED <<req, liste, rafraichit, brouillons, savingId>>

\* POST /uploads answers with the URL, or fails; either ends "uploading".
FinEnvoi(i) ==
  /\ Page(volet) /\ form # Ferme /\ i \in form.envois
  /\ \E ok \in BOOLEAN :
       form' = [form EXCEPT !.envois = @ \ {i}, !.uploading = FALSE,
                  !.image = IF ok THEN i ELSE @,
                  !.choisie = IF ok THEN @ ELSE form.image]
  /\ UNCHANGED <<req, liste, rafraichit, brouillons, savingId, gestes>>

\* loading is "envoi # Aucun", the request this form waits for.
SoumissionOuverte == form # Ferme /\ form.envoi = Aucun /\ ~form.uploading

\* handleSubmit sends every field, the stock that nobody changed too.
Soumettre(r) ==
  LET champs == [Vide EXCEPT !.categorie = form.categorie, !.stock = form.stock,
                             !.image = form.image]
  IN
  /\ Page("produits") /\ Geste /\ SoumissionOuverte
  /\ Envoyer(r, IF form.de \in Produits THEN "modifier" ELSE "creer", form.de,
             champs, form.saisi, form.base,
             "form")
  /\ form' = [form EXCEPT !.envoi = r]
  /\ UNCHANGED <<liste, rafraichit, brouillons, savingId>>

\* An announcement needs its medium and its last day.
SoumettreAnnonce(r) ==
  /\ Page("annonces") /\ Geste /\ SoumissionOuverte
  /\ form.image # Aucun /\ form.fin # Aucun
  /\ Envoyer(r, IF form.de \in Annonces THEN "modifierAnnonce"
                                         ELSE "creerAnnonce",
             form.de, [debut |-> form.debut, fin |-> form.fin], form.saisi,
             form.base, "form")
  /\ form' = [form EXCEPT !.envoi = r]
  /\ UNCHANGED <<liste, rafraichit, brouillons, savingId>>

\* handleDelete, of AnnouncementsAdmin.
SupprimerAnnonce(r, a) ==
  /\ Page("annonces") /\ Geste /\ form = Ferme /\ liste.annonces[a] # Aucun
  /\ Envoyer(r, "supprimerAnnonce", a, Vide, FALSE, Aucun, "liste")
  /\ UNCHANGED pages

\* Half a day passes.
Passer ==
  /\ volet \in {"annonces", "accueil"} /\ horloge < MaxTemps
  /\ horloge' = horloge + 1
  /\ UNCHANGED <<categories, nees, produits, vendus, annonces, req, volet, pages,
                 gestes, ventes, compta>>

\* The modal is closed by its cross or by Escape, at any time.
FermerForm ==
  /\ Page(volet) /\ form # Ferme /\ Geste
  /\ form' = Ferme
  /\ UNCHANGED <<req, liste, rafraichit, brouillons, savingId>>

\* toggleAvailability and handleDelete, of ProductsAdmin.
BoutonsProduit(r, p) ==
  /\ Page("produits") /\ Geste /\ form = Ferme /\ liste.produits[p] # Aucun
  /\ \/ /\ liste.produits[p].actif
        /\ Envoyer(r, "retirer", p, Vide, FALSE, Aucun, "liste")
     \/ /\ ~liste.produits[p].actif
        /\ Envoyer(r, "modifier", p, [Vide EXCEPT !.actif = TRUE], FALSE, Aucun, "liste")
     \/ Envoyer(r, "supprimer", p, Vide, FALSE, Aucun, "liste")
  /\ UNCHANGED pages

\* handleAdd and handleDelete, of CategoriesPanel.
BoutonsCategorie(r, c) ==
  /\ Page("produits") /\ Geste /\ form = Ferme
  /\ \/ c \in liste.categories
        /\ Envoyer(r, "supprimerCategorie", c, Vide, FALSE, Aucun, "liste")
     \/ /\ c \in categories \/ c \notin nees
        /\ Envoyer(r, "creerCategorie", c, Vide, FALSE, Aucun, "liste")
  /\ UNCHANGED pages

\* InventoryAdmin: a quantity is typed; saveStock, unless this product is the
\* one being saved.
TaperStock(p, s) ==
  /\ Page("inventaire") /\ Geste /\ liste.produits[p] # Aucun
  /\ brouillons' = [brouillons EXCEPT ![p] = s]
  /\ UNCHANGED <<req, liste, rafraichit, form, savingId>>

SaveStock(r, p) ==
  /\ Page("inventaire") /\ Geste
  /\ brouillons[p] # Aucun /\ savingId # p
  /\ Envoyer(r, "modifier", p, [Vide EXCEPT !.stock = brouillons[p]], TRUE, Aucun,
             p)
  /\ savingId' = p
  /\ UNCHANGED <<liste, rafraichit, form, brouillons>>

\* An answer.  A form that is saved closes whatever modal is open (onDone),
\* also another form opened since; an error is for the form itself, if it is
\* still there.  The answer to saveStock deletes the draft, also one typed
\* meanwhile, and sets savingId to null, also the one of another product.
Repondre(r) ==
  LET d == req[r]  ok == d.rep = "ok" IN
  /\ req[r] # Aucun /\ d.rep \in {"ok", "erreur"}
  /\ req' = [req EXCEPT ![r] = Aucun]
  /\ rafraichit' = (rafraichit \/ ok)
  /\ form' = IF d.par # "form" \/ form = Ferme THEN form
             ELSE IF ok THEN Ferme
             ELSE IF form.envoi = r THEN [form EXCEPT !.envoi = Aucun] ELSE form
  /\ IF d.par \in Produits
       THEN /\ brouillons' = IF ok THEN [brouillons EXCEPT ![d.par] = Aucun]
                                   ELSE brouillons
            /\ savingId' = Aucun
       ELSE UNCHANGED <<brouillons, savingId>>
  /\ UNCHANGED <<tables, volet, liste, gestes, ventes, compta>>

----------------------------------------------------------------------------
Service(r) ==
  \/ Verifier(r) \/ Create(r) \/ Update(r) \/ RemoveProduit(r) \/ HardRemove(r)
  \/ RemoveCategorie(r) \/ CreateCategorie(r)
  \/ AnnonceEcrire(r) \/ RemoveAnnonce(r) \/ Repondre(r)

NextCatalogue ==
  \/ \E r \in Creneaux : Service(r) \/ Soumettre(r) \/ SoumettreAnnonce(r)
  \/ volet \in {"produits", "inventaire"} /\ \E p \in Produits : Vendre(p)
  \/ Rafraichir \/ Passer
  \/ \E p \in Produits \cup {"nouveau"} : OuvrirForm(p)
  \/ \E a \in Annonces \cup {"nouvelle"} : OuvrirAnnonce(a)
  \/ \E r \in Creneaux, a \in Annonces : SupprimerAnnonce(r, a)
  \/ Saisir \/ SaisirDates \/ FermerForm
  \/ \E i \in Images : ChoisirImage(i) \/ FinEnvoi(i)
  \/ \E r \in Creneaux, p \in Produits : BoutonsProduit(r, p) \/ SaveStock(r, p)
  \/ \E r \in Creneaux, c \in Categories : BoutonsCategorie(r, c)
  \/ \E p \in Produits, s \in Stocks : TaperStock(p, s)

----------------------------------------------------------------------------
TypeCatalogue ==
  /\ categories \subseteq nees /\ nees \subseteq Categories
  /\ produits \in [Produits -> LigneT \cup {Aucun}]
  /\ vendus \subseteq Produits
  /\ annonces \in [Annonces -> FenetreT \cup {Aucun}] /\ horloge \in 0..MaxTemps
  /\ req \in [Creneaux -> DemandeT \cup {Aucun}]
  /\ liste \in [produits : [Produits -> LigneT \cup {Aucun}],
                categories : SUBSET Categories,
                annonces : [Annonces -> FenetreT \cup {Aucun}]]
  /\ form = Ferme \/ form.de \in Produits \cup Annonces \cup
                                  {"nouveau", "nouvelle"}
  /\ brouillons \in [Produits -> Stocks \cup {Aucun}]
  /\ savingId \in Produits \cup {Aucun}
  /\ attendu \in [Produits -> Int] /\ ecrases \subseteq Produits \cup Annonces

\* Every product has its category and every line of an order its product,
\* although the handlers check before they write and an admin may delete
\* meanwhile (products.service.ts:90, categories.service.ts:36).
LiensGardes ==
  /\ \A p \in Existants : produits[p].categorie \in categories
  /\ vendus \subseteq Existants

\* The stock is what the sales and the quantities an admin typed amount to,
\* whatever else was saved meanwhile: but for the form, which sends back the
\* stock it was opened with (products.service.ts:71, product-form.tsx:72).
StockCompte ==
  \A p \in Existants : produits[p].stock = attendu[p] \/ p \in ecrases

\* The image a form can send is the last one chosen whose upload succeeded, as
\* long as no two uploads were on their way (product-form.tsx:48).
ImageChoisie ==
  SoumissionOuverte /\ ~form.melange => form.image = form.choisie

\* An announcement is shown from the midnight its first day begins to the one
\* its last day begins, as the admin chose them, whatever was saved meanwhile
\* without touching them: but for a form opened before another one was saved
\* (announcement-form.tsx:31-33,64-65, announcements.service.ts:22).
FenetreChoisie ==
  \A a \in Annonces : annonces[a] # Aucun /\ a \notin ecrases =>
    (a \in Actives <=> horloge \in 2 * voulue[a].debut..2 * voulue[a].fin)

\* The tables keep their types and their links.
CatalogueCoherent == TypeCatalogue /\ LiensGardes

\* What an admin chose in a form is what is saved: the image and the days.
ChoixGardes == ImageChoisie /\ FenetreChoisie
=============================================================================
