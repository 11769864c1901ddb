--------------------------- MODULE GestionPreuves ---------------------------
(***************************************************************************)
(* Proofs about Gestion.  The parts of the module share no state, so each  *)
(* has its own inductive invariant: the catalogue (EncoursJuste), the      *)
(* front page and the dashboard, the documents, the profile.               *)
(***************************************************************************)
EXTENDS Gestion, FiniteSetTheorems, WellFoundedInduction, TLAPS

----------------------------------------------------------------------------
(* The catalogue.                                                          *)

\* Midnights: what a form reads back as days is what it was.
Ronde(w) == w.debut % 2 = 0 /\ w.fin % 2 = 0

\* The tables, and what was meant for them.
TablesJustes ==
  /\ categories \subseteq nees /\ nees \subseteq Categories
  /\ produits \in [Produits -> LigneT \cup {Aucun}]
  /\ vendus \subseteq Produits
  /\ annonces \in [Annonces -> FenetreT \cup {Aucun}]
  /\ voulue \in [Annonces -> FenetreT \cup {Aucun}]
  /\ horloge \in 0..MaxTemps
  /\ attendu \in [Produits -> Int] /\ ecrases \subseteq Produits \cup Annonces
  /\ LiensGardes /\ StockCompte
  /\ \A a \in Annonces : annonces[a] # Aucun => Ronde(annonces[a])
  /\ \A a \in Annonces : annonces[a] # Aucun /\ a \notin ecrases =>
       voulue[a] # Aucun /\ annonces[a] = Fenetre(voulue[a])

\* What a request may be: its id and its body are those of its operation, and
\* a quantity or days that nobody typed are those its form was opened with.
DemandeJuste(d) ==
  /\ d.op \in DuProduit \ {"creer"} => d.id \in Produits
  /\ d.op \in {"creer", "modifier"} => d.champs \in CorpsT
  /\ d.op = "creer" => d.champs.categorie # Aucun /\ d.champs.stock # Aucun
  /\ d.op = "modifier" /\ ~d.saisi /\ d.champs.stock # Aucun =>
       d.champs.stock = d.base.stock
  /\ d.op \in DeLaCategorie => d.id \in Categories
  /\ d.op \in {"modifierAnnonce", "supprimerAnnonce"} => d.id \in Annonces
  /\ d.op \in {"creerAnnonce", "modifierAnnonce"} => d.champs \in FenetreT
  /\ d.op = "creerAnnonce" => d.saisi
  /\ d.op = "modifierAnnonce" /\ ~d.saisi => d.base = Fenetre(d.champs)

DemandesJustes ==
  /\ req \in [Creneaux -> DemandeT \cup {Aucun}]
  /\ \A r \in Creneaux : req[r] # Aucun => DemandeJuste(req[r])

\* The forms.
FormeProduitT ==
  [de : Produits \cup {"nouveau"}, categorie : Categories, stock : Nat,
   saisi : BOOLEAN, base : [stock : Nat], image : Images \cup {Aucun},
   choisie : Images \cup {Aucun}, envois : SUBSET Images, uploading : BOOLEAN,
   melange : BOOLEAN, envoi : Creneaux \cup {Aucun}]

FormeAnnonceT ==
  [de : Annonces \cup {"nouvelle"}, debut : Int, fin : Int \cup {Aucun},
   saisi : BOOLEAN, base : FenetreT, image : Images \cup {Aucun},
   choisie : Images \cup {Aucun}, envois : SUBSET Images, uploading : BOOLEAN,
   melange : BOOLEAN, envoi : Creneaux \cup {Aucun}]

\* One upload at a time is on its way, or none and the last choice is settled.
Posee(f) ==
  ~f.melange => \/ f.envois = {} /\ f.image = f.choisie
                \/ f.uploading /\ f.envois = {f.choisie}

FormeDuProduit(f) == f \in FormeProduitT /\ (~f.saisi => f.stock = f.base.stock)

FormeDeLAnnonce(f) ==
  /\ f \in FormeAnnonceT
  /\ f.de \notin Annonces => f.saisi
  /\ ~f.saisi => f.fin # Aucun /\ f.base = Fenetre(f)

FormeJuste ==
  form # Ferme =>
    /\ Posee(form)
    /\ volet \in {"produits", "annonces"}
    /\ volet = "produits" => FormeDuProduit(form)
    /\ volet = "annonces" => FormeDeLAnnonce(form)

PagesJustes ==
  /\ liste \in [produits : [Produits -> LigneT \cup {Aucun}],
                categories : SUBSET Categories,
                annonces : [Annonces -> FenetreT \cup {Aucun}]]
  /\ \A a \in Annonces : liste.annonces[a] # Aucun => Ronde(liste.annonces[a])
  /\ brouillons \in [Produits -> Stocks \cup {Aucun}]
  /\ savingId \in Produits \cup {Aucun}
  /\ FormeJuste

EncoursJuste == TablesJustes /\ DemandesJustes /\ PagesJustes

\* What the proofs use of the modal that is closed.
LEMMA FormeOuverte ==
  ASSUME CatalogueAssumption
  PROVE  /\ \A f \in FormeProduitT : f # Ferme
         /\ \A f \in FormeAnnonceT : f # Ferme
  BY DEF CatalogueAssumption, FormeProduitT, FormeAnnonceT, Ferme

\* Days that a form reads out of a window make that window again.
LEMMA Relue ==
  ASSUME NEW w \in FenetreT, Ronde(w)
  PROVE  /\ Minuit(ToDateInput(w.debut)) = w.debut
         /\ Minuit(ToDateInput(w.fin)) = w.fin
         /\ ToDateInput(w.debut) \in Int /\ ToDateInput(w.fin) \in Int
  BY DEF FenetreT, Ronde, Minuit, ToDateInput

LEMMA FenetreRonde ==
  ASSUME NEW w \in FenetreT
  PROVE  Fenetre(w) \in FenetreT /\ Ronde(Fenetre(w))
  BY DEF FenetreT, Ronde, Minuit, Fenetre

\* A request goes on: only its answer changes.
LEMMA DemandeAvance ==
  ASSUME CatalogueAssumption, DemandesJustes, NEW r \in Creneaux, req[r] # Aucun,
         NEW e \in {"lue", "ok", "erreur"}, Avance(r, e)
  PROVE  DemandesJustes'
<1>1. req[r] \in DemandeT
  BY DEF DemandesJustes
<1>2. [req[r] EXCEPT !.rep = e] \in DemandeT
  BY <1>1 DEF DemandeT
<1>3. DemandeJuste([req[r] EXCEPT !.rep = e])
  BY <1>1 DEF DemandesJustes, DemandeJuste, DemandeT
<1>4. req' = [req EXCEPT ![r] = [req[r] EXCEPT !.rep = e]]
  BY DEF Avance
<1> QED
  BY <1>2, <1>3, <1>4 DEF DemandesJustes

\* A request leaves.
LEMMA DemandeEnvoyee ==
  ASSUME CatalogueAssumption, DemandesJustes, NEW r \in Creneaux,
         NEW d \in DemandeT, DemandeJuste(d), req' = [req EXCEPT ![r] = d]
  PROVE  DemandesJustes'
  BY DEF DemandesJustes

\* The pages are left alone by what leaves their variables alone.
LEMMA PagesLaissees ==
  ASSUME PagesJustes, UNCHANGED <<volet, pages>>
  PROVE  PagesJustes'
  BY DEF PagesJustes, pages, FormeJuste

LEMMA TablesLaissees ==
  ASSUME TablesJustes, UNCHANGED <<tables, compta>>
  PROVE  TablesJustes'
  BY DEF TablesJustes, tables, compta, LiensGardes, StockCompte, Existants

\* The steps of the services.
LEMMA PasVerifier ==
  ASSUME CatalogueAssumption, EncoursJuste, NEW r \in Creneaux, Verifier(r)
  PROVE  EncoursJuste'
<1>1. PICK e \in {"lue", "erreur"} : Avance(r, e)
  BY DEF Verifier
<1>2. req[r] # Aucun /\ UNCHANGED <<tables, volet, pages, compta>>
  BY DEF Verifier, Attend
<1> QED
  BY <1>1, <1>2, DemandeAvance, PagesLaissees, TablesLaissees DEF EncoursJuste

\* A handler that wrote its row, or was refused.
LEMMA PasEcrire ==
  ASSUME CatalogueAssumption, EncoursJuste, NEW r \in Creneaux, req[r] # Aucun,
         UNCHANGED <<volet, pages>>,
         \/ Avance(r, "ok") /\ TablesJustes'
         \/ Avance(r, "erreur") /\ UNCHANGED <<tables, compta>>
  PROVE  EncoursJuste'
  BY DemandeAvance, PagesLaissees, TablesLaissees DEF EncoursJuste

LEMMA PasCreate ==
  ASSUME CatalogueAssumption, EncoursJuste, NEW r \in Creneaux, Create(r)
  PROVE  EncoursJuste'
<1> DEFINE d == req[r]
<1>1. /\ d # Aucun /\ d.op = "creer" /\ UNCHANGED <<volet, pages>>
      /\ d \in DemandeT /\ DemandeJuste(d)
  BY DEF Create, Ecrire, EncoursJuste, DemandesJustes
<1>2. /\ d.champs \in CorpsT /\ d.champs.categorie # Aucun
      /\ d.champs.stock # Aucun
  BY <1>1 DEF DemandeJuste
<1>3. CASE ~(CleEtrangere(d.champs) /\ Produits \ Existants # {})
  BY <1>1, <1>3, PasEcrire DEF Create, Ecrire
<1>4. CASE CleEtrangere(d.champs) /\ Produits \ Existants # {}
  <2> DEFINE ligne0 == [d.champs EXCEPT !.actif = TRUE]
  <2>1. PICK p \in Produits \ Existants :
          /\ produits' = [produits EXCEPT ![p] = ligne0]
          /\ attendu' = [attendu EXCEPT ![p] = d.champs.stock]
          /\ ecrases' = ecrases \ {p}
          /\ UNCHANGED <<categories, nees, vendus, annonces, horloge, voulue>>
    BY <1>1, <1>4 DEF Create, Ecrire
  <2>2. /\ ligne0 \in LigneT /\ ligne0.categorie \in categories
        /\ ligne0.stock = d.champs.stock /\ ligne0.stock \in Nat
    BY <1>2, <1>4 DEF CleEtrangere, CorpsT, LigneT
  <2> HIDE DEF ligne0, d
  <2>3. TablesJustes'
    <3> USE DEF EncoursJuste, TablesJustes, CatalogueAssumption
    <3>1. produits' \in [Produits -> LigneT \cup {Aucun}]
      BY <2>1, <2>2
    <3>2. attendu' \in [Produits -> Int]
      BY <2>1, <2>2
    <3>3. Existants' = Existants \cup {p}
      BY <2>1, <2>2 DEF Existants
    <3>4. LiensGardes'
      BY <2>1, <2>2, <3>3 DEF LiensGardes, Existants
    <3>5. StockCompte'
      BY <2>1, <2>2, <3>3 DEF StockCompte, Existants
    <3> QED
      BY <2>1, <3>1, <3>2, <3>4, <3>5
  <2>4. Avance(r, "ok")
    BY <1>1, <1>4 DEF Create, Ecrire, d
  <2> QED
    BY <1>1, <2>3, <2>4, PasEcrire DEF d
<1> QED
  BY <1>3, <1>4

LEMMA PasUpdate ==
  ASSUME CatalogueAssumption, EncoursJuste, NEW r \in Creneaux, Update(r)
  PROVE  EncoursJuste'
<1> DEFINE d == req[r]  p == d.id
<1>1. /\ d # Aucun /\ d.op = "modifier" /\ UNCHANGED <<volet, pages>>
      /\ d \in DemandeT /\ DemandeJuste(d)
  BY DEF Update, Ecrire, EncoursJuste, DemandesJustes
<1>2. /\ d.champs \in CorpsT /\ d.saisi \in BOOLEAN /\ p \in Produits
      /\ ~d.saisi /\ d.champs.stock # Aucun => d.champs.stock = d.base.stock
  BY <1>1 DEF DemandeJuste, DemandeT, DuProduit
<1>3. CASE ~(p \in Existants /\ CleEtrangere(d.champs))
  BY <1>1, <1>3, PasEcrire DEF Update, Ecrire
<1>4. CASE p \in Existants /\ CleEtrangere(d.champs)
  <2> DEFINE l == Ecrite(p, d.champs)
  <2>1. /\ produits' = [produits EXCEPT ![p] = l]
        /\ Compter(p, d.champs, d.saisi, d.base)
        /\ UNCHANGED <<categories, nees, vendus, annonces, horloge>>
        /\ Avance(r, "ok")
    BY <1>1, <1>4 DEF Update, Ecrire
  <2>2. produits[p] \in LigneT /\ produits[p].categorie \in categories
    BY <1>2, <1>4 DEF EncoursJuste, TablesJustes, LiensGardes, Existants
  <2>3. /\ l \in LigneT /\ l.categorie \in categories
        /\ l.stock = IF d.champs.stock = Aucun THEN produits[p].stock
                                               ELSE d.champs.stock
    BY <1>2, <1>4, <2>2 DEF Ecrite, Ou, CleEtrangere, CorpsT, LigneT
  <2>4. d.champs.stock \in Nat \cup {Aucun}
    BY <1>2 DEF CorpsT
  <2>5. \/ d.champs.stock = Aucun /\ UNCHANGED <<attendu, ecrases>>
        \/ /\ d.champs.stock \in Nat
           /\ attendu' = [attendu EXCEPT ![p] = d.champs.stock]
           /\ ecrases' = ecrases \ {p}
        \/ /\ d.champs.stock \in Nat /\ d.champs.stock = produits[p].stock
           /\ UNCHANGED <<attendu, ecrases>>
        \/ /\ d.champs.stock \in Nat
           /\ ecrases' = ecrases \cup {p}
           /\ UNCHANGED attendu
    BY <1>2, <2>1, <2>4 DEF Compter
  <2>6. UNCHANGED voulue
    BY <2>1 DEF Compter
  <2> HIDE DEF l, d, p
  <2>7. TablesJustes'
    <3> USE DEF EncoursJuste, TablesJustes, CatalogueAssumption
    <3>1. produits' \in [Produits -> LigneT \cup {Aucun}]
      BY <1>2, <2>1, <2>3
    <3>2. attendu' \in [Produits -> Int] /\ ecrases' \subseteq Produits \cup Annonces
      BY <1>2, <2>5
    <3>3. Existants' = Existants
      BY <1>2, <1>4, <2>1, <2>3 DEF Existants
    <3>4. LiensGardes'
      BY <2>1, <2>3, <3>3 DEF LiensGardes, Existants
    <3>5. StockCompte'
      <4> SUFFICES ASSUME NEW x \in Existants
                   PROVE  produits'[x].stock = attendu'[x] \/ x \in ecrases'
        BY <3>3 DEF StockCompte
      <4>1. x \in Produits /\ (produits[x].stock = attendu[x] \/ x \in ecrases)
        BY DEF Existants, StockCompte
      <4>2. CASE x = p
        BY <4>1, <4>2, <1>2, <2>1, <2>3, <2>5
      <4>3. CASE x # p
        BY <4>1, <4>3, <1>2, <2>1, <2>5
      <4> QED
        BY <4>2, <4>3
    <3>6. \A a \in Annonces : annonces[a] # Aucun /\ a \notin ecrases' =>
            voulue[a] # Aucun /\ annonces[a] = Fenetre(voulue[a])
      BY <1>2, <2>5
    <3> QED
      BY <2>1, <2>6, <3>1, <3>2, <3>4, <3>5, <3>6
  <2> QED
    BY <1>1, <2>1, <2>7, PasEcrire DEF d
<1> QED
  BY <1>3, <1>4

LEMMA PasRemoveProduit ==
  ASSUME CatalogueAssumption, EncoursJuste, NEW r \in Creneaux, RemoveProduit(r)
  PROVE  EncoursJuste'
<1> DEFINE d == req[r]  p == d.id
<1>1. d # Aucun /\ UNCHANGED <<volet, pages>>
  BY DEF RemoveProduit, Ecrire
<1>2. CASE p \notin Existants
  BY <1>1, <1>2, PasEcrire DEF RemoveProduit, Ecrire
<1>3. CASE p \in Existants
  <2>1. /\ produits' = [produits EXCEPT ![p] = Retrait(p)]
        /\ UNCHANGED <<categories, nees, vendus, annonces, horloge, compta>>
        /\ Avance(r, "ok")
    BY <1>1, <1>3 DEF RemoveProduit, Ecrire
  <2>2. p \in Produits /\ produits[p] \in LigneT
    BY <1>3 DEF EncoursJuste, TablesJustes, Existants
  <2>3. /\ Retrait(p) \in LigneT /\ Retrait(p).stock = produits[p].stock
        /\ Retrait(p).categorie = produits[p].categorie
    BY <2>2 DEF Retrait, LigneT
  <2> HIDE DEF d, p
  <2>4. TablesJustes'
    <3> USE DEF EncoursJuste, TablesJustes, CatalogueAssumption, compta
    <3>1. produits' \in [Produits -> LigneT \cup {Aucun}]
      BY <2>1, <2>2, <2>3
    <3>2. Existants' = Existants
      BY <1>3, <2>1, <2>2, <2>3 DEF Existants
    <3>3. LiensGardes' /\ StockCompte'
      BY <2>1, <2>2, <2>3, <3>2 DEF LiensGardes, StockCompte, Existants
    <3> QED
      BY <2>1, <3>1, <3>3
  <2> QED
    BY <1>1, <2>1, <2>4, PasEcrire DEF d
<1> QED
  BY <1>2, <1>3

LEMMA PasHardRemove ==
  ASSUME CatalogueAssumption, EncoursJuste, NEW r \in Creneaux, HardRemove(r)
  PROVE  EncoursJuste'
<1> DEFINE d == req[r]  p == d.id
<1>1. d # Aucun /\ UNCHANGED <<volet, pages>>
  BY DEF HardRemove, Ecrire
<1>2. CASE ~Effacable(p)
  BY <1>1, <1>2, PasEcrire DEF HardRemove, Ecrire
<1>3. CASE Effacable(p)
  <2>1. /\ produits' = [produits EXCEPT ![p] = Aucun]
        /\ UNCHANGED <<categories, nees, vendus, annonces, horloge, compta>>
        /\ Avance(r, "ok")
    BY <1>1, <1>3 DEF HardRemove, Ecrire
  <2>2. p \in Produits /\ p \notin vendus
    BY <1>3 DEF Effacable, Existants
  <2> HIDE DEF d, p
  <2>3. TablesJustes'
    <3> USE DEF EncoursJuste, TablesJustes, CatalogueAssumption, compta
    <3>1. produits' \in [Produits -> LigneT \cup {Aucun}]
      BY <2>1, <2>2
    <3>2. Existants' = Existants \ {p}
      BY <2>1, <2>2 DEF Existants
    <3>3. LiensGardes' /\ StockCompte'
      BY <2>1, <2>2, <3>2 DEF LiensGardes, StockCompte, Existants
    <3> QED
      BY <2>1, <3>1, <3>3
  <2> QED
    BY <1>1, <2>1, <2>3, PasEcrire DEF d
<1> QED
  BY <1>2, <1>3

LEMMA PasRemoveCategorie ==
  ASSUME CatalogueAssumption, EncoursJuste, NEW r \in Creneaux, RemoveCategorie(r)
  PROVE  EncoursJuste'
<1> DEFINE c == req[r].id
<1>1. req[r] # Aucun /\ UNCHANGED <<volet, pages>>
  BY DEF RemoveCategorie, Ecrire
<1>2. CASE ~CategorieVide(c)
  BY <1>1, <1>2, PasEcrire DEF RemoveCategorie, Ecrire
<1>3. CASE CategorieVide(c)
  <2>1. /\ categories' = categories \ {c}
        /\ UNCHANGED <<nees, produits, vendus, annonces, horloge, compta>>
        /\ Avance(r, "ok")
    BY <1>1, <1>3 DEF RemoveCategorie, Ecrire
  <2> HIDE DEF c
  <2>2. TablesJustes'
    BY <1>3, <2>1 DEF EncoursJuste, TablesJustes, compta, CategorieVide,
       LiensGardes, StockCompte, Existants
  <2> QED
    BY <1>1, <2>1, <2>2, PasEcrire
<1> QED
  BY <1>2, <1>3

LEMMA PasCreateCategorie ==
  ASSUME CatalogueAssumption, EncoursJuste, NEW r \in Creneaux, CreateCategorie(r)
  PROVE  EncoursJuste'
<1> DEFINE c == req[r].id
<1>1. req[r] # Aucun /\ UNCHANGED <<volet, pages>> /\ c \in Categories
  BY DEF CreateCategorie, Ecrire, EncoursJuste, DemandesJustes, DemandeJuste,
     DeLaCategorie
<1>2. CASE c \in categories
  BY <1>1, <1>2, PasEcrire DEF CreateCategorie, Ecrire
<1>3. CASE c \notin categories
  <2>1. /\ categories' = categories \cup {c} /\ nees' = nees \cup {c}
        /\ UNCHANGED <<produits, vendus, annonces, horloge, compta>>
        /\ Avance(r, "ok")
    BY <1>1, <1>3 DEF CreateCategorie, Ecrire
  <2> HIDE DEF c
  <2>2. TablesJustes'
    BY <1>1, <2>1 DEF EncoursJuste, TablesJustes, compta,
       LiensGardes, StockCompte, Existants
  <2> QED
    BY <1>1, <2>1, <2>2, PasEcrire
<1> QED
  BY <1>2, <1>3

LEMMA PasAnnonceEcrire ==
  ASSUME CatalogueAssumption, EncoursJuste, NEW r \in Creneaux, AnnonceEcrire(r)
  PROVE  EncoursJuste'
<1> DEFINE d == req[r]  possible == d.op = "creerAnnonce" \/ annonces[d.id] # Aucun
<1>1. /\ d # Aucun /\ UNCHANGED <<volet, pages>> /\ d \in DemandeT
      /\ d.op \in {"creerAnnonce", "modifierAnnonce"} /\ DemandeJuste(d)
  BY DEF AnnonceEcrire, Ecrire, EncoursJuste, DemandesJustes
<1>2. /\ d.champs \in FenetreT /\ (d.op = "creerAnnonce" => d.saisi)
      /\ d.op = "modifierAnnonce" => d.id \in Annonces
      /\ d.op = "modifierAnnonce" /\ ~d.saisi => d.base = Fenetre(d.champs)
  BY <1>1 DEF DemandeJuste
<1>3. CASE ~possible
  BY <1>1, <1>3, PasEcrire DEF AnnonceEcrire, Ecrire
<1>4. CASE possible
  <2>1. PICK a \in Annonces :
          /\ annonces' = [annonces EXCEPT ![a] = Fenetre(d.champs)]
          /\ IF d.saisi
               THEN /\ voulue' = [voulue EXCEPT ![a] = d.champs]
                    /\ ecrases' = ecrases \ {a}
               ELSE /\ ecrases' = IF d.base # annonces[a]
                                    THEN ecrases \cup {a} ELSE ecrases
                    /\ UNCHANGED voulue
          /\ UNCHANGED <<categories, nees, produits, vendus, horloge, attendu>>
    BY <1>1, <1>2, <1>4 DEF AnnonceEcrire, Ecrire
  <2>2. Avance(r, "ok")
    BY <1>1, <1>4 DEF AnnonceEcrire, Ecrire
  <2>3. /\ Fenetre(d.champs) \in FenetreT /\ Ronde(Fenetre(d.champs))
        /\ Fenetre(d.champs) # Aucun /\ d.champs # Aucun
    BY <1>2, FenetreRonde DEF CatalogueAssumption
  <2>4. a \notin Produits
    BY DEF CatalogueAssumption
  <2>5. ~d.saisi => d.base = Fenetre(d.champs)
    BY <1>1, <1>2
  <2>6. d.saisi \in BOOLEAN
    BY <1>1 DEF DemandeT
  <2> HIDE DEF d
  <2>7. TablesJustes'
    <3> USE DEF EncoursJuste, TablesJustes
    <3>1. /\ annonces' \in [Annonces -> FenetreT \cup {Aucun}]
          /\ voulue' \in [Annonces -> FenetreT \cup {Aucun}]
          /\ ecrases' \subseteq Produits \cup Annonces
      BY <1>2, <2>1, <2>3
    <3>2. \A x \in Annonces : annonces'[x] # Aucun => Ronde(annonces'[x])
      BY <2>1, <2>3
    <3>3. \A x \in Annonces : annonces'[x] # Aucun /\ x \notin ecrases' =>
            voulue'[x] # Aucun /\ annonces'[x] = Fenetre(voulue'[x])
      <4>1. CASE d.saisi
        BY <2>1, <2>3, <4>1
      <4>2. CASE ~d.saisi
        BY <2>1, <2>3, <2>5, <4>2
      <4> QED
        BY <4>1, <4>2
    <3>4. LiensGardes'
      BY <2>1 DEF LiensGardes, Existants
    <3>5. StockCompte'
      <4>1. \A p \in Produits : p \in ecrases' <=> p \in ecrases
        BY <2>1, <2>4
      <4> QED
        BY <2>1, <4>1 DEF StockCompte, Existants
    <3> QED
      BY <2>1, <3>1, <3>2, <3>3, <3>4, <3>5
  <2> QED
    BY <1>1, <2>2, <2>7, PasEcrire DEF d
<1> QED
  BY <1>3, <1>4

LEMMA PasRemoveAnnonce ==
  ASSUME CatalogueAssumption, EncoursJuste, NEW r \in Creneaux, RemoveAnnonce(r)
  PROVE  EncoursJuste'
<1> DEFINE a == req[r].id
<1>1. req[r] # Aucun /\ UNCHANGED <<volet, pages>>
  BY DEF RemoveAnnonce, Ecrire
<1>2. CASE annonces[a] = Aucun
  BY <1>1, <1>2, PasEcrire DEF RemoveAnnonce, Ecrire
<1>3. CASE annonces[a] # Aucun
  <2>1. /\ annonces' = [annonces EXCEPT ![a] = Aucun]
        /\ UNCHANGED <<categories, nees, produits, vendus, horloge, compta>>
        /\ Avance(r, "ok")
    BY <1>1, <1>3 DEF RemoveAnnonce, Ecrire
  <2> HIDE DEF a
  <2>2. TablesJustes'
    BY <2>1 DEF EncoursJuste, TablesJustes, compta, LiensGardes, StockCompte,
       Existants
  <2> QED
    BY <1>1, <2>1, <2>2, PasEcrire
<1> QED
  BY <1>2, <1>3

\* Sales and time go on.
LEMMA PasVendre ==
  ASSUME CatalogueAssumption, EncoursJuste, NEW p \in Produits, Vendre(p)
  PROVE  EncoursJuste'
<1>1. /\ p \in Existants /\ produits[p] \in LigneT /\ produits[p].stock > 0
      /\ produits' = [produits EXCEPT ![p].stock = @ - 1]
      /\ vendus' = vendus \cup {p}
      /\ attendu' = [attendu EXCEPT ![p] = @ - 1]
      /\ UNCHANGED <<categories, nees, annonces, horloge, req, volet, pages,
                     voulue, ecrases>>
  BY DEF Vendre, EncoursJuste, TablesJustes, Existants
<1>2. [produits[p] EXCEPT !.stock = @ - 1] \in LigneT
  BY <1>1 DEF LigneT
<1>3. TablesJustes'
  <2> USE DEF EncoursJuste, TablesJustes, CatalogueAssumption
  <2>1. produits' \in [Produits -> LigneT \cup {Aucun}]
    BY <1>1, <1>2
  <2>2. attendu' \in [Produits -> Int]
    BY <1>1
  <2>3. Existants' = Existants
    BY <1>1, <1>2 DEF Existants
  <2>4. LiensGardes'
    BY <1>1, <2>3 DEF LiensGardes, Existants, LigneT
  <2>5. StockCompte'
    BY <1>1, <2>3 DEF StockCompte, Existants, LigneT
  <2> QED
    BY <1>1, <2>1, <2>2, <2>4, <2>5
<1>4. DemandesJustes'
  BY <1>1 DEF EncoursJuste, DemandesJustes
<1> QED
  BY <1>1, <1>3, <1>4, PagesLaissees DEF EncoursJuste

LEMMA PasPasser ==
  ASSUME CatalogueAssumption, EncoursJuste, Passer
  PROVE  EncoursJuste'
<1>1. TablesJustes'
  BY DEF EncoursJuste, TablesJustes, CatalogueAssumption, Passer, compta,
     LiensGardes, StockCompte, Existants
<1>2. DemandesJustes'
  BY DEF EncoursJuste, DemandesJustes, Passer
<1> QED
  BY <1>1, <1>2, PagesLaissees DEF EncoursJuste, Passer

\* The steps of the pages.  They leave the tables alone.
LEMMA PasRepondre ==
  ASSUME CatalogueAssumption, EncoursJuste, NEW r \in Creneaux, Repondre(r)
  PROVE  EncoursJuste'
<1>1. DemandesJustes'
  BY DEF EncoursJuste, DemandesJustes, Repondre
<1>2. FormeJuste'
  <2>1. /\ UNCHANGED volet
        /\ \/ form' = form \/ form' = Ferme
           \/ form # Ferme /\ form' = [form EXCEPT !.envoi = Aucun]
    BY DEF Repondre
  <2>2. CASE form' = form
    BY <2>1, <2>2 DEF FormeJuste, EncoursJuste, PagesJustes
  <2>3. CASE form' = Ferme
    BY <2>3 DEF FormeJuste
  <2>4. CASE form # Ferme /\ form' = [form EXCEPT !.envoi = Aucun]
    <3>1. Posee(form) /\ volet \in {"produits", "annonces"}
      BY <2>4 DEF EncoursJuste, PagesJustes, FormeJuste
    <3>2. CASE volet = "produits"
      <4>1. FormeDuProduit(form)
        BY <2>4, <3>2 DEF EncoursJuste, PagesJustes, FormeJuste
      <4>2. FormeDuProduit(form') /\ Posee(form')
        BY <2>4, <3>1, <4>1 DEF FormeDuProduit, FormeProduitT, Posee
      <4> QED
        BY <2>1, <3>2, <4>2 DEF FormeJuste
    <3>3. CASE volet = "annonces"
      <4>1. FormeDeLAnnonce(form)
        BY <2>4, <3>3 DEF EncoursJuste, PagesJustes, FormeJuste
      <4>2. FormeDeLAnnonce(form') /\ Posee(form')
        BY <2>4, <3>1, <4>1 DEF FormeDeLAnnonce, FormeAnnonceT, Posee, Fenetre
      <4> QED
        BY <2>1, <3>3, <4>2 DEF FormeJuste
    <3> QED
      BY <3>1, <3>2, <3>3
  <2> QED
    BY <2>1, <2>2, <2>3, <2>4
<1>3. PagesJustes'
  <2>1. brouillons' \in [Produits -> Stocks \cup {Aucun}]
    BY DEF Repondre, EncoursJuste, PagesJustes
  <2>2. savingId' \in Produits \cup {Aucun} /\ UNCHANGED liste
    BY DEF Repondre, EncoursJuste, PagesJustes
  <2> QED
    BY <1>2, <2>1, <2>2 DEF EncoursJuste, PagesJustes
<1> QED
  BY <1>1, <1>3, TablesLaissees DEF EncoursJuste, Repondre

LEMMA PasRafraichir ==
  ASSUME CatalogueAssumption, EncoursJuste, Rafraichir
  PROVE  EncoursJuste'
<1>1. DemandesJustes'
  BY DEF EncoursJuste, DemandesJustes, Rafraichir
<1>2. PagesJustes'
  BY DEF EncoursJuste, TablesJustes, PagesJustes, Rafraichir, FormeJuste
<1> QED
  BY <1>1, <1>2, TablesLaissees DEF EncoursJuste, Rafraichir

\* A step of the form alone.
LEMMA PasForm ==
  ASSUME EncoursJuste, FormeJuste',
         UNCHANGED <<tables, req, volet, liste, brouillons, savingId, compta>>
  PROVE  EncoursJuste'
<1>1. DemandesJustes'
  BY DEF EncoursJuste, DemandesJustes
<1>2. PagesJustes'
  BY DEF EncoursJuste, PagesJustes
<1> QED
  BY <1>1, <1>2, TablesLaissees DEF EncoursJuste

LEMMA PasOuvrirForm ==
  ASSUME CatalogueAssumption, EncoursJuste, NEW p \in Produits \cup {"nouveau"},
         OuvrirForm(p)
  PROVE  EncoursJuste'
<1> DEFINE vu == IF p \in Produits THEN liste.produits[p]
                 ELSE [categorie |-> CHOOSE c \in liste.categories : TRUE,
                       stock |-> 0, image |-> Aucun]
<1>1. /\ volet = "produits" /\ vu # Aucun
      /\ p \in Produits \/ liste.categories # {}
      /\ form' = [de |-> p, categorie |-> vu.categorie, stock |-> vu.stock,
                  saisi |-> p = "nouveau", base |-> [stock |-> vu.stock],
                  image |-> vu.image, choisie |-> vu.image,
                  envois |-> {}, uploading |-> FALSE, melange |-> FALSE,
                  envoi |-> Aucun]
      /\ UNCHANGED <<tables, req, volet, liste, brouillons, savingId, compta>>
  BY DEF OuvrirForm, Page
<1>2. /\ vu.categorie \in Categories /\ vu.stock \in Nat
      /\ vu.image \in Images \cup {Aucun}
  <2>1. CASE p \in Produits
    BY <1>1, <2>1 DEF EncoursJuste, PagesJustes, LigneT
  <2>2. CASE p \notin Produits
    BY <1>1, <2>2 DEF EncoursJuste, PagesJustes
  <2> QED
    BY <2>1, <2>2
<1> HIDE DEF vu
<1>3. FormeDuProduit(form') /\ Posee(form')
  BY <1>1, <1>2 DEF FormeDuProduit, FormeProduitT, Posee
<1>4. FormeJuste'
  BY <1>1, <1>3 DEF FormeJuste
<1> QED
  BY <1>1, <1>4, PasForm

LEMMA PasOuvrirAnnonce ==
  ASSUME CatalogueAssumption, EncoursJuste, NEW a \in Annonces \cup {"nouvelle"},
         OuvrirAnnonce(a)
  PROVE  EncoursJuste'
<1> DEFINE neuve == a \notin Annonces
           vu == IF neuve THEN [debut |-> horloge, fin |-> horloge]
                 ELSE liste.annonces[a]
           image == IF neuve THEN Aucun ELSE CHOOSE i \in Images : TRUE
<1>1. /\ volet = "annonces" /\ vu # Aucun
      /\ form' = [de |-> a, debut |-> ToDateInput(vu.debut),
                  fin |-> IF neuve THEN Aucun ELSE ToDateInput(vu.fin),
                  saisi |-> neuve, base |-> vu, image |-> image,
                  choisie |-> image, envois |-> {}, uploading |-> FALSE,
                  melange |-> FALSE, envoi |-> Aucun]
      /\ UNCHANGED <<tables, req, volet, liste, brouillons, savingId, compta>>
  BY DEF OuvrirAnnonce, Page
<1>2. image \in Images \cup {Aucun}
  BY DEF CatalogueAssumption
<1>3. vu \in FenetreT /\ (~neuve => Ronde(vu))
  BY <1>1 DEF EncoursJuste, TablesJustes, PagesJustes, FenetreT
<1>4. ToDateInput(vu.debut) \in Int /\ ToDateInput(vu.fin) \in Int
  BY <1>3 DEF ToDateInput, FenetreT
<1>5. ~neuve => /\ Minuit(ToDateInput(vu.debut)) = vu.debut
                /\ Minuit(ToDateInput(vu.fin)) = vu.fin
  BY <1>3, Relue
<1>6. vu = [debut |-> vu.debut, fin |-> vu.fin]
  BY <1>3 DEF FenetreT
<1>7. neuve \in BOOLEAN /\ (neuve <=> a \notin Annonces)
  OBVIOUS
<1> HIDE DEF vu, image, neuve
<1>8. form' \in FormeAnnonceT
  BY <1>1, <1>2, <1>3, <1>4, <1>7 DEF FormeAnnonceT
<1>9. ~neuve => Fenetre(form') = vu /\ form'.fin # Aucun
  BY <1>1, <1>4, <1>5, <1>6 DEF Fenetre, CatalogueAssumption
<1>10. FormeDeLAnnonce(form') /\ Posee(form')
  BY <1>1, <1>7, <1>8, <1>9 DEF FormeDeLAnnonce, Posee
<1>11. FormeJuste'
  BY <1>1, <1>10 DEF FormeJuste
<1> QED
  BY <1>1, <1>11, PasForm

LEMMA PasSaisirDates ==
  ASSUME CatalogueAssumption, EncoursJuste, SaisirDates
  PROVE  EncoursJuste'
<1>1. PICK j \in 0..(MaxTemps \div 2) :
        \/ form' = [form EXCEPT !.debut = j, !.saisi = TRUE]
        \/ form' = [form EXCEPT !.fin = j, !.saisi = TRUE]
  BY DEF SaisirDates
<1>2. /\ volet = "annonces" /\ form # Ferme
      /\ UNCHANGED <<tables, req, volet, liste, brouillons, savingId, compta>>
  BY DEF SaisirDates, Page
<1>3. FormeDeLAnnonce(form) /\ Posee(form) /\ j \in Int
  BY <1>2 DEF EncoursJuste, PagesJustes, FormeJuste, CatalogueAssumption
<1>4. /\ form' \in FormeAnnonceT /\ form'.saisi
      /\ form'.melange = form.melange /\ form'.envois = form.envois
      /\ form'.image = form.image /\ form'.choisie = form.choisie
      /\ form'.uploading = form.uploading
  <2>1. CASE form' = [form EXCEPT !.debut = j, !.saisi = TRUE]
    BY <1>3, <2>1 DEF FormeDeLAnnonce, FormeAnnonceT
  <2>2. CASE form' = [form EXCEPT !.fin = j, !.saisi = TRUE]
    BY <1>3, <2>2 DEF FormeDeLAnnonce, FormeAnnonceT
  <2> QED
    BY <1>1, <2>1, <2>2
<1>5. FormeJuste'
  BY <1>2, <1>3, <1>4 DEF FormeJuste, FormeDeLAnnonce, Posee
<1> QED
  BY <1>2, <1>5, PasForm

LEMMA PasSaisir ==
  ASSUME CatalogueAssumption, EncoursJuste, Saisir
  PROVE  EncoursJuste'
<1>1. /\ volet = "produits" /\ form # Ferme
      /\ UNCHANGED <<tables, req, volet, liste, brouillons, savingId, compta>>
  BY DEF Saisir, Page
<1>2. FormeDuProduit(form) /\ Posee(form)
  BY <1>1 DEF EncoursJuste, PagesJustes, FormeJuste
<1>3. \/ \E s \in Nat : form' = [form EXCEPT !.stock = s, !.saisi = TRUE]
      \/ \E c \in Categories : form' = [form EXCEPT !.categorie = c]
  BY DEF Saisir, CatalogueAssumption, EncoursJuste, PagesJustes
<1>4. /\ form' \in FormeProduitT /\ (~form'.saisi => form'.stock = form'.base.stock)
      /\ form'.melange = form.melange /\ form'.envois = form.envois
      /\ form'.image = form.image /\ form'.choisie = form.choisie
      /\ form'.uploading = form.uploading
  <2>1. ASSUME NEW s \in Nat, form' = [form EXCEPT !.stock = s, !.saisi = TRUE]
        PROVE  <1>4
    BY <1>2, <2>1 DEF FormeDuProduit, FormeProduitT
  <2>2. ASSUME NEW c \in Categories, form' = [form EXCEPT !.categorie = c]
        PROVE  <1>4
    BY <1>2, <2>2 DEF FormeDuProduit, FormeProduitT
  <2> QED
    BY <1>3, <2>1, <2>2
<1>5. FormeJuste'
  BY <1>1, <1>2, <1>4 DEF FormeJuste, FormeDuProduit, Posee
<1> QED
  BY <1>1, <1>5, PasForm

\* The image: what both forms have.
LEMMA PasImage ==
  ASSUME CatalogueAssumption, EncoursJuste, form # Ferme,
         UNCHANGED <<tables, req, volet, liste, brouillons, savingId, compta>>,
         NEW e \in SUBSET Images, NEW u \in BOOLEAN, NEW m \in BOOLEAN,
         NEW i \in Images \cup {Aucun}, NEW c \in Images \cup {Aucun},
         form' = [form EXCEPT !.envois = e, !.uploading = u, !.melange = m,
                              !.image = i, !.choisie = c],
         ~m => (e = {} /\ i = c) \/ (u /\ e = {c})
  PROVE  EncoursJuste'
<1>1. volet \in {"produits", "annonces"}
  BY DEF EncoursJuste, PagesJustes, FormeJuste
<1>2. CASE volet = "produits"
  <2>1. FormeDuProduit(form)
    BY <1>2 DEF EncoursJuste, PagesJustes, FormeJuste
  <2>2. /\ form' \in FormeProduitT /\ form'.envois = e /\ form'.uploading = u
        /\ form'.melange = m /\ form'.image = i /\ form'.choisie = c
        /\ form'.saisi = form.saisi /\ form'.stock = form.stock
        /\ form'.base = form.base
    BY <2>1 DEF FormeDuProduit, FormeProduitT
  <2>3. FormeJuste'
    BY <1>2, <2>1, <2>2 DEF FormeJuste, FormeDuProduit, Posee
  <2> QED
    BY <2>3, PasForm
<1>3. CASE volet = "annonces"
  <2>1. FormeDeLAnnonce(form)
    BY <1>3 DEF EncoursJuste, PagesJustes, FormeJuste
  <2>2. /\ form' \in FormeAnnonceT /\ form'.envois = e /\ form'.uploading = u
        /\ form'.melange = m /\ form'.image = i /\ form'.choisie = c
        /\ form'.saisi = form.saisi /\ form'.de = form.de
        /\ form'.debut = form.debut /\ form'.fin = form.fin
        /\ form'.base = form.base
    BY <2>1 DEF FormeDeLAnnonce, FormeAnnonceT
  <2>3. FormeJuste'
    BY <1>3, <2>1, <2>2 DEF FormeJuste, FormeDeLAnnonce, Posee, Fenetre
  <2> QED
    BY <2>3, PasForm
<1> QED
  BY <1>1, <1>2, <1>3

\* What the fields of the image are in either form.
LEMMA ImagesTypees ==
  ASSUME EncoursJuste, form # Ferme
  PROVE  /\ form.envois \in SUBSET Images /\ form.uploading \in BOOLEAN
         /\ form.melange \in BOOLEAN /\ form.image \in Images \cup {Aucun}
         /\ form.choisie \in Images \cup {Aucun} /\ Posee(form)
         /\ form = [form EXCEPT !.image = form.image]
         /\ form = [form EXCEPT !.choisie = form.choisie]
         /\ form = [form EXCEPT !.melange = form.melange]
<1>1. /\ Posee(form) /\ volet \in {"produits", "annonces"}
      /\ form \in FormeProduitT \/ form \in FormeAnnonceT
  BY DEF EncoursJuste, PagesJustes, FormeJuste, FormeDuProduit, FormeDeLAnnonce
<1>2. CASE form \in FormeProduitT
  BY <1>1, <1>2 DEF FormeProduitT
<1>3. CASE form \in FormeAnnonceT
  BY <1>1, <1>3 DEF FormeAnnonceT
<1> QED
  BY <1>1, <1>2, <1>3

LEMMA PasChoisirImage ==
  ASSUME CatalogueAssumption, EncoursJuste, NEW i \in Images, ChoisirImage(i)
  PROVE  EncoursJuste'
<1>1. /\ form # Ferme
      /\ form' = [form EXCEPT !.envois = @ \cup {i}, !.uploading = TRUE,
                              !.choisie = i, !.melange = @ \/ form.envois # {}]
      /\ UNCHANGED <<tables, req, volet, liste, brouillons, savingId, compta>>
  BY DEF ChoisirImage, Page
<1>2. /\ form.envois \in SUBSET Images /\ form.melange \in BOOLEAN
      /\ form.image \in Images \cup {Aucun}
      /\ form = [form EXCEPT !.image = form.image]
  BY <1>1, ImagesTypees
<1> DEFINE e == form.envois \cup {i}
           m == form.melange \/ form.envois # {}
<1>3. form' = [form EXCEPT !.envois = e, !.uploading = TRUE, !.melange = m,
                           !.image = form.image, !.choisie = i]
  <2>1. CASE form \in FormeProduitT
    BY <1>1, <2>1 DEF FormeProduitT
  <2>2. CASE form \in FormeAnnonceT
    BY <1>1, <2>2 DEF FormeAnnonceT
  <2> QED
    BY <1>1, <2>1, <2>2 DEF EncoursJuste, PagesJustes, FormeJuste,
       FormeDuProduit, FormeDeLAnnonce
<1>4. ~m => e = {i}
  OBVIOUS
<1>5. e \in SUBSET Images /\ m \in BOOLEAN
  BY <1>2
<1> HIDE DEF e, m
<1> QED
  BY <1>1, <1>2, <1>3, <1>4, <1>5, PasImage

LEMMA PasFinEnvoi ==
  ASSUME CatalogueAssumption, EncoursJuste, NEW i \in Images, FinEnvoi(i)
  PROVE  EncoursJuste'
<1>1. PICK ok \in BOOLEAN :
        form' = [form EXCEPT !.envois = @ \ {i}, !.uploading = FALSE,
                   !.image = IF ok THEN i ELSE @,
                   !.choisie = IF ok THEN @ ELSE form.image]
  BY DEF FinEnvoi
<1>2. /\ form # Ferme /\ i \in form.envois
      /\ UNCHANGED <<tables, req, volet, liste, brouillons, savingId, compta>>
  BY DEF FinEnvoi, Page
<1>3. /\ form.envois \in SUBSET Images /\ form.melange \in BOOLEAN
      /\ form.image \in Images \cup {Aucun}
      /\ form.choisie \in Images \cup {Aucun} /\ Posee(form)
  BY <1>2, ImagesTypees
<1> DEFINE e == form.envois \ {i}
           im == IF ok THEN i ELSE form.image
           c == IF ok THEN form.choisie ELSE form.image
<1>4. form' = [form EXCEPT !.envois = e, !.uploading = FALSE,
                 !.melange = form.melange, !.image = im, !.choisie = c]
  <2>1. CASE form \in FormeProduitT
    BY <1>1, <2>1 DEF FormeProduitT
  <2>2. CASE form \in FormeAnnonceT
    BY <1>1, <2>2 DEF FormeAnnonceT
  <2> QED
    BY <1>2, <2>1, <2>2 DEF EncoursJuste, PagesJustes, FormeJuste,
       FormeDuProduit, FormeDeLAnnonce
<1>5. ~form.melange => e = {} /\ im = c
  BY <1>2, <1>3 DEF Posee
<1>6. /\ e \in SUBSET Images /\ im \in Images \cup {Aucun}
      /\ c \in Images \cup {Aucun}
  BY <1>3
<1> HIDE DEF e, im, c
<1> QED
  BY <1>2, <1>3, <1>4, <1>5, <1>6, PasImage

\* The form waits for the request it sent.
LEMMA PasEnvoi ==
  ASSUME CatalogueAssumption, EncoursJuste, form # Ferme, NEW r \in Creneaux,
         form' = [form EXCEPT !.envoi = r], UNCHANGED volet
  PROVE  FormeJuste'
<1>1. Posee(form) /\ volet \in {"produits", "annonces"}
  BY DEF EncoursJuste, PagesJustes, FormeJuste
<1>2. CASE volet = "produits"
  <2>1. FormeDuProduit(form)
    BY <1>2 DEF EncoursJuste, PagesJustes, FormeJuste
  <2>2. FormeDuProduit(form') /\ Posee(form')
    BY <1>1, <2>1 DEF FormeDuProduit, FormeProduitT, Posee
  <2> QED
    BY <1>2, <2>2 DEF FormeJuste
<1>3. CASE volet = "annonces"
  <2>1. FormeDeLAnnonce(form)
    BY <1>3 DEF EncoursJuste, PagesJustes, FormeJuste
  <2>2. FormeDeLAnnonce(form') /\ Posee(form')
    BY <1>1, <2>1 DEF FormeDeLAnnonce, FormeAnnonceT, Posee, Fenetre
  <2> QED
    BY <1>3, <2>2 DEF FormeJuste
<1> QED
  BY <1>1, <1>2, <1>3

LEMMA PasSoumettre ==
  ASSUME CatalogueAssumption, EncoursJuste, NEW r \in Creneaux, Soumettre(r)
  PROVE  EncoursJuste'
<1> DEFINE op == IF form.de \in Produits THEN "modifier" ELSE "creer"
           champs == [Vide EXCEPT !.categorie = form.categorie,
                        !.stock = form.stock, !.image = form.image]
           d == [op |-> op, id |-> form.de, champs |-> champs,
                 saisi |-> form.saisi, base |-> form.base, par |-> "form",
                 rep |-> "envoyee"]
<1>1. /\ volet = "produits" /\ form # Ferme
      /\ req' = [req EXCEPT ![r] = d] /\ form' = [form EXCEPT !.envoi = r]
      /\ UNCHANGED <<tables, volet, liste, brouillons, savingId, compta>>
  BY DEF Soumettre, Page, SoumissionOuverte, Envoyer
<1>2. FormeDuProduit(form)
  BY <1>1 DEF EncoursJuste, PagesJustes, FormeJuste
<1>3. /\ champs \in CorpsT /\ champs.categorie = form.categorie
      /\ champs.stock = form.stock /\ form.categorie # Aucun /\ form.stock # Aucun
  BY <1>2 DEF FormeDuProduit, FormeProduitT, Vide, CorpsT, CatalogueAssumption
<1> HIDE DEF champs
<1>4. d \in DemandeT
  BY <1>2, <1>3 DEF FormeDuProduit, FormeProduitT, DemandeT, DuProduit
<1>5. DemandeJuste(d)
  BY <1>2, <1>3 DEF FormeDuProduit, FormeProduitT, DemandeJuste, DuProduit,
     DeLaCategorie
<1> HIDE DEF d
<1>6. DemandesJustes'
  BY <1>1, <1>4, <1>5, DemandeEnvoyee DEF EncoursJuste
<1>7. FormeJuste'
  BY <1>1, PasEnvoi
<1> QED
  BY <1>1, <1>6, <1>7, TablesLaissees DEF EncoursJuste, PagesJustes

LEMMA PasSoumettreAnnonce ==
  ASSUME CatalogueAssumption, EncoursJuste, NEW r \in Creneaux,
         SoumettreAnnonce(r)
  PROVE  EncoursJuste'
<1> DEFINE op == IF form.de \in Annonces THEN "modifierAnnonce"
                                         ELSE "creerAnnonce"
           champs == [debut |-> form.debut, fin |-> form.fin]
           d == [op |-> op, id |-> form.de, champs |-> champs,
                 saisi |-> form.saisi, base |-> form.base, par |-> "form",
                 rep |-> "envoyee"]
<1>1. /\ volet = "annonces" /\ form # Ferme /\ form.fin # Aucun
      /\ req' = [req EXCEPT ![r] = d] /\ form' = [form EXCEPT !.envoi = r]
      /\ UNCHANGED <<tables, volet, liste, brouillons, savingId, compta>>
  BY DEF SoumettreAnnonce, Page, SoumissionOuverte, Envoyer
<1>2. FormeDeLAnnonce(form)
  BY <1>1 DEF EncoursJuste, PagesJustes, FormeJuste
<1>3. champs \in FenetreT /\ Fenetre(champs) = Fenetre(form)
  BY <1>1, <1>2 DEF FormeDeLAnnonce, FormeAnnonceT, FenetreT, Fenetre
<1> HIDE DEF champs
<1>4. d \in DemandeT
  BY <1>2, <1>3 DEF FormeDeLAnnonce, FormeAnnonceT, DemandeT, DeLAnnonce
<1>5. DemandeJuste(d)
  BY <1>2, <1>3 DEF FormeDeLAnnonce, FormeAnnonceT, DemandeJuste, DuProduit,
     DeLaCategorie
<1> HIDE DEF d
<1>6. DemandesJustes'
  BY <1>1, <1>4, <1>5, DemandeEnvoyee DEF EncoursJuste
<1>7. FormeJuste'
  BY <1>1, PasEnvoi
<1> QED
  BY <1>1, <1>6, <1>7, TablesLaissees DEF EncoursJuste, PagesJustes

\* The buttons beside the forms.
LEMMA PasBouton ==
  ASSUME CatalogueAssumption, EncoursJuste, NEW r \in Creneaux, NEW d \in DemandeT,
         DemandeJuste(d), req' = [req EXCEPT ![r] = d],
         UNCHANGED <<tables, volet, pages, compta>>
  PROVE  EncoursJuste'
  BY DemandeEnvoyee, PagesLaissees, TablesLaissees DEF EncoursJuste

LEMMA PasSupprimerAnnonce ==
  ASSUME CatalogueAssumption, EncoursJuste, NEW r \in Creneaux,
         NEW a \in Annonces, SupprimerAnnonce(r, a)
  PROVE  EncoursJuste'
<1> DEFINE d == [op |-> "supprimerAnnonce", id |-> a, champs |-> Vide,
                 saisi |-> FALSE, base |-> Aucun, par |-> "liste",
                 rep |-> "envoyee"]
<1>1. req' = [req EXCEPT ![r] = d] /\ UNCHANGED <<tables, volet, pages, compta>>
  BY DEF SupprimerAnnonce, Page, Envoyer
<1>2. d \in DemandeT
  BY DEF DemandeT, Vide, CorpsT, DeLAnnonce
<1>3. DemandeJuste(d)
  BY DEF DemandeJuste, DuProduit, DeLaCategorie
<1> HIDE DEF d
<1> QED
  BY <1>1, <1>2, <1>3, PasBouton

LEMMA PasBoutonsProduit ==
  ASSUME CatalogueAssumption, EncoursJuste, NEW r \in Creneaux,
         NEW p \in Produits, BoutonsProduit(r, p)
  PROVE  EncoursJuste'
<1> DEFINE d(op, c) == [op |-> op, id |-> p, champs |-> c, saisi |-> FALSE,
                        base |-> Aucun, par |-> "liste", rep |-> "envoyee"]
           offre == [Vide EXCEPT !.actif = TRUE]
<1>1. /\ UNCHANGED <<tables, volet, pages, compta>>
      /\ \/ req' = [req EXCEPT ![r] = d("retirer", Vide)]
         \/ req' = [req EXCEPT ![r] = d("modifier", offre)]
         \/ req' = [req EXCEPT ![r] = d("supprimer", Vide)]
  BY DEF BoutonsProduit, Page, Envoyer
<1>2. Vide \in CorpsT /\ offre \in CorpsT /\ offre.stock = Aucun
  BY DEF Vide, CorpsT
<1> HIDE DEF offre
<1>3. /\ d("retirer", Vide) \in DemandeT /\ d("modifier", offre) \in DemandeT
      /\ d("supprimer", Vide) \in DemandeT
  BY <1>2 DEF DemandeT, DuProduit
<1>4. /\ DemandeJuste(d("retirer", Vide)) /\ DemandeJuste(d("modifier", offre))
      /\ DemandeJuste(d("supprimer", Vide))
  BY <1>2 DEF DemandeJuste, DuProduit, DeLaCategorie
<1> HIDE DEF d
<1> QED
  BY <1>1, <1>3, <1>4, PasBouton

LEMMA PasBoutonsCategorie ==
  ASSUME CatalogueAssumption, EncoursJuste, NEW r \in Creneaux,
         NEW c \in Categories, BoutonsCategorie(r, c)
  PROVE  EncoursJuste'
<1> DEFINE d(op) == [op |-> op, id |-> c, champs |-> Vide, saisi |-> FALSE,
                     base |-> Aucun, par |-> "liste", rep |-> "envoyee"]
<1>1. /\ UNCHANGED <<tables, volet, pages, compta>>
      /\ \/ req' = [req EXCEPT ![r] = d("supprimerCategorie")]
         \/ req' = [req EXCEPT ![r] = d("creerCategorie")]
  BY DEF BoutonsCategorie, Page, Envoyer
<1>2. d("supprimerCategorie") \in DemandeT /\ d("creerCategorie") \in DemandeT
  BY DEF DemandeT, DeLaCategorie, Vide, CorpsT
<1>3. /\ DemandeJuste(d("supprimerCategorie"))
      /\ DemandeJuste(d("creerCategorie"))
  BY DEF DemandeJuste, DuProduit, DeLaCategorie
<1> HIDE DEF d
<1> QED
  BY <1>1, <1>2, <1>3, PasBouton

LEMMA PasTaperStock ==
  ASSUME CatalogueAssumption, EncoursJuste, NEW p \in Produits,
         NEW s \in Stocks, TaperStock(p, s)
  PROVE  EncoursJuste'
<1>1. /\ brouillons' = [brouillons EXCEPT ![p] = s]
      /\ UNCHANGED <<tables, req, volet, liste, form, savingId, compta>>
  BY DEF TaperStock, Page
<1>2. PagesJustes'
  BY <1>1 DEF EncoursJuste, PagesJustes, FormeJuste
<1>3. DemandesJustes'
  BY <1>1 DEF EncoursJuste, DemandesJustes
<1> QED
  BY <1>1, <1>2, <1>3, TablesLaissees DEF EncoursJuste

LEMMA PasSaveStock ==
  ASSUME CatalogueAssumption, EncoursJuste, NEW r \in Creneaux,
         NEW p \in Produits, SaveStock(r, p)
  PROVE  EncoursJuste'
<1> DEFINE champs == [Vide EXCEPT !.stock = brouillons[p]]
           d == [op |-> "modifier", id |-> p, champs |-> champs, saisi |-> TRUE,
                 base |-> Aucun, par |-> p, rep |-> "envoyee"]
<1>1. /\ brouillons[p] # Aucun /\ req' = [req EXCEPT ![r] = d]
      /\ savingId' = p
      /\ UNCHANGED <<tables, volet, liste, form, brouillons, compta>>
  BY DEF SaveStock, Page, Envoyer
<1>2. champs \in CorpsT
  BY <1>1 DEF EncoursJuste, PagesJustes, Vide, CorpsT, CatalogueAssumption
<1> HIDE DEF champs
<1>3. d \in DemandeT
  BY <1>2 DEF DemandeT, DuProduit
<1>4. DemandeJuste(d)
  BY <1>2 DEF DemandeJuste, DuProduit, DeLaCategorie
<1> HIDE DEF d
<1>5. DemandesJustes'
  BY <1>1, <1>3, <1>4, DemandeEnvoyee DEF EncoursJuste
<1>6. PagesJustes'
  BY <1>1 DEF EncoursJuste, PagesJustes, FormeJuste
<1> QED
  BY <1>1, <1>5, <1>6, TablesLaissees DEF EncoursJuste

LEMMA PasFermerForm ==
  ASSUME EncoursJuste, FermerForm
  PROVE  EncoursJuste'
  BY PasForm DEF FermerForm, Page, FormeJuste

LEMMA InitEncours ==
  ASSUME CatalogueAssumption, InitCatalogue
  PROVE  EncoursJuste
<1> USE DEF InitCatalogue
<1>1. Premiere \in Categories
  BY DEF CatalogueAssumption, Premiere
<1>2. /\ produits \in [Produits -> LigneT \cup {Aucun}]
      /\ \A p \in Existants : /\ produits[p].stock = 2
                              /\ produits[p].categorie = Premiere
  BY <1>1 DEF LigneT, Existants
<1>3. voulue \in [Annonces -> FenetreT \cup {Aucun}]
  <2>1. CASE volet = "annonces"
    BY <2>1 DEF FenetreT
  <2>2. CASE volet = "accueil"
    <3>1. voulue \in [Annonces -> [debut : {0}, fin : {1, 2}]]
      BY <2>2
    <3>2. [debut : {0}, fin : {1, 2}] \subseteq FenetreT
      BY DEF FenetreT
    <3> QED
      BY <3>1, <3>2
  <2>3. CASE volet \notin {"annonces", "accueil"}
    <3>1. voulue \in [Annonces -> {Aucun}]
      BY <2>3
    <3> QED
      BY <3>1
  <2> QED
    BY <2>1, <2>2, <2>3
<1>4. \A a \in Annonces :
        annonces[a] = IF voulue[a] = Aucun THEN Aucun ELSE Fenetre(voulue[a])
  OBVIOUS
<1>5. \A a \in Annonces :
        /\ annonces[a] \in FenetreT \cup {Aucun}
        /\ annonces[a] # Aucun => /\ Ronde(annonces[a]) /\ voulue[a] # Aucun
                                  /\ annonces[a] = Fenetre(voulue[a])
  BY <1>3, <1>4, FenetreRonde
<1>6. TablesJustes
  <2>1. annonces \in [Annonces -> FenetreT \cup {Aucun}]
    BY <1>5
  <2>2. LiensGardes
    BY <1>1, <1>2 DEF LiensGardes
  <2>3. StockCompte
    BY <1>2 DEF StockCompte, Existants
  <2>4. categories \subseteq nees /\ nees \subseteq Categories
    BY <1>1
  <2>5. horloge \in 0..MaxTemps /\ attendu \in [Produits -> Int]
    BY DEF CatalogueAssumption
  <2> QED
    BY <1>2, <1>3, <1>5, <2>1, <2>2, <2>3, <2>4, <2>5 DEF TablesJustes
<1>7. DemandesJustes
  BY DEF DemandesJustes
<1>8. PagesJustes
  BY <1>5, <1>6 DEF PagesJustes, TablesJustes, FormeJuste
<1> QED
  BY <1>6, <1>7, <1>8 DEF EncoursJuste

\* Every step of the catalogue keeps it; so does every other step, which leaves
\* its tables, requests and pages alone.
LEMMA PasCatalogue ==
  ASSUME CatalogueAssumption, EncoursJuste, NextCatalogue
  PROVE  EncoursJuste'
<1>1. ASSUME NEW r \in Creneaux, Service(r) \/ Soumettre(r) \/ SoumettreAnnonce(r)
      PROVE  EncoursJuste'
  BY <1>1, PasVerifier, PasCreate, PasUpdate, PasRemoveProduit, PasHardRemove,
     PasRemoveCategorie, PasCreateCategorie, PasAnnonceEcrire, PasRemoveAnnonce,
     PasRepondre, PasSoumettre, PasSoumettreAnnonce DEF Service
<1>2. ASSUME NEW p \in Produits, Vendre(p)
      PROVE  EncoursJuste'
  BY <1>2, PasVendre
<1>3. CASE Rafraichir \/ Passer \/ Saisir \/ SaisirDates \/ FermerForm
  BY <1>3, PasRafraichir, PasPasser, PasSaisir, PasSaisirDates, PasFermerForm
<1>4. ASSUME NEW p \in Produits \cup {"nouveau"}, OuvrirForm(p)
      PROVE  EncoursJuste'
  BY <1>4, PasOuvrirForm
<1>5. ASSUME NEW a \in Annonces \cup {"nouvelle"}, OuvrirAnnonce(a)
      PROVE  EncoursJuste'
  BY <1>5, PasOuvrirAnnonce
<1>6. ASSUME NEW r \in Creneaux, NEW a \in Annonces, SupprimerAnnonce(r, a)
      PROVE  EncoursJuste'
  BY <1>6, PasSupprimerAnnonce
<1>7. ASSUME NEW i \in Images, ChoisirImage(i) \/ FinEnvoi(i)
      PROVE  EncoursJuste'
  BY <1>7, PasChoisirImage, PasFinEnvoi
<1>8. ASSUME NEW r \in Creneaux, NEW p \in Produits,
             BoutonsProduit(r, p) \/ SaveStock(r, p)
      PROVE  EncoursJuste'
  BY <1>8, PasBoutonsProduit, PasSaveStock
<1>9. ASSUME NEW r \in Creneaux, NEW c \in Categories, BoutonsCategorie(r, c)
      PROVE  EncoursJuste'
  BY <1>9, PasBoutonsCategorie
<1>10. ASSUME NEW p \in Produits, NEW s \in Stocks, TaperStock(p, s)
       PROVE  EncoursJuste'
  BY <1>10, PasTaperStock
<1> QED
  BY <1>1, <1>2, <1>3, <1>4, <1>5, <1>6, <1>7, <1>8, <1>9, <1>10
     DEF NextCatalogue

LEMMA EncoursLaisse ==
  ASSUME EncoursJuste, UNCHANGED <<tables, req, volet, pages, compta>>
  PROVE  EncoursJuste'
<1>1. DemandesJustes'
  BY DEF EncoursJuste, DemandesJustes
<1> QED
  BY <1>1, TablesLaissees, PagesLaissees DEF EncoursJuste

\* A step of the pages of Vitrine is one of the catalogue or leaves it alone.
LEMMA VitrineLaisse ==
  ASSUME NextVitrine
  PROVE  NextCatalogue \/ UNCHANGED <<tables, req, volet, pages, compta>>
  BY DEF NextVitrine, Defiler, FermerBandeau, FinDelai, Arriver, Pointer, Taper,
     SelectCategorie, Lire, Evoluer, Accueil, Tableau, catalogue

THEOREM EncoursVrai == SpecGestion => []EncoursJuste
<1>1. InitGestion => EncoursJuste
  BY InitEncours, CatalogueAssumption DEF InitGestion, InitVitrine
<1>2. EncoursJuste /\ [NextGestion]_gestion => EncoursJuste'
  <2> SUFFICES ASSUME EncoursJuste, [NextGestion]_gestion
               PROVE  EncoursJuste'
    OBVIOUS
  <2>1. CASE NextVitrine
    BY <2>1, VitrineLaisse, PasCatalogue, EncoursLaisse, CatalogueAssumption
  <2>2. CASE UNCHANGED vitrine
    BY <2>2, EncoursLaisse DEF vitrine, catalogue
  <2> QED
    BY <2>1, <2>2 DEF NextGestion, DuProfil, gestion
<1> QED
  BY <1>1, <1>2, PTL DEF SpecGestion

\* Every product has its category and every line its product, whatever is
\* checked, written, sold and deleted meanwhile.
THEOREM CatalogueCoherentVrai == SpecGestion => []CatalogueCoherent
<1>1. EncoursJuste => CatalogueCoherent
  <2> SUFFICES ASSUME EncoursJuste
               PROVE  CatalogueCoherent
    OBVIOUS
  <2> USE DEF EncoursJuste
  <2>1. form = Ferme \/ form.de \in Produits \cup Annonces \cup
                                      {"nouveau", "nouvelle"}
    BY DEF PagesJustes, FormeJuste, FormeDuProduit, FormeDeLAnnonce,
       FormeProduitT, FormeAnnonceT
  <2>2. TypeCatalogue
    BY <2>1 DEF TypeCatalogue, TablesJustes, DemandesJustes, PagesJustes
  <2> QED
    BY <2>2 DEF CatalogueCoherent, TablesJustes
<1> QED
  BY <1>1, EncoursVrai, PTL

\* The stock is what sales and typed quantities amount to.
THEOREM StockCompteVrai == SpecGestion => []StockCompte
<1>1. EncoursJuste => StockCompte
  BY DEF EncoursJuste, TablesJustes
<1> QED
  BY <1>1, EncoursVrai, PTL

\* The image and the days that an admin chose are those that are saved.
THEOREM ChoixGardesVrai == SpecGestion => []ChoixGardes
<1>1. EncoursJuste => ChoixGardes
  <2> SUFFICES ASSUME EncoursJuste
               PROVE  ChoixGardes
    OBVIOUS
  <2> USE DEF EncoursJuste
  <2>1. ImageChoisie
    BY DEF ImageChoisie, SoumissionOuverte, PagesJustes, FormeJuste, Posee
  <2>2. FenetreChoisie
    <3> SUFFICES ASSUME NEW a \in Annonces, annonces[a] # Aucun, a \notin ecrases
                 PROVE  a \in Actives <=>
                          horloge \in 2 * voulue[a].debut..2 * voulue[a].fin
      BY DEF FenetreChoisie
    <3>1. /\ voulue[a] \in FenetreT /\ annonces[a] = Fenetre(voulue[a])
          /\ horloge \in Int
      BY DEF TablesJustes
    <3> QED
      BY <3>1 DEF Actives, Fenetre, Minuit, FenetreT
  <2> QED
    BY <2>1, <2>2 DEF ChoixGardes
<1> QED
  BY <1>1, EncoursVrai, PTL

----------------------------------------------------------------------------
(* The front page and the dashboard.                                       *)

\* With a change on its way the URL lags behind it, and one at a time is: the
\* timer keeps the URL, or the page that comes has what is typed and selected.
FiltresSuivis ==
  /\ url \in FiltreT /\ q \in Recherches \cup {Aucun}
  /\ choix \in Categories \cup {Aucun}
  /\ enRoute \in FiltreT \cup {Aucun} /\ minuterie \in FiltreT \cup {Aucun}
  /\ croise \in BOOLEAN
  /\ ~croise =>
       /\ minuterie = Aucun \/ enRoute = Aucun
       /\ minuterie # Aucun => minuterie = url /\ url.cat = choix
       /\ enRoute # Aucun => enRoute = [q |-> q, cat |-> choix]
       /\ minuterie = Aucun /\ enRoute = Aucun => url = [q |-> q, cat |-> choix]

StatsT == [lues : SUBSET Quatre, change : BOOLEAN, creees : Nat, ventes : Nat,
           total : Nat, parEtat : [Etats \ {"absente"} -> Nat]]

\* What was read is what is there, but for what changed since.
StatsLues ==
  /\ commandes \in [Commandes -> Etats]
  /\ stats \in StatsT
  /\ ~stats.change =>
       /\ "ventes" \in stats.lues => stats.ventes = Ventes
       /\ "total" \in stats.lues => stats.total = Cardinality(Passees)
       /\ "parEtat" \in stats.lues => stats.parEtat = ParEtat
  /\ LET n == Cardinality(Passees) IN
       /\ "total" \in stats.lues => stats.total \in n - stats.creees..n
       /\ "parEtat" \in stats.lues => Somme \in n - stats.creees..n

VitrineJuste == FiltresSuivis /\ StatsLues

\* Orders are finitely many, and each is in one state.
LEMMA Effectifs ==
  ASSUME VitrineAssumption, commandes \in [Commandes -> Etats]
  PROVE  /\ \A E : IsFiniteSet(De(E)) /\ Cardinality(De(E)) \in Nat
         /\ Ventes = Cardinality(De({"EN_ATTENTE"})) + Cardinality(De({"LIVREE"}))
         /\ Cardinality(Passees) = Ventes + Cardinality(De({"ANNULEE"}))
<1>1. \A E : IsFiniteSet(De(E)) /\ Cardinality(De(E)) \in Nat
  <2>1. \A E : De(E) \subseteq Commandes
    BY DEF De
  <2> QED
    BY <2>1, FS_Subset, FS_CardinalityType DEF VitrineAssumption
<1>2. ASSUME NEW E, NEW F, E \cap F = {}
      PROVE  Cardinality(De(E \cup F)) = Cardinality(De(E)) + Cardinality(De(F))
  <2>1. De(E) \cap De(F) = {} /\ De(E \cup F) = De(E) \cup De(F)
    BY <1>2 DEF De
  <2>2. Cardinality(De(E \cup F)) =
          Cardinality(De(E)) + Cardinality(De(F)) - Cardinality({})
    BY <1>1, <2>1, FS_Union
  <2> QED
    BY <1>1, <2>2, FS_EmptySet
<1>3. Ventes = Cardinality(De({"EN_ATTENTE"} \cup {"LIVREE"}))
  <2>1. Etats \ {"absente", "ANNULEE"} = {"EN_ATTENTE"} \cup {"LIVREE"}
    BY DEF Etats
  <2> QED
    BY <2>1 DEF Ventes
<1>4. Cardinality(Passees) =
        Cardinality(De((Etats \ {"absente", "ANNULEE"}) \cup {"ANNULEE"}))
  <2>1. Etats \ {"absente"} = (Etats \ {"absente", "ANNULEE"}) \cup {"ANNULEE"}
    BY DEF Etats
  <2> QED
    BY <2>1 DEF Passees
<1>5. {"EN_ATTENTE"} \cap {"LIVREE"} = {}
  OBVIOUS
<1>6. (Etats \ {"absente", "ANNULEE"}) \cap {"ANNULEE"} = {}
  OBVIOUS
<1> QED
  BY <1>1, <1>2, <1>3, <1>4, <1>5, <1>6 DEF Ventes

LEMMA InitVitrineJuste ==
  ASSUME VitrineAssumption, InitVitrine
  PROVE  VitrineJuste
<1>1. FiltresSuivis
  BY DEF FiltresSuivis, InitVitrine, SansFiltre, FiltreT
<1>2. StatsLues
  BY DEF StatsLues, InitVitrine, PasDeStats, StatsT, Etats
<1> QED
  BY <1>1, <1>2 DEF VitrineJuste

LEMMA FiltresLaisses ==
  ASSUME FiltresSuivis, UNCHANGED <<url, enRoute, q, minuterie, choix, croise>>
  PROVE  FiltresSuivis'
  BY DEF FiltresSuivis

LEMMA StatsLaissees ==
  ASSUME StatsLues, UNCHANGED tableau
  PROVE  StatsLues'
  BY DEF StatsLues, tableau, Ventes, Passees, De, ParEtat, Somme

\* The steps of the filters.
LEMMA PasTaper ==
  ASSUME VitrineAssumption, FiltresSuivis,
         NEW s \in Recherches \cup {Aucun}, Taper(s)
  PROVE  FiltresSuivis'
<1>1. /\ q' = s /\ minuterie' = url /\ croise' = (croise \/ enRoute # Aucun)
      /\ UNCHANGED <<url, enRoute, choix>>
  BY DEF Taper
<1>2. url # Aucun /\ url \in FiltreT
  BY DEF FiltresSuivis, VitrineAssumption
<1>3. ~croise' => enRoute = Aucun /\ url.cat = choix
  <2> SUFFICES ASSUME ~croise'
               PROVE  enRoute = Aucun /\ url.cat = choix
    OBVIOUS
  <2>1. ~croise /\ enRoute = Aucun
    BY <1>1
  <2>2. CASE minuterie # Aucun
    BY <2>1, <2>2 DEF FiltresSuivis
  <2>3. CASE minuterie = Aucun
    <3>1. url = [q |-> q, cat |-> choix]
      BY <2>1, <2>3 DEF FiltresSuivis
    <3> QED
      BY <2>1, <3>1
  <2> QED
    BY <2>2, <2>3
<1> QED
  BY <1>1, <1>2, <1>3 DEF FiltresSuivis

LEMMA PasFinDelai ==
  ASSUME VitrineAssumption, FiltresSuivis, FinDelai
  PROVE  FiltresSuivis'
<1>1. /\ minuterie \in FiltreT /\ minuterie # Aucun /\ minuterie' = Aucun
      /\ enRoute' = IF q = minuterie.q THEN enRoute ELSE Cible(minuterie)
      /\ UNCHANGED <<url, q, choix, croise>>
  BY DEF FinDelai, FiltresSuivis
<1>2. /\ Cible(minuterie) \in FiltreT
      /\ Cible(minuterie) = [q |-> q, cat |-> minuterie.cat]
      /\ minuterie = [q |-> minuterie.q, cat |-> minuterie.cat]
  BY <1>1 DEF Cible, FiltreT, FiltresSuivis
<1> QED
  BY <1>1, <1>2 DEF FiltresSuivis, VitrineAssumption

LEMMA PasSelectCategorie ==
  ASSUME VitrineAssumption, FiltresSuivis,
         NEW c \in Categories \cup {Aucun}, SelectCategorie(c)
  PROVE  FiltresSuivis'
<1>1. /\ enRoute' = [url EXCEPT !.cat = c] /\ choix' = c
      /\ croise' = (croise \/ minuterie # Aucun \/ enRoute # Aucun)
      /\ UNCHANGED <<url, q, minuterie>>
  BY DEF SelectCategorie
<1>2. /\ enRoute' \in FiltreT /\ enRoute' = [q |-> url.q, cat |-> c]
  BY <1>1 DEF FiltreT, FiltresSuivis
<1>3. url = [q |-> q, cat |-> choix] => url.q = q
  OBVIOUS
<1> QED
  BY <1>1, <1>2, <1>3 DEF FiltresSuivis, VitrineAssumption

LEMMA PasArriver ==
  ASSUME VitrineAssumption, FiltresSuivis, Arriver
  PROVE  FiltresSuivis'
  BY DEF Arriver, FiltresSuivis

\* The steps of the dashboard.
LEMMA PasLire ==
  ASSUME VitrineAssumption, StatsLues,
         \/ Lire("ventes", [stats EXCEPT !.ventes = Ventes])
         \/ Lire("total", [stats EXCEPT !.total = Cardinality(Passees)])
         \/ Lire("parEtat", [stats EXCEPT !.parEtat = ParEtat])
         \/ Lire("populaires", stats)
  PROVE  StatsLues'
<1> DEFINE n == Cardinality(Passees)
<1>1. /\ commandes \in [Commandes -> Etats] /\ stats \in StatsT
      /\ \A E : IsFiniteSet(De(E)) /\ Cardinality(De(E)) \in Nat
      /\ n = Cardinality(De({"EN_ATTENTE"})) + Cardinality(De({"LIVREE"}))
               + Cardinality(De({"ANNULEE"}))
  BY Effectifs DEF StatsLues
<1>2. /\ UNCHANGED commandes
      /\ Ventes' = Ventes /\ Passees' = Passees /\ ParEtat' = ParEtat
  BY DEF Lire, Ventes, Passees, ParEtat, De
<1>3. /\ ParEtat \in [Etats \ {"absente"} -> Nat] /\ Ventes \in Nat /\ n \in Nat
      /\ ParEtat["EN_ATTENTE"] + ParEtat["LIVREE"] + ParEtat["ANNULEE"] = n
  BY <1>1, Effectifs DEF ParEtat, Etats, Ventes, Passees
<1> HIDE DEF n
<1>4. CASE Lire("ventes", [stats EXCEPT !.ventes = Ventes])
  <2>1. /\ stats' = [stats EXCEPT !.ventes = Ventes, !.lues = @ \cup {"ventes"}]
        /\ stats' \in StatsT
    BY <1>1, <1>3, <1>4 DEF Lire, StatsT, Quatre
  <2> QED
    BY <1>1, <1>2, <2>1 DEF StatsLues, Somme, StatsT
<1>5. CASE Lire("total", [stats EXCEPT !.total = n])
  <2>1. /\ stats' = [stats EXCEPT !.total = n, !.lues = @ \cup {"total"}]
        /\ stats' \in StatsT
    BY <1>1, <1>3, <1>5 DEF Lire, StatsT, Quatre
  <2> QED
    BY <1>1, <1>2, <1>3, <2>1 DEF StatsLues, Somme, StatsT, n
<1>6. CASE Lire("parEtat", [stats EXCEPT !.parEtat = ParEtat])
  <2>1. /\ stats' = [stats EXCEPT !.parEtat = ParEtat, !.lues = @ \cup {"parEtat"}]
        /\ stats' \in StatsT
    BY <1>1, <1>3, <1>6 DEF Lire, StatsT, Quatre
  <2>2. Somme' = n
    BY <1>1, <1>3, <2>1 DEF Somme, StatsT
  <2> QED
    BY <1>1, <1>2, <1>3, <2>1, <2>2 DEF StatsLues, StatsT, n
<1>7. CASE Lire("populaires", stats)
  <2>1. /\ stats' = [stats EXCEPT !.lues = @ \cup {"populaires"}]
        /\ stats' \in StatsT
    BY <1>1, <1>7 DEF Lire, StatsT, Quatre
  <2> QED
    BY <1>1, <1>2, <2>1 DEF StatsLues, Somme, StatsT
<1> QED
  BY <1>4, <1>5, <1>6, <1>7 DEF n

LEMMA PasEvoluer ==
  ASSUME VitrineAssumption, StatsLues, NEW o \in Commandes, NEW e \in Etats,
         Evoluer(o, e)
  PROVE  StatsLues'
<1> DEFINE n == Cardinality(Passees)
<1>1. /\ commandes \in [Commandes -> Etats] /\ stats \in StatsT
      /\ IsFiniteSet(Passees) /\ n \in Nat
  BY Effectifs DEF StatsLues, Passees
<1>2. /\ commandes' = [commandes EXCEPT ![o] = e]
      /\ \/ commandes[o] = "absente" /\ e = "EN_ATTENTE"
         \/ commandes[o] # "absente" /\ e # "absente"
      /\ stats' = IF stats.lues = {} THEN stats
                  ELSE [stats EXCEPT !.change = TRUE,
                          !.creees = IF e = "EN_ATTENTE" THEN @ + 1 ELSE @]
  BY DEF Evoluer
<1>3. commandes' \in [Commandes -> Etats] /\ stats' \in StatsT
  <2>1. CASE stats' = stats
    BY <1>1, <1>2, <2>1
  <2>2. CASE stats' # stats
    <3> DEFINE k == IF e = "EN_ATTENTE" THEN stats.creees + 1 ELSE stats.creees
    <3>1. k \in Nat
      BY <1>1 DEF StatsT
    <3>2. stats' = [stats EXCEPT !.change = TRUE, !.creees = k]
      BY <1>2, <2>2
    <3> HIDE DEF k
    <3> QED
      BY <1>1, <1>2, <3>1, <3>2 DEF StatsT
  <2> QED
    BY <2>1, <2>2
<1>4. n' = IF commandes[o] = "absente" THEN n + 1 ELSE n
  <2>1. CASE commandes[o] = "absente"
    <3>1. Passees' = Passees \cup {o} /\ o \notin Passees
      BY <1>1, <1>2, <2>1 DEF Passees, De, Etats
    <3> QED
      BY <1>1, <2>1, <3>1, FS_AddElement
  <2>2. CASE commandes[o] # "absente"
    <3>1. Passees' = Passees
      BY <1>1, <1>2, <2>2 DEF Passees, De, Etats
    <3> QED
      BY <2>2, <3>1
  <2> QED
    BY <2>1, <2>2
<1> HIDE DEF n
<1>5. CASE stats.lues = {}
  BY <1>2, <1>3, <1>5 DEF StatsLues
<1>6. CASE stats.lues # {}
  <2>1. /\ stats'.change /\ stats'.lues = stats.lues /\ stats'.total = stats.total
        /\ stats'.creees = IF e = "EN_ATTENTE" THEN stats.creees + 1
                                               ELSE stats.creees
        /\ Somme' = Somme
    BY <1>1, <1>2, <1>6 DEF StatsT, Somme
  <2>2. Somme \in Int /\ stats.total \in Int /\ stats.creees \in Nat
    BY <1>1 DEF StatsT, Somme, Etats
  <2> QED
    BY <1>1, <1>2, <1>3, <1>4, <2>1, <2>2 DEF StatsLues, n
<1> QED
  BY <1>5, <1>6

LEMMA PasVitrine ==
  ASSUME VitrineAssumption, VitrineJuste, NextVitrine
  PROVE  VitrineJuste'
<1>1. CASE NextCatalogue /\ UNCHANGED <<accueil, tableau>>
  BY <1>1, FiltresLaisses, StatsLaissees DEF VitrineJuste, accueil
<1>2. ASSUME \/ Defiler \/ FermerBandeau
             \/ \E i \in 0..Cardinality(Annonces) : Pointer(i)
      PROVE  VitrineJuste'
  BY <1>2, FiltresLaisses, StatsLaissees DEF VitrineJuste, Defiler,
     FermerBandeau, Pointer, Accueil
<1>3. ASSUME \/ FinDelai \/ Arriver
             \/ \E s \in Recherches \cup {Aucun} : Taper(s)
             \/ \E c \in Categories \cup {Aucun} : SelectCategorie(c)
      PROVE  VitrineJuste'
  <2>1. UNCHANGED tableau
    BY <1>3 DEF FinDelai, Arriver, Taper, SelectCategorie, Accueil
  <2> QED
    BY <1>3, <2>1, PasFinDelai, PasArriver, PasTaper, PasSelectCategorie,
       StatsLaissees DEF VitrineJuste
<1>4. ASSUME \/ Lire("ventes", [stats EXCEPT !.ventes = Ventes])
             \/ Lire("total", [stats EXCEPT !.total = Cardinality(Passees)])
             \/ Lire("parEtat", [stats EXCEPT !.parEtat = ParEtat])
             \/ Lire("populaires", stats)
      PROVE  VitrineJuste'
  <2>1. UNCHANGED accueil
    BY <1>4 DEF Lire, Tableau
  <2> QED
    BY <1>4, <2>1, PasLire, FiltresLaisses DEF VitrineJuste, accueil
<1>5. ASSUME NEW o \in Commandes, NEW e \in Etats, Evoluer(o, e)
      PROVE  VitrineJuste'
  BY <1>5, PasEvoluer, FiltresLaisses DEF VitrineJuste, accueil, Evoluer, Tableau
<1> QED
  BY <1>1, <1>2, <1>3, <1>4, <1>5 DEF NextVitrine

THEOREM VitrineVraie == SpecGestion => []VitrineJuste
<1>1. InitGestion => VitrineJuste
  BY InitVitrineJuste, VitrineAssumption DEF InitGestion
<1>2. VitrineJuste /\ [NextGestion]_gestion => VitrineJuste'
  <2> SUFFICES ASSUME VitrineJuste, [NextGestion]_gestion
               PROVE  VitrineJuste'
    OBVIOUS
  <2>1. CASE NextVitrine
    BY <2>1, PasVitrine, VitrineAssumption
  <2>2. CASE UNCHANGED vitrine
    BY <2>2, FiltresLaisses, StatsLaissees DEF VitrineJuste, vitrine, accueil
  <2> QED
    BY <2>1, <2>2 DEF NextGestion, DuProfil, gestion
<1> QED
  BY <1>1, <1>2, PTL DEF SpecGestion

\* At rest the URL has what is typed and what is selected.
THEOREM FiltresFidelesVrai == SpecGestion => []FiltresFideles
<1>1. VitrineJuste => FiltresFideles
  BY DEF VitrineJuste, FiltresSuivis, FiltresFideles
<1> QED
  BY <1>1, VitrineVraie, PTL

\* The numbers of the dashboard agree, but for what changes while they are read.
THEOREM StatsJustesVrai == SpecGestion => []StatsJustes
<1>1. VitrineJuste => StatsJustes
  <2> SUFFICES ASSUME VitrineJuste, stats.lues = Quatre
               PROVE  /\ ~stats.change =>
                           stats.ventes = stats.total - stats.parEtat["ANNULEE"]
                      /\ Somme - stats.total \in -stats.creees..stats.creees
    BY DEF StatsJustes
  <2>1. /\ commandes \in [Commandes -> Etats] /\ stats \in StatsT
        /\ {"ventes", "total", "parEtat"} \subseteq stats.lues
    BY DEF VitrineJuste, StatsLues, Quatre
  <2>2. Cardinality(Passees) \in Nat
    BY <2>1, Effectifs, VitrineAssumption DEF Passees
  <2>3. ASSUME ~stats.change
        PROVE  stats.ventes = stats.total - stats.parEtat["ANNULEE"]
    <3>1. /\ stats.ventes = Ventes /\ stats.total = Cardinality(Passees)
          /\ stats.parEtat = ParEtat
      BY <2>1, <2>3 DEF VitrineJuste, StatsLues
    <3>2. ParEtat["ANNULEE"] = Cardinality(De({"ANNULEE"}))
      BY DEF ParEtat, Etats
    <3>3. Ventes \in Nat /\ Cardinality(De({"ANNULEE"})) \in Nat
      BY <2>1, Effectifs, VitrineAssumption DEF Ventes
    <3> QED
      BY <2>1, <3>1, <3>2, <3>3, Effectifs, VitrineAssumption
  <2>4. Somme - stats.total \in -stats.creees..stats.creees
    <3>1. Somme \in Int /\ stats.total \in Int /\ stats.creees \in Nat
      BY <2>1 DEF StatsT, Somme, Etats
    <3> QED
      BY <2>1, <2>2, <3>1 DEF VitrineJuste, StatsLues
  <2> QED
    BY <2>3, <2>4
<1> QED
  BY <1>1, VitrineVraie, PTL

----------------------------------------------------------------------------
(* Prices, orders and invoices.                                            *)

\* Partial sums exist and are what their definition says: by induction on the
\* length, the first length that has none being the one after one that has.
LEMMA CumulExiste ==
  ASSUME NEW m \in Seq(Nat)
  PROVE  \A n \in Nat : n <= Len(m) =>
           \E c \in [0..n -> Nat] :
             c = [k \in 0..n |-> IF k = 0 THEN 0 ELSE c[k - 1] + m[k]]
<1> DEFINE Bon(n) == \E c \in [0..n -> Nat] :
             c = [k \in 0..n |-> IF k = 0 THEN 0 ELSE c[k - 1] + m[k]]
           T == {n \in Nat : n <= Len(m) /\ ~Bon(n)}
<1>1. SUFFICES ASSUME T # {}
               PROVE  FALSE
  OBVIOUS
<1>2. PICK n \in T : \A k \in T : ~(<<k, n>> \in OpToRel(<, Nat))
  <2>1. T \subseteq Nat
    OBVIOUS
  <2> HIDE DEF T
  <2> QED
    BY <1>1, <2>1, NatLessThanWellFounded, WFMin
<1>3. \A k \in T : ~(k < n)
  BY <1>2 DEF OpToRel
<1>4. CASE n = 0
  <2> DEFINE z == [k \in 0..0 |-> 0]
  <2>1. z \in [0..0 -> Nat]
    OBVIOUS
  <2>2. z = [k \in 0..0 |-> IF k = 0 THEN 0 ELSE z[k - 1] + m[k]]
    OBVIOUS
  <2> QED
    BY <1>4, <2>1, <2>2
<1>5. CASE n # 0
  <2>1. n - 1 \in Nat /\ n - 1 < n /\ n - 1 <= Len(m)
    BY <1>5
  <2>2. Bon(n - 1)
    BY <1>3, <2>1
  <2>3. PICK c \in [0..(n - 1) -> Nat] :
          c = [k \in 0..(n - 1) |-> IF k = 0 THEN 0 ELSE c[k - 1] + m[k]]
    BY <2>2
  <2> DEFINE d == [k \in 0..n |-> IF k = n THEN c[n - 1] + m[n] ELSE c[k]]
  <2>4. d \in [0..n -> Nat]
    BY <1>5, <2>1
  <2>5. d = [k \in 0..n |-> IF k = 0 THEN 0 ELSE d[k - 1] + m[k]]
    <3> SUFFICES ASSUME NEW k \in 0..n
                 PROVE  d[k] = IF k = 0 THEN 0 ELSE d[k - 1] + m[k]
      BY <2>4
    <3>1. CASE k = n
      BY <1>5, <2>1, <3>1
    <3>2. CASE k # n
      BY <2>3, <3>2, <2>1
    <3> QED
      BY <3>1, <3>2
  <2> QED
    BY <2>4, <2>5
<1> QED
  BY <1>4, <1>5

LEMMA CumulVrai ==
  ASSUME NEW m \in Seq(Nat)
  PROVE  /\ Cumul(m) \in [0..Len(m) -> Nat]
         /\ Cumul(m)[0] = 0
         /\ \A n \in 1..Len(m) : Cumul(m)[n] = Cumul(m)[n - 1] + m[n]
<1>1. Len(m) \in Nat
  OBVIOUS
<1>2. PICK c \in [0..Len(m) -> Nat] :
        c = [k \in 0..Len(m) |-> IF k = 0 THEN 0 ELSE c[k - 1] + m[k]]
  <2>1. \A n \in Nat : n <= Len(m) =>
          \E c \in [0..n -> Nat] :
            c = [k \in 0..n |-> IF k = 0 THEN 0 ELSE c[k - 1] + m[k]]
    BY CumulExiste
  <2>2. Len(m) <= Len(m)
    BY <1>1
  <2> QED
    BY <1>1, <2>1, <2>2
<1>3. Cumul(m) =
        [k \in 0..Len(m) |-> IF k = 0 THEN 0 ELSE Cumul(m)[k - 1] + m[k]]
  BY <1>2 DEF Cumul
<1>4. \A k \in 0..Len(m) :
        Cumul(m)[k] = IF k = 0 THEN 0 ELSE Cumul(m)[k - 1] + m[k]
  BY <1>3
<1> DEFINE Bon(k) == Cumul(m)[k] \in Nat
           T == {k \in Nat : k <= Len(m) /\ ~Bon(k)}
<1>5. T = {}
  <2> SUFFICES ASSUME T # {}
               PROVE  FALSE
    OBVIOUS
  <2>1. PICK n \in T : \A k \in T : ~(<<k, n>> \in OpToRel(<, Nat))
    <3>1. T \subseteq Nat
      OBVIOUS
    <3> HIDE DEF T
    <3> QED
      BY <3>1, NatLessThanWellFounded, WFMin
  <2>2. \A k \in T : ~(k < n)
    BY <2>1 DEF OpToRel
  <2>3. n # 0
    BY <1>1, <1>4
  <2>4. n - 1 \in Nat /\ n - 1 < n /\ n - 1 <= Len(m) /\ n \in 1..Len(m)
    BY <1>1, <2>3
  <2>5. Cumul(m)[n - 1] \in Nat
    BY <2>2, <2>4
  <2>6. m[n] \in Nat /\ Cumul(m)[n] = Cumul(m)[n - 1] + m[n]
    BY <1>4, <2>3, <2>4
  <2> QED
    BY <2>5, <2>6
<1>6. \A k \in 0..Len(m) : Cumul(m)[k] \in Nat
  BY <1>1, <1>5
<1>7. Cumul(m) \in [0..Len(m) -> Nat]
  <2> DEFINE f == Cumul(m)
  <2>1. f = [k \in 0..Len(m) |-> IF k = 0 THEN 0 ELSE f[k - 1] + m[k]]
    BY <1>3
  <2>2. \A k \in 0..Len(m) : f[k] \in Nat
    BY <1>6
  <2> HIDE DEF f
  <2>3. f = [k \in 0..Len(m) |-> f[k]]
    BY <2>1
  <2> QED
    BY <2>2, <2>3 DEF f
<1>8. 0 \in 0..Len(m) /\ \A n \in 1..Len(m) : n \in 0..Len(m) /\ n # 0
  BY <1>1
<1> QED
  BY <1>4, <1>7, <1>8

LEMMA Produit == ASSUME NEW a \in Nat, NEW b \in Nat
                 PROVE  a * b \in Nat
  OBVIOUS

\* The amounts of lines, and their sum.
LEMMA MontantsVrais ==
  ASSUME NEW A, NEW s \in Seq(LigneDe(A, Nat))
  PROVE  /\ Montants(s) \in Seq(Nat) /\ Len(Montants(s)) = Len(s)
         /\ \A i \in 1..Len(s) : Montants(s)[i] = s[i].q * s[i].pu
         /\ Total(Montants(s)) \in Nat
         /\ Cumul(Montants(s)) \in [0..Len(s) -> Nat]
         /\ Cumul(Montants(s))[0] = 0
         /\ \A n \in 1..Len(s) : Cumul(Montants(s))[n] =
              Cumul(Montants(s))[n - 1] + s[n].q * s[n].pu
<1> DEFINE m == Montants(s)
<1>1. /\ Len(s) \in Nat /\ DOMAIN s = 1..Len(s)
      /\ \A i \in 1..Len(s) : s[i] \in LigneDe(A, Nat)
  OBVIOUS
<1>2. \A i \in 1..Len(s) : s[i].q * s[i].pu \in Nat
  BY <1>1, Produit DEF LigneDe
<1>3. m = [i \in 1..Len(s) |-> s[i].q * s[i].pu]
  BY <1>1 DEF Montants
<1>4. m \in Seq(Nat) /\ Len(m) = Len(s)
  BY <1>1, <1>2, <1>3
<1>5. \A i \in 1..Len(s) : m[i] = s[i].q * s[i].pu
  BY <1>3
<1> HIDE DEF m
<1>6. /\ Cumul(m) \in [0..Len(s) -> Nat] /\ Cumul(m)[0] = 0
      /\ \A n \in 1..Len(s) : Cumul(m)[n] = Cumul(m)[n - 1] + m[n]
  BY <1>4, CumulVrai
<1>7. Total(m) \in Nat
  BY <1>1, <1>4, <1>6 DEF Total
<1> QED
  BY <1>4, <1>5, <1>6, <1>7 DEF m

\* Rows of the cart: one that is there has a quantity and a price.
RangeeT == {AucuneRangee} \cup [q : Nat \ {0}, pu : Prix]

LigneFactureT == LigneDe(Articles \cup Nat, Nat)

CommandeT ==
  [etat : {"AUCUNE", "EN_ATTENTE", "PAYEE", "ANNULEE"},
   methode : {"", "EN_LIGNE", "A_LA_LIVRAISON"}, lignes : Seq(LigneFactureT),
   total : Nat]

\* The lines that are left are the last ones, and what was added up is the sum
\* of the others.
PdfSuit ==
  LET n == Len(commande.lignes) - Len(pdf.reste) IN
  /\ Len(pdf.reste) <= Len(commande.lignes)
  /\ \A i \in 1..Len(pdf.reste) : pdf.reste[i] = commande.lignes[n + i]
  /\ pdf.ttc = Cumul(Montants(commande.lignes))[n]

PdfT == [etape : {"rien", "lignes", "signatures", "fini"},
         reste : Seq(LigneFactureT), page : Nat, y : Int, bas : Int, ttc : Nat]

PdfJuste ==
  /\ pdf \in PdfT
  /\ pdf.etape # "rien" => commande.etat = "PAYEE"
  /\ pdf.bas <= PageBottom
  /\ pdf.etape = "lignes" => pdf.y <= PageBottom - 22 /\ PdfSuit
  /\ pdf.etape \in {"signatures", "fini"} => pdf.ttc = commande.total

DocumentJuste ==
  /\ prix \in [Articles -> Prix]
  /\ rangees \in [Articles -> RangeeT]
  /\ commande \in CommandeT
  /\ commande.total = Total(Montants(commande.lignes))
  /\ commande.etat = "EN_ATTENTE" =>
       commande.lignes # << >> /\ commande.lignes \in Seq(LigneDe(Articles, Prix))
  /\ facture \in [montant : Nat \cup {-1}, isPrinted : BOOLEAN]
  /\ commande.etat = "PAYEE" => facture.montant = commande.total
  /\ commande.etat # "PAYEE" => facture = PasDeFacture
  /\ PdfJuste

LEMMA LignesIncluses ==
  ASSUME FacturationAssumption
  PROVE  /\ Seq(LigneDe(Articles, Prix)) \subseteq Seq(LigneFactureT)
         /\ Seq(LigneDe(Nat, Nat)) \subseteq Seq(LigneFactureT)
<1>1. LigneDe(Articles, Prix) \subseteq LigneFactureT
  BY DEF LigneDe, LigneFactureT, FacturationAssumption
<1>2. LigneDe(Nat, Nat) \subseteq LigneFactureT
  BY DEF LigneDe, LigneFactureT
<1> QED
  BY <1>1, <1>2

LEMMA InitDocument ==
  ASSUME FacturationAssumption, InitFacturation \/ InitAncienne
  PROVE  DocumentJuste
<1>1. prix \in [Articles -> Prix]
  BY DEF InitFacturation, InitAncienne, PremiersPrix, FacturationAssumption
<1>2. rangees \in [Articles -> RangeeT]
  BY DEF InitFacturation, InitAncienne, AucuneRangee, RangeeT
<1>3. pdf = PasDePdf
  BY DEF InitFacturation, InitAncienne
<1>4. PdfJuste
  BY <1>3 DEF PdfJuste, PdfT, PasDePdf, PageBottom
<1>5. CASE InitFacturation
  <2>1. commande = PasDeCommande /\ facture = PasDeFacture
    BY <1>5 DEF InitFacturation
  <2>2. << >> \in Seq(LigneFactureT) /\ Len(<< >>) = 0
    OBVIOUS
  <2>3. Total(Montants(<< >>)) = 0
    BY <2>2, MontantsVrais DEF Total, LigneFactureT
  <2> QED
    BY <1>1, <1>2, <1>4, <2>1, <2>2, <2>3 DEF DocumentJuste, PasDeCommande,
       PasDeFacture, CommandeT
<1>6. CASE InitAncienne
  <2>1. PICK s \in Anciennes :
          commande = [etat |-> "PAYEE", methode |-> "EN_LIGNE", lignes |-> s,
                      total |-> Total(Montants(s))]
    BY <1>6 DEF InitAncienne
  <2>2. s # << >> /\ s \in Seq(LigneDe(Nat, Nat)) /\ s \in Seq(LigneFactureT)
    BY LignesIncluses DEF FacturationAssumption
  <2>3. Total(Montants(s)) \in Nat
    BY <2>2, MontantsVrais DEF LigneFactureT
  <2>4. facture = [montant |-> commande.total, isPrinted |-> FALSE]
    BY <1>6 DEF InitAncienne
  <2> QED
    BY <1>1, <1>2, <1>4, <2>1, <2>2, <2>3, <2>4 DEF DocumentJuste, CommandeT
<1> QED
  BY <1>5, <1>6

\* Only the cart and the prices change.
LEMMA PasPanier ==
  ASSUME DocumentJuste, prix' \in [Articles -> Prix],
         rangees' \in [Articles -> RangeeT], UNCHANGED <<commande, facture, pdf>>
  PROVE  DocumentJuste'
  BY DEF DocumentJuste, PdfJuste, PdfSuit

LEMMA PasDesPrix ==
  ASSUME FacturationAssumption, DocumentJuste, NEW a \in Articles,
         AddItem(a) \/ RemoveItem(a) \/ \E p \in Prix : UpdatePrix(a, p)
  PROVE  DocumentJuste'
<1>1. prix \in [Articles -> Prix] /\ rangees \in [Articles -> RangeeT]
  BY DEF DocumentJuste
<1>2. Prix \subseteq Nat
  BY DEF FacturationAssumption
<1>3. CASE AddItem(a)
  <2>1. Ajoutee(rangees[a], prix[a]) \in RangeeT
    BY <1>1, <1>2 DEF RangeeT, AucuneRangee, Ajoutee
  <2>2. rangees' \in [Articles -> RangeeT]
    BY <1>1, <1>3, <2>1 DEF AddItem
  <2> QED
    BY <1>1, <1>3, <2>2, PasPanier DEF AddItem
<1>4. CASE RemoveItem(a)
  <2>1. AucuneRangee \in RangeeT
    BY DEF AucuneRangee, RangeeT
  <2> QED
    BY <1>1, <1>4, <2>1, PasPanier DEF RemoveItem
<1>5. CASE \E p \in Prix : UpdatePrix(a, p)
  BY <1>1, <1>5, PasPanier DEF UpdatePrix
<1> QED
  BY <1>3, <1>4, <1>5

\* The rows of the cart as a sequence.
LEMMA LuesToutes ==
  ASSUME FacturationAssumption
  PROVE  /\ Lues \in Seq(Presentes)
         /\ Presentes # {} => Lues # << >>
<1>1. IsFiniteSet(Presentes)
  BY FS_Subset DEF FacturationAssumption, Presentes
<1>2. /\ Lues \in [1..Cardinality(Presentes) -> Presentes]
      /\ Cardinality(Presentes) \in Nat
  BY <1>1, FS_CardinalityType DEF Lues, SetToSeq, ExistsBijection, Bijection,
     Injection
<1>3. Presentes # {} => Cardinality(Presentes) # 0
  BY <1>1, FS_EmptySet
<1> QED
  BY <1>2, <1>3

LEMMA PasCreateCommande ==
  ASSUME FacturationAssumption, DocumentJuste,
         NEW m \in {"EN_LIGNE", "A_LA_LIVRAISON"}, CreateCommande(m)
  PROVE  DocumentJuste'
<1>1. /\ Presentes # {} /\ commande.etat \in {"AUCUNE", "ANNULEE"}
      /\ commande' = [etat |-> "EN_ATTENTE", methode |-> m, lignes |-> Lignes,
                      total |-> TotalPanier]
      /\ rangees' = IF m = "A_LA_LIVRAISON" THEN RangeesSupprimees ELSE rangees
      /\ UNCHANGED <<prix, facture, pdf>> /\ pdf.etape = "rien"
  BY DEF CreateCommande, Acte
<1>2. /\ Lues \in Seq(Presentes) /\ Lues # << >> /\ Len(Lues) \in Nat
      /\ \A i \in 1..Len(Lues) : Lues[i] \in Presentes
  BY <1>1, LuesToutes
<1>3. \A i \in 1..Len(Lues) :
        [a |-> Lues[i], q |-> rangees[Lues[i]].q, pu |-> rangees[Lues[i]].pu]
          \in LigneDe(Articles, Prix)
  BY <1>2 DEF DocumentJuste, Presentes, RangeeT, AucuneRangee, LigneDe
<1>4. Lignes \in Seq(LigneDe(Articles, Prix)) /\ Len(Lignes) = Len(Lues)
  BY <1>2, <1>3 DEF Lignes
<1>5. Lignes # << >> /\ Lignes \in Seq(LigneFactureT)
  BY <1>2, <1>4, LignesIncluses
<1>6. Montants(Lignes) =
        [i \in 1..Len(Lues) |-> rangees[Lues[i]].q * rangees[Lues[i]].pu]
  BY <1>2 DEF Montants, Lignes
<1>7. TotalPanier = Total(Montants(Lignes)) /\ TotalPanier \in Nat
  BY <1>5, <1>6, MontantsVrais DEF TotalPanier, LigneFactureT
<1>8. rangees' \in [Articles -> RangeeT]
  BY <1>1 DEF DocumentJuste, RangeesSupprimees, AucuneRangee, RangeeT
<1> HIDE DEF Lignes, TotalPanier
<1>9. commande' \in CommandeT
  BY <1>1, <1>5, <1>7 DEF CommandeT
<1>10. PdfJuste'
  BY <1>1 DEF DocumentJuste, PdfJuste
<1> QED
  BY <1>1, <1>4, <1>5, <1>7, <1>8, <1>9, <1>10 DEF DocumentJuste

\* A row that a line of the order changed is one again.
LEMMA RangeesChangees ==
  ASSUME FacturationAssumption, DocumentJuste, commande.etat = "EN_ATTENTE"
  PROVE  /\ ParLigne(Rendue) \in [Articles -> RangeeT]
         /\ ParLigne(Achetee) \in [Articles -> RangeeT]
<1>1. ASSUME NEW r \in RangeeT, NEW l \in LigneDe(Articles, Prix)
      PROVE  Rendue(r, l) \in RangeeT /\ Achetee(r, l) \in RangeeT
  BY DEF RangeeT, LigneDe, Rendue, Achetee, AucuneRangee, FacturationAssumption
<1>2. \A i \in DOMAIN commande.lignes :
        commande.lignes[i] \in LigneDe(Articles, Prix)
  BY DEF DocumentJuste
<1>3. \A a \in Articles : rangees[a] \in RangeeT
  BY DEF DocumentJuste
<1> QED
  BY <1>1, <1>2, <1>3 DEF ParLigne

LEMMA PasCancelCommande ==
  ASSUME FacturationAssumption, DocumentJuste, CancelCommande
  PROVE  DocumentJuste'
<1>1. /\ commande.etat = "EN_ATTENTE" /\ pdf.etape = "rien"
      /\ commande' = [commande EXCEPT !.etat = "ANNULEE"]
      /\ UNCHANGED <<prix, facture, pdf>>
      /\ rangees' = rangees \/ rangees' = ParLigne(Rendue)
  BY DEF CancelCommande, Acte
<1>2. rangees' \in [Articles -> RangeeT]
  BY <1>1, RangeesChangees DEF DocumentJuste
<1>3. /\ commande' \in CommandeT /\ commande'.etat = "ANNULEE"
      /\ commande'.lignes = commande.lignes /\ commande'.total = commande.total
  BY <1>1 DEF DocumentJuste, CommandeT
<1> QED
  BY <1>1, <1>2, <1>3 DEF DocumentJuste, PdfJuste

LEMMA PasPayer ==
  ASSUME FacturationAssumption, DocumentJuste, Payer
  PROVE  DocumentJuste'
<1>1. /\ commande.etat = "EN_ATTENTE" /\ pdf.etape = "rien"
      /\ commande' = [commande EXCEPT !.etat = "PAYEE"]
      /\ facture' = [montant |-> commande.total, isPrinted |-> FALSE]
      /\ UNCHANGED <<prix, pdf>>
      /\ rangees' = rangees \/ rangees' = ParLigne(Achetee)
  BY DEF Payer, Acte
<1>2. rangees' \in [Articles -> RangeeT]
  BY <1>1, RangeesChangees DEF DocumentJuste
<1>3. /\ commande' \in CommandeT /\ commande'.etat = "PAYEE"
      /\ commande'.lignes = commande.lignes /\ commande'.total = commande.total
      /\ commande.total \in Nat
  BY <1>1 DEF DocumentJuste, CommandeT
<1> QED
  BY <1>1, <1>2, <1>3 DEF DocumentJuste, PdfJuste

LEMMA PasDownload ==
  ASSUME FacturationAssumption, DocumentJuste, Download
  PROVE  DocumentJuste'
<1>1. /\ facture # PasDeFacture /\ UNCHANGED <<prix, rangees, commande, facture>>
      /\ pdf' = [etape |-> "lignes", reste |-> commande.lignes, page |-> 1,
                 y |-> 190 + 20, bas |-> 190 + 20, ttc |-> 0]
  BY DEF Download
<1>2. commande.etat = "PAYEE" /\ commande.lignes \in Seq(LigneFactureT)
  BY <1>1 DEF DocumentJuste, CommandeT
<1>3. Cumul(Montants(commande.lignes))[0] = 0
  BY <1>2, MontantsVrais DEF LigneFactureT
<1>4. PdfSuit'
  BY <1>1, <1>2, <1>3 DEF PdfSuit
<1>5. PdfJuste'
  BY <1>1, <1>2, <1>4 DEF PdfJuste, PdfT, PageBottom
<1> QED
  BY <1>1, <1>5 DEF DocumentJuste

\* What a line leaves: one line fewer, and its amount in the sum.
LEMMA LigneSuivante ==
  ASSUME NEW L \in Seq(LigneFactureT), NEW R \in Seq(LigneFactureT), R # << >>,
         NEW n \in Int, n = Len(L) - Len(R), Len(R) <= Len(L),
         \A i \in 1..Len(R) : R[i] = L[n + i]
  PROVE  /\ Tail(R) \in Seq(LigneFactureT)
         /\ Len(Tail(R)) <= Len(L) /\ Len(L) - Len(Tail(R)) = n + 1
         /\ \A i \in 1..Len(Tail(R)) : Tail(R)[i] = L[(n + 1) + i]
         /\ Head(R) \in LigneFactureT
         /\ Cumul(Montants(L))[n] \in Nat
         /\ Cumul(Montants(L))[n + 1] =
              Cumul(Montants(L))[n] + Head(R).q * Head(R).pu
<1>1. Len(L) \in Nat /\ Len(R) \in Nat \ {0}
  OBVIOUS
<1>2. /\ Tail(R) \in Seq(LigneFactureT) /\ Len(Tail(R)) = Len(R) - 1
      /\ \A i \in 1..(Len(R) - 1) : Tail(R)[i] = R[i + 1]
      /\ Head(R) = R[1]
  OBVIOUS
<1>3. n \in Nat /\ n + 1 \in 1..Len(L) /\ 1 \in 1..Len(R) /\ n \in 0..Len(L)
  BY <1>1
<1>4. Head(R) = L[n + 1] /\ Head(R) \in LigneFactureT
  BY <1>1, <1>2, <1>3
<1>5. ASSUME NEW i \in 1..Len(Tail(R))
      PROVE  Tail(R)[i] = L[(n + 1) + i]
  <2>1. i \in Nat /\ i \in 1..(Len(R) - 1) /\ i + 1 \in 1..Len(R)
    BY <1>1, <1>2
  <2>2. n + (i + 1) = (n + 1) + i
    BY <1>3, <2>1
  <2>3. Tail(R)[i] = R[i + 1] /\ R[i + 1] = L[n + (i + 1)]
    BY <1>2, <2>1
  <2> QED
    BY <2>2, <2>3
<1>6. /\ Cumul(Montants(L)) \in [0..Len(L) -> Nat]
      /\ Cumul(Montants(L))[n + 1] =
           Cumul(Montants(L))[(n + 1) - 1] + L[n + 1].q * L[n + 1].pu
  BY <1>3, MontantsVrais DEF LigneFactureT
<1>7. (n + 1) - 1 = n
  BY <1>3
<1> QED
  BY <1>1, <1>2, <1>3, <1>4, <1>5, <1>6, <1>7

LEMMA PasDessinerLigne ==
  ASSUME FacturationAssumption, DocumentJuste, DessinerLigne
  PROVE  DocumentJuste'
<1> DEFINE pleine == Pleine(pdf.y, 40)
           y == (IF pleine THEN 40 + 20 ELSE pdf.y) + 18
           page == IF pleine THEN pdf.page + 1 ELSE pdf.page
           l == Head(pdf.reste)
           somme == pdf.ttc + l.q * l.pu
           L == commande.lignes
           n == Len(L) - Len(pdf.reste)
<1>1. /\ pdf.etape = "lignes" /\ pdf.reste # << >>
      /\ pdf' = [pdf EXCEPT !.reste = Tail(pdf.reste), !.y = y, !.bas = y,
                   !.page = page, !.ttc = somme]
      /\ UNCHANGED <<prix, rangees, commande, facture>>
  BY DEF DessinerLigne
<1>2. /\ pdf \in PdfT /\ PdfSuit /\ pdf.y <= PageBottom - 22
      /\ L \in Seq(LigneFactureT) /\ commande.etat = "PAYEE"
  BY <1>1 DEF DocumentJuste, PdfJuste, PdfT, CommandeT
<1>3. y \in Int /\ y <= PageBottom - 22 /\ page \in Nat
  BY <1>2 DEF Pleine, PageBottom, PdfT
<1>4. /\ pdf.reste \in Seq(LigneFactureT) /\ Len(pdf.reste) \in Nat
      /\ Len(L) \in Nat /\ n \in Int
      /\ Len(pdf.reste) <= Len(L) /\ pdf.ttc = Cumul(Montants(L))[n]
      /\ \A i \in 1..Len(pdf.reste) : pdf.reste[i] = L[n + i]
  BY <1>2 DEF PdfT, PdfSuit
<1> DEFINE R == pdf.reste
<1>5. /\ R # << >> /\ n \in Int /\ n = Len(L) - Len(R)
      /\ R \in Seq(LigneFactureT) /\ L \in Seq(LigneFactureT)
      /\ Len(R) <= Len(L) /\ \A i \in 1..Len(R) : R[i] = L[n + i]
      /\ l = Head(R) /\ pdf.ttc = Cumul(Montants(L))[n]
  BY <1>1, <1>2, <1>4
<1> HIDE DEF n, R, L, l
<1>6. /\ Tail(R) \in Seq(LigneFactureT)
      /\ Len(Tail(R)) <= Len(L) /\ Len(L) - Len(Tail(R)) = n + 1
      /\ \A i \in 1..Len(Tail(R)) : Tail(R)[i] = L[(n + 1) + i]
      /\ l \in LigneFactureT /\ Cumul(Montants(L))[n] \in Nat
      /\ Cumul(Montants(L))[n + 1] = Cumul(Montants(L))[n] + l.q * l.pu
  <2>1. /\ Tail(R) \in Seq(LigneFactureT)
        /\ Len(Tail(R)) <= Len(L) /\ Len(L) - Len(Tail(R)) = n + 1
        /\ \A i \in 1..Len(Tail(R)) : Tail(R)[i] = L[(n + 1) + i]
    BY <1>5, LigneSuivante
  <2>2. /\ Head(R) \in LigneFactureT /\ Cumul(Montants(L))[n] \in Nat
        /\ Cumul(Montants(L))[n + 1] =
             Cumul(Montants(L))[n] + Head(R).q * Head(R).pu
    BY <1>5, LigneSuivante
  <2> QED
    BY <1>5, <2>1, <2>2
<1>7. somme = Cumul(Montants(L))[n + 1] /\ somme \in Nat
  <2>1. l.q \in Nat /\ l.pu \in Nat
    BY <1>6 DEF LigneFactureT, LigneDe
  <2> DEFINE produit == l.q * l.pu
  <2>2. produit \in Nat
    BY <2>1, Produit
  <2>3. somme = pdf.ttc + produit
    OBVIOUS
  <2>4. Cumul(Montants(L))[n + 1] = Cumul(Montants(L))[n] + produit
    BY <1>6
  <2> HIDE DEF produit, somme
  <2> QED
    BY <1>5, <1>6, <2>2, <2>3, <2>4
<1> HIDE DEF pleine, y, page, l, somme
<1>8. /\ pdf' = [etape |-> "lignes", reste |-> Tail(R), page |-> page,
                 y |-> y, bas |-> y, ttc |-> somme]
      /\ commande'.lignes = L
  BY <1>1, <1>2 DEF PdfT, R, L
<1>9. PdfSuit'
  BY <1>6, <1>7, <1>8 DEF PdfSuit
<1>10. PdfJuste'
  <2>1. y <= PageBottom
    BY <1>3 DEF PageBottom
  <2>2. pdf' \in PdfT
    BY <1>3, <1>6, <1>7, <1>8 DEF PdfT
  <2> QED
    BY <1>1, <1>2, <1>3, <1>8, <1>9, <2>1, <2>2 DEF PdfJuste
<1> QED
  BY <1>1, <1>10 DEF DocumentJuste

LEMMA PasDessinerTotaux ==
  ASSUME FacturationAssumption, DocumentJuste, DessinerTotaux
  PROVE  DocumentJuste'
<1> DEFINE pleine == Pleine(pdf.y + 15, 160)
           y == IF pleine THEN 40 ELSE pdf.y + 15
           lettres == y + 6 * 15 + 10
           page == IF pleine THEN pdf.page + 1 ELSE pdf.page
<1>1. /\ pdf.etape = "lignes" /\ pdf.reste = << >>
      /\ pdf' = [pdf EXCEPT !.etape = "signatures", !.y = lettres + 50,
                   !.bas = lettres + 14 + 22, !.page = page]
      /\ UNCHANGED <<prix, rangees, commande, facture>>
  BY DEF DessinerTotaux
<1>2. /\ pdf \in PdfT /\ PdfSuit /\ commande.etat = "PAYEE"
      /\ commande.lignes \in Seq(LigneFactureT)
      /\ commande.total = Total(Montants(commande.lignes))
  BY <1>1 DEF DocumentJuste, PdfJuste, PdfT, CommandeT
<1>3. page \in Nat /\ lettres \in Int /\ lettres + 14 + 22 <= PageBottom
  BY <1>2 DEF Pleine, PageBottom, PdfT
<1>4. pdf.ttc = commande.total
  <2>1. Len(pdf.reste) = 0 /\ Len(commande.lignes) \in Nat
    BY <1>1, <1>2
  <2>2. pdf.ttc = Cumul(Montants(commande.lignes))[Len(commande.lignes)]
    BY <1>2, <2>1 DEF PdfSuit
  <2>3. Len(Montants(commande.lignes)) = Len(commande.lignes)
    BY <1>2, MontantsVrais DEF LigneFactureT
  <2> QED
    BY <1>2, <2>2, <2>3 DEF Total
<1> HIDE DEF pleine, lettres, page
<1>5. pdf' = [etape |-> "signatures", reste |-> pdf.reste, page |-> page,
              y |-> lettres + 50, bas |-> lettres + 14 + 22, ttc |-> pdf.ttc]
  BY <1>1, <1>2, <1>3 DEF PdfT
<1>6. pdf.reste \in Seq(LigneFactureT) /\ pdf.ttc \in Nat
  BY <1>2 DEF PdfT
<1>7. PdfJuste'
  BY <1>1, <1>2, <1>3, <1>4, <1>5, <1>6 DEF PdfJuste, PdfT
<1> QED
  BY <1>1, <1>7 DEF DocumentJuste

LEMMA PasDessinerSignatures ==
  ASSUME FacturationAssumption, DocumentJuste, DessinerSignatures
  PROVE  DocumentJuste'
<1> DEFINE pleine == Pleine(pdf.y, 90)
           y == IF pleine THEN 40 ELSE pdf.y
           page == IF pleine THEN pdf.page + 1 ELSE pdf.page
<1>1. /\ pdf.etape = "signatures"
      /\ pdf' = [pdf EXCEPT !.etape = "fini", !.y = y, !.bas = y + 12 + 70,
                   !.page = page]
      /\ facture' = [facture EXCEPT !.isPrinted = TRUE]
      /\ UNCHANGED <<prix, rangees, commande>>
  BY DEF DessinerSignatures
<1>2. /\ pdf \in PdfT /\ commande.etat = "PAYEE" /\ pdf.ttc = commande.total
  BY <1>1 DEF DocumentJuste, PdfJuste, PdfT
<1>3. page \in Nat /\ y \in Int /\ y + 12 + 70 <= PageBottom
  BY <1>2 DEF Pleine, PageBottom, PdfT
<1> HIDE DEF pleine, y, page
<1>4. pdf' = [etape |-> "fini", reste |-> pdf.reste, page |-> page,
              y |-> y, bas |-> y + 12 + 70, ttc |-> pdf.ttc]
  BY <1>1, <1>2, <1>3 DEF PdfT
<1>5. pdf.reste \in Seq(LigneFactureT) /\ pdf.ttc \in Nat
  BY <1>2 DEF PdfT
<1>6. PdfJuste'
  BY <1>1, <1>2, <1>3, <1>4, <1>5 DEF PdfJuste, PdfT
<1>7. /\ facture' \in [montant : Nat \cup {-1}, isPrinted : BOOLEAN]
      /\ facture'.montant = facture.montant
  BY <1>1 DEF DocumentJuste
<1> QED
  BY <1>1, <1>2, <1>6, <1>7 DEF DocumentJuste

THEOREM DocumentVrai == SpecGestion => []DocumentJuste
<1> USE FacturationAssumption
<1>1. InitGestion => DocumentJuste
  BY InitDocument DEF InitGestion
<1>2. DocumentJuste /\ [NextGestion]_gestion => DocumentJuste'
  <2> SUFFICES ASSUME DocumentJuste, [NextGestion]_gestion
               PROVE  DocumentJuste'
    OBVIOUS
  <2>1. CASE NextFacturation
    BY <2>1, PasDesPrix, PasCreateCommande, PasCancelCommande, PasPayer,
       PasDownload, PasDessinerLigne, PasDessinerTotaux, PasDessinerSignatures
       DEF NextFacturation
  <2>2. CASE UNCHANGED facturation
    BY <2>2, PasPanier DEF facturation, DocumentJuste
  <2> QED
    BY <2>1, <2>2 DEF NextGestion, DuProfil, gestion
<1> QED
  BY <1>1, <1>2, PTL DEF SpecGestion

\* The parts of an amount before tax and of tax, each rounded, add up to it.
LEMMA PartsEntieres ==
  ASSUME NEW ttc \in Nat
  PROVE  TotalHT(ttc) + TotalTVA(ttc) = ttc /\ TotalHT(ttc) \in Int
         /\ TotalTVA(ttc) \in Int
  BY DEF TotalHT, TotalTVA, Part, Arrondi, Tva

\* The lines of every printed invoice add up to what was paid, and its amounts
\* to its net.
THEOREM FactureJusteVrai == SpecGestion => []FactureJuste
<1>1. DocumentJuste => FactureJuste
  <2> SUFFICES ASSUME DocumentJuste
               PROVE  FactureJuste
    OBVIOUS
  <2> USE DEF DocumentJuste
  <2>1. TypeFacturation
    <3>1. ASSUME NEW a \in Articles
          PROVE  \/ rangees[a] = AucuneRangee
                 \/ rangees[a] \in [q : Nat \ {0}, pu : Prix]
      BY DEF RangeeT
    <3>2. ASSUME commande.etat = "PAYEE"
          PROVE  facture # PasDeFacture
      <4>1. facture.montant \in Nat
        BY <3>2 DEF CommandeT
      <4> QED
        BY <4>1 DEF PasDeFacture
    <3> QED
      BY <3>1, <3>2 DEF TypeFacturation, CommandeT
  <2>2. FactureFidele
    BY DEF FactureFidele, PdfJuste
  <2>3. AdditionJuste
    <3>1. pdf.ttc \in Nat
      BY DEF PdfJuste, PdfT
    <3> QED
      BY <3>1, PartsEntieres DEF AdditionJuste, NetAPayer, TimbreFiscal
  <2> QED
    BY <2>1, <2>2, <2>3 DEF FactureJuste
<1> QED
  BY <1>1, DocumentVrai, PTL

\* Nothing is drawn below the bottom of a page, whatever the number of lines.
THEOREM DansLaPageVrai == SpecGestion => []DansLaPage
<1>1. DocumentJuste => DansLaPage
  BY DEF DocumentJuste, PdfJuste, DansLaPage
<1> QED
  BY <1>1, DocumentVrai, PTL

----------------------------------------------------------------------------
(* The profile.                                                            *)

FicheT ==
  [etat : {"fermee", "attend", "ouverte"}, nom : Noms \cup {Personne},
   contact : Contacts \cup {Personne}, saisi : BOOLEAN,
   statut : {"idle", "loading", "done", "error"}, minuterie : BOOLEAN]

TypesProfil ==
  /\ admin \in BOOLEAN /\ recouvre \in BOOLEAN /\ tombe \in BOOLEAN
  /\ compte \in [nom : Noms, mdp : Secrets]
  /\ ligne \in [nom : Noms, contact : Contacts]
  /\ voulu \in [nom : Noms, contact : Contacts, mdp : Secrets]
  /\ jetons \subseteq Noms
  /\ appels \in [Appels -> AppelT \cup {Personne}]
  /\ fiche \in FicheT
  /\ secret \in [statut : {"idle", "loading", "done", "error"},
                 minuterie : BOOLEAN]

\* A body is the one of its form, and a request calls Keycloak for what is in
\* its body.
AppelJuste(r, chef) ==
  /\ r.pc = "sync" => r.champs = Rien
  /\ r.pc = "updateUser" => r.champs.nom # Personne
  /\ r.pc = "resetPassword" => r.champs.mdp # Personne
  /\ r.champs.mdp # Personne =>
       r.champs.nom = Personne /\ r.champs.contact = Personne
  /\ r.champs.nom # Personne => r.champs.contact # Personne
  /\ r.de = "fiche" =>
       r.champs.contact # Personne /\ (chef => r.champs.nom # Personne)
  /\ r.de = "secret" => r.champs.mdp # Personne
  /\ ~chef => r.champs.nom = Personne

AppelsJustes == \A a \in Appels : appels[a] # Personne => AppelJuste(appels[a], admin)

\* While no two saves overlap, a body has what was last asked for, and Keycloak
\* and the row have it once the request is past them.
AppelVoulu(r, k, l, w) ==
  /\ r.champs.nom # Personne => r.champs.nom = w.nom
  /\ r.champs.nom # Personne /\ r.pc \in {"ecrire", "ok"} =>
       k.nom = w.nom
  /\ r.champs.contact # Personne => r.champs.contact = w.contact
  /\ r.champs.contact # Personne /\ r.pc = "ok" =>
       l.contact = w.contact
  /\ r.champs.mdp # Personne => r.champs.mdp = w.mdp
  /\ r.champs.mdp # Personne /\ r.pc \in {"ecrire", "ok"} =>
       k.mdp = w.mdp

AppelsVoulus ==
  ~recouvre => \A a \in Appels :
    appels[a] # Personne => AppelVoulu(appels[a], compte, ligne, voulu)

\* What is not there yet is on its way.
EnChemin ==
  ~recouvre /\ ~tombe =>
    /\ \/ compte.nom = voulu.nom
       \/ \E a \in Appels : appels[a] # Personne /\ appels[a].pc = "updateUser"
    /\ \/ compte.mdp = voulu.mdp
       \/ \E a \in Appels : appels[a] # Personne /\ appels[a].pc = "resetPassword"
    /\ \/ ligne.contact = voulu.contact
       \/ \E a \in Appels :
            /\ appels[a] # Personne /\ appels[a].champs.contact # Personne
            /\ appels[a].pc \in {"updateUser", "ecrire"}

FicheJuste ==
  /\ fiche.etat = "ouverte" => fiche.nom \in Noms /\ fiche.contact \in Contacts
  /\ ~admin => ~fiche.saisi
  /\ fiche.statut = "loading" =>
       \E a \in Appels : appels[a] # Personne /\ appels[a].de = "fiche"

ProfilSuivi ==
  /\ TypesProfil /\ AppelsJustes /\ AppelsVoulus /\ EnChemin /\ FicheJuste
  /\ ReponseVraie

LEMMA InitProfil ==
  ASSUME ProfilsAssumption, InitProfils
  PROVE  ProfilSuivi
<1>1. Un(Noms) \in Noms /\ Un(Contacts) \in Contacts /\ Un(Secrets) \in Secrets
  BY DEF Un, ProfilsAssumption
<1>2. TypesProfil
  BY <1>1 DEF InitProfils, TypesProfil, Fermee, FicheT, SecretVide
<1>3. \A a \in Appels : appels[a] = Personne
  BY DEF InitProfils
<1>4. EnChemin
  BY DEF InitProfils, EnChemin
<1>5. FicheJuste /\ ReponseVraie
  BY DEF InitProfils, FicheJuste, ReponseVraie, Fermee, SecretVide
<1> QED
  BY <1>2, <1>3, <1>4, <1>5 DEF ProfilSuivi, AppelsJustes, AppelsVoulus

\* One request goes on, starts or ends, and it is not one that Keycloak or the
\* row waits for, unless it dies.
LEMMA UnAppel ==
  ASSUME ProfilSuivi, NEW a \in Appels, NEW v \in AppelT \cup {Personne},
         appels' = [appels EXCEPT ![a] = v],
         UNCHANGED <<admin, compte, voulu>>, ligne'.contact = ligne.contact,
         recouvre => recouvre', tombe => tombe',
         v # Personne => AppelJuste(v, admin),
         v # Personne /\ ~recouvre' => AppelVoulu(v, compte, ligne, voulu),
         \/ tombe' \/ appels[a] = Personne
         \/ appels[a].pc \notin {"updateUser", "resetPassword", "ecrire"}
  PROVE  AppelsJustes' /\ AppelsVoulus' /\ EnChemin'
<1>1. appels \in [Appels -> AppelT \cup {Personne}]
  BY DEF ProfilSuivi, TypesProfil
<1>2. appels'[a] = v /\ \A b \in Appels : b # a => appels'[b] = appels[b]
  BY <1>1
<1>3. AppelsJustes'
  <2> SUFFICES ASSUME NEW b \in Appels, appels'[b] # Personne
               PROVE  AppelJuste(appels'[b], admin')
    BY DEF AppelsJustes
  <2>1. CASE b = a
    BY <1>2, <2>1 DEF AppelJuste
  <2>2. CASE b # a
    BY <1>2, <2>2 DEF AppelJuste, ProfilSuivi, AppelsJustes
  <2> QED
    BY <2>1, <2>2
<1>4. AppelsVoulus'
  <2> SUFFICES ASSUME ~recouvre', NEW b \in Appels, appels'[b] # Personne
               PROVE  AppelVoulu(appels'[b], compte', ligne', voulu')
    BY DEF AppelsVoulus
  <2>1. CASE b = a
    BY <1>2, <2>1 DEF AppelVoulu
  <2>2. CASE b # a
    BY <1>2, <2>2 DEF AppelVoulu, ProfilSuivi, AppelsVoulus
  <2> QED
    BY <2>1, <2>2
<1>5. EnChemin'
  <2> SUFFICES ASSUME ~recouvre', ~tombe'
               PROVE  EnChemin'
    BY DEF EnChemin
  <2>1. EnChemin
    BY DEF ProfilSuivi
  <2>2. ASSUME NEW b \in Appels, appels[b] # Personne,
               appels[b].pc \in {"updateUser", "resetPassword", "ecrire"}
        PROVE  appels'[b] = appels[b]
    BY <1>2, <2>2
  <2> QED
    BY <2>1, <2>2 DEF EnChemin
<1> QED
  BY <1>3, <1>4, <1>5

LEMMA PasRequete ==
  ASSUME ProfilsAssumption, ProfilSuivi, NEW a \in Appels,
         Me(a) \/ Tomber(a) \/ Autre(a) \/ Ouvrir(a)
  PROVE  ProfilSuivi'
<1>1. TypesProfil /\ AppelsJustes /\ AppelsVoulus /\ FicheJuste /\ ReponseVraie
  BY DEF ProfilSuivi
<1>2. appels \in [Appels -> AppelT \cup {Personne}]
  BY <1>1 DEF TypesProfil
<1>3. CASE Me(a)
  <2>1. /\ appels[a] # Personne /\ appels[a].pc = "sync"
        /\ ligne' = [ligne EXCEPT !.nom = appels[a].jeton]
        /\ appels' = [appels EXCEPT ![a].pc = "ok", ![a].lu = ligne']
        /\ UNCHANGED <<admin, jetons, fiche, secret, voulu, recouvre, tombe, compte>>
    BY <1>3 DEF Me, Arretee, SyncUser, Navigateur
  <2>2. appels[a] \in AppelT /\ appels[a].champs = Rien
    BY <1>1, <1>2, <2>1 DEF AppelsJustes, AppelJuste
  <2>3. /\ ligne' \in [nom : Noms, contact : Contacts]
        /\ ligne'.contact = ligne.contact
    BY <1>1, <2>1, <2>2 DEF TypesProfil, AppelT
  <2> DEFINE v == [appels[a] EXCEPT !.pc = "ok", !.lu = ligne']
  <2>4. /\ v \in AppelT /\ v.champs = Rien /\ v.pc = "ok" /\ v.de = appels[a].de
    BY <2>2, <2>3 DEF AppelT
  <2>5. appels' = [appels EXCEPT ![a] = v]
    BY <1>2, <2>1, <2>2
  <2> HIDE DEF v
  <2>6. AppelJuste(v, admin) /\ AppelVoulu(v, compte, ligne, voulu) /\ v # Personne
    BY <1>1, <2>1, <2>2, <2>4 DEF AppelJuste, AppelVoulu, AppelsJustes, Rien,
       ProfilsAssumption
  <2>7. AppelsJustes' /\ AppelsVoulus' /\ EnChemin'
    BY <2>1, <2>3, <2>4, <2>5, <2>6, UnAppel
  <2>8. TypesProfil'
    <3>1. appels' \in [Appels -> AppelT \cup {Personne}]
      BY <1>2, <2>4, <2>5
    <3>2. UNCHANGED <<admin, jetons, fiche, secret, voulu, recouvre, tombe, compte>>
      BY <2>1
    <3> QED
      BY <1>1, <2>3, <3>1, <3>2 DEF TypesProfil
  <2>9. FicheJuste'
    BY <1>1, <1>2, <2>1, <2>4, <2>5, <2>6 DEF FicheJuste
  <2>10. ReponseVraie'
    BY <1>1, <2>1, <2>3 DEF ReponseVraie
  <2> QED
    BY <2>7, <2>8, <2>9, <2>10 DEF ProfilSuivi
<1>4. CASE Tomber(a)
  <2>1. /\ appels[a] # Personne /\ tombe'
        /\ appels' = [appels EXCEPT ![a].pc = "erreur"]
        /\ UNCHANGED <<admin, compte, ligne, jetons, fiche, secret, voulu, recouvre>>
    BY <1>4 DEF Tomber, Reprise
  <2>2. appels[a] \in AppelT
    BY <1>2, <2>1
  <2> DEFINE v == [appels[a] EXCEPT !.pc = "erreur"]
  <2>3. /\ v \in AppelT /\ v.champs = appels[a].champs /\ v.pc = "erreur"
        /\ v.de = appels[a].de
    BY <2>2 DEF AppelT
  <2>4. appels' = [appels EXCEPT ![a] = v]
    BY <1>2, <2>1, <2>2
  <2> HIDE DEF v
  <2>5. v # Personne /\ AppelJuste(v, admin)
    BY <1>1, <2>1, <2>3 DEF AppelJuste, AppelsJustes, ProfilsAssumption
  <2>6. ~recouvre => AppelVoulu(v, compte, ligne, voulu)
    BY <1>1, <2>1, <2>3 DEF AppelVoulu, AppelsVoulus
  <2>7. AppelsJustes' /\ AppelsVoulus' /\ EnChemin'
    BY <2>1, <2>3, <2>4, <2>5, <2>6, UnAppel
  <2>8. TypesProfil'
    BY <1>1, <2>1, <2>3, <2>4 DEF TypesProfil
  <2>9. FicheJuste'
    BY <1>1, <1>2, <2>1, <2>3, <2>4, <2>5 DEF FicheJuste
  <2>10. ReponseVraie'
    BY <1>1, <2>1 DEF ReponseVraie
  <2> QED
    BY <2>7, <2>8, <2>9, <2>10 DEF ProfilSuivi
<1>5. CASE Autre(a) \/ Ouvrir(a)
  <2>1. PICK n \in jetons, de \in {"autre", "page"} :
          appels' = [appels EXCEPT ![a] =
            [jeton |-> n, champs |-> Rien, de |-> de, lu |-> ligne, pc |-> "sync"]]
    BY <1>5 DEF Autre, Ouvrir, EnvoyerProfil
  <2>2. /\ appels[a] = Personne
        /\ UNCHANGED <<admin, compte, ligne, jetons, secret, voulu, recouvre, tombe>>
        /\ fiche' = fiche \/ fiche' = [fiche EXCEPT !.etat = "attend"]
    BY <1>5 DEF Autre, Ouvrir, EnvoyerProfil
  <2> DEFINE v == [jeton |-> n, champs |-> Rien, de |-> de, lu |-> ligne,
                   pc |-> "sync"]
  <2>3. /\ v \in AppelT /\ v.champs = Rien /\ v.pc = "sync" /\ v.de # "fiche"
        /\ v.de # "secret"
    BY <1>1 DEF TypesProfil, AppelT, Rien, ChampsT
  <2> HIDE DEF v
  <2>4. AppelJuste(v, admin) /\ AppelVoulu(v, compte, ligne, voulu)
    BY <2>3 DEF AppelJuste, AppelVoulu, Rien
  <2>5. AppelsJustes' /\ AppelsVoulus' /\ EnChemin'
    BY <2>1, <2>2, <2>3, <2>4, UnAppel DEF v
  <2>6. /\ fiche' \in FicheT /\ fiche'.statut = fiche.statut
        /\ fiche'.saisi = fiche.saisi /\ fiche'.nom = fiche.nom
        /\ fiche'.contact = fiche.contact
        /\ fiche'.etat = "ouverte" => fiche.etat = "ouverte"
    BY <1>1, <2>2 DEF TypesProfil, FicheT
  <2>7. TypesProfil'
    BY <1>1, <2>1, <2>2, <2>3, <2>6 DEF TypesProfil, v
  <2>8. FicheJuste'
    <3>1. \A b \in Appels : appels[b] # Personne => appels'[b] = appels[b]
      BY <1>2, <2>1, <2>2
    <3> QED
      BY <1>1, <2>2, <2>6, <3>1 DEF FicheJuste
  <2>9. ReponseVraie'
    BY <1>1, <2>2, <2>6 DEF ReponseVraie
  <2> QED
    BY <2>5, <2>7, <2>8, <2>9 DEF ProfilSuivi
<1> QED
  BY <1>3, <1>4, <1>5

\* An answer arrives.
LEMMA PasArrivee ==
  ASSUME ProfilsAssumption, ProfilSuivi, NEW a \in Appels,
         ArriverPage(a) \/ ArriverFiche(a) \/ ArriverSecret(a) \/ ArriverAutre(a)
  PROVE  ProfilSuivi'
<1>1. TypesProfil /\ AppelsJustes /\ AppelsVoulus /\ FicheJuste /\ ReponseVraie
  BY DEF ProfilSuivi
<1>2. appels \in [Appels -> AppelT \cup {Personne}]
  BY <1>1 DEF TypesProfil
<1>3. /\ appels[a] # Personne /\ appels[a] \in AppelT
      /\ appels[a].pc \in {"ok", "erreur"} /\ AppelJuste(appels[a], admin)
      /\ ~recouvre => AppelVoulu(appels[a], compte, ligne, voulu)
      /\ UNCHANGED <<admin, compte, ligne, jetons, voulu, tombe>>
  BY <1>1, <1>2 DEF ArriverPage, ArriverFiche, ArriverSecret, ArriverAutre, Repondue,
     Navigateur, AppelsJustes, AppelsVoulus
\* Its slot is free again.
<1>4. ASSUME appels' = [appels EXCEPT ![a] = Personne], recouvre => recouvre'
      PROVE  /\ AppelsJustes' /\ AppelsVoulus' /\ EnChemin'
             /\ appels' \in [Appels -> AppelT \cup {Personne}]
             /\ \A b \in Appels : b # a => appels'[b] = appels[b]
  BY <1>2, <1>3, <1>4, UnAppel
<1>5. CASE ArriverPage(a)
  <2>1. /\ appels' = [appels EXCEPT ![a] = Personne] /\ UNCHANGED secret
        /\ appels[a].de = "page"
        /\ recouvre' = (recouvre \/ Enregistre # {}
                          \/ appels[a].lu.contact # ligne.contact)
        /\ \/ fiche' = Fermee
           \/ fiche' = [Fermee EXCEPT !.etat = "ouverte", !.nom = appels[a].lu.nom,
                                      !.contact = appels[a].lu.contact]
    BY <1>5 DEF ArriverPage, Repondue, Finie
  <2>2. recouvre' \in BOOLEAN /\ (recouvre => recouvre')
    BY <1>1, <2>1 DEF TypesProfil
  <2>3. /\ fiche' \in FicheT /\ fiche'.statut = "idle" /\ fiche'.saisi = FALSE
        /\ fiche'.etat = "ouverte" => fiche'.nom \in Noms /\ fiche'.contact \in Contacts
    <3>1. Fermee \in FicheT /\ Fermee.statut = "idle" /\ Fermee.saisi = FALSE
          /\ Fermee.etat = "fermee"
      BY DEF Fermee, FicheT
    <3>2. appels[a].lu.nom \in Noms /\ appels[a].lu.contact \in Contacts
      BY <1>3 DEF AppelT
    <3>3. CASE fiche' = Fermee
      BY <3>1, <3>3
    <3>4. CASE fiche' = [Fermee EXCEPT !.etat = "ouverte", !.nom = appels[a].lu.nom,
                                       !.contact = appels[a].lu.contact]
      BY <3>2, <3>4 DEF Fermee, FicheT
    <3> QED
      BY <2>1, <3>3, <3>4
  <2>4. AppelsJustes' /\ AppelsVoulus' /\ EnChemin' /\ TypesProfil'
    BY <1>1, <1>3, <1>4, <2>1, <2>2, <2>3 DEF TypesProfil
  <2>5. FicheJuste'
    BY <2>3 DEF FicheJuste
  <2>6. ReponseVraie'
    BY <1>1, <1>3, <2>1, <2>2, <2>3 DEF ReponseVraie
  <2> QED
    BY <2>4, <2>5, <2>6 DEF ProfilSuivi
<1>6. CASE ArriverFiche(a)
  <2>1. /\ appels[a].de = "fiche"
        /\ fiche' = [fiche EXCEPT !.statut = Statut(appels[a].pc),
                                  !.minuterie = @ \/ appels[a].pc = "ok"]
        /\ UNCHANGED <<secret, recouvre>>
    BY <1>6 DEF ArriverFiche, Repondue
  <2> DEFINE statut == Statut(appels[a].pc)
             reste == fiche.minuterie \/ appels[a].pc = "ok"
  <2>2. /\ statut \in {"done", "error"} /\ reste \in BOOLEAN
        /\ statut = "done" => appels[a].pc = "ok"
    BY <1>1, <1>3 DEF Statut, TypesProfil, FicheT
  <2>3. fiche' = [fiche EXCEPT !.statut = statut, !.minuterie = reste]
    BY <2>1
  <2> HIDE DEF statut, reste
  <2>4. /\ fiche' \in FicheT /\ fiche'.statut = statut /\ fiche'.saisi = fiche.saisi
        /\ fiche'.etat = fiche.etat /\ fiche'.nom = fiche.nom
        /\ fiche'.contact = fiche.contact
    BY <1>1, <2>2, <2>3 DEF TypesProfil, FicheT
  <2>5. /\ AppelsJustes' /\ AppelsVoulus' /\ EnChemin'
        /\ appels' \in [Appels -> AppelT \cup {Personne}]
    <3>1. CASE Finie(a)
      BY <1>4, <2>1, <3>1 DEF Finie
    <3>2. CASE appels[a].pc = "ok"
      <4>1. PICK n \in jetons :
              appels' = [appels EXCEPT ![a] = [jeton |-> n, champs |-> Rien,
                           de |-> "autre", lu |-> ligne, pc |-> "sync"]]
        BY <1>6, <3>2 DEF ArriverFiche
      <4> DEFINE v == [jeton |-> n, champs |-> Rien, de |-> "autre", lu |-> ligne,
                       pc |-> "sync"]
      <4>2. v \in AppelT /\ v.champs = Rien /\ v.pc = "sync" /\ v.de = "autre"
        BY <1>1 DEF TypesProfil, AppelT, Rien, ChampsT
      <4> HIDE DEF v
      <4>3. AppelJuste(v, admin) /\ AppelVoulu(v, compte, ligne, voulu)
        BY <4>2 DEF AppelJuste, AppelVoulu, Rien
      <4>4. appels' = [appels EXCEPT ![a] = v]
        BY <4>1 DEF v
      <4> QED
        BY <1>2, <1>3, <2>1, <4>2, <4>3, <4>4, UnAppel
    <3> QED
      BY <1>6, <3>1, <3>2 DEF ArriverFiche
  <2>6. TypesProfil'
    BY <1>1, <1>3, <2>1, <2>4, <2>5 DEF TypesProfil
  <2>7. FicheJuste'
    BY <1>1, <1>3, <2>2, <2>4 DEF FicheJuste
  <2>8. ReponseVraie'
    BY <1>1, <1>3, <2>1, <2>2, <2>4 DEF ReponseVraie, AppelJuste, AppelVoulu
  <2> QED
    BY <2>5, <2>6, <2>7, <2>8 DEF ProfilSuivi
<1>7. CASE ArriverSecret(a)
  <2> DEFINE statut == Statut(appels[a].pc)
             reste == secret.minuterie \/ appels[a].pc = "ok"
  <2>1. /\ appels' = [appels EXCEPT ![a] = Personne] /\ appels[a].de = "secret"
        /\ UNCHANGED <<fiche, recouvre>>
        /\ secret' = [statut |-> statut, minuterie |-> reste]
    BY <1>7 DEF ArriverSecret, Repondue, Finie
  <2>2. /\ statut \in {"done", "error"} /\ reste \in BOOLEAN
        /\ statut = "done" => appels[a].pc = "ok"
    BY <1>1, <1>3 DEF Statut, TypesProfil
  <2> HIDE DEF statut, reste
  <2>3. /\ AppelsJustes' /\ AppelsVoulus' /\ EnChemin' /\ TypesProfil'
        /\ \A b \in Appels : b # a => appels'[b] = appels[b]
    BY <1>1, <1>3, <1>4, <2>1, <2>2 DEF TypesProfil
  <2>4. FicheJuste'
    BY <1>1, <1>3, <2>1, <2>3 DEF FicheJuste
  <2>5. ReponseVraie'
    BY <1>1, <1>3, <2>1, <2>2 DEF ReponseVraie, AppelJuste, AppelVoulu
  <2> QED
    BY <2>3, <2>4, <2>5 DEF ProfilSuivi
<1>8. CASE ArriverAutre(a)
  <2>1. /\ appels' = [appels EXCEPT ![a] = Personne] /\ appels[a].de = "autre"
        /\ UNCHANGED <<fiche, secret, recouvre>>
    BY <1>8 DEF ArriverAutre, Repondue, Finie, Navigateur
  <2>2. /\ AppelsJustes' /\ AppelsVoulus' /\ EnChemin' /\ TypesProfil'
        /\ \A b \in Appels : b # a => appels'[b] = appels[b]
    BY <1>1, <1>3, <1>4, <2>1 DEF TypesProfil
  <2>3. FicheJuste'
    BY <1>1, <1>3, <2>1, <2>2 DEF FicheJuste
  <2>4. ReponseVraie'
    BY <1>1, <1>3, <2>1 DEF ReponseVraie
  <2> QED
    BY <2>2, <2>3, <2>4 DEF ProfilSuivi
<1> QED
  BY <1>5, <1>6, <1>7, <1>8

\* Keycloak or the row gets what a request brings.
LEMMA PasEcriture ==
  ASSUME ProfilsAssumption, ProfilSuivi, NEW a \in Appels,
         UpdateUser(a) \/ ResetPassword(a) \/ UpdateProfile(a)
  PROVE  ProfilSuivi'
<1>1. /\ TypesProfil /\ AppelsJustes /\ AppelsVoulus /\ EnChemin /\ FicheJuste
      /\ ReponseVraie
  BY DEF ProfilSuivi
<1>2. appels \in [Appels -> AppelT \cup {Personne}]
  BY <1>1 DEF TypesProfil
<1> DEFINE pc == IF UpdateProfile(a) THEN "ok" ELSE "ecrire"
           v == [appels[a] EXCEPT !.pc = pc]
           c == appels[a].champs
<1>3. /\ appels[a] # Personne /\ appels[a] \in AppelT
      /\ appels[a].pc \in {"updateUser", "resetPassword", "ecrire"}
      /\ UNCHANGED <<admin, jetons, fiche, secret, voulu, recouvre, tombe>>
  BY <1>2 DEF UpdateUser, ResetPassword, UpdateProfile, Arretee, Navigateur
<1>4. appels' = [appels EXCEPT ![a] = v]
  <2>1. CASE UpdateProfile(a)
    BY <1>2, <1>3, <2>1 DEF UpdateProfile, Reprise
  <2>2. CASE ~UpdateProfile(a)
    BY <1>2, <1>3, <2>2 DEF UpdateUser, ResetPassword, Reprise
  <2> QED
    BY <2>1, <2>2
<1>5. pc \in {"ok", "ecrire"} /\ (pc = "ok" <=> UpdateProfile(a))
  OBVIOUS
<1> HIDE DEF pc
<1>6. /\ v \in AppelT /\ v.champs = c /\ v.pc = pc /\ v.de = appels[a].de
      /\ c \in ChampsT
  BY <1>3, <1>5 DEF AppelT
<1>7. AppelJuste(appels[a], admin)
      /\ (~recouvre => AppelVoulu(appels[a], compte, ligne, voulu))
  BY <1>1, <1>3 DEF AppelsJustes, AppelsVoulus
<1> HIDE DEF v, c
<1>8. \A b \in Appels : appels'[b] = IF b = a THEN v ELSE appels[b]
  BY <1>2, <1>4
\* What changes, and to what.
<1>9. /\ compte'.nom = (IF UpdateUser(a) THEN c.nom ELSE compte.nom)
      /\ compte'.mdp = (IF ResetPassword(a) THEN c.mdp ELSE compte.mdp)
      /\ ligne'.contact = (IF UpdateProfile(a) THEN EcritSi(c.contact, ligne.contact)
                           ELSE ligne.contact)
      /\ UpdateUser(a) => appels[a].pc = "updateUser" /\ c.nom # Personne
      /\ ResetPassword(a) => appels[a].pc = "resetPassword" /\ c.mdp # Personne
      /\ UpdateProfile(a) => appels[a].pc = "ecrire"
      /\ compte' \in [nom : Noms, mdp : Secrets]
      /\ ligne' \in [nom : Noms, contact : Contacts]
  <2>1. compte \in [nom : Noms, mdp : Secrets] /\ ligne \in [nom : Noms, contact : Contacts]
    BY <1>1 DEF TypesProfil
  <2>2. CASE UpdateUser(a)
    <3>1. /\ appels[a].pc = "updateUser" /\ compte' = [compte EXCEPT !.nom = c.nom]
          /\ ligne' = ligne
      BY <2>2 DEF UpdateUser, Arretee, c
    <3>2. ~ResetPassword(a) /\ ~UpdateProfile(a)
      BY <3>1 DEF ResetPassword, UpdateProfile, Arretee
    <3>3. c.nom # Personne /\ c.nom \in Noms
      BY <1>6, <1>7, <3>1 DEF AppelJuste, ChampsT, c
    <3> QED
      BY <2>1, <2>2, <3>1, <3>2, <3>3
  <2>3. CASE ResetPassword(a)
    <3>1. /\ appels[a].pc = "resetPassword" /\ compte' = [compte EXCEPT !.mdp = c.mdp]
          /\ ligne' = ligne
      BY <2>3 DEF ResetPassword, Arretee, c
    <3>2. ~UpdateUser(a) /\ ~UpdateProfile(a)
      BY <3>1 DEF UpdateUser, UpdateProfile, Arretee
    <3>3. c.mdp # Personne /\ c.mdp \in Secrets
      BY <1>6, <1>7, <3>1 DEF AppelJuste, ChampsT, c
    <3> QED
      BY <2>1, <2>3, <3>1, <3>2, <3>3
  <2>4. CASE UpdateProfile(a)
    <3>1. /\ appels[a].pc = "ecrire" /\ compte' = compte
          /\ ligne' = [nom |-> EcritSi(c.nom, ligne.nom),
                       contact |-> EcritSi(c.contact, ligne.contact)]
      BY <2>4 DEF UpdateProfile, Arretee, c
    <3>2. ~UpdateUser(a) /\ ~ResetPassword(a)
      BY <3>1 DEF UpdateUser, ResetPassword, Arretee
    <3>3. EcritSi(c.nom, ligne.nom) \in Noms /\ EcritSi(c.contact, ligne.contact) \in Contacts
      BY <1>6, <2>1 DEF EcritSi, ChampsT
    <3> QED
      BY <2>1, <2>4, <3>1, <3>2, <3>3
  <2> QED
    BY <2>2, <2>3, <2>4
<1>10. TypesProfil'
  BY <1>1, <1>2, <1>3, <1>4, <1>6, <1>9 DEF TypesProfil
<1>11. AppelJuste(v, admin) /\ v # Personne
  <2>1. c # Rien => (c.nom # Personne \/ c.contact # Personne \/ c.mdp # Personne)
    BY <1>6 DEF ChampsT, Rien
  <2> QED
    BY <1>5, <1>6, <1>7 DEF AppelJuste, c, ProfilsAssumption
<1>12. AppelsJustes'
  BY <1>1, <1>3, <1>8, <1>11 DEF AppelsJustes
<1>13. FicheJuste'
  BY <1>1, <1>3, <1>6, <1>8, <1>11 DEF FicheJuste
\* What is written is what was asked for.
<1>14. ASSUME ~recouvre
       PROVE  /\ compte'.nom = compte.nom \/ compte'.nom = voulu.nom
              /\ compte'.mdp = compte.mdp \/ compte'.mdp = voulu.mdp
              /\ ligne'.contact = ligne.contact \/ ligne'.contact = voulu.contact
              /\ UpdateUser(a) => compte'.nom = voulu.nom
              /\ ResetPassword(a) => compte'.mdp = voulu.mdp
              /\ UpdateProfile(a) /\ c.contact # Personne =>
                   ligne'.contact = voulu.contact
  BY <1>7, <1>9, <1>14 DEF AppelVoulu, EcritSi, c
<1>15. AppelsVoulus'
  <2> SUFFICES ASSUME ~recouvre, NEW b \in Appels, appels'[b] # Personne
               PROVE  AppelVoulu(appels'[b], compte', ligne', voulu)
    BY <1>3 DEF AppelsVoulus
  <2>1. CASE b = a
    BY <1>5, <1>6, <1>7, <1>8, <1>9, <1>14, <2>1 DEF AppelVoulu, AppelJuste, c
  <2>2. CASE b # a
    <3>1. appels'[b] = appels[b] /\ AppelVoulu(appels[b], compte, ligne, voulu)
      BY <1>1, <1>8, <2>2 DEF AppelsVoulus
    <3> QED
      BY <1>14, <3>1 DEF AppelVoulu
  <2> QED
    BY <2>1, <2>2
<1>16. EnChemin'
  <2> SUFFICES ASSUME ~recouvre, ~tombe
               PROVE  EnChemin'
    BY <1>3 DEF EnChemin
  <2>1. ASSUME NEW b \in Appels, appels[b] # Personne, b # a
        PROVE  appels'[b] = appels[b]
    BY <1>8, <2>1
  <2>2. \/ compte'.nom = voulu.nom
        \/ \E b \in Appels : appels'[b] # Personne /\ appels'[b].pc = "updateUser"
    <3>1. CASE UpdateUser(a)
      BY <1>14, <3>1
    <3>2. CASE ~UpdateUser(a)
      <4>1. appels[a].pc # "updateUser"
        BY <1>9, <3>2 DEF UpdateUser, ResetPassword, UpdateProfile
      <4> QED
        BY <1>1, <1>9, <2>1, <3>2, <4>1 DEF EnChemin
    <3> QED
      BY <3>1, <3>2
  <2>3. \/ compte'.mdp = voulu.mdp
        \/ \E b \in Appels : appels'[b] # Personne /\ appels'[b].pc = "resetPassword"
    <3>1. CASE ResetPassword(a)
      BY <1>14, <3>1
    <3>2. CASE ~ResetPassword(a)
      <4>1. appels[a].pc # "resetPassword"
        BY <1>9, <3>2
      <4> QED
        BY <1>1, <1>9, <2>1, <3>2, <4>1 DEF EnChemin
    <3> QED
      BY <3>1, <3>2
  <2>4. \/ ligne'.contact = voulu.contact
        \/ \E b \in Appels :
             /\ appels'[b] # Personne /\ appels'[b].champs.contact # Personne
             /\ appels'[b].pc \in {"updateUser", "ecrire"}
    <3>1. CASE ligne.contact = voulu.contact
      BY <1>14, <3>1
    <3>2. CASE ligne.contact # voulu.contact
      <4>1. PICK b \in Appels :
              /\ appels[b] # Personne /\ appels[b].champs.contact # Personne
              /\ appels[b].pc \in {"updateUser", "ecrire"}
        BY <1>1, <3>2 DEF EnChemin
      <4>2. CASE b # a
        BY <2>1, <4>1, <4>2
      <4>3. CASE b = a /\ UpdateProfile(a)
        BY <1>14, <4>1, <4>3 DEF c
      <4>4. CASE b = a /\ ~UpdateProfile(a)
        BY <1>5, <1>6, <1>8, <1>11, <4>1, <4>4 DEF c
      <4> QED
        BY <4>2, <4>3, <4>4
    <3> QED
      BY <3>1, <3>2
  <2> QED
    BY <1>3, <2>2, <2>3, <2>4 DEF EnChemin
<1>17. ReponseVraie'
  <2> SUFFICES ASSUME ~recouvre
               PROVE  ReponseVraie'
    BY <1>3 DEF ReponseVraie
  <2> QED
    BY <1>1, <1>3, <1>14 DEF ReponseVraie
<1> QED
  BY <1>10, <1>12, <1>13, <1>15, <1>16, <1>17 DEF ProfilSuivi

\* A save leaves.
LEMMA PasSauvegarde ==
  ASSUME ProfilsAssumption, ProfilSuivi, NEW a \in Appels,
         Enregistrer(a) \/ \E s \in Secrets : ChangerSecret(a, s)
  PROVE  ProfilSuivi'
<1>1. /\ TypesProfil /\ AppelsJustes /\ AppelsVoulus /\ EnChemin /\ FicheJuste
      /\ ReponseVraie
  BY DEF ProfilSuivi
<1>2. appels \in [Appels -> AppelT \cup {Personne}] /\ ligne \in [nom : Noms, contact : Contacts]
  BY <1>1 DEF TypesProfil
<1>3. CASE Enregistrer(a)
  <2> DEFINE c == [nom |-> IF admin THEN fiche.nom ELSE Personne,
                   contact |-> fiche.contact, mdp |-> Personne]
             nom == IF fiche.saisi THEN fiche.nom ELSE voulu.nom
             pc == IF admin THEN "updateUser" ELSE "ecrire"
  <2>1. /\ fiche.etat = "ouverte" /\ appels[a] = Personne
        /\ fiche' = [fiche EXCEPT !.statut = "loading"]
        /\ voulu' = [voulu EXCEPT !.nom = nom, !.contact = fiche.contact]
        /\ recouvre' = (recouvre \/ Enregistre # {} \/ (admin /\ fiche.nom # voulu'.nom))
        /\ UNCHANGED <<admin, compte, ligne, jetons, secret, tombe>>
    BY <1>3 DEF Enregistrer, EnvoyerProfil
  <2>2. fiche.nom \in Noms /\ fiche.contact \in Contacts /\ (~admin => ~fiche.saisi)
    BY <1>1, <2>1 DEF FicheJuste
  <2>3. /\ c \in ChampsT /\ c # Rien /\ c.contact = fiche.contact /\ c.mdp = Personne
        /\ admin => c.nom = fiche.nom
        /\ ~admin => c.nom = Personne
    BY <1>1, <2>2 DEF TypesProfil, ChampsT, Rien, ProfilsAssumption
  <2>4. Debut(c) = pc
    BY <1>1, <2>2, <2>3 DEF Debut, TypesProfil, ProfilsAssumption
  <2>5. PICK n \in jetons :
          appels' = [appels EXCEPT ![a] = [jeton |-> n, champs |-> c, de |-> "fiche",
                       lu |-> ligne, pc |-> IF c = Rien THEN "sync" ELSE Debut(c)]]
    BY <1>3 DEF Enregistrer, EnvoyerProfil
  <2>6. nom \in Noms /\ (~admin => nom = voulu.nom)
    BY <1>1, <2>2 DEF TypesProfil
  <2> DEFINE v == [jeton |-> n, champs |-> c, de |-> "fiche", lu |-> ligne, pc |-> pc]
  <2>7. pc \in {"updateUser", "ecrire"} /\ (admin <=> pc = "updateUser")
    BY <1>1 DEF TypesProfil
  <2>8. appels' = [appels EXCEPT ![a] = v]
    BY <2>3, <2>4, <2>5
  <2> HIDE DEF c, nom, pc
  <2>9. /\ v \in AppelT /\ v # Personne /\ v.champs = c /\ v.pc = pc /\ v.de = "fiche"
    BY <1>1, <2>3, <2>7 DEF TypesProfil, AppelT, ProfilsAssumption
  <2> HIDE DEF v
  <2>10. \A b \in Appels : appels'[b] = IF b = a THEN v ELSE appels[b]
    BY <1>2, <2>8
  <2>11. /\ voulu' \in [nom : Noms, contact : Contacts, mdp : Secrets]
         /\ voulu'.nom = nom /\ voulu'.contact = fiche.contact
         /\ voulu'.mdp = voulu.mdp
    BY <1>1, <2>1, <2>2, <2>6 DEF TypesProfil
  <2>12. /\ fiche' \in FicheT /\ fiche'.statut = "loading" /\ fiche'.etat = fiche.etat
         /\ fiche'.saisi = fiche.saisi /\ fiche'.nom = fiche.nom
         /\ fiche'.contact = fiche.contact
    BY <1>1, <2>1 DEF TypesProfil, FicheT
  <2>13. recouvre' \in BOOLEAN
    BY <1>1, <2>1 DEF TypesProfil
  <2>14. TypesProfil'
    BY <1>1, <1>2, <2>1, <2>8, <2>9, <2>11, <2>12, <2>13 DEF TypesProfil
  <2>15. AppelJuste(v, admin)
    BY <2>2, <2>3, <2>7, <2>9 DEF AppelJuste, ProfilsAssumption
  <2>16. AppelsJustes'
    BY <1>1, <2>1, <2>10, <2>15 DEF AppelsJustes
  <2>17. FicheJuste'
    BY <1>1, <2>1, <2>9, <2>10, <2>12 DEF FicheJuste
\* Nothing else is on its way.
  <2>18. ASSUME ~recouvre'
         PROVE  /\ ~recouvre
                /\ \A b \in Appels : appels[b] # Personne => appels[b].champs = Rien
                /\ admin => fiche.nom = nom
    BY <2>1, <2>11, <2>18 DEF Enregistre
  <2>19. AppelsVoulus'
    <3> SUFFICES ASSUME ~recouvre', NEW b \in Appels, appels'[b] # Personne
                 PROVE  AppelVoulu(appels'[b], compte', ligne', voulu')
      BY DEF AppelsVoulus
    <3>1. CASE b = a
      BY <2>3, <2>7, <2>9, <2>10, <2>11, <2>18, <3>1 DEF AppelVoulu
    <3>2. CASE b # a
      BY <2>10, <2>18, <3>2 DEF AppelVoulu, Rien
    <3> QED
      BY <3>1, <3>2
  <2>20. EnChemin'
    <3> SUFFICES ASSUME ~recouvre', ~tombe
                 PROVE  EnChemin'
      BY <2>1 DEF EnChemin
    <3>1. \A b \in Appels : appels[b] # Personne =>
            appels[b].pc \notin {"updateUser", "resetPassword"}
      BY <1>1, <2>18 DEF AppelsJustes, AppelJuste, Rien
    <3>2. compte.mdp = voulu'.mdp
      BY <1>1, <2>1, <2>11, <2>18, <3>1 DEF EnChemin
    <3>3. \/ compte.nom = voulu'.nom
          \/ \E b \in Appels : appels'[b] # Personne /\ appels'[b].pc = "updateUser"
      <4>1. CASE admin
        BY <2>7, <2>9, <2>10, <4>1
      <4>2. CASE ~admin
        BY <1>1, <2>1, <2>6, <2>11, <2>18, <3>1, <4>2 DEF EnChemin
      <4> QED
        BY <4>1, <4>2
    <3>4. \E b \in Appels :
            /\ appels'[b] # Personne /\ appels'[b].champs.contact # Personne
            /\ appels'[b].pc \in {"updateUser", "ecrire"}
      BY <2>2, <2>3, <2>7, <2>9, <2>10 DEF ProfilsAssumption
    <3> QED
      BY <2>1, <3>2, <3>3, <3>4 DEF EnChemin
  <2>21. ReponseVraie'
    BY <1>1, <2>1, <2>11, <2>12, <2>18 DEF ReponseVraie
  <2> QED
    BY <2>14, <2>16, <2>17, <2>19, <2>20, <2>21 DEF ProfilSuivi
<1>4. ASSUME NEW s \in Secrets, ChangerSecret(a, s)
      PROVE  ProfilSuivi'
  <2> DEFINE c == [Rien EXCEPT !.mdp = s]
  <2>1. /\ appels[a] = Personne
        /\ secret' = [secret EXCEPT !.statut = "loading"]
        /\ voulu' = [voulu EXCEPT !.mdp = s]
        /\ recouvre' = (recouvre \/
             \E b \in Enregistre : appels[b].champs.mdp # Personne)
        /\ UNCHANGED <<admin, compte, ligne, jetons, fiche, tombe>>
    BY <1>4 DEF ChangerSecret, EnvoyerProfil
  <2>2. /\ c \in ChampsT /\ c # Rien /\ c.contact = Personne /\ c.nom = Personne
        /\ c.mdp = s /\ s # Personne
    BY DEF ChampsT, Rien, ProfilsAssumption
  <2>3. Debut(c) = "resetPassword"
    BY <2>2 DEF Debut
  <2>4. PICK n \in jetons :
          appels' = [appels EXCEPT ![a] = [jeton |-> n, champs |-> c, de |-> "secret",
                       lu |-> ligne, pc |-> IF c = Rien THEN "sync" ELSE Debut(c)]]
    BY <1>4 DEF ChangerSecret, EnvoyerProfil
  <2> DEFINE v == [jeton |-> n, champs |-> c, de |-> "secret", lu |-> ligne,
                   pc |-> "resetPassword"]
  <2>5. appels' = [appels EXCEPT ![a] = v]
    BY <2>2, <2>3, <2>4
  <2> HIDE DEF c
  <2>6. /\ v \in AppelT /\ v # Personne /\ v.champs = c /\ v.pc = "resetPassword"
        /\ v.de = "secret"
    BY <1>1, <2>2 DEF TypesProfil, AppelT, ProfilsAssumption
  <2> HIDE DEF v
  <2>7. \A b \in Appels : appels'[b] = IF b = a THEN v ELSE appels[b]
    BY <1>2, <2>5
  <2>8. /\ voulu' \in [nom : Noms, contact : Contacts, mdp : Secrets]
        /\ voulu'.nom = voulu.nom /\ voulu'.contact = voulu.contact
        /\ voulu'.mdp = s
    BY <1>1, <2>1 DEF TypesProfil
  <2>9. /\ secret' \in [statut : {"idle", "loading", "done", "error"},
                        minuterie : BOOLEAN]
        /\ secret'.statut = "loading"
    BY <1>1, <2>1 DEF TypesProfil
  <2>10. recouvre' \in BOOLEAN
    BY <1>1, <2>1 DEF TypesProfil
  <2>11. TypesProfil'
    BY <1>1, <1>2, <2>1, <2>5, <2>6, <2>8, <2>9, <2>10 DEF TypesProfil
  <2>12. AppelsJustes'
    <3>1. AppelJuste(v, admin)
      BY <2>2, <2>6 DEF AppelJuste
    <3> QED
      BY <1>1, <2>1, <2>7, <3>1 DEF AppelsJustes
  <2>13. FicheJuste'
    BY <1>1, <2>1, <2>7 DEF FicheJuste
\* No other change of the password is on its way.
  <2>14. ASSUME ~recouvre'
         PROVE  /\ ~recouvre
                /\ \A b \in Appels : appels[b] # Personne =>
                     appels[b].champs.mdp = Personne
    <3>1. ~recouvre /\ \A b \in Enregistre : appels[b].champs.mdp = Personne
      BY <2>1, <2>14
    <3>2. \A b \in Appels : appels[b] # Personne /\ appels[b].champs = Rien =>
            appels[b].champs.mdp = Personne
      BY DEF Rien
    <3> QED
      BY <3>1, <3>2 DEF Enregistre
  <2>15. AppelsVoulus'
    <3> SUFFICES ASSUME ~recouvre', NEW b \in Appels, appels'[b] # Personne
                 PROVE  AppelVoulu(appels'[b], compte', ligne', voulu')
      BY DEF AppelsVoulus
    <3>1. CASE b = a
      BY <2>2, <2>6, <2>7, <2>8, <3>1 DEF AppelVoulu
    <3>2. CASE b # a
      <4>1. /\ appels'[b] = appels[b] /\ appels[b].champs.mdp = Personne
            /\ AppelVoulu(appels[b], compte, ligne, voulu)
        BY <1>1, <2>7, <2>14, <3>2 DEF AppelsVoulus
      <4> QED
        BY <2>1, <2>8, <4>1 DEF AppelVoulu
    <3> QED
      BY <3>1, <3>2
  <2>16. EnChemin'
    <3> SUFFICES ASSUME ~recouvre', ~tombe
                 PROVE  EnChemin'
      BY <2>1 DEF EnChemin
    <3>1. \A b \in Appels : appels[b] # Personne => appels'[b] = appels[b]
      BY <2>1, <2>7
    <3>2. \E b \in Appels : appels'[b] # Personne /\ appels'[b].pc = "resetPassword"
      BY <2>6, <2>7
    <3> QED
      BY <1>1, <2>1, <2>8, <2>14, <3>1, <3>2 DEF EnChemin
  <2>17. ReponseVraie'
    BY <1>1, <2>1, <2>8, <2>9, <2>14 DEF ReponseVraie
  <2> QED
    BY <2>11, <2>12, <2>13, <2>15, <2>16, <2>17 DEF ProfilSuivi
<1> QED
  BY <1>3, <1>4

\* The person types or leaves, a message goes, a token changes.
LEMMA PasDeSauvegarde ==
  ASSUME ProfilsAssumption, ProfilSuivi,
         \/ Quitter \/ SaisirProfil \/ FinMessage \/ Renouveler
         \/ \E n \in Noms : Expirer(n)
  PROVE  ProfilSuivi'
<1>1. /\ TypesProfil /\ AppelsJustes /\ AppelsVoulus /\ EnChemin /\ FicheJuste
      /\ ReponseVraie
  BY DEF ProfilSuivi
<1>2. appels \in [Appels -> AppelT \cup {Personne}]
  BY <1>1 DEF TypesProfil
<1>3. UNCHANGED <<admin, compte, ligne, voulu, recouvre, tombe>>
  BY DEF Quitter, SaisirProfil, FinMessage, Renouveler, Expirer, Jetons
\* The requests stay.
<1>4. UNCHANGED appels => AppelsJustes' /\ AppelsVoulus' /\ EnChemin'
  BY <1>1, <1>3 DEF AppelsJustes, AppelsVoulus, EnChemin
<1>5. CASE Quitter
  <2>1. /\ fiche' = Fermee /\ secret' = SecretVide /\ UNCHANGED jetons
        /\ appels' = [a \in Appels |-> IF appels[a] = Personne THEN Personne
                                       ELSE [appels[a] EXCEPT !.de = "autre"]]
    BY <1>5 DEF Quitter
  <2>2. ASSUME NEW a \in Appels, appels[a] # Personne
        PROVE  /\ appels'[a] \in AppelT /\ appels'[a] # Personne
               /\ appels'[a].champs = appels[a].champs
               /\ appels'[a].pc = appels[a].pc /\ appels'[a].de = "autre"
    <3>1. appels[a] \in AppelT
      BY <1>2, <2>2
    <3>2. appels'[a] = [appels[a] EXCEPT !.de = "autre"]
      BY <2>1, <2>2
    <3> QED
      BY <3>1, <3>2 DEF AppelT, ProfilsAssumption
  <2>3. \A a \in Appels : appels[a] = Personne <=> appels'[a] = Personne
    BY <2>1, <2>2
  <2>4. TypesProfil'
    <3>1. appels' \in [Appels -> AppelT \cup {Personne}]
      BY <2>1, <2>2
    <3>2. fiche' \in FicheT /\ secret' \in [statut : {"idle", "loading", "done", "error"},
                                           minuterie : BOOLEAN]
      BY <2>1 DEF Fermee, FicheT, SecretVide
    <3> QED
      BY <1>1, <1>3, <2>1, <3>1, <3>2 DEF TypesProfil
  <2>5. AppelsJustes'
    BY <1>1, <1>3, <2>2, <2>3 DEF AppelsJustes, AppelJuste
  <2>6. AppelsVoulus'
    BY <1>1, <1>3, <2>2, <2>3 DEF AppelsVoulus, AppelVoulu
  <2>7. EnChemin'
    BY <1>1, <1>3, <2>2, <2>3 DEF EnChemin
  <2>8. FicheJuste' /\ ReponseVraie'
    BY <2>1 DEF FicheJuste, ReponseVraie, Fermee, SecretVide
  <2> QED
    BY <2>4, <2>5, <2>6, <2>7, <2>8 DEF ProfilSuivi
<1>6. CASE SaisirProfil
  <2>1. /\ fiche.etat = "ouverte" /\ UNCHANGED <<jetons, appels, secret>>
        /\ \/ admin /\ \E n \in Noms : fiche' = [fiche EXCEPT !.nom = n, !.saisi = TRUE]
           \/ \E k \in Contacts : fiche' = [fiche EXCEPT !.contact = k]
    BY <1>6 DEF SaisirProfil
  <2>2. /\ fiche' \in FicheT /\ fiche'.statut = fiche.statut
        /\ fiche'.nom \in Noms /\ fiche'.contact \in Contacts
        /\ ~admin => ~fiche'.saisi
    <3>1. /\ fiche \in FicheT /\ fiche.nom \in Noms /\ fiche.contact \in Contacts
          /\ ~admin => ~fiche.saisi
      BY <1>1, <2>1 DEF TypesProfil, FicheJuste
    <3>2. CASE admin /\ \E n \in Noms : fiche' = [fiche EXCEPT !.nom = n, !.saisi = TRUE]
      BY <3>1, <3>2 DEF FicheT
    <3>3. CASE \E k \in Contacts : fiche' = [fiche EXCEPT !.contact = k]
      BY <3>1, <3>3 DEF FicheT
    <3> QED
      BY <2>1, <3>2, <3>3
  <2>3. TypesProfil' /\ FicheJuste' /\ ReponseVraie'
    BY <1>1, <1>3, <2>1, <2>2 DEF TypesProfil, FicheJuste, ReponseVraie
  <2> QED
    BY <1>4, <2>1, <2>3 DEF ProfilSuivi
<1>7. CASE FinMessage
  <2>1. /\ UNCHANGED <<jetons, appels>>
        /\ \/ fiche' = [fiche EXCEPT !.statut = "idle", !.minuterie = FALSE]
              /\ UNCHANGED secret
           \/ secret' = SecretVide /\ UNCHANGED fiche
    BY <1>7 DEF FinMessage
  <2>2. CASE fiche' = [fiche EXCEPT !.statut = "idle", !.minuterie = FALSE]
             /\ UNCHANGED secret
    <3>1. /\ fiche' \in FicheT /\ fiche'.statut = "idle" /\ fiche'.nom = fiche.nom
          /\ fiche'.contact = fiche.contact /\ fiche'.saisi = fiche.saisi
          /\ fiche'.etat = fiche.etat
      BY <1>1, <2>2 DEF TypesProfil, FicheT
    <3> QED
      BY <1>1, <1>3, <1>4, <2>1, <2>2, <3>1 DEF TypesProfil, FicheJuste, ReponseVraie,
         ProfilSuivi
  <2>3. CASE secret' = SecretVide /\ UNCHANGED fiche
    <3>1. secret'.statut = "idle" /\ secret' \in
            [statut : {"idle", "loading", "done", "error"}, minuterie : BOOLEAN]
      BY <2>3 DEF SecretVide
    <3> QED
      BY <1>1, <1>3, <1>4, <2>1, <2>3, <3>1 DEF TypesProfil, FicheJuste, ReponseVraie,
         ProfilSuivi
  <2> QED
    BY <2>1, <2>2, <2>3
<1>8. CASE Renouveler \/ \E n \in Noms : Expirer(n)
  <2>1. UNCHANGED <<appels, fiche, secret>> /\ jetons' \subseteq Noms
    BY <1>1, <1>8 DEF Renouveler, Expirer, Jetons, TypesProfil
  <2> QED
    BY <1>1, <1>3, <1>4, <2>1 DEF TypesProfil, FicheJuste, ReponseVraie, ProfilSuivi
<1> QED
  BY <1>5, <1>6, <1>7, <1>8

THEOREM ProfilVrai == SpecGestion => []ProfilSuivi
<1> USE ProfilsAssumption
<1>1. InitGestion => ProfilSuivi
  BY InitProfil DEF InitGestion
<1>2. ProfilSuivi /\ [NextGestion]_gestion => ProfilSuivi'
  <2> SUFFICES ASSUME ProfilSuivi, [NextGestion]_gestion
               PROVE  ProfilSuivi'
    OBVIOUS
  <2>1. CASE NextProfils
    BY <2>1, PasRequete, PasArrivee, PasEcriture, PasSauvegarde, PasDeSauvegarde
       DEF NextProfils, Traiter
  <2>2. CASE UNCHANGED profils
    BY <2>2 DEF profils, ProfilSuivi, TypesProfil, AppelsJustes, AppelsVoulus,
       EnChemin, FicheJuste, ReponseVraie
  <2> QED
    BY <2>1, <2>2 DEF NextGestion, DuProfil, gestion
<1> QED
  BY <1>1, <1>2, PTL DEF SpecGestion

\* A profile is what the person asked for, at rest and when the page says so,
\* for any number of requests at the same time.
THEOREM ProfilJusteVrai == SpecGestion => []ProfilJuste
<1>1. ProfilSuivi => ProfilJuste
  <2> SUFFICES ASSUME ProfilSuivi
               PROVE  ProfilJuste
    OBVIOUS
  <2>1. TypeProfils
    BY DEF ProfilSuivi, TypesProfil, FicheJuste, FicheT, TypeProfils
  <2>2. ProfilFidele
    BY DEF ProfilSuivi, AppelsJustes, AppelJuste, EnChemin, Enregistre, Rien,
       ProfilFidele
  <2> QED
    BY <2>1, <2>2 DEF ProfilSuivi, ProfilJuste
<1> QED
  BY <1>1, ProfilVrai, PTL
=============================================================================
