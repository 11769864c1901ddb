--------------------------- MODULE VisiteurPreuves ---------------------------
(***************************************************************************)
(* Theorems about module Visiteur: the cart and favourites of a visitor,   *)
(* before, during and after they become an account's.                      *)
(*                                                                         *)
(* TypeInductif adds to the types what a running request holds (Conforme). *)
(* SuiviInductif adds what a merge still knows: the cart it works on is    *)
(* its owner's, and a product it has left behind it is in the account's    *)
(* cart unless somebody removed it.  It holds while no request of the      *)
(* session runs beside a merge (FusionSeule), or while requests come one   *)
(* at a time (seul).  FideleInductif adds, for a request that runs alone,  *)
(* that what the visitor should have is what the request makes of the      *)
(* tables once it is done (Promis).                                        *)
(*                                                                         *)
(* A cart's total is a sum over its rows.  TotalVaut says all the proofs   *)
(* need of it: it is zero when there are no rows, and the row's quantity   *)
(* when there is one.                                                      *)
(***************************************************************************)
EXTENDS Visiteur, FiniteSetTheorems, TLAPS

\* What a running request holds.
Articles == [p : Produits, n : Copies, q : Nat \ {0}]
Coeurs == [p : Produits, id : Favoris]

FusionPanier == {"panierCompte", "transferer", "copier", "copierEcrire"}
FusionFavoris == {"fusionFavoris", "supprimerFavori", "deplacerFavori"}
PasPanier == FusionPanier \cup {"creerPanier", "executer", "ecrire"}
PasFavoris == FusionFavoris \cup {"creerFavori"}

Demandes ==
  [pc : {"creerSession", "trouver"} \cup PasPanier \cup PasFavoris,
   h : Entetes, op : CartOps \cup FavoriteOps, p : {0} \cup Produits,
   q : {0} \cup Quantites, source : {0} \cup Paniers,
   cible : {0} \cup Paniers, reste : SUBSET (Articles \cup Coeurs),
   item : SUBSET (Articles \cup Coeurs), rang : {0} \cup Copies, vu : Nat]

Quantifiee == {"addItem", "updateItem"}
Nommee == Quantifiee \cup {"removeItem", "add", "remove"}

\* The step a request has reached goes with its headers, its operation and
\* what it found so far.
Conforme(d) ==
  /\ d.op \in Nommee => d.p \in Produits
  /\ d.op \in Quantifiee => d.q \in Quantites
  /\ d.pc = "creerSession" => d.h = "visiteur"
  /\ d.pc \in FusionPanier \cup FusionFavoris => d.h = "deux"
  /\ d.pc \in PasPanier => d.op \in CartOps
  /\ d.pc \in PasFavoris => d.op \in FavoriteOps
  /\ d.pc \in FusionPanier =>
       d.source \in Paniers /\ d.reste \cup d.item \subseteq Articles
  /\ d.pc \in FusionFavoris => d.reste \cup d.item \subseteq Coeurs
  /\ d.pc \in {"copier", "copierEcrire", "executer", "ecrire"} =>
       d.cible \in Paniers
  /\ d.pc \in {"panierCompte", "copier", "fusionFavoris"} => d.item = {}
  /\ \A i, j \in d.item : i = j
  /\ d.pc = "ecrire" => d.op \in Quantifiee
  /\ d.pc = "creerFavori" => d.op = "add"

RequetesOK ==
  /\ req \in [Requetes -> Demandes \cup {[pc |-> "libre"]}]
  /\ \A r \in Requetes : ~Libre(r) => Conforme(req[r])
  /\ \A r \in Requetes :
       ~Libre(r) /\ req[r].h = "visiteur" /\ req[r].pc # "creerSession" => session

TypeInductif == TypeOK /\ RequetesOK

----------------------------------------------------------------------------
(* Types.                                                                  *)

\* TypeOK without what it says of the requests.
TablesOK ==
  /\ session \in BOOLEAN
  /\ panier \in [Proprietaires -> {0} \cup Paniers]
  /\ panier.session = panier.compte => panier.session = 0
  /\ ligne \in [Paniers -> [Produits -> [Copies -> Nat]]]
  /\ \A k \in Paniers, p \in Produits : Lignes(k, p) # {} => Existe(k)
  /\ favori \in [Proprietaires -> [Produits -> {0} \cup Favoris]]
  /\ \A p \in Produits :
       favori.session[p] = favori.compte[p] => favori.session[p] = 0
  /\ panier.session # 0 \/ (\E p \in Produits : favori.session[p] # 0) => session
  /\ pannes \in 0 .. MaxPannes

\* TypeInductif is about the tables and the requests.
LEMMA TypeEnDeux ==
  TypeInductif <=> TablesOK /\ RequetesOK
<1>1. RequetesOK =>
        \A r \in Requetes : req[r].pc = "libre" => req[r] = [pc |-> "libre"]
  <2> SUFFICES ASSUME RequetesOK, NEW r \in Requetes, req[r].pc = "libre"
               PROVE  req[r] = [pc |-> "libre"]
    OBVIOUS
  <2>1. ASSUME req[r] \in Demandes
        PROVE  FALSE
    BY <2>1 DEF Demandes, PasPanier, PasFavoris, FusionPanier, FusionFavoris
  <2> QED
    BY <2>1 DEF RequetesOK
<1> QED
  BY <1>1 DEF TypeInductif, TypeOK, TablesOK

\* The request r takes the value e.
Permise(e) ==
  \/ e = [pc |-> "libre"]
  \/ /\ e \in Demandes /\ Conforme(e)
     /\ e.h = "visiteur" /\ e.pc # "creerSession" => session

\* A running request is one of Demandes.
LEMMA EnCours ==
  ASSUME RequetesOK, NEW r \in Requetes, ~Libre(r)
  PROVE  req[r] \in Demandes /\ Conforme(req[r])
         /\ (req[r].h = "visiteur" /\ req[r].pc # "creerSession" => session)
BY DEF RequetesOK, Libre

\* A step of one request leaves the others alone.
LEMMA EtapeOK ==
  ASSUME RequetesOK, NEW r \in Requetes, NEW e, Permise(e), Etape(r, e),
         session' = session
  PROVE  RequetesOK'
<1>1. /\ req' = [req EXCEPT ![r] = e]
      /\ req \in [Requetes -> Demandes \cup {[pc |-> "libre"]}]
  BY DEF Etape, RequetesOK
<1>2. req' \in [Requetes -> Demandes \cup {[pc |-> "libre"]}]
  BY <1>1 DEF Permise
<1>3. ASSUME NEW s \in Requetes, ~Libre(s)'
      PROVE  /\ Conforme(req[s])'
             /\ (req[s].h = "visiteur" /\ req[s].pc # "creerSession" => session)'
  <2>1. CASE s = r
    <3>1. req'[s] = e
      BY <1>1, <2>1
    <3>2. e # [pc |-> "libre"]
      BY <1>3, <3>1 DEF Libre
    <3> QED
      BY <3>1, <3>2 DEF Permise, Conforme
  <2>2. CASE s # r
    <3>1. req'[s] = req[s]
      BY <1>1, <2>2
    <3>2. ~Libre(s)
      BY <1>3, <3>1 DEF Libre
    <3> QED
      BY <3>1, <3>2 DEF RequetesOK, Conforme
  <2> QED
    BY <2>1, <2>2
<1> QED
  BY <1>2, <1>3 DEF RequetesOK

\* What a step that leaves the tables alone keeps.
LEMMA TablesPareilles ==
  ASSUME TablesOK, UNCHANGED tables, pannes' \in 0 .. MaxPannes
  PROVE  TablesOK'
BY DEF TablesOK, tables, Lignes, Existe

\* Tables and requests after a step.
LEMMA TypeApres ==
  ASSUME TablesOK', RequetesOK'
  PROVE  TypeInductif'
<1>1. \A s \in Requetes : req'[s].pc = "libre" => req'[s] = [pc |-> "libre"]
  <2> SUFFICES ASSUME NEW s \in Requetes, req'[s].pc = "libre"
               PROVE  req'[s] = [pc |-> "libre"]
    OBVIOUS
  <2>1. ASSUME req'[s] \in Demandes
        PROVE  FALSE
    BY <2>1 DEF Demandes, PasPanier, PasFavoris, FusionPanier, FusionFavoris
  <2> QED
    BY <2>1 DEF RequetesOK
<1> QED
  BY <1>1 DEF TypeInductif, TypeOK, TablesOK

\* A step that leaves the tables alone.
LEMMA EtapeSansTable ==
  ASSUME TypeInductif, NEW r \in Requetes, NEW e, Permise(e), Etape(r, e),
         UNCHANGED tables, pannes' \in 0 .. MaxPannes
  PROVE  TypeInductif'
<1>1. TablesOK /\ RequetesOK
  BY TypeEnDeux
<1>2. RequetesOK'
  BY <1>1, EtapeOK DEF tables
<1>3. TablesOK'
  BY <1>1, TablesPareilles
<1> QED
  BY <1>2, <1>3, TypeApres

\* A new request.
LEMMA DemandeType ==
  ASSUME NEW pc \in {"creerSession", "trouver"} \cup PasPanier \cup PasFavoris,
         NEW h \in Entetes, NEW op \in CartOps \cup FavoriteOps,
         NEW p \in {0} \cup Produits, NEW q \in {0} \cup Quantites,
         NEW source \in {0} \cup Paniers,
         NEW reste \in SUBSET (Articles \cup Coeurs)
  PROVE  [Demande(pc, h, op, p, q) EXCEPT !.source = source, !.reste = reste]
           \in Demandes
BY DEF Demande, Demandes

\* The rows that mergeSessionIntoUser reads.
LEMMA LusType ==
  ASSUME TablesOK, NEW k \in Paniers
  PROVE  /\ Lus(k) \in SUBSET Articles
         /\ \A i \in Lus(k) : i.n \in Lignes(k, i.p) /\ ligne[k][i.p][i.n] = i.q
         /\ \A p \in Produits : Lignes(k, p) # {} => \E i \in Lus(k) : i.p = p
<1>1. ASSUME NEW p \in Produits, NEW n \in Lignes(k, p)
      PROVE  ligne[k][p][n] \in Nat \ {0} /\ n \in Copies
  BY DEF TablesOK, Lignes
<1>2. ASSUME NEW i \in Lus(k)
      PROVE  /\ i \in Articles
             /\ i.n \in Lignes(k, i.p) /\ ligne[k][i.p][i.n] = i.q
  <2>1. PICK p \in Produits : \E n \in Lignes(k, p) :
               i = [p |-> p, n |-> n, q |-> ligne[k][p][n]]
    BY DEF Lus
  <2> QED
    BY <1>1, <2>1 DEF Articles
<1>3. ASSUME NEW p \in Produits, Lignes(k, p) # {}
      PROVE  \E i \in Lus(k) : i.p = p
  <2>1. PICK n \in Lignes(k, p) : TRUE
    BY <1>3
  <2>2. [p |-> p, n |-> n, q |-> ligne[k][p][n]] \in Lus(k)
    BY <2>1 DEF Lus
  <2> QED
    BY <2>2
<1> QED
  BY <1>2, <1>3

\* resolveOwner in front of a cart operation.
LEMMA CartRequestType ==
  ASSUME TypeInductif, NEW r \in Requetes, NEW h \in Entetes,
         NEW op \in CartOps, NEW p \in {0} \cup Produits,
         NEW q \in {0} \cup Quantites,
         op \in Nommee => p \in Produits, op \in Quantifiee => q \in Quantites,
         CartRequest(r, h, op, p, q)
  PROVE  TypeInductif'
<1>1. TablesOK /\ RequetesOK
  BY TypeEnDeux
<1>2. UNCHANGED tables /\ pannes' = pannes
  BY DEF CartRequest, Arrive
<1>3. CASE h = "deux" /\ panier.session # 0
  <2> DEFINE k == panier.session
             e == [Demande("panierCompte", h, op, p, q) EXCEPT
                     !.source = k, !.reste = Lus(k)]
  <2>1. k \in Paniers
    BY <1>1, <1>3 DEF TablesOK, Proprietaires
  <2>2. Lus(k) \in SUBSET Articles
    BY <1>1, <2>1, LusType
  <2>3. Etape(r, e)
    BY <1>3 DEF CartRequest
  <2>4. e \in Demandes
    BY <2>1, <2>2, DemandeType DEF PasPanier, FusionPanier
  <2>5. Conforme(e)
    BY <1>3, <2>1, <2>2
    DEF Conforme, Demande, PasPanier, PasFavoris, FusionPanier, FusionFavoris
  <2>6. Permise(e)
    BY <1>3, <2>4, <2>5 DEF Permise, Demande
  <2> HIDE DEF e
  <2> QED
    BY <1>1, <1>2, <2>3, <2>6, EtapeSansTable DEF TablesOK
<1>4. CASE ~(h = "deux" /\ panier.session # 0)
  <2> DEFINE pc == IF h = "visiteur" /\ ~session THEN "creerSession"
                                                 ELSE "trouver"
             e == Demande(pc, h, op, p, q)
  <2>1. Etape(r, e)
    BY <1>4 DEF CartRequest
  <2>2. pc \in {"creerSession", "trouver"}
    OBVIOUS
  <2>3. e \in Demandes
    BY <2>2 DEF Demande, Demandes
  <2>4. Conforme(e)
    BY DEF Conforme, Demande, PasPanier, PasFavoris, FusionPanier, FusionFavoris
  <2>5. Permise(e)
    BY <2>3, <2>4 DEF Permise, Demande
  <2> HIDE DEF e
  <2> QED
    BY <1>1, <1>2, <2>1, <2>5, EtapeSansTable DEF TablesOK
<1> QED
  BY <1>3, <1>4

\* resolveOwner in front of a favourites operation.
LEMMA FavoriteRequestType ==
  ASSUME TypeInductif, NEW r \in Requetes, NEW h \in Entetes,
         NEW op \in FavoriteOps, NEW p \in {0} \cup Produits,
         op \in Nommee => p \in Produits,
         FavoriteRequest(r, h, op, p)
  PROVE  TypeInductif'
<1>1. TablesOK /\ RequetesOK
  BY TypeEnDeux
<1>2. UNCHANGED tables /\ pannes' = pannes
  BY DEF FavoriteRequest, Arrive
<1>3. op \notin Quantifiee /\ op \notin CartOps
  BY DEF FavoriteOps, Quantifiee, CartOps
<1> DEFINE pc == IF h = "visiteur" /\ ~session THEN "creerSession"
                 ELSE IF h = "deux" THEN "fusionFavoris" ELSE "trouver"
           reste == IF h # "deux" THEN {}
                    ELSE {[p |-> x, id |-> favori.session[x]] :
                            x \in Aimes("session")}
           e == [Demande(pc, h, op, p, 0) EXCEPT !.reste = reste]
<1>4. Etape(r, e)
  BY DEF FavoriteRequest
<1>5. reste \in SUBSET Coeurs
  BY <1>1 DEF TablesOK, Aimes, Coeurs, Proprietaires
<1>6. e \in Demandes
  <2>1. pc \in {"creerSession", "trouver"} \cup PasPanier \cup PasFavoris
    BY DEF PasFavoris, FusionFavoris
  <2> HIDE DEF reste, pc
  <2> QED
    BY <1>5, <2>1 DEF Demande, Demandes
<1>7. Conforme(e)
  <2> HIDE DEF reste
  <2> QED
    BY <1>3, <1>5
    DEF Conforme, Demande, PasPanier, PasFavoris, FusionPanier, FusionFavoris
<1>8. Permise(e)
  BY <1>6, <1>7 DEF Permise, Demande
<1> HIDE DEF e
<1> QED
  BY <1>1, <1>2, <1>4, <1>8, EtapeSansTable DEF TablesOK

\* A new id is one of those left.
LEMMA NouveauLibre ==
  ASSUME NEW pris, Libres(1 .. 4, pris) # {}
  PROVE  Nouveau(1 .. 4, pris) \in 1 .. 4 /\ Nouveau(1 .. 4, pris) \notin pris
<1> DEFINE S == Libres(1 .. 4, pris)
<1>1. S \subseteq 1 .. 4 /\ S \cap pris = {}
  BY DEF Libres
<1>2. \E x \in S : \A y \in S : x <= y
  <2> HIDE DEF S
  <2>1. CASE 1 \in S
    BY <1>1, <2>1
  <2>2. CASE 1 \notin S /\ 2 \in S
    BY <1>1, <2>2
  <2>3. CASE 1 \notin S /\ 2 \notin S /\ 3 \in S
    BY <1>1, <2>3
  <2>4. CASE 1 \notin S /\ 2 \notin S /\ 3 \notin S
    <3>1. S = {4}
      BY <1>1, <2>4 DEF S
    <3> QED
      BY <3>1
  <2> QED
    BY <2>1, <2>2, <2>3, <2>4
<1>3. Min(S) \in S
  BY <1>2 DEF Min
<1> QED
  BY <1>1, <1>3 DEF Nouveau

\* A request that runs.
LEMMA Courante ==
  ASSUME TypeInductif, NEW r \in Requetes, req[r].pc # "libre"
  PROVE  /\ TablesOK /\ RequetesOK /\ ~Libre(r)
         /\ req[r] \in Demandes /\ Conforme(req[r])
         /\ req[r].h = "visiteur" /\ req[r].pc # "creerSession" => session
BY TypeEnDeux, EnCours DEF Libre

\* After a merge the request looks for its cart.
LEMMA FusionneePermise ==
  ASSUME TypeInductif, NEW r \in Requetes,
         req[r].pc \in FusionPanier \cup FusionFavoris
  PROVE  Permise(Demande("trouver", req[r].h, req[r].op, req[r].p, req[r].q))
<1>1. req[r] \in Demandes /\ Conforme(req[r]) /\ req[r].h = "deux"
  BY Courante DEF FusionPanier, FusionFavoris, Conforme
<1>2. Demande("trouver", req[r].h, req[r].op, req[r].p, req[r].q) \in Demandes
  BY <1>1 DEF Demande, Demandes
<1> QED
  BY <1>1, <1>2
  DEF Permise, Conforme, Demande, PasPanier, PasFavoris, FusionPanier,
      FusionFavoris

\* A request that answers.
LEMMA ReponsePermise == Permise([pc |-> "libre"])
BY DEF Permise

\* mergeSessionIntoUser finds the account's cart.
LEMMA FusionPanierCompteType ==
  ASSUME TypeInductif, NEW r \in Requetes, FusionPanierCompte(r)
  PROVE  TypeInductif'
<1> DEFINE e == [req[r] EXCEPT
                   !.pc = IF panier.compte = 0 THEN "transferer" ELSE "copier",
                   !.cible = panier.compte]
<1>1. /\ TablesOK /\ req[r] \in Demandes /\ Conforme(req[r])
      /\ req[r].pc = "panierCompte"
  BY Courante DEF FusionPanierCompte
<1>2. Etape(r, e) /\ UNCHANGED tables /\ pannes' = pannes
  BY DEF FusionPanierCompte, temoins
<1>3. panier.compte \in {0} \cup Paniers
  BY <1>1 DEF TablesOK, Proprietaires
<1>4. e \in Demandes
  BY <1>1, <1>3 DEF Demandes, PasPanier, FusionPanier
<1>5. Conforme(e) /\ e.h = "deux"
  BY <1>1, <1>3
  DEF Conforme, Demandes, PasPanier, PasFavoris, FusionPanier, FusionFavoris
<1>6. Permise(e)
  BY <1>4, <1>5 DEF Permise
<1> HIDE DEF e
<1> QED
  BY <1>1, <1>2, <1>6, EtapeSansTable DEF TablesOK

\* It looks a row up in the account's cart.
LEMMA FusionLigneType ==
  ASSUME TypeInductif, NEW r \in Requetes, FusionLigne(r)
  PROVE  TypeInductif'
<1>1. /\ TablesOK /\ req[r] \in Demandes /\ Conforme(req[r])
      /\ req[r].pc = "copier"
  BY Courante DEF FusionLigne
<1>2. UNCHANGED tables /\ pannes' = pannes
  BY DEF FusionLigne, temoins
<1>3. PICK i \in req[r].reste :
        TrouveLigne(r, i.p, [req[r] EXCEPT
          !.pc = "copierEcrire", !.reste = @ \ {i}, !.item = {i}])
  BY DEF FusionLigne
<1> DEFINE f == [req[r] EXCEPT
                   !.pc = "copierEcrire", !.reste = @ \ {i}, !.item = {i}]
<1>4. i \in Articles /\ req[r].cible \in Paniers
  BY <1>1 DEF Conforme, FusionPanier
<1>5. f \in Demandes /\ Conforme(f) /\ f.h = "deux"
  <2>1. f \in Demandes
    BY <1>1, <1>4 DEF Demandes, PasPanier, FusionPanier
  <2>2. Conforme(f) /\ f.h = "deux"
    BY <1>1, <1>4
    DEF Conforme, Demandes, PasPanier, PasFavoris, FusionPanier, FusionFavoris
  <2> QED
    BY <2>1, <2>2
<1> HIDE DEF f
<1>6. ASSUME NEW n \in {0} \cup Copies, NEW v \in Nat
      PROVE  Permise([f EXCEPT !.rang = n, !.vu = v])
  <2>1. [f EXCEPT !.rang = n, !.vu = v] \in Demandes
    BY <1>5 DEF Demandes
  <2>2. Conforme([f EXCEPT !.rang = n, !.vu = v])
    BY <1>5 DEF Conforme, Demandes
  <2> QED
    BY <1>5, <2>1, <2>2 DEF Permise, Demandes
<1>7. CASE Etape(r, f)
  BY <1>1, <1>2, <1>5, <1>7, EtapeSansTable DEF TablesOK, Permise
<1>8. CASE \E n \in Lignes(req[r].cible, i.p) :
             Etape(r, [f EXCEPT !.rang = n,
                                !.vu = ligne[req[r].cible][i.p][n]])
  <2>1. PICK n \in Lignes(req[r].cible, i.p) :
             Etape(r, [f EXCEPT !.rang = n,
                                !.vu = ligne[req[r].cible][i.p][n]])
    BY <1>8
  <2>2. n \in Copies /\ ligne[req[r].cible][i.p][n] \in Nat
    BY <1>1, <1>4 DEF TablesOK, Lignes, Articles
  <2> QED
    BY <1>1, <1>2, <1>6, <2>1, <2>2, EtapeSansTable DEF TablesOK
<1> QED
  BY <1>3, <1>7, <1>8 DEF TrouveLigne, f

\* findFirst in front of a write.
LEMMA FindItemType ==
  ASSUME TypeInductif, NEW r \in Requetes, FindItem(r)
  PROVE  TypeInductif'
<1>1. /\ TablesOK /\ req[r] \in Demandes /\ Conforme(req[r])
      /\ req[r].pc = "executer" /\ req[r].op \in Quantifiee
      /\ req[r].h = "visiteur" => session
  BY Courante DEF FindItem, Quantifiee
<1>2. UNCHANGED tables /\ pannes' = pannes
  BY DEF FindItem, temoins
<1> DEFINE f == [req[r] EXCEPT !.pc = "ecrire"]
           p == req[r].p
<1>3. p \in Produits /\ req[r].cible \in Paniers
  BY <1>1 DEF Conforme, Nommee
<1>4. f \in Demandes /\ Conforme(f) /\ (f.h = "visiteur" => session)
  <2>1. f \in Demandes
    BY <1>1 DEF Demandes, PasPanier
  <2>2. Conforme(f) /\ (f.h = "visiteur" => session)
    BY <1>1
    DEF Conforme, Demandes, PasPanier, PasFavoris, FusionPanier, FusionFavoris
  <2> QED
    BY <2>1, <2>2
<1> HIDE DEF f
<1>5. ASSUME NEW n \in {0} \cup Copies, NEW v \in Nat
      PROVE  Permise([f EXCEPT !.rang = n, !.vu = v])
  <2>1. [f EXCEPT !.rang = n, !.vu = v] \in Demandes
    BY <1>4 DEF Demandes
  <2>2. Conforme([f EXCEPT !.rang = n, !.vu = v])
    BY <1>4 DEF Conforme, Demandes
  <2> QED
    BY <1>4, <2>1, <2>2 DEF Permise, Demandes
<1>6. CASE Repond(r)
  BY <1>1, <1>2, <1>6, EtapeSansTable, ReponsePermise DEF TablesOK, Repond
<1>7. CASE Etape(r, f)
  BY <1>1, <1>2, <1>4, <1>7, EtapeSansTable DEF TablesOK, Permise
<1>8. CASE \E n \in Lignes(req[r].cible, p) :
             Etape(r, [f EXCEPT !.rang = n, !.vu = ligne[req[r].cible][p][n]])
  <2>1. PICK n \in Lignes(req[r].cible, p) :
             Etape(r, [f EXCEPT !.rang = n, !.vu = ligne[req[r].cible][p][n]])
    BY <1>8
  <2>2. n \in Copies /\ ligne[req[r].cible][p][n] \in Nat
    BY <1>1, <1>3 DEF TablesOK, Lignes
  <2> QED
    BY <1>1, <1>2, <1>5, <2>1, <2>2, EtapeSansTable DEF TablesOK
<1> QED
  BY <1>6, <1>7, <1>8 DEF FindItem, TrouveLigne, f

\* A step that writes a table.
LEMMA EtapeAvecTable ==
  ASSUME TypeInductif, NEW r \in Requetes, NEW e, Permise(e), Etape(r, e),
         session' = session, TablesOK'
  PROVE  TypeInductif'
BY TypeEnDeux, EtapeOK, TypeApres

\* A step that writes a row.
LEMMA LignesType ==
  ASSUME TablesOK, NEW k \in Paniers, NEW p \in Produits,
         UNCHANGED <<session, panier, favori, pannes>>,
         NEW f \in [Copies -> Nat],
         ligne' = [ligne EXCEPT ![k][p] = f],
         Existe(k) \/ \A n \in Copies : f[n] # 0 => ligne[k][p][n] # 0
  PROVE  TablesOK'
<1>1. ligne' \in [Paniers -> [Produits -> [Copies -> Nat]]]
  BY DEF TablesOK
<1>2. ASSUME NEW j \in Paniers, NEW q \in Produits, Lignes(j, q)' # {}
      PROVE  Existe(j)'
  <2>1. PICK n \in Copies : ligne'[j][q][n] # 0
    BY <1>2 DEF Lignes
  <2>2. CASE j = k /\ q = p
    <3>1. ligne'[j][q] = f
      BY <2>2 DEF TablesOK
    <3>2. Existe(k)
      BY <2>1, <2>2, <3>1 DEF TablesOK, Lignes
    <3> QED
      BY <2>2, <3>2 DEF Existe
  <2>3. CASE j # k \/ q # p
    <3>1. ligne'[j][q] = ligne[j][q]
      BY <2>3 DEF TablesOK
    <3>2. Lignes(j, q) # {}
      BY <2>1, <3>1 DEF Lignes
    <3> QED
      BY <3>2 DEF TablesOK, Existe
  <2> QED
    BY <2>2, <2>3
<1> QED
  BY <1>1, <1>2 DEF TablesOK

\* Writing a row is writing the rows of one product in one cart.
LEMMA UneCase ==
  ASSUME ligne \in [Paniers -> [Produits -> [Copies -> Nat]]],
         NEW k \in Paniers, NEW p \in Produits, NEW n, NEW q
  PROVE  [ligne EXCEPT ![k][p][n] = q]
           = [ligne EXCEPT ![k][p] = [ligne[k][p] EXCEPT ![n] = q]]
OBVIOUS

\* A row is written, or the request fails.
LEMMA EcrireLigneType ==
  ASSUME TypeInductif, NEW r \in Requetes, req[r].pc # "libre",
         req[r].cible \in Paniers, NEW p \in Produits, NEW q \in Nat,
         NEW e, Permise(e), EcrireLigne(r, p, q, Etape(r, e)),
         UNCHANGED <<session, panier, favori, pannes>>
  PROVE  TypeInductif'
<1>1. /\ TablesOK /\ req[r] \in Demandes
  BY Courante
<1> DEFINE k == req[r].cible
           n == req[r].rang
           pris == Lignes(k, p)
                     \cup {req[s].rang : s \in {s \in Requetes : ~Libre(s)}}
           id == IF n = 0 THEN Nouveau(Copies, pris) ELSE n
<1>2. CASE Repond(r) /\ UNCHANGED ligne
  BY <1>1, <1>2, EtapeSansTable, ReponsePermise DEF TablesOK, Repond, tables
<1>3. CASE /\ n = 0 => Libres(Copies, pris) # {}
           /\ IF n = 0 THEN Existe(k) ELSE ligne[k][p][n] # 0
           /\ ligne' = [ligne EXCEPT ![k][p][id] = q]
           /\ Etape(r, e)
  <2>1. id \in Copies
    <3>1. CASE n = 0
      BY <1>3, <3>1, NouveauLibre DEF Copies
    <3>2. CASE n # 0
      BY <1>1, <3>2 DEF Demandes
    <3> QED
      BY <3>1, <3>2
  <2>2. PICK f : f = [ligne[k][p] EXCEPT ![id] = q]
    OBVIOUS
  <2>3. ligne' = [ligne EXCEPT ![k][p] = f] /\ f \in [Copies -> Nat]
    BY <1>1, <1>3, <2>1, <2>2, UneCase DEF TablesOK
  <2>4. Existe(k) \/ \A m \in Copies : f[m] # 0 => ligne[k][p][m] # 0
    <3>1. CASE n = 0
      BY <1>3, <3>1
    <3>2. CASE n # 0
      BY <1>1, <1>3, <2>1, <2>2, <3>2 DEF TablesOK
    <3> QED
      BY <3>1, <3>2
  <2>5. TablesOK'
    BY <1>1, <2>3, <2>4, LignesType
  <2> QED
    BY <1>3, <2>5, EtapeAvecTable
<1> QED
  BY <1>2, <1>3 DEF EcrireLigne

\* The merge adds a row.
LEMMA FusionEcrireType ==
  ASSUME TypeInductif, NEW r \in Requetes, FusionEcrire(r)
  PROVE  TypeInductif'
<1>1. /\ TablesOK /\ req[r] \in Demandes /\ Conforme(req[r])
      /\ req[r].pc = "copierEcrire"
  BY Courante DEF FusionEcrire
<1> DEFINE e == [req[r] EXCEPT
                   !.pc = "copier", !.item = {}, !.rang = 0, !.vu = 0]
<1>2. PICK i \in req[r].item : EcrireLigne(r, i.p, req[r].vu + i.q, Etape(r, e))
  BY DEF FusionEcrire
<1>3. i.p \in Produits /\ i.q \in Nat /\ req[r].vu \in Nat
      /\ req[r].cible \in Paniers
  BY <1>1 DEF Conforme, FusionPanier, Articles, Demandes
<1>4. e \in Demandes
  BY <1>1 DEF Demandes, PasPanier, FusionPanier
<1>5. Conforme(e) /\ e.h = "deux"
  BY <1>1
  DEF Conforme, Demandes, PasPanier, PasFavoris, FusionPanier, FusionFavoris
<1>6. Permise(e)
  BY <1>4, <1>5 DEF Permise
<1>7. UNCHANGED <<session, panier, favori, pannes>>
  BY DEF FusionEcrire, temoins
<1> HIDE DEF e
<1> QED
  BY <1>1, <1>2, <1>3, <1>6, <1>7, EcrireLigneType

\* No request asks for nothing.
LEMMA QuantitesNat == Quantites \subseteq Nat \ {0}
<1>1. 1 .. MaxArticles \subseteq Nat \ {0}
  BY VisiteAssumption
<1> QED
  BY <1>1, VisiteAssumption

\* addItem and updateItem write theirs.
LEMMA WriteItemType ==
  ASSUME TypeInductif, NEW r \in Requetes, WriteItem(r)
  PROVE  TypeInductif'
<1>1. /\ TablesOK /\ req[r] \in Demandes /\ Conforme(req[r])
      /\ req[r].pc = "ecrire"
  BY Courante DEF WriteItem
<1> DEFINE q == IF req[r].op = "addItem" THEN req[r].vu + req[r].q
                                         ELSE req[r].q
<1>2. EcrireLigne(r, req[r].p, q, Etape(r, [pc |-> "libre"]))
  BY DEF WriteItem, Repond
<1>3. req[r].p \in Produits /\ req[r].cible \in Paniers
  BY <1>1 DEF Conforme, Nommee, Quantifiee
<1>4. q \in Nat
  <2>1. req[r].vu \in Nat /\ req[r].q \in {0} \cup Quantites
    BY <1>1 DEF Demandes
  <2>2. req[r].q \in Nat
    BY <2>1, QuantitesNat, 0 \in Nat
  <2> QED
    BY <2>1, <2>2
<1>5. UNCHANGED <<session, panier, favori, pannes>>
  BY DEF WriteItem, temoins
<1> HIDE DEF q
<1> QED
  BY <1>1, <1>2, <1>3, <1>4, <1>5, EcrireLigneType, ReponsePermise

\* removeItem empties the rows of its product.
LEMMA RemoveItemType ==
  ASSUME TypeInductif, NEW r \in Requetes, RemoveItem(r)
  PROVE  TypeInductif'
<1>1. /\ TablesOK /\ req[r] \in Demandes /\ Conforme(req[r])
      /\ req[r].pc = "executer" /\ req[r].op = "removeItem"
  BY Courante DEF RemoveItem
<1>2. req[r].p \in Produits /\ req[r].cible \in Paniers
  BY <1>1 DEF Conforme, Nommee
<1>3. /\ UNCHANGED <<session, panier, favori, pannes>>
      /\ ligne' = [ligne EXCEPT ![req[r].cible][req[r].p] =
                     [n \in Copies |-> 0]]
      /\ Etape(r, [pc |-> "libre"])
  BY DEF RemoveItem, temoins, Repond
<1>4. TablesOK'
  <2>1. PICK f : f = [n \in Copies |-> 0]
    OBVIOUS
  <2>2. f \in [Copies -> Nat] /\ \A n \in Copies : f[n] = 0
    BY <2>1
  <2> QED
    BY <1>1, <1>2, <1>3, <2>1, <2>2, LignesType
<1> QED
  BY <1>3, <1>4, EtapeAvecTable, ReponsePermise

\* A step that changes who has which cart.
LEMMA PaniersType ==
  ASSUME TablesOK, UNCHANGED <<session, favori, pannes>>,
         panier' \in [Proprietaires -> {0} \cup Paniers],
         panier'.session = panier'.compte => panier'.session = 0,
         panier'.session # 0 => session,
         ligne' \in [Paniers -> [Produits -> [Copies -> Nat]]],
         \A k \in Paniers, p \in Produits :
           {n \in Copies : ligne'[k][p][n] # 0} # {} =>
             \E o \in Proprietaires : panier'[o] = k
  PROVE  TablesOK'
BY DEF TablesOK, Lignes, Existe

\* The session's cart becomes the account's.
LEMMA FusionTransfererType ==
  ASSUME TypeInductif, NEW r \in Requetes, FusionTransferer(r)
  PROVE  TypeInductif'
<1> DEFINE k == req[r].source
           e == Demande("trouver", req[r].h, req[r].op, req[r].p, req[r].q)
           pan == [session |-> IF panier.session = k THEN 0 ELSE panier.session,
                   compte |-> k]
<1>1. /\ TablesOK /\ req[r] \in Demandes /\ Conforme(req[r])
      /\ req[r].pc = "transferer"
  BY Courante DEF FusionTransferer
<1>2. UNCHANGED <<session, ligne, favori, pannes>>
  BY DEF FusionTransferer, temoins
<1>3. CASE /\ Existe(k) /\ panier.compte \in {0, k}
           /\ panier' = pan
           /\ Etape(r, e)
  <2>1. k \in Paniers
    BY <1>1 DEF Conforme, FusionPanier
  <2>2. panier.session \in {0} \cup Paniers
    BY <1>1 DEF TablesOK, Proprietaires
  <2>3. pan \in [Proprietaires -> {0} \cup Paniers]
    BY <2>1, <2>2 DEF Proprietaires
  <2>4. pan.session = (IF panier.session = k THEN 0 ELSE panier.session)
        /\ pan.compte = k
    OBVIOUS
  <2>5. ASSUME NEW j \in Paniers, \E o \in Proprietaires : panier[o] = j
        PROVE  \E o \in Proprietaires : pan[o] = j
    <3>1. panier.session = j \/ panier.compte = j
      BY <2>5 DEF Proprietaires
    <3>2. j # 0
      BY DEF Paniers
    <3>3. pan.session = j \/ pan.compte = j
      BY <1>3, <2>4, <3>1, <3>2
    <3> QED
      BY <3>3 DEF Proprietaires
  <2>6. pan.session = pan.compte => pan.session = 0
    BY <2>1, <2>4
  <2>7. pan.session # 0 => session
    BY <1>1, <2>4 DEF TablesOK
  <2> HIDE DEF pan
  <2>8. TablesOK'
    BY <1>1, <1>2, <1>3, <2>3, <2>5, <2>6, <2>7, PaniersType
    DEF TablesOK, Lignes, Existe
  <2>9. Permise(e)
    BY <1>1, FusionneePermise DEF FusionPanier
  <2> QED
    BY <1>2, <1>3, <2>8, <2>9, EtapeAvecTable
<1>4. CASE Repond(r) /\ UNCHANGED panier
  BY <1>1, <1>2, <1>4, EtapeSansTable, ReponsePermise
  DEF TablesOK, Repond, tables
<1> QED
  BY <1>3, <1>4 DEF FusionTransferer, Fusionnee

\* The session's cart is deleted with its rows.
LEMMA FusionSupprimerType ==
  ASSUME TypeInductif, NEW r \in Requetes, FusionSupprimer(r)
  PROVE  TypeInductif'
<1> DEFINE k == req[r].source
           e == Demande("trouver", req[r].h, req[r].op, req[r].p, req[r].q)
           pan == [o \in Proprietaires |->
                     IF panier[o] = k THEN 0 ELSE panier[o]]
           lig == [ligne EXCEPT ![k] = [p \in Produits |-> [n \in Copies |-> 0]]]
<1>1. /\ TablesOK /\ req[r] \in Demandes /\ Conforme(req[r])
      /\ req[r].pc = "copier"
  BY Courante DEF FusionSupprimer
<1>2. UNCHANGED <<session, favori, pannes>>
  BY DEF FusionSupprimer, temoins
<1>3. CASE panier' = pan /\ ligne' = lig /\ Etape(r, e)
  <2>1. k \in Paniers
    BY <1>1 DEF Conforme, FusionPanier
  <2>2. /\ pan \in [Proprietaires -> {0} \cup Paniers]
        /\ pan.session = (IF panier.session = k THEN 0 ELSE panier.session)
        /\ pan.compte = (IF panier.compte = k THEN 0 ELSE panier.compte)
    BY <1>1 DEF TablesOK, Proprietaires
  <2>3. pan.session = pan.compte => pan.session = 0
    BY <1>1, <2>2 DEF TablesOK
  <2>4. pan.session # 0 => session
    BY <1>1, <2>2 DEF TablesOK
  <2>5. lig \in [Paniers -> [Produits -> [Copies -> Nat]]]
    BY <1>1 DEF TablesOK
  <2>6. ASSUME NEW j \in Paniers, NEW p \in Produits,
               {n \in Copies : lig[j][p][n] # 0} # {}
        PROVE  \E o \in Proprietaires : pan[o] = j
    <3>1. j # k
      BY <1>1, <2>6 DEF TablesOK
    <3>2. lig[j] = ligne[j]
      BY <1>1, <3>1 DEF TablesOK
    <3>3. Existe(j)
      BY <1>1, <2>6, <3>2 DEF TablesOK, Lignes
    <3> QED
      BY <3>1, <3>3 DEF Existe
  <2> HIDE DEF pan, lig
  <2>7. TablesOK'
    BY <1>1, <1>2, <1>3, <2>2, <2>3, <2>4, <2>5, <2>6, PaniersType
  <2>8. Permise(e)
    BY <1>1, FusionneePermise DEF FusionPanier
  <2> QED
    BY <1>2, <1>3, <2>7, <2>8, EtapeAvecTable
<1>4. CASE Repond(r) /\ UNCHANGED <<panier, ligne>>
  BY <1>1, <1>2, <1>4, EtapeSansTable, ReponsePermise
  DEF TablesOK, Repond, tables
<1> QED
  BY <1>3, <1>4 DEF FusionSupprimer, SupprimerPanier, Fusionnee

\* A request finds its cart, which it works on or only reads.
LEMMA AvecPanierPermise ==
  ASSUME TypeInductif, NEW r \in Requetes, NEW k \in Paniers,
         req[r].pc \in {"trouver", "creerPanier"}, req[r].op \in CartOps,
         AvecPanier(r, k)
  PROVE  \E e : Permise(e) /\ Etape(r, e)
<1>1. /\ TablesOK /\ req[r] \in Demandes /\ Conforme(req[r])
      /\ req[r].h = "visiteur" => session
  BY Courante
<1> DEFINE e == [req[r] EXCEPT !.pc = "executer", !.cible = k]
<1>2. e \in Demandes
  BY <1>1 DEF Demandes, PasPanier
<1>3. Conforme(e) /\ e.h = req[r].h
  BY <1>1
  DEF Conforme, Demandes, PasPanier, PasFavoris, FusionPanier, FusionFavoris
<1>4. Permise(e)
  BY <1>1, <1>2, <1>3 DEF Permise
<1> HIDE DEF e
<1>5. Etape(r, e) \/ Etape(r, [pc |-> "libre"])
  BY DEF AvecPanier, e, Repond
<1> QED
  BY <1>4, <1>5, ReponsePermise

LEMMA FindPanierType ==
  ASSUME TypeInductif, NEW r \in Requetes, FindPanier(r)
  PROVE  TypeInductif'
<1>1. /\ TablesOK /\ req[r] \in Demandes /\ Conforme(req[r])
      /\ req[r].pc = "trouver" /\ req[r].op \in CartOps
      /\ req[r].h = "visiteur" => session
  BY Courante DEF FindPanier
<1>2. UNCHANGED tables /\ pannes' = pannes
  BY DEF FindPanier, temoins
<1> DEFINE k == panier[Proprietaire(r)]
<1>3. CASE k # 0
  <2>1. k \in Paniers
    BY <1>1, <1>3 DEF TablesOK, Proprietaire, Proprietaires
  <2>2. AvecPanier(r, k)
    BY <1>3 DEF FindPanier
  <2> HIDE DEF k
  <2>3. PICK e : Permise(e) /\ Etape(r, e)
    BY <1>1, <2>1, <2>2, AvecPanierPermise
  <2> QED
    BY <1>1, <1>2, <2>3, EtapeSansTable DEF TablesOK
<1>4. CASE k = 0
  <2> DEFINE e == [req[r] EXCEPT !.pc = "creerPanier"]
  <2>1. Etape(r, e)
    BY <1>4 DEF FindPanier, Va
  <2>2. e \in Demandes
    BY <1>1 DEF Demandes, PasPanier
  <2>3. Conforme(e) /\ e.h = req[r].h
    BY <1>1
    DEF Conforme, Demandes, PasPanier, PasFavoris, FusionPanier, FusionFavoris
  <2>4. Permise(e)
    BY <1>1, <2>2, <2>3 DEF Permise
  <2> HIDE DEF e
  <2> QED
    BY <1>1, <1>2, <2>1, <2>4, EtapeSansTable DEF TablesOK
<1> QED
  BY <1>3, <1>4

\* A request creates its owner's cart.
LEMMA CreatePanierType ==
  ASSUME TypeInductif, NEW r \in Requetes, CreatePanier(r)
  PROVE  TypeInductif'
<1> DEFINE o == Proprietaire(r)
           pris == {panier[x] : x \in Proprietaires}
                     \cup UNION {{req[s].cible, req[s].source} :
                                   s \in {s \in Requetes : ~Libre(s)}}
           k == Nouveau(Paniers, pris)
<1>1. /\ TablesOK /\ req[r] \in Demandes /\ Conforme(req[r])
      /\ req[r].pc = "creerPanier"
      /\ req[r].h = "visiteur" => session
  BY Courante DEF CreatePanier
<1>2. UNCHANGED <<session, ligne, favori, pannes>>
  BY DEF CreatePanier, temoins
<1>3. k \in Paniers /\ \A x \in Proprietaires : panier[x] # k
  <2>1. k \in Paniers /\ k \notin pris
    BY NouveauLibre DEF CreatePanier, Paniers
  <2> QED
    BY <2>1
<1>4. o \in Proprietaires /\ (o = "session" => session)
  BY <1>1 DEF Proprietaire, Proprietaires
<1>5. CASE Repond(r) /\ UNCHANGED panier
  BY <1>1, <1>2, <1>5, EtapeSansTable, ReponsePermise
  DEF TablesOK, Repond, tables
<1>6. CASE /\ panier[o] = 0
           /\ panier' = [panier EXCEPT ![o] = k]
           /\ AvecPanier(r, k)
  <2> HIDE DEF k, o
  <2>1. req[r].op \in CartOps
    BY <1>1 DEF Conforme, PasPanier
  <2>2. PICK e : Permise(e) /\ Etape(r, e)
    BY <1>1, <1>3, <1>6, <2>1, AvecPanierPermise
  <2>3. panier' \in [Proprietaires -> {0} \cup Paniers]
    BY <1>1, <1>3, <1>6 DEF TablesOK
  <2>4. k # 0
    BY <1>3 DEF Paniers
  <2>5. \A x \in Proprietaires : panier'[x] = IF x = o THEN k ELSE panier[x]
    BY <1>1, <1>4, <1>6 DEF TablesOK
  <2>6. "session" \in Proprietaires /\ "compte" \in Proprietaires
    BY DEF Proprietaires
  <2>7. panier'.session = panier'.compte => panier'.session = 0
    BY <1>1, <1>3, <2>4, <2>5, <2>6 DEF TablesOK
  <2>8. panier'.session # 0 => session
    BY <1>1, <1>4, <2>5, <2>6 DEF TablesOK
  <2>9. ASSUME NEW j \in Paniers, NEW p \in Produits,
               {n \in Copies : ligne'[j][p][n] # 0} # {}
        PROVE  \E x \in Proprietaires : panier'[x] = j
    <3>1. Existe(j)
      BY <1>1, <1>2, <2>9 DEF TablesOK, Lignes
    <3>2. PICK x \in Proprietaires : panier[x] = j
      BY <3>1 DEF Existe
    <3>3. x # o
      BY <1>6, <3>2 DEF Paniers
    <3> QED
      BY <2>5, <3>2, <3>3
  <2>10. TablesOK'
    BY <1>1, <1>2, <2>3, <2>7, <2>8, <2>9, PaniersType DEF TablesOK
  <2> QED
    BY <1>2, <2>2, <2>10, EtapeAvecTable
<1> QED
  BY <1>5, <1>6 DEF CreatePanier

----------------------------------------------------------------------------
(* Types: sessions, failures, favourites.                                  *)

LEMMA CreateSessionType ==
  ASSUME TypeInductif, NEW r \in Requetes, CreateSession(r)
  PROVE  TypeInductif'
<1>1. /\ TablesOK /\ RequetesOK /\ req[r] \in Demandes /\ Conforme(req[r])
      /\ req[r].pc = "creerSession"
  BY Courante DEF CreateSession
<1> DEFINE e == IF session THEN [pc |-> "libre"]
                           ELSE [req[r] EXCEPT !.pc = "trouver"]
<1>2. /\ req' = [req EXCEPT ![r] = e] /\ session' = TRUE
      /\ UNCHANGED <<panier, ligne, favori, pannes>>
  BY DEF CreateSession, Repond, Va, Etape, temoins
<1>3. e = [pc |-> "libre"] \/ (e \in Demandes /\ Conforme(e))
  <2> DEFINE f == [req[r] EXCEPT !.pc = "trouver"]
  <2>1. f \in Demandes
    BY <1>1 DEF Demandes
  <2>2. Conforme(f)
    BY <1>1
    DEF Conforme, Demandes, PasPanier, PasFavoris, FusionPanier, FusionFavoris
  <2> QED
    BY <2>1, <2>2
<1> HIDE DEF e
<1>4. req' \in [Requetes -> Demandes \cup {[pc |-> "libre"]}]
  BY <1>1, <1>2, <1>3 DEF RequetesOK
<1>5. ASSUME NEW s \in Requetes, ~Libre(s)'
      PROVE  Conforme(req'[s])
  <2>1. CASE s = r
    <3>1. req'[s] = e
      BY <1>1, <1>2, <2>1 DEF RequetesOK
    <3>2. e # [pc |-> "libre"]
      BY <1>5, <3>1 DEF Libre
    <3> QED
      BY <1>3, <3>1, <3>2
  <2>2. CASE s # r
    <3>1. req'[s] = req[s]
      BY <1>1, <1>2, <2>2 DEF RequetesOK
    <3> QED
      BY <1>1, <1>5, <3>1 DEF RequetesOK, Libre
  <2> QED
    BY <2>1, <2>2
<1>6. RequetesOK'
  BY <1>2, <1>4, <1>5 DEF RequetesOK, Conforme
<1>7. TablesOK'
  BY <1>1, <1>2 DEF TablesOK, Lignes, Existe
<1> QED
  BY <1>6, <1>7, TypeApres

LEMMA PanneType ==
  ASSUME TypeInductif, NEW r \in Requetes, Panne(r)
  PROVE  TypeInductif'
<1>1. TablesOK
  BY TypeEnDeux
<1>2. UNCHANGED tables /\ Etape(r, [pc |-> "libre"])
  BY DEF Panne, Repond
<1>3. pannes' \in 0 .. MaxPannes
  BY <1>1, VisiteAssumption DEF Panne, TablesOK
<1> QED
  BY <1>2, <1>3, EtapeSansTable, ReponsePermise

\* The merge looks a favourite up in the account.
LEMMA FusionFavoriType ==
  ASSUME TypeInductif, NEW r \in Requetes, FusionFavori(r)
  PROVE  TypeInductif'
<1>1. /\ TablesOK /\ req[r] \in Demandes /\ Conforme(req[r])
      /\ req[r].pc = "fusionFavoris"
  BY Courante DEF FusionFavori
<1>2. UNCHANGED tables /\ pannes' = pannes
  BY DEF FusionFavori, temoins
<1>3. PICK i \in req[r].reste :
        Etape(r, [req[r] EXCEPT
          !.pc = IF favori.compte[i.p] # 0 THEN "supprimerFavori"
                                           ELSE "deplacerFavori",
          !.reste = @ \ {i}, !.item = {i}])
  BY DEF FusionFavori
<1> DEFINE pc == IF favori.compte[i.p] # 0 THEN "supprimerFavori"
                                           ELSE "deplacerFavori"
           e == [req[r] EXCEPT !.pc = pc, !.reste = @ \ {i}, !.item = {i}]
<1>4. pc \in {"supprimerFavori", "deplacerFavori"}
  OBVIOUS
<1>5. i \in Coeurs
  BY <1>1 DEF Conforme, FusionFavoris
<1>6. Etape(r, e)
  BY <1>3
<1> HIDE DEF pc
<1>7. e \in Demandes
  BY <1>1, <1>4, <1>5 DEF Demandes, PasFavoris, FusionFavoris
<1>8. Conforme(e) /\ e.h = "deux"
  BY <1>1, <1>4, <1>5
  DEF Conforme, Demandes, PasPanier, PasFavoris, FusionPanier, FusionFavoris
<1>9. Permise(e)
  BY <1>7, <1>8 DEF Permise
<1> HIDE DEF e
<1> QED
  BY <1>1, <1>2, <1>6, <1>9, EtapeSansTable DEF TablesOK

\* It goes on with the next one.
LEMMA ContinuePermise ==
  ASSUME TypeInductif, NEW r \in Requetes, req[r].pc \in FusionFavoris
  PROVE  Permise([req[r] EXCEPT !.pc = "fusionFavoris", !.item = {}])
<1> DEFINE e == [req[r] EXCEPT !.pc = "fusionFavoris", !.item = {}]
<1>1. /\ req[r] \in Demandes /\ Conforme(req[r]) /\ req[r].h = "deux"
  BY Courante DEF FusionFavoris, Conforme
<1>2. e \in Demandes
  BY <1>1 DEF Demandes, PasFavoris, FusionFavoris
<1>3. Conforme(e) /\ e.h = "deux"
  BY <1>1
  DEF Conforme, Demandes, PasPanier, PasFavoris, FusionPanier, FusionFavoris
<1> HIDE DEF e
<1>4. Permise(e)
  BY <1>2, <1>3 DEF Permise
<1> QED
  BY <1>4 DEF e

\* A step that writes favourites.
LEMMA FavorisType ==
  ASSUME TypeInductif, NEW r \in Requetes, NEW e, Permise(e), Etape(r, e),
         UNCHANGED <<session, panier, ligne, pannes>>,
         favori' \in [Proprietaires -> [Produits -> {0} \cup Favoris]],
         \A p \in Produits :
           favori'.session[p] = favori'.compte[p] => favori'.session[p] = 0,
         (\E p \in Produits : favori'.session[p] # 0) => session
  PROVE  TypeInductif'
<1>1. TablesOK
  BY TypeEnDeux
<1>2. TablesOK'
  BY <1>1 DEF TablesOK, Lignes, Existe
<1> QED
  BY <1>2, EtapeAvecTable

\* A favourite of an owner takes the value v.
LEMMA FavoriPose ==
  ASSUME TypeInductif, NEW r \in Requetes, NEW e, Permise(e), Etape(r, e),
         UNCHANGED <<session, panier, ligne, pannes>>,
         NEW o \in Proprietaires, NEW p \in Produits,
         NEW v \in {0} \cup Favoris,
         v # 0 => /\ \A x \in Proprietaires \ {o} : favori[x][p] # v
                  /\ o = "session" => session,
         favori' = [favori EXCEPT ![o][p] = v]
  PROVE  TypeInductif'
<1>1. TablesOK
  BY TypeEnDeux
<1>2. favori' \in [Proprietaires -> [Produits -> {0} \cup Favoris]]
  BY <1>1 DEF TablesOK
<1>3. \A x \in Proprietaires, q \in Produits :
        favori'[x][q] = IF x = o /\ q = p THEN v ELSE favori[x][q]
  BY <1>1 DEF TablesOK
<1>4. "session" \in Proprietaires /\ "compte" \in Proprietaires
      /\ (o = "session" \/ o = "compte")
  BY DEF Proprietaires
<1>5. \A q \in Produits :
        favori'.session[q] = favori'.compte[q] => favori'.session[q] = 0
  BY <1>1, <1>3, <1>4 DEF TablesOK
<1>6. (\E q \in Produits : favori'.session[q] # 0) => session
  BY <1>1, <1>3, <1>4 DEF TablesOK
<1> QED
  BY <1>2, <1>5, <1>6, FavorisType

LEMMA FusionSupprimerFavoriType ==
  ASSUME TypeInductif, NEW r \in Requetes, FusionSupprimerFavori(r)
  PROVE  TypeInductif'
<1>1. /\ TablesOK /\ req[r] \in Demandes /\ Conforme(req[r])
      /\ req[r].pc \in FusionFavoris
  BY Courante DEF FusionSupprimerFavori, FusionFavoris
<1>2. UNCHANGED <<session, panier, ligne, pannes>>
  BY DEF FusionSupprimerFavori, temoins
<1>3. CASE Repond(r) /\ UNCHANGED favori
  BY <1>1, <1>2, <1>3, EtapeSansTable, ReponsePermise
  DEF TablesOK, Repond, tables
<1>4. CASE \E i \in req[r].item, o \in Proprietaires :
             favori' = [favori EXCEPT ![o][i.p] = 0] /\ Continue(r)
  <2>1. PICK i \in req[r].item, o \in Proprietaires :
               favori' = [favori EXCEPT ![o][i.p] = 0] /\ Continue(r)
    BY <1>4
  <2>2. i.p \in Produits
    BY <1>1 DEF Conforme, Coeurs
  <2> DEFINE e == [req[r] EXCEPT !.pc = "fusionFavoris", !.item = {}]
  <2>3. Permise(e)
    BY <1>1, ContinuePermise
  <2>4. Etape(r, e)
    BY <2>1 DEF Continue
  <2> HIDE DEF e
  <2> QED
    BY <1>2, <2>1, <2>2, <2>3, <2>4, FavoriPose
<1> QED
  BY <1>3, <1>4 DEF FusionSupprimerFavori

LEMMA FusionDeplacerFavoriType ==
  ASSUME TypeInductif, NEW r \in Requetes, FusionDeplacerFavori(r)
  PROVE  TypeInductif'
<1>1. /\ TablesOK /\ req[r] \in Demandes /\ Conforme(req[r])
      /\ req[r].pc \in FusionFavoris
  BY Courante DEF FusionDeplacerFavori, FusionFavoris
<1>2. UNCHANGED <<session, panier, ligne, pannes>>
  BY DEF FusionDeplacerFavori, temoins
<1> DEFINE e == [req[r] EXCEPT !.pc = "fusionFavoris", !.item = {}]
<1>3. Permise(e)
  BY <1>1, ContinuePermise
<1>4. Continue(r) <=> Etape(r, e)
  BY DEF Continue
<1> HIDE DEF e
<1>5. PICK i \in req[r].item :
        \/ Continue(r) /\ UNCHANGED favori
        \/ Repond(r) /\ UNCHANGED favori
        \/ /\ Tient("session", i) /\ favori.compte[i.p] = 0
           /\ favori' = [favori EXCEPT !.session[i.p] = 0, !.compte[i.p] = i.id]
           /\ Continue(r)
  BY DEF FusionDeplacerFavori
<1>6. CASE Continue(r) /\ UNCHANGED favori
  BY <1>1, <1>2, <1>3, <1>4, <1>6, EtapeSansTable DEF TablesOK, tables
<1>7. CASE Repond(r) /\ UNCHANGED favori
  BY <1>1, <1>2, <1>7, EtapeSansTable, ReponsePermise
  DEF TablesOK, Repond, tables
<1>8. CASE /\ Tient("session", i) /\ favori.compte[i.p] = 0
           /\ favori' = [favori EXCEPT !.session[i.p] = 0, !.compte[i.p] = i.id]
           /\ Continue(r)
  <2>1. i \in Coeurs
    BY <1>1 DEF Conforme
  <2>2. favori' \in [Proprietaires -> [Produits -> {0} \cup Favoris]]
    BY <1>1, <1>8, <2>1 DEF TablesOK, Coeurs, Proprietaires
  <2>3. \A q \in Produits :
          /\ favori'.session[q] = IF q = i.p THEN 0 ELSE favori.session[q]
          /\ favori'.compte[q] = IF q = i.p THEN i.id ELSE favori.compte[q]
    BY <1>1, <1>8, <2>1 DEF TablesOK, Coeurs, Proprietaires
  <2>4. \A q \in Produits :
          favori'.session[q] = favori'.compte[q] => favori'.session[q] = 0
    BY <1>1, <2>3 DEF TablesOK
  <2>5. (\E q \in Produits : favori'.session[q] # 0) => session
    BY <1>1, <2>3 DEF TablesOK
  <2> QED
    BY <1>2, <1>3, <1>4, <1>8, <2>2, <2>4, <2>5, FavorisType
<1> QED
  BY <1>5, <1>6, <1>7, <1>8

LEMMA FusionFavorisFinType ==
  ASSUME TypeInductif, NEW r \in Requetes, FusionFavorisFin(r)
  PROVE  TypeInductif'
<1> DEFINE e == Demande("trouver", req[r].h, req[r].op, req[r].p, req[r].q)
<1>1. TablesOK
  BY TypeEnDeux
<1>2. UNCHANGED tables /\ pannes' = pannes /\ Etape(r, e)
  BY DEF FusionFavorisFin, Fusionnee, temoins
<1>3. Permise(e)
  BY FusionneePermise DEF FusionFavorisFin, FusionFavoris
<1> HIDE DEF e
<1> QED
  BY <1>1, <1>2, <1>3, EtapeSansTable DEF TablesOK

LEMMA FindFavoriType ==
  ASSUME TypeInductif, NEW r \in Requetes, FindFavori(r)
  PROVE  TypeInductif'
<1>1. /\ TablesOK /\ req[r] \in Demandes /\ Conforme(req[r])
      /\ req[r].pc = "trouver" /\ req[r].op \in {"list", "add"}
      /\ req[r].h = "visiteur" => session
  BY Courante DEF FindFavori
<1>2. UNCHANGED tables /\ pannes' = pannes
  BY DEF FindFavori, temoins
<1> DEFINE e == [req[r] EXCEPT !.pc = "creerFavori"]
<1>3. CASE Repond(r)
  BY <1>1, <1>2, <1>3, EtapeSansTable, ReponsePermise DEF TablesOK, Repond
<1>4. CASE req[r].op = "add" /\ Etape(r, e)
  <2>1. e \in Demandes
    BY <1>1 DEF Demandes, PasFavoris
  <2>2. Conforme(e) /\ e.h = req[r].h
    BY <1>1, <1>4
    DEF Conforme, Demandes, PasPanier, PasFavoris, FusionPanier, FusionFavoris,
        FavoriteOps
  <2>3. Permise(e)
    BY <1>1, <2>1, <2>2 DEF Permise
  <2> HIDE DEF e
  <2> QED
    BY <1>1, <1>2, <1>4, <2>3, EtapeSansTable DEF TablesOK
<1> QED
  BY <1>3, <1>4 DEF FindFavori, Va

LEMMA CreateFavoriType ==
  ASSUME TypeInductif, NEW r \in Requetes, CreateFavori(r)
  PROVE  TypeInductif'
<1> DEFINE o == Proprietaire(r)
           p == req[r].p
           retenus == UNION {{i.id : i \in req[s].reste \cup req[s].item} :
               s \in {s \in Requetes : ~Libre(s) /\ req[s].op \in FavoriteOps}}
           pris == {favori[x][p] : x \in Proprietaires} \cup retenus
           id == Nouveau(Favoris, pris)
           v == IF favori[o][p] = 0 THEN id ELSE favori[o][p]
<1>1. /\ TablesOK /\ req[r] \in Demandes /\ Conforme(req[r])
      /\ req[r].pc = "creerFavori"
      /\ req[r].h = "visiteur" => session
  BY Courante DEF CreateFavori
<1>2. o \in Proprietaires /\ p \in Produits /\ (o = "session" => session)
  BY <1>1 DEF Proprietaire, Proprietaires, Conforme, Nommee
<1>3. id \in Favoris /\ \A x \in Proprietaires : favori[x][p] # id
  <2>1. id \in Favoris /\ id \notin pris
    BY NouveauLibre DEF CreateFavori, Favoris
  <2> QED
    BY <2>1
<1>4. /\ UNCHANGED <<session, panier, ligne, pannes>>
      /\ Etape(r, [pc |-> "libre"])
      /\ favori' = [favori EXCEPT ![o][p] = v]
  BY <1>1, <1>2 DEF CreateFavori, Repond, temoins, TablesOK
<1> HIDE DEF id, o, p
<1>5. v \in {0} \cup Favoris
  BY <1>1, <1>2, <1>3 DEF TablesOK
<1>6. v # 0 => /\ \A x \in Proprietaires \ {o} : favori[x][p] # v
               /\ o = "session" => session
  BY <1>1, <1>2, <1>3 DEF TablesOK, Proprietaires
<1> HIDE DEF v
<1> QED
  BY <1>2, <1>4, <1>5, <1>6, FavoriPose, ReponsePermise

LEMMA RemoveFavoriType ==
  ASSUME TypeInductif, NEW r \in Requetes, RemoveFavori(r)
  PROVE  TypeInductif'
<1>1. req[r] \in Demandes /\ Conforme(req[r])
  BY Courante DEF RemoveFavori
<1>2. Proprietaire(r) \in Proprietaires /\ req[r].p \in Produits
  BY <1>1 DEF Proprietaire, Proprietaires, Conforme, Nommee, RemoveFavori
<1>3. /\ UNCHANGED <<session, panier, ligne, pannes>>
      /\ Etape(r, [pc |-> "libre"])
      /\ favori' = [favori EXCEPT ![Proprietaire(r)][req[r].p] = 0]
  BY DEF RemoveFavori, Repond, temoins
<1> QED
  BY <1>2, <1>3, FavoriPose, ReponsePermise

----------------------------------------------------------------------------
LEMMA TypeNext ==
  ASSUME TypeInductif, [Next]_vars
  PROVE  TypeInductif'
<1>1. CASE UNCHANGED vars
  BY <1>1
  DEF vars, temoins, tables, TypeInductif, TypeOK, RequetesOK, Conforme, Libre,
      Lignes, Existe
<1>2. ASSUME NEW r \in Requetes, CartNext(r)
      PROVE  TypeInductif'
  <2>1. ASSUME NEW h \in Entetes, CartRequest(r, h, "getPanier", 0, 0)
        PROVE  TypeInductif'
    BY <2>1, CartRequestType DEF CartOps, Nommee, Quantifiee
  <2>2. ASSUME NEW h \in Entetes, NEW p \in Produits,
               CartRequest(r, h, "removeItem", p, 0)
        PROVE  TypeInductif'
    BY <2>2, CartRequestType DEF CartOps, Nommee, Quantifiee
  <2>3. ASSUME NEW h \in Entetes, NEW op \in {"addItem", "updateItem"},
               NEW p \in Produits, NEW q \in Quantites,
               CartRequest(r, h, op, p, q)
        PROVE  TypeInductif'
    BY <2>3, CartRequestType DEF CartOps, Nommee, Quantifiee
  <2> QED
    BY <1>2, <2>1, <2>2, <2>3, FusionPanierCompteType, FusionTransfererType,
       FusionLigneType, FusionEcrireType, FusionSupprimerType, FindPanierType,
       CreatePanierType, FindItemType, WriteItemType, RemoveItemType
    DEF CartNext
<1>3. ASSUME NEW r \in Requetes, FavoritesNext(r)
      PROVE  TypeInductif'
  <2>1. ASSUME NEW h \in Entetes, FavoriteRequest(r, h, "list", 0)
        PROVE  TypeInductif'
    BY <2>1, FavoriteRequestType DEF FavoriteOps, Nommee, Quantifiee
  <2>2. ASSUME NEW h \in Entetes, NEW op \in {"add", "remove"},
               NEW p \in Produits, FavoriteRequest(r, h, op, p)
        PROVE  TypeInductif'
    BY <2>2, FavoriteRequestType DEF FavoriteOps, Nommee, Quantifiee
  <2> QED
    BY <1>3, <2>1, <2>2, FusionFavoriType, FusionSupprimerFavoriType,
       FusionDeplacerFavoriType, FusionFavorisFinType, FindFavoriType,
       CreateFavoriType, RemoveFavoriType
    DEF FavoritesNext
<1> QED
  BY <1>1, <1>2, <1>3, CreateSessionType, PanneType DEF Next

LEMMA TypeInit == Init => TypeInductif
<1> SUFFICES ASSUME Init PROVE TypeInductif
  OBVIOUS
<1>1. TypeOK
  <2>1. \A k \in Paniers, p \in Produits : Lignes(k, p) = {}
    BY DEF Init, Lignes
  <2>2. pannes \in 0 .. MaxPannes /\ session = FALSE
    BY VisiteAssumption DEF Init
  <2>3. panier \in [Proprietaires -> {0} \cup Paniers] /\ panier.session = 0
    BY DEF Init, Proprietaires
  <2>4. /\ favori \in [Proprietaires -> [Produits -> {0} \cup Favoris]]
        /\ \A p \in Produits : favori.session[p] = 0
    BY DEF Init, Proprietaires
  <2>5. ligne \in [Paniers -> [Produits -> [Copies -> Nat]]]
    BY DEF Init
  <2>6. \A r \in Requetes : req[r] = [pc |-> "libre"]
    BY DEF Init
  <2> QED
    BY <2>1, <2>2, <2>3, <2>4, <2>5, <2>6 DEF TypeOK
<1>2. RequetesOK
  BY DEF Init, RequetesOK, Libre
<1> QED
  BY <1>1, <1>2 DEF TypeInductif

\* The tables keep their types and constraints whatever the requests do: no
\* row without its cart, no cart or favourite with two owners, none of the
\* session without its row (prisma/schema.prisma:244-300).
THEOREM TypeVrai == Spec => []TypeOK
<1>1. Spec => []TypeInductif
  BY TypeInit, TypeNext, PTL DEF Spec
<1>2. TypeInductif => TypeOK
  BY DEF TypeInductif
<1> QED
  BY <1>1, <1>2, PTL

----------------------------------------------------------------------------
(* Sums over the rows of a product.                                        *)

Choisi(s) == CHOOSE x \in s : TRUE
Pas(f, g) ==
  [s \in SUBSET Copies |-> IF s = {} THEN 0
                           ELSE f[Choisi(s)] + g[s \ {Choisi(s)}]]
Accord(f, g, n) ==
  \A s \in SUBSET Copies : Cardinality(s) <= n => g[s] = Pas(f, g)[s]

\* A set of rows that is not empty loses one row when its chosen one goes.
LEMMA MoinsUn ==
  ASSUME NEW s \in SUBSET Copies, s # {}
  PROVE  /\ Choisi(s) \in s /\ s \ {Choisi(s)} \in SUBSET Copies
         /\ Cardinality(s) \in Nat /\ Cardinality(s) # 0
         /\ Cardinality(s \ {Choisi(s)}) = Cardinality(s) - 1
<1>1. IsFiniteSet(Copies)
  BY FS_Interval, 1 \in Int, 4 \in Int DEF Copies
<1>2. IsFiniteSet(s)
  BY <1>1, FS_Subset
<1>3. Choisi(s) \in s
  BY DEF Choisi
<1>4. Cardinality(s) \in Nat /\ Cardinality(s) # 0
  BY <1>2, FS_CardinalityType, FS_EmptySet
<1>5. Cardinality(s \ {Choisi(s)}) = Cardinality(s) - 1
  BY <1>2, <1>3, FS_RemoveElement
<1> QED
  BY <1>3, <1>4, <1>5

\* There are four rows at most.
LEMMA AuPlusQuatre ==
  ASSUME NEW s \in SUBSET Copies
  PROVE  Cardinality(s) \in Nat /\ Cardinality(s) <= 4
<1>1. IsFiniteSet(Copies) /\ Cardinality(Copies) = 4
  <2>1. IsFiniteSet(1 .. 4) /\ Cardinality(1 .. 4) = 4 - 1 + 1
    BY FS_Interval, 1 \in Int, 4 \in Int, ~(1 > 4)
  <2> QED
    BY <2>1 DEF Copies
<1> QED
  BY <1>1, FS_Subset, FS_CardinalityType

\* One step more of the sum agrees with itself on sets of one element more.
LEMMA UnPas ==
  ASSUME NEW f, NEW g, NEW n \in Nat, Accord(f, g, n)
  PROVE  Accord(f, Pas(f, g), n + 1)
<1> SUFFICES ASSUME NEW s \in SUBSET Copies, Cardinality(s) <= n + 1
             PROVE  Pas(f, g)[s] = Pas(f, Pas(f, g))[s]
  BY DEF Accord
<1>1. CASE s = {}
  BY <1>1 DEF Pas
<1>2. CASE s # {}
  <2> DEFINE t == s \ {Choisi(s)}
  <2>1. t \in SUBSET Copies /\ Cardinality(t) <= n
    BY <1>2, MoinsUn
  <2>2. g[t] = Pas(f, g)[t]
    BY <2>1 DEF Accord
  <2>3. Pas(f, g)[s] = f[Choisi(s)] + g[t]
    BY <1>2 DEF Pas
  <2>4. Pas(f, Pas(f, g))[s] = f[Choisi(s)] + Pas(f, g)[t]
    BY <1>2 DEF Pas
  <2> QED
    BY <2>2, <2>3, <2>4
<1> QED
  BY <1>1, <1>2

\* So the function that the sum is defined by exists.
LEMMA CumulExiste ==
  ASSUME NEW f
  PROVE  \E g : g = Pas(f, g)
<1> DEFINE g0 == [s \in SUBSET Copies |-> 0]
           g1 == Pas(f, g0)
           g2 == Pas(f, g1)
           g3 == Pas(f, g2)
           g4 == Pas(f, g3)
<1>0. Accord(f, g0, 0)
  <2> SUFFICES ASSUME NEW s \in SUBSET Copies, Cardinality(s) <= 0
               PROVE  g0[s] = Pas(f, g0)[s]
    BY DEF Accord
  <2>1. s = {}
    <3>1. Cardinality(s) = 0
      BY AuPlusQuatre
    <3> QED
      BY <3>1, MoinsUn
  <2> QED
    BY <2>1 DEF Pas
<1> HIDE DEF g0
<1>1. Accord(f, g1, 0 + 1)
  BY <1>0, UnPas
<1> HIDE DEF g1
<1>2. Accord(f, g2, 1 + 1)
  BY <1>1, UnPas
<1> HIDE DEF g2
<1>3. Accord(f, g3, 2 + 1)
  BY <1>2, UnPas
<1> HIDE DEF g3
<1>4. Accord(f, g4, 3 + 1)
  BY <1>3, UnPas
<1>5. \A s \in SUBSET Copies : g4[s] = Pas(f, g4)[s]
  BY <1>4, AuPlusQuatre DEF Accord
<1>6. g4 = [s \in SUBSET Copies |-> g4[s]]
  BY DEF Pas
<1>7. Pas(f, g4) = [s \in SUBSET Copies |-> Pas(f, g4)[s]]
  BY DEF Pas
<1>8. g4 = Pas(f, g4)
  <2> HIDE DEF g4
  <2> QED
    BY <1>5, <1>6, <1>7
<1> QED
  BY <1>8

\* What a sum is worth: nothing when there is nothing to add, and the one
\* number when all the others are 0.
Vaut(f, g, n) ==
  \A s \in SUBSET Copies : Cardinality(s) <= n =>
    /\ g[s] \in Nat
    /\ g[s] = 0 <=> \A x \in s : f[x] = 0
    /\ \A x \in s : (\A y \in s \ {x} : f[y] = 0) => g[s] = f[x]

LEMMA VautUnPas ==
  ASSUME NEW f \in [Copies -> Nat], NEW g, g = Pas(f, g),
         NEW n \in Nat, Vaut(f, g, n)
  PROVE  Vaut(f, g, n + 1)
<1> SUFFICES ASSUME NEW s \in SUBSET Copies, Cardinality(s) <= n + 1
             PROVE  /\ g[s] \in Nat
                    /\ g[s] = 0 <=> \A x \in s : f[x] = 0
                    /\ \A x \in s : (\A y \in s \ {x} : f[y] = 0) => g[s] = f[x]
  BY DEF Vaut
<1>1. CASE s = {}
  <2>1. g[s] = 0
    BY <1>1 DEF Pas
  <2> QED
    BY <1>1, <2>1
<1>2. CASE s # {}
  <2> DEFINE c == Choisi(s)
             t == s \ {c}
  <2>1. /\ t \in SUBSET Copies /\ Cardinality(t) <= n
        /\ c \in s
    BY <1>2, MoinsUn
  <2>2. /\ g[t] \in Nat
        /\ g[t] = 0 <=> \A x \in t : f[x] = 0
        /\ \A x \in t : (\A y \in t \ {x} : f[y] = 0) => g[t] = f[x]
    BY <2>1 DEF Vaut
  <2>3. g[s] = f[c] + g[t]
    BY <1>2 DEF Pas
  <2>4. f[c] \in Nat
    BY <2>1
  <2> HIDE DEF c
  <2>5. g[s] \in Nat
    BY <2>2, <2>3, <2>4
  <2>6. g[s] = 0 <=> f[c] = 0 /\ g[t] = 0
    BY <2>2, <2>3, <2>4
  <2>7. g[s] = 0 <=> \A x \in s : f[x] = 0
    BY <2>1, <2>2, <2>6
  <2>8. ASSUME NEW x \in s, \A y \in s \ {x} : f[y] = 0
        PROVE  g[s] = f[x]
    <3>1. CASE x = c
      <4>1. g[t] = 0
        BY <2>2, <2>8, <3>1
      <4> QED
        BY <2>3, <2>4, <3>1, <4>1
    <3>2. CASE x # c
      <4>1. f[c] = 0
        BY <2>1, <2>8, <3>2
      <4>2. x \in t /\ \A y \in t \ {x} : f[y] = 0
        BY <2>8, <3>2
      <4>3. g[t] = f[x]
        BY <2>2, <4>2
      <4> QED
        BY <2>3, <4>1, <4>3, f[x] \in Nat
    <3> QED
      BY <3>1, <3>2
  <2> QED
    BY <2>5, <2>7, <2>8
<1> QED
  BY <1>1, <1>2

\* The sum of four numbers.
LEMMA SommeVaut ==
  ASSUME NEW f \in [Copies -> Nat], NEW g, g = Pas(f, g)
  PROVE  /\ g[Copies] \in Nat
         /\ g[Copies] = 0 <=> \A x \in Copies : f[x] = 0
         /\ \A x \in Copies :
              (\A y \in Copies \ {x} : f[y] = 0) => g[Copies] = f[x]
<1>2. Vaut(f, g, 0)
  <2> SUFFICES ASSUME NEW s \in SUBSET Copies, Cardinality(s) <= 0
               PROVE  s = {} /\ g[s] = 0
    BY DEF Vaut
  <2>1. s = {}
    <3>1. Cardinality(s) = 0
      BY AuPlusQuatre
    <3> QED
      BY <3>1, MoinsUn
  <2> QED
    BY <2>1 DEF Pas
<1>3. Vaut(f, g, 0 + 1)
  BY <1>2, VautUnPas
<1>4. Vaut(f, g, 1 + 1)
  BY <1>3, VautUnPas
<1>5. Vaut(f, g, 2 + 1)
  BY <1>4, VautUnPas
<1>6. Vaut(f, g, 3 + 1)
  BY <1>5, VautUnPas
<1> QED
  BY <1>6, AuPlusQuatre DEF Vaut

\* The step of the sum that Total(k, p) is.
Marche(k, p, g) ==
  [s \in SUBSET Copies |->
     IF s = {} THEN 0
     ELSE ligne[k][p][CHOOSE x \in s : TRUE]
            + g[s \ {CHOOSE x \in s : TRUE}]]

\* The total of a product in a cart.
LEMMA TotalVaut ==
  ASSUME ligne \in [Paniers -> [Produits -> [Copies -> Nat]]],
         NEW k \in Paniers, NEW p \in Produits
  PROVE  /\ Total(k, p) \in Nat
         /\ Total(k, p) = 0 <=> Lignes(k, p) = {}
         /\ \A n \in Lignes(k, p) :
              (\A m \in Lignes(k, p) : m = n) => Total(k, p) = ligne[k][p][n]
<1> DEFINE f == [n \in Copies |-> ligne[k][p][n]]
<1>1. k # 0
  BY DEF Paniers
<1>2. ASSUME NEW g
      PROVE  Pas(f, g) = Marche(k, p, g)
  <2>1. ASSUME NEW s \in SUBSET Copies, s # {}
        PROVE  f[Choisi(s)] = ligne[k][p][CHOOSE x \in s : TRUE]
    BY <2>1, MoinsUn DEF Choisi
  <2> DEFINE G == Marche(k, p, g)
  <2>2. ASSUME NEW s \in SUBSET Copies
        PROVE  Pas(f, g)[s] = G[s]
    <3> HIDE DEF f
    <3>1. CASE s = {}
      BY <3>1 DEF Pas, Marche
    <3>2. CASE s # {}
      <4>1. Pas(f, g)[s] = f[Choisi(s)] + g[s \ {Choisi(s)}]
        BY <3>2 DEF Pas
      <4>2. G[s] = ligne[k][p][CHOOSE x \in s : TRUE]
                      + g[s \ {CHOOSE x \in s : TRUE}]
        BY <3>2 DEF Marche
      <4>3. Choisi(s) = CHOOSE x \in s : TRUE
        BY DEF Choisi
      <4> QED
        BY <2>1, <3>2, <4>1, <4>2, <4>3
    <3> QED
      BY <3>1, <3>2
  <2>3. Pas(f, g) = [s \in SUBSET Copies |-> Pas(f, g)[s]]
    <3> HIDE DEF f
    <3> QED
      BY DEF Pas
  <2>4. G = [s \in SUBSET Copies |-> G[s]]
    BY DEF Marche
  <2>5. Pas(f, g) = G
    <3> HIDE DEF f, G
    <3> QED
      BY <2>2, <2>3, <2>4
  <2> QED
    BY <2>5
<1> DEFINE g == CHOOSE h : h = Marche(k, p, h)
<1>3. Total(k, p) = g[Copies]
  BY <1>1 DEF Total, Marche, MapThenSumSet, MapThenFoldSet
<1>4. f \in [Copies -> Nat]
  OBVIOUS
<1>5. \A x \in Copies : f[x] = ligne[k][p][x]
  OBVIOUS
<1> HIDE DEF f
<1>6. \E h : h = Marche(k, p, h)
  BY <1>2, CumulExiste
<1>7. g = Pas(f, g)
  BY <1>2, <1>6
<1> HIDE DEF g
<1>8. /\ g[Copies] \in Nat
      /\ g[Copies] = 0 <=> \A x \in Copies : f[x] = 0
      /\ \A x \in Copies :
           (\A y \in Copies \ {x} : f[y] = 0) => g[Copies] = f[x]
  BY <1>4, <1>7, SommeVaut
<1> QED
  BY <1>3, <1>5, <1>8 DEF Lignes

----------------------------------------------------------------------------
(* Nothing is lost: what a merge still knows of the session's cart and     *)
(* favourites.                                                             *)

\* A removal that runs was asked for since the last rest.
Demandees ==
  \A r \in Requetes :
    ~Libre(r) /\ req[r].op \in {"removeItem", "remove"} =>
      <<req[r].op, req[r].p>> \in retires

\* Beside a request with both headers, only the account's ones run.
Isolees ==
  \A r, s \in Requetes :
    r # s /\ ~Libre(r) /\ ~Libre(s) /\ req[r].h = "deux" => req[s].h = "compte"

Chez(d) == IF d.h = "visiteur" THEN "session" ELSE "compte"

\* A product of the session's cart that the merge has not left behind it is
\* in the account's cart, unless somebody removed it.
Couvert(d, p) ==
  Lignes(d.source, p) # {} =>
    \/ \E i \in d.reste \cup d.item : i.p = p
    \/ panier.compte # 0 /\ Lignes(panier.compte, p) # {}
    \/ <<"removeItem", p>> \in retires

PanierSuivi(d) ==
  /\ d.pc \in FusionPanier => d.source = panier.session
  /\ d.pc \in {"copier", "copierEcrire"} => d.cible = panier.compte
  /\ d.pc \in {"executer", "ecrire"} => d.cible = panier[Chez(d)]
  /\ d.pc \in FusionPanier \ {"transferer"} => \A p \in Produits : Couvert(d, p)

\* The favourites still to merge are the session's, and the one about to be
\* deleted is in the account, unless somebody removed it.
FavorisSuivis(d) ==
  d.pc \in FusionFavoris =>
    /\ \A i \in d.reste \cup d.item : favori.session[i.p] = i.id
    /\ d.item \cap d.reste = {}
    /\ d.pc = "supprimerFavori" =>
         \A i \in d.item :
           favori.compte[i.p] # 0 \/ <<"remove", i.p>> \in retires

Suivie(d) == PanierSuivi(d) /\ FavorisSuivis(d)

Suivies ==
  FusionSeule \/ seul =>
    Isolees /\ \A r \in Requetes : ~Libre(r) => Suivie(req[r])

SuiviInductif == TypeInductif /\ Demandees /\ Suivies

\* The request r goes on, or answers.
Avance(r, e) ==
  \/ e = [pc |-> "libre"]
  \/ e.pc # "libre" /\ e.h = req[r].h /\ e.op = req[r].op /\ e.p = req[r].p

\* What concerns a request that has just started to look for its cart, or for
\* its favourites, is nothing.
LEMMA RienASuivre ==
  ASSUME NEW d, d.pc \notin FusionPanier \cup FusionFavoris,
         d.pc \notin {"executer", "ecrire"}
  PROVE  Suivie(d)
BY DEF Suivie, PanierSuivi, FavorisSuivis, FusionPanier

\* A step of a running request keeps who runs beside whom.
LEMMA AvanceSeule ==
  ASSUME SuiviInductif, NEW r \in Requetes, ~Libre(r), NEW e, Avance(r, e),
         Etape(r, e), retires' = retires
  PROVE  /\ Demandees'
         /\ FusionSeule \/ seul => Isolees'
         /\ \A s \in Requetes \ {r} : req'[s] = req[s]
         /\ req'[r] = e
<1>1. /\ \A s \in Requetes \ {r} : req'[s] = req[s]
      /\ req'[r] = e
  BY DEF SuiviInductif, TypeInductif, RequetesOK, Etape
<1>2. \A s \in Requetes : ~Libre(s)' =>
        ~Libre(s) /\ req'[s].h = req[s].h /\ req'[s].op = req[s].op
          /\ req'[s].p = req[s].p
  BY <1>1 DEF Libre, Avance
<1>3. Demandees'
  BY <1>2 DEF SuiviInductif, Demandees
<1>4. FusionSeule \/ seul => Isolees'
  BY <1>2 DEF SuiviInductif, Suivies, Isolees
<1> QED
  BY <1>1, <1>3, <1>4

\* It keeps the invariant when it keeps what concerns each running request.
LEMMA AvanceSuivie ==
  ASSUME SuiviInductif, TypeInductif', NEW r \in Requetes, ~Libre(r),
         NEW e, Avance(r, e), Etape(r, e), retires' = retires,
         seul' => seul,
         FusionSeule \/ seul =>
           /\ e.pc # "libre" => Suivie(e)'
           /\ \A s \in Requetes \ {r} : ~Libre(s) => Suivie(req[s])'
  PROVE  SuiviInductif'
<1>1. /\ Demandees'
      /\ FusionSeule \/ seul => Isolees'
      /\ \A s \in Requetes \ {r} : req'[s] = req[s]
      /\ req'[r] = e
  BY AvanceSeule
<1>2. ASSUME FusionSeule \/ seul, NEW s \in Requetes, ~Libre(s)'
      PROVE  Suivie(req[s])'
  BY <1>1, <1>2 DEF Libre
<1> QED
  BY <1>1, <1>2 DEF SuiviInductif, Suivies

\* A step that leaves carts, rows and favourites alone.
LEMMA SansTableSuivie ==
  ASSUME SuiviInductif, TypeInductif', NEW r \in Requetes, ~Libre(r),
         NEW e, Avance(r, e), Etape(r, e), retires' = retires,
         seul' => seul, UNCHANGED <<panier, ligne, favori>>,
         e.pc # "libre" /\ (FusionSeule \/ seul) => Suivie(e)
  PROVE  SuiviInductif'
<1>1. ASSUME NEW d
      PROVE  Suivie(d)' <=> Suivie(d)
  BY DEF Suivie, PanierSuivi, FavorisSuivis, Couvert, Lignes, Chez
<1>2. \A s \in Requetes \ {r} : req'[s] = req[s]
  BY AvanceSeule
<1>3. ASSUME FusionSeule \/ seul, NEW s \in Requetes \ {r}, ~Libre(s)
      PROVE  Suivie(req[s])'
  <2>1. PICK d : d = req[s]
    OBVIOUS
  <2>2. Suivie(d)
    BY <1>3, <2>1 DEF SuiviInductif, Suivies
  <2>3. Suivie(d)'
    BY <1>1, <2>2
  <2> QED
    BY <1>2, <2>1, <2>3 DEF Suivie, PanierSuivi, FavorisSuivis, Couvert, Chez
<1> QED
  BY <1>1, <1>3, AvanceSuivie

\* What a running request holds.
LEMMA CouranteSuivie ==
  ASSUME SuiviInductif, NEW r \in Requetes, req[r].pc # "libre"
  PROVE  /\ TypeInductif /\ ~Libre(r) /\ TablesOK
         /\ req[r] \in Demandes /\ Conforme(req[r])
         /\ FusionSeule \/ seul => Suivie(req[r])
BY Courante DEF SuiviInductif, Suivies

\* What UNCHANGED temoins leaves.
LEMMA TemoinsPareils ==
  ASSUME UNCHANGED temoins
  PROVE  retires' = retires /\ seul' = seul /\ voulu' = voulu /\ pannes' = pannes
BY DEF temoins

LEMMA LibreAvance ==
  ASSUME NEW r PROVE Avance(r, [pc |-> "libre"])
BY DEF Avance

LEMMA ReponseSuivie ==
  ASSUME SuiviInductif, TypeInductif', NEW r \in Requetes, ~Libre(r),
         Repond(r), retires' = retires, seul' => seul,
         UNCHANGED <<panier, ligne, favori>>
  PROVE  SuiviInductif'
<1>1. PICK e : e = [pc |-> "libre"]
  OBVIOUS
<1>2. Etape(r, e) /\ Avance(r, e) /\ e.pc = "libre"
  BY <1>1 DEF Repond, Avance
<1> QED
  BY <1>2, SansTableSuivie

LEMMA PanneSuivie ==
  ASSUME SuiviInductif, NEW r \in Requetes, Panne(r)
  PROVE  SuiviInductif'
<1>1. TypeInductif'
  BY PanneType DEF SuiviInductif
<1> QED
  BY <1>1, ReponseSuivie DEF Panne, tables

LEMMA CreateSessionSuivie ==
  ASSUME SuiviInductif, NEW r \in Requetes, CreateSession(r)
  PROVE  SuiviInductif'
<1>1. TypeInductif'
  BY CreateSessionType DEF SuiviInductif
<1>2. /\ ~Libre(r) /\ req[r] \in Demandes /\ req[r].pc = "creerSession"
      /\ retires' = retires /\ seul' = seul /\ UNCHANGED <<panier, ligne, favori>>
  BY CouranteSuivie, TemoinsPareils DEF CreateSession
<1>3. CASE Repond(r)
  BY <1>1, <1>2, <1>3, ReponseSuivie
<1>4. CASE Va(r, "trouver")
  <2>1. PICK e : e = [req[r] EXCEPT !.pc = "trouver"]
    OBVIOUS
  <2>2. Etape(r, e) /\ Avance(r, e) /\ e.pc = "trouver"
    BY <1>2, <1>4, <2>1 DEF Va, Avance, Demandes
  <2>3. Suivie(e)
    BY <2>2, RienASuivre DEF FusionPanier, FusionFavoris
  <2> QED
    BY <1>1, <1>2, <2>2, <2>3, SansTableSuivie
<1> QED
  BY <1>3, <1>4 DEF CreateSession

LEMMA FusionPanierCompteSuivie ==
  ASSUME SuiviInductif, NEW r \in Requetes, FusionPanierCompte(r)
  PROVE  SuiviInductif'
<1>1. TypeInductif'
  BY FusionPanierCompteType DEF SuiviInductif
<1>2. /\ ~Libre(r) /\ req[r] \in Demandes /\ req[r].pc = "panierCompte"
      /\ Conforme(req[r]) /\ (FusionSeule \/ seul => Suivie(req[r]))
      /\ retires' = retires /\ seul' = seul /\ UNCHANGED <<panier, ligne, favori>>
  BY CouranteSuivie, TemoinsPareils DEF FusionPanierCompte, tables
<1>3. PICK e : e = [req[r] EXCEPT
        !.pc = IF panier.compte = 0 THEN "transferer" ELSE "copier",
        !.cible = panier.compte]
  OBVIOUS
<1>4. e.pc \in {"transferer", "copier"} /\ e.h = req[r].h /\ e.op = req[r].op
      /\ e.p = req[r].p /\ e.source = req[r].source /\ e.reste = req[r].reste
      /\ e.item = req[r].item /\ e.cible = panier.compte
  BY <1>2, <1>3 DEF Demandes
<1>5. Etape(r, e) /\ Avance(r, e)
  BY <1>3, <1>4 DEF FusionPanierCompte, Avance
<1>6. FusionSeule \/ seul => Suivie(e)
  BY <1>2, <1>4
  DEF Suivie, PanierSuivi, FavorisSuivis, Couvert, FusionPanier, FusionFavoris
<1> QED
  BY <1>1, <1>2, <1>5, <1>6, SansTableSuivie

LEMMA FusionLigneSuivie ==
  ASSUME SuiviInductif, NEW r \in Requetes, FusionLigne(r)
  PROVE  SuiviInductif'
<1>1. TypeInductif'
  BY FusionLigneType DEF SuiviInductif
<1>2. /\ ~Libre(r) /\ req[r] \in Demandes /\ req[r].pc = "copier"
      /\ Conforme(req[r]) /\ (FusionSeule \/ seul => Suivie(req[r]))
      /\ retires' = retires /\ seul' = seul /\ UNCHANGED <<panier, ligne, favori>>
  BY CouranteSuivie, TemoinsPareils DEF FusionLigne, tables
<1>3. PICK i \in req[r].reste :
        TrouveLigne(r, i.p, [req[r] EXCEPT
          !.pc = "copierEcrire", !.reste = @ \ {i}, !.item = {i}])
  BY DEF FusionLigne
<1>4. PICK e : /\ Etape(r, e)
               /\ e.pc = "copierEcrire" /\ e.h = req[r].h /\ e.op = req[r].op
               /\ e.p = req[r].p /\ e.source = req[r].source
               /\ e.reste = req[r].reste \ {i} /\ e.item = {i}
               /\ e.cible = req[r].cible
  <2>1. PICK f : f = [req[r] EXCEPT
                   !.pc = "copierEcrire", !.reste = @ \ {i}, !.item = {i}]
    OBVIOUS
  <2>2. /\ f.pc = "copierEcrire" /\ f.h = req[r].h /\ f.op = req[r].op
        /\ f.p = req[r].p /\ f.source = req[r].source
        /\ f.reste = req[r].reste \ {i} /\ f.item = {i}
        /\ f.cible = req[r].cible
    BY <1>2, <2>1 DEF Demandes
  <2>3. CASE Etape(r, f)
    BY <2>2, <2>3
  <2>4. CASE \E n \in Lignes(req[r].cible, i.p) :
               Etape(r, [f EXCEPT !.rang = n,
                                  !.vu = ligne[req[r].cible][i.p][n]])
    <3>1. PICK n \in Lignes(req[r].cible, i.p) :
               Etape(r, [f EXCEPT !.rang = n,
                                  !.vu = ligne[req[r].cible][i.p][n]])
      BY <2>4
    <3>2. PICK e : e = [f EXCEPT !.rang = n,
                                 !.vu = ligne[req[r].cible][i.p][n]]
      OBVIOUS
    <3>3. /\ e.pc = f.pc /\ e.h = f.h /\ e.op = f.op /\ e.p = f.p
          /\ e.source = f.source /\ e.reste = f.reste /\ e.item = f.item
          /\ e.cible = f.cible
      BY <1>2, <2>1, <3>2 DEF Demandes
    <3> QED
      BY <2>2, <3>1, <3>2, <3>3
  <2> QED
    BY <1>3, <2>1, <2>3, <2>4 DEF TrouveLigne
<1>5. Avance(r, e)
  BY <1>4 DEF Avance
<1>6. FusionSeule \/ seul => Suivie(e)
  <2> SUFFICES ASSUME FusionSeule \/ seul PROVE Suivie(e)
    OBVIOUS
  <2>1. Suivie(req[r])
    BY <1>2
  <2>2. ASSUME NEW p \in Produits
        PROVE  Couvert(e, p)
    <3>1. Couvert(req[r], p)
      BY <1>2, <2>1 DEF Suivie, PanierSuivi, FusionPanier
    <3>2. req[r].reste \cup req[r].item \subseteq e.reste \cup e.item
      BY <1>2, <1>4 DEF Conforme
    <3> QED
      BY <1>4, <3>1, <3>2 DEF Couvert
  <2> QED
    BY <1>2, <1>4, <2>1, <2>2
    DEF Suivie, PanierSuivi, FavorisSuivis, FusionPanier, FusionFavoris
<1> QED
  BY <1>1, <1>2, <1>4, <1>5, <1>6, SansTableSuivie

LEMMA FindPanierSuivie ==
  ASSUME SuiviInductif, NEW r \in Requetes, FindPanier(r)
  PROVE  SuiviInductif'
<1>1. TypeInductif'
  BY FindPanierType DEF SuiviInductif
<1>2. /\ ~Libre(r) /\ req[r] \in Demandes /\ req[r].pc = "trouver"
      /\ retires' = retires /\ seul' = seul /\ UNCHANGED <<panier, ligne, favori>>
  BY CouranteSuivie, TemoinsPareils DEF FindPanier, tables
<1> DEFINE k == panier[Proprietaire(r)]
<1>3. CASE Repond(r)
  BY <1>1, <1>2, <1>3, ReponseSuivie
<1>4. CASE Etape(r, [req[r] EXCEPT !.pc = "executer", !.cible = k])
  <2>1. PICK e : e = [req[r] EXCEPT !.pc = "executer", !.cible = k]
    OBVIOUS
  <2>2. /\ e.pc = "executer" /\ e.h = req[r].h /\ e.op = req[r].op
        /\ e.p = req[r].p /\ e.cible = k
    BY <1>2, <2>1 DEF Demandes
  <2>3. Suivie(e)
    BY <2>2 DEF Suivie, PanierSuivi, FavorisSuivis, FusionPanier, FusionFavoris,
                Chez, Proprietaire
  <2> QED
    BY <1>1, <1>2, <1>4, <2>1, <2>2, <2>3, SansTableSuivie DEF Avance
<1>5. CASE Va(r, "creerPanier")
  <2>1. PICK e : e = [req[r] EXCEPT !.pc = "creerPanier"]
    OBVIOUS
  <2>2. /\ e.pc = "creerPanier" /\ e.h = req[r].h /\ e.op = req[r].op
        /\ e.p = req[r].p
    BY <1>2, <2>1 DEF Demandes
  <2>3. Suivie(e)
    BY <2>2, RienASuivre DEF FusionPanier, FusionFavoris
  <2> QED
    BY <1>1, <1>2, <1>5, <2>1, <2>2, <2>3, SansTableSuivie DEF Avance, Va
<1> QED
  BY <1>3, <1>4, <1>5 DEF FindPanier, AvecPanier

LEMMA FindItemSuivie ==
  ASSUME SuiviInductif, NEW r \in Requetes, FindItem(r)
  PROVE  SuiviInductif'
<1>1. TypeInductif'
  BY FindItemType DEF SuiviInductif
<1>2. /\ ~Libre(r) /\ req[r] \in Demandes /\ req[r].pc = "executer"
      /\ (FusionSeule \/ seul => Suivie(req[r]))
      /\ retires' = retires /\ seul' = seul /\ UNCHANGED <<panier, ligne, favori>>
  BY CouranteSuivie, TemoinsPareils DEF FindItem, tables
<1>3. CASE Repond(r)
  BY <1>1, <1>2, <1>3, ReponseSuivie
<1>4. CASE TrouveLigne(r, req[r].p, [req[r] EXCEPT !.pc = "ecrire"])
  <2>1. PICK f : f = [req[r] EXCEPT !.pc = "ecrire"]
    OBVIOUS
  <2>2. /\ f.pc = "ecrire" /\ f.h = req[r].h /\ f.op = req[r].op
        /\ f.p = req[r].p /\ f.cible = req[r].cible
    BY <1>2, <2>1 DEF Demandes
  <2>3. PICK e : /\ Etape(r, e)
                 /\ e.pc = f.pc /\ e.h = f.h /\ e.op = f.op /\ e.p = f.p
                 /\ e.cible = f.cible
    <3>1. CASE Etape(r, f)
      BY <3>1
    <3>2. CASE \E n \in Lignes(req[r].cible, req[r].p) :
                 Etape(r, [f EXCEPT !.rang = n,
                                    !.vu = ligne[req[r].cible][req[r].p][n]])
      <4>1. PICK n \in Lignes(req[r].cible, req[r].p) :
                 Etape(r, [f EXCEPT !.rang = n,
                                    !.vu = ligne[req[r].cible][req[r].p][n]])
        BY <3>2
      <4>2. PICK e : e = [f EXCEPT !.rang = n,
                                   !.vu = ligne[req[r].cible][req[r].p][n]]
        OBVIOUS
      <4>3. /\ e.pc = f.pc /\ e.h = f.h /\ e.op = f.op /\ e.p = f.p
            /\ e.cible = f.cible
        BY <1>2, <2>1, <4>2 DEF Demandes
      <4> QED
        BY <4>1, <4>2, <4>3
    <3> QED
      BY <1>4, <2>1, <3>1, <3>2 DEF TrouveLigne
  <2>4. FusionSeule \/ seul => Suivie(e)
    BY <1>2, <2>2, <2>3
    DEF Suivie, PanierSuivi, FavorisSuivis, FusionPanier, FusionFavoris, Chez
  <2> QED
    BY <1>1, <1>2, <2>2, <2>3, <2>4, SansTableSuivie DEF Avance
<1> QED
  BY <1>3, <1>4 DEF FindItem

LEMMA FusionFavoriSuivie ==
  ASSUME SuiviInductif, NEW r \in Requetes, FusionFavori(r)
  PROVE  SuiviInductif'
<1>1. TypeInductif'
  BY FusionFavoriType DEF SuiviInductif
<1>2. /\ ~Libre(r) /\ req[r] \in Demandes /\ req[r].pc = "fusionFavoris"
      /\ Conforme(req[r]) /\ (FusionSeule \/ seul => Suivie(req[r]))
      /\ retires' = retires /\ seul' = seul /\ UNCHANGED <<panier, ligne, favori>>
  BY CouranteSuivie, TemoinsPareils DEF FusionFavori, tables
<1>3. PICK i \in req[r].reste :
        Etape(r, [req[r] EXCEPT
          !.pc = IF favori.compte[i.p] # 0 THEN "supprimerFavori"
                                           ELSE "deplacerFavori",
          !.reste = @ \ {i}, !.item = {i}])
  BY DEF FusionFavori
<1>4. PICK e : e = [req[r] EXCEPT
          !.pc = IF favori.compte[i.p] # 0 THEN "supprimerFavori"
                                           ELSE "deplacerFavori",
          !.reste = @ \ {i}, !.item = {i}]
  OBVIOUS
<1>5. /\ e.pc = (IF favori.compte[i.p] # 0 THEN "supprimerFavori"
                                           ELSE "deplacerFavori")
      /\ e.h = req[r].h /\ e.op = req[r].op
      /\ e.p = req[r].p /\ e.reste = req[r].reste \ {i} /\ e.item = {i}
  BY <1>2, <1>4 DEF Demandes
<1>6. FusionSeule \/ seul => Suivie(e)
  BY <1>2, <1>3, <1>5
  DEF Suivie, PanierSuivi, FavorisSuivis, FusionPanier, FusionFavoris
<1>7. Etape(r, e)
  BY <1>3, <1>4
<1>8. Avance(r, e)
  BY <1>5 DEF Avance
<1> QED
  BY <1>1, <1>2, <1>6, <1>7, <1>8, SansTableSuivie

\* Once its merge is over, nothing concerns the request for a while.
LEMMA FusionneeAvance ==
  ASSUME NEW r, Fusionnee(r)
  PROVE  \E e : Avance(r, e) /\ Etape(r, e) /\ e.pc = "trouver"
BY DEF Avance, Fusionnee, Demande

LEMMA FusionFavorisFinSuivie ==
  ASSUME SuiviInductif, NEW r \in Requetes, FusionFavorisFin(r)
  PROVE  SuiviInductif'
<1>1. TypeInductif'
  BY FusionFavorisFinType DEF SuiviInductif
<1>2. /\ ~Libre(r) /\ retires' = retires /\ seul' = seul
      /\ UNCHANGED <<panier, ligne, favori>>
  BY CouranteSuivie, TemoinsPareils DEF FusionFavorisFin, tables
<1>3. PICK e : Avance(r, e) /\ Etape(r, e) /\ e.pc = "trouver"
  BY FusionneeAvance DEF FusionFavorisFin
<1>4. Suivie(e)
  BY <1>3, RienASuivre DEF FusionPanier, FusionFavoris
<1> QED
  BY <1>1, <1>2, <1>3, <1>4, SansTableSuivie

LEMMA FindFavoriSuivie ==
  ASSUME SuiviInductif, NEW r \in Requetes, FindFavori(r)
  PROVE  SuiviInductif'
<1>1. TypeInductif'
  BY FindFavoriType DEF SuiviInductif
<1>2. /\ ~Libre(r) /\ req[r] \in Demandes
      /\ retires' = retires /\ seul' = seul /\ UNCHANGED <<panier, ligne, favori>>
  BY CouranteSuivie, TemoinsPareils DEF FindFavori, tables
<1>3. CASE Repond(r)
  BY <1>1, <1>2, <1>3, ReponseSuivie
<1>4. CASE Va(r, "creerFavori")
  <2>1. PICK e : e = [req[r] EXCEPT !.pc = "creerFavori"]
    OBVIOUS
  <2>2. /\ e.pc = "creerFavori" /\ e.h = req[r].h /\ e.op = req[r].op
        /\ e.p = req[r].p
    BY <1>2, <2>1 DEF Demandes
  <2>3. Suivie(e)
    BY <2>2, RienASuivre DEF FusionPanier, FusionFavoris
  <2> QED
    BY <1>1, <1>2, <1>4, <2>1, <2>2, <2>3, SansTableSuivie DEF Avance, Va
<1> QED
  BY <1>3, <1>4 DEF FindFavori

----------------------------------------------------------------------------
(* Nothing is lost: the steps that write the carts.                        *)

\* Beside a merge only requests of the account run, which are no merge.
LEMMA ACote ==
  ASSUME SuiviInductif, FusionSeule \/ seul, NEW r \in Requetes, ~Libre(r),
         NEW s \in Requetes \ {r}, ~Libre(s)
  PROVE  /\ req[r].h = "deux" => req[s].h = "compte"
         /\ req[s].pc \in FusionPanier \cup FusionFavoris => req[r].h = "compte"
         /\ req[s].h = "compte" =>
              req[s].pc \notin FusionPanier \cup FusionFavoris
         /\ req[s] \in Demandes /\ Conforme(req[s]) /\ Suivie(req[s])
<1>1. /\ req[s] \in Demandes /\ Conforme(req[s]) /\ Suivie(req[s])
  BY EnCours, TypeEnDeux DEF SuiviInductif, Suivies
<1>2. req[s].pc \in FusionPanier \cup FusionFavoris => req[s].h = "deux"
  BY <1>1 DEF Conforme
<1> QED
  BY <1>1, <1>2 DEF SuiviInductif, Suivies, Isolees

\* The carts of two owners are not the same.
LEMMA DeuxPaniers ==
  ASSUME TablesOK, panier.session \in Paniers \/ panier.compte \in Paniers
  PROVE  panier.session # panier.compte
BY DEF TablesOK, Paniers

\* A step that writes one row, with what was covered before.
LEMMA EcrireSuivie ==
  ASSUME SuiviInductif, TypeInductif', NEW r \in Requetes, ~Libre(r),
         req[r].pc \in {"copierEcrire", "ecrire"}, NEW p \in Produits,
         NEW q \in Nat \ {0}, NEW e, Avance(r, e),
         EcrireLigne(r, p, q, Etape(r, e)),
         UNCHANGED <<panier, favori>>, retires' = retires, seul' = seul,
         e.pc # "libre" =>
           /\ e.pc = "copier" /\ req[r].pc = "copierEcrire"
           /\ e.source = req[r].source /\ e.cible = req[r].cible
           /\ \A i \in req[r].item : i.p = p
           /\ e.reste = req[r].reste
  PROVE  SuiviInductif'
<1>1. /\ TablesOK /\ req[r] \in Demandes /\ Conforme(req[r])
      /\ (FusionSeule \/ seul => Suivie(req[r]))
  BY CouranteSuivie
<1>0. PICK k, n : k = req[r].cible /\ n = req[r].rang
  OBVIOUS
<1> DEFINE pris == Lignes(k, p)
                     \cup {req[s].rang : s \in {s \in Requetes : ~Libre(s)}}
<1>a. PICK id : id = IF n = 0 THEN Nouveau(Copies, pris) ELSE n
  OBVIOUS
<1>2. CASE Repond(r) /\ UNCHANGED ligne
  BY <1>2, ReponseSuivie
<1>3. CASE /\ n = 0 => Libres(Copies, pris) # {}
           /\ ligne' = [ligne EXCEPT ![k][p][id] = q]
           /\ Etape(r, e)
  <2>1. k \in Paniers /\ id \in Copies
    <3>1. k \in Paniers
      BY <1>0, <1>1 DEF Conforme
    <3>2. CASE n = 0
      BY <1>a, <1>3, <3>1, <3>2, NouveauLibre DEF Copies
    <3>3. CASE n # 0
      BY <1>0, <1>a, <1>1, <3>1, <3>3 DEF Demandes
    <3> QED
      BY <3>2, <3>3
  <2>2. ASSUME NEW j \in Paniers, NEW x \in Produits
        PROVE  /\ Lignes(j, x) # {} => Lignes(j, x)' # {}
               /\ j # k => Lignes(j, x)' = Lignes(j, x)
               /\ Lignes(k, p)' # {}
    <3>1. \A m \in Copies :
            ligne'[j][x][m] =
              IF j = k /\ x = p /\ m = id THEN q ELSE ligne[j][x][m]
      BY <1>1, <1>3, <2>1 DEF TablesOK
    <3>2. ligne'[k][p][id] = q
      BY <1>1, <1>3, <2>1 DEF TablesOK
    <3>3. Lignes(j, x)' = {m \in Copies : ligne'[j][x][m] # 0}
      BY DEF Lignes
    <3>4. Lignes(k, p)' # {}
      BY <2>1, <3>2 DEF Lignes
    <3>5. ASSUME Lignes(j, x) # {}
          PROVE  Lignes(j, x)' # {}
      <4>1. PICK m \in Copies : ligne[j][x][m] # 0
        BY <3>5 DEF Lignes
      <4>2. ligne'[j][x][m] # 0
        BY <3>1, <4>1
      <4> QED
        BY <3>3, <4>2
    <3>6. ASSUME j # k
          PROVE  Lignes(j, x)' = Lignes(j, x)
      BY <3>1, <3>3, <3>6 DEF Lignes
    <3> QED
      BY <3>4, <3>5, <3>6
  <2>3. ASSUME FusionSeule \/ seul
        PROVE  k = panier[Proprietaire(r)]
    BY <1>0, <1>1, <2>3
    DEF Suivie, PanierSuivi, Chez, Proprietaire, Conforme, FusionPanier
  <2>4. ASSUME FusionSeule \/ seul, NEW d, d \in Demandes, Conforme(d),
               d.pc \in FusionPanier, req[r].h # "visiteur",
               d.source = panier.session, NEW x \in Produits, Couvert(d, x)
        PROVE  Couvert(d, x)'
    <3>1. k = panier.compte /\ d.source \in Paniers
      BY <2>3, <2>4 DEF Proprietaire, Conforme
    <3>2. d.source # k
      BY <1>1, <2>1, <2>4, <3>1, DeuxPaniers
    <3>3. Lignes(d.source, x)' = Lignes(d.source, x)
      BY <2>2, <3>1, <3>2
    <3>4. Lignes(k, x) # {} => Lignes(k, x)' # {}
      BY <2>1, <2>2
    <3> QED
      BY <2>4, <3>1, <3>3, <3>4 DEF Couvert
  <2>5. ASSUME FusionSeule \/ seul, NEW s \in Requetes \ {r}, ~Libre(s)
        PROVE  Suivie(req[s])'
    <3>1. PICK d : d = req[s]
      OBVIOUS
    <3>2. /\ d \in Demandes /\ Conforme(d) /\ Suivie(d)
          /\ d.pc \in FusionPanier => req[r].h # "visiteur"
      BY <2>5, <3>1, ACote
    <3>3. ASSUME d.pc \in FusionPanier, NEW x \in Produits, Couvert(d, x)
          PROVE  Couvert(d, x)'
      BY <2>4, <2>5, <3>2, <3>3 DEF Suivie, PanierSuivi
    <3>4. Suivie(d)'
      BY <3>2, <3>3 DEF Suivie, PanierSuivi, FavorisSuivis, Chez
    <3>5. req'[s] = d
      BY <1>3, <3>1, AvanceSeule
    <3> QED
      BY <3>4, <3>5 DEF Suivie, PanierSuivi, FavorisSuivis, Couvert, Chez
  <2>6. ASSUME FusionSeule \/ seul, e.pc # "libre"
        PROVE  Suivie(e)'
    <3>1. /\ e.pc = "copier" /\ req[r].pc = "copierEcrire"
          /\ e.source = req[r].source /\ e.cible = req[r].cible
          /\ \A i \in req[r].item : i.p = p
          /\ e.reste = req[r].reste
      BY <2>6
    <3>2. /\ e.source = panier.session /\ e.cible = panier.compte
          /\ e.source \in Paniers
          /\ \A x \in Produits : Couvert(req[r], x)
      BY <1>1, <2>6, <3>1 DEF Suivie, PanierSuivi, FusionPanier, Conforme
    <3>3. e.source # k /\ k = panier.compte
      BY <1>0, <1>1, <3>1, <3>2, DeuxPaniers
    <3>4. ASSUME NEW x \in Produits
          PROVE  Couvert(e, x)'
      <4>1. CASE x = p
        BY <2>1, <2>2, <3>3, <4>1 DEF Couvert, Paniers
      <4>2. CASE x # p
        <5>1. Lignes(e.source, x)' = Lignes(e.source, x)
          BY <2>2, <3>2, <3>3
        <5>2. Lignes(k, x) # {} => Lignes(k, x)' # {}
          BY <2>1, <2>2
        <5>3. \A i \in req[r].reste \cup req[r].item :
                i.p = x => i \in e.reste
          BY <3>1, <4>2
        <5> QED
          BY <3>1, <3>2, <3>3, <5>1, <5>2, <5>3 DEF Couvert
      <4> QED
        BY <4>1, <4>2
    <3> QED
      BY <3>1, <3>2, <3>4
      DEF Suivie, PanierSuivi, FavorisSuivis, FusionPanier, FusionFavoris
  <2> QED
    BY <1>3, <2>5, <2>6, AvanceSuivie
<1> QED
  BY <1>0, <1>a, <1>2, <1>3 DEF EcrireLigne

LEMMA FusionEcrireSuivie ==
  ASSUME SuiviInductif, NEW r \in Requetes, FusionEcrire(r)
  PROVE  SuiviInductif'
<1>1. TypeInductif'
  BY FusionEcrireType DEF SuiviInductif
<1>2. /\ ~Libre(r) /\ req[r] \in Demandes /\ req[r].pc = "copierEcrire"
      /\ Conforme(req[r])
      /\ retires' = retires /\ seul' = seul /\ UNCHANGED <<panier, favori>>
  BY CouranteSuivie, TemoinsPareils DEF FusionEcrire
<1>3. PICK e : e = [req[r] EXCEPT
                      !.pc = "copier", !.item = {}, !.rang = 0, !.vu = 0]
  OBVIOUS
<1>4. PICK i \in req[r].item : EcrireLigne(r, i.p, req[r].vu + i.q, Etape(r, e))
  BY <1>3 DEF FusionEcrire
<1>5. /\ e.pc = "copier" /\ e.h = req[r].h /\ e.op = req[r].op
      /\ e.p = req[r].p /\ e.source = req[r].source /\ e.cible = req[r].cible
      /\ e.reste = req[r].reste
  BY <1>2, <1>3 DEF Demandes
<1>6. i.p \in Produits /\ req[r].vu + i.q \in Nat \ {0}
  <2>1. i \in Articles /\ req[r].vu \in Nat
    BY <1>2, <1>4 DEF Conforme, FusionPanier, Demandes
  <2>2. i.p \in Produits /\ i.q \in Nat \ {0}
    BY <2>1 DEF Articles
  <2> QED
    BY <2>1, <2>2
<1>7. Avance(r, e)
  BY <1>5 DEF Avance
<1>8. \A j \in req[r].item : j.p = i.p
  BY <1>2, <1>4 DEF Conforme
<1> QED
  BY <1>1, <1>2, <1>4, <1>5, <1>6, <1>7, <1>8, EcrireSuivie

LEMMA WriteItemSuivie ==
  ASSUME SuiviInductif, NEW r \in Requetes, WriteItem(r)
  PROVE  SuiviInductif'
<1>1. TypeInductif'
  BY WriteItemType DEF SuiviInductif
<1>2. /\ ~Libre(r) /\ req[r] \in Demandes /\ req[r].pc = "ecrire"
      /\ Conforme(req[r])
      /\ retires' = retires /\ seul' = seul /\ UNCHANGED <<panier, favori>>
  BY CouranteSuivie, TemoinsPareils DEF WriteItem
<1>3. PICK e : e = [pc |-> "libre"]
  OBVIOUS
<1>4. PICK q : q = IF req[r].op = "addItem" THEN req[r].vu + req[r].q
                                            ELSE req[r].q
  OBVIOUS
<1>5. EcrireLigne(r, req[r].p, q, Etape(r, e))
  BY <1>3, <1>4 DEF WriteItem, Repond
<1>6. req[r].p \in Produits /\ q \in Nat \ {0}
  <2>1. /\ req[r].p \in Produits /\ req[r].q \in Quantites
        /\ req[r].vu \in Nat
    BY <1>2 DEF Conforme, Nommee, Quantifiee, Demandes
  <2>2. req[r].q \in Nat \ {0}
    BY <2>1, QuantitesNat
  <2> QED
    BY <1>4, <2>1, <2>2
<1>7. e.pc = "libre" /\ Avance(r, e)
  BY <1>3 DEF Avance
<1> QED
  BY <1>1, <1>2, <1>5, <1>6, <1>7, EcrireSuivie

LEMMA RemoveItemSuivie ==
  ASSUME SuiviInductif, NEW r \in Requetes, RemoveItem(r)
  PROVE  SuiviInductif'
<1>1. TypeInductif'
  BY RemoveItemType DEF SuiviInductif
<1>2. /\ ~Libre(r) /\ req[r] \in Demandes /\ req[r].pc = "executer"
      /\ Conforme(req[r]) /\ req[r].op = "removeItem" /\ TablesOK
      /\ (FusionSeule \/ seul => Suivie(req[r]))
      /\ retires' = retires /\ seul' = seul /\ UNCHANGED <<panier, favori>>
  BY CouranteSuivie, TemoinsPareils DEF RemoveItem
<1>3. PICK e : e = [pc |-> "libre"]
  OBVIOUS
<1>4. PICK k, p : k = req[r].cible /\ p = req[r].p
  OBVIOUS
<1>5. /\ Etape(r, e) /\ Avance(r, e) /\ e.pc = "libre"
      /\ ligne' = [ligne EXCEPT ![k][p] = [n \in Copies |-> 0]]
  BY <1>3, <1>4 DEF RemoveItem, Repond, Avance
<1>6. k \in Paniers /\ p \in Produits /\ <<"removeItem", p>> \in retires
  BY <1>2, <1>4 DEF Conforme, Nommee, SuiviInductif, Demandees
<1>7. ASSUME NEW j \in Paniers, NEW x \in Produits, j # k \/ x # p
      PROVE  Lignes(j, x)' = Lignes(j, x)
  BY <1>2, <1>5, <1>7 DEF TablesOK, Lignes
<1>8. ASSUME FusionSeule \/ seul, NEW s \in Requetes \ {r}, ~Libre(s)
      PROVE  Suivie(req[s])'
  <2>1. PICK d : d = req[s]
    OBVIOUS
  <2>2. /\ d \in Demandes /\ Conforme(d) /\ Suivie(d)
        /\ d.pc \in FusionPanier => req[r].h # "visiteur"
    BY <1>2, <1>8, <2>1, ACote
  <2>3. ASSUME d.pc \in FusionPanier, NEW x \in Produits, Couvert(d, x)
        PROVE  Couvert(d, x)'
    <3>1. d.source = panier.session /\ d.source \in Paniers
      BY <2>2, <2>3 DEF Suivie, PanierSuivi, Conforme
    <3>2. k = panier.compte
      BY <1>2, <1>4, <1>8, <2>2, <2>3 DEF Suivie, PanierSuivi, Chez
    <3>3. d.source # k
      BY <1>2, <3>1, <3>2, DeuxPaniers
    <3>4. Lignes(d.source, x)' = Lignes(d.source, x)
      BY <1>7, <3>1, <3>3
    <3>5. CASE x = p
      BY <1>2, <1>6, <3>5 DEF Couvert
    <3>6. CASE x # p
      <4>1. Lignes(k, x)' = Lignes(k, x)
        BY <1>6, <1>7, <3>6
      <4> QED
        BY <1>2, <2>3, <3>2, <3>4, <4>1 DEF Couvert
    <3> QED
      BY <3>5, <3>6
  <2>4. Suivie(d)'
    BY <1>2, <2>2, <2>3 DEF Suivie, PanierSuivi, FavorisSuivis, Chez
  <2>5. req'[s] = d
    BY <1>2, <1>5, <2>1, AvanceSeule
  <2> QED
    BY <2>4, <2>5 DEF Suivie, PanierSuivi, FavorisSuivis, Couvert, Chez
<1> QED
  BY <1>1, <1>2, <1>5, <1>8, AvanceSuivie

\* A step of a merge that changes carts or favourites: what concerns the
\* requests beside it is the account's cart.
LEMMA FusionSuivie ==
  ASSUME SuiviInductif, TypeInductif', NEW r \in Requetes, ~Libre(r),
         req[r].h = "deux", NEW e, Avance(r, e), Etape(r, e),
         retires' = retires, seul' = seul,
         FusionSeule \/ seul =>
           /\ panier.compte # 0 => panier'.compte = panier.compte
           /\ e.pc # "libre" => Suivie(e)'
  PROVE  SuiviInductif'
<1>1. ASSUME FusionSeule \/ seul, NEW s \in Requetes \ {r}, ~Libre(s)
      PROVE  Suivie(req[s])'
  <2>1. PICK d : d = req[s]
    OBVIOUS
  <2>2. /\ d \in Demandes /\ Conforme(d) /\ Suivie(d) /\ d.h = "compte"
        /\ d.pc \notin FusionPanier \cup FusionFavoris
    BY <1>1, <2>1, ACote
  <2>3. d.pc \in {"executer", "ecrire"} =>
          d.cible = panier.compte /\ d.cible # 0
    BY <2>2 DEF Suivie, PanierSuivi, Chez, Conforme, Paniers
  <2>4. Suivie(d)'
    BY <1>1, <2>2, <2>3 DEF Suivie, PanierSuivi, FavorisSuivis, Chez, FusionPanier
  <2>5. req'[s] = d
    BY <2>1, AvanceSeule
  <2> QED
    BY <2>4, <2>5 DEF Suivie, PanierSuivi, FavorisSuivis, Couvert, Chez
<1> QED
  BY <1>1, AvanceSuivie

LEMMA FusionTransfererSuivie ==
  ASSUME SuiviInductif, NEW r \in Requetes, FusionTransferer(r)
  PROVE  SuiviInductif'
<1>1. TypeInductif'
  BY FusionTransfererType DEF SuiviInductif
<1>2. /\ ~Libre(r) /\ req[r].pc = "transferer" /\ req[r].h = "deux"
      /\ Conforme(req[r]) /\ TablesOK
      /\ (FusionSeule \/ seul => Suivie(req[r]))
      /\ retires' = retires /\ seul' = seul /\ UNCHANGED <<ligne, favori>>
  BY CouranteSuivie, TemoinsPareils DEF FusionTransferer, Conforme, FusionPanier
<1>3. CASE Repond(r) /\ UNCHANGED panier
  BY <1>1, <1>2, <1>3, ReponseSuivie
<1>4. CASE /\ panier.compte \in {0, req[r].source}
           /\ panier' = [session |-> IF panier.session = req[r].source THEN 0
                                     ELSE panier.session,
                         compte |-> req[r].source]
           /\ Fusionnee(r)
  <2>1. PICK e : Avance(r, e) /\ Etape(r, e) /\ e.pc = "trouver"
    BY <1>4, FusionneeAvance
  <2>2. Suivie(e)'
    BY <2>1 DEF Suivie, PanierSuivi, FavorisSuivis, FusionPanier, FusionFavoris
  <2>3. panier.compte # 0 => panier'.compte = panier.compte
    BY <1>4
  <2> QED
    BY <1>1, <1>2, <2>1, <2>2, <2>3, FusionSuivie
<1> QED
  BY <1>3, <1>4 DEF FusionTransferer

LEMMA FusionSupprimerSuivie ==
  ASSUME SuiviInductif, NEW r \in Requetes, FusionSupprimer(r)
  PROVE  SuiviInductif'
<1>1. TypeInductif'
  BY FusionSupprimerType DEF SuiviInductif
<1>2. /\ ~Libre(r) /\ req[r].pc = "copier" /\ req[r].h = "deux"
      /\ Conforme(req[r]) /\ TablesOK
      /\ (FusionSeule \/ seul => Suivie(req[r]))
      /\ retires' = retires /\ seul' = seul /\ UNCHANGED <<favori>>
  BY CouranteSuivie, TemoinsPareils DEF FusionSupprimer, Conforme, FusionPanier
<1>3. CASE Repond(r) /\ UNCHANGED <<panier, ligne>>
  BY <1>1, <1>2, <1>3, ReponseSuivie
<1>4. CASE /\ panier' = [o \in Proprietaires |->
                           IF panier[o] = req[r].source THEN 0 ELSE panier[o]]
           /\ Fusionnee(r)
  <2>1. PICK e : Avance(r, e) /\ Etape(r, e) /\ e.pc = "trouver"
    BY <1>4, FusionneeAvance
  <2>2. Suivie(e)'
    BY <2>1 DEF Suivie, PanierSuivi, FavorisSuivis, FusionPanier, FusionFavoris
  <2>3. FusionSeule \/ seul => panier'.compte = panier.compte
    <3> SUFFICES ASSUME FusionSeule \/ seul
                 PROVE  panier'.compte = panier.compte
      OBVIOUS
    <3>1. req[r].source = panier.session /\ req[r].source \in Paniers
      BY <1>2 DEF Suivie, PanierSuivi, Conforme, FusionPanier
    <3>2. panier.compte # req[r].source
      BY <1>2, <3>1, DeuxPaniers
    <3> QED
      BY <1>4, <3>2 DEF Proprietaires
  <2> QED
    BY <1>1, <1>2, <2>1, <2>2, <2>3, FusionSuivie
<1> QED
  BY <1>3, <1>4 DEF FusionSupprimer, SupprimerPanier

LEMMA CreatePanierSuivie ==
  ASSUME SuiviInductif, NEW r \in Requetes, CreatePanier(r)
  PROVE  SuiviInductif'
<1>1. TypeInductif'
  BY CreatePanierType DEF SuiviInductif
<1>2. /\ ~Libre(r) /\ req[r].pc = "creerPanier" /\ TablesOK
      /\ req[r] \in Demandes /\ Conforme(req[r])
      /\ retires' = retires /\ seul' = seul /\ UNCHANGED <<ligne, favori>>
  BY CouranteSuivie, TemoinsPareils DEF CreatePanier
<1>3. CASE Repond(r) /\ UNCHANGED panier
  BY <1>1, <1>2, <1>3, ReponseSuivie
<1>4. ASSUME NEW k, panier[Proprietaire(r)] = 0,
             panier' = [panier EXCEPT ![Proprietaire(r)] = k],
             AvecPanier(r, k)
      PROVE  SuiviInductif'
  <2>1. PICK o : o = Proprietaire(r)
    OBVIOUS
  <2>2. /\ o \in Proprietaires /\ panier[o] = 0
        /\ panier' = [panier EXCEPT ![o] = k]
        /\ o = Chez(req[r])
    BY <1>4, <2>1 DEF Proprietaire, Proprietaires, Chez
  <2>3. \A x \in Proprietaires : panier'[x] = IF x = o THEN k ELSE panier[x]
    BY <1>2, <2>2 DEF TablesOK
  <2>4. PICK e : /\ Etape(r, e) /\ Avance(r, e)
                 /\ e.pc # "libre" =>
                      e.pc = "executer" /\ e.h = req[r].h /\ e.cible = k
    <3>1. CASE Repond(r)
      <4>1. PICK e : e = [pc |-> "libre"]
        OBVIOUS
      <4> QED
        BY <3>1, <4>1 DEF Repond, Avance
    <3>2. CASE Etape(r, [req[r] EXCEPT !.pc = "executer", !.cible = k])
      <4>1. PICK e : e = [req[r] EXCEPT !.pc = "executer", !.cible = k]
        OBVIOUS
      <4>2. /\ e.pc = "executer" /\ e.h = req[r].h /\ e.op = req[r].op
            /\ e.p = req[r].p /\ e.cible = k
        BY <1>2, <4>1 DEF Demandes
      <4> QED
        BY <3>2, <4>1, <4>2 DEF Avance
    <3> QED
      BY <1>4, <3>1, <3>2 DEF AvecPanier
  <2>5. ASSUME e.pc # "libre"
        PROVE  Suivie(e)'
    BY <2>2, <2>3, <2>4, <2>5
    DEF Suivie, PanierSuivi, FavorisSuivis, FusionPanier, FusionFavoris, Chez
  <2>6. ASSUME FusionSeule \/ seul, NEW s \in Requetes \ {r}, ~Libre(s)
        PROVE  Suivie(req[s])'
    <3>1. PICK d : d = req[s]
      OBVIOUS
    <3>2. /\ d \in Demandes /\ Conforme(d) /\ Suivie(d)
          /\ d.pc \in FusionPanier \cup FusionFavoris => req[r].h = "compte"
      BY <1>2, <2>6, <3>1, ACote
    <3>3. "session" \in Proprietaires /\ "compte" \in Proprietaires
      BY DEF Proprietaires
    <3>4. ASSUME d.pc \in FusionPanier
          PROVE  /\ o = "compte" /\ panier.compte = 0
                 /\ panier'.session = panier.session
                 /\ d.pc \notin {"copier", "copierEcrire"}
      <4>1. o = "compte"
        BY <2>1, <3>2, <3>4 DEF Proprietaire
      <4>2. panier.compte = 0 /\ panier'.session = panier.session
        BY <2>2, <2>3, <3>3, <4>1
      <4>3. d.pc \in {"copier", "copierEcrire"} => panier.compte # 0
        BY <3>2 DEF Suivie, PanierSuivi, Conforme, Paniers
      <4> QED
        BY <4>1, <4>2, <4>3
    <3>5. ASSUME d.pc \in FusionPanier \ {"transferer"}, NEW x \in Produits
          PROVE  Couvert(d, x)'
      <4>1. Couvert(d, x)
        BY <3>2, <3>5 DEF Suivie, PanierSuivi
      <4> QED
        BY <1>2, <3>4, <3>5, <4>1 DEF Couvert, Lignes
    <3>6. d.pc \in {"executer", "ecrire"} => Chez(d) # o
      <4>1. d.pc \in {"executer", "ecrire"} =>
              d.cible = panier[Chez(d)] /\ d.cible # 0
        BY <3>2 DEF Suivie, PanierSuivi, Conforme, Paniers
      <4> QED
        BY <2>2, <4>1
    <3>7. Chez(d) \in Proprietaires /\ Chez(d)' = Chez(d)
      BY DEF Chez, Proprietaires
    <3>8. PanierSuivi(d)'
      BY <2>3, <3>2, <3>4, <3>5, <3>6, <3>7 DEF Suivie, PanierSuivi, FusionPanier
    <3>9. Suivie(d)'
      BY <1>2, <3>2, <3>8 DEF Suivie, FavorisSuivis
    <3>10. req'[s] = d
      BY <1>2, <2>4, <3>1, AvanceSeule
    <3> QED
      BY <3>9, <3>10 DEF Suivie, PanierSuivi, FavorisSuivis, Couvert, Chez
  <2> QED
    BY <1>1, <1>2, <2>4, <2>5, <2>6, AvanceSuivie
<1> QED
  BY <1>3, <1>4 DEF CreatePanier

----------------------------------------------------------------------------
(* Nothing is lost: the steps that write the favourites.                   *)

LEMMA FusionSupprimerFavoriSuivie ==
  ASSUME SuiviInductif, NEW r \in Requetes, FusionSupprimerFavori(r)
  PROVE  SuiviInductif'
<1>1. TypeInductif'
  BY FusionSupprimerFavoriType DEF SuiviInductif
<1>2. /\ ~Libre(r) /\ req[r].pc = "supprimerFavori" /\ req[r].h = "deux"
      /\ Conforme(req[r]) /\ TablesOK /\ req[r] \in Demandes
      /\ (FusionSeule \/ seul => Suivie(req[r]))
      /\ retires' = retires /\ seul' = seul /\ UNCHANGED <<panier, ligne>>
  BY CouranteSuivie, TemoinsPareils
  DEF FusionSupprimerFavori, Conforme, FusionFavoris
<1>3. CASE Repond(r) /\ UNCHANGED favori
  BY <1>1, <1>2, <1>3, ReponseSuivie
<1>4. CASE \E i \in req[r].item, o \in Proprietaires :
             favori' = [favori EXCEPT ![o][i.p] = 0] /\ Continue(r)
  <2>1. PICK i \in req[r].item, o \in Proprietaires :
               favori' = [favori EXCEPT ![o][i.p] = 0] /\ Continue(r)
    BY <1>4
  <2>2. PICK e : e = [req[r] EXCEPT !.pc = "fusionFavoris", !.item = {}]
    OBVIOUS
  <2>3. /\ e.pc = "fusionFavoris" /\ e.h = req[r].h /\ e.op = req[r].op
        /\ e.p = req[r].p /\ e.item = {} /\ e.reste = req[r].reste
    BY <1>2, <2>2 DEF Demandes
  <2>4. Etape(r, e) /\ Avance(r, e)
    BY <2>1, <2>2, <2>3 DEF Continue, Avance
  <2>5. FusionSeule \/ seul => Suivie(e)'
    <3> SUFFICES ASSUME FusionSeule \/ seul PROVE Suivie(e)'
      OBVIOUS
    <3>1. ASSUME NEW j \in e.reste
          PROVE  favori'.session[j.p] = j.id
      <4>1. /\ j \in Coeurs /\ i \in Coeurs /\ j # i
            /\ favori.session[j.p] = j.id /\ favori.session[i.p] = i.id
        BY <1>2, <2>1, <2>3 DEF Suivie, FavorisSuivis, Conforme, FusionFavoris
      <4>2. j.p # i.p
        BY <4>1 DEF Coeurs
      <4> QED
        BY <1>2, <2>1, <4>1, <4>2 DEF TablesOK, Coeurs, Proprietaires
    <3> QED
      BY <2>3, <3>1
      DEF Suivie, PanierSuivi, FavorisSuivis, FusionPanier, FusionFavoris
  <2> QED
    BY <1>1, <1>2, <2>4, <2>5, FusionSuivie
<1> QED
  BY <1>3, <1>4 DEF FusionSupprimerFavori

LEMMA FusionDeplacerFavoriSuivie ==
  ASSUME SuiviInductif, NEW r \in Requetes, FusionDeplacerFavori(r)
  PROVE  SuiviInductif'
<1>1. TypeInductif'
  BY FusionDeplacerFavoriType DEF SuiviInductif
<1>2. /\ ~Libre(r) /\ req[r].pc = "deplacerFavori" /\ req[r].h = "deux"
      /\ Conforme(req[r]) /\ TablesOK /\ req[r] \in Demandes
      /\ (FusionSeule \/ seul => Suivie(req[r]))
      /\ retires' = retires /\ seul' = seul /\ UNCHANGED <<panier, ligne>>
  BY CouranteSuivie, TemoinsPareils
  DEF FusionDeplacerFavori, Conforme, FusionFavoris
<1>3. CASE Repond(r) /\ UNCHANGED favori
  BY <1>1, <1>2, <1>3, ReponseSuivie
<1>4. ASSUME Continue(r), NEW i \in req[r].item,
             \/ UNCHANGED favori
             \/ favori' = [favori EXCEPT !.session[i.p] = 0, !.compte[i.p] = i.id]
      PROVE  SuiviInductif'
  <2>2. PICK e : e = [req[r] EXCEPT !.pc = "fusionFavoris", !.item = {}]
    OBVIOUS
  <2>3. /\ e.pc = "fusionFavoris" /\ e.h = req[r].h /\ e.op = req[r].op
        /\ e.p = req[r].p /\ e.item = {} /\ e.reste = req[r].reste
    BY <1>2, <2>2 DEF Demandes
  <2>4. Etape(r, e) /\ Avance(r, e)
    BY <1>4, <2>2, <2>3 DEF Continue, Avance
  <2>5. FusionSeule \/ seul => Suivie(e)'
    <3> SUFFICES ASSUME FusionSeule \/ seul PROVE Suivie(e)'
      OBVIOUS
    <3>1. ASSUME NEW j \in e.reste
          PROVE  favori'.session[j.p] = j.id
      <4>1. /\ j \in Coeurs /\ i \in Coeurs /\ j # i
            /\ favori.session[j.p] = j.id /\ favori.session[i.p] = i.id
        BY <1>2, <1>4, <2>3 DEF Suivie, FavorisSuivis, Conforme, FusionFavoris
      <4>2. j.p # i.p
        BY <4>1 DEF Coeurs
      <4> QED
        BY <1>2, <1>4, <4>1, <4>2 DEF TablesOK, Coeurs, Proprietaires
    <3> QED
      BY <2>3, <3>1
      DEF Suivie, PanierSuivi, FavorisSuivis, FusionPanier, FusionFavoris
  <2> QED
    BY <1>1, <1>2, <2>4, <2>5, FusionSuivie
<1> QED
  BY <1>3, <1>4 DEF FusionDeplacerFavori

\* A favourite of one product changes, the session's only when no merge runs.
LEMMA FavoriSuivi ==
  ASSUME SuiviInductif, TypeInductif', NEW r \in Requetes, ~Libre(r),
         Repond(r), retires' = retires, seul' = seul,
         UNCHANGED <<panier, ligne>>, NEW p \in Produits, NEW v,
         favori' = [favori EXCEPT ![Proprietaire(r)][p] = v],
         v # 0 \/ <<"remove", p>> \in retires
  PROVE  SuiviInductif'
<1>1. PICK e : e = [pc |-> "libre"]
  OBVIOUS
<1>2. Etape(r, e) /\ Avance(r, e) /\ e.pc = "libre"
  BY <1>1 DEF Repond, Avance
<1>3. TablesOK
  BY TypeEnDeux DEF SuiviInductif
<1>4. ASSUME FusionSeule \/ seul, NEW s \in Requetes \ {r}, ~Libre(s)
      PROVE  Suivie(req[s])'
  <2>1. PICK d : d = req[s]
    OBVIOUS
  <2>2. /\ d \in Demandes /\ Conforme(d) /\ Suivie(d)
        /\ d.pc \in FusionPanier \cup FusionFavoris => req[r].h = "compte"
    BY <1>4, <2>1, ACote
  <2>3. PanierSuivi(d)'
    BY <2>2 DEF Suivie, PanierSuivi, Couvert, Lignes, Chez
  <2>4. ASSUME d.pc \in FusionFavoris
        PROVE  FavorisSuivis(d)'
    <3>1. Proprietaire(r) = "compte"
      BY <2>2, <2>4 DEF Proprietaire
    <3>2. /\ favori'.session = favori.session
          /\ \A x \in Produits :
               favori'.compte[x] = IF x = p THEN v ELSE favori.compte[x]
      BY <1>3, <3>1 DEF TablesOK, Proprietaires
    <3>3. \A i \in d.reste \cup d.item : i.p \in Produits
      BY <2>2, <2>4 DEF Conforme, Coeurs
    <3> QED
      BY <2>2, <3>2, <3>3 DEF Suivie, FavorisSuivis
  <2>5. Suivie(d)'
    BY <2>3, <2>4 DEF Suivie, FavorisSuivis
  <2>6. req'[s] = d
    BY <1>2, <2>1, AvanceSeule
  <2> QED
    BY <2>5, <2>6 DEF Suivie, PanierSuivi, FavorisSuivis, Couvert, Chez
<1> QED
  BY <1>2, <1>4, AvanceSuivie

LEMMA CreateFavoriSuivie ==
  ASSUME SuiviInductif, NEW r \in Requetes, CreateFavori(r)
  PROVE  SuiviInductif'
<1>1. TypeInductif'
  BY CreateFavoriType DEF SuiviInductif
<1>2. /\ ~Libre(r) /\ req[r] \in Demandes /\ Conforme(req[r]) /\ TablesOK
      /\ req[r].pc = "creerFavori"
      /\ retires' = retires /\ seul' = seul /\ UNCHANGED <<panier, ligne>>
  BY CouranteSuivie, TemoinsPareils DEF CreateFavori
<1> DEFINE retenus == UNION {{i.id : i \in req[s].reste \cup req[s].item} :
               s \in {s \in Requetes : ~Libre(s) /\ req[s].op \in FavoriteOps}}
           pris == {favori[x][req[r].p] : x \in Proprietaires} \cup retenus
           id == Nouveau(Favoris, pris)
<1>3. PICK v : v = IF favori[Proprietaire(r)][req[r].p] = 0 THEN id
                   ELSE favori[Proprietaire(r)][req[r].p]
  OBVIOUS
<1>4. Proprietaire(r) \in Proprietaires /\ req[r].p \in Produits
  BY <1>2 DEF Proprietaire, Proprietaires, Conforme, Nommee
<1>5. v # 0
  <2>1. id \in Favoris
    BY NouveauLibre DEF CreateFavori, Favoris
  <2> HIDE DEF id
  <2> QED
    BY <1>3, <2>1 DEF Favoris
<1>6. Repond(r) /\ favori' = [favori EXCEPT ![Proprietaire(r)][req[r].p] = v]
  BY <1>2, <1>3, <1>4 DEF CreateFavori, TablesOK
<1> QED
  BY <1>1, <1>2, <1>4, <1>5, <1>6, FavoriSuivi

LEMMA RemoveFavoriSuivie ==
  ASSUME SuiviInductif, NEW r \in Requetes, RemoveFavori(r)
  PROVE  SuiviInductif'
<1>1. TypeInductif'
  BY RemoveFavoriType DEF SuiviInductif
<1>2. /\ ~Libre(r) /\ Conforme(req[r]) /\ req[r].op = "remove"
      /\ retires' = retires /\ seul' = seul /\ UNCHANGED <<panier, ligne>>
  BY CouranteSuivie, TemoinsPareils DEF RemoveFavori
<1>3. req[r].p \in Produits /\ <<"remove", req[r].p>> \in retires
  BY <1>2 DEF Conforme, Nommee, SuiviInductif, Demandees
<1>4. Repond(r) /\ favori' = [favori EXCEPT ![Proprietaire(r)][req[r].p] = 0]
  BY DEF RemoveFavori
<1> QED
  BY <1>1, <1>2, <1>3, <1>4, FavoriSuivi

----------------------------------------------------------------------------
(* Nothing is lost: requests arrive.                                       *)

\* A request arrives and what concerns it is kept.
LEMMA ArriveSuivie ==
  ASSUME SuiviInductif, TypeInductif', NEW r \in Requetes, NEW h, NEW op, NEW p,
         NEW q, Arrive(r, h, op, p, q), NEW e, Etape(r, e),
         e.h = h, e.op = op, e.p = p, UNCHANGED <<panier, ligne, favori>>,
         Suivie(e)'
  PROVE  SuiviInductif'
<1>1. /\ \A s \in Requetes \ {r} : req'[s] = req[s]
      /\ req'[r] = e
  BY DEF SuiviInductif, TypeInductif, RequetesOK, Etape
<1>2. \A s \in Requetes \ {r} : ~Libre(s) => retires \subseteq retires'
  BY DEF Arrive, AuRepos
<1>3. op \in {"removeItem", "remove"} => <<op, p>> \in retires'
  BY DEF Arrive
<1>4. Demandees'
  <2> SUFFICES ASSUME NEW s \in Requetes, ~Libre(s)',
                      req'[s].op \in {"removeItem", "remove"}
               PROVE  <<req'[s].op, req'[s].p>> \in retires'
    BY DEF Demandees
  <2>1. CASE s = r
    BY <1>1, <1>3, <2>1
  <2>2. CASE s # r
    BY <1>1, <1>2, <2>2 DEF SuiviInductif, Demandees, Libre
  <2> QED
    BY <2>1, <2>2
<1>5. seul' => seul /\ \A s \in Requetes \ {r} : Libre(s)
  BY DEF Arrive, AuRepos
<1>6. FusionSeule \/ seul' => Isolees'
  <2> SUFFICES ASSUME FusionSeule \/ seul', NEW s \in Requetes, NEW t \in Requetes,
                      s # t, ~Libre(s)', ~Libre(t)', req'[s].h = "deux"
               PROVE  req'[t].h = "compte"
    BY DEF Isolees
  <2>1. ASSUME NEW x \in Requetes \ {r}, ~Libre(x)',
               "deux" \in {h, req[x].h}
        PROVE  "compte" \in {h, req[x].h}
    <3>1. ~Libre(x) /\ FusionSeule
      BY <1>1, <1>5, <2>1 DEF Libre
    <3> QED
      BY <2>1, <3>1 DEF Arrive, SansFusion
  <2>2. CASE s = r
    BY <1>1, <2>1, <2>2
  <2>3. CASE t = r
    BY <1>1, <2>1, <2>3
  <2>4. CASE s # r /\ t # r
    BY <1>1, <1>5, <2>4 DEF SuiviInductif, Suivies, Isolees, Libre
  <2> QED
    BY <2>2, <2>3, <2>4
<1>7. ASSUME NEW d, retires \subseteq retires', Suivie(d)
      PROVE  Suivie(d)'
  BY <1>7 DEF Suivie, PanierSuivi, FavorisSuivis, Couvert, Lignes, Chez
<1>8. ASSUME FusionSeule \/ seul', NEW s \in Requetes, ~Libre(s)'
      PROVE  Suivie(req[s])'
  <2>1. CASE s = r
    BY <1>1, <2>1 DEF Suivie, PanierSuivi, FavorisSuivis, Couvert, Chez
  <2>2. CASE s # r
    <3>1. PICK d : d = req[s]
      OBVIOUS
    <3>2. ~Libre(s) /\ req'[s] = d
      BY <1>1, <1>8, <2>2, <3>1 DEF Libre
    <3>3. Suivie(d)
      BY <1>5, <1>8, <3>1, <3>2 DEF SuiviInductif, Suivies
    <3>4. Suivie(d)'
      BY <1>2, <1>7, <2>2, <3>2, <3>3
    <3> QED
      BY <3>2, <3>4 DEF Suivie, PanierSuivi, FavorisSuivis, Couvert, Chez
  <2> QED
    BY <2>1, <2>2
<1> QED
  BY <1>4, <1>6, <1>8 DEF SuiviInductif, Suivies

LEMMA CartRequestSuivie ==
  ASSUME SuiviInductif, TypeInductif', NEW r \in Requetes, NEW h, NEW op,
         NEW p, NEW q, CartRequest(r, h, op, p, q)
  PROVE  SuiviInductif'
<1>1. /\ TablesOK /\ Arrive(r, h, op, p, q)
      /\ UNCHANGED <<panier, ligne, favori>>
  BY TypeEnDeux DEF SuiviInductif, CartRequest, tables
<1>2. CASE h = "deux" /\ panier.session # 0
  <2>1. PICK k : k = panier.session
    OBVIOUS
  <2>2. PICK e : e = [Demande("panierCompte", h, op, p, q) EXCEPT
                        !.source = k, !.reste = Lus(k)]
    OBVIOUS
  <2>3. /\ e.pc = "panierCompte" /\ e.h = h /\ e.op = op /\ e.p = p
        /\ e.source = k /\ e.reste = Lus(k)
    BY <2>2 DEF Demande
  <2>4. Etape(r, e)
    BY <1>2, <2>1, <2>2 DEF CartRequest
  <2>5. k \in Paniers
    BY <1>1, <1>2, <2>1 DEF TablesOK, Proprietaires
  <2>6. ASSUME NEW x \in Produits
        PROVE  Couvert(e, x)'
    <3>1. Lignes(k, x) # {} => \E i \in e.reste : i.p = x
      BY <1>1, <2>3, <2>5, LusType
    <3>2. Lignes(e.source, x)' = Lignes(k, x)
      BY <1>1, <2>3 DEF Lignes
    <3> QED
      BY <3>1, <3>2 DEF Couvert
  <2>7. Suivie(e)'
    BY <1>1, <2>1, <2>3, <2>6
    DEF Suivie, PanierSuivi, FavorisSuivis, FusionPanier, FusionFavoris
  <2> QED
    BY <1>1, <2>3, <2>4, <2>7, ArriveSuivie
<1>3. CASE ~(h = "deux" /\ panier.session # 0)
  <2>1. PICK pc : pc = IF h = "visiteur" /\ ~session THEN "creerSession"
                                                     ELSE "trouver"
    OBVIOUS
  <2>2. PICK e : e = Demande(pc, h, op, p, q)
    OBVIOUS
  <2>3. /\ e.pc \in {"creerSession", "trouver"} /\ e.h = h /\ e.op = op
        /\ e.p = p /\ Etape(r, e)
    BY <1>3, <2>1, <2>2 DEF Demande, CartRequest
  <2>4. Suivie(e)'
    BY <2>3 DEF Suivie, PanierSuivi, FavorisSuivis, FusionPanier, FusionFavoris
  <2> QED
    BY <1>1, <2>3, <2>4, ArriveSuivie
<1> QED
  BY <1>2, <1>3

LEMMA FavoriteRequestSuivie ==
  ASSUME SuiviInductif, TypeInductif', NEW r \in Requetes, NEW h, NEW op,
         NEW p, FavoriteRequest(r, h, op, p)
  PROVE  SuiviInductif'
<1>1. /\ TablesOK /\ Arrive(r, h, op, p, 0)
      /\ UNCHANGED <<panier, ligne, favori>>
  BY TypeEnDeux DEF SuiviInductif, FavoriteRequest, tables
<1>2. PICK pc : pc = IF h = "visiteur" /\ ~session THEN "creerSession"
                     ELSE IF h = "deux" THEN "fusionFavoris" ELSE "trouver"
  OBVIOUS
<1>3. PICK reste : reste = IF h # "deux" THEN {}
                           ELSE {[p |-> x, id |-> favori.session[x]] :
                                   x \in Aimes("session")}
  OBVIOUS
<1>4. PICK e : e = [Demande(pc, h, op, p, 0) EXCEPT !.reste = reste]
  OBVIOUS
<1>5. /\ e.pc = pc /\ e.h = h /\ e.op = op /\ e.p = p
      /\ e.reste = reste /\ e.item = {}
  BY <1>4 DEF Demande
<1>6. Etape(r, e)
  BY <1>2, <1>3, <1>4 DEF FavoriteRequest
<1>7. \A i \in reste : favori.session[i.p] = i.id
  BY <1>3
<1>8. pc \in {"creerSession", "fusionFavoris", "trouver"}
  BY <1>2
<1>9. Suivie(e)'
  BY <1>1, <1>5, <1>7, <1>8
  DEF Suivie, PanierSuivi, FavorisSuivis, FusionPanier, FusionFavoris
<1> QED
  BY <1>1, <1>5, <1>6, <1>9, ArriveSuivie

LEMMA SuiviNext ==
  ASSUME SuiviInductif, [Next]_vars
  PROVE  SuiviInductif'
<1>1. TypeInductif'
  BY TypeNext DEF SuiviInductif
<1>2. CASE UNCHANGED vars
  <2>1. \A d : Suivie(d)' <=> Suivie(d)
    BY <1>2 DEF vars, temoins, tables, Suivie, PanierSuivi, FavorisSuivis,
                Couvert, Lignes, Chez
  <2>2. ASSUME FusionSeule \/ seul, NEW s \in Requetes, ~Libre(s)
        PROVE  Suivie(req[s])'
    <3>1. PICK d : d = req[s]
      OBVIOUS
    <3>2. Suivie(d)' /\ req'[s] = d
      BY <1>2, <2>1, <2>2, <3>1
      DEF SuiviInductif, Suivies, vars
    <3> QED
      BY <3>2 DEF Suivie, PanierSuivi, FavorisSuivis, Couvert, Chez
  <2> QED
    BY <1>1, <1>2, <2>2
    DEF vars, temoins, SuiviInductif, Demandees, Suivies, Isolees, Libre
<1>3. ASSUME NEW r \in Requetes, CartNext(r)
      PROVE  SuiviInductif'
  BY <1>1, <1>3, CartRequestSuivie, FusionPanierCompteSuivie,
     FusionTransfererSuivie, FusionLigneSuivie, FusionEcrireSuivie,
     FusionSupprimerSuivie, FindPanierSuivie, CreatePanierSuivie,
     FindItemSuivie, WriteItemSuivie, RemoveItemSuivie
  DEF CartNext
<1>4. ASSUME NEW r \in Requetes, FavoritesNext(r)
      PROVE  SuiviInductif'
  BY <1>1, <1>4, FavoriteRequestSuivie, FusionFavoriSuivie,
     FusionSupprimerFavoriSuivie, FusionDeplacerFavoriSuivie,
     FusionFavorisFinSuivie, FindFavoriSuivie, CreateFavoriSuivie,
     RemoveFavoriSuivie
  DEF FavoritesNext
<1> QED
  BY <1>2, <1>3, <1>4, CreateSessionSuivie, PanneSuivie DEF Next

LEMMA SuiviInit == Init => SuiviInductif
BY TypeInit DEF Init, SuiviInductif, Demandees, Suivies, Isolees, Libre

LEMMA SuiviToujours == Spec => []SuiviInductif
BY SuiviInit, SuiviNext, PTL DEF Spec

----------------------------------------------------------------------------
(* Nothing is lost: the theorem.                                           *)

\* What the owners' carts and favourites hold, in rows.
EnLignes(p) == \E o \in Proprietaires : panier[o] # 0 /\ Lignes(panier[o], p) # {}
Coeur(p) == \E o \in Proprietaires : favori[o][p] # 0

Contenus ==
  TablesOK => \A p \in Produits : (EnPanier(p) <=> EnLignes(p)) /\ (Aime(p) <=> Coeur(p))

LEMMA ContenusToujours == []Contenus
<1>1. Contenus
  <2> SUFFICES ASSUME TablesOK, NEW p \in Produits
               PROVE  (EnPanier(p) <=> EnLignes(p)) /\ (Aime(p) <=> Coeur(p))
    BY DEF Contenus
  <2>1. ASSUME NEW o \in Proprietaires
        PROVE  Contenu(o)[p] # 0 <=> panier[o] # 0 /\ Lignes(panier[o], p) # {}
    <3>1. Contenu(o)[p] = Total(panier[o], p)
      BY DEF Contenu
    <3>2. CASE panier[o] = 0
      BY <3>1, <3>2 DEF Total
    <3>3. CASE panier[o] # 0
      <4>1. panier[o] \in Paniers
        BY <3>3 DEF TablesOK
      <4>2. Total(panier[o], p) = 0 <=> Lignes(panier[o], p) = {}
        BY <4>1, TotalVaut DEF TablesOK
      <4> QED
        BY <3>1, <3>3, <4>2
    <3> QED
      BY <3>2, <3>3
  <2> QED
    BY <2>1 DEF EnPanier, EnLignes, Aime, Aimes, Coeur
<1> QED
  BY <1>1, PTL

\* A step of a request that loses neither a row nor a favourite.
Garde(p) ==
  /\ EnLignes(p) /\ ~EnLignes(p)' => <<"removeItem", p>> \in retires'
  /\ Coeur(p) /\ ~Coeur(p)' => <<"remove", p>> \in retires'

LEMMA TablesGardees ==
  ASSUME UNCHANGED <<panier, ligne, favori>>, NEW p
  PROVE  Garde(p)
BY DEF Garde, EnLignes, Coeur, Lignes

\* Writing a row loses none.
LEMMA EcrireGarde ==
  ASSUME TypeInductif, NEW r \in Requetes, req[r].cible \in Paniers,
         req[r].pc # "libre", NEW x \in Produits, NEW q \in Nat \ {0},
         \/ UNCHANGED ligne
         \/ \E id : ligne' = [ligne EXCEPT ![req[r].cible][x][id] = q],
         UNCHANGED <<panier, favori>>, NEW p \in Produits
  PROVE  Garde(p)
<1>1. TablesOK
  BY TypeEnDeux
<1>2. CASE UNCHANGED ligne
  BY <1>2, TablesGardees
<1>3. ASSUME NEW id, ligne' = [ligne EXCEPT ![req[r].cible][x][id] = q]
      PROVE  Garde(p)
  <2>1. ASSUME NEW k \in Paniers, Lignes(k, p) # {}
        PROVE  Lignes(k, p)' # {}
    <3>1. PICK n \in Copies : ligne[k][p][n] # 0
      BY <2>1 DEF Lignes
    <3>2. ligne'[k][p][n] # 0
      BY <1>1, <1>3, <3>1 DEF TablesOK
    <3> QED
      BY <3>2 DEF Lignes
  <2>2. ASSUME EnLignes(p)
        PROVE  EnLignes(p)'
    <3>1. PICK o \in Proprietaires : panier[o] # 0 /\ Lignes(panier[o], p) # {}
      BY <2>2 DEF EnLignes
    <3>2. PICK k : k = panier[o]
      OBVIOUS
    <3>3. k \in Paniers
      BY <1>1, <3>1, <3>2 DEF TablesOK
    <3>4. panier'[o] = k /\ k # 0 /\ Lignes(k, p)' # {}
      BY <2>1, <3>1, <3>2, <3>3
    <3> QED
      BY <3>1, <3>4 DEF EnLignes, Lignes
  <2> QED
    BY <2>2 DEF Garde, Coeur
<1> QED
  BY <1>2, <1>3

\* A step that takes a cart from an owner and leaves its rows in the other's.
LEMMA PaniersGardes ==
  ASSUME UNCHANGED favori, NEW p,
         \A o \in Proprietaires : panier[o] # 0 /\ Lignes(panier[o], p) # {} =>
           <<"removeItem", p>> \in retires' \/ EnLignes(p)'
  PROVE  Garde(p)
BY DEF Garde, EnLignes, Coeur

LEMMA CartGarde ==
  ASSUME FusionSeule, SuiviInductif, NEW r \in Requetes, CartNext(r),
         NEW p \in Produits
  PROVE  Garde(p)
<1>0. TypeInductif /\ TablesOK
  BY TypeEnDeux DEF SuiviInductif
<1>1. ASSUME \/ \E h, op, x, q : CartRequest(r, h, op, x, q)
             \/ FusionPanierCompte(r) \/ FusionLigne(r) \/ FindPanier(r)
             \/ FindItem(r)
      PROVE  Garde(p)
  <2>1. UNCHANGED tables
    BY <1>1 DEF CartRequest, FusionPanierCompte, FusionLigne, FindPanier, FindItem
  <2> QED
    BY <2>1, TablesGardees DEF tables
<1>2. CASE FusionEcrire(r)
  <2>1. /\ req[r] \in Demandes /\ Conforme(req[r]) /\ req[r].pc = "copierEcrire"
        /\ UNCHANGED <<panier, favori>>
    BY <1>2, CouranteSuivie DEF FusionEcrire
  <2>2. PICK i \in req[r].item :
          \/ UNCHANGED ligne
          \/ \E id : ligne' = [ligne EXCEPT ![req[r].cible][i.p][id] =
                                 req[r].vu + i.q]
    BY <1>2 DEF FusionEcrire, EcrireLigne
  <2>3. i \in Articles /\ req[r].vu \in Nat /\ req[r].cible \in Paniers
    BY <2>1 DEF Conforme, FusionPanier, Demandes
  <2>4. i.p \in Produits /\ i.q \in Nat \ {0}
    BY <2>3 DEF Articles
  <2>5. req[r].vu + i.q \in Nat \ {0}
    BY <2>3, <2>4
  <2> QED
    BY <1>0, <2>1, <2>2, <2>3, <2>4, <2>5, EcrireGarde
<1>3. CASE WriteItem(r)
  <2>1. /\ req[r] \in Demandes /\ Conforme(req[r]) /\ req[r].pc = "ecrire"
        /\ UNCHANGED <<panier, favori>>
    BY <1>3, CouranteSuivie DEF WriteItem
  <2>2. PICK q : q = IF req[r].op = "addItem" THEN req[r].vu + req[r].q
                                              ELSE req[r].q
    OBVIOUS
  <2>3. \/ UNCHANGED ligne
        \/ \E id : ligne' = [ligne EXCEPT ![req[r].cible][req[r].p][id] = q]
    BY <1>3, <2>2 DEF WriteItem, EcrireLigne
  <2>4. /\ req[r].p \in Produits /\ req[r].q \in Quantites
        /\ req[r].vu \in Nat /\ req[r].cible \in Paniers
    BY <2>1 DEF Conforme, Nommee, Quantifiee, Demandes
  <2>5. req[r].q \in Nat \ {0}
    BY <2>4, QuantitesNat
  <2>6. q \in Nat \ {0}
    BY <2>2, <2>4, <2>5
  <2> QED
    BY <1>0, <2>1, <2>3, <2>4, <2>6, EcrireGarde
<1>4. CASE RemoveItem(r)
  <2>1. /\ req[r] \in Demandes /\ Conforme(req[r]) /\ req[r].op = "removeItem"
        /\ UNCHANGED <<panier, favori>> /\ retires' = retires /\ ~Libre(r)
    BY <1>4, CouranteSuivie, TemoinsPareils DEF RemoveItem
  <2>2. <<"removeItem", req[r].p>> \in retires /\ req[r].p \in Produits
        /\ req[r].cible \in Paniers
    BY <1>4, <2>1 DEF SuiviInductif, Demandees, Conforme, Nommee, RemoveItem
  <2>3. CASE p = req[r].p
    BY <2>1, <2>2, <2>3 DEF Garde, Coeur
  <2>4. CASE p # req[r].p
    <3>1. ASSUME NEW k \in Paniers
          PROVE  Lignes(k, p)' = Lignes(k, p)
      BY <1>0, <1>4, <2>2, <2>4 DEF RemoveItem, Lignes, TablesOK
    <3>2. ASSUME NEW o \in Proprietaires, panier[o] # 0,
                 Lignes(panier[o], p) # {}
          PROVE  EnLignes(p)'
      <4>1. PICK k : k = panier[o]
        OBVIOUS
      <4>2. k \in Paniers
        BY <1>0, <3>2, <4>1 DEF TablesOK
      <4>3. panier'[o] = k /\ k # 0 /\ Lignes(k, p)' # {}
        BY <2>1, <3>1, <3>2, <4>1, <4>2
      <4> QED
        BY <4>3 DEF EnLignes, Lignes
    <3> QED
      BY <2>1, <3>2, PaniersGardes
  <2> QED
    BY <2>3, <2>4
<1>5. CASE CreatePanier(r)
  <2>1. UNCHANGED <<ligne, favori>> /\ TypeInductif'
    BY <1>0, <1>5, CreatePanierType DEF CreatePanier
  <2>2. \A o \in Proprietaires : panier[o] # 0 => panier'[o] = panier[o]
    BY <1>0, <1>5 DEF CreatePanier, TablesOK
  <2>3. ASSUME NEW o \in Proprietaires, panier[o] # 0,
               Lignes(panier[o], p) # {}
        PROVE  EnLignes(p)'
    BY <2>1, <2>2, <2>3 DEF EnLignes, Lignes
  <2> QED
    BY <2>1, <2>3, PaniersGardes
<1>6. CASE FusionTransferer(r)
  <2>1. UNCHANGED <<ligne, favori>> /\ Conforme(req[r])
        /\ req[r].pc = "transferer"
    BY <1>6, CouranteSuivie DEF FusionTransferer
  <2>2. CASE UNCHANGED panier
    BY <2>1, <2>2, TablesGardees
  <2>3. CASE /\ panier.compte \in {0, req[r].source}
             /\ panier' = [session |-> IF panier.session = req[r].source THEN 0
                                       ELSE panier.session,
                           compte |-> req[r].source]
    <3>1. ASSUME NEW o \in Proprietaires, panier[o] # 0
          PROVE  \E x \in Proprietaires : panier'[x] = panier[o]
      BY <2>3, <3>1 DEF Proprietaires
    <3>2. ASSUME NEW o \in Proprietaires, panier[o] # 0,
                 Lignes(panier[o], p) # {}
          PROVE  EnLignes(p)'
      BY <2>1, <3>1, <3>2 DEF EnLignes, Lignes
    <3> QED
      BY <2>1, <3>2, PaniersGardes
  <2> QED
    BY <1>6, <2>2, <2>3 DEF FusionTransferer
<1>7. CASE FusionSupprimer(r)
  <2>1. /\ UNCHANGED favori /\ Conforme(req[r]) /\ req[r].pc = "copier"
        /\ Suivie(req[r]) /\ retires' = retires /\ req[r].reste = {}
    BY <1>7, CouranteSuivie, TemoinsPareils DEF FusionSupprimer
  <2>2. CASE UNCHANGED <<panier, ligne>>
    BY <2>1, <2>2, TablesGardees
  <2>3. CASE /\ panier' = [o \in Proprietaires |->
                             IF panier[o] = req[r].source THEN 0 ELSE panier[o]]
             /\ ligne' = [ligne EXCEPT ![req[r].source] =
                            [x \in Produits |-> [n \in Copies |-> 0]]]
    <3>1. PICK k, m : k = panier.session /\ m = panier.compte
      OBVIOUS
    <3>2. /\ req[r].source = k /\ k \in Paniers /\ m # k
          /\ Couvert(req[r], p) /\ req[r].item = {}
      BY <1>0, <2>1, <3>1, DeuxPaniers
      DEF Suivie, PanierSuivi, Conforme, FusionPanier
    <3>3. m # 0 => m \in Paniers
      BY <1>0, <3>1 DEF TablesOK, Proprietaires
    <3>4. m # 0 => Lignes(m, p)' = Lignes(m, p)
      BY <1>0, <2>3, <3>2, <3>3 DEF TablesOK, Lignes
    <3>5. panier'.compte = m
      BY <2>3, <3>1, <3>2 DEF Proprietaires
    <3>6. m # 0 /\ Lignes(m, p) # {} => EnLignes(p)'
      BY <3>4, <3>5 DEF EnLignes, Proprietaires, Lignes
    <3>7. Lignes(k, p) # {} =>
            (m # 0 /\ Lignes(m, p) # {}) \/ <<"removeItem", p>> \in retires
      BY <2>1, <3>1, <3>2 DEF Couvert
    <3>8. ASSUME NEW o \in Proprietaires, panier[o] # 0,
                 Lignes(panier[o], p) # {}
          PROVE  <<"removeItem", p>> \in retires' \/ EnLignes(p)'
      <4>1. panier[o] = k \/ panier[o] = m
        BY <3>1 DEF Proprietaires
      <4> QED
        BY <2>1, <3>6, <3>7, <3>8, <4>1
    <3> QED
      BY <2>1, <3>8, PaniersGardes
  <2> QED
    BY <1>7, <2>2, <2>3 DEF FusionSupprimer, SupprimerPanier
<1> QED
  BY <1>1, <1>2, <1>3, <1>4, <1>5, <1>6, <1>7 DEF CartNext

LEMMA FavoritesGarde ==
  ASSUME FusionSeule, SuiviInductif, NEW r \in Requetes, FavoritesNext(r),
         NEW p \in Produits
  PROVE  Garde(p)
<1>0. TypeInductif /\ TablesOK
  BY TypeEnDeux DEF SuiviInductif
<1>1. ASSUME \/ \E h, op, x : FavoriteRequest(r, h, op, x)
             \/ FusionFavori(r) \/ FusionFavorisFin(r) \/ FindFavori(r)
      PROVE  Garde(p)
  <2>1. UNCHANGED tables
    BY <1>1 DEF FavoriteRequest, FusionFavori, FusionFavorisFin, FindFavori
  <2> QED
    BY <2>1, TablesGardees DEF tables
<1>2. ASSUME UNCHANGED <<panier, ligne>>,
             Coeur(p) => Coeur(p)' \/ <<"remove", p>> \in retires'
      PROVE  Garde(p)
  BY <1>2 DEF Garde, EnLignes, Lignes
<1>3. CASE FusionSupprimerFavori(r)
  <2>1. /\ UNCHANGED <<panier, ligne>> /\ Conforme(req[r])
        /\ req[r].pc = "supprimerFavori" /\ Suivie(req[r]) /\ retires' = retires
    BY <1>3, CouranteSuivie, TemoinsPareils DEF FusionSupprimerFavori
  <2>2. CASE UNCHANGED favori
    BY <1>2, <2>1, <2>2 DEF Coeur
  <2>3. ASSUME NEW i \in req[r].item, NEW o \in Proprietaires, Tient(o, i),
               favori' = [favori EXCEPT ![o][i.p] = 0]
        PROVE  Garde(p)
    <3>1. /\ i \in Coeurs /\ favori.session[i.p] = i.id
          /\ favori.compte[i.p] # 0 \/ <<"remove", i.p>> \in retires
      BY <2>1 DEF Conforme, Suivie, FavorisSuivis, FusionFavoris
    <3>2. i.p \in Produits /\ i.id # 0
      BY <3>1 DEF Coeurs, Favoris
    <3>3. o = "session"
      BY <1>0, <2>3, <3>1, <3>2 DEF TablesOK, Tient, Proprietaires
    <3>4. \A x \in Proprietaires :
            favori'[x][p] = IF x = o /\ p = i.p THEN 0 ELSE favori[x][p]
      BY <1>0, <2>3, <3>2 DEF TablesOK
    <3>5. Coeur(p) => Coeur(p)' \/ <<"remove", p>> \in retires'
      <4>1. CASE p = i.p
        <5>1. favori'.compte[p] = favori.compte[p]
          BY <3>3, <3>4 DEF Proprietaires
        <5> QED
          BY <2>1, <3>1, <4>1, <5>1 DEF Coeur, Proprietaires
      <4>2. CASE p # i.p
        BY <3>4, <4>2 DEF Coeur
      <4> QED
        BY <4>1, <4>2
    <3> QED
      BY <1>2, <2>1, <3>5
  <2> QED
    BY <1>3, <2>2, <2>3 DEF FusionSupprimerFavori
<1>4. CASE FusionDeplacerFavori(r)
  <2>1. /\ UNCHANGED <<panier, ligne>> /\ Conforme(req[r])
        /\ req[r].pc = "deplacerFavori"
    BY <1>4, CouranteSuivie DEF FusionDeplacerFavori
  <2>2. CASE UNCHANGED favori
    BY <1>2, <2>1, <2>2 DEF Coeur
  <2>3. ASSUME NEW i \in req[r].item,
               favori' = [favori EXCEPT !.session[i.p] = 0, !.compte[i.p] = i.id]
        PROVE  Garde(p)
    <3>1. i \in Coeurs
      BY <2>1 DEF Conforme, FusionFavoris
    <3>2. i.p \in Produits /\ i.id # 0
      BY <3>1 DEF Coeurs, Favoris
    <3>3. /\ favori'.session[p] = IF p = i.p THEN 0 ELSE favori.session[p]
          /\ favori'.compte[p] = IF p = i.p THEN i.id ELSE favori.compte[p]
      BY <1>0, <2>3, <3>2 DEF TablesOK, Proprietaires
    <3>4. Coeur(p) => Coeur(p)'
      BY <3>2, <3>3 DEF Coeur, Proprietaires
    <3> QED
      BY <1>2, <2>1, <3>4
  <2> QED
    BY <1>4, <2>2, <2>3 DEF FusionDeplacerFavori
<1>5. CASE CreateFavori(r)
  <2> DEFINE retenus == UNION {{i.id : i \in req[s].reste \cup req[s].item} :
               s \in {s \in Requetes : ~Libre(s) /\ req[s].op \in FavoriteOps}}
             pris == {favori[x][req[r].p] : x \in Proprietaires} \cup retenus
             id == Nouveau(Favoris, pris)
  <2>1. id \in Favoris
    BY <1>5, NouveauLibre DEF CreateFavori, Favoris
  <2>2. UNCHANGED <<panier, ligne>>
    BY <1>5 DEF CreateFavori
  <2>3. PICK o, x, n : /\ o = Proprietaire(r) /\ x = req[r].p /\ n = id
    OBVIOUS
  <2>4. favori' = [favori EXCEPT ![o][x] = IF @ = 0 THEN n ELSE @]
    BY <1>5, <2>3 DEF CreateFavori
  <2>5. n # 0
    BY <2>1, <2>3 DEF Favoris
  <2>6. ASSUME NEW y \in Proprietaires, favori[y][p] # 0
        PROVE  favori'[y][p] # 0
    BY <1>0, <2>4, <2>5, <2>6 DEF TablesOK
  <2>7. Coeur(p) => Coeur(p)'
    BY <2>6 DEF Coeur
  <2> QED
    BY <1>2, <2>2, <2>7
<1>6. CASE RemoveFavori(r)
  <2>1. /\ UNCHANGED <<panier, ligne>> /\ retires' = retires /\ ~Libre(r)
        /\ Conforme(req[r])
    BY <1>6, CouranteSuivie, TemoinsPareils DEF RemoveFavori
  <2>2. <<"remove", req[r].p>> \in retires
    BY <1>6, <2>1 DEF SuiviInductif, Demandees, RemoveFavori
  <2>3. CASE p = req[r].p
    BY <1>2, <2>1, <2>2, <2>3
  <2>4. CASE p # req[r].p
    <3>1. \A o \in Proprietaires : favori'[o][p] = favori[o][p]
      BY <1>0, <1>6, <2>4 DEF RemoveFavori, TablesOK
    <3> QED
      BY <1>2, <2>1, <3>1 DEF Coeur
  <2> QED
    BY <2>3, <2>4
<1> QED
  BY <1>1, <1>3, <1>4, <1>5, <1>6 DEF FavoritesNext

\* No product leaves the carts or the favourites that nobody asked to remove,
\* when no request of the session runs beside a merge: whatever other requests
\* of the account run, and wherever one dies (cart.service.ts:132, :153,
\* favorites.service.ts:76).
THEOREM RienPerduVrai ==
  ASSUME FusionSeule PROVE Spec => RienPerdu
<1>1. ASSUME SuiviInductif, SuiviInductif', [Next]_vars, Contenus, Contenus'
      PROVE  [\A p \in Produits :
                /\ EnPanier(p) /\ ~EnPanier(p)' => <<"removeItem", p>> \in retires'
                /\ Aime(p) /\ ~Aime(p)' => <<"remove", p>> \in retires']_vars
  <2>1. CASE UNCHANGED vars
    BY <2>1
  <2>2. ASSUME NEW r \in Requetes, CreateSession(r) \/ Panne(r),
               NEW p \in Produits
        PROVE  Garde(p)
    BY <2>2, TablesGardees DEF CreateSession, Panne, tables
  <2>3. ASSUME Next, NEW p \in Produits
        PROVE  Garde(p)
    BY <1>1, <2>2, <2>3, CartGarde, FavoritesGarde DEF Next
  <2>4. TablesOK /\ TablesOK'
    BY <1>1 DEF SuiviInductif, TypeInductif, TypeOK, TablesOK
  <2>5. ASSUME Next, NEW p \in Produits
        PROVE  /\ EnPanier(p) /\ ~EnPanier(p)' => <<"removeItem", p>> \in retires'
               /\ Aime(p) /\ ~Aime(p)' => <<"remove", p>> \in retires'
    <3>1. /\ (EnPanier(p) <=> EnLignes(p)) /\ (Aime(p) <=> Coeur(p))
          /\ (EnPanier(p)' <=> EnLignes(p)') /\ (Aime(p)' <=> Coeur(p)')
      BY <1>1, <2>4 DEF Contenus
    <3> QED
      BY <2>3, <2>5, <3>1 DEF Garde
  <2> QED
    BY <1>1, <2>1, <2>5
<1>2. SuiviInductif /\ SuiviInductif' /\ [Next]_vars /\ Contenus /\ Contenus' =>
        [\A p \in Produits :
           /\ EnPanier(p) /\ ~EnPanier(p)' => <<"removeItem", p>> \in retires'
           /\ Aime(p) /\ ~Aime(p)' => <<"remove", p>> \in retires']_vars
  BY <1>1
<1> QED
  BY <1>2, SuiviToujours, ContenusToujours, PTL DEF Spec, RienPerdu

----------------------------------------------------------------------------
(* A request at a time: what the carts and favourites should hold.         *)

\* A cart has one row of a product.
UneLigne ==
  \A k \in Paniers, p \in Produits : \A m, n \in Lignes(k, p) : m = n

\* Product p is left to merge, in the cart or in the favourites.
AMerger(d, p) == \E i \in d.reste \cup d.item : i.p = p

\* What owner o has for a request: in a merge, what is left of the session's
\* counts as the account's.
DuPanier(d, o, p) ==
  IF d.pc \notin FusionPanier THEN Contenu(o)[p]
  ELSE IF o = "session" THEN 0
  ELSE Contenu("compte")[p]
         + (IF AMerger(d, p) THEN Contenu("session")[p] ELSE 0)

DesFavoris(d, o) ==
  IF d.pc \notin FusionFavoris THEN Aimes(o)
  ELSE IF o = "session" THEN {}
  ELSE Aimes("compte") \cup {i.p : i \in d.reste \cup d.item}

\* What the operation makes of n articles, and of the favourites f, of an owner.
Effet(d, o, p, n) ==
  IF o # Chez(d) \/ p # d.p THEN n
  ELSE CASE d.op = "addItem" -> n + d.q
         [] d.op = "updateItem" -> IF n = 0 THEN 0 ELSE d.q
         [] d.op = "removeItem" -> 0
         [] OTHER -> n

EffetFavoris(d, o, f) ==
  IF o # Chez(d) THEN f
  ELSE CASE d.op = "add" -> f \cup {d.p}
         [] d.op = "remove" -> f \ {d.p}
         [] OTHER -> f

\* The operation is what is missing.
Promis(d) ==
  \A o \in Proprietaires :
    /\ \A p \in Produits :
         voulu.panier[o][p] = Effet(d, o, p, DuPanier(d, o, p))
    /\ voulu.favori[o] = EffetFavoris(d, o, DesFavoris(d, o))

Tenu ==
  \A o \in Proprietaires :
    /\ \A p \in Produits : voulu.panier[o][p] = Contenu(o)[p]
    /\ voulu.favori[o] = Aimes(o)

\* The row of product p that a request found, or did not.
Trouve(d, p) ==
  /\ d.rang = 0 => Lignes(d.cible, p) = {} /\ d.vu = 0
  /\ d.rang # 0 => d.vu # 0 /\ ligne[d.cible][p][d.rang] = d.vu

\* What a request found still holds when it writes.
Constat(d) ==
  /\ d.pc \notin {"ecrire", "copierEcrire"} => d.rang = 0 /\ d.vu = 0
  /\ d.pc = "creerSession" => ~session
  /\ d.pc = "creerPanier" => panier[Chez(d)] = 0
  /\ d.pc = "transferer" => panier.compte = 0
  /\ d.pc = "ecrire" => Trouve(d, d.p)
  /\ d.pc = "ecrire" /\ d.op = "updateItem" => d.rang # 0
  /\ d.pc = "copierEcrire" => \A i \in d.item : Trouve(d, i.p)
  /\ d.pc = "creerFavori" => favori[Chez(d)][d.p] = 0
  /\ d.pc \in {"supprimerFavori", "deplacerFavori"} =>
       \A i \in d.item : d.pc = "supprimerFavori" <=> favori.compte[i.p] # 0

\* What is left to merge was read in the session's cart, and in its favourites.
Reste(d) ==
  /\ d.pc \in FusionPanier =>
       /\ \A i \in d.reste \cup d.item : ligne[d.source][i.p][i.n] = i.q
       /\ d.item \cap d.reste = {}
  /\ d.pc \in {"panierCompte", "transferer"} =>
       \A p \in Produits : Lignes(d.source, p) # {} => AMerger(d, p)
  /\ d.pc \in {"copierEcrire", "supprimerFavori", "deplacerFavori"} =>
       d.item # {}
  /\ d.pc \in FusionFavoris =>
       Aimes("session") = {i.p : i \in d.reste \cup d.item}

Seule(r) == \A s \in Requetes \ {r} : Libre(s)

VouluT == [panier : [Proprietaires -> [Produits -> Nat]],
           favori : [Proprietaires -> SUBSET Produits]]

Fidele ==
  /\ voulu \in VouluT
  /\ seul =>
       /\ UneLigne
       /\ AuRepos => Tenu
       /\ \A r \in Requetes : ~Libre(r) =>
            Seule(r) /\ Constat(req[r]) /\ Reste(req[r]) /\ Promis(req[r])

FideleInductif == SuiviInductif /\ Fidele

\* While a cart has one row of a product, its total is that row's quantity.
Valeurs ==
  TablesOK /\ UneLigne =>
    \A o \in Proprietaires, p \in Produits :
      /\ Contenu(o)[p] \in Nat
      /\ panier[o] = 0 => Contenu(o)[p] = 0
      /\ \A k \in Paniers : panier[o] = k =>
           /\ Lignes(k, p) = {} => Contenu(o)[p] = 0
           /\ \A n \in Copies :
                ligne[k][p][n] # 0 => Contenu(o)[p] = ligne[k][p][n]

LEMMA ValeursToujours == []Valeurs
<1>1. Valeurs
  <2> SUFFICES ASSUME TablesOK, UneLigne, NEW o \in Proprietaires,
                      NEW p \in Produits
               PROVE  /\ Contenu(o)[p] \in Nat
                      /\ panier[o] = 0 => Contenu(o)[p] = 0
                      /\ \A k \in Paniers : panier[o] = k =>
                           /\ Lignes(k, p) = {} => Contenu(o)[p] = 0
                           /\ \A n \in Copies :
                                ligne[k][p][n] # 0 =>
                                  Contenu(o)[p] = ligne[k][p][n]
    BY DEF Valeurs
  <2>1. Contenu(o)[p] = Total(panier[o], p)
    BY DEF Contenu
  <2>2. CASE panier[o] = 0
    <3>1. Contenu(o)[p] = 0 /\ panier[o] \notin Paniers
      BY <2>1, <2>2 DEF Total, Paniers
    <3> QED
      BY <3>1
  <2>3. CASE panier[o] # 0
    <3>1. panier[o] \in Paniers
      BY <2>3 DEF TablesOK
    <3>2. PICK k \in Paniers : k = panier[o]
      BY <3>1
    <3>3. /\ Total(k, p) \in Nat
          /\ Total(k, p) = 0 <=> Lignes(k, p) = {}
          /\ \A n \in Lignes(k, p) :
               (\A m \in Lignes(k, p) : m = n) => Total(k, p) = ligne[k][p][n]
      BY TotalVaut DEF TablesOK
    <3>4. \A n \in Copies : ligne[k][p][n] # 0 =>
            n \in Lignes(k, p) /\ \A m \in Lignes(k, p) : m = n
      BY DEF UneLigne, Lignes
    <3> QED
      BY <2>1, <2>3, <3>2, <3>3, <3>4
  <2> QED
    BY <2>2, <2>3
<1> QED
  BY <1>1, PTL

\* What the steps below start from.
Depart == FideleInductif /\ SuiviInductif' /\ Valeurs /\ Valeurs'

\* A cart that keeps its rows of a product keeps its total, whoever has it.
LEMMA ContenuPareil ==
  ASSUME Depart, seul, UneLigne', NEW o \in Proprietaires,
         NEW x \in Proprietaires, NEW p \in Produits, NEW k \in Paniers,
         panier[o] = k, panier'[x] = k,
         \A n \in Copies : ligne'[k][p][n] = ligne[k][p][n]
  PROVE  Contenu(x)'[p] = Contenu(o)[p]
<1>1. TablesOK /\ TablesOK' /\ UneLigne
  BY DEF Depart, FideleInductif, Fidele, SuiviInductif, TypeInductif, TypeOK,
         TablesOK
<1>2. CASE Lignes(k, p) = {}
  <2>1. Lignes(k, p)' = {}
    BY <1>2 DEF Lignes
  <2> QED
    BY <1>1, <1>2, <2>1 DEF Depart, Valeurs
<1>3. CASE Lignes(k, p) # {}
  <2>1. PICK n \in Copies : ligne[k][p][n] # 0
    BY <1>3 DEF Lignes
  <2>2. Contenu(o)[p] = ligne[k][p][n]
    BY <1>1, <2>1 DEF Depart, Valeurs
  <2>3. Contenu(x)'[p] = ligne'[k][p][n]
    BY <1>1, <2>1 DEF Depart, Valeurs
  <2> QED
    BY <2>2, <2>3
<1> QED
  BY <1>2, <1>3

\* What seul gives at the start of a step of request r.
LEMMA SeulAuDepart ==
  ASSUME Depart
  PROVE  /\ SuiviInductif /\ SuiviInductif' /\ TypeInductif
         /\ TablesOK /\ TablesOK' /\ voulu \in VouluT
         /\ \A o \in Proprietaires : panier[o] \in {0} \cup Paniers
         /\ seul =>
              /\ UneLigne
              /\ \A o \in Proprietaires, p \in Produits : Contenu(o)[p] \in Nat
              /\ \A r \in Requetes : ~Libre(r) =>
                   /\ Seule(r) /\ Constat(req[r]) /\ Reste(req[r])
                   /\ Promis(req[r]) /\ Suivie(req[r])
                   /\ req[r] \in Demandes /\ Conforme(req[r])
<1>1. TablesOK /\ TablesOK' /\ RequetesOK
  BY DEF Depart, FideleInductif, SuiviInductif, TypeInductif, TypeOK, TablesOK
<1>2. \A r \in Requetes : ~Libre(r) => req[r] \in Demandes /\ Conforme(req[r])
  BY <1>1, EnCours
<1>3. seul => \A r \in Requetes : ~Libre(r) => Suivie(req[r])
  BY DEF Depart, FideleInductif, SuiviInductif, Suivies
<1> QED
  BY <1>1, <1>2, <1>3
  DEF Depart, FideleInductif, Fidele, SuiviInductif, TablesOK, Valeurs

\* What an operation makes of a number depends on the request alone.
LEMMA PromisSuivant ==
  ASSUME NEW e
  PROVE  Promis(e)' <=>
           \A o \in Proprietaires :
             /\ \A p \in Produits :
                  voulu'.panier[o][p] = Effet(e, o, p, DuPanier(e, o, p)')
             /\ voulu'.favori[o] = EffetFavoris(e, o, DesFavoris(e, o)')
BY DEF Promis, Effet, EffetFavoris, Chez

LEMMA EffetPareil ==
  ASSUME NEW d, NEW e, e.h = d.h, e.op = d.op, e.p = d.p, e.q = d.q
  PROVE  /\ \A o, p, n : Effet(e, o, p, n) = Effet(d, o, p, n)
         /\ \A o, f : EffetFavoris(e, o, f) = EffetFavoris(d, o, f)
BY DEF Effet, EffetFavoris, Chez

\* A step of the one request that runs.
LEMMA FidelePas ==
  ASSUME Depart, NEW r \in Requetes, ~Libre(r), NEW e, Etape(r, e),
         seul' = seul, voulu' = voulu,
         seul =>
           /\ UneLigne'
           /\ e.pc = "libre" => Tenu'
           /\ e.pc # "libre" => Constat(e)' /\ Reste(e)' /\ Promis(e)'
  PROVE  FideleInductif'
<1>1. /\ \A s \in Requetes \ {r} : req'[s] = req[s]
      /\ req'[r] = e
  BY DEF Depart, FideleInductif, SuiviInductif, TypeInductif, RequetesOK, Etape
<1>2. voulu' \in VouluT
  BY DEF Depart, FideleInductif, Fidele
<1>3. ASSUME seul
      PROVE  \A s \in Requetes \ {r} : Libre(s)'
  BY <1>1, <1>3, SeulAuDepart DEF Seule, Libre
<1>4. ASSUME seul, AuRepos'
      PROVE  Tenu'
  BY <1>1, <1>4 DEF AuRepos, Libre
<1>5. ASSUME seul, NEW s \in Requetes, ~Libre(s)'
      PROVE  Seule(s)' /\ Constat(req[s])' /\ Reste(req[s])' /\ Promis(req[s])'
  <2>1. s = r
    BY <1>3, <1>5
  <2>2. e.pc # "libre" /\ req'[s] = e
    BY <1>1, <1>5, <2>1 DEF Libre
  <2>3. Seule(s)'
    BY <1>3, <1>5, <2>1 DEF Seule
  <2>4. Constat(e)' /\ Reste(e)' /\ Promis(e)'
    BY <1>5, <2>2
  <2>5. Constat(req[s])'
    BY <2>2, <2>4 DEF Constat, Trouve, Chez
  <2>6. Reste(req[s])'
    BY <2>2, <2>4 DEF Reste, AMerger
  <2>7. Promis(req[s])'
    <3>1. /\ \A o \in Proprietaires, p \in Produits :
               DuPanier(req[s], o, p)' = DuPanier(e, o, p)'
          /\ \A o \in Proprietaires : DesFavoris(req[s], o)' = DesFavoris(e, o)'
      BY <2>2 DEF DuPanier, DesFavoris, AMerger
    <3>2. Promis(req[s])' <=>
           \A o \in Proprietaires :
             /\ \A p \in Produits :
                  voulu'.panier[o][p] = Effet(e, o, p, DuPanier(req[s], o, p)')
             /\ voulu'.favori[o] = EffetFavoris(e, o, DesFavoris(req[s], o)')
      BY <2>2 DEF Promis, Effet, EffetFavoris, Chez
    <3> QED
      BY <2>4, <3>1, <3>2, PromisSuivant
  <2> QED
    BY <2>3, <2>5, <2>6, <2>7
<1>6. seul => UneLigne'
  OBVIOUS
<1> QED
  BY <1>2, <1>4, <1>5, <1>6 DEF Depart, FideleInductif, Fidele

\* Tables that stay give the owners what they had.
LEMMA ContenusPareils ==
  ASSUME Depart, seul, UNCHANGED <<panier, ligne>>
  PROVE  /\ UneLigne'
         /\ \A o \in Proprietaires, p \in Produits :
              Contenu(o)'[p] = Contenu(o)[p]
<1>1. UneLigne'
  <2>1. UneLigne
    BY SeulAuDepart
  <2> QED
    BY <2>1 DEF UneLigne, Lignes
<1>2. ASSUME NEW o \in Proprietaires, NEW p \in Produits
      PROVE  Contenu(o)'[p] = Contenu(o)[p]
  <2>1. CASE panier[o] = 0
    BY <1>1, <2>1, SeulAuDepart DEF Depart, Valeurs
  <2>2. CASE panier[o] # 0
    <3>1. PICK k \in Paniers : k = panier[o]
      BY <2>2, SeulAuDepart
    <3> QED
      BY <1>1, <3>1, ContenuPareil
  <2> QED
    BY <2>1, <2>2
<1> QED
  BY <1>1, <1>2

LEMMA FideleSansTable ==
  ASSUME Depart, NEW r \in Requetes, ~Libre(r), NEW e, Etape(r, e),
         seul' = seul, voulu' = voulu, UNCHANGED <<panier, ligne, favori>>,
         seul =>
           /\ e.pc = "libre" => Tenu
           /\ e.pc # "libre" =>
                e.pc # "creerSession" /\ Constat(e) /\ Reste(e) /\ Promis(e)
  PROVE  FideleInductif'
<1> SUFFICES ASSUME seul
             PROVE  /\ UneLigne'
                    /\ e.pc = "libre" => Tenu'
                    /\ e.pc # "libre" => Constat(e)' /\ Reste(e)' /\ Promis(e)'
  BY FidelePas
<1>1. /\ UneLigne'
      /\ \A o \in Proprietaires, p \in Produits : Contenu(o)'[p] = Contenu(o)[p]
  BY ContenusPareils
<1>2. \A o \in Proprietaires : Aimes(o)' = Aimes(o)
  BY DEF Aimes
<1>3. e.pc = "libre" => Tenu'
  BY <1>1, <1>2 DEF Tenu
<1>4. ASSUME e.pc # "libre"
      PROVE  Constat(e)' /\ Reste(e)' /\ Promis(e)'
  <2>0. /\ e.pc # "creerSession" /\ Constat(e) /\ Reste(e) /\ Promis(e)
    BY <1>4
  <2>1. Constat(e)'
    BY <2>0 DEF Constat, Trouve, Lignes, Chez
  <2>2. Reste(e)'
    BY <2>0 DEF Reste, AMerger, Lignes, Aimes
  <2>3. /\ \A o \in Proprietaires, p \in Produits :
             DuPanier(e, o, p)' = DuPanier(e, o, p)
        /\ \A o \in Proprietaires : DesFavoris(e, o)' = DesFavoris(e, o)
    BY <1>1, <1>2 DEF DuPanier, DesFavoris, AMerger, Proprietaires
  <2>4. Promis(e)'
    BY <2>0, <2>3, PromisSuivant DEF Promis
  <2> QED
    BY <2>1, <2>2, <2>4
<1> QED
  BY <1>1, <1>3, <1>4

\* A request that goes on keeps its promise when the owners have the same for
\* it as before.
LEMMA PromisPareil ==
  ASSUME NEW d, NEW e, Promis(d), e.h = d.h, e.op = d.op, e.p = d.p, e.q = d.q,
         \A o \in Proprietaires, p \in Produits :
           DuPanier(e, o, p) = DuPanier(d, o, p),
         \A o \in Proprietaires : DesFavoris(e, o) = DesFavoris(d, o)
  PROVE  Promis(e)
BY EffetPareil DEF Promis

\* The same, after the step.
LEMMA PromisApres ==
  ASSUME NEW d, NEW e, Promis(d), e.h = d.h, e.op = d.op, e.p = d.p, e.q = d.q,
         voulu' = voulu,
         \A o \in Proprietaires, p \in Produits :
           DuPanier(e, o, p)' = DuPanier(d, o, p),
         \A o \in Proprietaires : DesFavoris(e, o)' = DesFavoris(d, o)
  PROVE  Promis(e)'
BY EffetPareil, PromisSuivant DEF Promis

\* Request r runs, with what seul says of it.
LEMMA SeulCourant ==
  ASSUME Depart, NEW r \in Requetes, req[r].pc # "libre", NEW d, d = req[r]
  PROVE  /\ ~Libre(r) /\ TablesOK /\ TablesOK' /\ d \in Demandes /\ Conforme(d)
         /\ seul =>
              /\ UneLigne /\ Constat(d) /\ Reste(d) /\ Promis(d) /\ Suivie(d)
              /\ \A o \in Proprietaires, p \in Produits : Contenu(o)[p] \in Nat
<1>1. ~Libre(r) /\ req[r] \in Demandes /\ Conforme(req[r])
  BY SeulAuDepart, Courante
<1>2. seul => Constat(req[r]) /\ Reste(req[r]) /\ Promis(req[r]) /\ Suivie(req[r])
  BY <1>1, SeulAuDepart
<1> QED
  BY <1>1, <1>2, SeulAuDepart

\* A request that is in no merge sees the owners as they are.
LEMMA HorsFusion ==
  ASSUME NEW d, d.pc \notin FusionPanier \cup FusionFavoris
  PROVE  /\ \A o, p : DuPanier(d, o, p) = Contenu(o)[p]
         /\ \A o : DesFavoris(d, o) = Aimes(o)
         /\ d.pc \notin {"copierEcrire", "supprimerFavori", "deplacerFavori"}
         /\ Reste(d)
BY DEF DuPanier, DesFavoris, Reste, FusionPanier, FusionFavoris

\* An operation that changes nothing keeps its promise by answering.
LEMMA SansEffet ==
  ASSUME NEW d, Promis(d), d.pc \notin FusionPanier \cup FusionFavoris,
         \A p \in Produits : Effet(d, Chez(d), p, Contenu(Chez(d))[p])
                               = Contenu(Chez(d))[p],
         EffetFavoris(d, Chez(d), Aimes(Chez(d))) = Aimes(Chez(d))
  PROVE  Tenu
<1>1. \A o \in Proprietaires : o # Chez(d) =>
        /\ \A p \in Produits : Effet(d, o, p, Contenu(o)[p]) = Contenu(o)[p]
        /\ EffetFavoris(d, o, Aimes(o)) = Aimes(o)
  BY DEF Effet, EffetFavoris
<1> QED
  BY <1>1, HorsFusion DEF Promis, Tenu

\* A request outside a merge goes on with another step.
LEMMA PlusLoin ==
  ASSUME NEW d, Promis(d), NEW e,
         d.pc \notin FusionPanier \cup FusionFavoris,
         e.pc \notin FusionPanier \cup FusionFavoris,
         e.h = d.h, e.op = d.op, e.p = d.p, e.q = d.q
  PROVE  Promis(e) /\ Reste(e)
<1>1. Promis(e)
  BY HorsFusion, PromisPareil
<1> QED
  BY <1>1, HorsFusion

LEMMA CreateSessionFidele ==
  ASSUME Depart, NEW r \in Requetes, CreateSession(r)
  PROVE  FideleInductif'
<1>1. PICK d : d = req[r]
  OBVIOUS
<1>2. /\ d.pc = "creerSession" /\ d \in Demandes /\ ~Libre(r)
      /\ seul => Constat(d) /\ Promis(d)
      /\ seul' = seul /\ voulu' = voulu /\ UNCHANGED <<panier, ligne, favori>>
  BY <1>1, SeulCourant, TemoinsPareils DEF CreateSession
<1>3. PICK e : e = IF session THEN [pc |-> "libre"]
                              ELSE [d EXCEPT !.pc = "trouver"]
  OBVIOUS
<1>4. Etape(r, e)
  BY <1>1, <1>3 DEF CreateSession, Repond, Va
<1>5. ASSUME seul
      PROVE  e.pc = "trouver" /\ Constat(e) /\ Reste(e) /\ Promis(e)
  <2>1. ~session /\ d.rang = 0 /\ d.vu = 0
    BY <1>2, <1>5 DEF Constat
  <2>2. /\ e.pc = "trouver" /\ e.h = d.h /\ e.op = d.op /\ e.p = d.p /\ e.q = d.q
        /\ e.rang = 0 /\ e.vu = 0
    BY <1>2, <1>3, <2>1 DEF Demandes
  <2>3. Promis(e) /\ Reste(e)
    BY <1>2, <1>5, <2>2, PlusLoin DEF FusionPanier, FusionFavoris
  <2>4. Constat(e)
    BY <2>2 DEF Constat
  <2> QED
    BY <2>2, <2>3, <2>4
<1> QED
  BY <1>2, <1>4, <1>5, FideleSansTable

LEMMA PanneFidele ==
  ASSUME Depart, NEW r \in Requetes, Panne(r)
  PROVE  FideleInductif'
<1>1. voulu' \in VouluT /\ ~seul'
  BY DEF Panne, RienVoulu, VouluT
<1> QED
  BY <1>1 DEF Depart, FideleInductif, Fidele

LEMMA FusionPanierCompteFidele ==
  ASSUME Depart, NEW r \in Requetes, FusionPanierCompte(r)
  PROVE  FideleInductif'
<1>1. PICK d : d = req[r]
  OBVIOUS
<1>2. /\ d.pc = "panierCompte" /\ d \in Demandes /\ Conforme(d) /\ ~Libre(r)
      /\ seul => Constat(d) /\ Reste(d) /\ Promis(d)
      /\ seul' = seul /\ voulu' = voulu /\ UNCHANGED <<panier, ligne, favori>>
  BY <1>1, SeulCourant, TemoinsPareils DEF FusionPanierCompte, tables
<1>3. PICK e : e = [d EXCEPT
        !.pc = IF panier.compte = 0 THEN "transferer" ELSE "copier",
        !.cible = panier.compte]
  OBVIOUS
<1>4. Etape(r, e)
  BY <1>1, <1>3 DEF FusionPanierCompte
<1>5. /\ e.pc = IF panier.compte = 0 THEN "transferer" ELSE "copier"
      /\ e.h = d.h /\ e.op = d.op /\ e.p = d.p /\ e.q = d.q
      /\ e.source = d.source /\ e.reste = d.reste /\ e.item = d.item
      /\ e.rang = d.rang /\ e.vu = d.vu
  BY <1>2, <1>3 DEF Demandes
<1>6. e.pc \in {"transferer", "copier"}
  BY <1>5
<1>7. ASSUME seul
      PROVE  Constat(e) /\ Reste(e) /\ Promis(e)
  <2>1. Constat(e)
    BY <1>2, <1>5, <1>6, <1>7 DEF Constat
  <2>2. Reste(e)
    BY <1>2, <1>5, <1>6, <1>7 DEF Reste, AMerger, FusionPanier, FusionFavoris
  <2>3. /\ \A o \in Proprietaires, p \in Produits :
             DuPanier(e, o, p) = DuPanier(d, o, p)
        /\ \A o \in Proprietaires : DesFavoris(e, o) = DesFavoris(d, o)
    BY <1>2, <1>5, <1>6
    DEF DuPanier, DesFavoris, AMerger, FusionPanier, FusionFavoris
  <2>4. Promis(e)
    BY <1>2, <1>5, <1>7, <2>3, PromisPareil
  <2> QED
    BY <2>1, <2>2, <2>4
<1> QED
  BY <1>2, <1>4, <1>6, <1>7, FideleSansTable

LEMMA FusionLigneFidele ==
  ASSUME Depart, NEW r \in Requetes, FusionLigne(r)
  PROVE  FideleInductif'
<1>1. PICK d : d = req[r]
  OBVIOUS
<1>2. /\ d.pc = "copier" /\ d \in Demandes /\ Conforme(d) /\ ~Libre(r)
      /\ seul => Constat(d) /\ Reste(d) /\ Promis(d)
      /\ seul' = seul /\ voulu' = voulu /\ UNCHANGED <<panier, ligne, favori>>
  BY <1>1, SeulCourant, TemoinsPareils DEF FusionLigne, tables
<1>3. PICK i \in d.reste :
        TrouveLigne(r, i.p, [req[r] EXCEPT
          !.pc = "copierEcrire", !.reste = @ \ {i}, !.item = {i}])
  BY <1>1 DEF FusionLigne
<1>4. PICK f : f = [d EXCEPT
                 !.pc = "copierEcrire", !.reste = @ \ {i}, !.item = {i}]
  OBVIOUS
<1>5. PICK e : /\ Etape(r, e)
               /\ e.pc = "copierEcrire" /\ e.h = d.h /\ e.op = d.op
               /\ e.p = d.p /\ e.q = d.q /\ e.source = d.source
               /\ e.cible = d.cible /\ e.reste = d.reste \ {i} /\ e.item = {i}
               /\ \/ /\ Lignes(d.cible, i.p) = {}
                     /\ e.rang = d.rang /\ e.vu = d.vu
                  \/ \E n \in Lignes(d.cible, i.p) :
                       e.rang = n /\ e.vu = ligne[d.cible][i.p][n]
  <2>1. /\ f.pc = "copierEcrire" /\ f.h = d.h /\ f.op = d.op
        /\ f.p = d.p /\ f.q = d.q /\ f.source = d.source /\ f.cible = d.cible
        /\ f.reste = d.reste \ {i} /\ f.item = {i}
        /\ f.rang = d.rang /\ f.vu = d.vu
    BY <1>2, <1>4 DEF Demandes
  <2>2. CASE Lignes(d.cible, i.p) = {} /\ Etape(r, f)
    BY <2>1, <2>2
  <2>3. ASSUME NEW n \in Lignes(d.cible, i.p),
               Etape(r, [f EXCEPT !.rang = n, !.vu = ligne[d.cible][i.p][n]])
        PROVE  \E e :
               /\ Etape(r, e)
               /\ e.pc = "copierEcrire" /\ e.h = d.h /\ e.op = d.op
               /\ e.p = d.p /\ e.q = d.q /\ e.source = d.source
               /\ e.cible = d.cible /\ e.reste = d.reste \ {i} /\ e.item = {i}
               /\ e.rang = n /\ e.vu = ligne[d.cible][i.p][n]
    <3>1. PICK e : e = [f EXCEPT !.rang = n, !.vu = ligne[d.cible][i.p][n]]
      OBVIOUS
    <3>2. /\ e.pc = f.pc /\ e.h = f.h /\ e.op = f.op /\ e.p = f.p /\ e.q = f.q
          /\ e.source = f.source /\ e.cible = f.cible /\ e.reste = f.reste
          /\ e.item = f.item /\ e.rang = n /\ e.vu = ligne[d.cible][i.p][n]
      BY <1>2, <1>4, <3>1 DEF Demandes
    <3> QED
      BY <2>1, <2>3, <3>1, <3>2
  <2>4. \/ Lignes(d.cible, i.p) = {} /\ Etape(r, f)
        \/ \E n \in Lignes(d.cible, i.p) :
             Etape(r, [f EXCEPT !.rang = n, !.vu = ligne[d.cible][i.p][n]])
    BY <1>1, <1>3, <1>4 DEF TrouveLigne
  <2>5. CASE \E n \in Lignes(d.cible, i.p) :
             Etape(r, [f EXCEPT !.rang = n, !.vu = ligne[d.cible][i.p][n]])
    <3>1. PICK n \in Lignes(d.cible, i.p) :
             Etape(r, [f EXCEPT !.rang = n, !.vu = ligne[d.cible][i.p][n]])
      BY <2>5
    <3>2. PICK e :
               /\ Etape(r, e)
               /\ e.pc = "copierEcrire" /\ e.h = d.h /\ e.op = d.op
               /\ e.p = d.p /\ e.q = d.q /\ e.source = d.source
               /\ e.cible = d.cible /\ e.reste = d.reste \ {i} /\ e.item = {i}
               /\ e.rang = n /\ e.vu = ligne[d.cible][i.p][n]
      BY <2>3, <3>1
    <3> QED
      BY <3>2
  <2> QED
    BY <2>2, <2>4, <2>5
<1>6. ASSUME seul
      PROVE  Constat(e) /\ Reste(e) /\ Promis(e)
  <2>0. d.item = {} /\ d.rang = 0 /\ d.vu = 0 /\ Reste(d) /\ Promis(d)
    BY <1>2, <1>6 DEF Conforme, Constat
  <2>1. Trouve(e, i.p)
    <3>1. CASE Lignes(d.cible, i.p) = {} /\ e.rang = d.rang /\ e.vu = d.vu
      BY <1>5, <2>0, <3>1 DEF Trouve
    <3>2. ASSUME NEW n \in Lignes(d.cible, i.p), e.rang = n,
                 e.vu = ligne[d.cible][i.p][n]
          PROVE  Trouve(e, i.p)
      <4>1. n # 0 /\ ligne[d.cible][i.p][n] # 0
        BY DEF Lignes, Copies
      <4> QED
        BY <1>5, <3>2, <4>1 DEF Trouve
    <3> QED
      BY <1>5, <3>1, <3>2
  <2>2. Constat(e)
    BY <1>5, <2>1 DEF Constat
  <2>3. e.reste \cup e.item = d.reste \cup d.item
    BY <1>3, <1>5, <2>0
  <2>4. Reste(e)
    BY <1>2, <1>3, <1>5, <2>0, <2>3
    DEF Reste, AMerger, FusionPanier, FusionFavoris
  <2>5. /\ \A o \in Proprietaires, p \in Produits :
             DuPanier(e, o, p) = DuPanier(d, o, p)
        /\ \A o \in Proprietaires : DesFavoris(e, o) = DesFavoris(d, o)
    BY <1>2, <1>5, <2>3
    DEF DuPanier, DesFavoris, AMerger, FusionPanier, FusionFavoris
  <2>6. Promis(e)
    BY <1>5, <2>0, <2>5, PromisPareil
  <2> QED
    BY <2>2, <2>4, <2>6
<1> QED
  BY <1>2, <1>5, <1>6, FideleSansTable

LEMMA FindPanierFidele ==
  ASSUME Depart, NEW r \in Requetes, FindPanier(r)
  PROVE  FideleInductif'
<1>1. PICK d : d = req[r]
  OBVIOUS
<1>2. /\ d.pc = "trouver" /\ d \in Demandes /\ Conforme(d) /\ ~Libre(r)
      /\ seul => Constat(d) /\ Reste(d) /\ Promis(d)
      /\ seul' = seul /\ voulu' = voulu /\ UNCHANGED <<panier, ligne, favori>>
  BY <1>1, SeulCourant, TemoinsPareils DEF FindPanier, tables
<1>3. PICK k : k = panier[Chez(d)]
  OBVIOUS
<1>4. \/ k # 0 /\ d.op = "getPanier" /\ Repond(r)
      \/ k # 0 /\ Etape(r, [d EXCEPT !.pc = "executer", !.cible = k])
      \/ k = 0 /\ Etape(r, [d EXCEPT !.pc = "creerPanier"])
  BY <1>1, <1>3 DEF FindPanier, AvecPanier, Va, Chez, Proprietaire
<1>5. CASE d.op = "getPanier" /\ Repond(r)
  <2>1. PICK e : e = [pc |-> "libre"]
    OBVIOUS
  <2>2. Etape(r, e) /\ e.pc = "libre"
    BY <1>5, <2>1 DEF Repond
  <2>3. seul => Tenu
    BY <1>2, <1>5, SansEffet DEF Effet, EffetFavoris, FusionPanier, FusionFavoris
  <2> QED
    BY <1>2, <2>2, <2>3, FideleSansTable
<1>6. CASE \/ Etape(r, [d EXCEPT !.pc = "executer", !.cible = k])
           \/ k = 0 /\ Etape(r, [d EXCEPT !.pc = "creerPanier"])
  <2>1. PICK e : /\ Etape(r, e) /\ e.pc \in {"executer", "creerPanier"}
                 /\ e.pc = "creerPanier" => k = 0
                 /\ e.h = d.h /\ e.op = d.op /\ e.p = d.p /\ e.q = d.q
                 /\ e.rang = d.rang /\ e.vu = d.vu
    <3>1. CASE Etape(r, [d EXCEPT !.pc = "executer", !.cible = k])
      <4>1. PICK e : e = [d EXCEPT !.pc = "executer", !.cible = k]
        OBVIOUS
      <4>2. /\ e.pc = "executer" /\ e.h = d.h /\ e.op = d.op /\ e.p = d.p
            /\ e.q = d.q /\ e.rang = d.rang /\ e.vu = d.vu
        BY <1>2, <4>1 DEF Demandes
      <4> QED
        BY <3>1, <4>1, <4>2
    <3>2. CASE k = 0 /\ Etape(r, [d EXCEPT !.pc = "creerPanier"])
      <4>1. PICK e : e = [d EXCEPT !.pc = "creerPanier"]
        OBVIOUS
      <4>2. /\ e.pc = "creerPanier" /\ e.h = d.h /\ e.op = d.op /\ e.p = d.p
            /\ e.q = d.q /\ e.rang = d.rang /\ e.vu = d.vu
        BY <1>2, <4>1 DEF Demandes
      <4> QED
        BY <3>2, <4>1, <4>2
    <3> QED
      BY <1>6, <3>1, <3>2
  <2>2. seul => Promis(e) /\ Reste(e)
    BY <1>2, <2>1, PlusLoin DEF FusionPanier, FusionFavoris
  <2>3. seul => Constat(e)
    BY <1>2, <1>3, <2>1 DEF Constat, Chez
  <2> QED
    BY <1>2, <2>1, <2>2, <2>3, FideleSansTable
<1> QED
  BY <1>4, <1>5, <1>6

LEMMA FindItemFidele ==
  ASSUME Depart, NEW r \in Requetes, FindItem(r)
  PROVE  FideleInductif'
<1>1. PICK d : d = req[r]
  OBVIOUS
<1>2. /\ d.pc = "executer" /\ d \in Demandes /\ Conforme(d) /\ ~Libre(r)
      /\ d.op \in Quantifiee /\ TablesOK
      /\ seul => UneLigne /\ Constat(d) /\ Reste(d) /\ Promis(d) /\ Suivie(d)
      /\ seul' = seul /\ voulu' = voulu /\ UNCHANGED <<panier, ligne, favori>>
  BY <1>1, SeulCourant, TemoinsPareils DEF FindItem, tables, Quantifiee
<1>3. PICK k, p : k = d.cible /\ p = d.p
  OBVIOUS
<1>4. k \in Paniers /\ p \in Produits /\ Chez(d) \in Proprietaires
  BY <1>2, <1>3 DEF Conforme, Nommee, Chez, Proprietaires
<1>5. \/ d.op = "updateItem" /\ Lignes(k, p) = {} /\ Repond(r)
      \/ /\ ~(d.op = "updateItem" /\ Lignes(k, p) = {})
         /\ TrouveLigne(r, p, [d EXCEPT !.pc = "ecrire"])
  BY <1>1, <1>3 DEF FindItem
<1>6. CASE d.op = "updateItem" /\ Lignes(k, p) = {} /\ Repond(r)
  <2>1. PICK e : e = [pc |-> "libre"]
    OBVIOUS
  <2>2. Etape(r, e) /\ e.pc = "libre"
    BY <1>6, <2>1 DEF Repond
  <2>3. ASSUME seul
        PROVE  Tenu
    <3>1. panier[Chez(d)] = k
      BY <1>2, <1>3, <2>3 DEF Suivie, PanierSuivi
    <3>2. Contenu(Chez(d))[p] = 0
      BY <1>2, <1>4, <1>6, <2>3, <3>1 DEF Depart, Valeurs
    <3>3. \A x \in Produits :
            Effet(d, Chez(d), x, Contenu(Chez(d))[x]) = Contenu(Chez(d))[x]
      BY <1>3, <1>6, <3>2 DEF Effet
    <3>4. EffetFavoris(d, Chez(d), Aimes(Chez(d))) = Aimes(Chez(d))
      BY <1>6 DEF EffetFavoris
    <3> QED
      BY <1>2, <2>3, <3>3, <3>4, SansEffet DEF FusionPanier, FusionFavoris
  <2> QED
    BY <1>2, <2>2, <2>3, FideleSansTable
<1>7. CASE /\ ~(d.op = "updateItem" /\ Lignes(k, p) = {})
           /\ TrouveLigne(r, p, [d EXCEPT !.pc = "ecrire"])
  <2>1. PICK f : f = [d EXCEPT !.pc = "ecrire"]
    OBVIOUS
  <2>2. /\ f.pc = "ecrire" /\ f.h = d.h /\ f.op = d.op /\ f.p = d.p
        /\ f.q = d.q /\ f.cible = d.cible /\ f.rang = d.rang /\ f.vu = d.vu
    BY <1>2, <2>1 DEF Demandes
  <2>3. PICK e : /\ Etape(r, e) /\ e.pc = "ecrire" /\ e.h = d.h /\ e.op = d.op
                 /\ e.p = d.p /\ e.q = d.q /\ e.cible = d.cible
                 /\ \/ Lignes(k, p) = {} /\ e.rang = d.rang /\ e.vu = d.vu
                    \/ \E n \in Lignes(k, p) : e.rang = n /\ e.vu = ligne[k][p][n]
    <3>1. CASE Lignes(k, p) = {} /\ Etape(r, f)
      BY <2>2, <3>1
    <3>2. CASE \E n \in Lignes(k, p) :
                 Etape(r, [f EXCEPT !.rang = n, !.vu = ligne[k][p][n]])
      <4>1. PICK n \in Lignes(k, p) :
                 Etape(r, [f EXCEPT !.rang = n, !.vu = ligne[k][p][n]])
        BY <3>2
      <4>2. PICK e : e = [f EXCEPT !.rang = n, !.vu = ligne[k][p][n]]
        OBVIOUS
      <4>3. /\ e.pc = f.pc /\ e.h = f.h /\ e.op = f.op /\ e.p = f.p /\ e.q = f.q
            /\ e.cible = f.cible /\ e.rang = n /\ e.vu = ligne[k][p][n]
        BY <1>2, <2>1, <4>2 DEF Demandes
      <4> QED
        BY <2>2, <4>1, <4>2, <4>3
    <3> QED
      BY <1>1, <1>3, <1>7, <2>1, <3>1, <3>2 DEF TrouveLigne
  <2>4. ASSUME seul
        PROVE  Constat(e)
    <3>0. d.rang = 0 /\ d.vu = 0
      BY <1>2, <2>4 DEF Constat
    <3>1. CASE Lignes(k, p) = {} /\ e.rang = d.rang /\ e.vu = d.vu
      BY <1>3, <1>7, <2>3, <3>0, <3>1 DEF Constat, Trouve
    <3>2. ASSUME NEW n \in Lignes(k, p), e.rang = n, e.vu = ligne[k][p][n]
          PROVE  Constat(e)
      <4>1. n # 0 /\ ligne[k][p][n] # 0
        BY DEF Lignes, Copies
      <4> QED
        BY <1>3, <2>3, <3>2, <4>1 DEF Constat, Trouve
    <3> QED
      BY <2>3, <3>1, <3>2
  <2>5. seul => Promis(e) /\ Reste(e)
    BY <1>2, <2>3, PlusLoin DEF FusionPanier, FusionFavoris
  <2> QED
    BY <1>2, <2>3, <2>4, <2>5, FideleSansTable
<1> QED
  BY <1>5, <1>6, <1>7

----------------------------------------------------------------------------
(* A request at a time: the steps that write the carts.                    *)

\* A request that answers has done what it promised.
LEMMA Repondu ==
  ASSUME NEW d, Promis(d), d.pc \notin FusionPanier \cup FusionFavoris,
         voulu' = voulu,
         \A o \in Proprietaires, p \in Produits :
           Contenu(o)'[p] = Effet(d, o, p, Contenu(o)[p]),
         \A o \in Proprietaires : Aimes(o)' = EffetFavoris(d, o, Aimes(o))
  PROVE  Tenu'
BY HorsFusion DEF Promis, Tenu

\* After a merge the request has its own operation left.
LEMMA FusionFinie ==
  ASSUME NEW d, Promis(d), d.pc \in FusionPanier \cup FusionFavoris, NEW e,
         e = Demande("trouver", d.h, d.op, d.p, d.q), voulu' = voulu,
         \A o \in Proprietaires, p \in Produits :
           Contenu(o)'[p] = DuPanier(d, o, p),
         \A o \in Proprietaires : Aimes(o)' = DesFavoris(d, o)
  PROVE  e.pc = "trouver" /\ Constat(e)' /\ Reste(e)' /\ Promis(e)'
<1>1. /\ e.pc = "trouver" /\ e.h = d.h /\ e.op = d.op /\ e.p = d.p /\ e.q = d.q
      /\ e.rang = 0 /\ e.vu = 0
  BY DEF Demande
<1>2. Constat(e)' /\ Reste(e)'
  BY <1>1 DEF Constat, Reste, FusionPanier, FusionFavoris
<1>3. /\ \A o \in Proprietaires, p \in Produits :
           DuPanier(e, o, p)' = Contenu(o)'[p]
      /\ \A o \in Proprietaires : DesFavoris(e, o)' = Aimes(o)'
  BY <1>1 DEF DuPanier, DesFavoris, FusionPanier, FusionFavoris
<1>4. Promis(e)'
  BY <1>1, <1>3, EffetPareil, PromisSuivant DEF Promis
<1> QED
  BY <1>1, <1>2, <1>4

\* The step that ends a merge.
LEMMA FusionneeFidele ==
  ASSUME Depart, NEW r \in Requetes, ~Libre(r), Fusionnee(r),
         req[r].pc \in FusionPanier \cup FusionFavoris,
         seul' = seul, voulu' = voulu,
         seul =>
           /\ UneLigne'
           /\ \A o \in Proprietaires, p \in Produits :
                Contenu(o)'[p] = DuPanier(req[r], o, p)
           /\ \A o \in Proprietaires : Aimes(o)' = DesFavoris(req[r], o)
  PROVE  FideleInductif'
<1>1. PICK d : d = req[r]
  OBVIOUS
<1>2. PICK e : e = Demande("trouver", d.h, d.op, d.p, d.q)
  OBVIOUS
<1>3. Etape(r, e)
  BY <1>1, <1>2 DEF Fusionnee
<1>4. seul => Promis(d)
  BY <1>1, SeulAuDepart
<1>5. ASSUME seul
      PROVE  e.pc = "trouver" /\ Constat(e)' /\ Reste(e)' /\ Promis(e)'
  BY <1>1, <1>2, <1>4, <1>5, FusionFinie
<1> QED
  BY <1>3, <1>5, FidelePas

\* Without an own cart, the account gets the session's.
LEMMA FusionTransfererFidele ==
  ASSUME Depart, NEW r \in Requetes, FusionTransferer(r)
  PROVE  FideleInductif'
<1>1. PICK d, k : d = req[r] /\ k = d.source
  OBVIOUS
<1>2. /\ d.pc = "transferer" /\ d \in Demandes /\ Conforme(d) /\ ~Libre(r)
      /\ TablesOK /\ TablesOK'
      /\ seul => UneLigne /\ Constat(d) /\ Reste(d) /\ Promis(d) /\ Suivie(d)
      /\ seul' = seul /\ voulu' = voulu /\ UNCHANGED <<ligne, favori>>
  BY <1>1, SeulCourant, TemoinsPareils DEF FusionTransferer
<1>3. k \in Paniers
  BY <1>1, <1>2 DEF Conforme, FusionPanier
<1>4. CASE ~seul
  <2>1. PICK e : Etape(r, e)
    BY DEF FusionTransferer, Fusionnee, Repond
  <2> QED
    BY <1>2, <1>4, <2>1, FidelePas
<1>5. CASE seul
  <2>1. k = panier.session /\ panier.compte = 0
    BY <1>1, <1>2, <1>5
    DEF Suivie, PanierSuivi, FusionPanier, Constat
  <2>2. Existe(k)
    BY <2>1 DEF Existe, Proprietaires
  <2>3. panier' = [session |-> 0, compte |-> k] /\ Fusionnee(r)
    BY <1>1, <2>1, <2>2 DEF FusionTransferer
  <2>4. /\ UneLigne'
        /\ "session" \in Proprietaires /\ "compte" \in Proprietaires
        /\ panier'.session = 0 /\ panier'.compte = k
    BY <1>2, <1>5, <2>3 DEF UneLigne, Lignes, Proprietaires
  <2>5. ASSUME NEW p \in Produits
        PROVE  /\ Contenu("session")'[p] = 0
               /\ Contenu("compte")'[p] = Contenu("session")[p]
               /\ Contenu("compte")[p] = 0
               /\ Contenu("session")[p] \in Nat
               /\ ~AMerger(d, p) => Contenu("session")[p] = 0
    <3>1. Contenu("session")'[p] = 0
      BY <1>2, <2>4 DEF Depart, Valeurs
    <3>2. Contenu("compte")'[p] = Contenu("session")[p]
      BY <1>2, <1>3, <1>5, <2>1, <2>4, ContenuPareil
    <3>3. Contenu("compte")[p] = 0 /\ Contenu("session")[p] \in Nat
      BY <1>2, <1>5, <2>1, <2>4 DEF Depart, Valeurs
    <3>4. ASSUME ~AMerger(d, p)
          PROVE  Contenu("session")[p] = 0
      <4>1. Lignes(k, p) = {}
        BY <1>1, <1>2, <1>5, <3>4 DEF Reste
      <4> QED
        BY <1>2, <1>3, <1>5, <2>1, <2>4, <4>1 DEF Depart, Valeurs
    <3> QED
      BY <3>1, <3>2, <3>3, <3>4
  <2>6. /\ \A o \in Proprietaires, p \in Produits :
             Contenu(o)'[p] = DuPanier(d, o, p)
        /\ \A o \in Proprietaires : Aimes(o)' = DesFavoris(d, o)
    BY <1>2, <2>5
    DEF DuPanier, DesFavoris, Aimes, Proprietaires, FusionPanier, FusionFavoris
  <2> QED
    BY <1>1, <1>2, <2>3, <2>4, <2>6, FusionneeFidele DEF FusionPanier
<1> QED
  BY <1>4, <1>5

\* The session's cart is deleted when nothing is left in it to merge.
LEMMA FusionSupprimerFidele ==
  ASSUME Depart, NEW r \in Requetes, FusionSupprimer(r)
  PROVE  FideleInductif'
<1>1. PICK d, k, c : d = req[r] /\ k = d.source /\ c = d.cible
  OBVIOUS
<1>2. /\ d.pc = "copier" /\ d \in Demandes /\ Conforme(d) /\ ~Libre(r)
      /\ TablesOK /\ TablesOK' /\ d.reste = {}
      /\ seul => UneLigne /\ Constat(d) /\ Reste(d) /\ Promis(d) /\ Suivie(d)
      /\ seul' = seul /\ voulu' = voulu /\ UNCHANGED favori
  BY <1>1, SeulCourant, TemoinsPareils DEF FusionSupprimer
<1>3. k \in Paniers /\ c \in Paniers /\ d.item = {}
  BY <1>1, <1>2 DEF Conforme, FusionPanier
<1>4. CASE ~seul
  <2>1. PICK e : Etape(r, e)
    BY DEF FusionSupprimer, SupprimerPanier, Fusionnee, Repond
  <2> QED
    BY <1>2, <1>4, <2>1, FidelePas
<1>5. CASE seul
  <2>1. k = panier.session /\ c = panier.compte /\ k # c
    <3>1. k = panier.session /\ c = panier.compte
      BY <1>1, <1>2, <1>5 DEF Suivie, PanierSuivi, FusionPanier
    <3> QED
      BY <1>2, <1>3, <3>1, DeuxPaniers
  <2>2. Existe(k)
    BY <2>1 DEF Existe, Proprietaires
  <2>3. /\ panier' = [o \in Proprietaires |->
                        IF panier[o] = k THEN 0 ELSE panier[o]]
        /\ ligne' = [ligne EXCEPT ![k] = [p \in Produits |-> [n \in Copies |-> 0]]]
        /\ Fusionnee(r)
    BY <1>1, <2>2 DEF FusionSupprimer, SupprimerPanier
  <2>4. /\ "session" \in Proprietaires /\ "compte" \in Proprietaires
        /\ panier'.session = 0 /\ panier'.compte = c
    BY <2>1, <2>3 DEF Proprietaires
  <2>5. \A j \in Paniers, p \in Produits, n \in Copies :
          ligne'[j][p][n] = IF j = k THEN 0 ELSE ligne[j][p][n]
    BY <1>2, <1>3, <2>3 DEF TablesOK
  <2>6. UneLigne'
    BY <1>2, <1>5, <2>5 DEF UneLigne, Lignes
  <2>7. ASSUME NEW p \in Produits
        PROVE  /\ Contenu("session")'[p] = 0
               /\ Contenu("compte")'[p] = Contenu("compte")[p]
               /\ Contenu("compte")[p] \in Nat
               /\ ~AMerger(d, p)
    <3>1. Contenu("session")'[p] = 0
      BY <1>2, <2>4, <2>6 DEF Depart, Valeurs
    <3>2. \A n \in Copies : ligne'[c][p][n] = ligne[c][p][n]
      BY <1>3, <2>1, <2>5
    <3>3. Contenu("compte")'[p] = Contenu("compte")[p]
      BY <1>2, <1>3, <1>5, <2>1, <2>4, <2>6, <3>2, ContenuPareil
    <3>4. Contenu("compte")[p] \in Nat
      BY <1>5, <2>4, SeulAuDepart
    <3> QED
      BY <1>2, <1>3, <3>1, <3>3, <3>4 DEF AMerger
  <2>8. /\ \A o \in Proprietaires, p \in Produits :
             Contenu(o)'[p] = DuPanier(d, o, p)
        /\ \A o \in Proprietaires : Aimes(o)' = DesFavoris(d, o)
    BY <1>2, <2>7
    DEF DuPanier, DesFavoris, Aimes, Proprietaires, FusionPanier, FusionFavoris
  <2> QED
    BY <1>1, <1>2, <2>3, <2>6, <2>8, FusionneeFidele DEF FusionPanier
<1> QED
  BY <1>4, <1>5

\* Row n of product p in cart k takes q.
Pose(k, p, n, q) == ligne' = [ligne EXCEPT ![k][p][n] = q]

\* A row of the product is written, the only one of it, in the cart of o.
LEMMA LigneEcrite ==
  ASSUME Depart, seul, NEW k \in Paniers, NEW o \in Proprietaires,
         panier[o] = k, panier' = panier, NEW p \in Produits, NEW id \in Copies,
         NEW q \in Nat \ {0}, Pose(k, p, id, q),
         Lignes(k, p) \subseteq {id}
  PROVE  /\ UneLigne'
         /\ \A x \in Proprietaires, y \in Produits :
              Contenu(x)'[y] = IF x = o /\ y = p THEN q ELSE Contenu(x)[y]
         /\ \A j \in Paniers \ {k}, y \in Produits, n \in Copies :
              ligne'[j][y][n] = ligne[j][y][n]
<1>1. TablesOK /\ TablesOK' /\ UneLigne
  BY SeulAuDepart
<1>2. \A j \in Paniers, y \in Produits, n \in Copies :
        ligne'[j][y][n] = IF j = k /\ y = p /\ n = id THEN q ELSE ligne[j][y][n]
  BY <1>1 DEF TablesOK, Pose
<1>3. UneLigne'
  <2> SUFFICES ASSUME NEW j \in Paniers, NEW y \in Produits,
                      NEW m \in Copies, NEW n \in Copies,
                      ligne'[j][y][m] # 0, ligne'[j][y][n] # 0
               PROVE  m = n
    BY DEF UneLigne, Lignes
  <2>1. CASE j = k /\ y = p
    <3>1. \A x \in Copies : ligne'[j][y][x] # 0 => x = id
      BY <1>2, <2>1 DEF Lignes
    <3> QED
      BY <3>1
  <2>2. CASE ~(j = k /\ y = p)
    BY <1>1, <1>2, <2>2 DEF UneLigne, Lignes
  <2> QED
    BY <2>1, <2>2
<1>4. Contenu(o)'[p] = q
  <2>1. ligne'[k][p][id] = q /\ q # 0
    BY <1>2
  <2> QED
    BY <1>1, <1>3, <2>1 DEF Depart, Valeurs
<1>5. ASSUME NEW x \in Proprietaires, NEW y \in Produits, ~(x = o /\ y = p)
      PROVE  Contenu(x)'[y] = Contenu(x)[y]
  <2>1. CASE panier[x] = 0
    BY <1>1, <1>3, <2>1 DEF Depart, Valeurs
  <2>2. CASE panier[x] # 0
    <3>1. PICK j \in Paniers : j = panier[x]
      BY <2>2, SeulAuDepart
    <3>2. j = k => x = o
      <4>1. ASSUME x # o, j = k
            PROVE  FALSE
        <5>1. panier[x] = k /\ panier[o] = k
          BY <3>1, <4>1
        <5>2. CASE x = "session" /\ o = "compte"
          BY <1>1, <5>1, <5>2, DeuxPaniers
        <5>3. CASE x = "compte" /\ o = "session"
          BY <1>1, <5>1, <5>3, DeuxPaniers
        <5> QED
          BY <4>1, <5>2, <5>3 DEF Proprietaires
      <4> QED
        BY <4>1
    <3>3. \A n \in Copies : ligne'[j][y][n] = ligne[j][y][n]
      BY <1>2, <1>5, <3>1, <3>2
    <3> QED
      BY <1>3, <3>1, <3>3, ContenuPareil
  <2> QED
    BY <2>1, <2>2
<1> QED
  BY <1>2, <1>3, <1>4, <1>5

\* What a request found lets it write.
LEMMA EcritureFaite ==
  ASSUME Depart, seul, NEW r \in Requetes, NEW d, d = req[r], d \in Demandes,
         d.cible \in Paniers, NEW o \in Proprietaires, panier[o] = d.cible,
         NEW p \in Produits, NEW q \in Nat, NEW e, Trouve(d, p),
         EcrireLigne(r, p, q, Etape(r, e))
  PROVE  /\ Etape(r, e)
         /\ Contenu(o)[p] = d.vu
         /\ \E id \in Copies :
              /\ Pose(d.cible, p, id, q)
              /\ Lignes(d.cible, p) \subseteq {id}
<1>1. PICK k, n : k = d.cible /\ n = d.rang
  OBVIOUS
<1>2. TablesOK /\ UneLigne
  BY SeulAuDepart
<1>3. /\ n = 0 => Lignes(k, p) = {} /\ d.vu = 0
      /\ n # 0 => n \in Copies /\ d.vu # 0 /\ ligne[k][p][n] = d.vu
  BY <1>1 DEF Trouve, Demandes
<1>4. Existe(k)
  BY <1>1 DEF Existe
<1>5. Contenu(o)[p] = d.vu
  BY <1>1, <1>2, <1>3 DEF Depart, Valeurs
<1> DEFINE pris == Lignes(k, p)
                     \cup {req[s].rang : s \in {s \in Requetes : ~Libre(s)}}
<1>6. PICK id : id = IF n = 0 THEN Nouveau(Copies, pris) ELSE n
  OBVIOUS
<1>7. /\ n = 0 => Libres(Copies, pris) # {}
      /\ Pose(k, p, id, q)
      /\ Etape(r, e)
  BY <1>1, <1>3, <1>4, <1>6 DEF EcrireLigne, Pose
<1>8. id \in Copies
  <2>1. CASE n = 0
    BY <1>6, <1>7, <2>1, NouveauLibre DEF Copies
  <2>2. CASE n # 0
    BY <1>3, <1>6, <2>2
  <2> QED
    BY <2>1, <2>2
<1>9. Lignes(k, p) \subseteq {id}
  BY <1>1, <1>2, <1>3, <1>6 DEF UneLigne, Lignes
<1> QED
  BY <1>1, <1>5, <1>7, <1>8, <1>9

\* The merge adds a row of the session's cart to the account's.
LEMMA FusionEcrireFidele ==
  ASSUME Depart, NEW r \in Requetes, FusionEcrire(r)
  PROVE  FideleInductif'
<1>1. PICK d, k, c : d = req[r] /\ k = d.source /\ c = d.cible
  OBVIOUS
<1>2. /\ d.pc = "copierEcrire" /\ d \in Demandes /\ Conforme(d) /\ ~Libre(r)
      /\ TablesOK /\ TablesOK'
      /\ seul => UneLigne /\ Constat(d) /\ Reste(d) /\ Promis(d) /\ Suivie(d)
      /\ seul' = seul /\ voulu' = voulu /\ UNCHANGED <<panier, favori>>
  BY <1>1, SeulCourant, TemoinsPareils DEF FusionEcrire
<1>3. /\ k \in Paniers /\ c \in Paniers /\ d.reste \cup d.item \subseteq Articles
      /\ \A i, j \in d.item : i = j
  BY <1>1, <1>2 DEF Conforme, FusionPanier
<1>a. PICK e : e = [d EXCEPT !.pc = "copier", !.item = {}, !.rang = 0, !.vu = 0]
  OBVIOUS
<1>b. /\ e.pc = "copier" /\ e.h = d.h /\ e.op = d.op /\ e.p = d.p /\ e.q = d.q
      /\ e.source = k /\ e.cible = c /\ e.reste = d.reste /\ e.item = {}
      /\ e.rang = 0 /\ e.vu = 0
  BY <1>1, <1>2, <1>a DEF Demandes
<1>4. PICK i \in d.item : EcrireLigne(r, i.p, d.vu + i.q, Etape(r, e))
  BY <1>1, <1>a DEF FusionEcrire
<1>5. CASE ~seul
  <2>1. PICK f : Etape(r, f)
    BY <1>4 DEF EcrireLigne, Repond
  <2> QED
    BY <1>2, <1>5, <2>1, FidelePas
<1>6. CASE seul
  <2>1. k = panier.session /\ c = panier.compte /\ k # c
    <3>1. k = panier.session /\ c = panier.compte
      BY <1>1, <1>2, <1>6 DEF Suivie, PanierSuivi, FusionPanier
    <3> QED
      BY <1>2, <1>3, <3>1, DeuxPaniers
  <2>2. /\ "session" \in Proprietaires /\ "compte" \in Proprietaires
        /\ i \in Articles /\ d.item = {i} /\ i \notin d.reste
        /\ \A j \in d.reste \cup d.item : ligne[k][j.p][j.n] = j.q
        /\ Trouve(d, i.p)
    BY <1>1, <1>2, <1>3, <1>6
    DEF Proprietaires, Reste, Constat, FusionPanier
  <2>3. PICK p, q : p = i.p /\ q = d.vu + i.q
    OBVIOUS
  <2>4. p \in Produits /\ i.q \in Nat \ {0} /\ d.vu \in Nat /\ q \in Nat \ {0}
        /\ i.n \in Copies
    BY <1>2, <2>2, <2>3 DEF Articles, Demandes
  <2>5. /\ Etape(r, e)
        /\ Contenu("compte")[p] = d.vu
        /\ \E id \in Copies :
             /\ Pose(c, p, id, q)
             /\ Lignes(c, p) \subseteq {id}
    <3>1. i.p \in Produits /\ d.vu + i.q \in Nat
      BY <2>3, <2>4
    <3>2. PICK o \in Proprietaires : o = "compte"
      BY <2>2
    <3>3. /\ seul /\ d = req[r] /\ d \in Demandes /\ d.cible \in Paniers
          /\ panier[o] = d.cible /\ Trouve(d, i.p)
      BY <1>1, <1>2, <1>3, <1>6, <2>1, <2>2, <3>2
    <3>4. /\ Etape(r, e)
          /\ Contenu(o)[i.p] = d.vu
          /\ \E id \in Copies :
               /\ Pose(d.cible, i.p, id, d.vu + i.q)
               /\ Lignes(d.cible, i.p) \subseteq {id}
      BY <1>4, <3>1, <3>3, EcritureFaite
    <3> QED
      BY <1>1, <2>3, <3>2, <3>4
  <2>6. PICK id \in Copies : /\ Pose(c, p, id, q)
                             /\ Lignes(c, p) \subseteq {id}
    BY <2>5
  <2>7. /\ UneLigne'
        /\ \A x \in Proprietaires, y \in Produits :
             Contenu(x)'[y] = IF x = "compte" /\ y = p THEN q ELSE Contenu(x)[y]
        /\ \A j \in Paniers \ {c}, y \in Produits, n \in Copies :
             ligne'[j][y][n] = ligne[j][y][n]
    BY <1>2, <1>3, <1>6, <2>1, <2>2, <2>4, <2>6, LigneEcrite
  <2>8. Constat(e)'
    BY <1>b DEF Constat
  <2>9. Reste(e)'
    <3>1. ASSUME NEW j \in d.reste
          PROVE  ligne'[k][j.p][j.n] = j.q
      <4>1. j.p \in Produits /\ j.n \in Copies
        BY <1>3 DEF Articles
      <4> QED
        BY <1>3, <2>1, <2>2, <2>7, <4>1
    <3> QED
      BY <1>b, <3>1 DEF Reste, FusionFavoris
  <2>10. ~AMerger(e, p) /\ AMerger(d, p)
    <3>1. ASSUME NEW j \in d.reste, j.p = p
          PROVE  FALSE
      <4>1. j \in Articles /\ ligne[k][p][j.n] = j.q /\ ligne[k][p][i.n] = i.q
        BY <1>3, <2>2, <2>3, <3>1
      <4>2. j.n \in Lignes(k, p) /\ i.n \in Lignes(k, p)
        BY <2>4, <4>1 DEF Lignes, Articles
      <4>3. j.n = i.n
        BY <1>2, <1>3, <1>6, <2>4, <4>2 DEF UneLigne
      <4>4. j = i
        BY <2>2, <2>3, <3>1, <4>1, <4>3 DEF Articles
      <4> QED
        BY <2>2, <4>4
    <3> QED
      BY <1>b, <2>2, <2>3, <3>1 DEF AMerger
  <2>11. ASSUME NEW y \in Produits, y # p
         PROVE  AMerger(e, y) <=> AMerger(d, y)
    BY <1>b, <2>2, <2>3, <2>11 DEF AMerger
  <2>12. Contenu("session")[p] = i.q
    <3>1. ligne[k][p][i.n] = i.q
      BY <2>2, <2>3
    <3> QED
      BY <1>2, <1>3, <1>6, <2>1, <2>2, <2>4, <3>1 DEF Depart, Valeurs
  <2>13. ASSUME NEW o \in Proprietaires, NEW y \in Produits
         PROVE  DuPanier(e, o, y)' = DuPanier(d, o, y)
    <3>1. /\ DuPanier(e, o, y)' =
               IF o = "session" THEN 0
               ELSE Contenu("compte")'[y]
                      + (IF AMerger(e, y) THEN Contenu("session")'[y] ELSE 0)
          /\ DuPanier(d, o, y) =
               IF o = "session" THEN 0
               ELSE Contenu("compte")[y]
                      + (IF AMerger(d, y) THEN Contenu("session")[y] ELSE 0)
      BY <1>2, <1>b DEF DuPanier, FusionPanier, AMerger
    <3>2. CASE y = p
      BY <2>2, <2>3, <2>4, <2>5, <2>7, <2>10, <2>12, <3>1, <3>2
    <3>3. CASE y # p
      BY <2>2, <2>7, <2>11, <3>1, <3>3
    <3> QED
      BY <3>2, <3>3
  <2>14. \A o \in Proprietaires : DesFavoris(e, o)' = DesFavoris(d, o)
    BY <1>2, <1>b DEF DesFavoris, FusionFavoris, Aimes
  <2>15. Promis(e)'
    BY <1>2, <1>6, <1>b, <2>13, <2>14, PromisApres
  <2> QED
    BY <1>2, <1>b, <2>5, <2>7, <2>8, <2>9, <2>15, FidelePas
<1> QED
  BY <1>5, <1>6

\* The request's own owner, and its favourites, which a cart request leaves.
LEMMA EffetPanier ==
  ASSUME NEW d, d.op \in CartOps, UNCHANGED favori
  PROVE  \A o \in Proprietaires : Aimes(o)' = EffetFavoris(d, o, Aimes(o))
BY DEF EffetFavoris, Aimes, CartOps

\* addItem and updateItem write the row they found, or created.
LEMMA WriteItemFidele ==
  ASSUME Depart, NEW r \in Requetes, WriteItem(r)
  PROVE  FideleInductif'
<1>1. PICK d, p : d = req[r] /\ p = d.p
  OBVIOUS
<1>2. /\ d.pc = "ecrire" /\ d \in Demandes /\ Conforme(d) /\ ~Libre(r)
      /\ TablesOK /\ TablesOK'
      /\ seul => UneLigne /\ Constat(d) /\ Reste(d) /\ Promis(d) /\ Suivie(d)
      /\ seul' = seul /\ voulu' = voulu /\ UNCHANGED <<panier, favori>>
  BY <1>1, SeulCourant, TemoinsPareils DEF WriteItem
<1>3. PICK e : e = [pc |-> "libre"]
  OBVIOUS
<1>4. PICK q : q = IF d.op = "addItem" THEN d.vu + d.q ELSE d.q
  OBVIOUS
<1>5. EcrireLigne(r, p, q, Etape(r, e))
  BY <1>1, <1>3, <1>4 DEF WriteItem, Repond
<1>6. /\ d.op \in Quantifiee /\ d.cible \in Paniers /\ p \in Produits
      /\ d.q \in Nat \ {0} /\ d.vu \in Nat /\ q \in Nat \ {0}
  <2>1. /\ d.op \in Quantifiee /\ d.cible \in Paniers /\ p \in Produits
        /\ d.q \in Quantites /\ d.vu \in Nat
    BY <1>1, <1>2 DEF Conforme, Nommee, Quantifiee, Demandes
  <2>2. d.q \in Nat \ {0}
    BY <2>1, QuantitesNat
  <2> QED
    BY <1>4, <2>1, <2>2
<1>7. CASE ~seul
  <2>1. PICK f : Etape(r, f)
    BY <1>5 DEF EcrireLigne, Repond
  <2> QED
    BY <1>2, <1>7, <2>1, FidelePas
<1>8. CASE seul
  <2>1. PICK o \in Proprietaires : o = Chez(d)
    BY DEF Chez, Proprietaires
  <2>2. /\ panier[o] = d.cible /\ Trouve(d, p)
        /\ d.op = "updateItem" => d.rang # 0
    BY <1>1, <1>2, <1>8, <2>1 DEF Suivie, PanierSuivi, Constat
  <2>3. /\ Etape(r, e) /\ Contenu(o)[p] = d.vu
        /\ \E id \in Copies : Pose(d.cible, p, id, q) /\ Lignes(d.cible, p) \subseteq {id}
    BY <1>1, <1>2, <1>5, <1>6, <1>8, <2>2, EcritureFaite
  <2>4. PICK id \in Copies : Pose(d.cible, p, id, q) /\ Lignes(d.cible, p) \subseteq {id}
    BY <2>3
  <2>5. /\ UneLigne'
        /\ \A x \in Proprietaires, y \in Produits :
             Contenu(x)'[y] = IF x = o /\ y = p THEN q ELSE Contenu(x)[y]
    BY <1>2, <1>6, <1>8, <2>2, <2>4, LigneEcrite
  <2>6. d.op = "updateItem" => d.vu # 0
    BY <2>2 DEF Trouve
  <2>7. \A x \in Proprietaires, y \in Produits :
          Contenu(x)'[y] = Effet(d, x, y, Contenu(x)[y])
    BY <1>1, <1>4, <1>6, <2>1, <2>3, <2>5, <2>6 DEF Effet, Quantifiee
  <2>8. Tenu'
    BY <1>2, <1>6, <1>8, <2>7, Repondu, EffetPanier
    DEF FusionPanier, FusionFavoris, Quantifiee, CartOps
  <2> QED
    BY <1>2, <1>3, <2>3, <2>5, <2>8, FidelePas
<1> QED
  BY <1>7, <1>8

\* removeItem empties the rows of its product.
LEMMA RemoveItemFidele ==
  ASSUME Depart, NEW r \in Requetes, RemoveItem(r)
  PROVE  FideleInductif'
<1>1. PICK d, k, p : d = req[r] /\ k = d.cible /\ p = d.p
  OBVIOUS
<1>2. /\ d.pc = "executer" /\ d.op = "removeItem" /\ Conforme(d) /\ ~Libre(r)
      /\ TablesOK /\ TablesOK'
      /\ seul => UneLigne /\ Constat(d) /\ Reste(d) /\ Promis(d) /\ Suivie(d)
      /\ seul' = seul /\ voulu' = voulu /\ UNCHANGED <<panier, favori>>
  BY <1>1, SeulCourant, TemoinsPareils DEF RemoveItem
<1>3. PICK e : e = [pc |-> "libre"]
  OBVIOUS
<1>4. Etape(r, e)
  BY <1>3 DEF RemoveItem, Repond
<1>5. k \in Paniers /\ p \in Produits
  BY <1>1, <1>2 DEF Conforme, Nommee
<1>6. \A j \in Paniers, y \in Produits, n \in Copies :
        ligne'[j][y][n] = IF j = k /\ y = p THEN 0 ELSE ligne[j][y][n]
  BY <1>1, <1>2, <1>5 DEF RemoveItem, TablesOK
<1>7. ASSUME seul
      PROVE  UneLigne' /\ Tenu'
  <2>1. PICK o \in Proprietaires : o = Chez(d)
    BY DEF Chez, Proprietaires
  <2>2. panier[o] = k
    BY <1>1, <1>2, <1>7, <2>1 DEF Suivie, PanierSuivi
  <2>3. UneLigne'
    BY <1>2, <1>6, <1>7 DEF UneLigne, Lignes
  <2>4. Contenu(o)'[p] = 0
    <3>1. Lignes(k, p)' = {}
      BY <1>5, <1>6 DEF Lignes
    <3> QED
      BY <1>2, <1>5, <2>2, <2>3, <3>1 DEF Depart, Valeurs
  <2>5. ASSUME NEW x \in Proprietaires, NEW y \in Produits, ~(x = o /\ y = p)
        PROVE  Contenu(x)'[y] = Contenu(x)[y]
    <3>1. CASE panier[x] = 0
      BY <1>2, <1>7, <2>3, <3>1 DEF Depart, Valeurs
    <3>2. CASE panier[x] # 0
      <4>1. PICK j \in Paniers : j = panier[x]
        BY <3>2, SeulAuDepart
      <4>2. j = k => x = o
        <5>1. ASSUME x # o, j = k
              PROVE  FALSE
          <6>1. panier[x] = k /\ panier[o] = k
            BY <2>2, <4>1, <5>1
          <6>2. CASE x = "session" /\ o = "compte"
            BY <1>2, <1>5, <6>1, <6>2, DeuxPaniers
          <6>3. CASE x = "compte" /\ o = "session"
            BY <1>2, <1>5, <6>1, <6>3, DeuxPaniers
          <6> QED
            BY <5>1, <6>2, <6>3 DEF Proprietaires
        <5> QED
          BY <5>1
      <4>3. \A n \in Copies : ligne'[j][y][n] = ligne[j][y][n]
        BY <1>6, <2>5, <4>1, <4>2
      <4> QED
        BY <1>2, <1>7, <2>3, <4>1, <4>3, ContenuPareil
    <3> QED
      BY <3>1, <3>2
  <2>6. \A x \in Proprietaires, y \in Produits :
          Contenu(x)'[y] = Effet(d, x, y, Contenu(x)[y])
    BY <1>1, <1>2, <2>1, <2>4, <2>5 DEF Effet
  <2>7. Tenu'
    BY <1>2, <1>7, <2>6, Repondu, EffetPanier
    DEF FusionPanier, FusionFavoris, CartOps
  <2> QED
    BY <2>3, <2>7
<1> QED
  BY <1>2, <1>3, <1>4, <1>7, FidelePas

\* A new cart is empty.
LEMMA CreatePanierFidele ==
  ASSUME Depart, NEW r \in Requetes, CreatePanier(r)
  PROVE  FideleInductif'
<1>1. PICK d, o : d = req[r] /\ o = Chez(d)
  OBVIOUS
<1>2. /\ d.pc = "creerPanier" /\ d \in Demandes /\ Conforme(d) /\ ~Libre(r)
      /\ TablesOK /\ TablesOK' /\ o \in Proprietaires /\ o = Proprietaire(r)
      /\ seul => UneLigne /\ Constat(d) /\ Reste(d) /\ Promis(d) /\ Suivie(d)
      /\ seul' = seul /\ voulu' = voulu /\ UNCHANGED <<ligne, favori>>
  BY <1>1, SeulCourant, TemoinsPareils
  DEF CreatePanier, Chez, Proprietaires, Proprietaire
<1>3. CASE ~seul
  <2>1. PICK f : Etape(r, f)
    BY DEF CreatePanier, AvecPanier, Repond
  <2> QED
    BY <1>2, <1>3, <2>1, FidelePas
<1>4. CASE seul
  <2> DEFINE pris == {panier[x] : x \in Proprietaires}
                       \cup UNION {{req[s].cible, req[s].source} :
                                     s \in {s \in Requetes : ~Libre(s)}}
  <2>1. panier[o] = 0
    BY <1>1, <1>2, <1>4 DEF Constat
  <2>2. PICK k : k = Nouveau(Paniers, pris)
    OBVIOUS
  <2>3. /\ panier' = [panier EXCEPT ![o] = k] /\ AvecPanier(r, k)
        /\ Libres(Paniers, pris) # {}
    BY <1>2, <2>1, <2>2 DEF CreatePanier
  <2>4. k \in Paniers /\ k \notin pris
    BY <2>2, <2>3, NouveauLibre DEF Paniers
  <2>5. \A p \in Produits : Lignes(k, p) = {}
    BY <1>2, <2>4 DEF TablesOK, Existe
  <2>6. \A x \in Proprietaires : panier'[x] = IF x = o THEN k ELSE panier[x]
    BY <1>2, <2>3 DEF TablesOK
  <2>7. UneLigne'
    BY <1>2, <1>4 DEF UneLigne, Lignes
  <2>8. ASSUME NEW x \in Proprietaires, NEW p \in Produits
        PROVE  Contenu(x)'[p] = Contenu(x)[p]
    <3>1. CASE x = o
      <4>1. Lignes(k, p)' = {} /\ panier'[x] = k
        BY <1>2, <2>5, <2>6, <3>1 DEF Lignes
      <4>2. Contenu(x)'[p] = 0
        BY <1>2, <2>4, <2>7, <4>1 DEF Depart, Valeurs
      <4>3. Contenu(x)[p] = 0
        BY <1>2, <1>4, <2>1, <3>1 DEF Depart, Valeurs
      <4> QED
        BY <4>2, <4>3
    <3>2. CASE x # o /\ panier[x] = 0
      BY <1>2, <1>4, <2>6, <2>7, <3>2 DEF Depart, Valeurs
    <3>3. CASE x # o /\ panier[x] # 0
      <4>1. PICK j \in Paniers : j = panier[x]
        BY <3>3, SeulAuDepart
      <4>2. panier[x] = j /\ panier'[x] = j
        BY <2>6, <3>3, <4>1
      <4> QED
        BY <1>2, <1>4, <2>7, <4>2, ContenuPareil
    <3> QED
      BY <3>1, <3>2, <3>3
  <2>9. CASE d.op = "getPanier" /\ Repond(r)
    <3>1. PICK e : e = [pc |-> "libre"]
      OBVIOUS
    <3>2. Etape(r, e) /\ e.pc = "libre"
      BY <2>9, <3>1 DEF Repond
    <3>3. \A x \in Proprietaires, y \in Produits :
            Contenu(x)'[y] = Effet(d, x, y, Contenu(x)[y])
      BY <2>8, <2>9 DEF Effet
    <3>4. Tenu'
      BY <1>2, <1>4, <2>9, <3>3, Repondu, EffetPanier
      DEF FusionPanier, FusionFavoris, CartOps
    <3> QED
      BY <1>2, <2>7, <3>2, <3>4, FidelePas
  <2>10. CASE Etape(r, [d EXCEPT !.pc = "executer", !.cible = k])
    <3>1. PICK e : e = [d EXCEPT !.pc = "executer", !.cible = k]
      OBVIOUS
    <3>2. /\ e.pc = "executer" /\ e.h = d.h /\ e.op = d.op /\ e.p = d.p
          /\ e.q = d.q /\ e.rang = d.rang /\ e.vu = d.vu
      BY <1>2, <3>1 DEF Demandes
    <3>3. Constat(e)' /\ Reste(e)'
      BY <1>2, <1>4, <3>2 DEF Constat, Reste, FusionPanier, FusionFavoris
    <3>4. /\ \A x \in Proprietaires, y \in Produits :
               DuPanier(e, x, y)' = DuPanier(d, x, y)
          /\ \A x \in Proprietaires : DesFavoris(e, x)' = DesFavoris(d, x)
      BY <1>2, <2>8, <3>2
      DEF DuPanier, DesFavoris, Aimes, FusionPanier, FusionFavoris
    <3>5. Promis(e)'
      BY <1>2, <1>4, <3>2, <3>4, PromisApres
    <3>6. Etape(r, e)
      BY <2>10, <3>1
    <3> QED
      BY <1>2, <2>7, <3>2, <3>3, <3>5, <3>6, FidelePas
  <2> QED
    BY <1>1, <2>3, <2>9, <2>10 DEF AvecPanier
<1> QED
  BY <1>3, <1>4

----------------------------------------------------------------------------
(* A request at a time: the steps of the favourites.                       *)

\* What the merge of the favourites knows.
LEMMA CoeursLus ==
  ASSUME Depart, seul, NEW r \in Requetes, NEW d, d = req[r],
         d.pc \in FusionFavoris
  PROVE  /\ d.reste \cup d.item \subseteq Coeurs
         /\ \A i, j \in d.item : i = j
         /\ d.item \cap d.reste = {}
         /\ \A i \in d.reste \cup d.item :
              favori["session"][i.p] = i.id /\ i.id # 0 /\ i.p \in Produits
         /\ Aimes("session") = {i.p : i \in d.reste \cup d.item}
         /\ \A i \in d.item, j \in d.reste : j.p # i.p
<1>1. /\ Conforme(d) /\ Suivie(d) /\ Reste(d)
  BY SeulCourant DEF FusionFavoris
<1>2. /\ d.reste \cup d.item \subseteq Coeurs
      /\ \A i, j \in d.item : i = j
      /\ d.item \cap d.reste = {}
      /\ \A i \in d.reste \cup d.item : favori["session"][i.p] = i.id
      /\ Aimes("session") = {i.p : i \in d.reste \cup d.item}
  BY <1>1 DEF Conforme, Suivie, FavorisSuivis, Reste
<1>3. \A i \in d.reste \cup d.item : i.id # 0 /\ i.p \in Produits
  BY <1>2 DEF Coeurs, Favoris
<1>4. ASSUME NEW i \in d.item, NEW j \in d.reste, j.p = i.p
      PROVE  FALSE
  <2>1. i \in Coeurs /\ j \in Coeurs /\ j.id = i.id
    BY <1>2, <1>4
  <2>2. i = j
    BY <1>4, <2>1 DEF Coeurs
  <2> QED
    BY <1>2, <2>2
<1> QED
  BY <1>2, <1>3, <1>4

LEMMA FusionFavoriFidele ==
  ASSUME Depart, NEW r \in Requetes, FusionFavori(r)
  PROVE  FideleInductif'
<1>1. PICK d : d = req[r]
  OBVIOUS
<1>2. /\ d.pc = "fusionFavoris" /\ d \in Demandes /\ Conforme(d) /\ ~Libre(r)
      /\ seul => Constat(d) /\ Reste(d) /\ Promis(d)
      /\ seul' = seul /\ voulu' = voulu /\ UNCHANGED <<panier, ligne, favori>>
  BY <1>1, SeulCourant, TemoinsPareils DEF FusionFavori, tables
<1>3. PICK i \in d.reste :
        Etape(r, [d EXCEPT
          !.pc = IF favori.compte[i.p] # 0 THEN "supprimerFavori"
                                           ELSE "deplacerFavori",
          !.reste = @ \ {i}, !.item = {i}])
  BY <1>1 DEF FusionFavori
<1>4. PICK e : e = [d EXCEPT
                 !.pc = IF favori.compte[i.p] # 0 THEN "supprimerFavori"
                                                  ELSE "deplacerFavori",
                 !.reste = @ \ {i}, !.item = {i}]
  OBVIOUS
<1>5. /\ e.pc = IF favori.compte[i.p] # 0 THEN "supprimerFavori"
                                          ELSE "deplacerFavori"
      /\ e.h = d.h /\ e.op = d.op /\ e.p = d.p /\ e.q = d.q
      /\ e.reste = d.reste \ {i} /\ e.item = {i} /\ e.rang = d.rang
      /\ e.vu = d.vu
  BY <1>2, <1>4 DEF Demandes
<1>6. Etape(r, e) /\ d.item = {} /\ e.reste \cup e.item = d.reste \cup d.item
  BY <1>2, <1>3, <1>4, <1>5 DEF Conforme
<1>7. ASSUME seul
      PROVE  Constat(e) /\ Reste(e) /\ Promis(e)
  <2>1. Constat(e)
    BY <1>2, <1>5, <1>7 DEF Constat
  <2>2. Reste(e)
    BY <1>2, <1>5, <1>6, <1>7 DEF Reste, FusionPanier, FusionFavoris
  <2>3. /\ \A o \in Proprietaires, p \in Produits :
             DuPanier(e, o, p) = DuPanier(d, o, p)
        /\ \A o \in Proprietaires : DesFavoris(e, o) = DesFavoris(d, o)
    BY <1>2, <1>5, <1>6 DEF DuPanier, DesFavoris, FusionPanier, FusionFavoris
  <2>4. Promis(e)
    BY <1>2, <1>5, <1>7, <2>3, PromisPareil
  <2> QED
    BY <2>1, <2>2, <2>4
<1> QED
  BY <1>2, <1>5, <1>6, <1>7, FideleSansTable

\* A favourite of the session was merged, and the loop goes on.
LEMMA ContinueFidele ==
  ASSUME Depart, NEW r \in Requetes, Continue(r),
         NEW d, d = req[r], d.pc \in {"supprimerFavori", "deplacerFavori"},
         seul' = seul, voulu' = voulu, UNCHANGED <<panier, ligne>>,
         seul => \E i \in d.item :
                   /\ Aimes("session")' = Aimes("session") \ {i.p}
                   /\ Aimes("compte")' = Aimes("compte") \cup {i.p}
  PROVE  FideleInductif'
<1>1. /\ d \in Demandes /\ ~Libre(r)
      /\ seul => Constat(d) /\ Promis(d)
  BY SeulCourant
<1>2. PICK e : e = [d EXCEPT !.pc = "fusionFavoris", !.item = {}]
  OBVIOUS
<1>3. /\ e.pc = "fusionFavoris" /\ e.h = d.h /\ e.op = d.op /\ e.p = d.p
      /\ e.q = d.q /\ e.reste = d.reste /\ e.item = {} /\ e.rang = d.rang
      /\ e.vu = d.vu
  BY <1>1, <1>2 DEF Demandes
<1>4. Etape(r, e)
  BY <1>2 DEF Continue
<1>5. ASSUME seul
      PROVE  UneLigne' /\ Constat(e)' /\ Reste(e)' /\ Promis(e)'
  <2>1. PICK i \in d.item :
          /\ Aimes("session")' = Aimes("session") \ {i.p}
          /\ Aimes("compte")' = Aimes("compte") \cup {i.p}
    BY <1>5
  <2>2. /\ d.item = {i} /\ Aimes("session") = {j.p : j \in d.reste \cup d.item}
        /\ \A j \in d.reste : j.p # i.p
    BY <1>5, CoeursLus DEF FusionFavoris
  <2>3. /\ UneLigne'
        /\ \A o \in Proprietaires, p \in Produits :
             Contenu(o)'[p] = Contenu(o)[p]
    BY <1>5, ContenusPareils
  <2>4. Constat(e)'
    BY <1>1, <1>3, <1>5 DEF Constat
  <2>5. Aimes("session")' = {j.p : j \in e.reste \cup e.item}
    BY <1>3, <2>1, <2>2
  <2>6. Reste(e)'
    BY <1>3, <2>5 DEF Reste, FusionPanier
  <2>7. \A o \in Proprietaires : DesFavoris(e, o)' = DesFavoris(d, o)
    <3>1. /\ DesFavoris(e, "session")' = {} /\ DesFavoris(d, "session") = {}
          /\ DesFavoris(e, "compte")'
               = Aimes("compte")' \cup {j.p : j \in e.reste \cup e.item}
          /\ DesFavoris(d, "compte")
               = Aimes("compte") \cup {j.p : j \in d.reste \cup d.item}
      BY <1>3 DEF DesFavoris, FusionFavoris
    <3>2. DesFavoris(e, "compte")' = DesFavoris(d, "compte")
      <4>1. {j.p : j \in d.reste \cup d.item}
              = {i.p} \cup {j.p : j \in e.reste \cup e.item}
        BY <1>3, <2>2
      <4>2. PICK F : F = {j.p : j \in e.reste \cup e.item}
        OBVIOUS
      <4>3. /\ DesFavoris(e, "compte")' = Aimes("compte") \cup {i.p} \cup F
            /\ DesFavoris(d, "compte") = Aimes("compte") \cup ({i.p} \cup F)
        BY <2>1, <3>1, <4>1, <4>2
      <4> QED
        BY <4>3
    <3> QED
      BY <3>1, <3>2 DEF Proprietaires
  <2>8. \A o \in Proprietaires, p \in Produits :
          DuPanier(e, o, p)' = DuPanier(d, o, p)
    BY <1>3, <2>3 DEF DuPanier, FusionPanier
  <2>9. Promis(e)'
    BY <1>1, <1>3, <1>5, <2>7, <2>8, PromisApres
  <2> QED
    BY <2>3, <2>4, <2>6, <2>9
<1> QED
  BY <1>1, <1>3, <1>4, <1>5, FidelePas

LEMMA FusionSupprimerFavoriFidele ==
  ASSUME Depart, NEW r \in Requetes, FusionSupprimerFavori(r)
  PROVE  FideleInductif'
<1>1. PICK d : d = req[r]
  OBVIOUS
<1>2. /\ d.pc = "supprimerFavori" /\ ~Libre(r) /\ TablesOK
      /\ seul => Constat(d)
      /\ seul' = seul /\ voulu' = voulu /\ UNCHANGED <<panier, ligne>>
  BY <1>1, SeulCourant, TemoinsPareils DEF FusionSupprimerFavori
<1>3. CASE ~seul
  <2>1. PICK f : Etape(r, f)
    BY DEF FusionSupprimerFavori, Continue, Repond
  <2> QED
    BY <1>2, <1>3, <2>1, FidelePas
<1>4. CASE seul
  <2>1. PICK i \in d.item :
          \/ \E o \in Proprietaires : /\ Tient(o, i)
                                      /\ favori' = [favori EXCEPT ![o][i.p] = 0]
                                      /\ Continue(r)
          \/ \A o \in Proprietaires : ~Tient(o, i)
    BY <1>1 DEF FusionSupprimerFavori
  <2>2. /\ favori["session"][i.p] = i.id /\ i.id # 0 /\ i.p \in Produits
        /\ favori["compte"][i.p] # 0
    BY <1>1, <1>2, <1>4, CoeursLus DEF FusionFavoris, Constat
  <2>3. Tient("session", i) /\ ~Tient("compte", i) /\ "session" \in Proprietaires
    BY <1>2, <2>2 DEF Tient, TablesOK, Proprietaires
  <2>4. favori' = [favori EXCEPT !["session"][i.p] = 0] /\ Continue(r)
    BY <2>1, <2>3 DEF Proprietaires
  <2>5. /\ \A p \in Produits :
             favori'["session"][p] = IF p = i.p THEN 0 ELSE favori["session"][p]
        /\ \A p \in Produits : favori'["compte"][p] = favori["compte"][p]
    BY <1>2, <2>2, <2>4 DEF TablesOK, Proprietaires
  <2>6. /\ Aimes("session")' = Aimes("session") \ {i.p}
        /\ Aimes("compte")' = Aimes("compte") \cup {i.p}
    BY <2>2, <2>5 DEF Aimes
  <2> QED
    BY <1>1, <1>2, <2>4, <2>6, ContinueFidele
<1> QED
  BY <1>3, <1>4

LEMMA FusionDeplacerFavoriFidele ==
  ASSUME Depart, NEW r \in Requetes, FusionDeplacerFavori(r)
  PROVE  FideleInductif'
<1>1. PICK d : d = req[r]
  OBVIOUS
<1>2. /\ d.pc = "deplacerFavori" /\ ~Libre(r) /\ TablesOK
      /\ seul => Constat(d)
      /\ seul' = seul /\ voulu' = voulu /\ UNCHANGED <<panier, ligne>>
  BY <1>1, SeulCourant, TemoinsPareils DEF FusionDeplacerFavori
<1>3. CASE ~seul
  <2>1. PICK f : Etape(r, f)
    BY DEF FusionDeplacerFavori, Continue, Repond
  <2> QED
    BY <1>2, <1>3, <2>1, FidelePas
<1>4. CASE seul
  <2>1. PICK i \in d.item :
          \/ /\ favori' = [favori EXCEPT !.session[i.p] = 0, !.compte[i.p] = i.id]
             /\ Continue(r)
          \/ Tient("compte", i)
          \/ ~Tient("session", i) \/ favori.compte[i.p] # 0
    BY <1>1 DEF FusionDeplacerFavori
  <2>2. /\ favori["session"][i.p] = i.id /\ i.id # 0 /\ i.p \in Produits
        /\ favori["compte"][i.p] = 0
    BY <1>1, <1>2, <1>4, CoeursLus DEF FusionFavoris, Constat
  <2>3. /\ favori' = [favori EXCEPT !.session[i.p] = 0, !.compte[i.p] = i.id]
        /\ Continue(r)
    BY <2>1, <2>2 DEF Tient
  <2>4. /\ \A p \in Produits :
             favori'["session"][p] = IF p = i.p THEN 0 ELSE favori["session"][p]
        /\ \A p \in Produits :
             favori'["compte"][p] = IF p = i.p THEN i.id ELSE favori["compte"][p]
    BY <1>2, <2>2, <2>3 DEF TablesOK, Proprietaires
  <2>5. /\ Aimes("session")' = Aimes("session") \ {i.p}
        /\ Aimes("compte")' = Aimes("compte") \cup {i.p}
    BY <2>2, <2>4 DEF Aimes
  <2> QED
    BY <1>1, <1>2, <2>3, <2>5, ContinueFidele
<1> QED
  BY <1>3, <1>4

LEMMA FusionFavorisFinFidele ==
  ASSUME Depart, NEW r \in Requetes, FusionFavorisFin(r)
  PROVE  FideleInductif'
<1>1. PICK d : d = req[r]
  OBVIOUS
<1>2. /\ d.pc = "fusionFavoris" /\ ~Libre(r) /\ d.reste = {} /\ Conforme(d)
      /\ Fusionnee(r)
      /\ seul' = seul /\ voulu' = voulu /\ UNCHANGED <<panier, ligne, favori>>
  BY <1>1, SeulCourant, TemoinsPareils DEF FusionFavorisFin, tables
<1>3. ASSUME seul
      PROVE  /\ UneLigne'
             /\ \A o \in Proprietaires, p \in Produits :
                  Contenu(o)'[p] = DuPanier(d, o, p)
             /\ \A o \in Proprietaires : Aimes(o)' = DesFavoris(d, o)
  <2>1. /\ UneLigne'
        /\ \A o \in Proprietaires, p \in Produits : Contenu(o)'[p] = Contenu(o)[p]
    BY <1>2, <1>3, ContenusPareils
  <2>2. d.item = {} /\ Aimes("session") = {}
    BY <1>1, <1>2, <1>3, CoeursLus DEF Conforme, FusionFavoris
  <2>3. \A o \in Proprietaires : Aimes(o)' = DesFavoris(d, o)
    <3>1. DesFavoris(d, "session") = {} /\ DesFavoris(d, "compte") = Aimes("compte")
      BY <1>2, <2>2 DEF DesFavoris, FusionFavoris
    <3>2. \A o \in Proprietaires : Aimes(o)' = Aimes(o)
      BY <1>2 DEF Aimes
    <3> QED
      BY <2>2, <3>1, <3>2 DEF Proprietaires
  <2> QED
    BY <1>2, <2>1, <2>3 DEF DuPanier, FusionPanier
<1> QED
  BY <1>1, <1>2, <1>3, FusionneeFidele DEF FusionFavoris

\* A favourites request that has merged answers.
LEMMA ReponseFavoris ==
  ASSUME Depart, NEW r \in Requetes, NEW d, d = req[r],
         d.pc \in {"trouver", "creerFavori"}, d.op \in FavoriteOps, Repond(r),
         seul' = seul, voulu' = voulu, UNCHANGED <<panier, ligne>>,
         seul => \A o \in Proprietaires :
                   Aimes(o)' = EffetFavoris(d, o, Aimes(o))
  PROVE  FideleInductif'
<1>1. PICK e : e = [pc |-> "libre"]
  OBVIOUS
<1>2. Etape(r, e) /\ ~Libre(r) /\ (seul => Promis(d))
  BY <1>1, SeulCourant DEF Repond
<1>3. ASSUME seul
      PROVE  UneLigne' /\ Tenu'
  <2>1. /\ UneLigne'
        /\ \A o \in Proprietaires, p \in Produits : Contenu(o)'[p] = Contenu(o)[p]
    BY <1>3, ContenusPareils
  <2>2. \A o \in Proprietaires, p \in Produits :
          Contenu(o)'[p] = Effet(d, o, p, Contenu(o)[p])
    BY <2>1 DEF Effet, FavoriteOps
  <2>3. Tenu'
    BY <1>2, <1>3, <2>2, Repondu DEF FusionPanier, FusionFavoris
  <2> QED
    BY <2>1, <2>3
<1> QED
  BY <1>1, <1>2, <1>3, FidelePas

LEMMA FindFavoriFidele ==
  ASSUME Depart, NEW r \in Requetes, FindFavori(r)
  PROVE  FideleInductif'
<1>1. PICK d, o : d = req[r] /\ o = Chez(d)
  OBVIOUS
<1>2. /\ d.pc = "trouver" /\ d \in Demandes /\ Conforme(d) /\ ~Libre(r)
      /\ d.op \in {"list", "add"} /\ o = Proprietaire(r)
      /\ seul => Constat(d) /\ Promis(d)
      /\ seul' = seul /\ voulu' = voulu /\ UNCHANGED <<panier, ligne, favori>>
  BY <1>1, SeulCourant, TemoinsPareils
  DEF FindFavori, tables, Chez, Proprietaire
<1>3. CASE d.op = "add" /\ favori[o][d.p] = 0 /\ Va(r, "creerFavori")
  <2>1. PICK e : e = [d EXCEPT !.pc = "creerFavori"]
    OBVIOUS
  <2>2. Etape(r, e)
    BY <1>1, <1>3, <2>1 DEF Va
  <2>3. /\ e.pc = "creerFavori" /\ e.h = d.h /\ e.op = d.op /\ e.p = d.p
        /\ e.q = d.q /\ e.rang = d.rang /\ e.vu = d.vu
    BY <1>2, <2>1 DEF Demandes
  <2>4. seul => Promis(e) /\ Reste(e)
    BY <1>2, <2>3, PlusLoin DEF FusionPanier, FusionFavoris
  <2>5. seul => Constat(e)
    BY <1>1, <1>2, <1>3, <2>3 DEF Constat, Chez
  <2> QED
    BY <1>2, <2>2, <2>3, <2>4, <2>5, FideleSansTable
<1>4. CASE ~(d.op = "add" /\ favori[o][d.p] = 0) /\ Repond(r)
  <2>1. d.op = "add" => d.p \in Aimes(o)
    BY <1>2, <1>4 DEF Aimes, Conforme, Nommee
  <2>2. \A x \in Proprietaires : Aimes(x)' = EffetFavoris(d, x, Aimes(x))
    <3>1. \A x \in Proprietaires : Aimes(x)' = Aimes(x)
      BY <1>2 DEF Aimes
    <3>2. ASSUME NEW x \in Proprietaires
          PROVE  EffetFavoris(d, x, Aimes(x)) = Aimes(x)
      <4>1. CASE x = o /\ d.op = "add"
        BY <1>1, <2>1, <4>1 DEF EffetFavoris
      <4>2. CASE x # o \/ d.op = "list"
        BY <1>1, <4>2 DEF EffetFavoris
      <4> QED
        BY <1>2, <4>1, <4>2
    <3> QED
      BY <3>1, <3>2
  <2> QED
    BY <1>1, <1>2, <1>4, <2>2, ReponseFavoris DEF FavoriteOps
<1> QED
  BY <1>1, <1>2, <1>3, <1>4 DEF FindFavori

LEMMA CreateFavoriFidele ==
  ASSUME Depart, NEW r \in Requetes, CreateFavori(r)
  PROVE  FideleInductif'
<1>1. PICK d, o, p : d = req[r] /\ o = Chez(d) /\ p = d.p
  OBVIOUS
<1>2. /\ d.pc = "creerFavori" /\ d.op = "add" /\ p \in Produits /\ Repond(r)
      /\ o \in Proprietaires /\ o = Proprietaire(r) /\ TablesOK
      /\ seul => Constat(d)
      /\ seul' = seul /\ voulu' = voulu /\ UNCHANGED <<panier, ligne>>
  BY <1>1, SeulCourant, TemoinsPareils
  DEF CreateFavori, Chez, Proprietaire, Proprietaires, Conforme, Nommee
<1> DEFINE retenus == UNION {{i.id : i \in req[s].reste \cup req[s].item} :
             s \in {s \in Requetes : ~Libre(s) /\ req[s].op \in FavoriteOps}}
           pris == {favori[x][req[r].p] : x \in Proprietaires} \cup retenus
<1>3. PICK id : id = Nouveau(Favoris, pris)
  OBVIOUS
<1>4. id # 0
  BY <1>3, NouveauLibre DEF CreateFavori, Favoris
<1>5. favori' = [favori EXCEPT ![o][p] = IF @ = 0 THEN id ELSE @]
  BY <1>1, <1>2, <1>3 DEF CreateFavori
<1>6. \A x \in Proprietaires, y \in Produits :
        favori'[x][y] = IF x = o /\ y = p /\ favori[x][y] = 0 THEN id
                                                              ELSE favori[x][y]
  BY <1>2, <1>5 DEF TablesOK
<1>7. ASSUME NEW x \in Proprietaires
      PROVE  Aimes(x)' = EffetFavoris(d, x, Aimes(x))
  <2>1. CASE x = o
    <3>1. Aimes(x)' = Aimes(x) \cup {p}
      BY <1>2, <1>4, <1>6, <2>1 DEF Aimes
    <3> QED
      BY <1>1, <1>2, <2>1, <3>1 DEF EffetFavoris
  <2>2. CASE x # o
    <3>1. Aimes(x)' = Aimes(x)
      BY <1>6, <2>2 DEF Aimes
    <3> QED
      BY <1>1, <2>2, <3>1 DEF EffetFavoris
  <2> QED
    BY <2>1, <2>2
<1> QED
  BY <1>1, <1>2, <1>7, ReponseFavoris DEF FavoriteOps

LEMMA RemoveFavoriFidele ==
  ASSUME Depart, NEW r \in Requetes, RemoveFavori(r)
  PROVE  FideleInductif'
<1>1. PICK d, o, p : d = req[r] /\ o = Chez(d) /\ p = d.p
  OBVIOUS
<1>2. /\ d.pc = "trouver" /\ d.op = "remove" /\ p \in Produits /\ Repond(r)
      /\ o \in Proprietaires /\ o = Proprietaire(r) /\ TablesOK
      /\ seul' = seul /\ voulu' = voulu /\ UNCHANGED <<panier, ligne>>
  BY <1>1, SeulCourant, TemoinsPareils
  DEF RemoveFavori, Chez, Proprietaire, Proprietaires, Conforme, Nommee
<1>3. \A x \in Proprietaires, y \in Produits :
        favori'[x][y] = IF x = o /\ y = p THEN 0 ELSE favori[x][y]
  BY <1>1, <1>2 DEF RemoveFavori, TablesOK
<1>4. ASSUME NEW x \in Proprietaires
      PROVE  Aimes(x)' = EffetFavoris(d, x, Aimes(x))
  <2>1. CASE x = o
    <3>1. Aimes(x)' = Aimes(x) \ {p}
      BY <1>2, <1>3, <2>1 DEF Aimes
    <3> QED
      BY <1>1, <1>2, <2>1, <3>1 DEF EffetFavoris
  <2>2. CASE x # o
    <3>1. Aimes(x)' = Aimes(x)
      BY <1>3, <2>2 DEF Aimes
    <3> QED
      BY <1>1, <2>2, <3>1 DEF EffetFavoris
  <2> QED
    BY <2>1, <2>2
<1> QED
  BY <1>1, <1>2, <1>4, ReponseFavoris DEF FavoriteOps

----------------------------------------------------------------------------
(* A request at a time: requests arrive.                                   *)

\* Applique does what the operation is to do.
LEMMA AppliqueVaut ==
  ASSUME NEW d, NEW w \in VouluT, d.op \in CartOps \cup FavoriteOps,
         d.op \in Nommee => d.p \in Produits, d.q \in Nat, NEW a,
         a = Applique(w, Chez(d), d.op, d.p, d.q)
  PROVE  /\ a \in VouluT
         /\ \A o \in Proprietaires, p \in Produits :
              a.panier[o][p] = Effet(d, o, p, w.panier[o][p])
         /\ \A o \in Proprietaires :
              a.favori[o] = EffetFavoris(d, o, w.favori[o])
<1>1. PICK c : c = Chez(d)
  OBVIOUS
<1>2. c \in Proprietaires
  BY <1>1 DEF Chez, Proprietaires
<1>3. CASE d.op \in Quantifiee \cup {"removeItem"}
  <2>1. d.p \in Produits
    BY <1>3 DEF Nommee
  <2>2. PICK n \in Nat : a = [w EXCEPT !.panier[c][d.p] = n]
                         /\ n = Effet(d, c, d.p, w.panier[c][d.p])
    <3>0. w.panier[c][d.p] \in Nat
      BY <1>2, <2>1 DEF VouluT
    <3>1. CASE d.op = "addItem"
      BY <1>1, <1>2, <3>0, <3>1 DEF Applique, Effet
    <3>2. CASE d.op = "updateItem"
      BY <1>1, <1>2, <3>0, <3>2 DEF Applique, Effet
    <3>3. CASE d.op = "removeItem"
      BY <1>1, <1>2, <3>0, <3>3 DEF Applique, Effet
    <3> QED
      BY <1>3, <3>1, <3>2, <3>3 DEF Quantifiee
  <2>3. /\ a \in VouluT /\ a.favori = w.favori
        /\ \A o \in Proprietaires, p \in Produits :
             a.panier[o][p] = IF o = c /\ p = d.p THEN n ELSE w.panier[o][p]
    <3>1. PICK g : g = [w.panier EXCEPT ![c][d.p] = n]
      OBVIOUS
    <3>2. w.panier \in [Proprietaires -> [Produits -> Nat]]
      BY DEF VouluT
    <3>3. g \in [Proprietaires -> [Produits -> Nat]]
      BY <1>2, <2>1, <3>1, <3>2
    <3>4. a = [w EXCEPT !.panier = g]
      BY <2>2, <3>1
    <3>5. a \in VouluT /\ a.favori = w.favori /\ a.panier = g
      BY <3>3, <3>4 DEF VouluT
    <3>6. \A o \in Proprietaires, p \in Produits :
            g[o][p] = IF o = c /\ p = d.p THEN n ELSE w.panier[o][p]
      BY <1>2, <2>1, <3>1, <3>2
    <3> QED
      BY <3>5, <3>6
  <2>4. \A o \in Proprietaires, p \in Produits :
          a.panier[o][p] = Effet(d, o, p, w.panier[o][p])
    BY <1>1, <2>2, <2>3 DEF Effet
  <2>5. \A o \in Proprietaires : a.favori[o] = EffetFavoris(d, o, w.favori[o])
    BY <1>3, <2>3 DEF EffetFavoris, Quantifiee
  <2> QED
    BY <2>3, <2>4, <2>5
<1>4. CASE d.op \in {"add", "remove"}
  <2>1. d.p \in Produits
    BY <1>4 DEF Nommee
  <2>2. PICK f \in SUBSET Produits :
          a = [w EXCEPT !.favori[c] = f] /\ f = EffetFavoris(d, c, w.favori[c])
    <3>0. w.favori[c] \in SUBSET Produits
      BY <1>2 DEF VouluT
    <3>1. CASE d.op = "add"
      <4>1. a = [w EXCEPT !.favori[c] = w.favori[c] \cup {d.p}]
        BY <1>1, <3>1 DEF Applique
      <4>2. EffetFavoris(d, c, w.favori[c]) = w.favori[c] \cup {d.p}
        BY <1>1, <3>1 DEF EffetFavoris
      <4> QED
        BY <2>1, <3>0, <4>1, <4>2
    <3>2. CASE d.op = "remove"
      BY <1>1, <1>2, <3>0, <3>2 DEF Applique, EffetFavoris
    <3> QED
      BY <1>4, <3>1, <3>2
  <2>3. /\ a \in VouluT /\ a.panier = w.panier
        /\ \A o \in Proprietaires : a.favori[o] = IF o = c THEN f ELSE w.favori[o]
    BY <1>2, <2>2 DEF VouluT
  <2>4. \A o \in Proprietaires : a.favori[o] = EffetFavoris(d, o, w.favori[o])
    BY <1>1, <2>2, <2>3 DEF EffetFavoris
  <2>5. \A o \in Proprietaires, p \in Produits :
          a.panier[o][p] = Effet(d, o, p, w.panier[o][p])
    BY <1>4, <2>3 DEF Effet
  <2> QED
    BY <2>3, <2>4, <2>5
<1>5. CASE d.op \in {"getPanier", "list"}
  <2>1. a = w
    BY <1>5 DEF Applique
  <2> QED
    BY <1>5, <2>1 DEF Effet, EffetFavoris
<1> QED
  BY <1>3, <1>4, <1>5 DEF CartOps, FavoriteOps, Quantifiee

\* What the owners should have once the merge is done.
PanierVerse(d, v, o, p) ==
  IF ~(d.h = "deux" /\ d.op \in CartOps) THEN v.panier[o][p]
  ELSE IF o = "session" THEN 0
  ELSE v.panier["session"][p] + v.panier["compte"][p]

FavorisVerses(d, v, o) ==
  IF ~(d.h = "deux" /\ d.op \in FavoriteOps) THEN v.favori[o]
  ELSE IF o = "session" THEN {}
  ELSE v.favori["session"] \cup v.favori["compte"]

LEMMA AttenduVaut ==
  ASSUME NEW d, NEW v \in VouluT, d.op \in CartOps \cup FavoriteOps,
         d.op \in Nommee => d.p \in Produits, d.q \in Nat, NEW a,
         a = Attendu(v, d.h, d.op, d.p, d.q)
  PROVE  /\ a \in VouluT
         /\ \A o \in Proprietaires, p \in Produits :
              a.panier[o][p] = Effet(d, o, p, PanierVerse(d, v, o, p))
         /\ \A o \in Proprietaires :
              a.favori[o] = EffetFavoris(d, o, FavorisVerses(d, v, o))
<1>1. PICK w : w = IF d.h = "deux"
                     THEN [v EXCEPT ![IF d.op \in FavoriteOps THEN "favori"
                                                              ELSE "panier"]
                             = Fusionne(v)[IF d.op \in FavoriteOps
                                             THEN "favori" ELSE "panier"]]
                     ELSE v
  OBVIOUS
<1>2. a = Applique(w, Chez(d), d.op, d.p, d.q)
  BY <1>1 DEF Attendu, Chez
<1>3. /\ v.panier \in [Proprietaires -> [Produits -> Nat]]
      /\ v.favori \in [Proprietaires -> SUBSET Produits]
      /\ "session" \in Proprietaires /\ "compte" \in Proprietaires
      /\ CartOps \cap FavoriteOps = {}
  BY DEF VouluT, Proprietaires, CartOps, FavoriteOps
<1>4. /\ w \in VouluT
      /\ \A o \in Proprietaires, p \in Produits :
           w.panier[o][p] = PanierVerse(d, v, o, p)
      /\ \A o \in Proprietaires : w.favori[o] = FavorisVerses(d, v, o)
  <2>1. CASE d.h # "deux"
    BY <1>1, <2>1 DEF PanierVerse, FavorisVerses
  <2>2. CASE d.h = "deux" /\ d.op \in CartOps
    <3>1. PICK g : g = Fusionne(v).panier
      OBVIOUS
    <3>2. \A p \in Produits :
            v.panier["session"][p] \in Nat /\ v.panier["compte"][p] \in Nat
      BY <1>3
    <3>3. g = [session |-> [p \in Produits |-> 0],
               compte |-> [p \in Produits |->
                             v.panier.session[p] + v.panier.compte[p]]]
      BY <3>1 DEF Fusionne
    <3>4. g \in [Proprietaires -> [Produits -> Nat]]
      BY <3>2, <3>3 DEF Proprietaires
    <3>5. w = [v EXCEPT !["panier"] = g]
      BY <1>1, <1>3, <2>2, <3>1
    <3>6. w \in VouluT /\ w.panier = g /\ w.favori = v.favori
      BY <3>4, <3>5 DEF VouluT
    <3>7. \A o \in Proprietaires, p \in Produits :
            g[o][p] = PanierVerse(d, v, o, p)
      BY <2>2, <3>3 DEF PanierVerse, Proprietaires
    <3> QED
      BY <1>3, <2>2, <3>6, <3>7 DEF FavorisVerses
  <2>3. CASE d.h = "deux" /\ d.op \in FavoriteOps
    <3>1. PICK g : g = Fusionne(v).favori
      OBVIOUS
    <3>3. g = [session |-> {}, compte |-> v.favori.session \cup v.favori.compte]
      BY <3>1 DEF Fusionne
    <3>4. g \in [Proprietaires -> SUBSET Produits]
      BY <1>3, <3>3 DEF Proprietaires
    <3>5. w = [v EXCEPT !["favori"] = g]
      BY <1>1, <2>3, <3>1
    <3>6. w \in VouluT /\ w.favori = g /\ w.panier = v.panier
      BY <3>4, <3>5 DEF VouluT
    <3>7. \A o \in Proprietaires : g[o] = FavorisVerses(d, v, o)
      BY <2>3, <3>3 DEF FavorisVerses, Proprietaires
    <3> QED
      BY <1>3, <2>3, <3>6, <3>7 DEF PanierVerse
  <2> QED
    BY <2>1, <2>2, <2>3
<1>5. /\ a \in VouluT
      /\ \A o \in Proprietaires, p \in Produits :
           a.panier[o][p] = Effet(d, o, p, w.panier[o][p])
      /\ \A o \in Proprietaires :
           a.favori[o] = EffetFavoris(d, o, w.favori[o])
  BY <1>2, <1>4, AppliqueVaut
<1>6. ASSUME NEW o \in Proprietaires, NEW p \in Produits
      PROVE  a.panier[o][p] = Effet(d, o, p, PanierVerse(d, v, o, p))
  BY <1>4, <1>5
<1>7. ASSUME NEW o \in Proprietaires
      PROVE  a.favori[o] = EffetFavoris(d, o, FavorisVerses(d, v, o))
  BY <1>4, <1>5
<1> QED
  BY <1>5, <1>6, <1>7

\* A request that arrives alone finds what the last one left, and promises its
\* own effect.
LEMMA ArriveFidele ==
  ASSUME Depart, NEW r \in Requetes, NEW e, e.pc # "libre",
         Arrive(r, e.h, e.op, e.p, e.q), Etape(r, e),
         UNCHANGED <<panier, ligne, favori>>, e.op \in CartOps \cup FavoriteOps,
         e.op \in Nommee => e.p \in Produits, e.q \in Nat,
         seul =>
           /\ Constat(e)' /\ Reste(e)'
           /\ \A o \in Proprietaires, p \in Produits :
                DuPanier(e, o, p) =
                  IF ~(e.h = "deux" /\ e.op \in CartOps) THEN Contenu(o)[p]
                  ELSE IF o = "session" THEN 0
                  ELSE Contenu("session")[p] + Contenu("compte")[p]
           /\ \A o \in Proprietaires :
                DesFavoris(e, o) =
                  IF ~(e.h = "deux" /\ e.op \in FavoriteOps) THEN Aimes(o)
                  ELSE IF o = "session" THEN {}
                  ELSE Aimes("session") \cup Aimes("compte")
  PROVE  FideleInductif'
<1>1. /\ \A s \in Requetes \ {r} : req'[s] = req[s]
      /\ req'[r] = e /\ Libre(r)
  BY DEF Depart, FideleInductif, SuiviInductif, TypeInductif, RequetesOK, Etape,
         Arrive
<1>2. CASE ~seul'
  <2>1. voulu' \in VouluT
    BY <1>2 DEF Arrive, RienVoulu, VouluT
  <2> QED
    BY <1>2, <2>1 DEF Depart, FideleInductif, Fidele
<1>3. CASE seul'
  <2>1. /\ seul /\ AuRepos /\ voulu' = Attendu(voulu, e.h, e.op, e.p, e.q)
    BY <1>3 DEF Arrive
  <2>2. Tenu /\ voulu \in VouluT
    BY <2>1 DEF Depart, FideleInductif, Fidele
  <2>3. PICK a : a = voulu'
    OBVIOUS
  <2>4. PICK v : v = voulu
    OBVIOUS
  <2>5. /\ a \in VouluT
        /\ \A o \in Proprietaires, p \in Produits :
             a.panier[o][p] = Effet(e, o, p, PanierVerse(e, v, o, p))
        /\ \A o \in Proprietaires :
             a.favori[o] = EffetFavoris(e, o, FavorisVerses(e, v, o))
    BY <2>1, <2>2, <2>3, <2>4, AttenduVaut
  <2>6. /\ \A o \in Proprietaires, p \in Produits :
             v.panier[o][p] = Contenu(o)[p]
        /\ \A o \in Proprietaires : v.favori[o] = Aimes(o)
        /\ "session" \in Proprietaires /\ "compte" \in Proprietaires
    BY <2>2, <2>4 DEF Tenu, Proprietaires
  <2>7. /\ \A o \in Proprietaires, p \in Produits :
             PanierVerse(e, v, o, p) = DuPanier(e, o, p)
        /\ \A o \in Proprietaires : FavorisVerses(e, v, o) = DesFavoris(e, o)
    <3>1. ASSUME NEW o \in Proprietaires, NEW p \in Produits
          PROVE  PanierVerse(e, v, o, p) = DuPanier(e, o, p)
      BY <2>1, <2>6 DEF PanierVerse
    <3>2. ASSUME NEW o \in Proprietaires
          PROVE  FavorisVerses(e, v, o) = DesFavoris(e, o)
      BY <2>1, <2>6 DEF FavorisVerses
    <3> QED
      BY <3>1, <3>2
  <2>8. /\ UneLigne'
        /\ \A o \in Proprietaires, p \in Produits : Contenu(o)'[p] = Contenu(o)[p]
    BY <2>1, ContenusPareils
  <2>9. /\ \A o \in Proprietaires, p \in Produits :
             DuPanier(e, o, p)' = DuPanier(e, o, p)
        /\ \A o \in Proprietaires : DesFavoris(e, o)' = DesFavoris(e, o)
    BY <2>6, <2>8 DEF DuPanier, DesFavoris, AMerger, Aimes
  <2>10. Promis(e)'
    BY <2>3, <2>5, <2>7, <2>9, PromisSuivant
  <2>11. Constat(e)' /\ Reste(e)'
    BY <2>1
  <2>12. \A s \in Requetes \ {r} : Libre(s)'
    BY <1>1, <2>1 DEF AuRepos, Libre
  <2>13. ~AuRepos'
    BY <1>1 DEF AuRepos, Libre
  <2>14. ASSUME NEW s \in Requetes, ~Libre(s)'
         PROVE  Seule(s)' /\ Constat(req[s])' /\ Reste(req[s])' /\ Promis(req[s])'
    <3>1. s = r /\ req'[s] = e
      BY <1>1, <2>12, <2>14
    <3>2. Seule(s)'
      BY <2>12, <3>1 DEF Seule
    <3>3. Constat(req[s])'
      BY <2>11, <3>1 DEF Constat, Trouve, Chez
    <3>4. Reste(req[s])'
      BY <2>11, <3>1 DEF Reste, AMerger
    <3>5. Promis(req[s])'
      <4>1. /\ \A o \in Proprietaires, p \in Produits :
                 DuPanier(req[s], o, p)' = DuPanier(e, o, p)'
            /\ \A o \in Proprietaires : DesFavoris(req[s], o)' = DesFavoris(e, o)'
        BY <3>1 DEF DuPanier, DesFavoris, AMerger
      <4>2. Promis(req[s])' <=>
             \A o \in Proprietaires :
               /\ \A p \in Produits :
                    voulu'.panier[o][p] = Effet(e, o, p, DuPanier(req[s], o, p)')
               /\ voulu'.favori[o] = EffetFavoris(e, o, DesFavoris(req[s], o)')
        BY <3>1 DEF Promis, Effet, EffetFavoris, Chez
      <4> QED
        BY <2>10, <4>1, <4>2, PromisSuivant
    <3> QED
      BY <3>2, <3>3, <3>4, <3>5
  <2> QED
    BY <2>3, <2>5, <2>8, <2>13, <2>14 DEF Depart, FideleInductif, Fidele
<1> QED
  BY <1>2, <1>3

LEMMA CartRequestFidele ==
  ASSUME Depart, NEW r \in Requetes, NEW h \in Entetes, NEW op \in CartOps,
         NEW p \in {0} \cup Produits, NEW q \in {0} \cup Quantites,
         op \in Nommee => p \in Produits, CartRequest(r, h, op, p, q)
  PROVE  FideleInductif'
<1>1. TablesOK /\ UNCHANGED <<panier, ligne, favori>> /\ Arrive(r, h, op, p, q)
  BY SeulAuDepart DEF CartRequest, tables
<1>2. q \in Nat /\ op \notin FavoriteOps
  BY QuantitesNat, 0 \in Nat DEF CartOps, FavoriteOps
<1>3. CASE h = "deux" /\ panier.session # 0
  <2>1. PICK k \in Paniers : k = panier["session"]
    BY <1>1, <1>3 DEF TablesOK, Proprietaires
  <2>2. PICK e : e = [Demande("panierCompte", h, op, p, q) EXCEPT
                        !.source = k, !.reste = Lus(k)]
    OBVIOUS
  <2>3. Etape(r, e)
    BY <1>3, <2>1, <2>2 DEF CartRequest
  <2>4. /\ e.pc = "panierCompte" /\ e.h = h /\ e.op = op /\ e.p = p /\ e.q = q
        /\ e.source = k /\ e.reste = Lus(k) /\ e.item = {} /\ e.rang = 0
        /\ e.vu = 0
    BY <2>2 DEF Demande
  <2>5. ASSUME seul
        PROVE  Constat(e)' /\ Reste(e)'
    <3>1. Constat(e)'
      BY <2>4 DEF Constat
    <3>2. /\ \A i \in Lus(k) : ligne[k][i.p][i.n] = i.q
          /\ \A x \in Produits : Lignes(k, x) # {} => \E i \in Lus(k) : i.p = x
      BY <1>1, LusType
    <3>3. Reste(e)'
      BY <1>1, <2>4, <3>2 DEF Reste, AMerger, FusionFavoris, Lignes
    <3> QED
      BY <3>1, <3>3
  <2>6. ASSUME seul, NEW o \in Proprietaires, NEW x \in Produits
        PROVE  DuPanier(e, o, x) =
                 IF o = "session" THEN 0
                 ELSE Contenu("session")[x] + Contenu("compte")[x]
    <3>1. "session" \in Proprietaires /\ "compte" \in Proprietaires
      BY DEF Proprietaires
    <3>2. Contenu("session")[x] \in Nat /\ Contenu("compte")[x] \in Nat
      BY <2>6, <3>1, SeulAuDepart
    <3>3. ~AMerger(e, x) => Contenu("session")[x] = 0
      <4>1. ASSUME ~AMerger(e, x)
            PROVE  Contenu("session")[x] = 0
        <5>1. Lignes(k, x) = {}
          BY <1>1, <2>4, <4>1, LusType DEF AMerger
        <5> QED
          BY <2>1, <2>6, <3>1, <5>1, SeulAuDepart DEF Depart, Valeurs
      <4> QED
        BY <4>1
    <3>4. DuPanier(e, o, x) =
            IF o = "session" THEN 0
            ELSE Contenu("compte")[x]
                   + (IF AMerger(e, x) THEN Contenu("session")[x] ELSE 0)
      BY <2>4 DEF DuPanier, FusionPanier
    <3> QED
      BY <3>2, <3>3, <3>4
  <2>7. \A o : DesFavoris(e, o) = Aimes(o)
    BY <2>4 DEF DesFavoris, FusionFavoris
  <2> QED
    BY <1>1, <1>2, <1>3, <2>3, <2>4, <2>5, <2>6, <2>7, ArriveFidele
<1>4. CASE ~(h = "deux" /\ panier.session # 0)
  <2>1. PICK pc : pc = IF h = "visiteur" /\ ~session THEN "creerSession"
                                                     ELSE "trouver"
    OBVIOUS
  <2>2. PICK e : e = Demande(pc, h, op, p, q)
    OBVIOUS
  <2>3. Etape(r, e)
    BY <1>4, <2>1, <2>2 DEF CartRequest
  <2>4. /\ e.pc = pc /\ e.h = h /\ e.op = op /\ e.p = p /\ e.q = q
        /\ e.item = {} /\ e.rang = 0 /\ e.vu = 0
    BY <2>2 DEF Demande
  <2>5. Constat(e)' /\ Reste(e)'
    <3>1. session' = session
      BY DEF CartRequest, tables
    <3> QED
      BY <2>1, <2>4, <3>1 DEF Constat, Reste, FusionPanier, FusionFavoris
  <2>6. ASSUME seul, NEW o \in Proprietaires, NEW x \in Produits
        PROVE  DuPanier(e, o, x) =
                 IF ~(e.h = "deux" /\ e.op \in CartOps) THEN Contenu(o)[x]
                 ELSE IF o = "session" THEN 0
                 ELSE Contenu("session")[x] + Contenu("compte")[x]
    <3>1. DuPanier(e, o, x) = Contenu(o)[x]
      BY <2>1, <2>4 DEF DuPanier, FusionPanier
    <3>2. ASSUME h = "deux"
          PROVE  Contenu("session")[x] = 0 /\ Contenu("compte")[x] \in Nat
      BY <1>4, <2>6, <3>2, SeulAuDepart DEF Depart, Valeurs, Proprietaires
    <3>3. CASE h = "deux" /\ o = "session"
      BY <2>4, <3>1, <3>2, <3>3
    <3>4. CASE h = "deux" /\ o = "compte"
      BY <2>4, <3>1, <3>2, <3>4
    <3>5. CASE h # "deux"
      BY <2>4, <3>1, <3>5
    <3> QED
      BY <3>3, <3>4, <3>5 DEF Proprietaires
  <2>7. \A o : DesFavoris(e, o) = Aimes(o)
    BY <2>1, <2>4 DEF DesFavoris, FusionFavoris
  <2> QED
    BY <1>1, <1>2, <2>1, <2>3, <2>4, <2>5, <2>6, <2>7, ArriveFidele
<1> QED
  BY <1>3, <1>4

LEMMA FavoriteRequestFidele ==
  ASSUME Depart, NEW r \in Requetes, NEW h \in Entetes, NEW op \in FavoriteOps,
         NEW p \in {0} \cup Produits, op \in Nommee => p \in Produits,
         FavoriteRequest(r, h, op, p)
  PROVE  FideleInductif'
<1>1. /\ TablesOK /\ UNCHANGED <<session, panier, ligne, favori>>
      /\ Arrive(r, h, op, p, 0) /\ op \notin CartOps
  BY SeulAuDepart DEF FavoriteRequest, tables, CartOps, FavoriteOps
<1>2. PICK pc, reste :
        /\ pc = IF h = "visiteur" /\ ~session THEN "creerSession"
                ELSE IF h = "deux" THEN "fusionFavoris" ELSE "trouver"
        /\ reste = IF h # "deux" THEN {}
                   ELSE {[p |-> x, id |-> favori.session[x]] : x \in Aimes("session")}
  OBVIOUS
<1>3. PICK e : e = [Demande(pc, h, op, p, 0) EXCEPT !.reste = reste]
  OBVIOUS
<1>4. Etape(r, e)
  BY <1>2, <1>3 DEF FavoriteRequest
<1>5. /\ e.pc = pc /\ e.h = h /\ e.op = op /\ e.p = p /\ e.q = 0
      /\ e.reste = reste /\ e.item = {} /\ e.rang = 0 /\ e.vu = 0
  BY <1>3 DEF Demande
<1>6. ASSUME h = "deux"
      PROVE  Aimes("session") = {i.p : i \in e.reste \cup e.item}
  <2>1. e.reste \cup e.item
          = {[p |-> x, id |-> favori.session[x]] : x \in Aimes("session")}
    BY <1>2, <1>5, <1>6
  <2>2. ASSUME NEW x \in Aimes("session")
        PROVE  \E i \in e.reste \cup e.item : i.p = x
    <3>1. PICK i : i = [p |-> x, id |-> favori.session[x]]
      OBVIOUS
    <3>2. i.p = x /\ i \in e.reste \cup e.item
      BY <2>1, <3>1
    <3> QED
      BY <3>2
  <2>3. ASSUME NEW i \in e.reste \cup e.item
        PROVE  i.p \in Aimes("session")
    <3>1. PICK x \in Aimes("session") : i = [p |-> x, id |-> favori.session[x]]
      BY <2>1
    <3> QED
      BY <3>1
  <2> QED
    BY <2>2, <2>3
<1>7. Aimes("session")' = Aimes("session")
  BY <1>1 DEF Aimes
<1>8. Constat(e)' /\ Reste(e)'
  BY <1>1, <1>2, <1>5, <1>6, <1>7
  DEF Constat, Reste, FusionPanier, FusionFavoris
<1>9. \A o, x : DuPanier(e, o, x) = Contenu(o)[x]
  BY <1>2, <1>5 DEF DuPanier, FusionPanier
<1>10. \A o \in Proprietaires :
         DesFavoris(e, o) =
           IF ~(e.h = "deux" /\ e.op \in FavoriteOps) THEN Aimes(o)
           ELSE IF o = "session" THEN {}
           ELSE Aimes("session") \cup Aimes("compte")
  <2>1. CASE h = "deux"
    BY <1>2, <1>5, <1>6, <2>1 DEF DesFavoris, FusionFavoris
  <2>2. CASE h # "deux"
    BY <1>2, <1>5, <2>2 DEF DesFavoris, FusionFavoris
  <2> QED
    BY <2>1, <2>2
<1> QED
  BY <1>1, <1>2, <1>4, <1>5, <1>8, <1>9, <1>10, ArriveFidele

----------------------------------------------------------------------------
\* Every step keeps it.
LEMMA FideleNext ==
  ASSUME Depart, [Next]_vars
  PROVE  FideleInductif'
<1>1. CASE UNCHANGED vars
  <2>1. /\ UNCHANGED <<session, panier, ligne, favori, req, seul, voulu>>
    BY <1>1 DEF vars, tables, temoins
  <2>2. Fidele
    BY DEF Depart, FideleInductif
  <2>3. CASE ~seul
    BY <2>1, <2>2, <2>3 DEF Fidele, Depart, FideleInductif
  <2>4. CASE seul
    <3>1. /\ UneLigne'
          /\ \A o \in Proprietaires, p \in Produits :
               Contenu(o)'[p] = Contenu(o)[p]
      BY <2>1, <2>4, ContenusPareils
    <3>2. \A o : Aimes(o)' = Aimes(o)
      BY <2>1 DEF Aimes
    <3>3. AuRepos' => Tenu'
      BY <2>1, <2>2, <2>4, <3>1, <3>2 DEF Fidele, Tenu, AuRepos, Libre
    <3>4. ASSUME NEW s \in Requetes, ~Libre(s)'
          PROVE  Seule(s)' /\ Constat(req[s])' /\ Reste(req[s])' /\ Promis(req[s])'
      <4>1. PICK d : d = req[s]
        OBVIOUS
      <4>2. req'[s] = d /\ Seule(s) /\ Constat(d) /\ Reste(d) /\ Promis(d)
        BY <2>1, <2>2, <2>4, <3>4, <4>1 DEF Fidele, Libre
      <4>3. Seule(s)'
        BY <2>1, <4>2 DEF Seule, Libre
      <4>4. Constat(req[s])' /\ Reste(req[s])'
        BY <2>1, <4>2
        DEF Constat, Trouve, Lignes, Chez, Reste, AMerger, Aimes
      <4>5. /\ \A o \in Proprietaires, p \in Produits :
                 DuPanier(req[s], o, p)' = DuPanier(d, o, p)
            /\ \A o \in Proprietaires : DesFavoris(req[s], o)' = DesFavoris(d, o)
        BY <3>1, <3>2, <4>2
        DEF DuPanier, DesFavoris, AMerger, Proprietaires
      <4>6. Promis(req[s])' <=>
             \A o \in Proprietaires :
               /\ \A p \in Produits :
                    voulu'.panier[o][p] = Effet(d, o, p, DuPanier(req[s], o, p)')
               /\ voulu'.favori[o] = EffetFavoris(d, o, DesFavoris(req[s], o)')
        BY <4>2 DEF Promis, Effet, EffetFavoris, Chez
      <4>7. Promis(req[s])'
        BY <2>1, <4>2, <4>5, <4>6 DEF Promis
      <4> QED
        BY <4>3, <4>4, <4>7
    <3>5. voulu' \in VouluT
      BY <2>1, <2>2 DEF Fidele
    <3> QED
      BY <3>1, <3>3, <3>4, <3>5 DEF Fidele, Depart, FideleInductif
  <2> QED
    BY <2>3, <2>4
<1>2. ASSUME NEW r \in Requetes, CartNext(r)
      PROVE  FideleInductif'
  <2>1. ASSUME NEW h \in Entetes, CartRequest(r, h, "getPanier", 0, 0)
        PROVE  FideleInductif'
    BY <2>1, CartRequestFidele DEF CartOps, Nommee, Quantifiee
  <2>2. ASSUME NEW h \in Entetes, NEW p \in Produits,
               CartRequest(r, h, "removeItem", p, 0)
        PROVE  FideleInductif'
    BY <2>2, CartRequestFidele DEF CartOps, Nommee, Quantifiee
  <2>3. ASSUME NEW h \in Entetes, NEW op \in {"addItem", "updateItem"},
               NEW p \in Produits, NEW q \in Quantites,
               CartRequest(r, h, op, p, q)
        PROVE  FideleInductif'
    BY <2>3, CartRequestFidele DEF CartOps, Nommee, Quantifiee
  <2> QED
    BY <1>2, <2>1, <2>2, <2>3, FusionPanierCompteFidele, FusionTransfererFidele,
       FusionLigneFidele, FusionEcrireFidele, FusionSupprimerFidele,
       FindPanierFidele, CreatePanierFidele, FindItemFidele, WriteItemFidele,
       RemoveItemFidele
    DEF CartNext
<1>3. ASSUME NEW r \in Requetes, FavoritesNext(r)
      PROVE  FideleInductif'
  <2>1. ASSUME NEW h \in Entetes, FavoriteRequest(r, h, "list", 0)
        PROVE  FideleInductif'
    BY <2>1, FavoriteRequestFidele DEF FavoriteOps, Nommee, Quantifiee
  <2>2. ASSUME NEW h \in Entetes, NEW op \in {"add", "remove"},
               NEW p \in Produits, FavoriteRequest(r, h, op, p)
        PROVE  FideleInductif'
    BY <2>2, FavoriteRequestFidele DEF FavoriteOps, Nommee, Quantifiee
  <2> QED
    BY <1>3, <2>1, <2>2, FusionFavoriFidele, FusionSupprimerFavoriFidele,
       FusionDeplacerFavoriFidele, FusionFavorisFinFidele, FindFavoriFidele,
       CreateFavoriFidele, RemoveFavoriFidele
    DEF FavoritesNext
<1> QED
  BY <1>1, <1>2, <1>3, CreateSessionFidele, PanneFidele DEF Next

LEMMA FideleInit ==
  ASSUME Init, SuiviInductif, Valeurs
  PROVE  FideleInductif
<1>1. TablesOK
  BY DEF SuiviInductif, TypeInductif, TypeOK, TablesOK
<1>2. UneLigne
  BY DEF Init, UneLigne, Lignes
<1>3. AuRepos
  BY DEF Init, AuRepos, Libre
<1>4. voulu \in VouluT
  BY DEF Init, RienVoulu, VouluT
<1>5. Tenu
  <2>1. ASSUME NEW o \in Proprietaires, NEW p \in Produits
        PROVE  voulu.panier[o][p] = Contenu(o)[p]
    BY <1>1, <1>2 DEF Init, RienVoulu, Valeurs
  <2>2. ASSUME NEW o \in Proprietaires
        PROVE  voulu.favori[o] = Aimes(o)
    BY DEF Init, RienVoulu, Aimes
  <2> QED
    BY <2>1, <2>2 DEF Tenu
<1> QED
  BY <1>2, <1>3, <1>4, <1>5 DEF FideleInductif, Fidele, AuRepos

LEMMA FideleDonne ==
  ASSUME FideleInductif
  PROVE  PanierFidele
<1> SUFFICES ASSUME seul, AuRepos, NEW o \in Proprietaires
             PROVE  Contenu(o) = voulu.panier[o] /\ Aimes(o) = voulu.favori[o]
  BY DEF PanierFidele
<1>1. Tenu /\ voulu \in VouluT
  BY DEF FideleInductif, Fidele
<1>2. Contenu(o) = [p \in Produits |-> Contenu(o)[p]]
  BY DEF Contenu
<1>3. voulu.panier[o] = [p \in Produits |-> voulu.panier[o][p]]
  BY <1>1 DEF VouluT
<1>4. \A p \in Produits : voulu.panier[o][p] = Contenu(o)[p]
  BY <1>1 DEF Tenu
<1> QED
  BY <1>1, <1>2, <1>3, <1>4 DEF Tenu

\* While requests come one at a time and none dies, the cart and the favourites
\* of the session and of the account hold what the requests asked for, merges
\* included (cart.service.ts:109, favorites.service.ts:65).
THEOREM PanierFideleVrai == Spec => []PanierFidele
<1>1. SuiviInductif /\ Valeurs /\ Init => FideleInductif
  BY FideleInit
<1>2. FideleInductif /\ SuiviInductif' /\ Valeurs /\ Valeurs' /\ [Next]_vars
        => FideleInductif'
  BY FideleNext DEF Depart
<1>3. FideleInductif => PanierFidele
  BY FideleDonne
<1> QED
  BY <1>1, <1>2, <1>3, SuiviToujours, ValeursToujours, PTL DEF Spec
=============================================================================
