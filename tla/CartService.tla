---------------------------- MODULE CartService -----------------------------
(***************************************************************************)
(* backend/src/cart/cart.service.ts: every await on a table is a step, and *)
(* what it throws ends the request.  prixUnitaire and the product reads,   *)
(* which decide nothing here, are left out.                                *)
(***************************************************************************)
EXTENDS Visite

Lignes(k, p) == {n \in Copies : ligne[k][p][n] # 0}
Existe(k) == \E o \in Proprietaires : panier[o] = k
EnPanier(p) == \E o \in Proprietaires : Contenu(o)[p] # 0

\* The rows of cart k, as mergeSessionIntoUser reads them with the cart.
Lus(k) == UNION {{[p |-> p, n |-> n, q |-> ligne[k][p][n]] : n \in Lignes(k, p)} :
                  p \in Produits}

\* resolveOwner up to its second await.
CartRequest(r, h, op, p, q) ==
  LET aFusionner == h = "deux" /\ panier.session # 0
      pc == IF h = "visiteur" /\ ~session THEN "creerSession"
            ELSE IF aFusionner THEN "panierCompte" ELSE "trouver"
  IN  /\ Arrive(r, h, op, p, q)
      /\ op = "addItem" => PeutAjouter(q)
      /\ Etape(r, IF aFusionner
                    THEN [Demande(pc, h, op, p, q) EXCEPT
                            !.source = panier.session,
                            !.reste = Lus(panier.session)]
                    ELSE Demande(pc, h, op, p, q))
      /\ UNCHANGED tables

----------------------------------------------------------------------------
\* Writes q in the row of product p that request r found, or creates one in
\* its cart; fails when the row or the cart is gone.
EcrireLigne(r, p, q, suite) ==
  LET k == req[r].cible
      n == req[r].rang
      pris == Lignes(k, p) \cup {req[s].rang : s \in {s \in Requetes : ~Libre(s)}}
      id == IF n = 0 THEN Nouveau(Copies, pris) ELSE n
  IN  /\ n = 0 => Libres(Copies, pris) # {}
      /\ IF IF n = 0 THEN Existe(k) ELSE ligne[k][p][n] # 0
           THEN ligne' = [ligne EXCEPT ![k][p][id] = q] /\ suite
           ELSE Repond(r) /\ UNCHANGED ligne

\* findFirst: any row of p in the cart of request r, or none.
TrouveLigne(r, p, e) ==
  LET k == req[r].cible IN
  \/ /\ Lignes(k, p) = {}
     /\ Etape(r, e)
  \/ \E n \in Lignes(k, p) :
       Etape(r, [e EXCEPT !.rang = n, !.vu = ligne[k][p][n]])

----------------------------------------------------------------------------
\* mergeSessionIntoUser: the account's cart ...
FusionPanierCompte(r) ==
  /\ req[r].pc = "panierCompte"
  /\ Etape(r, [req[r] EXCEPT
       !.pc = IF panier.compte = 0 THEN "transferer" ELSE "copier",
       !.cible = panier.compte])
  /\ UNCHANGED <<tables, temoins>>

\* Mutant: the cart keeps its session.
FusionTransfererSansNull(r) ==
  LET k == req[r].source IN
  /\ req[r].pc = "transferer"
  /\ \/ /\ Existe(k) /\ panier.compte \in {0, k}
        /\ panier' = [panier EXCEPT !.compte = k]
        /\ Fusionnee(r)
     \/ /\ ~(Existe(k) /\ panier.compte \in {0, k})
        /\ Repond(r)
        /\ UNCHANGED panier
  /\ UNCHANGED <<session, ligne, favori, temoins>>

\* ... without one, the session's cart becomes the account's ...
FusionTransferer(r) ==
  LET k == req[r].source IN
  /\ req[r].pc = "transferer"
  /\ \/ /\ Existe(k) /\ panier.compte \in {0, k}
        /\ panier' = [session |-> IF panier.session = k THEN 0 ELSE panier.session,
                      compte |-> k]
        /\ Fusionnee(r)
     \/ /\ ~(Existe(k) /\ panier.compte \in {0, k})
        /\ Repond(r)
        /\ UNCHANGED panier
  /\ UNCHANGED <<session, ligne, favori, temoins>>

\* ... with one, each row read is looked up there ...
FusionLigne(r) ==
  /\ req[r].pc = "copier"
  /\ \E i \in req[r].reste :
       TrouveLigne(r, i.p,
            [req[r] EXCEPT !.pc = "copierEcrire", !.reste = @ \ {i}, !.item = {i}])
  /\ UNCHANGED <<tables, temoins>>

\* Mutant: the quantity the account already had is overwritten.
FusionEcrireSansSomme(r) ==
  /\ req[r].pc = "copierEcrire"
  /\ \E i \in req[r].item :
       EcrireLigne(r, i.p, i.q, Etape(r, [req[r] EXCEPT
         !.pc = "copier", !.item = {}, !.rang = 0, !.vu = 0]))
  /\ UNCHANGED <<session, panier, favori, temoins>>

\* ... its quantity added, or the row created ...
FusionEcrire(r) ==
  /\ req[r].pc = "copierEcrire"
  /\ \E i \in req[r].item :
       EcrireLigne(r, i.p, req[r].vu + i.q, Etape(r, [req[r] EXCEPT
         !.pc = "copier", !.item = {}, !.rang = 0, !.vu = 0]))
  /\ UNCHANGED <<session, panier, favori, temoins>>

\* Deletes cart k with its rows (onDelete: Cascade).
SupprimerPanier(r, k) ==
  \/ /\ Existe(k)
     /\ panier' = [o \in Proprietaires |-> IF panier[o] = k THEN 0 ELSE panier[o]]
     /\ ligne' = [ligne EXCEPT ![k] = [p \in Produits |-> [n \in Copies |-> 0]]]
     /\ Fusionnee(r)
  \/ /\ ~Existe(k)
     /\ Repond(r)
     /\ UNCHANGED <<panier, ligne>>

\* ... and the session's cart is deleted at the end.
FusionSupprimer(r) ==
  /\ req[r].pc = "copier"
  /\ req[r].reste = {}
  /\ SupprimerPanier(r, req[r].source)
  /\ UNCHANGED <<session, favori, temoins>>

----------------------------------------------------------------------------
\* getPanier only reads the cart that was found or created.
AvecPanier(r, k) ==
  IF req[r].op = "getPanier" THEN Repond(r)
  ELSE Etape(r, [req[r] EXCEPT !.pc = "executer", !.cible = k])

FindPanier(r) ==
  LET k == panier[Proprietaire(r)] IN
  /\ req[r].pc = "trouver"
  /\ req[r].op \in CartOps
  /\ IF k # 0 THEN AvecPanier(r, k) ELSE Va(r, "creerPanier")
  /\ UNCHANGED <<tables, temoins>>

\* An owner has one cart: the second to create one fails.
CreatePanier(r) ==
  LET o == Proprietaire(r)
      pris == {panier[x] : x \in Proprietaires}
                \cup UNION {{req[s].cible, req[s].source} :
                              s \in {s \in Requetes : ~Libre(s)}}
      k == Nouveau(Paniers, pris)
  IN  /\ req[r].pc = "creerPanier"
      /\ Libres(Paniers, pris) # {}
      /\ \/ /\ panier[o] = 0
            /\ panier' = [panier EXCEPT ![o] = k]
            /\ AvecPanier(r, k)
         \/ /\ panier[o] # 0
            /\ Repond(r)
            /\ UNCHANGED panier
      /\ UNCHANGED <<session, ligne, favori, temoins>>

\* addItem and updateItem: findFirst; updateItem answers 404 without a row.
FindItem(r) ==
  /\ req[r].pc = "executer"
  /\ req[r].op \in {"addItem", "updateItem"}
  /\ IF req[r].op = "updateItem" /\ Lignes(req[r].cible, req[r].p) = {}
       THEN Repond(r)
       ELSE TrouveLigne(r, req[r].p, [req[r] EXCEPT !.pc = "ecrire"])
  /\ UNCHANGED <<tables, temoins>>

\* addItem adds to the quantity it read; updateItem replaces it.
WriteItem(r) ==
  /\ req[r].pc = "ecrire"
  /\ EcrireLigne(r, req[r].p,
                 IF req[r].op = "addItem" THEN req[r].vu + req[r].q ELSE req[r].q,
                 Repond(r))
  /\ UNCHANGED <<session, panier, favori, temoins>>

RemoveItem(r) ==
  /\ req[r].pc = "executer"
  /\ req[r].op = "removeItem"
  /\ ligne' = [ligne EXCEPT ![req[r].cible][req[r].p] = [n \in Copies |-> 0]]
  /\ Repond(r)
  /\ UNCHANGED <<session, panier, favori, temoins>>

CartNext(r) ==
  \/ \E h \in Entetes : CartRequest(r, h, "getPanier", 0, 0)
  \/ \E h \in Entetes, p \in Produits : CartRequest(r, h, "removeItem", p, 0)
  \/ \E h \in Entetes, op \in {"addItem", "updateItem"}, p \in Produits,
        q \in Quantites : CartRequest(r, h, op, p, q)
  \/ FusionPanierCompte(r) \/ FusionTransferer(r) \/ FusionLigne(r)
  \/ FusionEcrire(r) \/ FusionSupprimer(r)
  \/ FindPanier(r) \/ CreatePanier(r) \/ FindItem(r) \/ WriteItem(r)
  \/ RemoveItem(r)
=============================================================================
