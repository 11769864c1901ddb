-------------------------- MODULE FavoritesService --------------------------
(***************************************************************************)
(* backend/src/favorites/favorites.service.ts, with the steps of           *)
(* CartService.  A favourite keeps its id when the merge gives it to the   *)
(* account.                                                                *)
(***************************************************************************)
EXTENDS Visite

Aime(p) == \E o \in Proprietaires : p \in Aimes(o)

\* resolveOwner up to its second await, with the session's favourites.
FavoriteRequest(r, h, op, p) ==
  LET pc == IF h = "visiteur" /\ ~session THEN "creerSession"
            ELSE IF h = "deux" THEN "fusionFavoris" ELSE "trouver"
  IN  /\ Arrive(r, h, op, p, 0)
      /\ op = "add" => PeutAjouter(1)
      /\ Etape(r, [Demande(pc, h, op, p, 0) EXCEPT
           !.reste = IF h # "deux" THEN {}
                     ELSE {[p |-> x, id |-> favori.session[x]] :
                             x \in Aimes("session")}])
      /\ UNCHANGED tables

----------------------------------------------------------------------------
\* Mutant: the session's row is deleted whatever the account has.
FusionFavoriSupprime(r) ==
  /\ req[r].pc = "fusionFavoris"
  /\ \E i \in req[r].reste :
       Etape(r, [req[r] EXCEPT !.pc = "supprimerFavori", !.reste = @ \ {i},
                               !.item = {i}])
  /\ UNCHANGED <<tables, temoins>>

\* mergeSessionIntoUser looks each favourite up in the account ...
FusionFavori(r) ==
  /\ req[r].pc = "fusionFavoris"
  /\ \E i \in req[r].reste :
       Etape(r, [req[r] EXCEPT
         !.pc = IF favori.compte[i.p] # 0 THEN "supprimerFavori"
                                          ELSE "deplacerFavori",
         !.reste = @ \ {i},
         !.item = {i}])
  /\ UNCHANGED <<tables, temoins>>

Tient(o, i) == favori[o][i.p] = i.id
Continue(r) == Etape(r, [req[r] EXCEPT !.pc = "fusionFavoris", !.item = {}])

\* ... deletes the session's row when the account has the product ...
FusionSupprimerFavori(r) ==
  /\ req[r].pc = "supprimerFavori"
  /\ \E i \in req[r].item :
       \/ \E o \in Proprietaires :
            /\ Tient(o, i)
            /\ favori' = [favori EXCEPT ![o][i.p] = 0]
            /\ Continue(r)
       \/ /\ \A o \in Proprietaires : ~Tient(o, i)
          /\ Repond(r)
          /\ UNCHANGED favori
  /\ UNCHANGED <<session, panier, ligne, temoins>>

\* ... and gives it to the account otherwise.
FusionDeplacerFavori(r) ==
  /\ req[r].pc = "deplacerFavori"
  /\ \E i \in req[r].item :
       \/ /\ Tient("session", i) /\ favori.compte[i.p] = 0
          /\ favori' = [favori EXCEPT !.session[i.p] = 0, !.compte[i.p] = i.id]
          /\ Continue(r)
       \/ /\ Tient("compte", i)
          /\ Continue(r)
          /\ UNCHANGED favori
       \/ /\ ~Tient("session", i) \/ favori.compte[i.p] # 0
          /\ ~Tient("compte", i)
          /\ Repond(r)
          /\ UNCHANGED favori
  /\ UNCHANGED <<session, panier, ligne, temoins>>

FusionFavorisFin(r) ==
  /\ req[r].pc = "fusionFavoris"
  /\ req[r].reste = {}
  /\ Fusionnee(r)
  /\ UNCHANGED <<tables, temoins>>

----------------------------------------------------------------------------
\* list only reads; add answers 409 when the owner has the product already.
FindFavori(r) ==
  /\ req[r].pc = "trouver"
  /\ req[r].op \in {"list", "add"}
  /\ IF req[r].op = "add" /\ favori[Proprietaire(r)][req[r].p] = 0
       THEN Va(r, "creerFavori") ELSE Repond(r)
  /\ UNCHANGED <<tables, temoins>>

\* An owner has one favourite of a product: the second to create it fails.
CreateFavori(r) ==
  LET o == Proprietaire(r)
      p == req[r].p
      retenus == UNION {{i.id : i \in req[s].reste \cup req[s].item} :
                  s \in {s \in Requetes : ~Libre(s) /\ req[s].op \in FavoriteOps}}
      pris == {favori[x][p] : x \in Proprietaires} \cup retenus
      id == Nouveau(Favoris, pris)
  IN  /\ req[r].pc = "creerFavori"
      /\ Libres(Favoris, pris) # {}
      /\ favori' = [favori EXCEPT ![o][p] = IF @ = 0 THEN id ELSE @]
      /\ Repond(r)
      /\ UNCHANGED <<session, panier, ligne, temoins>>

RemoveFavori(r) ==
  /\ req[r].pc = "trouver"
  /\ req[r].op = "remove"
  /\ favori' = [favori EXCEPT ![Proprietaire(r)][req[r].p] = 0]
  /\ Repond(r)
  /\ UNCHANGED <<session, panier, ligne, temoins>>

FavoritesNext(r) ==
  \/ \E h \in Entetes : FavoriteRequest(r, h, "list", 0)
  \/ \E h \in Entetes, op \in {"add", "remove"}, p \in Produits :
       FavoriteRequest(r, h, op, p)
  \/ FusionFavori(r) \/ FusionSupprimerFavori(r) \/ FusionDeplacerFavori(r)
  \/ FusionFavorisFin(r)
  \/ FindFavori(r) \/ CreateFavori(r) \/ RemoveFavori(r)
=============================================================================
