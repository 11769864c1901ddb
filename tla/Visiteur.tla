------------------------------ MODULE Visiteur ------------------------------
(***************************************************************************)
(* A visitor who signs in: the cart and favourites routes of the backend,  *)
(* called with the session's token, the account's, or both.                *)
(***************************************************************************)
EXTENDS CartService, FavoritesService

Next ==
  \E r \in Requetes :
    CartNext(r) \/ FavoritesNext(r) \/ CreateSession(r) \/ Panne(r)

Spec == Init /\ [][Next]_vars

----------------------------------------------------------------------------
\* Types, and what the unique constraints and foreign keys give: a row belongs
\* to a cart that exists, and no cart or favourite to two owners.
TypeOK ==
  /\ session \in BOOLEAN
  /\ panier \in [Proprietaires -> {0} \cup Paniers]
  /\ panier.session = panier.compte => panier.session = 0
  /\ ligne \in [Paniers -> [Produits -> [Copies -> Nat]]]
  /\ \A k \in Paniers, p \in Produits : Lignes(k, p) # {} => Existe(k)
  /\ favori \in [Proprietaires -> [Produits -> {0} \cup Favoris]]
  /\ \A p \in Produits :
       favori.session[p] = favori.compte[p] => favori.session[p] = 0
  /\ panier.session # 0 \/ (\E p \in Produits : favori.session[p] # 0) => session
  /\ \A r \in Requetes : req[r].pc = "libre" => req[r] = [pc |-> "libre"]
  /\ pannes \in 0 .. MaxPannes

\* While requests come one at a time and none dies, carts and favourites hold
\* what was put in them: a merge adds the session's to the account's
\* (cart.service.ts:109, favorites.service.ts:65).
PanierFidele ==
  seul /\ AuRepos =>
    \A o \in Proprietaires :
      /\ Contenu(o) = voulu.panier[o]
      /\ Aimes(o) = voulu.favori[o]

\* Neither carts nor favourites lose a product that nobody asked to remove,
\* whatever request dies in the middle of a merge (cart.service.ts:132 copies
\* before :153 deletes, favorites.service.ts:76).
RienPerdu ==
  [][\A p \in Produits :
       /\ EnPanier(p) /\ ~EnPanier(p)' => <<"removeItem", p>> \in retires'
       /\ Aime(p) /\ ~Aime(p)' => <<"remove", p>> \in retires']_vars

(***************************************************************************)
(* Said in a comment, and not what the frontend and the backend do         *)
(* together: violated by a run (README, "Findings").                       *)
(***************************************************************************)

\* Once a request of the signed-in user is answered, the visitor's cart was
\* merged into the account's (frontend hooks/use-api.ts:22).
ConnexionFusionne ==
  [][\A r \in Requetes :
       ~Libre(r) /\ req[r].h \in Connectes /\ req[r].op \in CartOps
         /\ Libre(r)' /\ seul' => panier'["session"] = 0]_vars
=============================================================================
