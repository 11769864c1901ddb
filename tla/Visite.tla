------------------------------- MODULE Visite -------------------------------
(***************************************************************************)
(* What the cart and favourites services share: one visitor's session      *)
(* token, one account, their rows in PostgreSQL, and the requests that run *)
(* (backend/src/common/session.service.ts, prisma/schema.prisma:244-300).  *)
(*                                                                         *)
(* Ids come from small sets of numbers.  PostgreSQL never gives an id      *)
(* twice; here one is given again only when no row and no running request  *)
(* holds it, which no handler can tell from a new one.                     *)
(***************************************************************************)
EXTENDS Integers, FiniteSets, FiniteSetsExt

CONSTANTS
  Produits,     \* ids of the products, all of them available
  Requetes,     \* slots for HTTP requests running at the same time
  Connectes,    \* what the requests of a signed-in user carry: "compte" for
                \* the account's token, "deux" for the session token as well
  Quantites,    \* quantities a request asks for
  MaxArticles,  \* bound: articles and favourites once one was added
  MaxPannes,    \* bound: requests that die before they finish
  FusionSeule   \* bound: no request with the session's token runs during a
                \* merge

CartOps == {"getPanier", "addItem", "updateItem", "removeItem"}
FavoriteOps == {"list", "add", "remove"}
Proprietaires == {"session", "compte"}
Entetes == {"visiteur"} \cup Connectes

\* Bounds: ids of carts, of rows of one product in one cart, of favourites of
\* one product.
Paniers == 1 .. 4
Copies == 1 .. 4
Favoris == 1 .. 4

ASSUME VisiteAssumption ==
  /\ Connectes \subseteq {"compte", "deux"}
  /\ MaxArticles \in Nat
  /\ Quantites \subseteq 1 .. MaxArticles
  /\ MaxPannes \in Nat
  /\ FusionSeule \in BOOLEAN

VARIABLES
  session,  \* whether the token has its row in table Session
  panier,   \* table Panier: the cart of each owner, 0 if it has none
  ligne,    \* table PanierProduit: quantity of each row, 0 if there is none
  favori,   \* table Favori: the row of an owner and a product, 0 if none
  req,      \* the running requests
  pannes,   \* requests that died so far
  retires,  \* removals asked for since the system was last at rest
  seul,     \* no request overlapped another one or died, so far
  voulu     \* while seul: what the carts and favourites should hold

tables == <<session, panier, ligne, favori>>
temoins == <<pannes, retires, seul, voulu>>
vars == <<tables, req, temoins>>

RienVoulu == [panier |-> [o \in Proprietaires |-> [p \in Produits |-> 0]],
              favori |-> [o \in Proprietaires |-> {}]]

Init ==
  /\ session = FALSE
  /\ panier = [o \in Proprietaires |-> 0]
  /\ ligne = [k \in Paniers |-> [p \in Produits |-> [n \in Copies |-> 0]]]
  /\ favori = [o \in Proprietaires |-> [p \in Produits |-> 0]]
  /\ req = [r \in Requetes |-> [pc |-> "libre"]]
  /\ pannes = 0
  /\ retires = {}
  /\ seul = TRUE
  /\ voulu = RienVoulu

----------------------------------------------------------------------------
Libre(r) == req[r].pc = "libre"
AuRepos == \A r \in Requetes : Libre(r)
Etape(r, e) == req' = [req EXCEPT ![r] = e]
Va(r, pc) == Etape(r, [req[r] EXCEPT !.pc = pc])
Repond(r) == Etape(r, [pc |-> "libre"])

\* The owner resolveOwner returns.
Proprietaire(r) == IF req[r].h = "visiteur" THEN "session" ELSE "compte"

\* The first id no row and no variable of a running request holds.  Bound: the
\* ids, one of which is left when it is needed.
Libres(ids, pris) == ids \ pris
Nouveau(ids, pris) == Min(Libres(ids, pris))

SansFusion(h) ==
  \A r \in Requetes :
    ~Libre(r) /\ "deux" \in {h, req[r].h} => "compte" \in {h, req[r].h}

\* Bound: a cart request and a favourites request, which share nothing but the
\* session's row, do not overlap.
MemeTable(op) ==
  \A r \in Requetes : ~Libre(r) => (req[r].op \in CartOps <=> op \in CartOps)

----------------------------------------------------------------------------
\* What a request alone should make of the carts and favourites v: the
\* session's ones go to the account first when both headers are there.
Fusionne(v) ==
  [panier |-> [session |-> [p \in Produits |-> 0],
               compte |-> [p \in Produits |->
                             v.panier.session[p] + v.panier.compte[p]]],
   favori |-> [session |-> {}, compte |-> v.favori.session \cup v.favori.compte]]

Applique(v, o, op, p, q) ==
  CASE op = "addItem" -> [v EXCEPT !.panier[o][p] = @ + q]
    [] op = "updateItem" -> [v EXCEPT !.panier[o][p] = IF @ = 0 THEN 0 ELSE q]
    [] op = "removeItem" -> [v EXCEPT !.panier[o][p] = 0]
    [] op = "add" -> [v EXCEPT !.favori[o] = @ \cup {p}]
    [] op = "remove" -> [v EXCEPT !.favori[o] = @ \ {p}]
    [] OTHER -> v

\* The merge of a cart request leaves the favourites alone, and the converse.
Attendu(v, h, op, p, q) ==
  LET table == IF op \in FavoriteOps THEN "favori" ELSE "panier"
      w == IF h = "deux" THEN [v EXCEPT ![table] = Fusionne(v)[table]] ELSE v
  IN  Applique(w, IF h = "visiteur" THEN "session" ELSE "compte", op, p, q)

\* A request: its headers, its arguments and the variables of the handler,
\* that is the cart it merges from, the one it works on, what is left to merge,
\* what is being merged, the row it found and the quantity it read there.
Demande(pc, h, op, p, q) ==
  [pc |-> pc, h |-> h, op |-> op, p |-> p, q |-> q, source |-> 0, cible |-> 0,
   reste |-> {}, item |-> {}, rang |-> 0, vu |-> 0]

Total(k, p) == IF k = 0 THEN 0 ELSE MapThenSumSet(LAMBDA n : ligne[k][p][n], Copies)
Contenu(o) == [p \in Produits |-> Total(panier[o], p)]
Aimes(o) == {p \in Produits : favori[o][p] # 0}

\* Bound: MaxArticles, counting the additions that are running.
PeutAjouter(q) ==
  LET ajouts == {s \in Requetes : ~Libre(s) /\ req[s].op \in {"addItem", "add"}}
      articles(o) == MapThenSumSet(LAMBDA p : Contenu(o)[p], Produits)
                       + Cardinality(Aimes(o))
  IN  articles("session") + articles("compte") + q
        + MapThenSumSet(LAMBDA s : Max({1, req[s].q}), ajouts) <= MaxArticles

\* The merge of request r is over.
Fusionnee(r) ==
  Etape(r, Demande("trouver", req[r].h, req[r].op, req[r].p, req[r].q))

\* A request arrives: what it asks for enters the history.
Arrive(r, h, op, p, q) ==
  /\ Libre(r)
  /\ FusionSeule => SansFusion(h)
  /\ MemeTable(op)
  /\ retires' = (IF AuRepos THEN {} ELSE retires)
                  \cup (IF op \in {"removeItem", "remove"} THEN {<<op, p>>} ELSE {})
  /\ seul' = (seul /\ AuRepos)
  /\ voulu' = IF seul' THEN Attendu(voulu, h, op, p, q) ELSE RienVoulu
  /\ UNCHANGED pannes

\* getOrCreate, after it found no session.  The token is unique: a request
\* that comes second fails.
CreateSession(r) ==
  /\ req[r].pc = "creerSession"
  /\ session' = TRUE
  /\ IF session THEN Repond(r) ELSE Va(r, "trouver")
  /\ UNCHANGED <<panier, ligne, favori, temoins>>

\* The handler stops at an await (the server restarts, a query fails).
\* Bound: MaxPannes.
Panne(r) ==
  /\ ~Libre(r)
  /\ pannes < MaxPannes
  /\ pannes' = pannes + 1
  /\ seul' = FALSE
  /\ voulu' = RienVoulu
  /\ Repond(r)
  /\ UNCHANGED <<tables, retires>>
=============================================================================
