------------------------------- MODULE Achats -------------------------------
(***************************************************************************)
(* The hearts and the cart in one tab of the browser: the provider of the  *)
(* favourites (components/favorites-provider.tsx), the page of the cart    *)
(* (app/panier/page.tsx) and the badge of the navbar, which ask the API as *)
(* the session they rendered with (hooks/use-api.ts).  A call is served at *)
(* one moment: CartService and FavoritesService model what happens inside. *)
(***************************************************************************)
EXTENDS Naturals, FiniteSets, FiniteSetsExt

CONSTANTS
  Produits,
  MaxQuantite,  \* bound: quantity of a row
  MaxAppels,    \* bound: calls on their way
  MaxFautes     \* bound: calls that fail, tokens that expire and pages loaded
                \* after the first one

ASSUME AchatsAssumption ==
  /\ Produits # {} /\ IsFiniteSet(Produits)
  /\ MaxQuantite \in Nat /\ MaxAppels \in Nat \ {0}
  /\ MaxFautes \in Nat

Proprietaires == {"session", "compte"}
Ecrans == {"catalogue", "panier"}
Bascules == {"POST favori", "DELETE favori"}
Ecritures == {"ajouter", "quantite", "retirer"}   \* of the cart
Cibles == {"page", "badge"}                       \* what GET /cart is for
Types == {"coeurs"} \cup Bascules \cup Ecritures \cup Cibles

VARIABLES
  volet,            \* bound: the hearts or the cart, which share the session
                    \* only, are followed
  favoris, panier,  \* the tables: the favourites and the quantities of an owner
  connecte,         \* whether the browser has the cookie of a session
  statut,           \* useSession: "loading", "visiteur", "client"
  ecran,            \* the page on the screen
  apiPage,          \* the owner of the calls of the page's first rendering
  apiBadge,         \* the same for the badge
  perimes,          \* of the two, those whose first rendering had an access token
                    \* that has expired since
  coeurs,           \* FavoritesProvider: ids
  page,             \* PanierPage: panier, or Rien, or Erreur
  badge,            \* CartBadge: count
  appels,           \* the calls on their way
  fautes,
  douteCoeur,       \* products whose heart is not known to be right any more
  douteCible        \* the same for the page of the cart and the badge

tables == <<volet, favoris, panier>>
montage == <<connecte, statut, ecran, apiPage, apiBadge, perimes>>
affichage == <<coeurs, page, badge>>
achats == <<tables, montage, affichage, appels, fautes,
            douteCoeur, douteCible>>

Rien == [p \in Produits |-> MaxQuantite + 1]
Erreur == [p \in Produits |-> MaxQuantite + 2]
Vide == [p \in Produits |-> 0]
Quantites == 0..MaxQuantite
TotalDe(v) == MapThenSumSet(LAMBDA p : v[p], Produits)

\* useApi: the owner of the calls made with the session s.
Api(s) == IF s = "client" THEN "compte" ELSE "session"

\* The owner the calls of the tab should be for.
Proprietaire == IF connecte THEN "compte" ELSE "session"

----------------------------------------------------------------------------
(* Calls.  "pour" is FALSE once no component waits for the answer; "recu" is *)
(* the answer, once there is one; "avant" says the list of hearts was on its *)
(* way when the call was made.                                               *)

Encore(t) == {a \in appels : a.type = t}
EnRoute(t) == {a \in appels : a.type = t /\ a.pour}
Numero(t) == Min(1..(MaxAppels + 1) \ {a.n : a \in Encore(t)})
Premier(t, o, p, q) ==
  [n |-> 1, type |-> t, de |-> o, p |-> p, q |-> q, pour |-> TRUE,
   recu |-> "rien", vu |-> {}, lu |-> Vide, avant |-> FALSE]
Appel(t, o, p, q) ==
  [Premier(t, o, p, q) EXCEPT
     !.n = Numero(t), !.avant = t \in Bascules /\ EnRoute("coeurs") # {}]
UnProduit == CHOOSE p \in Produits : TRUE
Get(t, o) == Appel(t, o, UnProduit, 0)

\* The calls of the part that is followed.
Suivis(S) == {a \in S : a.type \in Cibles <=> volet = "panier"}

Abandonner(S, types) ==
  {IF a.type \in types THEN [a EXCEPT !.pour = FALSE] ELSE a : a \in S}

\* Bound: MaxAppels.
Envoyable(S) == Cardinality(S) <= MaxAppels

Faute == fautes < MaxFautes /\ fautes' = fautes + 1

\* GETs of the same target that overlap may be answered in the other order.
Croises(C) == {c \in C : EnRoute(c) # {}}

----------------------------------------------------------------------------
(* Pages.                                                                  *)

EnAttente(types) == {a \in appels : a.type \in types /\ a.recu = "rien"}
ProduitsDe(S) == {a.p : a \in S}

\* The calls of a page that was just loaded, and what they cannot know.
Premiers(e) ==
  LET types == {"badge"} \cup (IF e = "catalogue" THEN {"coeurs"} ELSE {})
  IN  Suivis({Premier(t, "session", UnProduit, 0) : t \in types})

DouteCoeur(c) == IF c THEN Produits ELSE ProduitsDe(EnAttente(Bascules))
DouteCible(c) == (IF EnAttente(Ecritures) = {} THEN {} ELSE Cibles)
                   \cup (IF c THEN {"page"} ELSE {})

\* The page is loaded: by its address, or back from Keycloak with a session or
\* without.  Nobody waits any more for the calls that were made.
Charger(e, c) ==
  /\ Faute
  /\ connecte' = c /\ statut' = "loading" /\ ecran' = e
  /\ apiPage' = "session" /\ apiBadge' = "session" /\ perimes' = {}
  /\ coeurs' = {} /\ page' = Rien /\ badge' = 0
  /\ appels' = Abandonner(EnAttente(Bascules \cup Ecritures), Types) \cup Premiers(e)
  /\ Envoyable(appels')
  /\ douteCoeur' = DouteCoeur(c) /\ douteCible' = DouteCible(c)
  /\ UNCHANGED tables

\* What is mounted again is known to be right, unless a call nobody waits for
\* may still change the cart.
Remontees(C) == IF \E a \in EnAttente(Ecritures) : ~a.pour THEN {} ELSE C

\* A link of the navbar: the new page is mounted with the session of now.
Aller(e) ==
  LET api == Api(statut)
      gets == Suivis(IF e = "catalogue" THEN {Get("coeurs", api)}
                     ELSE IF statut = "loading" THEN {} ELSE {Get("page", api)})
      bascules == {a \in appels : a.type \in Bascules}
  IN  /\ e # ecran /\ ecran' = e
      /\ apiPage' = api /\ perimes' = perimes \ {"page"}
      /\ coeurs' = {} /\ page' = Rien
      /\ appels' = Abandonner(appels, {"coeurs", "page"} \cup Bascules) \cup gets
      /\ Envoyable(appels')
      /\ douteCoeur' = IF api = Proprietaire THEN ProduitsDe(bascules) ELSE Produits
      /\ douteCible' = IF api = Proprietaire THEN douteCible \ Remontees({"page"})
                                             ELSE douteCible \cup {"page"}
      /\ UNCHANGED <<tables, connecte, statut, apiBadge, badge, fautes>>

\* The session arrives.  The navbar mounts another badge for a client, and the
\* page of the cart asks again; the hearts do not.
ArriverStatut ==
  LET s == IF connecte THEN "client" ELSE "visiteur"
      cibles == (IF connecte THEN {"badge"} ELSE {})
                  \cup (IF ecran = "panier" THEN {"page"} ELSE {})
      abandons == IF connecte THEN {"badge"} ELSE {}
  IN  /\ statut = "loading" /\ statut' = s
      /\ apiBadge' = Api(s)
      /\ badge' = IF connecte THEN 0 ELSE badge
      /\ appels' = Abandonner(appels, abandons) \cup Suivis({Get(c, Api(s)) : c \in cibles})
      /\ Envoyable(appels')
      /\ douteCible' = douteCible \ Remontees(abandons)
      /\ UNCHANGED <<tables, connecte, ecran, apiPage, perimes, coeurs, page,
                     fautes, douteCoeur>>

\* The session was renewed, and the token that the badge or the page of the cart
\* was first rendered with expires: the calls of their listeners keep it
\* (cart-badge.tsx:21-26, panier/page.tsx:40-44), all the others have the new
\* one.  The badge was there before the page.  Only the cart is concerned.
Perimer(c) ==
  /\ Faute
  /\ volet = "panier" /\ statut = "client" /\ c \notin perimes
  /\ c = "page" => ecran = "panier" /\ apiPage = "compte"
  /\ perimes' = {"badge", c}
  /\ UNCHANGED <<tables, connecte, statut, ecran, apiPage, apiBadge, affichage,
                 appels, douteCoeur, douteCible>>

----------------------------------------------------------------------------
(* The user's clicks.                                                      *)

\* FavoriteButton: toggle shows the heart at once.
Basculer(p) ==
  LET t == IF p \in coeurs THEN "DELETE favori" ELSE "POST favori" IN
  /\ ecran = "catalogue" /\ volet = "coeurs"
  /\ coeurs' = IF p \in coeurs THEN coeurs \ {p} ELSE coeurs \cup {p}
  /\ appels' = appels \cup {Appel(t, Api(statut), p, 0)} /\ Envoyable(appels')
  /\ douteCoeur' = IF p \in ProduitsDe({a \in appels : a.type \in Bascules})
                        \/ Api(statut) # Proprietaire
                     THEN douteCoeur \cup {p} ELSE douteCoeur
  /\ UNCHANGED <<tables, montage, page, badge, fautes, douteCible>>

\* AddToCartButton on the catalogue, CartItemRow on the page of the cart: the
\* quantity is computed from the one displayed.  Bounds: one change of the cart
\* at a time, while the page or the badge is known to be right.
Ecrire(t, p, q) ==
  /\ douteCible # Cibles /\ \A u \in Ecritures : Encore(u) = {}
  /\ appels' = appels \cup {Appel(t, Api(statut), p, q)} /\ Envoyable(appels')
  /\ UNCHANGED <<tables, montage, affichage, fautes, douteCoeur, douteCible>>

Ajouter(p) ==
  /\ volet = "panier"
  /\ ecran = "catalogue" /\ EnRoute("ajouter") = {}
  /\ panier[Api(statut)][p] < MaxQuantite
  /\ Ecrire("ajouter", p, 1)

Affichee(p) == ecran = "panier" /\ page \notin {Rien, Erreur} /\ page[p] > 0

UpdateQuantite(p) ==
  /\ Affichee(p)
  /\ \E q \in {page[p] - 1, page[p] + 1} \cap 1..MaxQuantite : Ecrire("quantite", p, q)

Retirer(p) == Affichee(p) /\ Ecrire("retirer", p, 0)

----------------------------------------------------------------------------
(* The API.                                                                *)

Servi(a, r, vu, lu) ==
  appels' = (appels \ {a}) \cup {[a EXCEPT !.recu = r, !.vu = vu, !.lu = lu]}

Servir(a) ==
  LET o == a.de
      p == a.p
  IN
  /\ a.recu = "rien"
  /\ \/ /\ a.type \in ({"coeurs"} \cup Cibles) \ perimes
        /\ Servi(a, "ok", favoris[o], panier[o])
        /\ UNCHANGED tables
     \* OptionalAuthGuard ignores a token that has expired, and a call without an
     \* owner is refused (cart.service.ts:170).
     \/ /\ a.type \in perimes
        /\ Servi(a, "400", {}, Vide)
        /\ UNCHANGED tables
     \/ /\ a.type \in Bascules
        /\ Servi(a, IF a.type = "POST favori" /\ p \in favoris[o] THEN "409" ELSE "ok",
                 {}, Vide)
        /\ favoris' = [favoris EXCEPT ![o] =
                         IF a.type = "POST favori" THEN @ \cup {p} ELSE @ \ {p}]
        /\ UNCHANGED <<volet, panier>>
     \/ /\ a.type = "ajouter" /\ panier[o][p] < MaxQuantite
        /\ Servi(a, "ok", {}, Vide)
        /\ panier' = [panier EXCEPT ![o][p] = @ + a.q]
        /\ UNCHANGED <<volet, favoris>>
     \/ /\ a.type \in {"quantite", "retirer"}
        /\ Servi(a, IF a.type = "quantite" /\ panier[o][p] = 0 THEN "404" ELSE "ok",
                 {}, Vide)
        /\ panier' = [panier EXCEPT ![o][p] = IF @ = 0 THEN 0 ELSE a.q]
        /\ UNCHANGED <<volet, favoris>>
  \* A list that was read before a toggle is served does not have it.
  /\ douteCoeur' = IF a.type \in Bascules /\ \E l \in EnRoute("coeurs") : l.recu = "ok"
                     THEN douteCoeur \cup {p} ELSE douteCoeur
  /\ UNCHANGED <<montage, affichage, fautes, douteCible>>

\* The call fails before the API has done anything, or its answer is lost.
Echouer(a) ==
  /\ Faute
  /\ a.recu \in {"rien", "ok"}
  /\ Servi(a, "echec", {}, Vide)
  /\ douteCoeur' = IF a.type = "coeurs" THEN Produits
                   ELSE IF a.type \in Bascules /\ (a.recu = "ok" \/ a.avant)
                     THEN douteCoeur \cup {a.p} ELSE douteCoeur
  /\ douteCible' = IF a.type \in Cibles THEN douteCible \cup {a.type}
                   ELSE IF a.type \in Ecritures /\ a.recu = "ok" THEN Cibles
                   ELSE douteCible
  /\ UNCHANGED <<tables, montage, affichage>>

----------------------------------------------------------------------------
(* The answers.                                                            *)

Retire(a) == appels' = appels \ {a}

\* Nobody waits for the answer.
Ignorer(a) ==
  /\ a.recu # "rien" /\ ~a.pour /\ a.type \notin Ecritures
  /\ Retire(a)
  /\ UNCHANGED <<tables, montage, affichage, fautes, douteCoeur, douteCible>>

\* The list replaces the hearts, those that were toggled meanwhile too.
ArriverCoeurs(a) ==
  /\ a.type = "coeurs" /\ a.pour /\ a.recu # "rien" /\ Retire(a)
  /\ coeurs' = IF a.recu = "ok" THEN a.vu ELSE coeurs
  /\ douteCoeur' = douteCoeur \cup ProduitsDe(EnAttente(Bascules))
  /\ UNCHANGED <<tables, montage, page, badge, fautes, douteCible>>

\* Mutant: every failure rolls the heart back.
ARemettreToujours(a) == a.recu \in {"echec", "409"}

\* toggle's catch: a 409 says the product is a favourite already.
ARemettre(a) == a.recu = "echec"

ArriverBascule(a) ==
  /\ a.type \in Bascules /\ a.pour /\ a.recu # "rien" /\ Retire(a)
  /\ coeurs' = IF ~ARemettre(a) THEN coeurs
               ELSE IF a.type = "DELETE favori" THEN coeurs \cup {a.p}
               ELSE coeurs \ {a.p}
  /\ UNCHANGED <<tables, montage, page, badge, fautes, douteCoeur, douteCible>>

\* GET /cart is answered.  The badge catches a failure and stays as it is; the
\* page shows it, and goes on showing it whatever is answered later.
ArriverPanier(a) ==
  /\ a.type \in Cibles /\ a.pour /\ a.recu # "rien" /\ Retire(a)
  /\ page' = IF a.type = "badge" \/ page = Erreur THEN page
             ELSE IF a.recu = "ok" THEN a.lu ELSE Erreur
  /\ badge' = IF a.type = "badge" /\ a.recu = "ok" THEN TotalDe(a.lu) ELSE badge
  /\ UNCHANGED <<tables, montage, coeurs, fautes, douteCoeur, douteCible>>

\* Mutant: removing a row says nothing.
APrevenirSansRetrait == {"ajouter", "quantite"}

\* The calls that are followed by the event "cart-updated".
APrevenir == Ecritures

\* The event: the badge and the page of the cart ask again, as the session
\* they were first rendered with.
ArriverEcriture(a) ==
  LET cibles == IF ~a.pour \/ a.recu # "ok" \/ a.type \notin APrevenir THEN {}
                ELSE {"badge"} \cup (IF ecran = "panier" THEN {"page"} ELSE {})
  IN  /\ a.type \in Ecritures /\ a.recu # "rien"
      /\ appels' = (appels \ {a})
                     \cup {Get(c, IF c = "page" THEN apiPage ELSE apiBadge) : c \in cibles}
      /\ douteCible' = douteCible \cup Croises(cibles)
      /\ UNCHANGED <<tables, montage, affichage, fautes, douteCoeur>>

----------------------------------------------------------------------------
InitAchats ==
  /\ volet \in {"coeurs", "panier"}
  /\ favoris \in [Proprietaires -> SUBSET Produits]
  /\ volet = "panier" => \A o \in Proprietaires : favoris[o] = {}
  /\ panier = [o \in Proprietaires |-> Vide]
  /\ connecte \in BOOLEAN /\ statut = "loading" /\ ecran \in Ecrans
  /\ apiPage = "session" /\ apiBadge = "session" /\ perimes = {}
  /\ coeurs = {} /\ page = Rien /\ badge = 0
  /\ appels = Premiers(ecran) /\ fautes = 0
  /\ douteCoeur = (IF connecte THEN Produits ELSE {})
  /\ douteCible = (IF connecte THEN {"page"} ELSE {})

NextAchats ==
  \/ \E e \in Ecrans, c \in BOOLEAN : Charger(e, c)
  \/ \E e \in Ecrans : Aller(e)
  \/ ArriverStatut
  \/ \E c \in Cibles : Perimer(c)
  \/ \E p \in Produits : Basculer(p) \/ Ajouter(p) \/ UpdateQuantite(p) \/ Retirer(p)
  \/ \E a \in appels :
       \/ Servir(a) \/ Echouer(a) \/ Ignorer(a) \/ ArriverCoeurs(a)
       \/ ArriverBascule(a) \/ ArriverPanier(a) \/ ArriverEcriture(a)

SpecAchats == InitAchats /\ [][NextAchats]_achats

----------------------------------------------------------------------------
(* Properties.                                                             *)

\* Types; a call of the cart's page is on its way only while that page is on
\* the screen (panier/page.tsx:31-44).
TypeAchats ==
  /\ \A o \in Proprietaires :
       favoris[o] \subseteq Produits /\ panier[o] \in [Produits -> Quantites]
  /\ statut \in {"loading", "visiteur", "client"} /\ ecran \in Ecrans
  /\ coeurs \subseteq Produits
  /\ page \in {Rien, Erreur} \cup [Produits -> Quantites]
  /\ badge \in 0..(MaxQuantite * Cardinality(Produits))
  /\ EnRoute("page") # {} => ecran = "panier"
  /\ statut = "client" => apiBadge = "compte"
  /\ perimes # {} => statut = "client" /\ "badge" \in perimes

\* At rest a heart tells whether the product is a favourite of the user: after
\* a call that failed before the API, a 409, a list that came after the click,
\* and pages mounted again (favorites-provider.tsx:27-71).  Left out: two
\* clicks on one product that overlap, a list read before the click was served,
\* an answer that is lost, and the list of another owner.
CoeurFidele ==
  volet = "coeurs" /\ statut # "loading" /\ ecran = "catalogue"
    /\ EnRoute("coeurs") = {}
    /\ (\A t \in Bascules : Encore(t) = {})
  => \A p \in Produits \ douteCoeur :
       p \in coeurs <=> p \in favoris[Proprietaire]

CibleAuRepos(c) ==
  /\ volet = "panier" /\ statut # "loading" /\ c \notin douteCible /\ EnRoute(c) = {}
  /\ \A t \in Ecritures : Encore(t) = {}

\* At rest the page of the cart and the badge show the cart of the user, after
\* any sequence of additions, changes and removals from either page
\* (cart-badge.tsx:8-11, panier/page.tsx:31-44, cart-item-row.tsx:10-26).  Once
\* the token their listener keeps has expired, the page shows the cart or an
\* error, and the badge what it showed before.  Left out besides: two reads that
\* cross, an answer that is lost, and a page whose listener was made with the
\* session of another owner.
PanierAffiche ==
  /\ CibleAuRepos("badge") /\ "badge" \notin perimes =>
       badge = TotalDe(panier[Proprietaire])
  /\ CibleAuRepos("page") /\ ecran = "panier" =>
       \/ page = panier[Proprietaire]
       \/ page = Erreur /\ "page" \in perimes

\* The cart on the screen is the user's, and only a page that is there asks for it.
PanierJuste == TypeAchats /\ PanierAffiche

\* The hearts are those of the visitor or of the client (the comment of
\* favorites-provider.tsx:18-21), when nothing failed and nobody clicked.
CoeurPourTous ==
  volet = "coeurs" /\ statut # "loading" /\ ecran = "catalogue" /\ fautes = 0
    /\ appels = {}
  => coeurs = favoris[Proprietaire]
=============================================================================
