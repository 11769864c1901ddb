------------------------------ MODULE Vitrine -------------------------------
(***************************************************************************)
(* Two pages over the tables, each a member of Volets:                     *)
(*   accueil   app/page.tsx with announcement-banner.tsx and               *)
(*             catalogue-filters.tsx: every push of the filters renders    *)
(*             the page again on the server, and the components keep their *)
(*             state                                                       *)
(*   tableau   app/admin/page.tsx over dashboard.service.ts, whose queries *)
(*             run at the same time, outside a transaction                 *)
(***************************************************************************)
EXTENDS Catalogue, Sequences

CONSTANTS
  Recherches,    \* what a visitor types in the search field
  Commandes      \* orders, each of one unit at the price of one

\* The search parameters of the page.
FiltreT == [q : Recherches \cup {Aucun}, cat : Categories \cup {Aucun}]

ASSUME VitrineAssumption ==
  /\ Aucun \notin Recherches /\ Aucun \notin FiltreT
  /\ IsFiniteSet(Commandes)

VARIABLES
  vues,          \* the announcements the page got, in order
  index,         \* AnnouncementBanner: the one it shows, from 0
  dismissed,
  url,           \* the search parameters of the page
  enRoute,       \* those of the push on its way
  q,             \* CatalogueFilters: the search field
  minuterie,     \* the search parameters its timer was set with
  choix,         \* the category selected last
  croise,        \* a filter was changed before the other one was in the URL
  commandes,     \* table Commande: the state of each order
  stats          \* the answer of the dashboard, as far as it is read

accueil == <<vues, index, dismissed, url, enRoute, q, minuterie, choix, croise>>
tableau == <<commandes, stats>>
vitrine == <<catalogue, accueil, tableau>>

\* findActive orders by dateDebut; equal ones come in any order.
Ordres(A) ==
  {s \in [1..Cardinality(A) -> A] :
     \A i, j \in DOMAIN s : i < j =>
       s[i] # s[j] /\ annonces[s[i]].debut >= annonces[s[j]].debut}

SansFiltre == [q |-> Aucun, cat |-> Aucun]
Etats == {"absente", "EN_ATTENTE", "LIVREE", "ANNULEE"}
PasDeStats == [lues |-> {}, change |-> FALSE, creees |-> 0, ventes |-> 0,
               total |-> 0, parEtat |-> [e \in Etats \ {"absente"} |-> 0]]

InitVitrine ==
  /\ InitCatalogue
  /\ vues \in (IF volet = "accueil" THEN Ordres(Actives) ELSE {<< >>})
  /\ index = 0 /\ dismissed = FALSE
  /\ url = SansFiltre /\ enRoute = Aucun /\ q = Aucun /\ minuterie = Aucun
  /\ choix = Aucun /\ croise = FALSE
  /\ commandes = [o \in Commandes |-> "absente"]
  /\ stats = PasDeStats

Accueil == volet = "accueil" /\ UNCHANGED <<tables, req, volet, pages, ventes,
                                            compta, tableau>>

----------------------------------------------------------------------------
(* AnnouncementBanner.                                                     *)

\* Mutant: an index past the end of the list stays there.
SuivanteSansModulo(i, n) ==
  IF i + 1 = n THEN 0 ELSE IF i < n THEN i + 1 ELSE i

\* (i + 1) % annonces.length
Suivante(i, n) == (i + 1) % n

\* The interval, set while there are two announcements at least.
Defiler ==
  /\ Accueil /\ Len(vues) > 1
  /\ index' = Suivante(index, Len(vues))
  /\ UNCHANGED <<gestes, vues, dismissed, url, enRoute, q, minuterie, choix,
                 croise>>

\* A dot, or the cross.
Pointer(i) ==
  /\ Accueil /\ Geste /\ ~dismissed /\ Len(vues) > 1 /\ i < Len(vues)
  /\ index' = i
  /\ UNCHANGED <<vues, dismissed, url, enRoute, q, minuterie, choix, croise>>

FermerBandeau ==
  /\ Accueil /\ Geste /\ ~dismissed /\ vues # << >>
  /\ dismissed' = TRUE
  /\ UNCHANGED <<vues, index, url, enRoute, q, minuterie, choix, croise>>

----------------------------------------------------------------------------
(* CatalogueFilters.                                                       *)

\* The effect of [q] replaces the timer; it keeps the parameters of now.
Taper(s) ==
  /\ Accueil /\ Geste /\ s # q
  /\ q' = s
  /\ minuterie' = url
  /\ croise' = (croise \/ enRoute # Aucun)
  /\ UNCHANGED <<vues, index, dismissed, url, enRoute, choix>>

\* Mutant: the parameters are made anew.
CibleSansCategorie(params) == [SansFiltre EXCEPT !.q = q]

Cible(params) == [params EXCEPT !.q = q]

\* 350 ms later.
FinDelai ==
  /\ Accueil /\ minuterie # Aucun
  /\ enRoute' = IF q = minuterie.q THEN enRoute ELSE Cible(minuterie)
  /\ minuterie' = Aucun
  /\ UNCHANGED <<gestes, vues, index, dismissed, url, q, choix, croise>>

SelectCategorie(c) ==
  /\ Accueil /\ Geste /\ c # url.cat
  /\ enRoute' = [url EXCEPT !.cat = c]
  /\ choix' = c
  /\ croise' = (croise \/ minuterie # Aucun \/ enRoute # Aucun)
  /\ UNCHANGED <<vues, index, dismissed, url, q, minuterie>>

\* The page comes, with the announcements of now.
Arriver ==
  /\ Accueil /\ enRoute # Aucun
  /\ url' = enRoute /\ enRoute' = Aucun
  /\ vues' \in Ordres(Actives)
  /\ UNCHANGED <<gestes, index, dismissed, q, minuterie, choix, croise>>

----------------------------------------------------------------------------
(* getStats.                                                               *)

Tableau == volet = "tableau" /\ UNCHANGED <<catalogue, accueil>>

De(etats) == {o \in Commandes : commandes[o] \in etats}
Passees == De(Etats \ {"absente"})

\* Mutant: the sum is over every order.
VentesDeTout == Cardinality(Passees)

\* _sum of montantTotal where etat is not ANNULEE.
Ventes == Cardinality(De(Etats \ {"absente", "ANNULEE"}))

ParEtat == [e \in Etats \ {"absente"} |-> Cardinality(De({e}))]

\* Each query reads the tables as they are when it runs.
Lire(champ, lues) ==
  /\ Tableau /\ champ \notin stats.lues
  /\ stats' = [lues EXCEPT !.lues = @ \cup {champ}]
  /\ UNCHANGED commandes

\* An order is created, delivered or cancelled.
Evoluer(o, e) ==
  /\ Tableau
  /\ <<commandes[o], e>> \in {<<"absente", "EN_ATTENTE">>,
                              <<"EN_ATTENTE", "LIVREE">>,
                              <<"EN_ATTENTE", "ANNULEE">>}
  /\ commandes' = [commandes EXCEPT ![o] = e]
  /\ stats' = IF stats.lues = {} THEN stats
              ELSE [stats EXCEPT !.change = TRUE,
                      !.creees = IF e = "EN_ATTENTE" THEN @ + 1 ELSE @]

----------------------------------------------------------------------------
NextVitrine ==
  \/ NextCatalogue /\ UNCHANGED <<accueil, tableau>>
  \/ Defiler \/ FermerBandeau \/ FinDelai \/ Arriver
  \/ \E i \in 0..Cardinality(Annonces) : Pointer(i)
  \/ \E s \in Recherches \cup {Aucun} : Taper(s)
  \/ \E c \in Categories \cup {Aucun} : SelectCategorie(c)
  \/ Lire("ventes", [stats EXCEPT !.ventes = Ventes])
  \/ Lire("total", [stats EXCEPT !.total = Cardinality(Passees)])
  \/ Lire("parEtat", [stats EXCEPT !.parEtat = ParEtat])
  \/ Lire("populaires", stats)
  \/ \E o \in Commandes, e \in Etats : Evoluer(o, e)

----------------------------------------------------------------------------
\* With nothing on its way the URL has what is typed and what is selected, but
\* for a filter that was changed before the other one was in the URL
\* (catalogue-filters.tsx:18-28 keeps the parameters of 350 ms before).
FiltresFideles ==
  minuterie = Aucun /\ enRoute = Aucun /\ ~croise =>
    url = [q |-> q, cat |-> choix]

Quatre == {"ventes", "total", "parEtat", "populaires"}
Somme == stats.parEtat["EN_ATTENTE"] + stats.parEtat["LIVREE"]
           + stats.parEtat["ANNULEE"]

\* The four numbers of the dashboard agree when no order changed while they
\* were read; at any rate the states add up to the total, but for the orders
\* created meanwhile (dashboard.service.ts:12-28).
StatsJustes ==
  stats.lues = Quatre =>
    /\ ~stats.change => stats.ventes = stats.total - stats.parEtat["ANNULEE"]
    /\ Somme - stats.total \in -stats.creees..stats.creees

\* As long as the page keeps its announcements, two at least, and the banner is
\* not closed, each of them is shown again and again, also after a search that
\* left the banner on an announcement the list no longer has
\* (announcement-banner.tsx:14-20).
BanniereTourne ==
  \A a \in Annonces :
    <>[](Len(vues) > 1 /\ \E i \in DOMAIN vues : vues[i] = a)
      => []<>(index < Len(vues) /\ vues[index + 1] = a)
=============================================================================
