------------------------------- MODULE Boites -------------------------------
(***************************************************************************)
(* The pages that show messages, with the gateway and the routes they use: *)
(*   cloche   frontend components/notification-bell.tsx                    *)
(*   boite    components/messages-inbox.tsx, of a client or a driver       *)
(*   bulle    components/chat-widget.tsx, on every page of those two       *)
(*   livreur  components/livreur-chat.tsx, on the page of an order         *)
(*   admin    components/admin/chat-admin.tsx                              *)
(* A response replaces what the page shows, whatever was asked or received *)
(* since; an event adds to it.                                             *)
(***************************************************************************)
EXTENDS Messagerie

CONSTANTS
  Ecrans,      \* the sets of components that may be on the page
  Livreur,     \* the driver the component livreur is about
  Aucun,       \* no contact
  Courriers,   \* who may write to whom, besides moi
  Observes     \* who moi may be

VARIABLES
  ecran,       \* the components on the page besides the bell
  compte,      \* what the bell shows
  connu,       \* whether the bell knows the id of moi (GET /auth/me answered)
  ecoute,      \* the token the bell counts with, that of its first rendering:
               \* "courante", "remplacee" by another, or found "perimee"
  vue,         \* of each component, what it shows
  demandes,    \* GET requests of the components under way
  comptages,   \* GET /messages/unread-count under way
  calme,       \* of each component: none of its requests overlapped another
               \* one or a message on its way, and no event was lost
  montres      \* messages that were on the screen as their sender's

cloche == <<ecran, compte, connu, ecoute, comptages>>
vars == <<serveur, reseau, bornes, cloche, vue, demandes, calme, montres>>

ASSUME BoitesAssumption ==
  /\ Ecrans \subseteq SUBSET {"boite", "bulle", "livreur", "admin"}
  /\ \A E \in Ecrans : \A s, t \in E \ {"bulle"} : s = t  \* the bubble is on
                        \* every page, each of the others on its own
  /\ Aucun \notin Personnes \cup {Tous}
  /\ Livreur \in Personnes /\ Observes \subseteq Personnes
  /\ \A c \in Courriers : /\ c[1] \in Personnes
                            /\ c[2] \in (Personnes \cup {Tous}) \ {c[1]}

\* The components that are mounted.
Actifs == ecran \cup {"cloche"}

Init ==
  /\ InitServeur
  /\ moi \in Observes
  /\ ecran \in Ecrans
  /\ (moi \in Admins) <=> (ecran = {"admin"})
  /\ "livreur" \in ecran => moi # Livreur
  /\ prise = [s \in Actifs |-> "jointe"]
  /\ file = [s \in Actifs |-> <<>>]
  /\ compte = 0
  /\ connu = FALSE
  /\ ecoute = "courante"
  /\ vue = [s \in ecran |-> [choix |-> IF s = "livreur" THEN Livreur ELSE Aucun,
                            ouvert |-> s \in {"boite", "admin"},
                            fil |-> <<>>, annonces |-> <<>>]]
  /\ demandes = {}
  \* The bell counts when it is mounted: the answer has come, or not yet.
  /\ comptages \in {{}, {[n |-> 0, total |-> -1]}}
  /\ gestes = Cardinality(comptages)
  /\ calme = [s \in Actifs |-> TRUE]
  /\ montres = {}

----------------------------------------------------------------------------
(* Sockets.                                                                *)

\* The session has a new token: every component closes its socket and opens
\* another, and the events on their way are lost.
Renouveler ==
  /\ Geste
  /\ prise' = [s \in Actifs |-> "ouverte"]
  /\ file' = [s \in Actifs |-> <<>>]
  /\ ecoute' = IF ecoute = "courante" THEN "remplacee" ELSE ecoute
  /\ UNCHANGED <<serveur, ecran, compte, connu, comptages, vue, demandes>>

\* GET /auth/me answers: the bell knows who moi is, and opens a new socket.
MoiConnu ==
  /\ ~connu
  /\ connu' = TRUE
  /\ prise' = [prise EXCEPT !["cloche"] = "ouverte"]
  /\ file' = [file EXCEPT !["cloche"] = <<>>]
  /\ UNCHANGED <<serveur, bornes, ecran, compte, ecoute, comptages, vue, demandes>>

----------------------------------------------------------------------------
(* The bell.                                                               *)

\* The event adds one, unless moi is known to be the sender.
Sonne(m) ==
  /\ ~(connu /\ m.de = moi)
  /\ m.a = Tous \/ (connu /\ m.a = moi)

\* GET /messages/unread-count, with the token of the first rendering.  Its two
\* counts are taken at one moment here.
Compter(r) ==
  /\ r.total = -1 /\ ecoute # "perimee"
  /\ comptages' = (comptages \ {r}) \cup
       {[r EXCEPT !.total = DirectsNonLus + DiffusionsNonLues]}
  /\ UNCHANGED <<serveur, reseau, bornes, ecran, compte, connu, ecoute, vue,
                 demandes>>

\* That token was replaced, and has expired: the 401 is swallowed.
CompterRefuse(r) ==
  /\ r.total = -1 /\ ecoute # "courante"
  /\ ecoute' = "perimee"
  /\ comptages' = comptages \ {r}
  /\ UNCHANGED <<serveur, reseau, bornes, ecran, compte, connu, vue, demandes>>

RepondreCompte(r) ==
  /\ r.total # -1
  /\ compte' = r.total
  /\ comptages' = comptages \ {r}
  /\ UNCHANGED <<serveur, reseau, bornes, ecran, connu, ecoute, vue, demandes>>

----------------------------------------------------------------------------
(* Reading.                                                                *)

\* A component asks for the messages of a contact.
Demander(s, avec) ==
  /\ Geste
  /\ demandes' = demandes \cup
       {[n |-> gestes', par |-> s, avec |-> avec, pc |-> "lire",
         lus |-> <<>>]}

\* s turns to the contact c, or opens or closes on it, and asks for its messages.
Passer(s, c, ouvert) ==
  /\ vue' = [vue EXCEPT ![s].choix = c, ![s].ouvert = ouvert]
  /\ Demander(s, c)
  /\ UNCHANGED <<serveur, reseau, cloche>>

\* The inbox starts on its first contact, the support.
MonterBoite ==
  /\ "boite" \in ecran /\ vue["boite"].choix = Aucun
  /\ Passer("boite", Support, TRUE)

\* Another contact of the inbox, or the announcements.
ChoisirBoite(c) ==
  /\ "boite" \in ecran /\ vue["boite"].choix \notin {Aucun, c} /\ c # moi
  /\ Passer("boite", c, TRUE)

\* The bubble asks as soon as it knows its contact, the support, still closed,
MonterBulle ==
  /\ "bulle" \in ecran /\ vue["bulle"].choix = Aucun
  /\ Passer("bulle", Support, FALSE)

\* and again each time it is opened or closed.
BasculerBulle ==
  /\ "bulle" \in ecran /\ vue["bulle"].choix # Aucun
  /\ Passer("bulle", Support, ~vue["bulle"].ouvert)

\* The driver's panel asks when it opens.
BasculerLivreur ==
  /\ "livreur" \in ecran
  /\ IF ~vue["livreur"].ouvert
     THEN Passer("livreur", Livreur, TRUE)
     ELSE /\ vue' = [vue EXCEPT !["livreur"].ouvert = FALSE]
          /\ UNCHANGED <<serveur, reseau, bornes, cloche, demandes>>

\* The admin chooses a contact, the first one at once, or the broadcasts.
ChoisirAdmin(c) ==
  /\ "admin" \in ecran /\ vue["admin"].choix # c /\ c # moi
  /\ Passer("admin", c, TRUE)

Suite(r, q) == demandes' = (demandes \ {r}) \cup {q}

Lire(r) ==
  /\ r.pc = "lire"
  /\ Suite(r, [r EXCEPT !.lus = Lit(r.avec), !.pc = "marquer"])
  /\ UNCHANGED <<serveur, reseau, bornes, cloche, vue>>

Marquer(r) ==
  /\ r.pc = "marquer"
  /\ Marque(r.avec)
  /\ Suite(r, [r EXCEPT !.pc = "repondre"])
  /\ UNCHANGED <<moi, envois, reseau, bornes, cloche, vue>>

\* The list the answer replaces: the inbox keeps its announcements apart, the
\* admin's page shows them oldest first among the messages.
Affiche(s, avec, lus) ==
  [vue EXCEPT ![s] =
     IF avec = Tous /\ s = "boite"
     THEN [@ EXCEPT !.annonces = lus]
     ELSE [@ EXCEPT !.fil = IF avec = Tous THEN Reverse(lus) ELSE lus]]

\* Mutant: the bell is not told that messages were read.
RepondreSansPrevenir(r) ==
  /\ r.pc = "repondre"
  /\ vue' = Affiche(r.par, r.avec, r.lus)
  /\ demandes' = demandes \ {r}
  /\ UNCHANGED <<serveur, reseau, bornes, cloche>>

\* The answer is shown, and "messages-read" makes the bell count again, with the
\* token it was first rendered with.
Repondre(r) ==
  /\ r.pc = "repondre"
  /\ vue' = Affiche(r.par, r.avec, r.lus)
  /\ demandes' = demandes \ {r}
  /\ comptages' = comptages \cup
       {[n |-> r.n, total |-> -1]}
  /\ UNCHANGED <<serveur, reseau, bornes, ecran, compte, connu, ecoute>>

\* A request fails: the page stays as it is.
Echouer ==
  /\ PanneDe
  /\ \/ /\ \E r \in demandes : demandes' = demandes \ {r}
        /\ UNCHANGED comptages
     \/ /\ \E r \in comptages : comptages' = comptages \ {r}
        /\ UNCHANGED demandes
  /\ UNCHANGED <<serveur, reseau, ecran, compte, connu, ecoute, vue>>

----------------------------------------------------------------------------
(* Events and sending.                                                     *)

AjouteSiAbsent(fil, i) == IF i \in ToSet(fil) THEN fil ELSE Append(fil, i)

EcouteCloche(i) ==
  /\ compte' = compte + IF Sonne(messages[i]) THEN 1 ELSE 0
  /\ UNCHANGED vue

\* The inbox keeps the announcements apart; it takes messages of any thread.
EcouteBoite(i) ==
  /\ vue' = IF messages[i].a = Tous
            THEN [vue EXCEPT !["boite"].annonces = <<i>> \o @]
            ELSE [vue EXCEPT !["boite"].fil = AjouteSiAbsent(@, i)]
  /\ UNCHANGED compte

EcouteBulle(i) ==
  /\ vue' = [vue EXCEPT !["bulle"].fil = AjouteSiAbsent(@, i)]
  /\ UNCHANGED compte

\* Mutant: only what the driver sent is added.
EcouteLivreurRecus(i) ==
  /\ vue' = [vue EXCEPT !["livreur"].fil =
               IF Livreur = messages[i].de THEN AjouteSiAbsent(@, i) ELSE @]
  /\ UNCHANGED compte

\* The driver's panel takes the messages of which the driver is an end.
EcouteLivreur(i) ==
  /\ vue' = [vue EXCEPT !["livreur"].fil =
               IF Livreur \in {messages[i].de, messages[i].a}
               THEN AjouteSiAbsent(@, i) ELSE @]
  /\ UNCHANGED compte

EcouteAdmin(i) ==
  /\ vue' = [vue EXCEPT !["admin"].fil = AjouteSiAbsent(@, i)]
  /\ UNCHANGED compte

Livrer(s) ==
  /\ file[s] # <<>>
  /\ file' = [file EXCEPT ![s] = Tail(@)]
  /\ LET i == Head(file[s]) IN
       \/ s = "cloche" /\ EcouteCloche(i)
       \/ s = "boite" /\ EcouteBoite(i)
       \/ s = "bulle" /\ EcouteBulle(i)
       \/ s = "livreur" /\ EcouteLivreur(i)
       \/ s = "admin" /\ EcouteAdmin(i)
  /\ UNCHANGED <<serveur, prise, bornes, ecran, connu, ecoute, comptages, demandes>>

\* moi sends to the contact it looks at.
Envoyer(s) ==
  /\ s \in ecran /\ prise[s] = "jointe"
  /\ HandleMessage(moi, vue[s].choix)
  /\ UNCHANGED <<cloche, vue, demandes>>

EnvoyerBoite == vue["boite"].choix \notin {Aucun, Tous} /\ Envoyer("boite")
EnvoyerBulle ==
  vue["bulle"].ouvert /\ vue["bulle"].choix # Aucun /\ Envoyer("bulle")
EnvoyerLivreur == vue["livreur"].ouvert /\ Envoyer("livreur")
EnvoyerAdmin == vue["admin"].choix # Aucun /\ Envoyer("admin")

\* Someone else sends, to moi or not.
AutreEnvoie(p, a) ==
  /\ p # moi
  /\ HandleMessage(p, a)
  /\ UNCHANGED <<cloche, vue, demandes>>

----------------------------------------------------------------------------
\* A message is on its way to a component.
EnChemin(s) ==
  \/ file[s] # <<>>
  \/ \E e \in envois :
       \/ e.a = Tous
       \/ moi \in (IF s = "cloche" THEN {e.a} ELSE {e.a, e.de})

EnCours(s) == IF s = "cloche" THEN comptages ELSE {r \in demandes : r.par = s}

\* What the step just made disturbs a component.
Trouble(s) ==
  \/ Cardinality(EnCours(s)') > 1
  \/ EnCours(s)' # {} /\ EnChemin(s)'
  \/ (EnChemin(s) \/ EnChemin(s)') /\ prise'[s] # "jointe"
  \/ s = "cloche" /\ ~connu /\ EnChemin(s)
  \/ pannes' > pannes

\* The messages on the screen, and among them those shown as the contact's:
\* everything else is drawn as if moi had sent it.
EcranBoite(v) == ToSet(IF v.choix = Tous THEN v.annonces ELSE v.fil)
EcranBulle(v) == IF v.ouvert THEN ToSet(v.fil) ELSE {}
EcranLivreur(v) == IF v.ouvert THEN ToSet(v.fil) ELSE {}
EcranAdmin(v) == ToSet(v.fil)

Ecran(s) == CASE s = "boite" -> EcranBoite(vue[s])
              [] s = "bulle" -> EcranBulle(vue[s])
              [] s = "livreur" -> EcranLivreur(vue[s])
              [] s = "admin" -> EcranAdmin(vue[s])

Attribues(s) == {i \in Ecran(s) : messages[i].de = vue[s].choix}

Temoins ==
  /\ calme' = [s \in Actifs |-> calme[s] /\ ~Trouble(s)]
  /\ montres' = montres \cup UNION {Attribues(s)' : s \in ecran}

Gestes ==
  \/ MonterBoite \/ MonterBulle \/ BasculerBulle \/ BasculerLivreur
  \/ \E c \in Personnes \cup {Tous} : ChoisirBoite(c) \/ ChoisirAdmin(c)
  \/ "boite" \in ecran /\ EnvoyerBoite
  \/ "bulle" \in ecran /\ EnvoyerBulle
  \/ "livreur" \in ecran /\ EnvoyerLivreur
  \/ "admin" \in ecran /\ EnvoyerAdmin

Etape ==
  \/ GatewayNext /\ UNCHANGED <<cloche, vue, demandes>>
  \/ \E s \in Actifs : Livrer(s)
  \/ Renouveler \/ MoiConnu \/ Echouer \/ Gestes
  \/ \E c \in Courriers : AutreEnvoie(c[1], c[2])
  \/ \E r \in comptages : Compter(r) \/ CompterRefuse(r) \/ RepondreCompte(r)
  \/ \E r \in demandes : Lire(r) \/ Marquer(r) \/ Repondre(r)

Next == Etape /\ Temoins

Spec == Init /\ [][Next]_vars

----------------------------------------------------------------------------
TypeOK ==
  /\ moi \in Personnes /\ ecran \in Ecrans
  /\ messages \in Seq([de : Personnes, a : Personnes \cup {Tous}, lu : BOOLEAN])
  /\ lectures \subseteq [m : Ids, qui : Personnes, lu : BOOLEAN]
  /\ \A e \in envois : e.m \in {0} \cup Ids
  /\ prise \in [Actifs -> Etats]
  /\ \A s \in Actifs : ToSet(file[s]) \subseteq Ids
  /\ compte \in Nat /\ connu \in BOOLEAN
  /\ ecoute \in {"courante", "remplacee", "perimee"}
  /\ \A s \in ecran : /\ vue[s].choix \in Personnes \cup {Tous, Aucun}
                     /\ ToSet(vue[s].fil \o vue[s].annonces) \subseteq Ids

\* The driver's panel shows only the conversation with that driver, while the
\* same events also feed the other components (livreur-chat.tsx:54).
FilDuLivreur ==
  "livreur" \in ecran =>
    \A i \in ToSet(vue["livreur"].fil) : Livreur \in {messages[i].de, messages[i].a}

\* No page ever shows moi a message between two other people: "le service ne
\* renvoie jamais que les messages où l'appelant est participant"
\* (messages.controller.ts:8), and the gateway emits to the rooms of the two
\* ends (chat.gateway.ts:90); what is shown was sent.
Participant ==
  /\ TypeOK /\ FilDuLivreur
  /\ \A s \in ecran : \A i \in ToSet(vue[s].fil \o vue[s].annonces) :
       messages[i].a = Tous \/ moi \in {messages[i].de, messages[i].a}

\* No thread shows a message twice, though a message comes both as an event and
\* in the answer to a request (chat-widget.tsx:55).
SansDoublon == \A s \in ecran : IsInjective(vue[s].fil)

\* A broadcast is announced to nobody before everyone but its sender has it to
\* read: the bell of those who are away counts it when they come back
\* (chat.gateway.ts:65-76).
DiffusionPartout ==
  \A s \in Actifs : \A i \in ToSet(file[s]) :
    messages[i].a = Tous =>
      {l.qui : l \in {l \in lectures : l.m = i}} = Personnes \ {messages[i].de}

\* When nothing is under way and nothing disturbed it, the bell shows the number
\* of messages left to read: it follows what every page sends, receives and
\* marks as read (notification-bell.tsx:15-20).  Once it was refused with an
\* expired token it does not see any more what is read (notification-bell.tsx:54-59),
\* but it still shows no less than what is left.
CompteurJuste ==
  calme["cloche"] /\ comptages = {} /\ demandes = {} /\ ~EnChemin("cloche") =>
    \/ compte = DirectsNonLus + DiffusionsNonLues
    \/ ecoute = "perimee" /\ compte > DirectsNonLus + DiffusionsNonLues

\* What a component shows of the contact it is on, when nothing disturbed it: every
\* message of the thread, or the last announcements.
FilComplet ==
  \A s \in ecran :
    /\ calme[s] /\ EnCours(s) = {} /\ ~EnChemin(s)
    /\ vue[s].choix # Aucun /\ vue[s].ouvert
    => (IF vue[s].choix = Tous THEN Diffusions ELSE Fil(moi, vue[s].choix))
         \subseteq Ecran(s)

\* A thread at rest shows each of its messages, and none twice.
FilFidele == SansDoublon /\ FilComplet

\* On the inbox and the admin's page, ouvrir == lire (messages.service.ts:17):
\* when nothing disturbed them, a message marked read was on the screen as a
\* message of its sender.
LuMontre ==
  "bulle" \notin ecran =>
    \A s \in ecran \cap {"boite", "admin"} : \A i \in Ids :
      calme[s] /\ EnCours(s) = {} /\ messages[i].a = moi /\ messages[i].lu =>
        i \in montres

(***************************************************************************)
(* Said in a comment and not what the code does (README, "Findings").      *)
(***************************************************************************)

\* The same with the bubble of a client: it asks for the thread, which marks it
\* read, as soon as it knows its contact, while it is closed
\* (messages.service.ts:16, chat-widget.tsx:75).
OuvrirCestLire ==
  \A s \in ecran : \A i \in Ids :
    calme[s] /\ EnCours(s) = {} /\ messages[i].a = moi /\ messages[i].lu =>
      i \in montres
=============================================================================
