----------------------------- MODULE Messagerie -----------------------------
(***************************************************************************)
(* The messages of the shop on the server: the tables Message and          *)
(* MessageLecture, the handlers of the /chat gateway and the rooms its     *)
(* sockets join (backend/src/realtime/chat.gateway.ts,                     *)
(* backend/src/messages/messages.service.ts).                              *)
(*                                                                         *)
(* One signed-in user, moi, is watched with the sockets of its pages; the  *)
(* others only send.  A message is its index in `messages'; its index is   *)
(* also its date.                                                          *)
(***************************************************************************)
EXTENDS Integers, SequencesExt

CONSTANTS
  Personnes,    \* the users
  Admins,       \* those with the role admin
  Support,      \* the first admin account
  Tous,         \* the destination of a broadcast
  Prise,        \* broadcasts returned at most: 50 in the code
  MaxMessages,  \* bound: messages sent
  MaxGestes     \* bound: gestures of moi, renewals of its token, a first count
                \* that is late, and handlers or requests that die

ASSUME MessagerieAssumption ==
  /\ IsFiniteSet(Personnes)
  /\ Admins \subseteq Personnes
  /\ Support \in Admins
  /\ Tous \notin Personnes
  /\ {Prise, MaxMessages, MaxGestes} \subseteq Nat

VARIABLES
  moi,       \* the user that is watched
  messages,  \* table Message: sender, destination, isRead
  lectures,  \* table MessageLecture: message, reader, isRead
  envois,    \* handleMessage calls under way
  prise,     \* of each component on the page, its socket
  file,      \* of each, the events on their way to it
  gestes,    \* gestures of moi, renewals of its token and late counts so far
  pannes     \* handlers and requests that died so far

serveur == <<moi, messages, lectures, envois>>
reseau == <<prise, file>>
bornes == <<gestes, pannes>>

Etats == {"ouverte", "jointe", "refusee"}

InitServeur ==
  /\ messages = <<>>
  /\ lectures = {}
  /\ envois = {}
  /\ pannes = 0

Geste ==
  /\ gestes + pannes < MaxGestes
  /\ gestes' = gestes + 1
  /\ UNCHANGED pannes

PanneDe ==
  /\ gestes + pannes < MaxGestes
  /\ pannes' = pannes + 1
  /\ UNCHANGED gestes

----------------------------------------------------------------------------
(* The gateway.                                                            *)

\* handleConnection: the token is valid and the socket joins its room.
HandleConnection(s) ==
  /\ prise[s] = "ouverte"
  /\ prise' = [prise EXCEPT ![s] = "jointe"]
  /\ UNCHANGED <<serveur, file, bornes>>

\* It is not, and the server closes the socket, which never comes back.
Refuser(s) ==
  /\ prise[s] = "ouverte"
  /\ PanneDe
  /\ prise' = [prise EXCEPT ![s] = "refusee"]
  /\ file' = [file EXCEPT ![s] = <<>>]
  /\ UNCHANGED serveur

\* handleMessage stores the message.  It returns at once on a socket that has
\* not joined, and on a broadcast of someone who is not an admin.
HandleMessage(de, a) ==
  /\ Len(messages) < MaxMessages
  /\ a = Tous => de \in Admins
  /\ messages' = Append(messages, [de |-> de, a |-> a, lu |-> FALSE])
  /\ envois' = envois \cup
       {[de |-> de, a |-> a, m |-> Len(messages) + 1,
         pc |-> IF a = Tous THEN "lectures" ELSE "emettre"]}
  /\ UNCHANGED <<moi, lectures, reseau, bornes>>

Avance(e, f) == envois' = (envois \ {e}) \cup {f}

\* Mutant: every user gets a reading row, the sender of the broadcast too.
LecturesPourTous(e) ==
  /\ e.pc = "lectures"
  /\ lectures' = lectures \cup
       {[m |-> e.m, qui |-> p, lu |-> FALSE] : p \in Personnes}
  /\ Avance(e, [e EXCEPT !.pc = "emettre"])
  /\ UNCHANGED <<moi, messages, reseau, bornes>>

\* chat.gateway.ts:65: a row for everyone but the sender.
Lectures(e) ==
  /\ e.pc = "lectures"
  /\ lectures' = lectures \cup
       {[m |-> e.m, qui |-> p, lu |-> FALSE] : p \in Personnes \ {e.de}}
  /\ Avance(e, [e EXCEPT !.pc = "emettre"])
  /\ UNCHANGED <<moi, messages, reseau, bornes>>

\* Mutant: the event of a message goes to every socket.
RecoitTout(s, e) == prise[s] # "refusee"

\* Which sockets of moi an event reaches: a broadcast every open one, a message
\* those in the rooms of its two ends.
Recoit(s, e) ==
  \/ e.a = Tous /\ prise[s] # "refusee"
  \/ moi \in {e.a, e.de} /\ prise[s] = "jointe"

Emettre(e) ==
  /\ e.pc = "emettre"
  /\ file' = [s \in DOMAIN prise |->
                IF Recoit(s, e) THEN Append(file[s], e.m) ELSE file[s]]
  /\ envois' = envois \ {e}
  /\ UNCHANGED <<moi, messages, lectures, prise, bornes>>

\* A handler dies between two of its steps.
Interrompre(e) ==
  /\ PanneDe
  /\ envois' = envois \ {e}
  /\ UNCHANGED <<moi, messages, lectures, reseau>>

GatewayNext ==
  \/ \E s \in DOMAIN prise : HandleConnection(s) \/ Refuser(s)
  \/ \E e \in envois :
       Lectures(e) \/ Emettre(e) \/ Interrompre(e)

----------------------------------------------------------------------------
(* What the routes read and write.                                         *)

Ids == 1 .. Len(messages)

\* getThread reads the messages of two people, oldest first.
Fil(x, y) == {i \in Ids : {messages[i].de, messages[i].a} = {x, y}}

\* getBroadcasts reads the last ones, newest first.
Diffusions ==
  LET toutes == {i \in Ids : messages[i].a = Tous}
  IN  {i \in toutes : Cardinality({j \in toutes : j > i}) < Prise}

\* ORDER BY createdAt.
Croissant(S) ==
  CHOOSE f \in [1..Cardinality(S) -> S] : \A i, j \in DOMAIN f : i < j => f[i] < f[j]

\* What the request of moi for the messages of `avec' reads.
Lit(avec) ==
  IF avec = Tous THEN Reverse(Croissant(Diffusions)) ELSE Croissant(Fil(moi, avec))

\* Mutant: opening one thread marks the messages of everyone as read.
MarqueTout(avec) ==
  IF avec = Tous
  THEN /\ lectures' = {[l EXCEPT !.lu = @ \/ l.qui = moi] : l \in lectures}
       /\ UNCHANGED messages
  ELSE /\ messages' = [i \in Ids |->
                         [messages[i] EXCEPT !.lu = @ \/ messages[i].a = moi]]
       /\ UNCHANGED lectures

\* What it then marks as read: in a thread the messages the other one sent to
\* moi, and of the broadcasts every row of moi, returned or not.
Marque(avec) ==
  IF avec = Tous
  THEN /\ lectures' = {[l EXCEPT !.lu = @ \/ l.qui = moi] : l \in lectures}
       /\ UNCHANGED messages
  ELSE /\ messages' = [i \in Ids |->
                         [messages[i] EXCEPT !.lu =
                            @ \/ (messages[i].de = avec /\ messages[i].a = moi)]]
       /\ UNCHANGED lectures

\* The two counts of getUnreadCount.
DirectsNonLus == Cardinality({i \in Ids : messages[i].a = moi /\ ~messages[i].lu})
DiffusionsNonLues == Cardinality({l \in lectures : l.qui = moi /\ ~l.lu})
=============================================================================
