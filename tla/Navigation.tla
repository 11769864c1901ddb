----------------------------- MODULE Navigation -----------------------------
(***************************************************************************)
(* A browser's session: the tokens of Keycloak, the cookie of NextAuth     *)
(* (frontend lib/auth.ts), the copy of SessionProvider that the components *)
(* of the page use, the proxy before a page, its rendering on the server   *)
(* (lib/api-client.ts) under the guards of the backend, and signing out    *)
(* (session-watcher.tsx, lib/full-sign-out.ts).                            *)
(***************************************************************************)
EXTENDS Naturals

CONSTANTS
  Roles,        \* roles that have a section of their own: /admin, /client ...
  MaxPannes,    \* bound: calls that fail
  MaxRoles      \* bound: changes of the user's roles

ASSUME NavigationAssumption ==
  /\ "admin" \in Roles
  /\ {"/", "signin", "erreur"} \cap Roles = {}   \* they name other pages
  /\ MaxPannes \in Nat /\ MaxRoles \in Nat

Routes == Roles \cup {"/"}

VARIABLES
  sso,          \* whether Keycloak's own session is alive
  rolesSso,     \* the roles Keycloak gives to the user
  cookie,       \* NextAuth's: the access token and the error it holds
  session,      \* SessionProvider: "loading", "unauthenticated", or signed in
                \* ("authenticated"), with the error or without
  vol,          \* the answer of /api/auth/session, on its way
  surveille,    \* SessionWatcher ran its effect for this error
  sortie,       \* fullSignOut: "non", "signOut", "keycloak"
  rendu,        \* the page being rendered on the server
  page,         \* the page on the screen
  pannes, changements,
  sorti,        \* the user signed out and has not signed in since
  croisee       \* ... while an answer of /api/auth/session was on its way

client == <<session, vol, surveille>>
temoins == <<pannes, changements, sorti, croisee>>
navigation == <<sso, rolesSso, cookie, client, sortie, rendu, page,
                temoins>>

\* An access token with the error NextAuth keeps beside it.
Ages == {"absent", "frais", "bientot", "expire"}
Cookies == [age : Ages, roles : SUBSET Roles, erreur : BOOLEAN]
Aucun == [age |-> "absent", roles |-> {}, erreur |-> FALSE]
Neuf == [age |-> "frais", roles |-> rolesSso, erreur |-> FALSE]
RienEnVol == [cookie |-> Aucun, de |-> "rien"]

InitNavigation ==
  /\ sso = FALSE /\ rolesSso \in SUBSET Roles
  /\ cookie = Aucun
  /\ session = "loading"
  /\ vol = RienEnVol /\ surveille = FALSE
  /\ sortie = "non"
  /\ rendu = RienEnVol /\ page = "/"
  /\ pannes = 0 /\ changements = 0
  /\ sorti = FALSE /\ croisee = FALSE

----------------------------------------------------------------------------
(* Access tokens.                                                          *)

Suivant(a) == IF a = "frais" THEN "bientot" ELSE "expire"
Vieilli(c, a) == IF c.age = a THEN [c EXCEPT !.age = Suivant(a)] ELSE c

\* A token comes within ten seconds of its end, or ends, wherever it is kept.  A
\* token is replaced when it is about to end, so two copies of the same age are
\* the same token or were given together.
Vieillir(a) ==
  /\ a \in {cookie.age, vol.cookie.age, rendu.cookie.age}
  /\ cookie' = Vieilli(cookie, a)
  /\ vol' = [vol EXCEPT !.cookie = Vieilli(@, a)]
  /\ rendu' = [rendu EXCEPT !.cookie = Vieilli(@, a)]
  /\ UNCHANGED <<sso, rolesSso, session, surveille, sortie, page, temoins>>

\* The SSO session ends: idle for too long, or closed elsewhere.
FinSso ==
  /\ sso /\ sso' = FALSE
  /\ UNCHANGED <<rolesSso, cookie, client, sortie, rendu, page, temoins>>

\* An admin changes the roles.
ChangerRoles ==
  /\ changements < MaxRoles /\ changements' = changements + 1
  /\ rolesSso' \in SUBSET Roles \ {rolesSso}
  /\ UNCHANGED <<sso, cookie, client, sortie, rendu, page, pannes,
                 sorti, croisee>>

Panne == pannes < MaxPannes /\ pannes' = pannes + 1

\* Mutant: a failed refresh leaves no error.
EchecSilencieux(c) == c

\* refreshAccessToken, when it fails: the old token with the error.
Echec(c) == [c EXCEPT !.erreur = TRUE]

\* The jwt callback on cookie c gives d.  A token that ends within ten seconds
\* is refreshed.
Jwt(c, d) ==
  IF c.age \in {"absent", "frais"} THEN d = c /\ UNCHANGED pannes
  ELSE \/ d = (IF sso THEN Neuf ELSE Echec(c)) /\ UNCHANGED pannes
       \/ d = Echec(c) /\ Panne

----------------------------------------------------------------------------
(* Signing in and out.                                                     *)

\* A page loads: its components start over, what was on its way is dropped.
Charger ==
  /\ session' = "loading"
  /\ vol' = RienEnVol /\ surveille' = FALSE
  /\ sortie' = "non"

\* signIn("keycloak"): Keycloak asks for the password unless its own session
\* is alive, and comes back with a token.
Connexion ==
  /\ rendu = RienEnVol
  /\ session = "unauthenticated" \/ page = "signin"
  /\ sso' = TRUE
  /\ cookie' = Neuf
  /\ page' = "/" /\ Charger
  /\ sorti' = FALSE /\ croisee' = FALSE
  /\ UNCHANGED <<rolesSso, rendu, pannes, changements>>

\* The provider asks for the session: when it mounts and, if it has one,
\* whenever the window gets the focus.  The server answers with the cookie renewed.
DemanderSession ==
  /\ vol = RienEnVol /\ page # "signin" /\ session # "unauthenticated"
  /\ \E d \in Cookies :
       /\ Jwt(cookie, d)
       /\ vol' = [de |-> "session", cookie |-> d]
       /\ UNCHANGED <<sso, rolesSso, cookie, session, surveille, sortie,
                      rendu, page, changements, sorti, croisee>>

\* The effect of SessionWatcher runs again once the error has changed.
RecevoirSession(d) ==
  /\ session' = IF d = Aucun THEN "unauthenticated"
                ELSE IF d.erreur THEN "erreur" ELSE "authenticated"
  /\ surveille' = (surveille /\ d.erreur)

ArriverSession ==
  /\ vol # RienEnVol /\ vol' = RienEnVol
  /\ cookie' = IF vol.cookie = Aucun THEN cookie ELSE vol.cookie
  /\ RecevoirSession(vol.cookie)
  /\ UNCHANGED <<sso, rolesSso, sortie, rendu, page, temoins>>

\* The answer is lost: getSession gives null.
PerdreSession ==
  /\ vol # RienEnVol /\ vol' = RienEnVol /\ Panne
  /\ RecevoirSession(Aucun)
  /\ UNCHANGED <<sso, rolesSso, cookie, sortie, rendu, page, changements, sorti,
                 croisee>>

Connecte == session \in {"authenticated", "erreur"}

\* The button of the navbar calls fullSignOut.
Deconnecter ==
  /\ sortie = "non" /\ Connecte
  /\ sortie' = "signOut"
  /\ UNCHANGED <<sso, rolesSso, cookie, client, rendu, page, temoins>>

\* What SessionWatcher looks for.
Avertir == session = "erreur"

\* The effect of SessionWatcher calls fullSignOut, once for an error.
Surveiller ==
  /\ Avertir /\ ~surveille /\ sortie = "non"
  /\ surveille' = TRUE /\ sortie' = "signOut"
  /\ UNCHANGED <<sso, rolesSso, cookie, session, vol, rendu, page,
                 temoins>>

\* signOut deletes the cookie, and the provider has no session any more; or the
\* call fails and nothing follows.
SignOut ==
  /\ sortie = "signOut"
  /\ \/ /\ cookie' = Aucun /\ RecevoirSession(Aucun)
        /\ sortie' = "keycloak"
        /\ croisee' = (vol # RienEnVol)
        /\ UNCHANGED pannes
     \/ /\ Panne /\ sortie' = "non"
        /\ UNCHANGED <<cookie, session, surveille, croisee>>
  /\ UNCHANGED <<sso, rolesSso, vol, rendu, page, changements, sorti>>

\* Mutant: the SSO session is left alone.
FinDeSessionLocale == sso

\* Keycloak's logout endpoint, which ends the SSO session.
FinDeSession == FALSE

\* window.location.href = logoutUrl; Keycloak redirects to the home page.
Logout ==
  /\ sortie = "keycloak"
  /\ sso' = FinDeSession
  /\ Charger /\ page' = "/"
  /\ rendu' = RienEnVol
  /\ sorti' = TRUE
  /\ UNCHANGED <<rolesSso, cookie, pannes, changements, croisee>>

----------------------------------------------------------------------------
(* Pages.                                                                  *)

\* The proxy: where a request of route goes with the session d.
Proxy(route, d) ==
  IF route = "/" THEN IF "admin" \in d.roles THEN "admin" ELSE "/"
  ELSE IF d = Aucun THEN "signin"
  ELSE IF route \in d.roles THEN route ELSE "/"

\* A page is asked for, by a link or by loading it; the proxy's auth() renews
\* the cookie.  A redirection to another section is a request of its own; the
\* sign-in page is NextAuth's own, without SessionProvider.
Naviguer(route) ==
  /\ rendu = RienEnVol /\ sortie # "keycloak"
  /\ \E d \in Cookies :
       /\ Jwt(cookie, d)
       /\ cookie' = d
       /\ UNCHANGED <<sso, rolesSso, changements, sorti, croisee>>
       /\ \/ rendu' \in [de : {route}, cookie : {d}, charge : {TRUE, page = "signin"}]
             /\ UNCHANGED <<client, sortie, page>>
             /\ Proxy(route, d) = route
          \/ rendu' = rendu /\ page' = "signin" /\ Charger
             /\ Proxy(route, d) = "signin"

\* KeycloakAuthGuard and RolesGuard on the calls of a page of route.
Accepte(route, d) == route = "/" \/ (d.age # "expire" /\ route \in d.roles)

\* Mutant: a 401 is an error like another.
ReponseSansRedirection(route, d) ==
  IF Accepte(route, d) THEN route ELSE "erreur"

\* apiFetch: a 401 with a token sends to the sign-in page, any other failure
\* throws.
Reponse(route, d) ==
  IF Accepte(route, d) THEN route
  ELSE IF d.age = "expire" THEN "signin" ELSE "erreur"

\* The page is rendered: its auth() may refresh again, and cannot set a cookie.
Rendre ==
  /\ rendu # RienEnVol
  /\ \E d \in Cookies :
       /\ Jwt(rendu.cookie, d)
       /\ rendu' = RienEnVol
       /\ page' = Reponse(rendu.de, d)
       /\ UNCHANGED <<sso, rolesSso, cookie, changements, sorti, croisee>>
       /\ \/ (rendu.charge \/ page' = "signin") /\ Charger
          \/ ~rendu.charge /\ page' # "signin" /\ UNCHANGED <<client, sortie>>

----------------------------------------------------------------------------
NextNavigation ==
  \/ \E a \in {"frais", "bientot"} : Vieillir(a)
  \/ FinSso \/ ChangerRoles
  \/ Connexion \/ DemanderSession \/ ArriverSession \/ PerdreSession
  \/ Deconnecter \/ Surveiller \/ SignOut \/ Logout
  \/ \E route \in Routes : Naviguer(route)
  \/ Rendre

SpecNavigation == InitNavigation /\ [][NextNavigation]_navigation

\* The clock runs, the server and the browser go on, and the user comes back to
\* the tab.
FairNavigation ==
  /\ SpecNavigation
  /\ \A a \in {"frais", "bientot"} : WF_navigation(Vieillir(a))
  /\ WF_navigation(DemanderSession) /\ WF_navigation(ArriverSession)
  /\ WF_navigation(Surveiller)
  /\ WF_navigation(SignOut) /\ WF_navigation(Logout)

----------------------------------------------------------------------------
(* Properties.                                                             *)

\* Types; a session is refused a token only through an error, and what is on
\* its way without a session carries no token (lib/auth.ts:26-51).
TypeNavigation ==
  /\ sso \in BOOLEAN /\ rolesSso \subseteq Roles
  /\ cookie \in Cookies
  /\ session \in {"loading", "unauthenticated", "authenticated", "erreur"}
  /\ sortie \in {"non", "signOut", "keycloak"}
  /\ page \in Routes \cup {"signin", "erreur"}
  /\ vol.cookie \in Cookies /\ rendu.cookie \in Cookies
  /\ \A c \in {cookie, vol.cookie, rendu.cookie} :
       c.age = "absent" => c = Aucun

\* A session that ends while a page is on its way never breaks the page: it
\* leads to signing in.  Only a role taken away between the proxy and the
\* rendering does (api-client.ts:38-45; proxy.ts:17-47).
PasDePlantage == page = "erreur" => changements > 0

\* Signing out closes both sessions: until the user signs in again, Keycloak
\* has none and the cookie is gone, unless an answer of /api/auth/session
\* crossed the call and set it again (full-sign-out.ts:6-22).
DeconnexionComplete == sorti /\ ~croisee => ~sso /\ cookie = Aucun

\* What tokens, cookie and pages hold is of its kind, and after signing out
\* both sides are closed.
SessionJuste == TypeNavigation /\ DeconnexionComplete

\* A page does not stay signed in on a dead session: when Keycloak's session
\* has ended and no call fails, the page notices and leaves
\* (session-watcher.tsx:7-24, lib/auth.ts:47-50).
SessionMorteFermee ==
  [](pannes = 0) =>
     (Connecte /\ ~sso ~> sso \/ ~Connecte)
=============================================================================
