-------------------------- MODULE NavigationPreuves --------------------------
(***************************************************************************)
(* Navigation keeps its safety properties, for any roles, any number of    *)
(* changes of them and any number of failures.  The inductive invariant    *)
(* adds to the properties what is on its way: an answer of                 *)
(* /api/auth/session and a page being rendered hold tokens that the cookie *)
(* no longer has.                                                          *)
(***************************************************************************)
EXTENDS Navigation, TLAPS

\* What the records on their way look like.
EnVolT == [cookie : Cookies, de : {"rien", "session"}]
RenduT ==
  {RienEnVol} \cup [de : Routes, cookie : Cookies, charge : BOOLEAN]

Formes ==
  /\ TypeNavigation
  /\ surveille \in BOOLEAN /\ sorti \in BOOLEAN /\ croisee \in BOOLEAN
  /\ pannes \in Nat /\ changements \in Nat
  /\ vol \in EnVolT /\ rendu \in RenduT
  /\ vol.cookie # Aucun => vol # RienEnVol

\* Until an admin changes the roles, every token was given with today's.
RolesDuJour ==
  changements = 0 =>
    \A c \in {cookie, vol.cookie, rendu.cookie} :
      c # Aucun => c.roles = rolesSso

\* The proxy let the page that is being rendered through.
Admise ==
  rendu # RienEnVol =>
    rendu.de = "/" \/ rendu.de \in rendu.cookie.roles

\* From signOut on no token is left, in the cookie or on its way to it, unless
\* an answer crossed the call; Keycloak's session ends with logout.
Deconnectee ==
  /\ sorti => ~sso
  /\ sorti \/ sortie = "keycloak" =>
       croisee \/ (cookie = Aucun /\ vol.cookie = Aucun)

Inductif ==
  /\ Formes /\ RolesDuJour /\ Admise /\ Deconnectee /\ PasDePlantage

----------------------------------------------------------------------------
(* Tokens.                                                                 *)

\* Aging leaves a token its roles and its error, and makes none appear.
LEMMA VieilliForme ==
  ASSUME NEW c \in Cookies, c.age = "absent" => c = Aucun,
         NEW a \in {"frais", "bientot"}
  PROVE  /\ Vieilli(c, a) \in Cookies
         /\ Vieilli(c, a).age = "absent" => Vieilli(c, a) = Aucun
         /\ Vieilli(c, a) = Aucun <=> c = Aucun
         /\ Vieilli(c, a).roles = c.roles
<1>1. CASE c.age = a
  <2>1. Suivant(a) \in {"bientot", "expire"}
    BY DEF Suivant
  <2> QED
    BY <1>1, <2>1 DEF Vieilli, Cookies, Ages, Aucun
<1>2. CASE c.age # a
  BY <1>2 DEF Vieilli
<1> QED
  BY <1>1, <1>2

\* The jwt callback gives a token with the roles it had or today's, and none
\* where there was none.
LEMMA JwtForme ==
  ASSUME rolesSso \subseteq Roles, pannes \in Nat,
         NEW c \in Cookies, c.age = "absent" => c = Aucun,
         NEW d \in Cookies, Jwt(c, d)
  PROVE  /\ d.age = "absent" => d = Aucun
         /\ c = Aucun => d = Aucun
         /\ d # Aucun => d.roles \in {c.roles, rolesSso} /\ c # Aucun
         /\ pannes' \in Nat
<1>1. CASE c.age \in {"absent", "frais"}
  BY <1>1 DEF Jwt, Aucun
<1>2. CASE c.age \notin {"absent", "frais"}
  <2>1. d = Neuf \/ d = Echec(c)
    BY <1>2 DEF Jwt
  <2>2. c.age # "absent"
    BY <1>2
  <2>3. Neuf.age = "frais" /\ Neuf.roles = rolesSso
    BY DEF Neuf
  <2>4. Echec(c).age = c.age /\ Echec(c).roles = c.roles
    BY DEF Echec, Cookies
  <2>5. pannes' \in Nat
    BY <1>2 DEF Jwt, Panne
  <2>6. d.age # "absent" /\ d.roles \in {c.roles, rolesSso}
    BY <2>1, <2>2, <2>3, <2>4
  <2>7. c # Aucun
    BY <2>2 DEF Aucun
  <2> QED
    BY <2>5, <2>6, <2>7
<1> QED
  BY <1>1, <1>2

----------------------------------------------------------------------------
(* The invariant.                                                          *)

LEMMA InitInductif == InitNavigation => Inductif
<1> SUFFICES ASSUME InitNavigation PROVE Inductif
  OBVIOUS
<1>1. Aucun \in Cookies
  BY DEF Aucun, Cookies, Ages
<1>2. Formes
  BY <1>1 DEF InitNavigation, Formes, TypeNavigation, EnVolT, RenduT, RienEnVol,
              Routes
<1> QED
  BY <1>2 DEF InitNavigation, Inductif, RolesDuJour, Admise, Deconnectee,
              PasDePlantage, RienEnVol

LEMMA VieillirPas ==
  ASSUME Inductif, NEW a \in {"frais", "bientot"}, Vieillir(a)
  PROVE  Inductif'
<1>1. /\ cookie \in Cookies /\ vol.cookie \in Cookies /\ rendu.cookie \in Cookies
      /\ \A c \in {cookie, vol.cookie, rendu.cookie} :
           c.age = "absent" => c = Aucun
  BY DEF Inductif, Formes, TypeNavigation
<1>2. vol \in EnVolT /\ rendu \in RenduT
  BY DEF Inductif, Formes
<1>3. cookie' = Vieilli(cookie, a)
  BY DEF Vieillir
<1>4. vol'.cookie = Vieilli(vol.cookie, a) /\ vol'.de = vol.de /\ vol' \in EnVolT
  <2>1. Vieilli(vol.cookie, a) \in Cookies
    BY <1>1, VieilliForme
  <2> QED
    BY <1>2, <2>1 DEF Vieillir, EnVolT
<1>5. /\ rendu'.cookie = Vieilli(rendu.cookie, a) /\ rendu'.de = rendu.de
      /\ rendu' \in RenduT
      /\ rendu' # RienEnVol => rendu # RienEnVol
  <2>1. Vieilli(rendu.cookie, a) \in Cookies
    BY <1>1, VieilliForme
  <2>2. CASE rendu = RienEnVol
    <3>1. Vieilli(Aucun, a) = Aucun
      BY DEF Vieilli, Aucun
    <3>2. rendu' = RienEnVol
      BY <2>2, <3>1 DEF Vieillir, RienEnVol
    <3> QED
      BY <2>2, <3>1, <3>2 DEF RienEnVol, RenduT
  <2>3. CASE rendu # RienEnVol
    <3>1. rendu \in [de : Routes, cookie : Cookies, charge : BOOLEAN]
      BY <1>2, <2>3 DEF RenduT
    <3>2. rendu' = [rendu EXCEPT !.cookie = Vieilli(rendu.cookie, a)]
      BY DEF Vieillir
    <3> QED
      BY <2>1, <2>3, <3>1, <3>2 DEF RenduT
  <2> QED
    BY <2>2, <2>3
<1>6. \A c \in {cookie, vol.cookie, rendu.cookie} :
        /\ Vieilli(c, a) \in Cookies
        /\ Vieilli(c, a).age = "absent" => Vieilli(c, a) = Aucun
        /\ Vieilli(c, a) = Aucun <=> c = Aucun
        /\ Vieilli(c, a).roles = c.roles
  BY <1>1, VieilliForme
<1>7. UNCHANGED <<sso, rolesSso, session, surveille, sortie, page, pannes,
                  changements, sorti, croisee>>
  BY DEF Vieillir, temoins
<1>8. (vol' = RienEnVol) <=> (vol = RienEnVol)
  BY <1>2, <1>4, <1>6 DEF EnVolT, RienEnVol
<1>9. Formes'
  <2>1. TypeNavigation'
    BY <1>3, <1>4, <1>5, <1>6, <1>7 DEF Inductif, Formes, TypeNavigation
  <2>2. vol'.cookie # Aucun => vol' # RienEnVol
    BY <1>4, <1>6, <1>8 DEF Inductif, Formes
  <2> QED
    BY <1>4, <1>5, <1>7, <2>1, <2>2 DEF Inductif, Formes
<1>10. RolesDuJour'
  BY <1>3, <1>4, <1>5, <1>6, <1>7 DEF Inductif, RolesDuJour
<1>11. Admise'
  <2>1. rendu'.cookie.roles = rendu.cookie.roles
    BY <1>5, <1>6
  <2>2. CASE rendu' # RienEnVol
    <3>1. rendu.de = "/" \/ rendu.de \in rendu.cookie.roles
      BY <1>5, <2>2 DEF Inductif, Admise
    <3> QED
      BY <1>5, <2>1, <3>1 DEF Admise
  <2>3. CASE rendu' = RienEnVol
    BY <2>3 DEF Admise
  <2> QED
    BY <2>2, <2>3
<1>12. Deconnectee' /\ PasDePlantage'
  BY <1>3, <1>4, <1>6, <1>7 DEF Inductif, Deconnectee, PasDePlantage
<1> QED
  BY <1>9, <1>10, <1>11, <1>12 DEF Inductif

\* Steps in which no record on its way changes, nor the cookie.
LEMMA TokensInchanges ==
  ASSUME Inductif, UNCHANGED <<cookie, rendu, rolesSso, changements>>,
         vol' = vol \/ vol' = RienEnVol
  PROVE  /\ RolesDuJour' /\ Admise'
         /\ vol' \in EnVolT /\ rendu' \in RenduT
         /\ vol'.cookie # Aucun => vol'.cookie = vol.cookie /\ vol' # RienEnVol
         /\ cookie' \in Cookies /\ vol'.cookie \in Cookies
         /\ rendu'.cookie \in Cookies
         /\ \A c \in {cookie', vol'.cookie, rendu'.cookie} :
              c.age = "absent" => c = Aucun
<1>1. Aucun \in Cookies /\ RienEnVol \in EnVolT /\ RienEnVol.cookie = Aucun
  BY DEF Aucun, Cookies, Ages, RienEnVol, EnVolT
<1>2. RolesDuJour'
  BY <1>1 DEF Inductif, RolesDuJour
<1>3. Admise'
  BY DEF Inductif, Admise
<1> QED
  BY <1>1, <1>2, <1>3 DEF Inductif, Formes, TypeNavigation

\* The same, when the roles change.
LEMMA ChangerRolesPas == Inductif /\ ChangerRoles => Inductif'
<1> SUFFICES ASSUME Inductif, ChangerRoles PROVE Inductif'
  OBVIOUS
<1>1. /\ changements' \in Nat /\ changements' > 0
      /\ rolesSso' \subseteq Roles
  BY DEF ChangerRoles, Inductif, Formes
<1>2. UNCHANGED <<sso, cookie, session, vol, surveille, sortie, rendu, page,
                  pannes, sorti, croisee>>
  BY DEF ChangerRoles, client
<1>3. Formes'
  BY <1>1, <1>2 DEF Inductif, Formes, TypeNavigation
<1>4. RolesDuJour' /\ Admise' /\ Deconnectee' /\ PasDePlantage'
  BY <1>1, <1>2 DEF Inductif, RolesDuJour, Admise, Deconnectee, PasDePlantage
<1> QED
  BY <1>3, <1>4 DEF Inductif

\* Steps of the browser that leave the tokens alone.
LEMMA NavigateurPas ==
  ASSUME Inductif, FinSso \/ Deconnecter \/ Surveiller
  PROVE  Inductif'
<1>1. /\ UNCHANGED <<cookie, rendu, vol, rolesSso, changements, page, pannes, sorti,
                     croisee, session>>
      /\ sso' \in BOOLEAN /\ surveille' \in BOOLEAN
      /\ sso' => sso
      /\ sortie' = sortie \/ sortie' = "signOut"
  <2>1. sso \in BOOLEAN /\ surveille \in BOOLEAN
    BY DEF Inductif, Formes, TypeNavigation
  <2>2. CASE FinSso
    BY <2>1, <2>2 DEF FinSso, client, temoins
  <2>3. CASE Deconnecter
    BY <2>1, <2>3 DEF Deconnecter, client, temoins
  <2>4. CASE Surveiller
    BY <2>1, <2>4 DEF Surveiller, client, temoins
  <2> QED
    BY <2>2, <2>3, <2>4
<1>2. Formes' /\ RolesDuJour' /\ Admise'
  BY <1>1, TokensInchanges DEF Inductif, Formes, TypeNavigation
<1>3. Deconnectee' /\ PasDePlantage'
  BY <1>1 DEF Inductif, Deconnectee, PasDePlantage
<1> QED
  BY <1>2, <1>3 DEF Inductif

LEMMA PerdreSessionPas == Inductif /\ PerdreSession => Inductif'
<1> SUFFICES ASSUME Inductif, PerdreSession PROVE Inductif'
  OBVIOUS
<1>1. /\ UNCHANGED <<cookie, rendu, rolesSso, changements, page, sorti, croisee,
                     sso, sortie>>
      /\ vol' = RienEnVol /\ pannes' \in Nat
      /\ session' = "unauthenticated" /\ surveille' \in BOOLEAN
  BY DEF PerdreSession, Panne, RecevoirSession, Inductif, Formes, Aucun
<1>2. /\ RolesDuJour' /\ Admise' /\ Formes'
  BY <1>1, TokensInchanges DEF Inductif, Formes, TypeNavigation
<1>3. Deconnectee' /\ PasDePlantage'
  BY <1>1 DEF Inductif, Deconnectee, PasDePlantage, RienEnVol
<1> QED
  BY <1>2, <1>3 DEF Inductif

LEMMA ArriverSessionPas == Inductif /\ ArriverSession => Inductif'
<1> SUFFICES ASSUME Inductif, ArriverSession PROVE Inductif'
  OBVIOUS
<1>1. /\ UNCHANGED <<rendu, rolesSso, changements, page, pannes, sorti, croisee, sso,
                     sortie>>
      /\ vol' = RienEnVol /\ cookie' \in {cookie, vol.cookie}
      /\ session' \in {"unauthenticated", "erreur", "authenticated"}
      /\ surveille' \in BOOLEAN
  BY DEF ArriverSession, RecevoirSession, temoins, Inductif, Formes,
         TypeNavigation, Cookies
<1>2. Aucun \in Cookies /\ RienEnVol \in EnVolT /\ RienEnVol.cookie = Aucun
  BY DEF Aucun, Cookies, Ages, RienEnVol, EnVolT
<1>3. Formes'
  BY <1>1, <1>2 DEF Inductif, Formes, TypeNavigation
<1>4. RolesDuJour' /\ Admise'
  BY <1>1, <1>2 DEF Inductif, RolesDuJour, Admise
<1>5. Deconnectee' /\ PasDePlantage'
  BY <1>1, <1>2 DEF Inductif, Deconnectee, PasDePlantage
<1> QED
  BY <1>3, <1>4, <1>5 DEF Inductif

LEMMA ConnexionPas == Inductif /\ Connexion => Inductif'
<1> SUFFICES ASSUME Inductif, Connexion PROVE Inductif'
  OBVIOUS
<1>1. Aucun \in Cookies /\ RienEnVol \in EnVolT /\ RienEnVol.cookie = Aucun
  BY DEF Aucun, Cookies, Ages, RienEnVol, EnVolT
<1>2. Neuf \in Cookies /\ Neuf.age = "frais" /\ Neuf.roles = rolesSso
  BY DEF Neuf, Cookies, Ages, Inductif, Formes, TypeNavigation
<1>3. /\ UNCHANGED <<rolesSso, rendu, pannes, changements>>
      /\ sso' = TRUE /\ cookie' = Neuf /\ page' = "/"
      /\ session' = "loading" /\ vol' = RienEnVol /\ surveille' = FALSE
      /\ sortie' = "non" /\ sorti' = FALSE /\ croisee' = FALSE
  BY DEF Connexion, Charger
<1>4. Formes'
  BY <1>1, <1>2, <1>3 DEF Inductif, Formes, TypeNavigation, Routes
<1>5. RolesDuJour' /\ Admise'
  BY <1>1, <1>2, <1>3 DEF Inductif, RolesDuJour, Admise
<1>6. Deconnectee' /\ PasDePlantage'
  BY <1>3 DEF Deconnectee, PasDePlantage
<1> QED
  BY <1>4, <1>5, <1>6 DEF Inductif

LEMMA DemanderSessionPas == Inductif /\ DemanderSession => Inductif'
<1> SUFFICES ASSUME Inductif, DemanderSession PROVE Inductif'
  OBVIOUS
<1> PICK d \in Cookies :
      /\ Jwt(cookie, d)
      /\ vol' = [de |-> "session", cookie |-> d]
      /\ UNCHANGED <<sso, rolesSso, cookie, session, surveille, sortie,
                     rendu, page, changements, sorti, croisee>>
  BY DEF DemanderSession
<1>1. /\ d.age = "absent" => d = Aucun
      /\ cookie = Aucun => d = Aucun
      /\ d # Aucun => d.roles \in {cookie.roles, rolesSso} /\ cookie # Aucun
      /\ pannes' \in Nat
  BY JwtForme DEF Inductif, Formes, TypeNavigation
<1>2. /\ vol' \in EnVolT /\ vol'.cookie = d /\ vol' # RienEnVol
  <2>1. vol'.de # RienEnVol.de
    BY DEF RienEnVol
  <2> QED
    BY <2>1 DEF EnVolT
<1>3. Formes'
  BY <1>1, <1>2 DEF Inductif, Formes, TypeNavigation
<1>4. RolesDuJour' /\ Admise'
  BY <1>1, <1>2 DEF Inductif, RolesDuJour, Admise
<1>5. Deconnectee' /\ PasDePlantage'
  BY <1>1, <1>2 DEF Inductif, Deconnectee, PasDePlantage
<1> QED
  BY <1>3, <1>4, <1>5 DEF Inductif

LEMMA SignOutPas == Inductif /\ SignOut => Inductif'
<1> SUFFICES ASSUME Inductif, SignOut PROVE Inductif'
  OBVIOUS
<1>0. Aucun \in Cookies
  BY DEF Aucun, Cookies, Ages
<1>1. UNCHANGED <<sso, rolesSso, vol, rendu, page, changements, sorti>>
  BY DEF SignOut
<1>2. CASE /\ cookie' = Aucun /\ RecevoirSession(Aucun)
           /\ sortie' = "keycloak"
           /\ croisee' = (vol # RienEnVol)
           /\ UNCHANGED pannes
  <2>1. session' = "unauthenticated" /\ surveille' \in BOOLEAN
    BY <1>2 DEF RecevoirSession, Aucun, Inductif, Formes
  <2>2. Formes'
    BY <1>0, <1>1, <1>2, <2>1 DEF Inductif, Formes, TypeNavigation
  <2>3. RolesDuJour' /\ Admise'
    BY <1>1, <1>2 DEF Inductif, RolesDuJour, Admise
  <2>4. Deconnectee' /\ PasDePlantage'
    BY <1>1, <1>2 DEF Inductif, Formes, Deconnectee, PasDePlantage
  <2> QED
    BY <2>2, <2>3, <2>4 DEF Inductif
<1>3. CASE /\ Panne /\ sortie' = "non"
           /\ UNCHANGED <<cookie, session, surveille, croisee>>
  <2>1. pannes' \in Nat
    BY <1>3 DEF Panne, Inductif, Formes
  <2>2. Formes'
    BY <1>1, <1>3, <2>1 DEF Inductif, Formes, TypeNavigation
  <2>3. RolesDuJour' /\ Admise'
    BY <1>1, <1>3 DEF Inductif, RolesDuJour, Admise
  <2>4. Deconnectee' /\ PasDePlantage'
    BY <1>1, <1>3 DEF Inductif, Deconnectee, PasDePlantage
  <2> QED
    BY <2>2, <2>3, <2>4 DEF Inductif
<1> QED
  BY <1>2, <1>3 DEF SignOut

LEMMA LogoutPas == Inductif /\ Logout => Inductif'
<1> SUFFICES ASSUME Inductif, Logout PROVE Inductif'
  OBVIOUS
<1>1. Aucun \in Cookies /\ RienEnVol \in EnVolT /\ RienEnVol.cookie = Aucun
  BY DEF Aucun, Cookies, Ages, RienEnVol, EnVolT
<1>2. /\ UNCHANGED <<rolesSso, cookie, pannes, changements, croisee>>
      /\ sso' = FALSE /\ page' = "/" /\ rendu' = RienEnVol /\ sorti' = TRUE
      /\ session' = "loading" /\ vol' = RienEnVol /\ surveille' = FALSE
      /\ sortie' = "non" /\ sortie = "keycloak"
  BY DEF Logout, Charger, FinDeSession
<1>3. Formes'
  BY <1>1, <1>2 DEF Inductif, Formes, TypeNavigation, Routes, RenduT
<1>4. RolesDuJour' /\ Admise'
  BY <1>1, <1>2 DEF Inductif, RolesDuJour, Admise
<1>5. Deconnectee' /\ PasDePlantage'
  BY <1>1, <1>2 DEF Inductif, Deconnectee, PasDePlantage
<1> QED
  BY <1>3, <1>4, <1>5 DEF Inductif

----------------------------------------------------------------------------
(* Pages.                                                                  *)

\* The proxy lets a request through to a section of one of its roles.
LEMMA ProxyForme ==
  ASSUME NEW route \in Routes, NEW d \in Cookies, Proxy(route, d) = route
  PROVE  route = "/" \/ route \in d.roles
BY NavigationAssumption DEF Proxy, Routes

LEMMA NaviguerPas ==
  ASSUME Inductif, NEW route \in Routes, Naviguer(route)
  PROVE  Inductif'
<1>1. Aucun \in Cookies /\ RienEnVol \in EnVolT /\ RienEnVol.cookie = Aucun
  BY DEF Aucun, Cookies, Ages, RienEnVol, EnVolT
<1> PICK d \in Cookies :
      /\ Jwt(cookie, d)
      /\ cookie' = d
      /\ UNCHANGED <<sso, rolesSso, changements, sorti, croisee>>
      /\ \/ rendu' \in [de : {route}, cookie : {d}, charge : {TRUE, page = "signin"}]
            /\ UNCHANGED <<client, sortie, page>>
            /\ Proxy(route, d) = route
         \/ rendu' = rendu /\ page' = "signin" /\ Charger
            /\ Proxy(route, d) = "signin"
  BY DEF Naviguer
<1>2. /\ d.age = "absent" => d = Aucun
      /\ cookie = Aucun => d = Aucun
      /\ d # Aucun => d.roles \in {cookie.roles, rolesSso} /\ cookie # Aucun
      /\ pannes' \in Nat
  BY JwtForme DEF Inductif, Formes, TypeNavigation
<1>3. rendu = RienEnVol /\ sortie # "keycloak"
  BY DEF Naviguer
<1>4. CASE /\ rendu' \in [de : {route}, cookie : {d},
                          charge : {TRUE, page = "signin"}]
           /\ UNCHANGED <<client, sortie, page>>
           /\ Proxy(route, d) = route
  <2>1. rendu'.de = route /\ rendu'.cookie = d /\ rendu' \in RenduT
    <3>1. (page = "signin") \in BOOLEAN
      OBVIOUS
    <3> QED
      BY <1>4, <3>1 DEF RenduT
  <2>2. UNCHANGED <<session, vol, surveille, sortie, page>>
    BY <1>4 DEF client
  <2>3. Formes'
    BY <1>2, <2>1, <2>2 DEF Inductif, Formes, TypeNavigation
  <2>4. RolesDuJour'
    BY <1>2, <2>1, <2>2 DEF Inductif, RolesDuJour
  <2>5. Admise'
    BY <1>4, <2>1, ProxyForme DEF Admise
  <2>6. Deconnectee' /\ PasDePlantage'
    BY <1>2, <1>3, <2>2 DEF Inductif, Deconnectee, PasDePlantage
  <2> QED
    BY <2>3, <2>4, <2>5, <2>6 DEF Inductif
<1>5. CASE /\ rendu' = rendu /\ page' = "signin" /\ Charger
           /\ Proxy(route, d) = "signin"
  <2>1. /\ session' = "loading" /\ vol' = RienEnVol /\ surveille' = FALSE
        /\ sortie' = "non" /\ rendu' = RienEnVol /\ page' = "signin"
    BY <1>3, <1>5 DEF Charger
  <2>2. Formes'
    BY <1>1, <1>2, <2>1 DEF Inductif, Formes, TypeNavigation, RenduT
  <2>3. RolesDuJour' /\ Admise'
    BY <1>1, <1>2, <2>1 DEF Inductif, RolesDuJour, Admise
  <2>4. Deconnectee' /\ PasDePlantage'
    BY <1>1, <1>2, <2>1 DEF Inductif, Deconnectee, PasDePlantage
  <2> QED
    BY <2>2, <2>3, <2>4 DEF Inductif
<1> QED
  BY <1>4, <1>5

\* A page the proxy let through is refused only for a token that ended, and
\* for a role that was taken away since.
LEMMA RendreReponse ==
  ASSUME Inductif, rendu # RienEnVol, NEW d \in Cookies, Jwt(rendu.cookie, d)
  PROVE  /\ Reponse(rendu.de, d) \in Routes \cup {"signin", "erreur"}
         /\ Reponse(rendu.de, d) = "erreur" => changements > 0
<1>1. /\ d.age = "absent" => d = Aucun
      /\ d # Aucun => d.roles \in {rendu.cookie.roles, rolesSso}
                        /\ rendu.cookie # Aucun
  BY JwtForme DEF Inductif, Formes, TypeNavigation
<1>2. rendu.de \in Routes /\ rendu.de \notin {"signin", "erreur"}
  BY NavigationAssumption DEF Inductif, Formes, RenduT, Routes
<1>3. ASSUME Reponse(rendu.de, d) = "erreur", changements = 0
      PROVE  FALSE
  <2>1. rendu.de # "/" /\ rendu.de \notin d.roles
    BY <1>2, <1>3 DEF Reponse, Accepte
  <2>2. rendu.de \in rendu.cookie.roles
    BY <2>1 DEF Inductif, Admise
  <2>3. rendu.cookie # Aucun
    BY <2>2 DEF Aucun
  <2>4. rendu.cookie.roles = rolesSso
    BY <1>3, <2>3 DEF Inductif, RolesDuJour
  <2>5. d # Aucun
    <3>1. rendu.cookie.age # "absent"
      BY <2>3 DEF Inductif, Formes, TypeNavigation
    <3>2. d \in {rendu.cookie, Neuf, Echec(rendu.cookie)}
      BY DEF Jwt
    <3>3. d.age # "absent"
      BY <3>1, <3>2 DEF Neuf, Echec, Inductif, Formes, TypeNavigation, Cookies
    <3> QED
      BY <3>3 DEF Aucun
  <2> QED
    BY <1>1, <2>1, <2>2, <2>4, <2>5
<1>4. changements \in Nat
  BY DEF Inductif, Formes
<1> QED
  BY <1>2, <1>3, <1>4 DEF Reponse

LEMMA RendrePas == Inductif /\ Rendre => Inductif'
<1> SUFFICES ASSUME Inductif, Rendre PROVE Inductif'
  OBVIOUS
<1>1. Aucun \in Cookies /\ RienEnVol \in EnVolT /\ RienEnVol.cookie = Aucun
  BY DEF Aucun, Cookies, Ages, RienEnVol, EnVolT
<1> PICK d \in Cookies :
      /\ Jwt(rendu.cookie, d)
      /\ rendu' = RienEnVol
      /\ page' = Reponse(rendu.de, d)
      /\ UNCHANGED <<sso, rolesSso, cookie, changements, sorti, croisee>>
      /\ \/ (rendu.charge \/ page' = "signin") /\ Charger
         \/ ~rendu.charge /\ page' # "signin" /\ UNCHANGED <<client, sortie>>
  BY DEF Rendre
<1>2. rendu # RienEnVol
  BY DEF Rendre
<1>3. /\ page' \in Routes \cup {"signin", "erreur"}
      /\ page' = "erreur" => changements > 0
  BY <1>2, RendreReponse
<1>4. pannes' \in Nat
  BY JwtForme DEF Inductif, Formes, TypeNavigation
<1>5. \/ /\ session' = "loading" /\ vol' = RienEnVol /\ surveille' = FALSE
         /\ sortie' = "non"
      \/ UNCHANGED <<session, vol, surveille, sortie>>
  BY DEF Charger, client
<1>6. Formes'
  BY <1>1, <1>3, <1>4, <1>5 DEF Inductif, Formes, TypeNavigation, RenduT
<1>7. RolesDuJour' /\ Admise'
  BY <1>1, <1>5 DEF Inductif, RolesDuJour, Admise
<1>8. Deconnectee' /\ PasDePlantage'
  BY <1>1, <1>3, <1>5 DEF Inductif, Deconnectee, PasDePlantage
<1> QED
  BY <1>6, <1>7, <1>8 DEF Inductif

----------------------------------------------------------------------------
LEMMA InductifPas == Inductif /\ [NextNavigation]_navigation => Inductif'
<1> SUFFICES ASSUME Inductif, [NextNavigation]_navigation PROVE Inductif'
  OBVIOUS
<1>1. CASE UNCHANGED navigation
  BY <1>1 DEF navigation, client, temoins, Inductif, Formes, TypeNavigation,
              RolesDuJour, Admise, Deconnectee, PasDePlantage
<1>2. CASE NextNavigation
  BY <1>2, VieillirPas, ChangerRolesPas, NavigateurPas, PerdreSessionPas,
     ArriverSessionPas, ConnexionPas, DemanderSessionPas, SignOutPas, LogoutPas,
     NaviguerPas, RendrePas DEF NextNavigation
<1> QED
  BY <1>1, <1>2

THEOREM InductifVrai == SpecNavigation => []Inductif
BY InitInductif, InductifPas, PTL DEF SpecNavigation

\* A session that ends while a page is on its way never breaks the page; only
\* a role taken away between the proxy and the rendering does (proxy.ts:39,
\* api-client.ts:38).
THEOREM PasDePlantageVrai == SpecNavigation => []PasDePlantage
<1>1. Inductif => PasDePlantage
  BY DEF Inductif
<1> QED
  BY <1>1, InductifVrai, PTL

\* Once signed out, Keycloak has no session and the cookie is gone, unless an
\* answer of /api/auth/session crossed the call (full-sign-out.ts:6-22).
THEOREM SessionJusteVrai == SpecNavigation => []SessionJuste
<1>1. Inductif => SessionJuste
  BY DEF Inductif, Formes, Deconnectee, SessionJuste, DeconnexionComplete
<1> QED
  BY <1>1, InductifVrai, PTL
=============================================================================
