--------------------------- MODULE ComptesPreuves ----------------------------
(***************************************************************************)
(* Comptes keeps its inductive invariant, for any accounts, requests and   *)
(* failures.  The first lemmas say what requests look like and what a step *)
(* does to them; then there is one lemma for each part of the invariant,   *)
(* with a step for each action.                                            *)
(***************************************************************************)
EXTENDS Comptes, TLAPS

\* The fields a request has at each pc.
LEMMA Champs ==
  ASSUME NEW q \in RequeteT
  PROVE  /\ q.pc # "libre" => q.e \in Comptes /\ q.seule \in BOOLEAN
         /\ q.pc \in {"suspendre", "suspendreLocal"} => q.suspended \in BOOLEAN
         /\ q.pc = "retirer" =>
              /\ q.role \in Roles /\ q.reste \in SUBSET Roles
              /\ q.ajouter \in BOOLEAN
         /\ q.pc \in {"libre", "roleClient", "creerLocal", "courriel", "renvoi",
                      "suspendre", "suspendreLocal", "retirer"}
  BY DEF RequeteT

\* What Commence does to the other requests.
LEMMA FormeSeule ==
  ASSUME NEW q \in RequeteT, q.pc # "libre", NEW n,
         n = [q EXCEPT !.seule = FALSE]
  PROVE  /\ n \in RequeteT
         /\ n.pc = q.pc /\ n.e = q.e /\ n.seule = FALSE
         /\ q.pc \in {"suspendre", "suspendreLocal"} =>
              n.suspended = q.suspended
  BY DEF RequeteT

\* What Va does to a request, between pcs with the same fields.
LEMMA FormeVa ==
  ASSUME NEW q \in RequeteT, NEW pc,
         \/ /\ q.pc \in {"roleClient", "creerLocal"}
            /\ pc \in {"creerLocal", "courriel"}
         \/ q.pc = "suspendre" /\ pc = "suspendreLocal",
         NEW n, n = [q EXCEPT !.pc = pc]
  PROVE  /\ n \in RequeteT
         /\ n.pc = pc /\ n.e = q.e /\ n.seule = q.seule
         /\ pc = "suspendreLocal" =>
              n.suspended = q.suspended
  BY DEF RequeteT

\* What RemoveRealmRole does to a request.
LEMMA FormeReste ==
  ASSUME NEW q \in RequeteT, q.pc = "retirer", NEW p, NEW n,
         n = [q EXCEPT !.reste = @ \ {p}]
  PROVE  /\ n \in RequeteT
         /\ n.pc = q.pc /\ n.e = q.e /\ n.seule = q.seule
         /\ n.role = q.role /\ n.ajouter = q.ajouter /\ n.reste = q.reste \ {p}
  BY DEF RequeteT

\* What AssignRealmRole does to a request.
LEMMA FormeAjouter ==
  ASSUME NEW q \in RequeteT, q.pc = "retirer", NEW n,
         n = [q EXCEPT !.ajouter = FALSE]
  PROVE  /\ n \in RequeteT
         /\ n.pc = q.pc /\ n.e = q.e /\ n.seule = q.seule
         /\ n.role = q.role /\ n.ajouter = FALSE /\ n.reste = q.reste
  BY DEF RequeteT

\* The same of the running requests.
LEMMA ChampsReq ==
  Inductif =>
    \A r \in Requetes :
      /\ ~Libre(r) => req[r].e \in Comptes /\ req[r].seule \in BOOLEAN
      /\ req[r].pc \in {"suspendre", "suspendreLocal"} =>
           req[r].suspended \in BOOLEAN
      /\ req[r].pc = "retirer" =>
           /\ req[r].role \in Roles /\ req[r].reste \in SUBSET Roles
           /\ req[r].ajouter \in BOOLEAN
BY Champs DEF Inductif, TypeOK, Libre

\* Every step leaves well-formed requests (AuthService and UsersService start
\* and advance them with the fields of their pc).
LEMMA RequetesPas == TypeOK /\ [Next]_vars => (req \in [Requetes -> RequeteT])'
<1> SUFFICES ASSUME TypeOK, [Next]_vars PROVE (req \in [Requetes -> RequeteT])'
  OBVIOUS
<1>0. req \in [Requetes -> RequeteT]
  BY DEF TypeOK
<1>a. [pc |-> "libre"] \in RequeteT
  BY DEF RequeteT
<1>b. \A r \in Requetes : Repond(r) => (req \in [Requetes -> RequeteT])'
  BY <1>0, <1>a DEF Repond
<1>c. ASSUME NEW r \in Requetes, NEW n \in RequeteT, Commence(r, n)
      PROVE  (req \in [Requetes -> RequeteT])'
  <2>1. \A s \in Requetes : ~Libre(s) =>
          [req[s] EXCEPT !.seule = FALSE] \in RequeteT
    BY <1>0, FormeSeule DEF Libre
  <2> QED
    BY <1>0, <1>c, <2>1 DEF Commence
<1>d. \A r \in Requetes : AuRepos \in BOOLEAN
  BY DEF AuRepos, Libre
<1>1. ASSUME NEW e \in Comptes, Connexion(e)
      PROVE  (req \in [Requetes -> RequeteT])'
  BY <1>0, <1>1 DEF Connexion
<1>2. ASSUME NEW e \in Comptes, Expire(e)
      PROVE  (req \in [Requetes -> RequeteT])'
  BY <1>0, <1>2 DEF Expire
<1>3. ASSUME NEW e \in Comptes, SyncUser(e)
      PROVE  (req \in [Requetes -> RequeteT])'
  BY <1>0, <1>3 DEF SyncUser
<1>4. ASSUME NEW e \in Comptes, VerifyEmail(e)
      PROVE  (req \in [Requetes -> RequeteT])'
  BY <1>0, <1>4 DEF VerifyEmail
<1>5. ASSUME NEW r \in Requetes, NEW e \in Comptes, Register(r, e)
      PROVE  (req \in [Requetes -> RequeteT])'
  <2> DEFINE n == [pc |-> "roleClient", e |-> e, seule |-> AuRepos]
  <2>1. n \in RequeteT
    BY <1>d DEF RequeteT, TypeOK, CompteT
  <2>2. Commence(r, n)
    BY <1>5 DEF Register
  <2> QED
    BY <1>c, <2>1, <2>2
<1>6. ASSUME NEW r \in Requetes, NEW e \in Comptes, ResendVerification(r, e)
      PROVE  (req \in [Requetes -> RequeteT])'
  <2> DEFINE n == [pc |-> "renvoi", e |-> e, seule |-> AuRepos]
  <2>1. n \in RequeteT
    BY <1>d DEF RequeteT, TypeOK, CompteT
  <2>2. Commence(r, n)
    BY <1>6 DEF ResendVerification
  <2> QED
    BY <1>c, <2>1, <2>2
<1>7. ASSUME NEW r \in Requetes, RegisterRole(r)
      PROVE  (req \in [Requetes -> RequeteT])'
  <2>1. [req[r] EXCEPT !.pc = "creerLocal"] \in RequeteT
    BY <1>0, <1>7, FormeVa DEF RegisterRole
  <2> QED
    BY <1>0, <1>b, <1>7, <2>1 DEF RegisterRole, Va
<1>8. ASSUME NEW r \in Requetes, RegisterLocal(r)
      PROVE  (req \in [Requetes -> RequeteT])'
  <2>1. [req[r] EXCEPT !.pc = "courriel"] \in RequeteT
    BY <1>0, <1>8, FormeVa DEF RegisterLocal
  <2> QED
    BY <1>0, <1>b, <1>8, <2>1 DEF RegisterLocal, Va
<1>9. ASSUME NEW r \in Requetes, SendVerificationEmail(r)
      PROVE  (req \in [Requetes -> RequeteT])'
  BY <1>b, <1>9 DEF SendVerificationEmail
<1>10. ASSUME NEW r \in Requetes, Panne(r)
       PROVE  (req \in [Requetes -> RequeteT])'
  BY <1>b, <1>10 DEF Panne
<1>11. ASSUME NEW r \in Requetes, NEW e \in Comptes, NEW b \in BOOLEAN,
              SetSuspended(r, e, b)
       PROVE  (req \in [Requetes -> RequeteT])'
  <2> DEFINE n == [pc |-> "suspendre", e |-> e, seule |-> AuRepos,
                  suspended |-> b]
  <2>1. n \in RequeteT
    BY <1>d DEF RequeteT, TypeOK, CompteT
  <2>2. Commence(r, n)
    BY <1>11 DEF SetSuspended
  <2> QED
    BY <1>c, <2>1, <2>2
<1>12. ASSUME NEW r \in Requetes, NEW e \in Comptes, NEW role \in Roles,
              ChangeRole(r, e, role)
       PROVE  (req \in [Requetes -> RequeteT])'
  <2> DEFINE n == [pc |-> "retirer", e |-> e, seule |-> AuRepos,
                  role |-> role,
                  reste |-> keycloak[e].roles \ {role},
                  ajouter |-> role \notin keycloak[e].roles]
  <2>1. n \in RequeteT
    BY <1>d DEF RequeteT, TypeOK, CompteT
  <2>2. Commence(r, n)
    BY <1>12 DEF ChangeRole
  <2> QED
    BY <1>c, <2>1, <2>2
<1>13. ASSUME NEW r \in Requetes, SetUserEnabled(r)
       PROVE  (req \in [Requetes -> RequeteT])'
  <2>1. [req[r] EXCEPT !.pc = "suspendreLocal"] \in RequeteT
    BY <1>0, <1>13, FormeVa DEF SetUserEnabled
  <2> QED
    BY <1>0, <1>b, <1>13, <2>1 DEF SetUserEnabled, Va
<1>14. ASSUME NEW r \in Requetes, SetSuspendedLocal(r)
       PROVE  (req \in [Requetes -> RequeteT])'
  BY <1>b, <1>14 DEF SetSuspendedLocal
<1>15. ASSUME NEW r \in Requetes, RemoveRealmRole(r)
       PROVE  (req \in [Requetes -> RequeteT])'
  <2>1. req[r] \in RequeteT /\ req[r].pc = "retirer"
    BY <1>0, <1>15 DEF RemoveRealmRole
  <2>2. [req[r] EXCEPT !.reste = @ \ {Premier(req[r].reste)}] \in RequeteT
    BY <2>1, FormeReste
  <2> QED
    BY <1>0, <1>15, <2>2 DEF RemoveRealmRole
<1>16. ASSUME NEW r \in Requetes, AssignRealmRole(r)
       PROVE  (req \in [Requetes -> RequeteT])'
  <2>1. req[r] \in RequeteT /\ req[r].pc = "retirer"
    BY <1>0, <1>16 DEF AssignRealmRole
  <2>2. [req[r] EXCEPT !.ajouter = FALSE] \in RequeteT
    BY <2>1, FormeAjouter
  <2> QED
    BY <1>0, <1>16, <2>2 DEF AssignRealmRole
<1>17. ASSUME NEW r \in Requetes, ChangeRoleEcrire(r)
       PROVE  (req \in [Requetes -> RequeteT])'
  BY <1>b, <1>17 DEF ChangeRoleEcrire
<1>18. CASE UNCHANGED vars
  BY <1>0, <1>18 DEF vars
<1> QED
  BY <1>1, <1>2, <1>3, <1>4, <1>5, <1>6, <1>7, <1>8, <1>9, <1>10, <1>11, <1>12,
     <1>13, <1>14, <1>15, <1>16, <1>17, <1>18
     DEF Next, AuthNext, UsersNext

\* Every step keeps the types.
LEMMA TypesPas == Inductif /\ [Next]_vars => TypeOK'
<1> SUFFICES ASSUME Inductif, [Next]_vars PROVE TypeOK'
  OBVIOUS
<1> USE ComptesAssumption DEF TypeOK, comptes, temoins, Libre, Roles
<1>q. (req \in [Requetes -> RequeteT])'
  BY RequetesPas DEF Inductif
<1>1. ASSUME NEW e \in Comptes, Connexion(e) PROVE TypeOK'
  BY <1>q, ChampsReq, <1>1
  DEF Connexion, Inductif, Synchronise, ResolveRoleName, Jeton, CompteT,
      UtilisateurT
<1>2. ASSUME NEW e \in Comptes, Expire(e) PROVE TypeOK'
  BY <1>q, ChampsReq, <1>2 DEF Expire, Inductif
<1>3. ASSUME NEW e \in Comptes, SyncUser(e) PROVE TypeOK'
  BY <1>q, ChampsReq, <1>3
  DEF SyncUser, Inductif, Synchronise, ResolveRoleName, Jeton, CompteT,
      UtilisateurT
<1>4. ASSUME NEW e \in Comptes, VerifyEmail(e) PROVE TypeOK'
  <2>1. \A u \in UtilisateurT :
          [u EXCEPT !.isVerified = TRUE] \in UtilisateurT
    BY <1>q, ChampsReq, <1>4 DEF VerifyEmail, UtilisateurT
  <2>2. (utilisateur \in [Comptes -> UtilisateurT])'
    BY <1>q, ChampsReq, <1>4, <2>1 DEF VerifyEmail, Inductif
  <2> QED
    BY <1>q, <1>4, <2>2 DEF VerifyEmail, Inductif
<1>5. ASSUME NEW r \in Requetes, NEW e \in Comptes, Register(r, e)
      PROVE  TypeOK'
  BY <1>q, ChampsReq, <1>5 DEF Register, Inductif, Commence, CompteT
<1>6. ASSUME NEW r \in Requetes, NEW e \in Comptes, ResendVerification(r, e)
      PROVE  TypeOK'
  BY <1>q, ChampsReq, <1>6
  DEF ResendVerification, Inductif, Synchronise, ResolveRoleName, Jeton,
      CompteT, UtilisateurT, Commence
<1>7. ASSUME NEW r \in Requetes, RegisterRole(r) PROVE TypeOK'
  BY <1>q, ChampsReq, <1>7
  DEF RegisterRole, Inductif, Synchronise, ResolveRoleName, Jeton, CompteT,
      UtilisateurT
<1>8. ASSUME NEW r \in Requetes, RegisterLocal(r) PROVE TypeOK'
  <2>1. [NonUtilisateur EXCEPT !.existe = TRUE] \in UtilisateurT
    BY DEF NonUtilisateur, UtilisateurT
  <2>2. (utilisateur \in [Comptes -> UtilisateurT])'
    BY <1>8, <2>1 DEF RegisterLocal, Inductif
  <2> QED
    BY <1>q, <1>8, <2>2 DEF RegisterLocal, Inductif
<1>9. ASSUME NEW r \in Requetes, SendVerificationEmail(r) PROVE TypeOK'
  BY <1>q, ChampsReq, <1>9 DEF SendVerificationEmail, Inductif
<1>10. ASSUME NEW r \in Requetes, Panne(r) PROVE TypeOK'
  <2>1. (pannes \in 0 .. MaxPannes)'
    BY <1>10 DEF Panne, Inductif
  <2> QED
    BY <1>q, <1>10, <2>1 DEF Panne, Inductif
<1>11. ASSUME NEW r \in Requetes, NEW e \in Comptes, NEW b \in BOOLEAN,
              SetSuspended(r, e, b)
       PROVE  TypeOK'
  BY <1>q, ChampsReq, <1>11 DEF SetSuspended, Inductif, Commence
<1>12. ASSUME NEW r \in Requetes, NEW e \in Comptes, NEW role \in Roles,
              ChangeRole(r, e, role)
       PROVE  TypeOK'
  BY <1>q, ChampsReq, <1>12 DEF ChangeRole, Inductif, Commence
<1>13. ASSUME NEW r \in Requetes, SetUserEnabled(r) PROVE TypeOK'
  <2>1. \A u \in CompteT : [u EXCEPT !.enabled = ~req[r].suspended] \in CompteT
    BY <1>q, ChampsReq, <1>13 DEF SetUserEnabled, CompteT
  <2>2. (keycloak \in [Comptes -> CompteT])'
    BY <1>q, ChampsReq, <1>13, <2>1 DEF SetUserEnabled, Inductif
  <2> QED
    BY <1>q, <1>13, <2>2 DEF SetUserEnabled, Inductif
<1>14. ASSUME NEW r \in Requetes, SetSuspendedLocal(r) PROVE TypeOK'
  <2>1. \A u \in UtilisateurT :
          [u EXCEPT !.isSuspended = req[r].suspended] \in UtilisateurT
    BY <1>q, ChampsReq, <1>14 DEF SetSuspendedLocal, UtilisateurT
  <2>2. (utilisateur \in [Comptes -> UtilisateurT])'
    BY <1>q, ChampsReq, <1>14, <2>1 DEF SetSuspendedLocal, Inductif
  <2> QED
    BY <1>q, <1>14, <2>2 DEF SetSuspendedLocal, Inductif
<1>15. ASSUME NEW r \in Requetes, RemoveRealmRole(r) PROVE TypeOK'
  <2>1. \A u \in CompteT : [u EXCEPT !.roles = @ \ {Premier(req[r].reste)}] \in CompteT
    BY <1>q, ChampsReq, <1>15 DEF RemoveRealmRole, CompteT
  <2>2. (keycloak \in [Comptes -> CompteT])'
    BY <1>q, ChampsReq, <1>15, <2>1 DEF RemoveRealmRole, Inductif
  <2> QED
    BY <1>q, <1>15, <2>2 DEF RemoveRealmRole, Inductif
<1>16. ASSUME NEW r \in Requetes, AssignRealmRole(r) PROVE TypeOK'
  <2>1. \A u \in CompteT : [u EXCEPT !.roles = @ \cup {req[r].role}] \in CompteT
    BY <1>q, ChampsReq, <1>16 DEF AssignRealmRole, CompteT
  <2>2. (keycloak \in [Comptes -> CompteT])'
    BY <1>q, ChampsReq, <1>16, <2>1 DEF AssignRealmRole, Inductif
  <2> QED
    BY <1>q, <1>16, <2>2 DEF AssignRealmRole, Inductif
<1>17. ASSUME NEW r \in Requetes, ChangeRoleEcrire(r) PROVE TypeOK'
  <2>1. \A u \in UtilisateurT :
          [u EXCEPT !.role = req[r].role] \in UtilisateurT
    BY <1>q, ChampsReq, <1>17 DEF ChangeRoleEcrire, UtilisateurT
  <2>2. (utilisateur \in [Comptes -> UtilisateurT])'
    BY <1>q, ChampsReq, <1>17, <2>1 DEF ChangeRoleEcrire, Inductif
  <2> QED
    BY <1>q, <1>17, <2>2 DEF ChangeRoleEcrire, Inductif
<1>18. CASE UNCHANGED vars
  BY <1>q, <1>18 DEF vars, Inductif
<1> QED
  BY <1>1, <1>2, <1>3, <1>4, <1>5, <1>6, <1>7, <1>8, <1>9, <1>10, <1>11, <1>12,
     <1>13, <1>14, <1>15, <1>16, <1>17, <1>18
     DEF Next, AuthNext, UsersNext

\* The next five: what a step does to the requests, field by field.  Here a
\* request is answered or dies.
LEMMA EffetRepond ==
  ASSUME TypeOK, NEW r \in Requetes, Repond(r)
  PROVE  /\ req'[r].pc = "libre"
         /\ \A s \in Requetes : s # r => req'[s] = req[s]
  BY DEF TypeOK, Repond

\* A request goes on to its next await.
LEMMA EffetVa ==
  ASSUME TypeOK, NEW r \in Requetes, NEW pc, Va(r, pc),
         \/ /\ req[r].pc \in {"roleClient", "creerLocal"}
            /\ pc \in {"creerLocal", "courriel"}
         \/ req[r].pc = "suspendre" /\ pc = "suspendreLocal"
  PROVE  /\ req'[r].pc = pc
         /\ req'[r].e = req[r].e
         /\ req'[r].seule = req[r].seule
         /\ pc = "suspendreLocal" => req'[r].suspended = req[r].suspended
         /\ \A s \in Requetes : s # r => req'[s] = req[s]
<1>1. /\ req[r] \in RequeteT
      /\ req' = [req EXCEPT ![r] = [req[r] EXCEPT !.pc = pc]]
  BY DEF TypeOK, Va
<1>2. /\ req'[r] = [req[r] EXCEPT !.pc = pc]
      /\ \A s \in Requetes : s # r => req'[s] = req[s]
  BY <1>1 DEF TypeOK
<1> QED
  BY <1>1, <1>2, FormeVa

\* A request starts: the other ones run on, no longer alone.
LEMMA EffetCommence ==
  ASSUME TypeOK, NEW r \in Requetes, NEW n, Commence(r, n)
  PROVE  /\ Libre(r)
         /\ req'[r] = n
         /\ \A s \in Requetes : s # r /\ Libre(s) => req'[s] = req[s]
         /\ \A s \in Requetes : s # r /\ ~Libre(s) =>
              /\ req'[s].pc = req[s].pc /\ req'[s].e = req[s].e
              /\ ~req'[s].seule
              /\ req[s].pc = "suspendreLocal" =>
                   req'[s].suspended = req[s].suspended
<1>1. \A s \in Requetes : s # r /\ ~Libre(s) =>
        req'[s] = [req[s] EXCEPT !.seule = FALSE]
  BY DEF Commence
<1>2. \A s \in Requetes : req[s] \in RequeteT
  BY DEF TypeOK
<1>3. \A s \in Requetes : s # r /\ ~Libre(s) =>
         /\ req'[s].pc = req[s].pc /\ req'[s].e = req[s].e
         /\ ~req'[s].seule
         /\ req[s].pc = "suspendreLocal" =>
                   req'[s].suspended = req[s].suspended
  BY <1>1, <1>2, FormeSeule DEF Libre
<1> QED
  BY <1>3 DEF Commence

\* changeRole takes a role away (users.service.ts:63).
LEMMA EffetReste ==
  ASSUME TypeOK, NEW r \in Requetes, RemoveRealmRole(r)
  PROVE  LET p == Premier(req[r].reste) IN
         /\ req'[r].pc = "retirer" /\ req'[r].e = req[r].e
         /\ req'[r].seule = req[r].seule /\ req'[r].role = req[r].role
         /\ req'[r].ajouter = req[r].ajouter
         /\ req'[r].reste = req[r].reste \ {p}
         /\ \A s \in Requetes : s # r => req'[s] = req[s]
<1> DEFINE p == Premier(req[r].reste)
<1>1. /\ req[r] \in RequeteT /\ req[r].pc = "retirer"
      /\ req'[r] = [req[r] EXCEPT !.reste = @ \ {p}]
      /\ \A s \in Requetes : s # r => req'[s] = req[s]
  BY DEF TypeOK, RemoveRealmRole
<1> QED
  BY <1>1, FormeReste

\* changeRole gives the role (users.service.ts:69).
LEMMA EffetAjouter ==
  ASSUME TypeOK, NEW r \in Requetes, AssignRealmRole(r)
  PROVE  /\ req'[r].pc = "retirer" /\ req'[r].e = req[r].e
         /\ req'[r].seule = req[r].seule /\ req'[r].role = req[r].role
         /\ ~req'[r].ajouter
         /\ req'[r].reste = req[r].reste
         /\ \A s \in Requetes : s # r => req'[s] = req[s]
<1>1. /\ req[r] \in RequeteT /\ req[r].pc = "retirer"
      /\ req'[r] = [req[r] EXCEPT !.ajouter = FALSE]
      /\ \A s \in Requetes : s # r => req'[s] = req[s]
  BY DEF TypeOK, AssignRealmRole
<1> QED
  BY <1>1, FormeAjouter

\* What has no account or no row stays untouched: every handler looks the row up
\* or makes it first.
LEMMA ConnuPas ==
  Inductif /\ [Next]_vars => (\A c \in Comptes : CompteConnu(c))'
<1> SUFFICES ASSUME Inductif, [Next]_vars
             PROVE  (\A c \in Comptes : CompteConnu(c))'
  OBVIOUS
<1> USE ComptesAssumption DEF TypeOK, CompteT, UtilisateurT, comptes, temoins,
           Libre, CompteConnu, RequeteConnue
<1>1. ASSUME NEW e \in Comptes, Connexion(e)
      PROVE  (\A c \in Comptes : CompteConnu(c))'
  BY ChampsReq, <1>1 DEF Connexion, Inductif
<1>2. ASSUME NEW e \in Comptes, Expire(e)
      PROVE  (\A c \in Comptes : CompteConnu(c))'
  BY ChampsReq, <1>2 DEF Expire, Inductif
<1>3. ASSUME NEW e \in Comptes, SyncUser(e)
      PROVE  (\A c \in Comptes : CompteConnu(c))'
  BY ChampsReq, <1>3 DEF SyncUser, Inductif, Synchronise
<1>4. ASSUME NEW e \in Comptes, VerifyEmail(e)
      PROVE  (\A c \in Comptes : CompteConnu(c))'
  BY ChampsReq, <1>4 DEF VerifyEmail, Inductif
<1>5. ASSUME NEW r \in Requetes, NEW e \in Comptes, Register(r, e)
      PROVE  (\A c \in Comptes : CompteConnu(c))'
  BY ChampsReq, <1>5 DEF Register, Inductif
<1>6. ASSUME NEW r \in Requetes, NEW e \in Comptes, ResendVerification(r, e)
      PROVE  (\A c \in Comptes : CompteConnu(c))'
  BY ChampsReq, <1>6 DEF ResendVerification, Inductif, Synchronise
<1>7. ASSUME NEW r \in Requetes, RegisterRole(r)
      PROVE  (\A c \in Comptes : CompteConnu(c))'
  BY ChampsReq, <1>7 DEF RegisterRole, Inductif
<1>8. ASSUME NEW r \in Requetes, RegisterLocal(r)
      PROVE  (\A c \in Comptes : CompteConnu(c))'
  <2> DEFINE e == req[r].e
  <2>1. e \in Comptes /\ keycloak[e].existe /\ keycloak' = keycloak
    BY ChampsReq, <1>8 DEF RegisterLocal, Inductif
  <2>2. \A c \in Comptes : c # e => utilisateur'[c] = utilisateur[c]
    BY <1>8 DEF RegisterLocal, Inductif
  <2>3. utilisateur'[e].existe
    BY <1>8, <2>1 DEF RegisterLocal, Inductif, NonUtilisateur
  <2> QED
    BY <1>8, <2>1, <2>2, <2>3 DEF RegisterLocal, Inductif
<1>9. ASSUME NEW r \in Requetes, SendVerificationEmail(r)
      PROVE  (\A c \in Comptes : CompteConnu(c))'
  BY ChampsReq, <1>9 DEF SendVerificationEmail, Inductif
<1>10. ASSUME NEW r \in Requetes, Panne(r)
       PROVE  (\A c \in Comptes : CompteConnu(c))'
  BY ChampsReq, <1>10 DEF Panne, Inductif
<1>11. ASSUME NEW r \in Requetes, NEW e \in Comptes, NEW b \in BOOLEAN,
              SetSuspended(r, e, b)
       PROVE  (\A c \in Comptes : CompteConnu(c))'
  BY ChampsReq, <1>11 DEF SetSuspended, Inductif
<1>12. ASSUME NEW r \in Requetes, NEW e \in Comptes, NEW role \in Roles,
              ChangeRole(r, e, role)
       PROVE  (\A c \in Comptes : CompteConnu(c))'
  BY ChampsReq, <1>12 DEF ChangeRole, Inductif
<1>13. ASSUME NEW r \in Requetes, SetUserEnabled(r)
       PROVE  (\A c \in Comptes : CompteConnu(c))'
  BY ChampsReq, <1>13 DEF SetUserEnabled, Inductif
<1>14. ASSUME NEW r \in Requetes, SetSuspendedLocal(r)
       PROVE  (\A c \in Comptes : CompteConnu(c))'
  BY ChampsReq, <1>14 DEF SetSuspendedLocal, Inductif
<1>15. ASSUME NEW r \in Requetes, RemoveRealmRole(r)
       PROVE  (\A c \in Comptes : CompteConnu(c))'
  BY ChampsReq, <1>15 DEF RemoveRealmRole, Inductif
<1>16. ASSUME NEW r \in Requetes, AssignRealmRole(r)
       PROVE  (\A c \in Comptes : CompteConnu(c))'
  BY ChampsReq, <1>16 DEF AssignRealmRole, Inductif
<1>17. ASSUME NEW r \in Requetes, ChangeRoleEcrire(r)
       PROVE  (\A c \in Comptes : CompteConnu(c))'
  BY ChampsReq, <1>17 DEF ChangeRoleEcrire, Inductif
<1>18. CASE UNCHANGED vars
  BY <1>18 DEF vars, Inductif
<1> QED
  BY <1>1, <1>2, <1>3, <1>4, <1>5, <1>6, <1>7, <1>8, <1>9, <1>10, <1>11, <1>12,
     <1>13, <1>14, <1>15, <1>16, <1>17, <1>18
     DEF Next, AuthNext, UsersNext

\* Accounts and rows never go away.
LEMMA ExistePas == Inductif /\ [Next]_vars => (\A c \in Comptes :
                 /\ keycloak[c].existe => keycloak'[c].existe
                 /\ utilisateur[c].existe => utilisateur'[c].existe)
<1> SUFFICES ASSUME Inductif, [Next]_vars PROVE (\A c \in Comptes :
                 /\ keycloak[c].existe => keycloak'[c].existe
                 /\ utilisateur[c].existe => utilisateur'[c].existe)
  OBVIOUS
<1> USE ComptesAssumption DEF TypeOK, CompteT, UtilisateurT, comptes, temoins,
           Libre
<1>1. ASSUME NEW e \in Comptes, Connexion(e) PROVE (\A c \in Comptes :
                 /\ keycloak[c].existe => keycloak'[c].existe
                 /\ utilisateur[c].existe => utilisateur'[c].existe)
  BY ChampsReq, <1>1 DEF Connexion, Inductif
<1>2. ASSUME NEW e \in Comptes, Expire(e) PROVE (\A c \in Comptes :
                 /\ keycloak[c].existe => keycloak'[c].existe
                 /\ utilisateur[c].existe => utilisateur'[c].existe)
  BY ChampsReq, <1>2 DEF Expire, Inductif
<1>3. ASSUME NEW e \in Comptes, SyncUser(e) PROVE (\A c \in Comptes :
                 /\ keycloak[c].existe => keycloak'[c].existe
                 /\ utilisateur[c].existe => utilisateur'[c].existe)
  BY ChampsReq, <1>3 DEF SyncUser, Inductif, Synchronise
<1>4. ASSUME NEW e \in Comptes, VerifyEmail(e) PROVE (\A c \in Comptes :
                 /\ keycloak[c].existe => keycloak'[c].existe
                 /\ utilisateur[c].existe => utilisateur'[c].existe)
  BY ChampsReq, <1>4 DEF VerifyEmail, Inductif
<1>5. ASSUME NEW r \in Requetes, NEW e \in Comptes, Register(r, e)
      PROVE  (\A c \in Comptes :
                 /\ keycloak[c].existe => keycloak'[c].existe
                 /\ utilisateur[c].existe => utilisateur'[c].existe)
  BY ChampsReq, <1>5 DEF Register, Inductif
<1>6. ASSUME NEW r \in Requetes, NEW e \in Comptes, ResendVerification(r, e)
      PROVE  (\A c \in Comptes :
                 /\ keycloak[c].existe => keycloak'[c].existe
                 /\ utilisateur[c].existe => utilisateur'[c].existe)
  BY ChampsReq, <1>6 DEF ResendVerification, Inductif, Synchronise
<1>7. ASSUME NEW r \in Requetes, RegisterRole(r) PROVE (\A c \in Comptes :
                 /\ keycloak[c].existe => keycloak'[c].existe
                 /\ utilisateur[c].existe => utilisateur'[c].existe)
  BY ChampsReq, <1>7 DEF RegisterRole, Inductif
<1>8. ASSUME NEW r \in Requetes, RegisterLocal(r) PROVE (\A c \in Comptes :
                 /\ keycloak[c].existe => keycloak'[c].existe
                 /\ utilisateur[c].existe => utilisateur'[c].existe)
  BY ChampsReq, <1>8 DEF RegisterLocal, Inductif, NonUtilisateur
<1>9. ASSUME NEW r \in Requetes, SendVerificationEmail(r)
      PROVE  (\A c \in Comptes :
                 /\ keycloak[c].existe => keycloak'[c].existe
                 /\ utilisateur[c].existe => utilisateur'[c].existe)
  BY ChampsReq, <1>9 DEF SendVerificationEmail, Inductif
<1>10. ASSUME NEW r \in Requetes, Panne(r) PROVE (\A c \in Comptes :
                 /\ keycloak[c].existe => keycloak'[c].existe
                 /\ utilisateur[c].existe => utilisateur'[c].existe)
  BY ChampsReq, <1>10 DEF Panne, Inductif
<1>11. ASSUME NEW r \in Requetes, NEW e \in Comptes, NEW b \in BOOLEAN,
              SetSuspended(r, e, b)
       PROVE  (\A c \in Comptes :
                 /\ keycloak[c].existe => keycloak'[c].existe
                 /\ utilisateur[c].existe => utilisateur'[c].existe)
  BY ChampsReq, <1>11 DEF SetSuspended, Inductif
<1>12. ASSUME NEW r \in Requetes, NEW e \in Comptes, NEW role \in Roles,
              ChangeRole(r, e, role)
       PROVE  (\A c \in Comptes :
                 /\ keycloak[c].existe => keycloak'[c].existe
                 /\ utilisateur[c].existe => utilisateur'[c].existe)
  BY ChampsReq, <1>12 DEF ChangeRole, Inductif
<1>13. ASSUME NEW r \in Requetes, SetUserEnabled(r) PROVE (\A c \in Comptes :
                 /\ keycloak[c].existe => keycloak'[c].existe
                 /\ utilisateur[c].existe => utilisateur'[c].existe)
  BY ChampsReq, <1>13 DEF SetUserEnabled, Inductif
<1>14. ASSUME NEW r \in Requetes, SetSuspendedLocal(r)
       PROVE  (\A c \in Comptes :
                 /\ keycloak[c].existe => keycloak'[c].existe
                 /\ utilisateur[c].existe => utilisateur'[c].existe)
  BY ChampsReq, <1>14 DEF SetSuspendedLocal, Inductif
<1>15. ASSUME NEW r \in Requetes, RemoveRealmRole(r) PROVE (\A c \in Comptes :
                 /\ keycloak[c].existe => keycloak'[c].existe
                 /\ utilisateur[c].existe => utilisateur'[c].existe)
  BY ChampsReq, <1>15 DEF RemoveRealmRole, Inductif
<1>16. ASSUME NEW r \in Requetes, AssignRealmRole(r) PROVE (\A c \in Comptes :
                 /\ keycloak[c].existe => keycloak'[c].existe
                 /\ utilisateur[c].existe => utilisateur'[c].existe)
  BY ChampsReq, <1>16 DEF AssignRealmRole, Inductif
<1>17. ASSUME NEW r \in Requetes, ChangeRoleEcrire(r) PROVE (\A c \in Comptes :
                 /\ keycloak[c].existe => keycloak'[c].existe
                 /\ utilisateur[c].existe => utilisateur'[c].existe)
  BY ChampsReq, <1>17 DEF ChangeRoleEcrire, Inductif
<1>18. CASE UNCHANGED vars
  BY <1>18 DEF vars

<1> QED
  BY <1>1, <1>2, <1>3, <1>4, <1>5, <1>6, <1>7, <1>8, <1>9, <1>10, <1>11, <1>12,
     <1>13, <1>14, <1>15, <1>16, <1>17, <1>18
     DEF Next, AuthNext, UsersNext

\* A request keeps being about an account and a row that exist.
LEMMA RequetesConnuesPas ==
  Inductif /\ [Next]_vars => (\A s \in Requetes : RequeteConnue(s))'
<1> SUFFICES ASSUME Inductif, [Next]_vars
             PROVE  (\A s \in Requetes : RequeteConnue(s))'
  OBVIOUS
<1> USE ComptesAssumption DEF RequeteConnue, Libre
<1>t. TypeOK
  BY DEF Inductif
<1>x. \A c \in Comptes :
        /\ keycloak[c].existe => keycloak'[c].existe
        /\ utilisateur[c].existe => utilisateur'[c].existe
  BY ExistePas
<1>i. \A s \in Requetes : RequeteConnue(s)
  BY DEF Inductif
<1>k. \A c \in Comptes : CompteConnu(c)
  BY DEF Inductif
<1>1. ASSUME NEW e \in Comptes, Connexion(e)
      PROVE  (\A s \in Requetes : RequeteConnue(s))'
  BY <1>1, <1>t, <1>x, ChampsReq, <1>i DEF Connexion
<1>2. ASSUME NEW e \in Comptes, Expire(e)
      PROVE  (\A s \in Requetes : RequeteConnue(s))'
  BY <1>2, <1>t, <1>x, ChampsReq, <1>i DEF Expire
<1>3. ASSUME NEW e \in Comptes, SyncUser(e)
      PROVE  (\A s \in Requetes : RequeteConnue(s))'
  BY <1>3, <1>t, <1>x, ChampsReq, <1>i DEF SyncUser
<1>4. ASSUME NEW e \in Comptes, VerifyEmail(e)
      PROVE  (\A s \in Requetes : RequeteConnue(s))'
  BY <1>4, <1>t, <1>x, ChampsReq, <1>i DEF VerifyEmail
<1>5. ASSUME NEW r \in Requetes, NEW e \in Comptes, Register(r, e)
      PROVE  (\A s \in Requetes : RequeteConnue(s))'
  <2> DEFINE n == [pc |-> "roleClient", e |-> e, seule |-> AuRepos]
  <2>1. Commence(r, n)
    BY <1>5 DEF Register
  <2>2. keycloak'[e].existe
    BY <1>t, <1>x, <1>k, <1>5
    DEF Register, CompteConnu, TypeOK, CompteT, UtilisateurT, Synchronise
  <2> QED
    BY <1>5, <2>1, <1>t, <1>x, ChampsReq, <1>i, <2>2, EffetCommence
    DEF Register, TypeOK, CompteT
<1>6. ASSUME NEW r \in Requetes, NEW e \in Comptes, ResendVerification(r, e)
      PROVE  (\A s \in Requetes : RequeteConnue(s))'
  <2> DEFINE n == [pc |-> "renvoi", e |-> e, seule |-> AuRepos]
  <2>1. Commence(r, n)
    BY <1>6 DEF ResendVerification
  <2>2. keycloak'[e].existe /\ utilisateur'[e].existe
    BY <1>t, <1>x, <1>k, <1>6
    DEF ResendVerification, CompteConnu, TypeOK, CompteT, UtilisateurT,
        Synchronise
  <2> QED
    BY <1>6, <2>1, <1>t, <1>x, ChampsReq, <1>i, <2>2, EffetCommence
    DEF ResendVerification, TypeOK, CompteT
<1>7. ASSUME NEW r \in Requetes, RegisterRole(r)
      PROVE  (\A s \in Requetes : RequeteConnue(s))'
  BY <1>7, <1>t, <1>x, ChampsReq, <1>i, EffetVa DEF RegisterRole
<1>8. ASSUME NEW r \in Requetes, RegisterLocal(r)
      PROVE  (\A s \in Requetes : RequeteConnue(s))'
  <2>1. CASE Repond(r)
    BY <1>8, <2>1, <1>t, <1>x, ChampsReq, <1>i, EffetRepond
  <2>2. CASE ~utilisateur[req[r].e].existe
    <3>1. Va(r, "courriel") /\ utilisateur'[req[r].e].existe
      BY <1>8, <2>2, <1>t, ChampsReq
      DEF RegisterLocal, NonUtilisateur, TypeOK, UtilisateurT
    <3>2. req[r].pc = "creerLocal"
      BY <1>8 DEF RegisterLocal
    <3> QED
      BY <3>1, <3>2, <1>t, <1>x, ChampsReq, <1>i, EffetVa
  <2> QED
    BY <1>8, <2>1, <2>2 DEF RegisterLocal
<1>9. ASSUME NEW r \in Requetes, SendVerificationEmail(r)
      PROVE  (\A s \in Requetes : RequeteConnue(s))'
  BY <1>9, <1>t, <1>x, ChampsReq, <1>i, EffetRepond DEF SendVerificationEmail
<1>10. ASSUME NEW r \in Requetes, Panne(r)
       PROVE  (\A s \in Requetes : RequeteConnue(s))'
  BY <1>10, <1>t, <1>x, ChampsReq, <1>i, EffetRepond DEF Panne
<1>11. ASSUME NEW r \in Requetes, NEW e \in Comptes, NEW b \in BOOLEAN,
              SetSuspended(r, e, b)
       PROVE  (\A s \in Requetes : RequeteConnue(s))'
  <2> DEFINE n == [pc |-> "suspendre", e |-> e, seule |-> AuRepos,
                  suspended |-> b]
  <2>1. Commence(r, n)
    BY <1>11 DEF SetSuspended
  <2>2. keycloak'[e].existe /\ utilisateur'[e].existe
    BY <1>t, <1>x, <1>k, <1>11
    DEF SetSuspended, CompteConnu, TypeOK, CompteT, UtilisateurT, Synchronise
  <2> QED
    BY <1>11, <2>1, <1>t, <1>x, ChampsReq, <1>i, <2>2, EffetCommence
    DEF SetSuspended, TypeOK, CompteT
<1>12. ASSUME NEW r \in Requetes, NEW e \in Comptes, NEW role \in Roles,
              ChangeRole(r, e, role)
       PROVE  (\A s \in Requetes : RequeteConnue(s))'
  <2> DEFINE n == [pc |-> "retirer", e |-> e, seule |-> AuRepos,
                  role |-> role,
                  reste |-> keycloak[e].roles \ {role},
                  ajouter |-> role \notin keycloak[e].roles]
  <2>1. Commence(r, n)
    BY <1>12 DEF ChangeRole
  <2>2. keycloak'[e].existe /\ utilisateur'[e].existe
    BY <1>t, <1>x, <1>k, <1>12
    DEF ChangeRole, CompteConnu, TypeOK, CompteT, UtilisateurT, Synchronise
  <2> QED
    BY <1>12, <2>1, <1>t, <1>x, ChampsReq, <1>i, <2>2, EffetCommence
    DEF ChangeRole, TypeOK, CompteT
<1>13. ASSUME NEW r \in Requetes, SetUserEnabled(r)
       PROVE  (\A s \in Requetes : RequeteConnue(s))'
  BY <1>13, <1>t, <1>x, ChampsReq, <1>i, EffetVa DEF SetUserEnabled
<1>14. ASSUME NEW r \in Requetes, SetSuspendedLocal(r)
       PROVE  (\A s \in Requetes : RequeteConnue(s))'
  BY <1>14, <1>t, <1>x, ChampsReq, <1>i, EffetRepond DEF SetSuspendedLocal
<1>15. ASSUME NEW r \in Requetes, RemoveRealmRole(r)
       PROVE  (\A s \in Requetes : RequeteConnue(s))'
  BY <1>15, <1>t, <1>x, ChampsReq, <1>i, EffetReste DEF RemoveRealmRole
<1>16. ASSUME NEW r \in Requetes, AssignRealmRole(r)
       PROVE  (\A s \in Requetes : RequeteConnue(s))'
  BY <1>16, <1>t, <1>x, ChampsReq, <1>i, EffetAjouter DEF AssignRealmRole
<1>17. ASSUME NEW r \in Requetes, ChangeRoleEcrire(r)
       PROVE  (\A s \in Requetes : RequeteConnue(s))'
  BY <1>17, <1>t, <1>x, ChampsReq, <1>i, EffetRepond DEF ChangeRoleEcrire
<1>18. CASE UNCHANGED vars
  BY <1>18, <1>t, <1>x, ChampsReq, <1>i DEF vars, comptes, temoins

<1> QED
  BY <1>1, <1>2, <1>3, <1>4, <1>5, <1>6, <1>7, <1>8, <1>9, <1>10, <1>11, <1>12,
     <1>13, <1>14, <1>15, <1>16, <1>17, <1>18
     DEF Next, AuthNext, UsersNext

\* changeRole takes away a role that is left (users.service.ts:59).
LEMMA PremierDans ==
  ASSUME NEW R \in SUBSET Roles, R # {}
  PROVE  Premier(R) \in R
<1>1. \E i \in 1 .. 3 :
        Ordre[i] \in R /\ \A k \in 1 .. i - 1 : Ordre[k] \notin R
  <2>1. CASE "admin" \in R
    BY <2>1 DEF Ordre
  <2>2. CASE "admin" \notin R /\ "client" \in R
    BY <2>2 DEF Ordre
  <2>3. CASE "admin" \notin R /\ "client" \notin R /\ "livreur" \in R
    BY <2>3 DEF Ordre
  <2> QED
    BY <2>1, <2>2, <2>3 DEF Roles
<1> QED
  BY <1>1 DEF Premier

\* What a change of role that runs alone still has to do stays what Keycloak
\* lacks: no other request can have started without ending its being alone.
LEMMA ChangementsPas ==
  Inductif /\ [Next]_vars => (\A s \in Requetes : ChangementFidele(s))'
<1> SUFFICES ASSUME Inductif, [Next]_vars
             PROVE  (\A s \in Requetes : ChangementFidele(s))'
  OBVIOUS
<1> USE ComptesAssumption DEF ChangementFidele, Libre, comptes
<1>t. TypeOK
  BY DEF Inductif
<1>c. \A s \in Requetes : ChangementFidele(s)
  BY DEF Inductif
<1>1. ASSUME NEW e \in Comptes, Connexion(e)
      PROVE  (\A s \in Requetes : ChangementFidele(s))'
  BY <1>1, <1>c DEF Connexion
<1>2. ASSUME NEW e \in Comptes, Expire(e)
      PROVE  (\A s \in Requetes : ChangementFidele(s))'
  BY <1>2, <1>c DEF Expire
<1>3. ASSUME NEW e \in Comptes, SyncUser(e)
      PROVE  (\A s \in Requetes : ChangementFidele(s))'
  BY <1>3, <1>c DEF SyncUser
<1>4. ASSUME NEW e \in Comptes, VerifyEmail(e)
      PROVE  (\A s \in Requetes : ChangementFidele(s))'
  BY <1>4, <1>c DEF VerifyEmail
<1>5. ASSUME NEW r \in Requetes, NEW e \in Comptes, Register(r, e)
      PROVE  (\A s \in Requetes : ChangementFidele(s))'
  <2> DEFINE n == [pc |-> "roleClient", e |-> e, seule |-> AuRepos]
  <2>1. Commence(r, n)
    BY <1>5 DEF Register
  <2> QED
    BY <1>5, <2>1, <1>t, <1>c, EffetCommence DEF Register
<1>6. ASSUME NEW r \in Requetes, NEW e \in Comptes, ResendVerification(r, e)
      PROVE  (\A s \in Requetes : ChangementFidele(s))'
  <2> DEFINE n == [pc |-> "renvoi", e |-> e, seule |-> AuRepos]
  <2>1. Commence(r, n)
    BY <1>6 DEF ResendVerification
  <2> QED
    BY <1>6, <2>1, <1>t, <1>c, EffetCommence DEF ResendVerification
<1>7. ASSUME NEW r \in Requetes, RegisterRole(r)
      PROVE  (\A s \in Requetes : ChangementFidele(s))'
  BY <1>7, <1>t, <1>c, EffetVa DEF RegisterRole
<1>8. ASSUME NEW r \in Requetes, RegisterLocal(r)
      PROVE  (\A s \in Requetes : ChangementFidele(s))'
  <2>1. CASE Repond(r)
    BY <1>8, <2>1, <1>t, <1>c, EffetRepond DEF RegisterLocal
  <2>2. CASE Va(r, "courriel")
    BY <1>8, <2>2, <1>t, <1>c, EffetVa DEF RegisterLocal
  <2> QED
    BY <1>8, <2>1, <2>2 DEF RegisterLocal
<1>9. ASSUME NEW r \in Requetes, SendVerificationEmail(r)
      PROVE  (\A s \in Requetes : ChangementFidele(s))'
  BY <1>9, <1>t, <1>c, EffetRepond DEF SendVerificationEmail
<1>10. ASSUME NEW r \in Requetes, Panne(r)
       PROVE  (\A s \in Requetes : ChangementFidele(s))'
  BY <1>10, <1>t, <1>c, EffetRepond DEF Panne
<1>11. ASSUME NEW r \in Requetes, NEW e \in Comptes, NEW b \in BOOLEAN,
              SetSuspended(r, e, b)
       PROVE  (\A s \in Requetes : ChangementFidele(s))'
  <2> DEFINE n == [pc |-> "suspendre", e |-> e, seule |-> AuRepos,
                  suspended |-> b]
  <2>1. Commence(r, n)
    BY <1>11 DEF SetSuspended
  <2> QED
    BY <1>11, <2>1, <1>t, <1>c, EffetCommence DEF SetSuspended
<1>12. ASSUME NEW r \in Requetes, NEW e \in Comptes, NEW role \in Roles,
              ChangeRole(r, e, role)
       PROVE  (\A s \in Requetes : ChangementFidele(s))'
  <2> DEFINE n == [pc |-> "retirer", e |-> e, seule |-> AuRepos,
                  role |-> role,
                  reste |-> keycloak[e].roles \ {role},
                  ajouter |-> role \notin keycloak[e].roles]
  <2>1. Commence(r, n)
    BY <1>12 DEF ChangeRole
  <2>2. req'[r] = n /\ keycloak' = keycloak
    BY <1>t, <1>12, <2>1, EffetCommence DEF ChangeRole
  <2>3. AuRepos => \A s \in Requetes : s = r \/ Libre(s)'
    BY <1>t, <2>1, EffetCommence DEF AuRepos
  <2>6. /\ req'[r].seule = AuRepos /\ req'[r].e = e /\ req'[r].role = role
        /\ req'[r].reste = keycloak[e].roles \ {role}
        /\ req'[r].ajouter = (role \notin keycloak[e].roles)
    BY <2>2
  <2>4. ChangementFidele(r)'
    BY <2>2, <2>3, <2>6
  <2>5. \A s \in Requetes : s # r => ChangementFidele(s)'
    BY <1>t, <2>1, EffetCommence
  <2> QED
    BY <2>4, <2>5
<1>13. ASSUME NEW r \in Requetes, SetUserEnabled(r)
       PROVE  (\A s \in Requetes : ChangementFidele(s))'
  BY <1>13, <1>t, <1>c, EffetVa DEF SetUserEnabled
<1>14. ASSUME NEW r \in Requetes, SetSuspendedLocal(r)
       PROVE  (\A s \in Requetes : ChangementFidele(s))'
  BY <1>14, <1>t, <1>c, EffetRepond DEF SetSuspendedLocal
<1>15. ASSUME NEW r \in Requetes, RemoveRealmRole(r)
       PROVE  (\A s \in Requetes : ChangementFidele(s))'
  <2> DEFINE p == Premier(req[r].reste)
             q == req[r]
  <2>1. p \in q.reste
    BY ChampsReq, <1>15, PremierDans DEF RemoveRealmRole
  <2>2. keycloak'[q.e].roles = keycloak[q.e].roles \ {p}
    BY <1>t, ChampsReq, <1>15 DEF RemoveRealmRole, TypeOK, CompteT
  <2>5. /\ req'[r].seule = q.seule /\ req'[r].e = q.e /\ req'[r].role = q.role
        /\ req'[r].ajouter = q.ajouter /\ req'[r].reste = q.reste \ {p}
        /\ \A s \in Requetes : s # r => req'[s] = req[s]
    BY <1>t, <1>15, EffetReste
  <2>6. q.seule =>
          /\ \A s \in Requetes : s = r \/ Libre(s)
          /\ q.reste = keycloak[q.e].roles \ {q.role}
          /\ q.ajouter <=> q.role \notin keycloak[q.e].roles
    BY <1>15 DEF Inductif, RemoveRealmRole
  <2>3. ChangementFidele(r)'
    BY <2>1, <2>2, <2>5, <2>6
  <2>4. \A s \in Requetes : s # r => ChangementFidele(s)'
    BY <1>t, <1>15, EffetReste DEF Inductif, RemoveRealmRole
  <2> QED
    BY <2>3, <2>4
<1>16. ASSUME NEW r \in Requetes, AssignRealmRole(r)
       PROVE  (\A s \in Requetes : ChangementFidele(s))'
  <2> DEFINE q == req[r]
  <2>1. /\ req'[r].seule = q.seule /\ req'[r].e = q.e /\ req'[r].role = q.role
        /\ ~req'[r].ajouter /\ req'[r].reste = {}
        /\ \A s \in Requetes : s # r => req'[s] = req[s]
    BY <1>t, <1>16, EffetAjouter DEF AssignRealmRole
  <2>2. q.seule =>
          /\ \A s \in Requetes : s = r \/ Libre(s)
          /\ {} = keycloak[q.e].roles \ {q.role}
    BY <1>c, <1>16 DEF AssignRealmRole
  <2>3. keycloak'[q.e].roles = keycloak[q.e].roles \cup {q.role}
    BY <1>t, ChampsReq, <1>16 DEF AssignRealmRole, TypeOK, CompteT
  <2>4. ChangementFidele(r)'
    BY <2>1, <2>2, <2>3
  <2>5. \A s \in Requetes : s # r => ChangementFidele(s)'
    BY <1>c, <1>16, <2>1 DEF AssignRealmRole
  <2> QED
    BY <2>4, <2>5
<1>17. ASSUME NEW r \in Requetes, ChangeRoleEcrire(r)
       PROVE  (\A s \in Requetes : ChangementFidele(s))'
  BY <1>17, <1>t, <1>c, EffetRepond DEF ChangeRoleEcrire
<1>18. CASE UNCHANGED vars
  BY <1>18, <1>t, <1>c DEF vars, temoins

<1> QED
  BY <1>1, <1>2, <1>3, <1>4, <1>5, <1>6, <1>7, <1>8, <1>9, <1>10, <1>11, <1>12,
     <1>13, <1>14, <1>15, <1>16, <1>17, <1>18
     DEF Next, AuthNext, UsersNext

\* No step verifies a registered account but its link, before the first failure:
\* syncUser verifies the rows it creates, and there is one already or no token.
LEMMA VerificationPas ==
  Inductif /\ [Next]_vars => (\A c \in Comptes : VerificationFidele(c))'
<1> SUFFICES ASSUME Inductif, [Next]_vars
             PROVE  (\A c \in Comptes : VerificationFidele(c))'
  OBVIOUS
<1> USE ComptesAssumption DEF VerificationFidele, InscriptionEnCours,
           CompteConnu, TypeOK, UtilisateurT, comptes, temoins, Libre
<1>t. TypeOK
  BY DEF Inductif
<1>k. \A c \in Comptes :
        CompteConnu(c) /\ VerificationFidele(c) /\ InscriptionEnCours(c)
  BY DEF Inductif
<1>1. ASSUME NEW e \in Comptes, Connexion(e)
      PROVE  (\A c \in Comptes : VerificationFidele(c))'
  BY <1>t, ChampsReq, <1>k, <1>1 DEF Connexion
<1>2. ASSUME NEW e \in Comptes, Expire(e)
      PROVE  (\A c \in Comptes : VerificationFidele(c))'
  BY <1>t, ChampsReq, <1>k, <1>2 DEF Expire
<1>3. ASSUME NEW e \in Comptes, SyncUser(e)
      PROVE  (\A c \in Comptes : VerificationFidele(c))'
  BY <1>t, ChampsReq, <1>k, <1>3 DEF SyncUser, Synchronise
<1>4. ASSUME NEW e \in Comptes, VerifyEmail(e)
      PROVE  (\A c \in Comptes : VerificationFidele(c))'
  BY <1>t, ChampsReq, <1>k, <1>4 DEF VerifyEmail
<1>5. ASSUME NEW r \in Requetes, NEW e \in Comptes, Register(r, e)
      PROVE  (\A c \in Comptes : VerificationFidele(c))'
  BY <1>t, ChampsReq, <1>k, <1>5 DEF Register
<1>6. ASSUME NEW r \in Requetes, NEW e \in Comptes, ResendVerification(r, e)
      PROVE  (\A c \in Comptes : VerificationFidele(c))'
  BY <1>t, ChampsReq, <1>k, <1>6 DEF ResendVerification, Synchronise
<1>7. ASSUME NEW r \in Requetes, RegisterRole(r)
      PROVE  (\A c \in Comptes : VerificationFidele(c))'
  BY <1>t, ChampsReq, <1>k, <1>7 DEF RegisterRole
<1>8. ASSUME NEW r \in Requetes, RegisterLocal(r)
      PROVE  (\A c \in Comptes : VerificationFidele(c))'
  <2>1. \A c \in Comptes :
          utilisateur'[c].isVerified => utilisateur[c].isVerified
    BY <1>t, ChampsReq, <1>8 DEF RegisterLocal, NonUtilisateur
  <2> QED
    BY <1>k, <1>8, <2>1 DEF RegisterLocal
<1>9. ASSUME NEW r \in Requetes, SendVerificationEmail(r)
      PROVE  (\A c \in Comptes : VerificationFidele(c))'
  BY <1>t, ChampsReq, <1>k, <1>9 DEF SendVerificationEmail
<1>10. ASSUME NEW r \in Requetes, Panne(r)
       PROVE  (\A c \in Comptes : VerificationFidele(c))'
  BY <1>t, ChampsReq, <1>k, <1>10 DEF Panne
<1>11. ASSUME NEW r \in Requetes, NEW e \in Comptes, NEW b \in BOOLEAN,
              SetSuspended(r, e, b)
       PROVE  (\A c \in Comptes : VerificationFidele(c))'
  BY <1>t, ChampsReq, <1>k, <1>11 DEF SetSuspended
<1>12. ASSUME NEW r \in Requetes, NEW e \in Comptes, NEW role \in Roles,
              ChangeRole(r, e, role)
       PROVE  (\A c \in Comptes : VerificationFidele(c))'
  BY <1>t, ChampsReq, <1>k, <1>12 DEF ChangeRole
<1>13. ASSUME NEW r \in Requetes, SetUserEnabled(r)
       PROVE  (\A c \in Comptes : VerificationFidele(c))'
  BY <1>t, ChampsReq, <1>k, <1>13 DEF SetUserEnabled
<1>14. ASSUME NEW r \in Requetes, SetSuspendedLocal(r)
       PROVE  (\A c \in Comptes : VerificationFidele(c))'
  BY <1>t, ChampsReq, <1>k, <1>14 DEF SetSuspendedLocal
<1>15. ASSUME NEW r \in Requetes, RemoveRealmRole(r)
       PROVE  (\A c \in Comptes : VerificationFidele(c))'
  BY <1>t, ChampsReq, <1>k, <1>15 DEF RemoveRealmRole
<1>16. ASSUME NEW r \in Requetes, AssignRealmRole(r)
       PROVE  (\A c \in Comptes : VerificationFidele(c))'
  BY <1>t, ChampsReq, <1>k, <1>16 DEF AssignRealmRole
<1>17. ASSUME NEW r \in Requetes, ChangeRoleEcrire(r)
       PROVE  (\A c \in Comptes : VerificationFidele(c))'
  BY <1>t, ChampsReq, <1>k, <1>17 DEF ChangeRoleEcrire
<1>18. CASE UNCHANGED vars
  BY <1>18, <1>k DEF vars

<1> QED
  BY <1>1, <1>2, <1>3, <1>4, <1>5, <1>6, <1>7, <1>8, <1>9, <1>10, <1>11, <1>12,
     <1>13, <1>14, <1>15, <1>16, <1>17, <1>18
     DEF Next, AuthNext, UsersNext

\* A registration that does not fail ends with its row, and before that nobody
\* has a token.
LEMMA EnregistrementPas ==
  Inductif /\ [Next]_vars => (\A c \in Comptes : InscriptionEnCours(c))'
<1> SUFFICES ASSUME Inductif, [Next]_vars
             PROVE  (\A c \in Comptes : InscriptionEnCours(c))'
  OBVIOUS
<1> USE ComptesAssumption DEF InscriptionEnCours, comptes, temoins, Libre
<1>t. TypeOK
  BY DEF Inductif
<1>x. \A c \in Comptes :
        /\ keycloak[c].existe => keycloak'[c].existe
        /\ utilisateur[c].existe => utilisateur'[c].existe
  BY ExistePas
<1>i. \A s \in Requetes : RequeteConnue(s)
  BY DEF Inductif
<1>k. \A c \in Comptes : CompteConnu(c) /\ InscriptionEnCours(c)
  BY DEF Inductif
<1>1. ASSUME NEW e \in Comptes, Connexion(e)
      PROVE  (\A c \in Comptes : InscriptionEnCours(c))'
  BY <1>1, <1>t, <1>x, ChampsReq, <1>k DEF Connexion, TypeOK
<1>2. ASSUME NEW e \in Comptes, Expire(e)
      PROVE  (\A c \in Comptes : InscriptionEnCours(c))'
  BY <1>2, <1>t, <1>x, ChampsReq, <1>k DEF Expire, TypeOK
<1>3. ASSUME NEW e \in Comptes, SyncUser(e)
      PROVE  (\A c \in Comptes : InscriptionEnCours(c))'
  BY <1>3, <1>t, <1>x, ChampsReq, <1>k
  DEF SyncUser, TypeOK, UtilisateurT, Synchronise
<1>4. ASSUME NEW e \in Comptes, VerifyEmail(e)
      PROVE  (\A c \in Comptes : InscriptionEnCours(c))'
  BY <1>4, <1>t, <1>x, ChampsReq, <1>k DEF VerifyEmail
<1>5. ASSUME NEW r \in Requetes, NEW e \in Comptes, Register(r, e)
      PROVE  (\A c \in Comptes : InscriptionEnCours(c))'
  <2> DEFINE n == [pc |-> "roleClient", e |-> e, seule |-> AuRepos]
  <2>1. Commence(r, n)
    BY <1>5 DEF Register
  <2>2. req'[r] = n /\ \A s \in Requetes : s # r /\ ~Libre(s) =>
          req'[s].pc = req[s].pc /\ req'[s].e = req[s].e
    BY <1>t, <2>1, EffetCommence
  <2>3. jetons'[e] = {} /\ req'[r].pc = "roleClient" /\ req'[r].e = e
    BY <1>k, <1>5, <2>2 DEF Register, CompteConnu
  <2>4. \A c \in Comptes : c # e /\ inscrit'[c] => inscrit[c]
    BY <1>t, <1>5 DEF Register, TypeOK
  <2> QED
    BY <1>x, <1>k, <1>5, <2>1, <2>2, <2>3, <2>4, EffetCommence, <1>t
    DEF Register
<1>6. ASSUME NEW r \in Requetes, NEW e \in Comptes, ResendVerification(r, e)
      PROVE  (\A c \in Comptes : InscriptionEnCours(c))'
  <2> DEFINE n == [pc |-> "renvoi", e |-> e, seule |-> AuRepos]
  <2>1. Commence(r, n)
    BY <1>6 DEF ResendVerification
  <2> QED
    BY <1>6, <2>1, <1>t, <1>x, ChampsReq, <1>k, EffetCommence
    DEF ResendVerification
<1>7. ASSUME NEW r \in Requetes, RegisterRole(r)
      PROVE  (\A c \in Comptes : InscriptionEnCours(c))'
  BY <1>7, <1>t, <1>x, ChampsReq, <1>k, EffetVa DEF RegisterRole
<1>8. ASSUME NEW r \in Requetes, RegisterLocal(r)
      PROVE  (\A c \in Comptes : InscriptionEnCours(c))'
  <2>1. utilisateur'[req[r].e].existe
    BY <1>t, ChampsReq, <1>8
    DEF RegisterLocal, TypeOK, UtilisateurT, NonUtilisateur
  <2>2. \A s \in Requetes : s # r => req'[s] = req[s]
    BY <1>t, <1>8, EffetRepond, EffetVa DEF RegisterLocal
  <2> QED
    BY <1>x, <1>k, <1>8, <2>1, <2>2 DEF RegisterLocal
<1>9. ASSUME NEW r \in Requetes, SendVerificationEmail(r)
      PROVE  (\A c \in Comptes : InscriptionEnCours(c))'
  BY <1>9, <1>t, <1>x, ChampsReq, <1>k, EffetRepond DEF SendVerificationEmail
<1>10. ASSUME NEW r \in Requetes, Panne(r)
       PROVE  (\A c \in Comptes : InscriptionEnCours(c))'
  BY <1>10, <1>t, <1>x, ChampsReq, <1>k DEF Panne, TypeOK
<1>11. ASSUME NEW r \in Requetes, NEW e \in Comptes, NEW b \in BOOLEAN,
              SetSuspended(r, e, b)
       PROVE  (\A c \in Comptes : InscriptionEnCours(c))'
  <2> DEFINE n == [pc |-> "suspendre", e |-> e, seule |-> AuRepos,
                  suspended |-> b]
  <2>1. Commence(r, n)
    BY <1>11 DEF SetSuspended
  <2> QED
    BY <1>11, <2>1, <1>t, <1>x, ChampsReq, <1>k, EffetCommence DEF SetSuspended
<1>12. ASSUME NEW r \in Requetes, NEW e \in Comptes, NEW role \in Roles,
              ChangeRole(r, e, role)
       PROVE  (\A c \in Comptes : InscriptionEnCours(c))'
  <2> DEFINE n == [pc |-> "retirer", e |-> e, seule |-> AuRepos,
                  role |-> role,
                  reste |-> keycloak[e].roles \ {role},
                  ajouter |-> role \notin keycloak[e].roles]
  <2>1. Commence(r, n)
    BY <1>12 DEF ChangeRole
  <2> QED
    BY <1>12, <2>1, <1>t, <1>x, ChampsReq, <1>k, EffetCommence DEF ChangeRole
<1>13. ASSUME NEW r \in Requetes, SetUserEnabled(r)
       PROVE  (\A c \in Comptes : InscriptionEnCours(c))'
  BY <1>13, <1>t, <1>x, ChampsReq, <1>k, EffetVa DEF SetUserEnabled
<1>14. ASSUME NEW r \in Requetes, SetSuspendedLocal(r)
       PROVE  (\A c \in Comptes : InscriptionEnCours(c))'
  BY <1>14, <1>t, <1>x, ChampsReq, <1>k, EffetRepond DEF SetSuspendedLocal
<1>15. ASSUME NEW r \in Requetes, RemoveRealmRole(r)
       PROVE  (\A c \in Comptes : InscriptionEnCours(c))'
  BY <1>15, <1>t, <1>x, ChampsReq, <1>k, EffetReste DEF RemoveRealmRole
<1>16. ASSUME NEW r \in Requetes, AssignRealmRole(r)
       PROVE  (\A c \in Comptes : InscriptionEnCours(c))'
  BY <1>16, <1>t, <1>x, ChampsReq, <1>k, EffetAjouter DEF AssignRealmRole
<1>17. ASSUME NEW r \in Requetes, ChangeRoleEcrire(r)
       PROVE  (\A c \in Comptes : InscriptionEnCours(c))'
  BY <1>17, <1>t, <1>x, ChampsReq, <1>k, EffetRepond DEF ChangeRoleEcrire
<1>18. CASE UNCHANGED vars
  BY <1>18, <1>t, <1>x, ChampsReq, <1>k DEF vars

<1> QED
  BY <1>1, <1>2, <1>3, <1>4, <1>5, <1>6, <1>7, <1>8, <1>9, <1>10, <1>11, <1>12,
     <1>13, <1>14, <1>15, <1>16, <1>17, <1>18
     DEF Next, AuthNext, UsersNext

\* Until two requests overlap, one runs at a time.
LEMMA UneSeulePas == Inductif /\ [Next]_vars => UneSeule'
<1> SUFFICES ASSUME Inductif, [Next]_vars PROVE UneSeule'
  OBVIOUS
<1> USE ComptesAssumption DEF UneSeule, Libre, AuRepos, comptes, temoins
<1>t. TypeOK
  BY DEF Inductif
<1>s. UneSeule /\ SuspensionLocale /\ SuspensionEnCours
  BY DEF Inductif
<1>1. ASSUME NEW e \in Comptes, Connexion(e) PROVE UneSeule'
  BY <1>1, <1>t, <1>s DEF Connexion
<1>2. ASSUME NEW e \in Comptes, Expire(e) PROVE UneSeule'
  BY <1>2, <1>t, <1>s DEF Expire
<1>3. ASSUME NEW e \in Comptes, SyncUser(e) PROVE UneSeule'
  BY <1>3, <1>t, <1>s DEF SyncUser
<1>4. ASSUME NEW e \in Comptes, VerifyEmail(e) PROVE UneSeule'
  BY <1>4, <1>t, <1>s DEF VerifyEmail
<1>5. ASSUME NEW r \in Requetes, NEW e \in Comptes, Register(r, e)
      PROVE  UneSeule'
  <2> DEFINE n == [pc |-> "roleClient", e |-> e, seule |-> AuRepos]
  <2>1. Commence(r, n)
    BY <1>5 DEF Register
  <2>2. sain' => \A q \in Requetes : q # r => Libre(q)'
    BY <1>t, <2>1, EffetCommence DEF Commence
  <2> QED
    BY <2>2
<1>6. ASSUME NEW r \in Requetes, NEW e \in Comptes, ResendVerification(r, e)
      PROVE  UneSeule'
  <2> DEFINE n == [pc |-> "renvoi", e |-> e, seule |-> AuRepos]
  <2>1. Commence(r, n)
    BY <1>6 DEF ResendVerification
  <2>2. sain' => \A q \in Requetes : q # r => Libre(q)'
    BY <1>t, <2>1, EffetCommence DEF Commence
  <2> QED
    BY <2>2
<1>7. ASSUME NEW r \in Requetes, RegisterRole(r) PROVE UneSeule'
  BY <1>7, <1>t, <1>s, EffetVa DEF RegisterRole
<1>8. ASSUME NEW r \in Requetes, RegisterLocal(r) PROVE UneSeule'
  <2>1. CASE Repond(r)
    BY <1>8, <2>1, <1>t, <1>s, EffetRepond DEF RegisterLocal
  <2>2. CASE Va(r, "courriel")
    BY <1>8, <2>2, <1>t, <1>s, EffetVa DEF RegisterLocal
  <2> QED
    BY <1>8, <2>1, <2>2 DEF RegisterLocal
<1>9. ASSUME NEW r \in Requetes, SendVerificationEmail(r) PROVE UneSeule'
  BY <1>9, <1>t, <1>s, EffetRepond DEF SendVerificationEmail
<1>10. ASSUME NEW r \in Requetes, Panne(r) PROVE UneSeule'
  BY <1>10, <1>t, <1>s, EffetRepond DEF Panne
<1>11. ASSUME NEW r \in Requetes, NEW e \in Comptes, NEW b \in BOOLEAN,
              SetSuspended(r, e, b)
       PROVE  UneSeule'
  <2> DEFINE n == [pc |-> "suspendre", e |-> e, seule |-> AuRepos,
                  suspended |-> b]
  <2>1. Commence(r, n)
    BY <1>11 DEF SetSuspended
  <2>2. sain' => \A q \in Requetes : q # r => Libre(q)'
    BY <1>t, <2>1, EffetCommence DEF Commence
  <2> QED
    BY <2>2
<1>12. ASSUME NEW r \in Requetes, NEW e \in Comptes, NEW role \in Roles,
              ChangeRole(r, e, role)
       PROVE  UneSeule'
  <2> DEFINE n == [pc |-> "retirer", e |-> e, seule |-> AuRepos,
                  role |-> role,
                  reste |-> keycloak[e].roles \ {role},
                  ajouter |-> role \notin keycloak[e].roles]
  <2>1. Commence(r, n)
    BY <1>12 DEF ChangeRole
  <2>2. sain' => \A q \in Requetes : q # r => Libre(q)'
    BY <1>t, <2>1, EffetCommence DEF Commence
  <2> QED
    BY <2>2
<1>13. ASSUME NEW r \in Requetes, SetUserEnabled(r) PROVE UneSeule'
  BY <1>13, <1>t, <1>s, EffetVa DEF SetUserEnabled
<1>14. ASSUME NEW r \in Requetes, SetSuspendedLocal(r) PROVE UneSeule'
  BY <1>14, <1>t, <1>s, EffetRepond DEF SetSuspendedLocal
<1>15. ASSUME NEW r \in Requetes, RemoveRealmRole(r) PROVE UneSeule'
  BY <1>15, <1>t, <1>s, EffetReste DEF RemoveRealmRole
<1>16. ASSUME NEW r \in Requetes, AssignRealmRole(r) PROVE UneSeule'
  BY <1>16, <1>t, <1>s, EffetAjouter DEF AssignRealmRole
<1>17. ASSUME NEW r \in Requetes, ChangeRoleEcrire(r) PROVE UneSeule'
  BY <1>17, <1>t, <1>s, EffetRepond DEF ChangeRoleEcrire
<1>18. CASE UNCHANGED vars
  BY <1>18, <1>t, <1>s DEF vars

<1> QED
  BY <1>1, <1>2, <1>3, <1>4, <1>5, <1>6, <1>7, <1>8, <1>9, <1>10, <1>11, <1>12,
     <1>13, <1>14, <1>15, <1>16, <1>17, <1>18
     DEF Next, AuthNext, UsersNext

\* Keycloak is told before the row of a suspension is written.
LEMMA SuspensionLocalePas == Inductif /\ [Next]_vars => SuspensionLocale'
<1> SUFFICES ASSUME Inductif, [Next]_vars PROVE SuspensionLocale'
  OBVIOUS
<1> USE ComptesAssumption DEF SuspensionLocale, Libre
<1>t. TypeOK
  BY DEF Inductif
<1>s. UneSeule /\ SuspensionLocale /\ SuspensionEnCours
  BY DEF Inductif
<1>u. sain => \A p, q \in Requetes : p = q \/ Libre(p) \/ Libre(q)
  BY <1>s DEF UneSeule
<1>v. sain => \A p \in Requetes : req[p].pc = "suspendreLocal" =>
        (req[p].suspended <=> ~keycloak[req[p].e].enabled)
  BY <1>s
<1>w. sain => \A e \in Comptes : utilisateur[e].existe =>
        \/ utilisateur[e].isSuspended <=> ~keycloak[e].enabled
        \/ \E p \in Requetes : req[p].pc = "suspendreLocal" /\ req[p].e = e
  BY <1>s DEF SuspensionEnCours
<1>k. \A c \in Comptes : CompteConnu(c)
  BY DEF Inductif
<1>i. \A p \in Requetes : RequeteConnue(p)
  BY DEF Inductif
<1>1. ASSUME NEW e \in Comptes, Connexion(e) PROVE SuspensionLocale'
  BY <1>1, <1>t, ChampsReq, <1>u, <1>v DEF Connexion, comptes, temoins
<1>2. ASSUME NEW e \in Comptes, Expire(e) PROVE SuspensionLocale'
  BY <1>2, <1>t, ChampsReq, <1>u, <1>v DEF Expire, comptes, temoins
<1>3. ASSUME NEW e \in Comptes, SyncUser(e) PROVE SuspensionLocale'
  BY <1>3, <1>t, ChampsReq, <1>u, <1>v DEF SyncUser, comptes, temoins
<1>4. ASSUME NEW e \in Comptes, VerifyEmail(e) PROVE SuspensionLocale'
  BY <1>4, <1>t, ChampsReq, <1>u, <1>v DEF VerifyEmail, comptes, temoins
<1>5. ASSUME NEW r \in Requetes, NEW e \in Comptes, Register(r, e)
      PROVE  SuspensionLocale'
  <2> DEFINE n == [pc |-> "roleClient", e |-> e, seule |-> AuRepos]
  <2>1. Commence(r, n)
    BY <1>5 DEF Register
  <2>2. req'[r].pc # "suspendreLocal"
    BY <1>t, <2>1, EffetCommence
  <2>3. sain' =>
          /\ sain
          /\ \A q \in Requetes : Libre(q)
          /\ \A q \in Requetes : q # r => Libre(q)'
    BY <1>t, <2>1, EffetCommence DEF Commence, AuRepos
  <2> QED
    BY <2>2, <2>3
<1>6. ASSUME NEW r \in Requetes, NEW e \in Comptes, ResendVerification(r, e)
      PROVE  SuspensionLocale'
  <2> DEFINE n == [pc |-> "renvoi", e |-> e, seule |-> AuRepos]
  <2>1. Commence(r, n)
    BY <1>6 DEF ResendVerification
  <2>2. req'[r].pc # "suspendreLocal"
    BY <1>t, <2>1, EffetCommence
  <2>3. sain' =>
          /\ sain
          /\ \A q \in Requetes : Libre(q)
          /\ \A q \in Requetes : q # r => Libre(q)'
    BY <1>t, <2>1, EffetCommence DEF Commence, AuRepos
  <2> QED
    BY <2>2, <2>3
<1>7. ASSUME NEW r \in Requetes, RegisterRole(r) PROVE SuspensionLocale'
  <2>1. req'[r].pc # "suspendreLocal"
    BY <1>t, <1>7, EffetVa DEF RegisterRole
  <2>2. /\ ~Libre(r) /\ sain' = sain
        /\ \A q \in Requetes : q # r => req'[q] = req[q]
    BY <1>t, <1>7, EffetVa DEF RegisterRole
  <2> QED
    BY <1>u, <2>1, <2>2
<1>8. ASSUME NEW r \in Requetes, RegisterLocal(r) PROVE SuspensionLocale'
  <2>1. req'[r].pc # "suspendreLocal"
    BY <1>t, <1>8, EffetRepond, EffetVa DEF RegisterLocal
  <2>2. /\ ~Libre(r) /\ sain' = sain
        /\ \A q \in Requetes : q # r => req'[q] = req[q]
    BY <1>t, <1>8, EffetRepond, EffetVa DEF RegisterLocal
  <2> QED
    BY <1>u, <2>1, <2>2
<1>9. ASSUME NEW r \in Requetes, SendVerificationEmail(r)
      PROVE  SuspensionLocale'
  <2>1. req'[r].pc # "suspendreLocal"
    BY <1>t, <1>9, EffetRepond DEF SendVerificationEmail
  <2>2. /\ ~Libre(r) /\ sain' = sain
        /\ \A q \in Requetes : q # r => req'[q] = req[q]
    BY <1>t, <1>9, EffetRepond DEF SendVerificationEmail
  <2> QED
    BY <1>u, <2>1, <2>2
<1>10. ASSUME NEW r \in Requetes, Panne(r) PROVE SuspensionLocale'
  BY <1>10 DEF Panne
<1>11. ASSUME NEW r \in Requetes, NEW e \in Comptes, NEW b \in BOOLEAN,
              SetSuspended(r, e, b)
       PROVE  SuspensionLocale'
  <2> DEFINE n == [pc |-> "suspendre", e |-> e, seule |-> AuRepos,
                  suspended |-> b]
  <2>1. Commence(r, n)
    BY <1>11 DEF SetSuspended
  <2>2. req'[r].pc # "suspendreLocal"
    BY <1>t, <2>1, EffetCommence
  <2>3. sain' =>
          /\ sain
          /\ \A q \in Requetes : Libre(q)
          /\ \A q \in Requetes : q # r => Libre(q)'
    BY <1>t, <2>1, EffetCommence DEF Commence, AuRepos
  <2> QED
    BY <2>2, <2>3
<1>12. ASSUME NEW r \in Requetes, NEW e \in Comptes, NEW role \in Roles,
              ChangeRole(r, e, role)
       PROVE  SuspensionLocale'
  <2> DEFINE n == [pc |-> "retirer", e |-> e, seule |-> AuRepos,
                  role |-> role,
                  reste |-> keycloak[e].roles \ {role},
                  ajouter |-> role \notin keycloak[e].roles]
  <2>1. Commence(r, n)
    BY <1>12 DEF ChangeRole
  <2>2. req'[r].pc # "suspendreLocal"
    BY <1>t, <2>1, EffetCommence
  <2>3. sain' =>
          /\ sain
          /\ \A q \in Requetes : Libre(q)
          /\ \A q \in Requetes : q # r => Libre(q)'
    BY <1>t, <2>1, EffetCommence DEF Commence, AuRepos
  <2> QED
    BY <2>2, <2>3
<1>13. ASSUME NEW r \in Requetes, SetUserEnabled(r) PROVE SuspensionLocale'
  <2>1. /\ req'[r].pc = "suspendreLocal" /\ req'[r].e = req[r].e
        /\ req'[r].suspended = req[r].suspended
    BY <1>t, <1>13, EffetVa DEF SetUserEnabled
  <2>2. /\ ~Libre(r) /\ sain' = sain
        /\ \A q \in Requetes : q # r => req'[q] = req[q]
    BY <1>t, <1>13, EffetVa DEF SetUserEnabled
  <2>3. req[r].suspended <=> ~keycloak'[req[r].e].enabled
    BY <1>t, ChampsReq, <1>13 DEF SetUserEnabled, TypeOK, CompteT
  <2> QED
    BY <1>u, <2>1, <2>2, <2>3, ChampsReq, <1>13 DEF SetUserEnabled
<1>14. ASSUME NEW r \in Requetes, SetSuspendedLocal(r) PROVE SuspensionLocale'
  <2>1. req'[r].pc # "suspendreLocal"
    BY <1>t, <1>14, EffetRepond DEF SetSuspendedLocal
  <2>2. /\ ~Libre(r) /\ sain' = sain
        /\ \A q \in Requetes : q # r => req'[q] = req[q]
    BY <1>t, <1>14, EffetRepond DEF SetSuspendedLocal
  <2> QED
    BY <1>u, <2>1, <2>2
<1>15. ASSUME NEW r \in Requetes, RemoveRealmRole(r) PROVE SuspensionLocale'
  <2>1. req'[r].pc # "suspendreLocal"
    BY <1>t, <1>15, EffetReste DEF RemoveRealmRole
  <2>2. /\ ~Libre(r) /\ sain' = sain
        /\ \A q \in Requetes : q # r => req'[q] = req[q]
    BY <1>t, <1>15, EffetReste DEF RemoveRealmRole
  <2> QED
    BY <1>u, <2>1, <2>2
<1>16. ASSUME NEW r \in Requetes, AssignRealmRole(r) PROVE SuspensionLocale'
  <2>1. req'[r].pc # "suspendreLocal"
    BY <1>t, <1>16, EffetAjouter DEF AssignRealmRole
  <2>2. /\ ~Libre(r) /\ sain' = sain
        /\ \A q \in Requetes : q # r => req'[q] = req[q]
    BY <1>t, <1>16, EffetAjouter DEF AssignRealmRole
  <2> QED
    BY <1>u, <2>1, <2>2
<1>17. ASSUME NEW r \in Requetes, ChangeRoleEcrire(r) PROVE SuspensionLocale'
  <2>1. req'[r].pc # "suspendreLocal"
    BY <1>t, <1>17, EffetRepond DEF ChangeRoleEcrire
  <2>2. /\ ~Libre(r) /\ sain' = sain
        /\ \A q \in Requetes : q # r => req'[q] = req[q]
    BY <1>t, <1>17, EffetRepond DEF ChangeRoleEcrire
  <2> QED
    BY <1>u, <2>1, <2>2
<1>18. CASE UNCHANGED vars
  BY <1>18, <1>t, ChampsReq, <1>u, <1>v
  DEF vars, comptes, temoins, comptes, temoins

<1> QED
  BY <1>1, <1>2, <1>3, <1>4, <1>5, <1>6, <1>7, <1>8, <1>9, <1>10, <1>11, <1>12,
     <1>13, <1>14, <1>15, <1>16, <1>17, <1>18
     DEF Next, AuthNext, UsersNext

\* No step makes Keycloak and a row differ, but the suspension that is running.
LEMMA SuspensionsPas == Inductif /\ [Next]_vars => SuspensionEnCours'
<1> SUFFICES ASSUME Inductif, [Next]_vars PROVE SuspensionEnCours'
  OBVIOUS
<1> USE ComptesAssumption DEF SuspensionEnCours, TypeOK, CompteT, UtilisateurT,
           Libre, comptes, CompteConnu, RequeteConnue
<1>t. TypeOK
  BY DEF Inductif
<1>s. UneSeule /\ SuspensionLocale /\ SuspensionEnCours
  BY DEF Inductif
<1>u. sain => \A p, q \in Requetes : p = q \/ Libre(p) \/ Libre(q)
  BY <1>s DEF UneSeule
<1>v. sain => \A p \in Requetes : req[p].pc = "suspendreLocal" =>
        (req[p].suspended <=> ~keycloak[req[p].e].enabled)
  BY <1>s DEF SuspensionLocale
<1>w. sain => \A e \in Comptes : utilisateur[e].existe =>
        \/ utilisateur[e].isSuspended <=> ~keycloak[e].enabled
        \/ \E p \in Requetes : req[p].pc = "suspendreLocal" /\ req[p].e = e
  BY <1>s
<1>k. \A c \in Comptes : CompteConnu(c)
  BY DEF Inductif
<1>i. \A p \in Requetes : RequeteConnue(p)
  BY DEF Inductif
<1>1. ASSUME NEW e \in Comptes, Connexion(e) PROVE SuspensionEnCours'
  <2>1. \A c \in Comptes :
          /\ utilisateur'[c].isSuspended = utilisateur[c].isSuspended
          /\ keycloak'[c].enabled = keycloak[c].enabled
          /\ utilisateur'[c].existe /\ ~utilisateur[c].existe =>
               ~utilisateur'[c].isSuspended /\ keycloak'[c].enabled
    BY <1>t, ChampsReq, <1>k, <1>i, <1>1 DEF Connexion
  <2> QED
    BY <1>w, <1>1, <2>1 DEF Connexion
<1>2. ASSUME NEW e \in Comptes, Expire(e) PROVE SuspensionEnCours'
  <2>1. \A c \in Comptes :
          /\ utilisateur'[c].isSuspended = utilisateur[c].isSuspended
          /\ keycloak'[c].enabled = keycloak[c].enabled
          /\ utilisateur'[c].existe /\ ~utilisateur[c].existe =>
               ~utilisateur'[c].isSuspended /\ keycloak'[c].enabled
    BY <1>t, ChampsReq, <1>k, <1>i, <1>2 DEF Expire
  <2> QED
    BY <1>w, <1>2, <2>1 DEF Expire
<1>3. ASSUME NEW e \in Comptes, SyncUser(e) PROVE SuspensionEnCours'
  <2>1. \A c \in Comptes :
          /\ utilisateur'[c].isSuspended = utilisateur[c].isSuspended
          /\ keycloak'[c].enabled = keycloak[c].enabled
          /\ utilisateur'[c].existe /\ ~utilisateur[c].existe =>
               ~utilisateur'[c].isSuspended /\ keycloak'[c].enabled
    BY <1>t, ChampsReq, <1>k, <1>i, <1>3 DEF SyncUser, Synchronise
  <2> QED
    BY <1>w, <1>3, <2>1 DEF SyncUser
<1>4. ASSUME NEW e \in Comptes, VerifyEmail(e) PROVE SuspensionEnCours'
  <2>1. \A c \in Comptes :
          /\ utilisateur'[c].isSuspended = utilisateur[c].isSuspended
          /\ keycloak'[c].enabled = keycloak[c].enabled
          /\ utilisateur'[c].existe /\ ~utilisateur[c].existe =>
               ~utilisateur'[c].isSuspended /\ keycloak'[c].enabled
    BY <1>t, ChampsReq, <1>k, <1>i, <1>4 DEF VerifyEmail
  <2> QED
    BY <1>w, <1>4, <2>1 DEF VerifyEmail
<1>5. ASSUME NEW r \in Requetes, NEW e \in Comptes, Register(r, e)
      PROVE  SuspensionEnCours'
  <2> DEFINE n == [pc |-> "roleClient", e |-> e, seule |-> AuRepos]
  <2>1. Commence(r, n)
    BY <1>5 DEF Register
  <2>2. req'[r].pc # "suspendreLocal"
    BY <1>t, <2>1, EffetCommence
  <2>3. sain' =>
          /\ sain
          /\ \A q \in Requetes : Libre(q)
          /\ \A q \in Requetes : q # r => Libre(q)'
    BY <1>t, <2>1, EffetCommence DEF Commence, AuRepos
  <2>4. utilisateur' = utilisateur /\ ~utilisateur[e].existe
    BY <1>k, <1>5 DEF Register
  <2>5. \A c \in Comptes : c # e => keycloak'[c] = keycloak[c]
    BY <1>t, <1>5 DEF Register
  <2> QED
    BY <1>w, <2>3, <2>4, <2>5
<1>6. ASSUME NEW r \in Requetes, NEW e \in Comptes, ResendVerification(r, e)
      PROVE  SuspensionEnCours'
  <2> DEFINE n == [pc |-> "renvoi", e |-> e, seule |-> AuRepos]
  <2>1. Commence(r, n)
    BY <1>6 DEF ResendVerification
  <2>2. req'[r].pc # "suspendreLocal"
    BY <1>t, <2>1, EffetCommence
  <2>3. sain' =>
          /\ sain
          /\ \A q \in Requetes : Libre(q)
          /\ \A q \in Requetes : q # r => Libre(q)'
    BY <1>t, <2>1, EffetCommence DEF Commence, AuRepos
  <2>4. \A c \in Comptes :
          /\ utilisateur'[c].isSuspended = utilisateur[c].isSuspended
          /\ keycloak'[c].enabled = keycloak[c].enabled
          /\ utilisateur'[c].existe /\ ~utilisateur[c].existe =>
               ~utilisateur'[c].isSuspended /\ keycloak'[c].enabled
    BY <1>t, ChampsReq, <1>k, <1>i, <1>6 DEF ResendVerification, Synchronise
  <2> QED
    BY <1>w, <2>3, <2>4
<1>7. ASSUME NEW r \in Requetes, RegisterRole(r) PROVE SuspensionEnCours'
  <2>1. /\ req[r].pc # "suspendreLocal" /\ sain' = sain
        /\ \A q \in Requetes : q # r => req'[q] = req[q]
    BY <1>t, <1>7, EffetVa DEF RegisterRole
  <2>2. \A c \in Comptes :
          /\ utilisateur'[c].isSuspended = utilisateur[c].isSuspended
          /\ keycloak'[c].enabled = keycloak[c].enabled
          /\ utilisateur'[c].existe /\ ~utilisateur[c].existe =>
               ~utilisateur'[c].isSuspended /\ keycloak'[c].enabled
    BY <1>t, ChampsReq, <1>k, <1>i, <1>7 DEF RegisterRole
  <2> QED
    BY <1>w, <2>1, <2>2
<1>8. ASSUME NEW r \in Requetes, RegisterLocal(r) PROVE SuspensionEnCours'
  <2>1. /\ req[r].pc # "suspendreLocal" /\ sain' = sain
        /\ \A q \in Requetes : q # r => req'[q] = req[q]
    BY <1>t, <1>8, EffetRepond, EffetVa DEF RegisterLocal
  <2>2. \A c \in Comptes :
          /\ utilisateur'[c].isSuspended = utilisateur[c].isSuspended
          /\ keycloak'[c].enabled = keycloak[c].enabled
          /\ utilisateur'[c].existe /\ ~utilisateur[c].existe =>
               ~utilisateur'[c].isSuspended /\ keycloak'[c].enabled
    <3> DEFINE e == req[r].e
    <3>1. e \in Comptes /\ keycloak[e].existe /\ keycloak' = keycloak
      BY ChampsReq, <1>i, <1>8 DEF RegisterLocal
    <3>2. \A c \in Comptes : c # e \/ utilisateur[c].existe =>
            utilisateur'[c] = utilisateur[c]
      BY <1>t, <1>8 DEF RegisterLocal
    <3>3. ~utilisateur[e].existe => utilisateur'[e].isSuspended = FALSE
      BY <1>t, <1>8, <3>1 DEF RegisterLocal, NonUtilisateur
    <3>4. ~utilisateur[e].existe =>
            utilisateur[e].isSuspended = FALSE /\ keycloak[e].enabled
      BY <1>t, <1>k, <3>1
    <3> QED
      BY <3>1, <3>2, <3>3, <3>4
  <2> QED
    BY <1>w, <2>1, <2>2
<1>9. ASSUME NEW r \in Requetes, SendVerificationEmail(r)
      PROVE  SuspensionEnCours'
  <2>1. /\ req[r].pc # "suspendreLocal" /\ sain' = sain
        /\ \A q \in Requetes : q # r => req'[q] = req[q]
    BY <1>t, <1>9, EffetRepond DEF SendVerificationEmail
  <2>2. \A c \in Comptes :
          /\ utilisateur'[c].isSuspended = utilisateur[c].isSuspended
          /\ keycloak'[c].enabled = keycloak[c].enabled
          /\ utilisateur'[c].existe /\ ~utilisateur[c].existe =>
               ~utilisateur'[c].isSuspended /\ keycloak'[c].enabled
    BY <1>t, ChampsReq, <1>k, <1>i, <1>9 DEF SendVerificationEmail
  <2> QED
    BY <1>w, <2>1, <2>2
<1>10. ASSUME NEW r \in Requetes, Panne(r) PROVE SuspensionEnCours'
  BY <1>10 DEF Panne
<1>11. ASSUME NEW r \in Requetes, NEW e \in Comptes, NEW b \in BOOLEAN,
              SetSuspended(r, e, b)
       PROVE  SuspensionEnCours'
  <2> DEFINE n == [pc |-> "suspendre", e |-> e, seule |-> AuRepos,
                  suspended |-> b]
  <2>1. Commence(r, n)
    BY <1>11 DEF SetSuspended
  <2>2. req'[r].pc # "suspendreLocal"
    BY <1>t, <2>1, EffetCommence
  <2>3. sain' =>
          /\ sain
          /\ \A q \in Requetes : Libre(q)
          /\ \A q \in Requetes : q # r => Libre(q)'
    BY <1>t, <2>1, EffetCommence DEF Commence, AuRepos
  <2>4. \A c \in Comptes :
          /\ utilisateur'[c].isSuspended = utilisateur[c].isSuspended
          /\ keycloak'[c].enabled = keycloak[c].enabled
          /\ utilisateur'[c].existe /\ ~utilisateur[c].existe =>
               ~utilisateur'[c].isSuspended /\ keycloak'[c].enabled
    BY <1>t, ChampsReq, <1>k, <1>i, <1>11 DEF SetSuspended
  <2> QED
    BY <1>w, <2>3, <2>4
<1>12. ASSUME NEW r \in Requetes, NEW e \in Comptes, NEW role \in Roles,
              ChangeRole(r, e, role)
       PROVE  SuspensionEnCours'
  <2> DEFINE n == [pc |-> "retirer", e |-> e, seule |-> AuRepos,
                  role |-> role,
                  reste |-> keycloak[e].roles \ {role},
                  ajouter |-> role \notin keycloak[e].roles]
  <2>1. Commence(r, n)
    BY <1>12 DEF ChangeRole
  <2>2. req'[r].pc # "suspendreLocal"
    BY <1>t, <2>1, EffetCommence
  <2>3. sain' =>
          /\ sain
          /\ \A q \in Requetes : Libre(q)
          /\ \A q \in Requetes : q # r => Libre(q)'
    BY <1>t, <2>1, EffetCommence DEF Commence, AuRepos
  <2>4. \A c \in Comptes :
          /\ utilisateur'[c].isSuspended = utilisateur[c].isSuspended
          /\ keycloak'[c].enabled = keycloak[c].enabled
          /\ utilisateur'[c].existe /\ ~utilisateur[c].existe =>
               ~utilisateur'[c].isSuspended /\ keycloak'[c].enabled
    BY <1>t, ChampsReq, <1>k, <1>i, <1>12 DEF ChangeRole
  <2> QED
    BY <1>w, <2>3, <2>4
<1>13. ASSUME NEW r \in Requetes, SetUserEnabled(r) PROVE SuspensionEnCours'
  <2>1. req'[r].pc = "suspendreLocal" /\ req'[r].e = req[r].e
    BY <1>t, <1>13, EffetVa DEF SetUserEnabled
  <2>2. utilisateur' = utilisateur /\ sain' = sain
    BY <1>13 DEF SetUserEnabled
  <2>3. \A c \in Comptes : c # req[r].e => keycloak'[c] = keycloak[c]
    BY <1>t, <1>13 DEF SetUserEnabled
  <2>4. sain => \A p \in Requetes : req[p].pc # "suspendreLocal"
    BY <1>u, <1>13 DEF SetUserEnabled
  <2> QED
    BY <1>w, <2>1, <2>2, <2>3, <2>4
<1>14. ASSUME NEW r \in Requetes, SetSuspendedLocal(r) PROVE SuspensionEnCours'
  <2> DEFINE e == req[r].e
  <2>1. utilisateur'[e].isSuspended = req[r].suspended /\ keycloak' = keycloak
    BY <1>t, ChampsReq, <1>14 DEF SetSuspendedLocal
  <2>2. \A c \in Comptes : c # e => utilisateur'[c] = utilisateur[c]
    BY <1>t, <1>14 DEF SetSuspendedLocal
  <2>3. sain =>
          /\ req[r].suspended <=> ~keycloak[e].enabled
          /\ \A p \in Requetes : req[p].pc = "suspendreLocal" => p = r
    BY <1>u, <1>v, <1>14 DEF SetSuspendedLocal
  <2>4. sain' = sain
    BY <1>14 DEF SetSuspendedLocal
  <2> QED
    BY <1>w, <2>1, <2>2, <2>3, <2>4
<1>15. ASSUME NEW r \in Requetes, RemoveRealmRole(r) PROVE SuspensionEnCours'
  <2>1. /\ req[r].pc # "suspendreLocal" /\ sain' = sain
        /\ \A q \in Requetes : q # r => req'[q] = req[q]
    BY <1>t, <1>15, EffetReste DEF RemoveRealmRole
  <2>2. \A c \in Comptes :
          /\ utilisateur'[c].isSuspended = utilisateur[c].isSuspended
          /\ keycloak'[c].enabled = keycloak[c].enabled
          /\ utilisateur'[c].existe /\ ~utilisateur[c].existe =>
               ~utilisateur'[c].isSuspended /\ keycloak'[c].enabled
    BY <1>t, ChampsReq, <1>k, <1>i, <1>15 DEF RemoveRealmRole
  <2> QED
    BY <1>w, <2>1, <2>2
<1>16. ASSUME NEW r \in Requetes, AssignRealmRole(r) PROVE SuspensionEnCours'
  <2>1. /\ req[r].pc # "suspendreLocal" /\ sain' = sain
        /\ \A q \in Requetes : q # r => req'[q] = req[q]
    BY <1>t, <1>16, EffetAjouter DEF AssignRealmRole
  <2>2. \A c \in Comptes :
          /\ utilisateur'[c].isSuspended = utilisateur[c].isSuspended
          /\ keycloak'[c].enabled = keycloak[c].enabled
          /\ utilisateur'[c].existe /\ ~utilisateur[c].existe =>
               ~utilisateur'[c].isSuspended /\ keycloak'[c].enabled
    BY <1>t, ChampsReq, <1>k, <1>i, <1>16 DEF AssignRealmRole
  <2> QED
    BY <1>w, <2>1, <2>2
<1>17. ASSUME NEW r \in Requetes, ChangeRoleEcrire(r) PROVE SuspensionEnCours'
  <2>1. /\ req[r].pc # "suspendreLocal" /\ sain' = sain
        /\ \A q \in Requetes : q # r => req'[q] = req[q]
    BY <1>t, <1>17, EffetRepond DEF ChangeRoleEcrire
  <2>2. \A c \in Comptes :
          /\ utilisateur'[c].isSuspended = utilisateur[c].isSuspended
          /\ keycloak'[c].enabled = keycloak[c].enabled
          /\ utilisateur'[c].existe /\ ~utilisateur[c].existe =>
               ~utilisateur'[c].isSuspended /\ keycloak'[c].enabled
    BY <1>t, ChampsReq, <1>k, <1>i, <1>17 DEF ChangeRoleEcrire
  <2> QED
    BY <1>w, <2>1, <2>2
<1>18. CASE UNCHANGED vars
  BY <1>18, <1>w DEF vars

<1> QED
  BY <1>1, <1>2, <1>3, <1>4, <1>5, <1>6, <1>7, <1>8, <1>9, <1>10, <1>11, <1>12,
     <1>13, <1>14, <1>15, <1>16, <1>17, <1>18
     DEF Next, AuthNext, UsersNext

\* The imported realm satisfies the invariant.
LEMMA InitInductif == Init => Inductif
<1> SUFFICES ASSUME Init PROVE Inductif
  OBVIOUS
<1>1. PICK deja \in SUBSET Comptes, role \in Roles :
        keycloak = [e \in Comptes |->
          IF e \in deja
            THEN [existe |-> TRUE, enabled |-> TRUE, roles |-> {role}]
            ELSE NonCompte]
  BY DEF Init
<1>2. keycloak \in [Comptes -> CompteT]
  BY <1>1 DEF CompteT, NonCompte
<1>a. NonUtilisateur \in UtilisateurT
  BY DEF NonUtilisateur, UtilisateurT, Roles
<1>b. [pc |-> "libre"] \in RequeteT
  BY DEF RequeteT
<1>c. pannes \in 0 .. MaxPannes
  BY ComptesAssumption DEF Init
<1>d. /\ req \in [Requetes -> RequeteT]
      /\ utilisateur \in [Comptes -> UtilisateurT]
  BY <1>a, <1>b DEF Init
<1>3. TypeOK
  BY <1>2, <1>c, <1>d DEF Init, TypeOK
<1>4. \A c \in Comptes : CompteConnu(c)
  BY <1>1 DEF Init, CompteConnu, NonCompte, NonUtilisateur
<1>5. \A e \in Comptes : VerificationFidele(e) /\ InscriptionEnCours(e)
  BY DEF Init, VerificationFidele, InscriptionEnCours
<1>6. \A r \in Requetes : Libre(r) /\ RequeteConnue(r) /\ ChangementFidele(r)
  BY DEF Init, RequeteConnue, ChangementFidele, Libre
<1>7. UneSeule /\ SuspensionLocale
  BY <1>6 DEF UneSeule, SuspensionLocale, Libre
<1>8. SuspensionEnCours
  BY DEF Init, SuspensionEnCours, NonUtilisateur
<1> QED
  BY <1>3, <1>4, <1>5, <1>6, <1>7, <1>8 DEF Inductif

\* Every step of a request, a person or Keycloak keeps it.
LEMMA InductifPas == Inductif /\ [Next]_vars => Inductif'
BY TypesPas, ConnuPas, VerificationPas, EnregistrementPas, RequetesConnuesPas,
   ChangementsPas, UneSeulePas, SuspensionLocalePas, SuspensionsPas
DEF Inductif

\* Whatever an account request found when it started or wrote last is still
\* true when it goes on, for any number of accounts, requests and failures.
THEOREM InductifVrai == Spec => []Inductif
BY InitInductif, InductifPas, PTL DEF Spec

\* Accounts, rows, tokens and requests keep their types; a row always has one
\* of the three roles (resolveRoleName, auth.service.ts:155).
THEOREM TypeCorrect == Spec => []TypeOK
<1>1. Inductif => TypeOK
  BY DEF Inductif
<1> QED
  BY <1>1, InductifVrai, PTL

\* While requests come one at a time and none dies, the local suspension and
\* Keycloak agree at rest (setSuspended, users.service.ts:34).
THEOREM SuspensionFideleVrai == Spec => []SuspensionFidele
<1>1. Inductif => SuspensionFidele
  BY DEF Inductif, SuspensionEnCours, SuspensionFidele, AuRepos, Libre
<1> QED
  BY <1>1, InductifVrai, PTL

\* Before the first failure, only the link verifies an account made by register
\* (auth.service.ts:50): the finding CommandeBloquee needs a failure.
THEOREM VerifieParLienVrai == Spec => []VerifieParLien
<1>1. Inductif => VerifieParLien
  BY DEF Inductif, VerificationFidele, VerifieParLien
<1> QED
  BY <1>1, InductifVrai, PTL

\* A change of role that ran beside no other request leaves that role alone in
\* Keycloak, whatever was there before (changeRole, users.service.ts:45).
THEOREM ChangementCompletVrai == Spec => ChangementComplet
<1>1. ASSUME Inductif,
             NEW r \in Requetes, ChangeRoleEcrire(r), req[r].seule
      PROVE  keycloak[req[r].e].roles = {req[r].role}
  <2>1. req[r].reste = {} /\ ~req[r].ajouter /\ req[r].pc = "retirer"
    BY <1>1 DEF ChangeRoleEcrire
  <2>2. /\ keycloak[req[r].e].roles \ {req[r].role} = {}
        /\ req[r].role \in keycloak[req[r].e].roles
    BY <1>1, <2>1 DEF Inductif, ChangementFidele
  <2> QED
    BY <2>2
<1>2. Inductif =>
        [\A r \in Requetes :
           ChangeRoleEcrire(r) /\ req[r].seule =>
             keycloak[req[r].e].roles = {req[r].role}]_vars
  BY <1>1
<1> QED
  BY <1>2, InductifVrai, PTL DEF ChangementComplet
=============================================================================
