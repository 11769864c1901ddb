---------------------------- MODULE AuthService -----------------------------
(***************************************************************************)
(* backend/src/auth/auth.service.ts: accounts live in Keycloak and have a  *)
(* copy in table Utilisateur, made at registration or at the first         *)
(* authenticated request.  An access token holds the roles the account had *)
(* in Keycloak when it was issued.  Each call to Keycloak's admin API and  *)
(* each write of a table is a step.  Names, which syncUser copies as it    *)
(* does roles, addresses and passwords are left out, and updateProfile     *)
(* with them.                                                              *)
(***************************************************************************)
EXTENDS Integers, FiniteSets

CONSTANTS
  Comptes,     \* e-mail addresses, which identify accounts in Keycloak
  Requetes,    \* slots for HTTP requests running at the same time
  MaxJetons,   \* bound: access tokens of an account valid at the same time
  MaxPannes    \* bound: requests that die before they finish

Roles == {"admin", "livreur", "client"}

ASSUME ComptesAssumption ==
  /\ MaxJetons \in Nat
  /\ MaxPannes \in Nat

VARIABLES
  keycloak,     \* the accounts in Keycloak
  utilisateur,  \* table Utilisateur
  jetons,       \* the access tokens of each account that have not expired
  lien,         \* a verification link was sent to the account's address
  confirme,     \* the person followed it
  inscrit,      \* the account was made by register
  req,          \* the running requests
  pannes,       \* requests that died so far
  sain          \* no request overlapped another one or died, so far

comptes == <<keycloak, utilisateur, jetons>>
temoins == <<confirme, inscrit>>
vars == <<comptes, lien, temoins, req, pannes, sain>>

NonCompte == [existe |-> FALSE, enabled |-> FALSE, roles |-> {}]
NonUtilisateur == [existe |-> FALSE, isVerified |-> FALSE, role |-> "client",
                   isSuspended |-> FALSE]

\* Some accounts were there before the shop: the realm Keycloak imports.
Init ==
  /\ \E deja \in SUBSET Comptes, role \in Roles :
       keycloak = [e \in Comptes |->
         IF e \in deja THEN [existe |-> TRUE, enabled |-> TRUE, roles |-> {role}]
                       ELSE NonCompte]
  /\ utilisateur = [e \in Comptes |-> NonUtilisateur]
  /\ jetons = [e \in Comptes |-> {}]
  /\ lien = [e \in Comptes |-> FALSE]
  /\ confirme = [e \in Comptes |-> FALSE]
  /\ inscrit = [e \in Comptes |-> FALSE]
  /\ req = [r \in Requetes |-> [pc |-> "libre"]]
  /\ pannes = 0
  /\ sain = TRUE

----------------------------------------------------------------------------
Libre(r) == req[r].pc = "libre"
AuRepos == \A r \in Requetes : Libre(r)
Va(r, pc) == req' = [req EXCEPT ![r].pc = pc]
Repond(r) == req' = [req EXCEPT ![r] = [pc |-> "libre"]]

\* A request of several steps starts: "seule" says that none ran beside it.
\* Bound: only two changes of role overlap.
Commence(r, e) ==
  /\ Libre(r)
  /\ \A s \in Requetes : Libre(s) \/ {req[s].pc, e.pc} = {"retirer"}
  /\ req' = [s \in Requetes |->
       IF s = r THEN e
       ELSE IF Libre(s) THEN req[s] ELSE [req[s] EXCEPT !.seule = FALSE]]
  /\ sain' = (sain /\ AuRepos)

\* resolveRoleName: the highest of the roles of a token.
ResolveRoleName(roles) ==
  IF "admin" \in roles THEN "admin"
  ELSE IF "livreur" \in roles THEN "livreur" ELSE "client"

\* What the handlers read in an access token of account e: its roles.
Jeton(e) == keycloak[e].roles

\* Mutant: the role of a row that exists is not updated.
SynchroniseSansRole(e, j) ==
  [utilisateur EXCEPT ![e] =
     [existe |-> TRUE,
      isVerified |-> @.isVerified \/ ~@.existe,
      role |-> IF @.existe THEN @.role ELSE ResolveRoleName(j),
      isSuspended |-> @.isSuspended]]

\* The row syncUser leaves: its role is the token's, and a row it creates is
\* verified.
Synchronise(e, j) ==
  [utilisateur EXCEPT ![e] =
     [existe |-> TRUE,
      isVerified |-> @.isVerified \/ ~@.existe,
      role |-> ResolveRoleName(j),
      isSuspended |-> @.isSuspended]]

----------------------------------------------------------------------------
\* The person signs in, or the frontend renews the token.  They wait for the
\* answer of their registration.  Bound: MaxJetons.
Connexion(e) ==
  /\ keycloak[e].existe
  /\ keycloak[e].enabled
  /\ \A r \in Requetes :
       req[r].pc \in {"roleClient", "creerLocal", "courriel"} => req[r].e # e
  /\ Cardinality(jetons[e]) < MaxJetons
  /\ Jeton(e) \notin jetons[e]
  /\ jetons' = [jetons EXCEPT ![e] = @ \cup {Jeton(e)}]
  /\ UNCHANGED <<keycloak, utilisateur, lien, temoins, req, pannes, sain>>

Expire(e) ==
  /\ \E j \in jetons[e] : jetons' = [jetons EXCEPT ![e] = @ \ {j}]
  /\ UNCHANGED <<keycloak, utilisateur, lien, temoins, req, pannes, sain>>

\* Any route that calls syncUser with a token that is still valid.
SyncUser(e) ==
  /\ \E j \in jetons[e] : utilisateur' = Synchronise(e, j)
  /\ UNCHANGED <<keycloak, jetons, lien, temoins, req, pannes, sain>>

----------------------------------------------------------------------------
\* register: the account in Keycloak, or 409 ...
Register(r, e) ==
  /\ ~keycloak[e].existe
  /\ Commence(r, [pc |-> "roleClient", e |-> e, seule |-> AuRepos])
  /\ keycloak' = [keycloak EXCEPT ![e] =
       [existe |-> TRUE, enabled |-> TRUE, roles |-> {}]]
  /\ inscrit' = [inscrit EXCEPT ![e] = TRUE]
  /\ UNCHANGED <<utilisateur, jetons, lien, confirme, pannes>>

\* ... its role ...
RegisterRole(r) ==
  /\ req[r].pc = "roleClient"
  /\ keycloak' = [keycloak EXCEPT ![req[r].e].roles = @ \cup {"client"}]
  /\ Va(r, "creerLocal")
  /\ UNCHANGED <<utilisateur, jetons, lien, temoins, pannes, sain>>

\* Mutant: the local row is created verified.
RegisterLocalVerifie(r) ==
  LET e == req[r].e IN
  /\ req[r].pc = "creerLocal"
  /\ IF utilisateur[e].existe
       THEN Repond(r) /\ UNCHANGED utilisateur
       ELSE /\ utilisateur' = [utilisateur EXCEPT ![e] =
                 [NonUtilisateur EXCEPT !.existe = TRUE, !.isVerified = TRUE]]
            /\ Va(r, "courriel")
  /\ UNCHANGED <<keycloak, jetons, lien, temoins, pannes, sain>>

\* ... its local row, which fails when a token was used before ...
RegisterLocal(r) ==
  LET e == req[r].e IN
  /\ req[r].pc = "creerLocal"
  /\ IF utilisateur[e].existe
       THEN Repond(r) /\ UNCHANGED utilisateur
       ELSE /\ utilisateur' = [utilisateur EXCEPT ![e] =
                                 [NonUtilisateur EXCEPT !.existe = TRUE]]
            /\ Va(r, "courriel")
  /\ UNCHANGED <<keycloak, jetons, lien, temoins, pannes, sain>>

\* ... and the link.  A failure of the mail server is only logged.
SendVerificationEmail(r) ==
  /\ req[r].pc \in {"courriel", "renvoi"}
  /\ lien' \in {lien, [lien EXCEPT ![req[r].e] = TRUE]}
  /\ Repond(r)
  /\ UNCHANGED <<comptes, temoins, pannes, sain>>

ResendVerification(r, e) ==
  /\ \E j \in jetons[e] :
       /\ utilisateur' = Synchronise(e, j)
       /\ ~Synchronise(e, j)[e].isVerified
  /\ Commence(r, [pc |-> "renvoi", e |-> e, seule |-> AuRepos])
  /\ UNCHANGED <<keycloak, jetons, lien, temoins, pannes>>

\* verifyEmail: the link holds the id of a row that exists.
VerifyEmail(e) ==
  /\ lien[e]
  /\ utilisateur' = [utilisateur EXCEPT ![e].isVerified = TRUE]
  /\ confirme' = [confirme EXCEPT ![e] = TRUE]
  /\ UNCHANGED <<keycloak, jetons, lien, inscrit, req, pannes, sain>>

----------------------------------------------------------------------------
\* A request stops at an await: the server restarts, Keycloak or PostgreSQL
\* does not answer.  Bound: MaxPannes.
Panne(r) ==
  /\ ~Libre(r)
  /\ pannes < MaxPannes
  /\ pannes' = pannes + 1
  /\ sain' = FALSE
  /\ Repond(r)
  /\ UNCHANGED <<comptes, lien, temoins>>

AuthNext(r) ==
  \/ \E e \in Comptes : Register(r, e) \/ ResendVerification(r, e)
  \/ RegisterRole(r) \/ RegisterLocal(r) \/ SendVerificationEmail(r) \/ Panne(r)
=============================================================================
