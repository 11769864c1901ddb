------------------------------ MODULE Comptes -------------------------------
(***************************************************************************)
(* Accounts: registration and synchronisation (AuthService), what admins   *)
(* do (UsersService), Keycloak and the tokens it gives.                    *)
(***************************************************************************)
EXTENDS UsersService

Next ==
  \/ \E r \in Requetes : AuthNext(r) \/ UsersNext(r)
  \/ \E e \in Comptes :
       Connexion(e) \/ Expire(e) \/ SyncUser(e) \/ VerifyEmail(e)

Spec == Init /\ [][Next]_vars

\* A request goes on; a token expires; a person who keeps the shop open has
\* their token renewed (frontend lib/auth.ts:74) and requests made with it.
Poursuit(r) ==
  RegisterRole(r) \/ RegisterLocal(r) \/ SendVerificationEmail(r)
  \/ SetUserEnabled(r) \/ SetSuspendedLocal(r)
  \/ RemoveRealmRole(r) \/ AssignRealmRole(r) \/ ChangeRoleEcrire(r)
FairSpec ==
  /\ Spec
  /\ \A r \in Requetes : WF_vars(Poursuit(r))
  /\ \A e \in Comptes :
       WF_vars(Connexion(e)) /\ WF_vars(Expire(e)) /\ SF_vars(SyncUser(e))

----------------------------------------------------------------------------
\* A running request: the account it is about, whether it runs alone, and what
\* its handler still needs.
RequeteT ==
  [pc : {"libre"}]
    \cup [pc : {"roleClient", "creerLocal", "courriel", "renvoi"},
          e : Comptes, seule : BOOLEAN]
    \cup [pc : {"suspendre", "suspendreLocal"},
          e : Comptes, seule : BOOLEAN, suspended : BOOLEAN]
    \cup [pc : {"retirer"}, e : Comptes, seule : BOOLEAN,
          role : Roles, reste : SUBSET Roles, ajouter : BOOLEAN]

CompteT == [existe : BOOLEAN, enabled : BOOLEAN, roles : SUBSET Roles]
UtilisateurT == [existe : BOOLEAN, isVerified : BOOLEAN, role : Roles,
                 isSuspended : BOOLEAN]

\* Types.
TypeOK ==
  /\ keycloak \in [Comptes -> CompteT]
  /\ utilisateur \in [Comptes -> UtilisateurT]
  /\ jetons \in [Comptes -> SUBSET SUBSET Roles]
  /\ lien \in [Comptes -> BOOLEAN]
  /\ confirme \in [Comptes -> BOOLEAN]
  /\ inscrit \in [Comptes -> BOOLEAN]
  /\ req \in [Requetes -> RequeteT]
  /\ pannes \in 0 .. MaxPannes
  /\ sain \in BOOLEAN

\* At rest, an account is suspended in the local row exactly when Keycloak
\* refuses it (users.service.ts:32).
SuspensionFidele ==
  sain /\ AuRepos => \A e \in Comptes :
    utilisateur[e].existe =>
      (utilisateur[e].isSuspended <=> ~keycloak[e].enabled)

\* A change of role that ran beside no other request leaves the account with
\* that role only, whatever an earlier one that died or overlapped had left
\* (users.service.ts:43).
ChangementComplet ==
  [][\A r \in Requetes :
       ChangeRoleEcrire(r) /\ req[r].seule =>
         keycloak[req[r].e].roles = {req[r].role}]_vars

\* When no request fails, an account made by register is verified only by the
\* person who followed the link (auth.service.ts:50).
VerifieParLien ==
  pannes = 0 => \A e \in Comptes :
    inscrit[e] /\ utilisateur[e].isVerified => confirme[e]

\* Once an enabled account is left alone in Keycloak, its local row ends up
\* with the role that its Keycloak roles give, although requests with an older
\* token write an older one back (auth.service.ts:100, users.service.ts:43).
RoleConverge ==
  \A e \in Comptes :
    <>[](keycloak[e].enabled) /\ <>[][keycloak' = keycloak]_vars =>
      <>[](utilisateur[e].role = ResolveRoleName(keycloak[e].roles))

----------------------------------------------------------------------------
\* The inductive invariant: what is true of accounts, requests and rows while
\* requests are half way.

\* Only accounts that exist have tokens and rows, and what has no row was
\* neither suspended nor verified, nor sent a link.
CompteConnu(e) ==
  /\ \/ keycloak[e].existe
     \/ ~utilisateur[e].existe /\ jetons[e] = {} /\ ~inscrit[e]
  /\ \/ utilisateur[e].existe
     \/ /\ ~utilisateur[e].isSuspended /\ ~utilisateur[e].isVerified /\ ~lien[e]
        /\ keycloak[e].existe => keycloak[e].enabled

\* A request is about an account that exists; past the insert of register, or
\* past findOne, about one with a row.
RequeteConnue(r) ==
  \/ Libre(r)
  \/ /\ keycloak[req[r].e].existe
     /\ utilisateur[req[r].e].existe \/ req[r].pc \in {"roleClient", "creerLocal"}

\* A change of role that runs alone has the account's other roles still to take
\* away, and gives the new one when it is missing.
ChangementFidele(r) ==
  req[r].pc = "retirer" /\ req[r].seule =>
    /\ \A s \in Requetes : s = r \/ Libre(s)
    /\ req[r].reste = keycloak[req[r].e].roles \ {req[r].role}
    /\ req[r].ajouter <=> req[r].role \notin keycloak[req[r].e].roles

\* While nothing fails or overlaps, one request runs, ...
UneSeule == sain => \A r, s \in Requetes : r = s \/ Libre(r) \/ Libre(s)

\* ... one that suspends has told Keycloak before it writes its row, ...
SuspensionLocale ==
  sain => \A r \in Requetes : req[r].pc = "suspendreLocal" =>
    (req[r].suspended <=> ~keycloak[req[r].e].enabled)

\* ... and the row of the account it suspends is the only one to differ.
SuspensionEnCours ==
  sain => \A e \in Comptes : utilisateur[e].existe =>
    \/ utilisateur[e].isSuspended <=> ~keycloak[e].enabled
    \/ \E r \in Requetes : req[r].pc = "suspendreLocal" /\ req[r].e = e

\* While nothing fails, an account made by register is verified by its link ...
VerificationFidele(e) ==
  pannes = 0 /\ inscrit[e] /\ utilisateur[e].isVerified => confirme[e]

\* ... and has its row, or its registration still runs and nobody signed in.
InscriptionEnCours(e) ==
  pannes = 0 /\ inscrit[e] =>
    \/ utilisateur[e].existe
    \/ /\ jetons[e] = {}
       /\ \E r \in Requetes :
            req[r].pc \in {"roleClient", "creerLocal"} /\ req[r].e = e

Inductif ==
  /\ TypeOK
  /\ \A e \in Comptes :
       CompteConnu(e) /\ VerificationFidele(e) /\ InscriptionEnCours(e)
  /\ \A r \in Requetes : RequeteConnue(r) /\ ChangementFidele(r)
  /\ UneSeule /\ SuspensionLocale /\ SuspensionEnCours

(***************************************************************************)
(* Said in a comment, and not what the code does (README, "Findings").     *)
(***************************************************************************)

\* An account made by register cannot order before its address is confirmed
\* (auth.service.ts:50).
CommandeBloquee ==
  \A e \in Comptes : inscrit[e] /\ utilisateur[e].isVerified => confirme[e]
=============================================================================
