---------------------------- MODULE UsersService ----------------------------
(***************************************************************************)
(* backend/src/users: what an admin does to the account of somebody else,  *)
(* in Keycloak first and in the local row last.  findOne answers 404 to an *)
(* account without a local row.                                            *)
(***************************************************************************)
EXTENDS AuthService

\* setSuspended.
SetSuspended(r, e, b) ==
  /\ utilisateur[e].existe
  /\ Commence(r, [pc |-> "suspendre", e |-> e, seule |-> AuRepos,
                  suspended |-> b])
  /\ UNCHANGED <<comptes, lien, temoins, pannes>>

\* Mutant: suspended is passed for enabled.
SetUserEnabledInverse(r) ==
  /\ req[r].pc = "suspendre"
  /\ keycloak' = [keycloak EXCEPT ![req[r].e].enabled = req[r].suspended]
  /\ Va(r, "suspendreLocal")
  /\ UNCHANGED <<utilisateur, jetons, lien, temoins, pannes, sain>>

SetUserEnabled(r) ==
  /\ req[r].pc = "suspendre"
  /\ keycloak' = [keycloak EXCEPT ![req[r].e].enabled = ~req[r].suspended]
  /\ Va(r, "suspendreLocal")
  /\ UNCHANGED <<utilisateur, jetons, lien, temoins, pannes, sain>>

SetSuspendedLocal(r) ==
  /\ req[r].pc = "suspendreLocal"
  /\ utilisateur' =
       [utilisateur EXCEPT ![req[r].e].isSuspended = req[r].suspended]
  /\ Repond(r)
  /\ UNCHANGED <<keycloak, jetons, lien, temoins, pannes, sain>>

----------------------------------------------------------------------------
\* Mutant: only the role shown in the local row is taken away.
ChangeRoleLocal(r, e, role) ==
  /\ utilisateur[e].existe
  /\ Commence(r, [pc |-> "retirer", e |-> e, seule |-> AuRepos,
                  role |-> role,
                  reste |-> keycloak[e].roles \cap {utilisateur[e].role},
                  ajouter |-> role \notin keycloak[e].roles])
  /\ UNCHANGED <<comptes, lien, temoins, pannes>>

\* changeRole reads the account's roles in Keycloak ...
ChangeRole(r, e, role) ==
  /\ utilisateur[e].existe
  /\ Commence(r, [pc |-> "retirer", e |-> e, seule |-> AuRepos,
                  role |-> role,
                  reste |-> keycloak[e].roles \ {role},
                  ajouter |-> role \notin keycloak[e].roles])
  /\ UNCHANGED <<comptes, lien, temoins, pannes>>

\* ... takes the other ones away, in the order of ASSIGNABLE_ROLES ...
Ordre == <<"admin", "client", "livreur">>
Premier(roles) ==
  Ordre[CHOOSE i \in 1 .. 3 :
          Ordre[i] \in roles /\ \A k \in 1 .. i - 1 : Ordre[k] \notin roles]

RemoveRealmRole(r) ==
  /\ req[r].pc = "retirer"
  /\ req[r].reste # {}
  /\ LET p == Premier(req[r].reste) IN
       /\ keycloak' = [keycloak EXCEPT ![req[r].e].roles = @ \ {p}]
       /\ req' = [req EXCEPT ![r].reste = @ \ {p}]
  /\ UNCHANGED <<utilisateur, jetons, lien, temoins, pannes, sain>>

\* ... gives the new one if the account did not have it when it was read ...
AssignRealmRole(r) ==
  /\ req[r].pc = "retirer"
  /\ req[r].reste = {}
  /\ req[r].ajouter
  /\ keycloak' = [keycloak EXCEPT ![req[r].e].roles = @ \cup {req[r].role}]
  /\ req' = [req EXCEPT ![r].ajouter = FALSE]
  /\ UNCHANGED <<utilisateur, jetons, lien, temoins, pannes, sain>>

\* ... and writes it in the local row.
ChangeRoleEcrire(r) ==
  /\ req[r].pc = "retirer"
  /\ req[r].reste = {}
  /\ ~req[r].ajouter
  /\ utilisateur' = [utilisateur EXCEPT ![req[r].e].role = req[r].role]
  /\ Repond(r)
  /\ UNCHANGED <<keycloak, jetons, lien, temoins, pannes, sain>>

UsersNext(r) ==
  \/ \E e \in Comptes, b \in BOOLEAN : SetSuspended(r, e, b)
  \/ \E e \in Comptes, role \in Roles : ChangeRole(r, e, role)
  \/ SetUserEnabled(r) \/ SetSuspendedLocal(r)
  \/ RemoveRealmRole(r) \/ AssignRealmRole(r) \/ ChangeRoleEcrire(r)
=============================================================================
