------------------------------- MODULE Profils -------------------------------
(***************************************************************************)
(* The profile of one person: AuthService.updateProfile and syncUser, the  *)
(* account in Keycloak, and the forms that send PATCH /auth/me:            *)
(* admin-settings-form.tsx (names), profile-form.tsx (address and phone)   *)
(* and change-password-form.tsx.  A token carries the name of when it was  *)
(* issued, and every request writes it back to the local row.              *)
(***************************************************************************)
EXTENDS Naturals, FiniteSets

CONSTANTS
  Noms, Contacts, Secrets,
  Appels,         \* slots of requests running at the same time
  MaxSaisies,     \* bound: what the person does
  MaxPannes,      \* bound: requests that die
  Personne        \* no request, nothing typed

\* The body of a request has a field or leaves it out.
ChampsT == [nom : Noms \cup {Personne}, contact : Contacts \cup {Personne},
            mdp : Secrets \cup {Personne}]
Rien == [nom |-> Personne, contact |-> Personne, mdp |-> Personne]

\* A request: the token's name, its body, the component that waits for it, the
\* row it answers with and the await it is stopped at.
AppelT ==
  [jeton : Noms, champs : ChampsT, de : {"autre", "page", "fiche", "secret"},
   lu : [nom : Noms, contact : Contacts],
   pc : {"sync", "updateUser", "resetPassword", "ecrire", "ok", "erreur"}]

ASSUME ProfilsAssumption ==
  /\ Noms # {} /\ Contacts # {} /\ Secrets # {}
  /\ Personne \notin Noms \cup Contacts \cup Secrets \cup Appels
  /\ Personne \notin AppelT
  /\ MaxSaisies \in Nat /\ MaxPannes \in Nat

VARIABLES
  admin,          \* whether the person is an admin, whose form has the name
  compte,         \* Keycloak: name and password
  ligne,          \* Utilisateur: name and contact
  jetons,         \* the names in the tokens that are still valid
  appels,         \* running requests
  fiche,          \* the page of the profile and its form
  secret,         \* ChangePasswordForm
  saisies, pannes,
  voulu,          \* what the person last asked for
  recouvre, tombe   \* whether two saves overlapped, whether a request died

profils == <<admin, compte, ligne, jetons, appels, fiche, secret, saisies,
             pannes, voulu, recouvre, tombe>>

Un(S) == CHOOSE x \in S : TRUE
Fermee == [etat |-> "fermee", nom |-> Personne, contact |-> Personne,
           saisi |-> FALSE, statut |-> "idle", minuterie |-> FALSE]
SecretVide == [statut |-> "idle", minuterie |-> FALSE]

InitProfils ==
  /\ admin \in BOOLEAN
  /\ compte = [nom |-> Un(Noms), mdp |-> Un(Secrets)]
  /\ ligne = [nom |-> Un(Noms), contact |-> Un(Contacts)]
  /\ jetons = {Un(Noms)}
  /\ appels = [a \in Appels |-> Personne]
  /\ fiche = Fermee /\ secret = SecretVide
  /\ saisies = 0 /\ pannes = 0
  /\ voulu = [nom |-> Un(Noms), contact |-> Un(Contacts), mdp |-> Un(Secrets)]
  /\ recouvre = FALSE /\ tombe = FALSE

----------------------------------------------------------------------------
(* The service.                                                            *)

Arretee(a, pc) == appels[a] # Personne /\ appels[a].pc = pc
Reprise(a, pc) == appels' = [appels EXCEPT ![a].pc = pc]
Navigateur == <<admin, jetons, fiche, secret, saisies, pannes, voulu, recouvre,
                tombe>>

\* Mutant: a row that exists is left as it is.
SyncUserSansMiseAJour(jeton) == ligne

\* The row gets the token's name.
SyncUser(jeton) == [ligne EXCEPT !.nom = jeton]

Me(a) ==
  /\ Arretee(a, "sync")
  /\ ligne' = SyncUser(appels[a].jeton)
  /\ appels' = [appels EXCEPT ![a].pc = "ok", ![a].lu = ligne']
  /\ UNCHANGED <<Navigateur, compte>>

\* updateProfile calls Keycloak for the fields that are Keycloak's.
Debut(champs) == CASE champs.nom # Personne -> "updateUser"
                   [] champs.nom = Personne /\ champs.mdp # Personne ->
                        "resetPassword"
                   [] OTHER -> "ecrire"

\* Mutant: the name stays in the local row.
UpdateUserLocal(a) ==
  /\ Arretee(a, "updateUser") /\ Reprise(a, "ecrire")
  /\ UNCHANGED <<Navigateur, compte, ligne>>

UpdateUser(a) ==
  /\ Arretee(a, "updateUser") /\ Reprise(a, "ecrire")
  /\ compte' = [compte EXCEPT !.nom = appels[a].champs.nom]
  /\ UNCHANGED <<Navigateur, ligne>>

ResetPassword(a) ==
  /\ Arretee(a, "resetPassword") /\ Reprise(a, "ecrire")
  /\ compte' = [compte EXCEPT !.mdp = appels[a].champs.mdp]
  /\ UNCHANGED <<Navigateur, ligne>>

\* Only the fields of the body are written.
EcritSi(valeur, ancienne) == IF valeur = Personne THEN ancienne ELSE valeur

UpdateProfile(a) ==
  /\ Arretee(a, "ecrire") /\ Reprise(a, "ok")
  /\ ligne' = [nom |-> EcritSi(appels[a].champs.nom, ligne.nom),
               contact |-> EcritSi(appels[a].champs.contact, ligne.contact)]
  /\ UNCHANGED <<Navigateur, compte>>

\* A call to Keycloak or a query fails, or the process stops.
Tomber(a) ==
  /\ appels[a] # Personne /\ appels[a].pc \notin {"ok", "erreur"}
  /\ pannes < MaxPannes /\ pannes' = pannes + 1
  /\ Reprise(a, "erreur")
  /\ tombe' = TRUE
  /\ UNCHANGED <<admin, compte, ligne, jetons, fiche, secret, saisies, voulu,
                 recouvre>>

----------------------------------------------------------------------------
(* Keycloak's tokens.                                                      *)

Jetons == <<admin, compte, ligne, appels, fiche, secret, saisies, pannes,
            voulu, recouvre, tombe>>

Renouveler == jetons' = jetons \cup {compte.nom} /\ UNCHANGED Jetons

\* A token with the account's name is renewed as it expires.
Expirer(n) ==
  /\ n \in jetons \ {compte.nom}
  /\ jetons' = jetons \ {n}
  /\ UNCHANGED Jetons

----------------------------------------------------------------------------
(* The browser.                                                            *)

Saisie == saisies < MaxSaisies /\ saisies' = saisies + 1
Enregistre == {a \in Appels : appels[a] # Personne /\ appels[a].champs # Rien}

\* A request leaves with a valid token, in a free slot: they are alike.
EnvoyerProfil(a, de, champs) ==
  /\ appels[a] = Personne /\ a = CHOOSE libre \in Appels : appels[libre] = Personne
  /\ \E n \in jetons :
       appels' = [appels EXCEPT ![a] =
         [jeton |-> n, champs |-> champs, de |-> de, lu |-> ligne,
          pc |-> IF champs = Rien THEN "sync" ELSE Debut(champs)]]

\* Any other page asks for something: every route calls syncUser.
Autre(a) ==
  /\ EnvoyerProfil(a, "autre", Rien)
  /\ UNCHANGED <<admin, compte, ligne, jetons, fiche, secret, saisies, pannes,
                 voulu, recouvre, tombe>>

Ouvrir(a) ==
  /\ Saisie /\ fiche.etat = "fermee"
  /\ EnvoyerProfil(a, "page", Rien)
  /\ fiche' = [fiche EXCEPT !.etat = "attend"]
  /\ UNCHANGED <<admin, compte, ligne, jetons, secret, pannes, voulu, recouvre,
                 tombe>>

\* The components go, and so do their answers.
Quitter ==
  /\ Saisie /\ fiche.etat = "ouverte"
  /\ fiche' = Fermee /\ secret' = SecretVide
  /\ appels' = [a \in Appels |-> IF appels[a] = Personne THEN Personne
                                ELSE [appels[a] EXCEPT !.de = "autre"]]
  /\ UNCHANGED <<admin, compte, ligne, jetons, pannes, voulu, recouvre, tombe>>

SaisirProfil ==
  /\ Saisie /\ fiche.etat = "ouverte"
  /\ \/ admin /\ \E n \in Noms \ {fiche.nom} :
          fiche' = [fiche EXCEPT !.nom = n, !.saisi = TRUE]
     \/ \E c \in Contacts \ {fiche.contact} : fiche' = [fiche EXCEPT !.contact = c]
  /\ UNCHANGED <<admin, compte, ligne, jetons, appels, secret, pannes, voulu,
                 recouvre, tombe>>

\* handleSubmit and handleProfileSubmit send every field of the form.
Enregistrer(a) ==
  /\ Saisie /\ fiche.etat = "ouverte" /\ fiche.statut # "loading"
  /\ EnvoyerProfil(a, "fiche", [nom |-> IF admin THEN fiche.nom ELSE Personne,
                                contact |-> fiche.contact, mdp |-> Personne])
  /\ fiche' = [fiche EXCEPT !.statut = "loading"]
  /\ voulu' = [voulu EXCEPT !.nom = IF fiche.saisi THEN fiche.nom ELSE @,
                            !.contact = fiche.contact]
  /\ recouvre' = (recouvre \/ Enregistre # {} \/ (admin /\ fiche.nom # voulu'.nom))
  /\ UNCHANGED <<admin, compte, ligne, jetons, secret, pannes, tombe>>

\* handlePasswordSubmit, with two passwords that agree.
ChangerSecret(a, s) ==
  /\ Saisie /\ fiche.etat = "ouverte" /\ secret.statut # "loading"
  /\ EnvoyerProfil(a, "secret", [Rien EXCEPT !.mdp = s])
  /\ secret' = [secret EXCEPT !.statut = "loading"]
  /\ voulu' = [voulu EXCEPT !.mdp = s]
  /\ recouvre' = (recouvre \/ \E b \in Enregistre : appels[b].champs.mdp # Personne)
  /\ UNCHANGED <<admin, compte, ligne, jetons, fiche, pannes, tombe>>

Repondue(a, de) ==
  appels[a] # Personne /\ appels[a].de = de /\ appels[a].pc \in {"ok", "erreur"}
Finie(a) == appels' = [appels EXCEPT ![a] = Personne]

\* The forms start with what /auth/me answered.
ArriverPage(a) ==
  /\ Repondue(a, "page") /\ Finie(a)
  /\ fiche' = IF appels[a].pc = "erreur" THEN Fermee
       ELSE [Fermee EXCEPT !.etat = "ouverte", !.nom = appels[a].lu.nom,
                           !.contact = appels[a].lu.contact]
  /\ recouvre' = (recouvre \/ Enregistre # {} \/ appels[a].lu.contact # ligne.contact)
  /\ UNCHANGED <<admin, compte, ligne, jetons, secret, saisies, pannes, voulu,
                 tombe>>

Statut(pc) == IF pc = "ok" THEN "done" ELSE "error"

\* After a success router.refresh asks for /auth/me again: the fields that the
\* form shows stay.  A timer takes the message away.
ArriverFiche(a) ==
  /\ Repondue(a, "fiche")
  /\ fiche' = [fiche EXCEPT !.statut = Statut(appels[a].pc),
                            !.minuterie = @ \/ appels[a].pc = "ok"]
  /\ IF appels[a].pc = "ok"
       THEN \E n \in jetons :
              appels' = [appels EXCEPT ![a] = [jeton |-> n, champs |-> Rien,
                           de |-> "autre", lu |-> ligne, pc |-> "sync"]]
       ELSE Finie(a)
  /\ UNCHANGED <<admin, compte, ligne, jetons, secret, saisies, pannes, voulu,
                 recouvre, tombe>>

ArriverSecret(a) ==
  /\ Repondue(a, "secret") /\ Finie(a)
  /\ secret' = [statut |-> Statut(appels[a].pc),
                minuterie |-> secret.minuterie \/ appels[a].pc = "ok"]
  /\ UNCHANGED <<admin, compte, ligne, jetons, fiche, saisies, pannes, voulu,
                 recouvre, tombe>>

ArriverAutre(a) ==
  /\ Repondue(a, "autre") /\ Finie(a)
  /\ UNCHANGED <<Navigateur, compte, ligne>>

\* setTimeout: back to idle, also when the next save is running.
FinMessage ==
  /\ \/ /\ fiche.minuterie
        /\ fiche' = [fiche EXCEPT !.statut = "idle", !.minuterie = FALSE]
        /\ UNCHANGED secret
     \/ /\ secret.minuterie
        /\ secret' = SecretVide
        /\ UNCHANGED fiche
  /\ UNCHANGED <<admin, compte, ligne, jetons, appels, saisies, pannes, voulu,
                 recouvre, tombe>>

----------------------------------------------------------------------------
Traiter(a) ==
  \/ Me(a) \/ UpdateUser(a) \/ ResetPassword(a) \/ UpdateProfile(a)
  \/ ArriverPage(a) \/ ArriverFiche(a) \/ ArriverSecret(a) \/ ArriverAutre(a)

NextProfils ==
  \/ \E a \in Appels :
       \/ Traiter(a) \/ Tomber(a) \/ Autre(a) \/ Ouvrir(a) \/ Enregistrer(a)
       \/ \E s \in Secrets : ChangerSecret(a, s)
  \/ Quitter \/ SaisirProfil \/ FinMessage
  \/ Renouveler \/ \E n \in Noms : Expirer(n)

----------------------------------------------------------------------------
(* Properties.                                                             *)

\* Types; a form that waits has its request, and a name that nobody typed is
\* one that Keycloak once had.
TypeProfils ==
  /\ admin \in BOOLEAN
  /\ compte \in [nom : Noms, mdp : Secrets]
  /\ ligne \in [nom : Noms, contact : Contacts]
  /\ jetons \subseteq Noms
  /\ fiche.etat \in {"fermee", "attend", "ouverte"}
  /\ fiche.statut \in {"idle", "loading", "done", "error"}
  /\ fiche.statut = "loading" =>
       \E a \in Appels : appels[a] # Personne /\ appels[a].de = "fiche"

\* At rest Keycloak has the name and the password, and the row the contact,
\* that the person last asked for: the password form and the one of a client
\* leave the rest alone.  Left out: saves that overlap, a form that was opened
\* with an older name and sends it back, a request that died
\* (auth.service.ts:134-150).
ProfilFidele ==
  Enregistre = {} /\ ~recouvre /\ ~tombe =>
    /\ compte.nom = voulu.nom /\ compte.mdp = voulu.mdp
    /\ ligne.contact = voulu.contact

\* What says that it was saved was, also when an earlier try died half way: in
\* Keycloak, and in the row (admin-settings-form.tsx:28, profile-form.tsx:35,
\* change-password-form.tsx:40).
ReponseVraie ==
  ~recouvre =>
    /\ fiche.statut = "done" => compte.nom = voulu.nom \/ ~admin
    /\ fiche.statut = "done" => ligne.contact = voulu.contact
    /\ secret.statut = "done" => compte.mdp = voulu.mdp

\* A profile is what the person asked for, at rest and when the page says so.
ProfilJuste == TypeProfils /\ ProfilFidele /\ ReponseVraie

\* The local name ends up as Keycloak's, although requests with older tokens
\* write older names back, and a save may die between the two
\* (auth.service.ts:112, :126-129).
NomConverge == <>[](ligne.nom = compte.nom)
=============================================================================
