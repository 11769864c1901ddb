------------------------------- MODULE Gestion -------------------------------
(***************************************************************************)
(* The pages and documents beside orders and payments: the catalogue and   *)
(* its admin pages, the shop's front page, the dashboard (Vitrine), prices *)
(* and invoices (Facturation), the profile of a person (Profils).  They    *)
(* share no table a property relates, so an instance follows one of them   *)
(* at a time: volet.                                                       *)
(***************************************************************************)
EXTENDS Vitrine, Facturation, Profils

DeVitrine == {"annonces", "produits", "inventaire", "accueil", "tableau"}

gestion == <<vitrine, facturation, profils>>

InitGestion ==
  /\ InitVitrine
  /\ CASE volet = "prix" -> InitFacturation
       [] volet = "document" -> InitAncienne
       [] OTHER -> InitFacturation /\ prix = PremiersPrix
  /\ InitProfils /\ (volet # "profil" => ~admin)

DuProfil(A) == volet = "profil" /\ A /\ UNCHANGED <<vitrine, facturation>>

NextGestion ==
  \/ volet \in DeVitrine /\ NextVitrine /\ UNCHANGED <<facturation, profils>>
  \/ /\ volet \in {"prix", "document"}
     /\ NextFacturation /\ UNCHANGED <<vitrine, profils>>
  \/ DuProfil(NextProfils)

SpecGestion == InitGestion /\ [][NextGestion]_gestion

\* The interval of the banner fires as long as it is set.  Some request goes on
\* or starts: an open page keeps asking for something.  A token is renewed, and
\* older ones expire.
FairGestion ==
  /\ SpecGestion
  /\ WF_gestion(/\ volet = "accueil"
                /\ Defiler /\ UNCHANGED <<facturation, profils>>)
  /\ WF_gestion(DuProfil(\E a \in Appels : Traiter(a) \/ Autre(a)))
  /\ WF_gestion(DuProfil(Renouveler \/ \E n \in Noms : Expirer(n)))
=============================================================================
