------------------------------ MODULE MCBoites ------------------------------
(* Instances of Boites for TLC. *)
EXTENDS Boites

CONSTANTS cli, liv, adm

Lettres ==
  {<<adm, cli>>, <<liv, cli>>, <<liv, adm>>, <<adm, Tous>>}

Page(s) == {s}
PagesDeTous == {Page("boite"), Page("livreur"), Page("bulle"), Page("admin")}
=============================================================================
