------------------------------ MODULE MCAchats ------------------------------
(***************************************************************************)
(* Model-checking instance of Achats.                                      *)
(***************************************************************************)
EXTENDS Achats
=============================================================================
