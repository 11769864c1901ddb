---------------------------- MODULE MCNavigation ----------------------------
(***************************************************************************)
(* Model-checking instance of Navigation.                                  *)
(***************************************************************************)
EXTENDS Navigation
=============================================================================
