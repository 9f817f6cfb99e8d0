------------------------------- MODULE MCHud -------------------------------
(***************************************************************************)
(* A few messages for Hud.tla.                                             *)
(***************************************************************************)
EXTENDS Hud
=============================================================================
