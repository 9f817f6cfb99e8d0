---------------------------- MODULE MCMainScreen ----------------------------
(***************************************************************************)
(* A few texts and pages for MainScreen.tla.                               *)
(***************************************************************************)
EXTENDS MainScreen
=============================================================================
