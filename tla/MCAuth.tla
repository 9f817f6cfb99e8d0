------------------------------- MODULE MCAuth -------------------------------
(***************************************************************************)
(* A few screens and requests for Auth.tla.                                *)
(***************************************************************************)
EXTENDS Auth
=============================================================================
