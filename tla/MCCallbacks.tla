----------------------------- MODULE MCCallbacks -----------------------------
(***************************************************************************)
(* A few callbacks and changes for Callbacks.tla.                          *)
(***************************************************************************)
EXTENDS Callbacks
=============================================================================
