---------------------------- MODULE MCHelperAuth ----------------------------
(* Small instances of HelperAuth. *)
EXTENDS HelperAuth
=============================================================================
