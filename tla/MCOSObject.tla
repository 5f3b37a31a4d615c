---------------------------- MODULE MCOSObject ----------------------------
(* The instance of OSObject for TLC. *)
EXTENDS OSObject
=============================================================================
