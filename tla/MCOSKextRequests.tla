-------------------------- MODULE MCOSKextRequests --------------------------
(* Instances of OSKextRequests for TLC. *)
EXTENDS OSKextRequests
=============================================================================
