------------------------- MODULE MCIORecursiveLock -------------------------
(* Instances of IORecursiveLock for TLC. *)
EXTENDS IORecursiveLock
=============================================================================
