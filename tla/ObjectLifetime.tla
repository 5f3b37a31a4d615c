-------------------------- MODULE ObjectLifetime --------------------------
(***************************************************************************)
(* What OSObject promises its clients about the lifetime of one object:    *)
(* the object stays alive while a client holds a reference, references may *)
(* be added only while it is alive, and it dies at most once, after the    *)
(* last reference is gone.  An object may also outlive its last reference: *)
(* when its count has been pegged it is leaked rather than freed.          *)
(* OSObject.tla implements this with one 32-bit word and compare-and-swap. *)
(***************************************************************************)
CONSTANT Refs          \* the identities of references

VARIABLES
  refs,                \* the references clients hold
  phase                \* "alive", "dying" (free() running) or "dead"

vars == <<refs, phase>>

Init ==
  /\ \E r \in Refs : refs = {r}
  /\ phase = "alive"

(* A client obtains one more reference to a live object. *)
Acquire(r) ==
  /\ phase = "alive"
  /\ r \notin refs
  /\ refs' = refs \cup {r}
  /\ UNCHANGED phase

(* A client gives a reference up.  Only giving up the last one may kill. *)
Drop(r) ==
  /\ phase = "alive"
  /\ r \in refs
  /\ refs' = refs \ {r}
  /\ phase' \in IF refs' = {} THEN {"alive", "dying"} ELSE {"alive"}

(* free() has run to its end and the storage is gone. *)
Die ==
  /\ phase = "dying"
  /\ phase' = "dead"
  /\ UNCHANGED refs

Next == Die \/ \E r \in Refs : Acquire(r) \/ Drop(r)

Spec == Init /\ [][Next]_vars
=============================================================================
