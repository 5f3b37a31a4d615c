---------------------------- MODULE RequestLedger ----------------------------
(***************************************************************************)
(* What a kext that asks for resources may rely on: a request ends at most *)
(* once; its callback runs only while the kext does, and is forgotten      *)
(* without a word only when the kext does not.  OSKextRequests.tla         *)
(* implements this with an array of callback records.                      *)
(***************************************************************************)
CONSTANTS Tags, Kexts, None

VARIABLES
  running,   \* the kexts whose code may be called
  owner,     \* the kext that made each request, None before
  outcome    \* of each request

vars == <<running, owner, outcome>>

Init ==
  /\ running = {}
  /\ owner = [t \in Tags |-> None]
  /\ outcome = [t \in Tags |-> "none"]

Starts(k) == running' = running \cup {k} /\ UNCHANGED <<owner, outcome>>

Ask(t, k) ==
  /\ outcome[t] = "none" /\ k \in running
  /\ owner' = [owner EXCEPT ![t] = k]
  /\ outcome' = [outcome EXCEPT ![t] = "pending"]
  /\ UNCHANGED running

Ends(t, how) ==
  /\ outcome[t] = "pending"
  /\ how = "called" => owner[t] \in running
  /\ how = "dropped" => owner[t] \notin running
  /\ outcome' = [outcome EXCEPT ![t] = how]
  /\ UNCHANGED <<running, owner>>

Stops(k) ==
  /\ k \in running /\ running' = running \ {k}
  /\ UNCHANGED <<owner, outcome>>

Next ==
  \/ \E k \in Kexts : Starts(k) \/ Stops(k) \/ (\E t \in Tags : Ask(t, k))
  \/ \E t \in Tags, how \in {"called", "cancelled", "dropped"} : Ends(t, how)

Spec == Init /\ [][Next]_vars
=============================================================================
