---------------------------- MODULE KextLifecycle ----------------------------
(***************************************************************************)
(* What the loading of kexts keeps: a kext enters the kernel after the     *)
(* kexts it is linked against, none of which stops or leaves before it,    *)
(* and it starts after those of them whose own libraries are parts of the  *)
(* kernel.  OSKextLoad.tla implements this with recursion over             *)
(* dependencies and counts of references.                                  *)
(***************************************************************************)
CONSTANTS Kexts, Kernel,
  Passive     \* the kexts with nothing to start

VARIABLES
  loaded,     \* the kexts in memory
  started,    \* those whose code runs
  links       \* the kexts each one in memory is linked against

vars == <<loaded, started, links>>

Init == loaded = {Kernel} /\ started = {Kernel} /\ links = [k \in Kexts |-> {}]

Load(k) ==
  /\ k \notin loaded
  /\ loaded' = loaded \cup {k}
  /\ links'[k] \subseteq loaded
  /\ links' = [links EXCEPT ![k] = links'[k]]
  /\ UNCHANGED started

(* What runs is in memory, and so are its libraries.  They run too, but    *)
(* for those that have libraries with code themselves: when one of these   *)
(* fails to start, its client is passed over, and what needs the client is *)
(* started all the same.                                                   *)
Start(k) ==
  /\ k \in loaded \ Passive
  /\ \A j \in links[k] \ (started \cup Passive) : links[j] \ Passive # {}
  /\ started' = started \cup {k}
  /\ UNCHANGED <<loaded, links>>

Clients(k) == {j \in loaded : k \in links[j]}

Stop(k) ==
  /\ k # Kernel /\ Clients(k) = {}
  /\ started' = started \ {k}
  /\ UNCHANGED <<loaded, links>>

Unload(k) ==
  /\ k \notin started /\ Clients(k) = {}
  /\ loaded' = loaded \ {k}
  /\ links' = [links EXCEPT ![k] = {}]
  /\ UNCHANGED started

Next == \E k \in Kexts : Load(k) \/ Start(k) \/ Stop(k) \/ Unload(k)

Spec == Init /\ [][Next]_vars
=============================================================================
