-------------------------- MODULE RecursiveMutex --------------------------
(***************************************************************************)
(* What a recursive lock with sleep and wakeup promises: one thread at a   *)
(* time is inside; it may lock again, and leaves with its last unlock; a   *)
(* thread that sleeps steps outside and comes back inside, as deep as it   *)
(* was, once nobody else is there.  IORecursiveLock.tla implements this.   *)
(***************************************************************************)
EXTENDS Naturals

CONSTANTS Threads, MaxDepth

VARIABLES
  depth,        \* the locks each thread has taken and not yet undone
  sleeping      \* the threads inside a sleep

vars == <<depth, sleeping>>

Inside == {t \in Threads : depth[t] > 0 /\ t \notin sleeping}

Init ==
  /\ depth = [t \in Threads |-> 0]
  /\ sleeping = {}

Lock(t) ==
  /\ t \notin sleeping
  /\ Inside \subseteq {t}
  /\ depth[t] < MaxDepth
  /\ depth' = [depth EXCEPT ![t] = @ + 1]
  /\ UNCHANGED sleeping

Unlock(t) ==
  /\ t \in Inside
  /\ depth' = [depth EXCEPT ![t] = @ - 1]
  /\ UNCHANGED sleeping

Sleep(t) ==
  /\ t \in Inside
  /\ sleeping' = sleeping \cup {t}
  /\ UNCHANGED depth

Wake(t) ==
  /\ t \in sleeping
  /\ Inside = {}
  /\ sleeping' = sleeping \ {t}
  /\ UNCHANGED depth

Next == \E t \in Threads : Lock(t) \/ Unlock(t) \/ Sleep(t) \/ Wake(t)

Spec == Init /\ [][Next]_vars
=============================================================================
