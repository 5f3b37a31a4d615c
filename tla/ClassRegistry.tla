---------------------------- MODULE ClassRegistry ----------------------------
(***************************************************************************)
(* What the dictionary of all classes promises the callers of              *)
(* OSMetaClass::copyMetaClassWithName: a name stands for one class at a    *)
(* time, it is never given to another class while it is taken, and a class *)
(* in use, between copyMetaClassWithName and releaseMetaClass, keeps its   *)
(* name.                                                                   *)
(***************************************************************************)
EXTENDS Integers, Functions

CONSTANTS Classes, NameOf

VARIABLES
  registered,  \* the classes that can be looked up
  users        \* for each class, the callers that are using it

Init ==
  /\ registered = {}
  /\ users = [c \in Classes |-> 0]

(* The classes of one kext, none of whose names is taken, all at once. *)
Register(new) ==
  /\ \A c \in new : \A d \in registered \cup new : NameOf[c] = NameOf[d] => c = d
  /\ registered' = registered \cup new
  /\ UNCHANGED users

Use(c) ==
  /\ c \in registered
  /\ users' = [users EXCEPT ![c] = @ + 1]
  /\ UNCHANGED registered

Done(c) ==
  /\ users[c] > 0
  /\ users' = [users EXCEPT ![c] = @ - 1]
  /\ UNCHANGED registered

Withdraw(old) ==
  /\ \A c \in old : users[c] = 0
  /\ registered' = registered \ old
  /\ UNCHANGED users

Next ==
  \/ \E s \in SUBSET Classes : Register(s) \/ Withdraw(s)
  \/ \E c \in Classes : Use(c) \/ Done(c)

Spec == Init /\ [][Next]_<<registered, users>>
=============================================================================
