----------------------------- MODULE KextTable -----------------------------
(***************************************************************************)
(* What registration promises: which of the copies of a kext that came     *)
(* with the kernel, from the booter and from user space is the one that    *)
(* its identifier finds.  A loaded copy stays it until the kext is         *)
(* removed.  Before user space is up the newest copy wins, and afterwards  *)
(* the last one.  What is told of a kext is true of the copy that is       *)
(* found.                                                                  *)
(***************************************************************************)
EXTENDS Integers, Functions

CONSTANTS Ids, None

VARIABLES
  found,    \* the copy that an identifier finds
  version,  \* and its version
  kept,     \* the identifiers whose copy is loaded,
  built,    \* and those whose copy came with the kernel
  users,    \* how many kexts depend on it,
  offers,   \* the identifiers of kexts whose personalities are offered
  late,     \* user space is up
  struck,   \* the identifiers of kexts that came with the kernel and were unloaded
  rebuild,  \* of the prelinked kernel: "no", "asked", or "over"
  told      \* what has just been told of kexts, or None

table == <<found, version, kept, built, late>>
vars == <<table, users, offers, struck, rebuild, told>>

Init ==
  /\ found = [i \in Ids |-> None] /\ version = [i \in Ids |-> 0]
  /\ kept = {} /\ built = {} /\ users = [i \in Ids |-> 0] /\ late = FALSE
  /\ offers = {} /\ struck = {} /\ rebuild = "no" /\ told = None

(* A copy is offered: it loses against one that is loaded or came with the *)
(* kernel, and early on against one that is not older.                     *)
Offer(i) ==
  /\ found'[i] # found[i] /\ found'[i] # None
  /\ i \notin kept \cup built
  /\ found[i] = None \/ late \/ version'[i] > version[i]
  /\ \A j \in Ids \ {i} : found'[j] = found[j] /\ version'[j] = version[j]
  /\ kept' = kept /\ built' \in {built, built \cup {i}} /\ UNCHANGED <<late, struck, rebuild>>

(* What came with the kernel is struck when it is unloaded. *)
Strike == struck \subseteq struck' /\ struck' \subseteq struck \cup built

(* What is not loaded may be forgotten. *)
Forget ==
  /\ found' # found
  /\ \A i \in Ids : \/ found'[i] = found[i] /\ version'[i] = version[i]
                    \/ found'[i] = None /\ i \notin kept
  /\ kept' = kept /\ built' = {i \in built : found'[i] # None} /\ UNCHANGED <<late, rebuild>>
  /\ Strike

Load(i) ==
  /\ kept' # kept
  /\ found[i] # None /\ kept' = kept \cup {i}
  /\ UNCHANGED <<found, version, built, late, struck, rebuild>>

Remove(i) ==
  /\ found'[i] # found[i]
  /\ found' = [found EXCEPT ![i] = None]
  /\ kept' = kept \ {i} /\ built' = built \ {i} /\ UNCHANGED <<late, rebuild>>
  /\ \A j \in Ids \ {i} : version'[j] = version[j]
  /\ Strike /\ struck' \subseteq struck \cup {i}

UserSpaceIsUp == late' = TRUE /\ UNCHANGED <<found, version, kept, built, struck, rebuild>>

(* A new prelinked kernel is asked for once, and for a kext that the one   *)
(* at hand has never had.                                                  *)
Rebuild ==
  /\ rebuild = "no" /\ rebuild' \in {"asked", "over"}
  /\ rebuild' = "asked" => \E i \in Ids : found[i] # None /\ i \notin built \cup struck
  /\ struck' \in {struck, {}} /\ UNCHANGED table

(* An answer about some of the kexts found, each with what was asked for.  *)
Facts(i) == [id |-> i, version |-> version[i], references |-> users[i]]

Tell ==
  /\ told' # None
  /\ \E asked \in SUBSET {"version", "references"} :
       told' \subseteq
         {Restrict(Facts(i), {"id"} \cup asked) : i \in {j \in Ids : found[j] # None}}
  /\ UNCHANGED <<table, users, offers, struck, rebuild>>

(* Kexts come to depend on others and cease to, and personalities come and *)
(* go, which is told elsewhere.                                            *)
Relink == UNCHANGED <<table, struck, rebuild>>

(* Only a kext that is found offers any. *)
Next ==
  \/ /\ told' = None /\ \A i \in offers' \ offers : found[i] # None
     /\ \/ \E i \in Ids : Offer(i) \/ Load(i) \/ Remove(i)
        \/ Forget \/ UserSpaceIsUp \/ Rebuild \/ Relink
  \/ Tell

Spec == Init /\ [][Next]_vars
=============================================================================
