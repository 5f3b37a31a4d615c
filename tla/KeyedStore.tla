---------------------------- MODULE KeyedStore ----------------------------
(***************************************************************************)
(* What a dictionary promises: a partial function from keys to values that *)
(* changes one key at a time, takes the entries of another one, or is      *)
(* emptied by a flush.                                                     *)
(* OSDictionary.tla implements this with a sorted or unsorted array.       *)
(***************************************************************************)
EXTENDS Functions

CONSTANTS Keys, Values

VARIABLE map

Stores == UNION {[K -> Values] : K \in SUBSET Keys}

Init == map \in Stores

Put(k, v) ==
  map' = [j \in DOMAIN map \cup {k} |-> IF j = k THEN v ELSE map[j]]

(* The entries of another store; those it has replace what was there.      *)
PutAll(other) ==
  map' = [j \in DOMAIN map \cup DOMAIN other |->
            IF j \in DOMAIN other THEN other[j] ELSE map[j]]

Remove(k) == map' = Restrict(map, DOMAIN map \ {k})

Flush == map' = <<>>

Next ==
  /\ map' # map
  /\ \/ \E k \in Keys : Remove(k) \/ \E v \in Values : Put(k, v)
     \/ \E other \in Stores : PutAll(other)
     \/ Flush

Spec == Init /\ [][Next]_map
=============================================================================
