---------------------------- MODULE SymbolTable ----------------------------
(***************************************************************************)
(* What OSSymbol promises: at any time a string has at most one live       *)
(* symbol, a symbol stands for one string from its creation to its death,  *)
(* and a string's symbol changes only by dying first.                      *)
(***************************************************************************)
CONSTANTS Strings, Symbols, None

VARIABLE entry         \* the live symbol of each string, or None

Init == entry = [x \in Strings |-> None]

(* A symbol that stands for nothing becomes the symbol of a string. *)
Create(x, s) ==
  /\ entry[x] = None
  /\ \A y \in Strings : entry[y] # s
  /\ entry' = [entry EXCEPT ![x] = s]

(* The last reference to the symbol of a string goes away. *)
Die(x) ==
  /\ entry[x] # None
  /\ entry' = [entry EXCEPT ![x] = None]

(* A step changes the table; others are stuttering steps. *)
Next ==
  /\ entry' # entry
  /\ \E x \in Strings : Die(x) \/ \E s \in Symbols : Create(x, s)

Spec == Init /\ [][Next]_entry
=============================================================================
