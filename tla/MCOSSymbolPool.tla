--------------------------- MODULE MCOSSymbolPool ---------------------------
(* Instances of OSSymbolPool for TLC. *)
EXTENDS OSSymbolPool, TLC

CONSTANTS alpha, beta, gamma

(* alpha and beta collide in pools of 1 and 3 buckets and part in one of 7. *)
MCHash == [x \in Strings |-> CASE x = alpha -> 0 [] x = beta -> 3 [] OTHER -> 1]

Symmetry == Permutations(Threads) \cup Permutations(Symbols)
=============================================================================
