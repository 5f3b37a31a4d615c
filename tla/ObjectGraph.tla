---------------------------- MODULE ObjectGraph ----------------------------
(***************************************************************************)
(* Graphs of libkern objects, as the serializers and the deep copy see     *)
(* them: a function from nodes to records [kind, text, items].  "items" is *)
(* the sequence of the objects a collection holds, in order; those of a    *)
(* dictionary alternate, a key (always an OSSymbol) and its value.  "text" *)
(* is what a leaf says: the characters of a string, the bytes of a data    *)
(* object, the size and value of a number.  Nothing here models code: the  *)
(* module says what it means that one graph is a copy of another.          *)
(***************************************************************************)
EXTENDS Integers, Sequences, SequencesExt, FiniteSets

Collections == {"dict", "array", "set"}

IsCollection(g, n) == g[n].kind \in Collections

IsKeyPosition(g, n, i) == g[n].kind = "dict" /\ i % 2 = 1

Successors(g, S) == S \cup UNION {ToSet(g[n].items) : n \in S}

(* The nodes reachable from root.  A path that reaches a node is no longer *)
(* than the number of nodes.                                               *)
Reachable(g, root) ==
  LET near[k \in 0..Cardinality(DOMAIN g)] ==
        IF k = 0 THEN {root} ELSE LET S == near[k - 1] IN Successors(g, S)
  IN near[Cardinality(DOMAIN g)]

(* The nodes that lie on a cycle. *)
OnCycle(g) == {n \in DOMAIN g : \E m \in ToSet(g[n].items) : n \in Reachable(g, m)}

(* The pairs <<node, role, copy>> that a walk of both graphs in step meets, *)
(* where Items(n) is what the copy of n has to hold: a sequence of pairs    *)
(* <<node, role>>.                                                          *)
Matched(g, root, h, top, Items(_)) ==
  LET Step(S) ==
        S \cup UNION {LET here  == Items(p[1])
                          there == h[p[3]].items
                      IN {<<here[i][1], here[i][2], there[i]>> :
                            i \in DOMAIN here \cap DOMAIN there} : p \in S}
      bound == 2 * Cardinality(DOMAIN g)
      near[k \in 0..bound] ==
        IF k = 0 THEN {<<root, "value", top>>} ELSE LET S == near[k - 1] IN Step(S)
  IN near[bound]

(* A simple path of k nonempty collections starts at root. *)
HasPath(g, root, k) ==
  \E p \in [1..k -> {n \in DOMAIN g : IsCollection(g, n) /\ g[n].items # << >>}] :
    /\ p[1] = root
    /\ \A i, j \in 1..k : i # j => p[i] # p[j]
    /\ \A i \in 1..(k - 1) : p[i + 1] \in ToSet(g[p[i]].items)
=============================================================================
