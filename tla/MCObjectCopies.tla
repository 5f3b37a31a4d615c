--------------------------- MODULE MCObjectCopies ---------------------------
(***************************************************************************)
(* Object graphs for TLC.  Nodes: 1 is the root and a collection, 2 a      *)
(* collection, 3 a leaf, 4 and 5 symbols, the keys of the dictionaries.    *)
(***************************************************************************)
EXTENDS ObjectCopies

Obj(kind, text, items) == [kind |-> kind, text |-> text, items |-> items]

SymbolA == Obj("symbol", <<"a">>, << >>)
SymbolB == Obj("symbol", <<"b">>, << >>)

Entry(v)     == <<4, v>>
Entries(v, w) == <<4, v, 5, w>>

(* What a collection can hold: up to two of the objects in S. *)
Filled(S) ==
  {Obj("array", << >>, s) : s \in {<< >>} \cup {<<x>> : x \in S} \cup {<<x, y>> : x, y \in S}}
  \cup {Obj("set", << >>, s) : s \in {<< >>} \cup {<<x>> : x \in S}}
  \cup {Obj("set", << >>, <<x, y>>) : x, y \in S}
  \cup {Obj("dict", << >>, Entry(x)) : x \in S}
  \cup {Obj("dict", << >>, Entries(x, y)) : x, y \in S}

Proper(c) == c.kind = "set" => Cardinality(ToSet(c.items)) = Len(c.items)

(* Two collections that may hold each other, themselves, a string, a symbol *)
(* that is also a key.                                                      *)
Linked ==
  {<<c, d, Obj("string", <<"s">>, << >>), SymbolA, SymbolB>> :
     c \in {x \in Filled({1, 2, 3, 4}) : Proper(x) /\ 2 \in ToSet(x.items)},
     d \in {x \in Filled({1, 2, 3}) : Proper(x)}}

(* Three collections that may hold one another. *)
Knotted ==
  {<<c, d, e, SymbolA, SymbolB>> :
     c \in {x \in Filled({2, 3}) : Proper(x) /\ 2 \in ToSet(x.items)},
     d \in {x \in Filled({1, 2, 3}) : Proper(x) /\ 3 \in ToSet(x.items)},
     e \in {x \in Filled({1, 2}) : Proper(x) /\ x.kind # "set"}}

(* Every kind of leaf, once and often in one collection.    *)
Leaves ==
  {Obj("string", t, << >>) : t \in {<< >>, <<"a", "<", "&">>, <<"&", ">">>}}
  \cup {Obj("symbol", t, << >>) : t \in {<< >>, <<"&">>}}
  \cup {Obj("data", t, << >>) : t \in {<< >>, <<255>>, <<1, 128>>, <<77, 97, 110>>, <<0, 254, 3, 201>>}}
  \cup {Obj("number", t, << >>) : t \in {<<32, 5>>, <<12, 5>>}}
  \cup {Obj("boolean", <<"true">>, << >>), Obj("other", <<"c">>, << >>)}

Leafy ==
  {<<Obj("array", << >>, s), Obj("set", << >>, <<3>>), leaf, SymbolA, SymbolB>> :
     s \in {<<3>>, <<3, 3, 3>>, <<2, 3, 2>>, <<3, 2, 3>>, <<3, 3, 3, 3, 3>>, <<5, 4, 3, 4, 5, 2>>}, leaf \in Leaves}
  \cup {<<Obj("dict", << >>, <<4, 3, 5, 3>>), Obj("set", << >>, << >>), leaf, SymbolA, SymbolB>> :
     leaf \in Leaves}
  \cup {<<leaf>> : leaf \in Leaves}

(* Collections in collections, down to more than the reader's stack. *)
Chain(n, last) ==
  [i \in 1..n |-> Obj(IF i % 2 = 0 THEN "set" ELSE "array", << >>,
                      IF i < n THEN <<i + 1>> ELSE last)]
Deep == {Chain(n, s) : n \in 2..5, s \in {<< >>, <<1>>}}

(* Small graphs, on which the allocations fail in all places. *)
Fragile ==
  {<<c, Obj("array", << >>, <<3, 3>>), Obj("string", <<"s">>, << >>), SymbolA, SymbolB>> :
     c \in {Obj("array", << >>, <<2, 3>>), Obj("array", << >>, <<3, 2, 1>>),
            Obj("set", << >>, <<2, 3>>), Obj("dict", << >>, <<4, 2, 5, 3>>),
            Obj("dict", << >>, <<4, 3, 5, 4>>)}}
  \cup {<<Obj("array", << >>, <<2, 3>>), c, Obj(k, <<"s">>, << >>), SymbolA, SymbolB>> :
     c \in {Obj("dict", << >>, <<4, 3, 5, 3>>), Obj("dict", << >>, <<4, 2>>),
            Obj("set", << >>, <<1, 3>>)}, k \in {"string", "other"}}

Case(g, r, f, n) == [graph |-> g, removed |-> r, format |-> f, failures |-> n]

SomeCases ==
  {Case(g, {}, f, 0) : g \in Linked \cup Knotted \cup Leafy \cup Deep, f \in {"xml", "binary"}}
  \cup {Case(g, {4}, "binary", 0) : g \in {x \in Linked \cup Knotted : x[1].kind = "dict"}}
  \cup {Case(g, {}, f, 2) : g \in Fragile, f \in {"xml", "binary"}}
  \cup {Case(g, {}, "copy", 0) : g \in Linked \cup Knotted \cup Deep}
  \cup {Case(g, {}, "copy", 1) : g \in Fragile \cup Deep}
=============================================================================
