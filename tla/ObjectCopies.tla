---------------------------- MODULE ObjectCopies ----------------------------
(***************************************************************************)
(* The three ways libkern copies an object graph, composed: written as XML *)
(* or in binary and read back, or copied in memory.  The code that writes  *)
(* and the code that reads meet only in the stream; what they promise      *)
(* together, and nowhere check, is that the graph which comes out is the   *)
(* one that went in.                                                       *)
(*                                                                         *)
(* A serialization during which an allocation failed, whatever it said, is *)
(* followed by clearText and another one.                                  *)
(***************************************************************************)
EXTENDS OSSerialize, OSUnserialize, OSCollectionCopy

CONSTANT Cases   \* what is copied, and how: [graph, removed, format, failures]

VARIABLE before  \* failuresLeft when this serialization began

vars == <<task, phase, stream, heap, result, dying, failuresLeft, before,
          writerVars, readerVars, copyVars>>

(* The references that somebody owns: the items of the objects, what the    *)
(* readers' tables and frames hold, the calls of the deep copy, a cycle     *)
(* dictionary, whatever is about to be released, and the callers.           *)
Times(s, o) == Cardinality({i \in DOMAIN s : s[i] = o})

ItemsOf(h) == FlattenSeq([o \in DOMAIN h |-> h[o].items])

Originals == IF format = "copy" THEN DOMAIN graph ELSE {}

CallerHolds(o) ==
  IF o \in Originals /\ (o = Root \/ Times(ItemsOf(graph), o) = 0) THEN 1 ELSE 0

Owned ==
  ItemsOf(heap) \o dying
  \o objs \o HeldBy(nesting) \o [i \in DOMAIN remembered |-> remembered[i][2]]
  \o FlattenSeq(cycleDict) \o [i \in DOMAIN copying |-> copying[i].copy] \o <<answer.copy>>
  \o (IF phase \in {"releasing", "done"} THEN <<result>> ELSE << >>)

-----------------------------------------------------------------------------
WithCounts(g) ==
  [o \in DOMAIN g |->
     [kind |-> g[o].kind, text |-> g[o].text, items |-> g[o].items,
      count |-> IF g[o].kind = "boolean" THEN 1 ELSE Times(ItemsOf(g), o) + CallerHolds(o)]]

Init ==
  /\ \E c \in Cases :
       /\ graph = c.graph /\ removed = c.removed /\ format = c.format
       /\ failuresLeft = c.failures
  /\ before = failuresLeft
  /\ phase = IF format = "copy" THEN "copying" ELSE "writing"
  /\ heap = IF format = "copy" THEN WithCounts(graph) ELSE << >>
  /\ result = 0 /\ dying = << >>
  /\ NothingWritten /\ NothingRead /\ NothingCopied

(* A serializer in which an allocation failed is cleared and used again; so *)
(* are the reader's tables, for the new text.                               *)
SerializeAgain ==
  /\ phase \in {"failed", "done"} /\ format # "copy" /\ failuresLeft < before
  /\ ClearText
  /\ heap' = << >> /\ result' = 0
  /\ pos' = 1
  /\ before' = failuresLeft
  /\ UNCHANGED <<task, dying, failuresLeft, binaryVars, xmlVars, copyVars>>

Next ==
  \/ WriterNext /\ UNCHANGED <<before, readerVars, copyVars>>
  \/ ReaderNext /\ UNCHANGED <<before, writerVars, copyVars>>
  \/ CopyNext   /\ UNCHANGED <<before, writerVars, readerVars>>
  \/ (ReleaseOne \/ ReleasingEnds) /\ UNCHANGED <<before, writerVars, readerVars, copyVars>>
  \/ SerializeAgain

Spec == Init /\ [][Next]_vars

-----------------------------------------------------------------------------
(* What a copy of the graph has to be. *)

(* The items of n that its copy has, each with its role.  In XML a symbol   *)
(* is a symbol only as a key; in binary the entries the editor drops are    *)
(* missing, and so are those of a dictionary that holds itself.             *)
Role(n, i) == IF format = "xml" /\ IsKeyPosition(graph, n, i) THEN "key" ELSE "value"

Dropped(n, i) ==
  LET k == IF i % 2 = 1 THEN i ELSE i - 1
  IN /\ format = "binary" /\ graph[n].kind = "dict"
     /\ graph[n].items[k] \in removed \/ graph[n].items[k + 1] = n

ExpectedItems(n) ==
  LET kept == {i \in DOMAIN graph[n].items : ~Dropped(n, i)}
  IN [j \in 1..Cardinality(kept) |->
        LET i == CHOOSE x \in kept : Cardinality({y \in kept : y <= x}) = j
        IN <<graph[n].items[i], Role(n, i)>>]

ExpectedKind(n, role) ==
  CASE format = "copy" -> graph[n].kind
    [] graph[n].kind = "other" -> "string"
    [] format = "xml" /\ graph[n].kind = "symbol" /\ role = "value" -> "string"
    [] OTHER -> graph[n].kind

(* The result is a copy: the same kinds, texts and numbers of items all the *)
(* way down, and two ways to one object lead to one object again.  An       *)
(* unserializable object is written as a string each time it is met.        *)
IsCopy ==
  LET matched == Matched(graph, Root, heap, result, ExpectedItems)
  IN /\ \A p \in matched :
          /\ heap[p[3]].kind = ExpectedKind(p[1], p[2])
          /\ heap[p[3]].text = graph[p[1]].text
          /\ Len(heap[p[3]].items) = Len(ExpectedItems(p[1]))
          /\ format = "copy" => (p[3] = p[1] <=> ~IsCollection(graph, p[1]))
     /\ \A p, q \in matched :
          /\ p[3] = q[3] => <<p[1], p[2]>> = <<q[1], q[2]>>
          /\ <<p[1], p[2]>> = <<q[1], q[2]>> =>
               (p[3] = q[3] \/ (graph[p[1]].kind = "other" /\ format # "copy"))

(* Why a faultless serialization may still not be readable: in XML a cycle, *)
(* or more objects or references than the reader takes; in binary more      *)
(* nesting than the reader's stack takes, an empty symbol, or a number of   *)
(* an odd width.                                                            *)
Unreadable ==
  LET all == Reachable(graph, Root)
      sizes == Len(SelectSeq(stream, LAMBDA t : t.t \in {"leaf", "end", "ref"}))
      refs  == Len(SelectSeq(stream, LAMBDA t : t.t = "ref"))
  IN CASE format = "xml" ->
            OnCycle(graph) \cap all # {} \/ sizes > MaxObjects \/ refs > MaxRefs
       [] format = "binary" ->
            \/ HasPath(graph, Root, StackMax)
            \/ \E n \in all : graph[n].kind = "symbol" /\ graph[n].text = << >>
            \/ \E n \in all : graph[n].kind = "number" /\ graph[n].text[1] \notin {8, 16, 32, 64}
       [] OTHER -> FALSE

-----------------------------------------------------------------------------
TypeOK ==
  /\ phase \in {"writing", "failed", "reading", "copying", "releasing", "done"}
  /\ phase = "writing" => format \in {"xml", "binary"}
  /\ ToSet(tags) \subseteq DOMAIN graph \cup {0}
  /\ \A i \in DOMAIN open : IsCollection(graph, open[i].node)
  /\ \A o \in DOMAIN heap : /\ heap[o].count \in Nat
                            /\ ToSet(heap[o].items) \subseteq DOMAIN heap
  /\ {result, parent, current, sym} \subseteq DOMAIN heap \cup {0}
  /\ Len(parents) < StackMax \/ StackMax = 0
  /\ parsed <= MaxObjects /\ retrieved <= MaxRefs

(* When no allocation fails, what is read back, or copied, is the graph     *)
(* that was written, sharing and cycles included; and it is NULL only for   *)
(* one of the reasons above.  The writer numbers the objects as it meets    *)
(* them and the reader as it makes them, and neither can check the other.   *)
CopiesAreFaithful ==
  phase = "done" /\ failuresLeft = before =>
    IF result = 0 THEN Unreadable ELSE IsCopy

(* At every step, also while a text that a failed allocation has cut short  *)
(* is being read, each object is retained exactly as often as somebody      *)
(* holds it: nothing is released early and, but for cycles, nothing leaks.  *)
RetainsAreBalanced ==
  \A o \in DOMAIN heap :
    Counted(heap, o) => heap[o].count = Times(Owned, o) + CallerHolds(o)

=============================================================================
