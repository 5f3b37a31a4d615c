----------------------------- MODULE ObjectHeap -----------------------------
(***************************************************************************)
(* What the writer, the readers and the deep copy share: the graph they    *)
(* start from, the stream between writer and reader, and the objects made  *)
(* on the way, with their retain counts as the retain and release calls of *)
(* the code leave them.                                                    *)
(***************************************************************************)
EXTENDS ObjectGraph

VARIABLES
  graph,     \* the objects to copy; node 1 is the root
  removed,   \* the dictionary keys whose values the serializer's editor drops
  format,    \* how: "xml", "binary", or "copy" for copyCollection
  phase,     \* "writing", "reading", "copying", "releasing", "done"
  stream,    \* the tokens written
  heap,      \* the objects: [kind, text, items, count]
  result,    \* the object returned; 0: NULL
  dying,     \* the references still to be released, in order
  failuresLeft   \* how many allocations may still fail

task == <<graph, removed, format>>

Root == 1

-----------------------------------------------------------------------------
(* The heap.  OSBoolean overrides taggedRetain and taggedRelease to do      *)
(* nothing; symbols and booleans are shared, one object for each text.      *)

Counted(h, o) == h[o].kind # "boolean"

Plus(h, o, n) == IF Counted(h, o) THEN [h EXCEPT ![o].count = @ + n] ELSE h

Shared(h, kind, text) ==
  {o \in DOMAIN h : /\ kind \in {"symbol", "boolean"} /\ h[o].kind = kind
                    /\ h[o].text = text /\ h[o].count > 0}

(* The object that withCString, withNumber, withCapacity... returns. *)
MakeIndex(h, kind, text) ==
  IF Shared(h, kind, text) # {} THEN CHOOSE o \in Shared(h, kind, text) : TRUE ELSE Len(h) + 1

Make(h, kind, text) ==
  IF Shared(h, kind, text) # {} THEN Plus(h, MakeIndex(h, kind, text), 1)
  ELSE Append(h, [kind |-> kind, text |-> text, items |-> << >>, count |-> 1])

AllocationFails == failuresLeft > 0 /\ failuresLeft' = failuresLeft - 1

(* release(): the last one releases what the object holds. *)
ReleaseOne ==
  /\ phase = "releasing" /\ dying # << >>
  /\ LET o == Head(dying)
         h == Plus(heap, o, -1)
     IN IF h[o].count = 0
        THEN /\ heap' = [h EXCEPT ![o].items = << >>]
             /\ dying' = h[o].items \o Tail(dying)
        ELSE heap' = h /\ dying' = Tail(dying)
  /\ UNCHANGED <<task, phase, stream, result, failuresLeft>>

ReleasingEnds ==
  /\ phase = "releasing" /\ dying = << >>
  /\ phase' = "done"
  /\ UNCHANGED <<task, stream, heap, result, dying, failuresLeft>>
=============================================================================
