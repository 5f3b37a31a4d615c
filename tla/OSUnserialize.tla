--------------------------- MODULE OSUnserialize ---------------------------
(***************************************************************************)
(* The readers: OSUnserializeBinary (OSSerializeBinary.cpp) and            *)
(* OSUnserializeXML (OSUnserializeXML.cpp, generated from the .y file of   *)
(* the same name), each a loop over the tokens of "stream".  The objects   *)
(* they make are in "heap", with their retain counts as the code's retain  *)
(* and release calls leave them.                                           *)
(*                                                                         *)
(* In the binary format each object is retained once by the table "objs",  *)
(* and the collections being read are the stack "parents".  In XML an      *)
(* object is retained by the parser's object_t of its element, kept here   *)
(* in the frames of "nesting", and by "remembered", the dictionary of IDs. *)
(***************************************************************************)
EXTENDS ObjectHeap, Folds, FiniteSetsExt

CONSTANTS
  StackMax,     \* OSUnserializeBinary's stackCapacityMax
  MaxObjects,   \* MAX_OBJECTS
  MaxRefs       \* MAX_REFED_OBJECTS

ASSUME ReaderBounds == {StackMax, MaxObjects, MaxRefs} \subseteq Nat

VARIABLES
  pos,          \* the next token
  objs,         \* binary: the objects made, by index
  parents,      \* binary: stackArray; 0: a collection that takes no more
  parent,       \* binary: the collection to come back to; 0: none
  current,      \* binary: dict, array or set, the collection being filled
  sym,          \* binary: the key read for the next value; 0: none
  nesting,      \* xml: the collections being parsed, outermost first
  remembered,   \* xml: pairs <<ID, object>>, in the order they were closed
  parsed,       \* xml: parsedObjectCount
  retrieved     \* xml: retrievedObjectCount

binaryVars == <<objs, parents, parent, current, sym>>
xmlVars    == <<nesting, remembered, parsed, retrieved>>
readerVars == <<pos, binaryVars, xmlVars>>

-----------------------------------------------------------------------------
(* Text, read back. *)

(* getString *)
Unescaped(text) ==
  LET Meaning(i) == CASE text[i + 1] = "l" -> "<" [] text[i + 1] = "g" -> ">" [] OTHER -> "&"
      (* <<characters, how many of the next ones belong to an entity>> *)
      Step(acc, i) ==
        IF acc[2] > 0 THEN <<acc[1], acc[2] - 1>>
        ELSE IF text[i] # "&" THEN <<Append(acc[1], text[i]), 0>>
        ELSE <<Append(acc[1], Meaning(i)), IF Meaning(i) = "&" THEN 4 ELSE 3>>
  IN FoldLeftDomain(Step, << << >>, 0>>, text)[1]

(* getCFEncodedData: "digits" are those since the last group of four, the   *)
(* padding has the value 0, and a run of n '=' drops the last n bytes.      *)
Decoded(chars) ==
  LET Value(c) == IF c = 64 THEN 0 ELSE c
      Step(acc, c) ==
        LET digits == Append(acc.digits, Value(c))
            equals == IF c = 64 THEN acc.equals + 1 ELSE 0
            word   == ((digits[1] * 64 + digits[2]) * 64 + digits[3]) * 64 + digits[4]
            bytes  == <<word \div 65536, (word \div 256) % 256, word % 256>>
        IN IF Len(digits) < 4
           THEN [acc EXCEPT !.digits = digits, !.equals = equals]
           ELSE [digits |-> << >>, equals |-> equals,
                 bytes |-> acc.bytes \o SubSeq(bytes, 1, 3 - Min({equals, 2}))]
  IN FoldLeft(Step, [digits |-> << >>, equals |-> 0, bytes |-> << >>], chars).bytes

ParsedText(kind, text) ==
  CASE kind \in {"string", "symbol"} -> Unescaped(text)
    [] kind = "data" -> Decoded(text)
    [] OTHER -> text

-----------------------------------------------------------------------------
(* The binary reader: one iteration of its loop per action. *)

ReadingBinary == phase = "reading" /\ format = "binary"

(* Mutant: the loop at the end starts at 0, whatever is returned. *)
BugBinaryReturns(h, table, o) ==
  /\ phase' = "releasing"
  /\ heap' = h
  /\ result' = o
  /\ objs' = << >>
  /\ dying' = table
  /\ parents' = << >> /\ parent' = 0 /\ current' = 0 /\ sym' = 0
  /\ UNCHANGED <<pos, xmlVars>>

(* At the end every object in the table is released, but for the first     *)
(* when it is returned.                                                    *)
BinaryReturns(h, table, o) ==
  /\ phase' = "releasing"
  /\ heap' = h
  /\ result' = o
  /\ objs' = << >>
  /\ dying' = IF o = 0 THEN table ELSE Tail(table)
  /\ parents' = << >> /\ parent' = 0 /\ current' = 0 /\ sym' = 0
  /\ UNCHANGED <<pos, xmlVars>>

(* The token makes no object: the stream has ended, the index of a         *)
(* reference is not below objsIdx, a symbol has no character before its    *)
(* NUL (len < 2), or a number is not 8, 16, 32 or 64 bits wide.            *)
MakesNothing(token) ==
  CASE token.t = "ref" -> token.id >= Len(objs)
    [] token.kind = "symbol" -> token.text = << >>
    [] token.kind = "number" -> token.text[1] \notin {8, 16, 32, 64}
    [] OTHER -> FALSE

BinaryGivesUp ==
  /\ ReadingBinary
  /\ IF pos > Len(stream) THEN TRUE ELSE MakesNothing(stream[pos])
  /\ BinaryReturns(heap, objs, 0)

(* dict->setObject, array->setObject and set->setObject retain what they    *)
(* take; the dictionary releases a value it replaces, and a set refuses a   *)
(* member it has.                                                           *)
PutInDictionary(h, d, k, v) ==
  LET items == h[d].items
      keys  == {i \in DOMAIN items : i % 2 = 1 /\ items[i] = k}
      kept  == Plus(h, v, 1)
  IN IF keys = {} THEN Plus([kept EXCEPT ![d].items = items \o <<k, v>>], k, 1)
     ELSE LET i == Min(keys) + 1
          IN Plus([kept EXCEPT ![d].items[i] = v], items[i], -1)

Put(h, c, o) == Plus([h EXCEPT ![c].items = Append(@, o)], o, 1)

(* The key of an entry: the symbol read, or the symbol of the string read,  *)
(* which is released once the dictionary has retained it.  Anything else    *)
(* is no key, and setObject refuses it.                                     *)
IsKey(h, o) == h[o].kind \in {"symbol", "string"}

SetEntry(h, d, k, v) ==
  IF h[k].kind = "symbol" THEN PutInDictionary(h, d, k, v)
  ELSE LET made   == Make(h, "symbol", h[k].text)
           symbol == MakeIndex(h, "symbol", h[k].text)
       IN Plus(PutInDictionary(made, d, symbol, v), symbol, -1)

(* What one object does to the collection being filled: whether it is       *)
(* taken, and the heap after.  A dictionary ignores itself as a value: that *)
(* is how the writer says that its editor dropped the entry.                *)
Taken(h, o) ==
  LET kind == IF current = 0 THEN "none" ELSE h[current].kind IN
  CASE kind = "dict" /\ sym = 0       -> [ok |-> TRUE, heap |-> h]
    [] kind = "dict" /\ o = current   -> [ok |-> TRUE, heap |-> h]
    [] kind = "dict" /\ sym # 0       -> IF IsKey(h, sym)
                                         THEN [ok |-> TRUE, heap |-> SetEntry(h, current, sym, o)]
                                         ELSE [ok |-> FALSE, heap |-> h]
    [] kind = "array"                 -> [ok |-> TRUE, heap |-> Put(h, current, o)]
    [] kind = "set"                   -> [ok |-> ~Contains(h[current].items, o),
                                          heap |-> IF Contains(h[current].items, o) THEN h
                                                   ELSE Put(h, current, o)]
    [] OTHER                          -> [ok |-> result = 0, heap |-> h]

(* The collections still to be filled after one has got its last item: back *)
(* to the innermost that takes more.                                        *)
Unfinished(stack) == {i \in DOMAIN stack : stack[i] # 0}

ReadBinaryToken ==
  /\ ReadingBinary
  /\ IF pos > Len(stream) THEN FALSE ELSE ~MakesNothing(stream[pos])
  /\ LET token == stream[pos]
         isRef == token.t = "ref"
         o     == IF isRef THEN objs[token.id + 1] ELSE MakeIndex(heap, token.kind, token.text)
         made  == IF isRef THEN heap ELSE Make(heap, token.kind, token.text)
         table == IF isRef THEN objs ELSE Append(objs, o)
         taken == Taken(made, o)
         root  == IF current = 0 THEN o ELSE result
         newCollect == ~isRef /\ token.kind \in Collections /\ token.id # 0
         back  == IF token.last THEN 0 ELSE parent
         left  == Unfinished(parents)
     IN CASE ~taken.ok -> BinaryReturns(taken.heap, table, 0)
          [] taken.ok /\ newCollect /\ Len(parents) + 1 >= StackMax ->
               BinaryReturns(taken.heap, table, 0)
          [] taken.ok /\ ~newCollect /\ token.last /\ left = {} ->
               BinaryReturns(taken.heap, table, root)
          [] OTHER ->
               /\ heap' = taken.heap
               /\ objs' = table
               /\ result' = root
               /\ pos' = pos + 1
               /\ sym' = IF current # 0 /\ taken.heap[current].kind = "dict" /\ sym = 0 THEN o
                         ELSE IF current # 0 /\ taken.heap[current].kind = "dict" THEN 0 ELSE sym
               /\ IF newCollect
                  THEN parents' = Append(parents, back) /\ parent' = o /\ current' = o
                  ELSE IF token.last
                  THEN /\ parents' = SubSeq(parents, 1, Max(left) - 1)
                       /\ parent' = parents[Max(left)]
                       /\ current' = parents[Max(left)]
                  ELSE UNCHANGED <<parents, parent, current>>
               /\ UNCHANGED <<phase, dying, xmlVars>>

-----------------------------------------------------------------------------
(* The XML reader: yylex gives a token, and the grammar's actions use it.   *)

ReadingXML == phase = "reading" /\ format = "xml"

InDictionary == nesting # << >> /\ Last(nesting).kind = "dict"

(* Where the grammar allows a value, a key, and an end tag. *)
TakesValue     == InDictionary => Last(nesting).key # 0
TakesKey       == InDictionary /\ Last(nesting).key = 0
TakesEnd(kind) == nesting # << >> /\ Last(nesting).kind = kind /\ Last(nesting).key = 0

(* cleanupObjects and tags->release() release what the object_t's and the   *)
(* dictionary of IDs still hold.  "more" is held by an object_t that is not *)
(* an element yet.                                                          *)
HeldBy(frames) ==
  FlattenSeq([i \in DOMAIN frames |->
    frames[i].items \o (IF frames[i].key = 0 THEN << >> ELSE <<frames[i].key>>)])

XMLReturns(h, o, frames, more, table) ==
  /\ phase' = "releasing"
  /\ heap' = h
  /\ result' = o
  /\ dying' = HeldBy(frames) \o more \o [i \in DOMAIN table |-> table[i][2]]
  /\ nesting' = << >> /\ remembered' = << >> /\ parsed' = 0 /\ retrieved' = 0
  /\ UNCHANGED <<pos, binaryVars>>

(* A reduction to "object": it is the whole text, or an element of the      *)
(* collection around it.  A key must not come twice in a dictionary.        *)
Twice(frame) ==
  frame.kind = "dict" /\ \E i \in DOMAIN frame.items : i % 2 = 1 /\ frame.items[i] = frame.key

WithElement(frame, o) ==
  [frame EXCEPT !.items = @ \o (IF frame.kind = "dict" THEN <<frame.key, o>> ELSE <<o>>),
                !.key = 0]

Reduce(h, o, frames, table, refs) ==
  IF parsed + 1 > MaxObjects \/ refs > MaxRefs
  THEN XMLReturns(h, 0, frames, <<o>>, table)
  ELSE IF frames = << >> THEN XMLReturns(h, o, frames, << >>, table)
  ELSE IF Twice(Last(frames)) THEN XMLReturns(h, 0, frames, <<o>>, table)
  ELSE /\ heap' = h
       /\ nesting' = Append(Front(frames), WithElement(Last(frames), o))
       /\ remembered' = table
       /\ parsed' = parsed + 1
       /\ retrieved' = refs
       /\ pos' = pos + 1
       /\ UNCHANGED <<phase, result, dying, binaryVars>>

(* rememberObject: the dictionary of IDs retains the object. *)
RememberedIn(table, id, o) == IF id >= 0 THEN Append(table, <<id, o>>) ELSE table
Remember(h, id, o)         == IF id >= 0 THEN Plus(h, o, 1) ELSE h

ReadStart ==
  /\ ReadingXML /\ pos <= Len(stream) /\ stream[pos].t = "start" /\ TakesValue
  /\ nesting' = Append(nesting, [kind |-> stream[pos].kind, id |-> stream[pos].id,
                                 key |-> 0, items |-> << >>])
  /\ pos' = pos + 1
  /\ UNCHANGED <<phase, heap, result, binaryVars, remembered, parsed, retrieved, dying>>

(* buildString, buildData, buildNumber and buildBoolean *)
ReadLeaf ==
  /\ ReadingXML /\ pos <= Len(stream) /\ stream[pos].t = "leaf" /\ TakesValue
  /\ LET token == stream[pos]
         text  == ParsedText(token.kind, token.text)
         o     == MakeIndex(heap, token.kind, text)
     IN Reduce(Remember(Make(heap, token.kind, text), token.id, o), o, nesting,
               RememberedIn(remembered, token.id, o), retrieved)

(* buildSymbol *)
ReadKey ==
  /\ ReadingXML /\ pos <= Len(stream) /\ stream[pos].t = "key" /\ TakesKey
  /\ LET text == ParsedText("symbol", stream[pos].text)
     IN /\ heap' = Make(heap, "symbol", text)
        /\ nesting' = Append(Front(nesting), [Last(nesting) EXCEPT
                                                !.key = MakeIndex(heap, "symbol", text)])
  /\ pos' = pos + 1
  /\ UNCHANGED <<phase, result, binaryVars, remembered, parsed, retrieved, dying>>

(* buildDictionary, buildArray and buildSet: the collection retains its     *)
(* elements and their object_t's let them go, so the references move.  (A   *)
(* set would drop a second occurrence; the set that was written had none.)  *)
ReadEnd ==
  /\ ReadingXML /\ pos <= Len(stream) /\ stream[pos].t = "end" /\ TakesEnd(stream[pos].kind)
  /\ LET frame == Last(nesting)
         o     == Len(heap) + 1
         h     == Append(heap, [kind |-> frame.kind, text |-> << >>, items |-> frame.items, count |-> 1])
     IN Reduce(Remember(h, frame.id, o), o, Front(nesting),
               RememberedIn(remembered, frame.id, o), retrieved)

(* A reference: the object is retained for the new element.  Only what has  *)
(* been closed is remembered: a collection cannot refer to itself.          *)
ReadReference ==
  /\ ReadingXML /\ pos <= Len(stream) /\ stream[pos].t = "ref" /\ TakesValue
  /\ LET found == {i \in DOMAIN remembered : remembered[i][1] = stream[pos].id}
         o     == remembered[Max(found)][2]
     IN IF found = {} THEN XMLReturns(heap, 0, nesting, << >>, remembered)
        ELSE Reduce(Plus(heap, o, 1), o, nesting, remembered, retrieved + 1)

(* yyerror: the text ends, or the token is none the grammar allows here. *)
Unexpected(token) ==
  CASE token.t \in {"start", "leaf", "ref"} -> ~TakesValue
    [] token.t = "key" -> ~TakesKey
    [] token.t = "end" -> ~TakesEnd(token.kind)
    [] OTHER -> TRUE

SyntaxError ==
  /\ ReadingXML
  /\ IF pos > Len(stream) THEN TRUE ELSE Unexpected(stream[pos])
  /\ XMLReturns(heap, 0, nesting, << >>, remembered)

-----------------------------------------------------------------------------
NothingRead ==
  /\ pos = 1
  /\ objs = << >> /\ parents = << >> /\ parent = 0 /\ current = 0 /\ sym = 0
  /\ nesting = << >> /\ remembered = << >> /\ parsed = 0 /\ retrieved = 0

ReaderNext ==
  /\ \/ BinaryGivesUp \/ ReadBinaryToken
     \/ ReadStart \/ ReadLeaf \/ ReadKey \/ ReadEnd \/ ReadReference \/ SyntaxError
  /\ UNCHANGED <<task, stream, failuresLeft>>
=============================================================================
