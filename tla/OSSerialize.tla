---------------------------- MODULE OSSerialize ----------------------------
(***************************************************************************)
(* The writer: OSSerialize, in its two formats (OSSerialize.cpp and the    *)
(* serialize() of the classes for "xml", OSSerializeBinary.cpp for         *)
(* "binary").  Both walk an object graph depth first and give each object  *)
(* they write an index, its place in the array "tags"; an object that has  *)
(* one already is written as a reference to it.  The recursion of the code *)
(* is the stack "open" of the collections being written.                   *)
(*                                                                         *)
(* An allocation may fail in two places: where the array of tags grows,    *)
(* and where the buffer grows.                                             *)
(***************************************************************************)
EXTENDS ObjectHeap, FiniteSetsExt

VARIABLES
  tags,           \* the objects that have an index, in order; 0: a temporary
  open,           \* the collections being written, outermost first
  endCollection   \* the next token carries the end mark

writerVars == <<tags, open, endCollection>>

-----------------------------------------------------------------------------
(* Text.  Characters are strings, bytes and base64 digits numbers. *)

(* OSString::serialize escapes the three characters XML gives a meaning. *)
Escaped(text) ==
  LET Escape(c) == CASE c = "<" -> <<"&", "l", "t", ";">>
                     [] c = ">" -> <<"&", "g", "t", ";">>
                     [] c = "&" -> <<"&", "a", "m", "p", ";">>
                     [] OTHER   -> <<c>>
  IN FlattenSeq([i \in DOMAIN text |-> Escape(text[i])])

(* OSData::serialize: three bytes become four digits, 64 is the padding '='. *)
Pad == 64
Base64(p) ==
  LET n == Len(p)
      Digits(i) == CASE i % 3 = 1 -> <<p[i] \div 4>>
                     [] i % 3 = 2 -> <<((p[i - 1] * 256 + p[i]) \div 16) % 64>>
                     [] OTHER     -> <<((p[i - 1] * 256 + p[i]) \div 64) % 64, p[i] % 64>>
      tail == CASE n % 3 = 0 -> << >>
                [] n % 3 = 1 -> <<(p[n] * 16) % 64, Pad, Pad>>
                [] OTHER     -> <<(p[n] * 4) % 64, Pad>>
  IN FlattenSeq([i \in 1..n |-> Digits(i)]) \o tail

(* What an object of this kind is called in the XML text: a symbol is an   *)
(* OSString, and a class without a serialize() of its own writes the       *)
(* string "... is not serializable" (OSObject::serialize).                 *)
XMLKind(kind) == IF kind \in {"symbol", "other"} THEN "string" ELSE kind

XMLText(kind, text) ==
  CASE kind \in {"string", "symbol", "other"} -> Escaped(text)
    [] kind = "data" -> Base64(text)
    [] OTHER -> text

Token(t, kind, id, text, last) ==
  [t |-> t, kind |-> kind, id |-> id, text |-> text, last |-> last]

-----------------------------------------------------------------------------
(* Where the walk is. *)

AtKey == open # << >> /\ IsKeyPosition(graph, Last(open).node, Last(open).next)

(* The object a frame is about to write.  When the editor returns NULL for *)
(* an entry, the dictionary itself is written in place of the value.       *)
Item(f) ==
  LET items == graph[f.node].items
  IN IF /\ graph[f.node].kind = "dict" /\ f.next % 2 = 0
        /\ format = "binary" /\ items[f.next - 1] \in removed
     THEN f.node ELSE items[f.next]

Pending == open # << >> => Last(open).next <= Len(graph[Last(open).node].items)

Current == IF open = << >> THEN Root ELSE Item(Last(open))

(* The writer tags the temporary string of an unserializable object, not   *)
(* the object: it is never found again.                                    *)
Tagged(o) == graph[o].kind # "other" /\ Contains(tags, o)
TagOf(o)  == SelectInSeq(tags, LAMBDA x : x = o) - 1
Name(o)   == IF graph[o].kind = "other" THEN 0 ELSE o

(* The state after Current has been written: its collection goes on to the *)
(* next item, or the root is written.                                      *)
Advanced(stack) ==
  IF stack = << >> THEN stack
  ELSE [stack EXCEPT ![Len(stack)] = [@ EXCEPT !.next = @ + 1, !.retry = FALSE]]

Written(stack) ==
  /\ open' = Advanced(stack)
  /\ phase' = IF stack = << >> THEN "reading" ELSE "writing"

Begin(o) == Append(open, [node |-> o, next |-> 1, retry |-> FALSE])

-----------------------------------------------------------------------------
(* XML: each class's serialize(), with previouslySerialized, addXMLStartTag *)
(* and addXMLEndTag.  A failure at any depth makes every level return false.*)

WritingXML == phase = "writing" /\ format = "xml"

XMLFails == phase' = "failed" /\ open' = << >>

(* OSDictionary::serialize writes the key as text; a key gets no index. *)
WriteXMLKey ==
  /\ WritingXML /\ Pending /\ AtKey
  /\ stream' = Append(stream, Token("key", "symbol", -1, Escaped(graph[Current].text), FALSE))
  /\ Written(open)
  /\ UNCHANGED <<tags, endCollection, failuresLeft>>

(* OSBoolean::serialize does not ask previouslySerialized. *)
WriteXMLBoolean ==
  /\ WritingXML /\ Pending /\ ~AtKey /\ graph[Current].kind = "boolean"
  /\ stream' = Append(stream, Token("leaf", "boolean", -1, graph[Current].text, FALSE))
  /\ Written(open)
  /\ UNCHANGED <<tags, endCollection, failuresLeft>>

(* previouslySerialized finds the object and returns true whatever the      *)
(* three addString calls did: none of the reference may have been written,  *)
(* or part of it.                                                           *)
WriteXMLReference ==
  /\ WritingXML /\ Pending /\ ~AtKey /\ Tagged(Current) /\ graph[Current].kind # "boolean"
  /\ \/ /\ stream' = Append(stream, Token("ref", "none", TagOf(Current), << >>, FALSE))
        /\ UNCHANGED failuresLeft
     \/ /\ AllocationFails
        /\ stream' \in {stream, Append(stream, Token("garbled", "none", -1, << >>, FALSE))}
  /\ Written(open)
  /\ UNCHANGED <<tags, endCollection>>

(* previouslySerialized does not find it.  When the array of tags could not *)
(* grow, addXMLStartTag finds no index and writes 4294967295, which the     *)
(* reader takes for -1.                                                     *)
WriteXMLObject ==
  /\ WritingXML /\ Pending /\ ~AtKey /\ ~Tagged(Current) /\ graph[Current].kind # "boolean"
  /\ \E fault \in {"none", "tag", "text"} :
       /\ IF fault = "none" THEN UNCHANGED failuresLeft ELSE AllocationFails
       /\ tags' = IF fault = "tag" THEN tags ELSE Append(tags, Name(Current))
       /\ LET id   == IF fault = "tag" THEN -1 ELSE Len(tags)
              kind == XMLKind(graph[Current].kind)
          IN IF fault = "text" THEN XMLFails /\ UNCHANGED stream
             ELSE IF IsCollection(graph, Current)
             THEN /\ stream' = Append(stream, Token("start", kind, id, << >>, FALSE))
                  /\ open' = Begin(Current)
                  /\ UNCHANGED phase
             ELSE /\ stream' = Append(stream, Token("leaf", kind, id,
                                 XMLText(graph[Current].kind, graph[Current].text), FALSE))
                  /\ Written(open)
  /\ UNCHANGED endCollection

(* The collection is complete: its end tag, and back to the one around it. *)
CloseXML ==
  /\ WritingXML /\ ~Pending
  /\ \/ /\ stream' = Append(stream, Token("end", graph[Last(open).node].kind, -1, << >>, FALSE))
        /\ Written(Front(open))
        /\ UNCHANGED failuresLeft
     \/ AllocationFails /\ XMLFails /\ UNCHANGED stream
  /\ UNCHANGED <<tags, endCollection>>

-----------------------------------------------------------------------------
(* Binary: binarySerialize. *)

WritingBinary == phase = "writing" /\ format = "binary"

(* The end mark of the next token.  It is set before the last item of a    *)
(* collection is written, but neither before a key nor when the item is    *)
(* tried again.                                                            *)
Mark ==
  IF open = << >> \/ AtKey \/ Last(open).retry THEN endCollection
  ELSE Last(open).next = Len(graph[Last(open).node].items)

(* Mutant: a reference leaves the end mark for the next token as well. *)
BugWriteBinaryReference ==
  /\ WritingBinary /\ Pending /\ Tagged(Current)
  /\ stream' = Append(stream, Token("ref", "none", TagOf(Current), << >>, Mark))
  /\ endCollection' = Mark
  /\ Written(open)
  /\ UNCHANGED <<tags, failuresLeft>>

WriteBinaryReference ==
  /\ WritingBinary /\ Pending /\ Tagged(Current)
  /\ stream' = Append(stream, Token("ref", "none", TagOf(Current), << >>, Mark))
  /\ endCollection' = FALSE
  /\ Written(open)
  /\ UNCHANGED <<tags, failuresLeft>>

(* addBinaryObject: when the array of tags cannot grow the object goes into *)
(* the stream all the same.                                                 *)
WriteBinaryObject ==
  /\ WritingBinary /\ Pending /\ ~Tagged(Current)
  /\ \E tagged \in BOOLEAN :
       /\ IF tagged THEN UNCHANGED failuresLeft ELSE AllocationFails
       /\ tags' = IF tagged THEN Append(tags, Name(Current)) ELSE tags
  /\ LET o    == graph[Current]
         kind == IF o.kind = "other" THEN "string" ELSE o.kind
     IN /\ stream' = Append(stream, Token("object", kind, Len(o.items), o.text, Mark))
        /\ IF o.items # << >> THEN open' = Begin(Current) /\ UNCHANGED phase
                              ELSE Written(open)
  /\ endCollection' = FALSE

(* The buffer could not grow.  An object has its tag by then, and the end   *)
(* mark of a reference is gone.  The collection that wrote a value or a     *)
(* member tries it once more, by its serialize(), which comes back to       *)
(* binarySerialize; a collection that wrote a key, or tried twice, fails,   *)
(* and so does an object whose serialize() was the first try already.       *)
BinaryWriteFails ==
  /\ WritingBinary /\ Pending
  /\ AllocationFails
  /\ tags' = IF Tagged(Current) THEN tags ELSE Append(tags, Name(Current))
  /\ endCollection' = (~Tagged(Current) /\ Mark)
  /\ LET TriesAgain(j) == LET f == open[j] IN
           /\ ~f.retry
           /\ ~IsKeyPosition(graph, f.node, f.next)
           /\ graph[Item(f)].kind # "other"
         levels == {j \in DOMAIN open : TriesAgain(j)}
         top    == Max(levels)
     IN IF levels = {} THEN open' = << >> /\ phase' = "failed"
        ELSE /\ open' = [SubSeq(open, 1, top) EXCEPT ![top] = [@ EXCEPT !.retry = TRUE]]
             /\ UNCHANGED phase
  /\ UNCHANGED stream

CloseBinary ==
  /\ WritingBinary /\ ~Pending
  /\ Written(Front(open))
  /\ UNCHANGED <<stream, tags, endCollection, failuresLeft>>

-----------------------------------------------------------------------------
(* clearText, and the same object serialized once more. *)
ClearText ==
  /\ phase' = "writing"
  /\ stream' = << >>
  /\ tags' = << >>
  /\ endCollection' = (format = "binary")
  /\ open' = << >>

NothingWritten ==
  /\ stream = << >> /\ tags = << >> /\ open = << >>
  /\ endCollection = (format = "binary")

WriterNext ==
  /\ \/ WriteXMLKey \/ WriteXMLBoolean \/ WriteXMLReference \/ WriteXMLObject \/ CloseXML
     \/ WriteBinaryReference \/ WriteBinaryObject \/ BinaryWriteFails \/ CloseBinary
  /\ UNCHANGED <<task, heap, result, dying>>
=============================================================================
