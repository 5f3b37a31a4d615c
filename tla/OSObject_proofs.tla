--------------------------- MODULE OSObject_proofs ---------------------------
(***************************************************************************)
(* Proofs about OSObject for every number of threads, references and self  *)
(* references, and every width of the count.                               *)
(***************************************************************************)
EXTENDS OSObject, FiniteSetTheorems, TLAPS

(* A thread in the loop is in a call, a thread elsewhere is not; what it   *)
(* releases it holds, and what it retains it holds already.                *)
CallOK ==
  \A t \in Threads :
    /\ call[t].op = "none" <=> pc[t] \notin {"read", "swap"}
    /\ call[t].op = "release" =>
         /\ call[t].ref \in Refs \ SelfRefs
         /\ holder[call[t].ref] = t
         /\ tag[call[t].ref] = call[t].tag
    /\ call[t].op = "retain" => \E r \in Refs \ SelfRefs : holder[r] = t
    /\ pc[t] = "swap" => orig[t].total \notin {FREEING, PEGGED}

(* The object keeps its own references until it frees itself, and clients  *)
(* never hold them.                                                        *)
SelfOK ==
  /\ \A r \in SelfRefs :
       /\ holder[r] \in {"self", NoOne}
       /\ word.total # FREEING => holder[r] = "self"
  /\ \A r \in Refs \ SelfRefs : holder[r] # "self"

(* The phases of free(). *)
FreeOK ==
  /\ mem = "deleted" => word.total = FREEING /\ ~linked
  /\ ~linked => word.total = FREEING /\ \A t \in Threads : call[t].op # "tryRetain"
  /\ \A t \in Threads : pc[t] = "delete" => ~linked

IInv ==
  /\ TypeOK
  /\ IsFiniteSet(Live)
  /\ CallOK
  /\ SelfOK
  /\ FreeOK
  /\ CountIsExact
  /\ word.total = FREEING => ClientRefs = {}
  /\ FreedOnce
  /\ NoPanic

-----------------------------------------------------------------------------
(* A new reference adds one element to Live, and to InCollection exactly   *)
(* when it is taken with the collection tag.                               *)
LEMMA TakeCounts ==
  ASSUME TypeOK, IsFiniteSet(Live), NEW t \in Threads, NEW g \in Tags, NEW r \in Refs,
         TakeRef(t, r, g)
  PROVE  /\ Live' = Live \cup {r}
         /\ r \notin Live
         /\ IsFiniteSet(Live')
         /\ Cardinality(Live') = Cardinality(Live) + 1
         /\ Cardinality(InCollection') =
              Cardinality(InCollection) + (IF g = "collection" THEN 1 ELSE 0)
<1>1. Live' = Live \cup {r} /\ r \notin Live
  BY HolderAssumption DEF TypeOK, Live, TakeRef
<1>2. IsFiniteSet(Live') /\ Cardinality(Live') = Cardinality(Live) + 1
  BY <1>1, FS_AddElement
<1>3. IsFiniteSet(InCollection) /\ InCollection \subseteq Live
  BY FS_Subset DEF InCollection
<1>4. InCollection' = IF g = "collection" THEN InCollection \cup {r} ELSE InCollection
  <2>1. \A q \in Live : tag'[q] = tag[q]
    BY <1>1 DEF TypeOK, TakeRef, Live
  <2>2. tag'[r] = g
    BY DEF TypeOK, TakeRef
  <2> QED BY <1>1, <2>1, <2>2 DEF InCollection, Tags
<1>5. r \notin InCollection
  BY <1>1, <1>3
<1>6. Cardinality(InCollection) \in Nat
  BY <1>3, FS_CardinalityType
<1>7. CASE g = "collection"
  BY <1>1, <1>2, <1>3, <1>4, <1>5, <1>7, FS_AddElement
<1>8. CASE g # "collection"
  BY <1>1, <1>2, <1>4, <1>6, <1>8
<1> QED BY <1>7, <1>8

(* A dropped reference takes one element away in the same manner. *)
LEMMA DropCounts ==
  ASSUME TypeOK, IsFiniteSet(Live), NEW r \in Live, DropRef(r), tag' = tag
  PROVE  /\ Live' = Live \ {r}
         /\ IsFiniteSet(Live')
         /\ Cardinality(Live) \in Nat /\ Cardinality(Live) >= 1
         /\ Cardinality(Live') = Cardinality(Live) - 1
         /\ Cardinality(InCollection') =
              Cardinality(InCollection) - (IF tag[r] = "collection" THEN 1 ELSE 0)
         /\ Cardinality(InCollection') \in Nat
         /\ Cardinality(InCollection') <= Cardinality(Live')
         /\ tag[r] = "collection" => Cardinality(InCollection) >= 1
<1>1. Live' = Live \ {r}
  BY DEF TypeOK, Live, DropRef
<1>2. /\ IsFiniteSet(Live') /\ Cardinality(Live') = Cardinality(Live) - 1
      /\ Cardinality(Live') \in Nat /\ Cardinality(Live) \in Nat
  BY <1>1, FS_RemoveElement, FS_CardinalityType
<1>3. IsFiniteSet(InCollection) /\ InCollection \subseteq Live
  BY FS_Subset DEF InCollection
<1>4. InCollection' = IF tag[r] = "collection" THEN InCollection \ {r} ELSE InCollection
  BY <1>1 DEF InCollection
<1>5. tag[r] = "collection" <=> r \in InCollection
  BY DEF InCollection
<1>6. Cardinality(InCollection) \in Nat
  BY <1>3, FS_CardinalityType
<1>7. IsFiniteSet(InCollection') /\ InCollection' \subseteq Live'
  BY <1>2, FS_Subset DEF InCollection
<1>8. Cardinality(InCollection') \in Nat /\ Cardinality(InCollection') <= Cardinality(Live')
  BY <1>2, <1>7, FS_Subset, FS_CardinalityType
<1>9. CASE tag[r] = "collection"
  <2>1. Cardinality(InCollection') = Cardinality(InCollection) - 1
    BY <1>3, <1>4, <1>5, <1>9, FS_RemoveElement
  <2>2. Cardinality(Live) >= 1 /\ Cardinality(InCollection) >= 1
    BY <1>2, <1>6, <1>8, <2>1
  <2> QED BY <1>1, <1>2, <1>8, <1>9, <2>1, <2>2
<1>10. CASE tag[r] # "collection"
  BY <1>1, <1>2, <1>4, <1>6, <1>8, <1>10
<1> QED BY <1>9, <1>10

-----------------------------------------------------------------------------
LEMMA InitInvariant == Init => IInv
<1> SUFFICES ASSUME Init PROVE IInv
  OBVIOUS
<1>1. PICK t0 \in Threads, r0 \in Refs \ SelfRefs :
        holder = [q \in Refs |-> IF q = r0 THEN t0
                                 ELSE IF q \in SelfRefs THEN "self" ELSE NoOne]
  BY DEF Init
<1>2. Live = SelfRefs \cup {r0}
  BY <1>1, SelfAssumption, HolderAssumption DEF Live
<1>3. /\ IsFiniteSet(Live) /\ Cardinality(Live) = FreeWhen
      /\ FreeWhen \in Nat /\ FreeWhen < PEGGED /\ FreeWhen >= 1
  BY <1>2, FS_AddElement, FS_CardinalityType, SelfAssumption, HalfAssumption
  DEF FreeWhen, PEGGED
<1>4. InCollection = {} /\ Cardinality(InCollection) = 0
  <2>1. InCollection = {}
    BY DEF Init, InCollection, Live
  <2> QED BY <2>1, FS_EmptySet
<1>5. word.total \in 0 .. Half - 1 /\ word.total # FREEING /\ word.coll = 0
  BY <1>3, HalfAssumption DEF Init, FREEING, PEGGED
<1>6. TypeOK
  BY <1>1, <1>5, HalfAssumption DEF Init, TypeOK, Words, Tags, ops, NoCall, NoWord
<1>7. CallOK
  BY DEF Init, CallOK, NoCall
<1>8. SelfOK
  BY <1>1, HolderAssumption, SelfAssumption DEF SelfOK
<1>9. FreeOK /\ FreedOnce /\ NoPanic
  BY <1>5 DEF Init, FreeOK, FreedOnce, NoPanic
<1>10. CountIsExact
  BY <1>3, <1>4 DEF Init, CountIsExact
<1> QED BY <1>3, <1>5, <1>6, <1>7, <1>8, <1>9, <1>10 DEF IInv

-----------------------------------------------------------------------------
LEMMA Codes ==
  /\ FREEING \in Nat /\ PEGGED \in Nat /\ FREEING = PEGGED + 1 /\ PEGGED >= 2
  /\ FREEING < Half /\ FreeWhen \in Nat /\ FreeWhen >= 1 /\ FreeWhen < PEGGED
BY HalfAssumption, SelfAssumption, FS_CardinalityType DEF FREEING, PEGGED, FreeWhen

(* While a thread is about to retain, or inside a release, the object is   *)
(* not being freed: that thread holds a reference.                         *)
LEMMA HoldersKeepAlive ==
  ASSUME IInv, NEW t \in Threads, NEW r \in Refs, Holds(t, r)
  PROVE  /\ r \in Refs \ SelfRefs /\ r \in Live /\ r \in ClientRefs
         /\ word.total # FREEING
         /\ mem = "allocated" /\ linked
<1>1. r \in Live
  BY HolderAssumption DEF Live, Holds
<1>2. r \notin SelfRefs
  BY HolderAssumption DEF IInv, SelfOK, Holds
<1>3. r \in ClientRefs
  BY <1>1, <1>2 DEF ClientRefs
<1>4. word.total # FREEING
  BY <1>3 DEF IInv
<1> QED BY <1>1, <1>2, <1>3, <1>4 DEF IInv, FreeOK, TypeOK

LEMMA CallersKeepAlive ==
  ASSUME IInv, NEW t \in Threads, call[t].op \in {"retain", "release"}
  PROVE  word.total # FREEING /\ mem = "allocated" /\ linked
<1>1. PICK r \in Refs : Holds(t, r)
  BY DEF IInv, CallOK, Holds
<1> QED BY <1>1, HoldersKeepAlive

(* Steps that leave the word, the references and free() alone keep IInv as *)
(* long as they keep the calls and the program counters well formed.       *)
LEMMA QuietStep ==
  ASSUME IInv, TypeOK', CallOK', UNCHANGED <<word, holder, tag, linked, mem>>,
         \A t \in Threads : /\ pc[t] \in {"free", "delete"} <=> pc'[t] \in {"free", "delete"}
                            /\ pc'[t] = "delete" => pc[t] = "delete"
                            /\ pc'[t] # "panic",
         ~linked => \A t \in Threads : call'[t].op # "tryRetain"
  PROVE  IInv'
<1>1. Live' = Live /\ InCollection' = InCollection /\ ClientRefs' = ClientRefs
  BY DEF Live, InCollection, ClientRefs
<1>2. SelfOK' /\ CountIsExact' /\ IsFiniteSet(Live)' /\ (word.total = FREEING => ClientRefs = {})'
  BY <1>1 DEF IInv, SelfOK, CountIsExact
<1>3. FreeOK' /\ FreedOnce' /\ NoPanic'
  BY DEF IInv, FreeOK, FreedOnce, NoPanic
<1> QED BY <1>2, <1>3 DEF IInv

LEMMA CallStep == ASSUME IInv, NEW t \in Threads, Call(t) PROVE IInv'
<1>1. ASSUME NEW g \in Tags, CallRetain(t, g) PROVE IInv'
  <2>1. TypeOK'
    BY <1>1 DEF IInv, TypeOK, CallRetain, ops
  <2>2. \E r \in Refs \ SelfRefs : holder[r] = t
    BY <1>1, HoldersKeepAlive DEF CallRetain, Holds
  <2>3. CallOK'
    BY <1>1, <2>2 DEF IInv, CallOK, TypeOK, CallRetain
  <2> QED BY <1>1, <2>1, <2>3, QuietStep DEF IInv, TypeOK, FreeOK, NoPanic, CallRetain
<1>2. ASSUME NEW g \in Tags, CallTryRetain(t, g) PROVE IInv'
  <2>1. TypeOK'
    BY <1>2 DEF IInv, TypeOK, CallTryRetain, ops
  <2>2. CallOK'
    BY <1>2 DEF IInv, CallOK, TypeOK, CallTryRetain
  <2> QED BY <1>2, <2>1, <2>2, QuietStep DEF IInv, TypeOK, FreeOK, NoPanic, CallTryRetain
<1>3. ASSUME NEW r \in Refs, CallRelease(t, r) PROVE IInv'
  <2>1. TypeOK'
    BY <1>3 DEF IInv, TypeOK, CallRelease, ops
  <2>2. r \in Refs \ SelfRefs
    BY <1>3, HoldersKeepAlive DEF CallRelease
  <2>3. CallOK'
    BY <1>3, <2>2 DEF IInv, CallOK, TypeOK, CallRelease, Holds
  <2> QED BY <1>3, <2>1, <2>3, QuietStep DEF IInv, TypeOK, FreeOK, NoPanic, CallRelease
<1>4. ASSUME NEW r \in Refs, NEW u \in Threads, HandOver(t, u, r) PROVE IInv'
  <2>1. /\ r \in Refs \ SelfRefs /\ r \in Live /\ word.total # FREEING
        /\ holder[r] = t /\ pc[t] = "idle"
    BY <1>4, HoldersKeepAlive DEF HandOver, Holds
  <2>2. Live' = Live /\ InCollection' = InCollection /\ ClientRefs' = ClientRefs
    BY <1>4, <2>1, HolderAssumption DEF IInv, TypeOK, HandOver, Live, InCollection, ClientRefs
  <2>3. TypeOK'
    BY <1>4 DEF IInv, TypeOK, HandOver
  <2>4. CallOK'
    <3> SUFFICES ASSUME NEW v \in Threads
                 PROVE  /\ call[v].op = "none" <=> pc[v] \notin {"read", "swap"}
                        /\ call[v].op = "release" =>
                             /\ call[v].ref \in Refs \ SelfRefs
                             /\ holder'[call[v].ref] = v
                             /\ tag[call[v].ref] = call[v].tag
                        /\ call[v].op = "retain" => \E q \in Refs \ SelfRefs : holder'[q] = v
                        /\ pc[v] = "swap" => orig[v].total \notin {FREEING, PEGGED}
      BY <1>4 DEF HandOver, CallOK
    <3>1. CASE v = t
      BY <2>1, <3>1 DEF IInv, CallOK
    <3>2. CASE v # t
      <4>1. \A q \in Refs : holder[q] = v => holder'[q] = v
        BY <1>4, <2>1, <3>2 DEF IInv, TypeOK, HandOver
      <4> QED BY <4>1 DEF IInv, CallOK
    <3> QED BY <3>1, <3>2
  <2>5. SelfOK'
    BY <1>4, <2>1, HolderAssumption DEF IInv, TypeOK, SelfOK, HandOver
  <2>6. FreeOK' /\ FreedOnce' /\ NoPanic' /\ CountIsExact' /\ IsFiniteSet(Live)'
    BY <1>4, <2>2 DEF IInv, FreeOK, FreedOnce, NoPanic, CountIsExact, HandOver
  <2> QED BY <1>4, <2>2, <2>3, <2>4, <2>5, <2>6 DEF IInv, HandOver
<1> QED BY <1>1, <1>2, <1>3, <1>4 DEF Call

-----------------------------------------------------------------------------
LEMMA ReadCountStep == ASSUME IInv, NEW t \in Threads, ReadCount(t) PROVE IInv'
<1>1. TypeOK'
  BY DEF IInv, TypeOK, ReadCount, ReadUnless
<1>2. CallOK'
  BY DEF IInv, TypeOK, CallOK, ReadCount, ReadUnless
<1> QED
  BY <1>1, <1>2, QuietStep DEF IInv, TypeOK, FreeOK, NoPanic, ReadCount, ReadUnless

LEMMA SwapFailsStep == ASSUME IInv, NEW t \in Threads, SwapFails(t) PROVE IInv'
<1>1. TypeOK'
  BY HalfAssumption DEF IInv, TypeOK, SwapFails, NoWord, Words
<1>2. CallOK'
  BY DEF IInv, TypeOK, CallOK, SwapFails
<1> QED
  BY <1>1, <1>2, QuietStep DEF IInv, TypeOK, FreeOK, NoPanic, SwapFails

(* Only a weak holder can read FREEING. *)
LEMMA ReadFreeingStep == ASSUME IInv, NEW t \in Threads, ReadFreeing(t) PROVE IInv'
<1>1. call[t].op = "tryRetain" /\ Finish(t) /\ UNCHANGED holder
  BY CallersKeepAlive DEF ReadFreeing
<1>2. TypeOK'
  BY <1>1, HalfAssumption
  DEF IInv, TypeOK, ReadFreeing, Finish, Return, NoCall, NoWord, Words, Tags
<1>3. CallOK'
  BY <1>1 DEF IInv, TypeOK, CallOK, ReadFreeing, Finish, Return, NoCall
<1> QED
  BY <1>1, <1>2, <1>3, QuietStep
  DEF IInv, TypeOK, FreeOK, NoPanic, ReadFreeing, Finish, Return, NoCall

-----------------------------------------------------------------------------
(* A thread that obtains a reference in an operation and returns. *)
LEMMA TakeStep ==
  ASSUME IInv, NEW t \in Threads, NEW r \in Refs,
         call[t].op \in {"retain", "tryRetain"},
         TakeRef(t, r, call[t].tag), Finish(t), UNCHANGED <<linked, mem>>,
         word \in Words, word' \in Words,
         word.total # FREEING, word'.total # FREEING,
         word'.total # PEGGED => word.total # PEGGED /\ word' = Inc(word, call[t].tag)
  PROVE  IInv'
<1>1. pc[t] \in {"read", "swap"} /\ call[t].tag \in Tags
  BY DEF IInv, CallOK, TypeOK
<1>2. TypeOK'
  BY <1>1, HalfAssumption
  DEF IInv, TypeOK, TakeRef, Finish, Return, NoCall, NoWord, Words, Tags
<1>3. /\ Live' = Live \cup {r} /\ r \notin Live /\ IsFiniteSet(Live')
      /\ Cardinality(Live') = Cardinality(Live) + 1
      /\ Cardinality(InCollection') =
           Cardinality(InCollection) + (IF call[t].tag = "collection" THEN 1 ELSE 0)
  BY <1>1, TakeCounts DEF IInv
<1>4. r \in Refs \ SelfRefs
  BY HolderAssumption DEF IInv, SelfOK, TakeRef
<1>5. SelfOK'
  BY <1>4, HolderAssumption DEF IInv, TypeOK, SelfOK, TakeRef
<1>6. \A q \in Refs : holder[q] # NoOne => holder'[q] = holder[q] /\ tag'[q] = tag[q]
  BY <1>4 DEF IInv, TypeOK, TakeRef
<1>7. CallOK'
  <2> SUFFICES ASSUME NEW u \in Threads
               PROVE  /\ call'[u].op = "none" <=> pc'[u] \notin {"read", "swap"}
                      /\ call'[u].op = "release" =>
                           /\ call'[u].ref \in Refs \ SelfRefs
                           /\ holder'[call'[u].ref] = u
                           /\ tag'[call'[u].ref] = call'[u].tag
                      /\ call'[u].op = "retain" => \E q \in Refs \ SelfRefs : holder'[q] = u
                      /\ pc'[u] = "swap" => orig'[u].total \notin {FREEING, PEGGED}
    BY DEF CallOK
  <2>1. CASE u = t
    BY <2>1 DEF IInv, TypeOK, Finish, Return, NoCall
  <2>2. CASE u # t
    <3>1. call'[u] = call[u] /\ pc'[u] = pc[u] /\ orig'[u] = orig[u]
      BY <2>2 DEF IInv, TypeOK, Finish, Return
    <3> QED BY <1>6, <3>1, HolderAssumption DEF IInv, CallOK
  <2> QED BY <2>1, <2>2
<1>8. CountIsExact'
  <2> SUFFICES ASSUME word'.total # PEGGED
               PROVE  /\ word'.total = Cardinality(Live')
                      /\ word'.coll = Cardinality(InCollection')
    BY DEF CountIsExact
  <2>1. /\ word.total = Cardinality(Live) /\ word.coll = Cardinality(InCollection)
        /\ word' = Inc(word, call[t].tag)
    BY DEF IInv, CountIsExact
  <2>2. word.coll <= word.total /\ word.total < FREEING
    <3>1. word.total \in 0 .. Half - 1 /\ word.total # Half - 1
      BY DEF Words, FREEING
    <3>2. Cardinality(InCollection) <= Cardinality(Live)
      BY FS_Subset DEF IInv, InCollection
    <3> QED BY <2>1, <3>1, <3>2, HalfAssumption DEF FREEING
  <2>3. word.coll # Half - 1
    BY <2>2, Codes DEF Words, FREEING
  <2>4. CASE call[t].tag = "collection"
    BY <1>3, <2>1, <2>3, <2>4 DEF Inc
  <2>5. CASE call[t].tag = "plain"
    BY <1>3, <2>1, <2>5 DEF Inc, Words
  <2> QED BY <1>1, <2>4, <2>5 DEF Tags
<1>9. FreeOK' /\ FreedOnce' /\ NoPanic'
  BY <1>1 DEF IInv, TypeOK, FreeOK, FreedOnce, NoPanic, Finish, Return
<1> QED BY <1>2, <1>3, <1>5, <1>7, <1>8, <1>9 DEF IInv

(* Inc keeps a word without a code in range, and does not make it FREEING. *)
LEMMA IncInRange ==
  ASSUME NEW w \in Words, w.total \notin {FREEING, PEGGED}, NEW g \in Tags
  PROVE  Inc(w, g) \in Words /\ Inc(w, g).total # FREEING
<1>1. w.total + 1 \in 0 .. Half - 1 /\ w.total + 1 # FREEING
  BY HalfAssumption DEF Words, FREEING, PEGGED
<1>2. (IF g = "plain" THEN w.coll ELSE IF w.coll = Half - 1 THEN 0 ELSE w.coll + 1)
        \in 0 .. Half - 1
  BY HalfAssumption DEF Words
<1> QED BY <1>1, <1>2 DEF Inc, Words

LEMMA SwapRetainStep == ASSUME IInv, NEW t \in Threads, SwapRetain(t) PROVE IInv'
<1>1. PICK r \in Refs : TakeRef(t, r, call[t].tag)
  BY DEF SwapRetain
<1>2. word \in Words /\ word.total \notin {FREEING, PEGGED} /\ call[t].tag \in Tags
  BY DEF IInv, TypeOK, CallOK, SwapRetain
<1>3. word' = Inc(word, call[t].tag)
  BY DEF SwapRetain
<1> QED BY <1>1, <1>2, <1>3, IncInRange, TakeStep DEF SwapRetain

-----------------------------------------------------------------------------
(* A release that returns: of a counted reference which is not the last,   *)
(* or of a reference to a pegged object.                                   *)
LEMMA DropStep ==
  ASSUME IInv, NEW t \in Threads, call[t].op = "release",
         DropRef(call[t].ref), Finish(t), UNCHANGED <<tag, linked, mem>>,
         word' \in Words, word.total # FREEING, word'.total # FREEING,
         word'.total # PEGGED => /\ word'.total = Cardinality(Live')
                                 /\ word'.coll = Cardinality(InCollection')
  PROVE  IInv'
<1>1. /\ call[t].ref \in Refs \ SelfRefs /\ holder[call[t].ref] = t
      /\ call[t].ref \in Live /\ pc[t] \in {"read", "swap"}
  BY HolderAssumption DEF IInv, CallOK, Live
<1>2. TypeOK'
  BY <1>1, HalfAssumption
  DEF IInv, TypeOK, DropRef, Finish, Return, NoCall, NoWord, Words, Tags
<1>3. IsFiniteSet(Live')
  BY <1>1, DropCounts DEF IInv
<1>4. SelfOK'
  BY <1>1, HolderAssumption DEF IInv, TypeOK, SelfOK, DropRef
<1>5. CallOK'
  <2> SUFFICES ASSUME NEW u \in Threads
               PROVE  /\ call'[u].op = "none" <=> pc'[u] \notin {"read", "swap"}
                      /\ call'[u].op = "release" =>
                           /\ call'[u].ref \in Refs \ SelfRefs
                           /\ holder'[call'[u].ref] = u
                           /\ tag'[call'[u].ref] = call'[u].tag
                      /\ call'[u].op = "retain" => \E q \in Refs \ SelfRefs : holder'[q] = u
                      /\ pc'[u] = "swap" => orig'[u].total \notin {FREEING, PEGGED}
    BY DEF CallOK
  <2>1. CASE u = t
    BY <2>1 DEF IInv, TypeOK, Finish, Return, NoCall
  <2>2. CASE u # t
    <3>1. call'[u] = call[u] /\ pc'[u] = pc[u] /\ orig'[u] = orig[u]
      BY <2>2 DEF IInv, TypeOK, Finish, Return
    <3>2. \A q \in Refs : holder[q] = u => holder'[q] = u
      BY <1>1, <2>2 DEF IInv, TypeOK, DropRef
    <3> QED BY <3>1, <3>2 DEF IInv, CallOK
  <2> QED BY <2>1, <2>2
<1>6. FreeOK' /\ FreedOnce' /\ NoPanic'
  BY <1>1 DEF IInv, TypeOK, FreeOK, FreedOnce, NoPanic, Finish, Return
<1> QED BY <1>2, <1>3, <1>4, <1>5, <1>6 DEF IInv, CountIsExact

LEMMA ReadPeggedStep == ASSUME IInv, NEW t \in Threads, ReadPegged(t) PROVE IInv'
<1>1. word' = word /\ word \in Words /\ word.total = PEGGED /\ PEGGED # FREEING
  BY Codes DEF ReadPegged, IInv, TypeOK
<1>2. CASE call[t].op \in {"retain", "tryRetain"}
  <2>1. PICK r \in Refs : TakeRef(t, r, call[t].tag)
    BY <1>2 DEF ReadPegged
  <2> QED BY <1>1, <1>2, <2>1, TakeStep DEF ReadPegged
<1>3. CASE call[t].op = "release"
  BY <1>1, <1>3, DropStep DEF ReadPegged
<1> QED BY <1>2, <1>3 DEF ReadPegged

-----------------------------------------------------------------------------
(* The word a release computes counts the references that remain.          *)
LEMMA DecCounts ==
  ASSUME IInv, NEW t \in Threads, call[t].op = "release", word.total \notin {FREEING, PEGGED},
         DropRef(call[t].ref), tag' = tag
  PROVE  /\ Dec(word, call[t].tag).total = Cardinality(Live')
         /\ Dec(word, call[t].tag).coll = Cardinality(InCollection')
         /\ Dec(word, call[t].tag) \in Words
         /\ Dec(word, call[t].tag).total < PEGGED
         /\ ~RegistryCorrupted(word, call[t].tag)
         /\ Cardinality(Live') \in Nat
<1>1. call[t].ref \in Live /\ tag[call[t].ref] = call[t].tag /\ call[t].tag \in Tags
  BY HolderAssumption DEF IInv, CallOK, Live, TypeOK
<1>2. word.total = Cardinality(Live) /\ word.coll = Cardinality(InCollection)
  BY DEF IInv, CountIsExact
<1>3. word \in Words /\ word.total < PEGGED /\ word.total >= 1
  <2>1. word.total \in 0 .. Half - 1 /\ word.total # Half - 1 /\ word.total # Half - 2
    BY DEF IInv, TypeOK, Words, FREEING, PEGGED
  <2>2. word.total >= 1
    BY <1>1, <1>2, DropCounts DEF IInv
  <2>3. word \in Words
    BY DEF IInv, TypeOK
  <2>4. word.total < PEGGED
    BY <2>1, HalfAssumption DEF PEGGED
  <2> QED BY <2>2, <2>3, <2>4
<1>4. /\ Cardinality(Live') = word.total - 1
      /\ Cardinality(InCollection') = word.coll - (IF call[t].tag = "collection" THEN 1 ELSE 0)
      /\ Cardinality(InCollection') \in Nat
      /\ Cardinality(InCollection') <= Cardinality(Live')
  BY <1>1, <1>2, DropCounts DEF IInv
<1>5. Minus(word.total, 1) = word.total - 1
  BY <1>3, HalfAssumption DEF Minus, Words
<1>6. Minus(word.coll, IF call[t].tag = "collection" THEN 1 ELSE 0) = Cardinality(InCollection')
  BY <1>3, <1>4, HalfAssumption DEF Minus, Words
<1>7. /\ Dec(word, call[t].tag) = [total |-> Cardinality(Live'), coll |-> Cardinality(InCollection')]
      /\ Dec(word, call[t].tag).total = Cardinality(Live')
      /\ Dec(word, call[t].tag).coll = Cardinality(InCollection')
  <2>1. (IF call[t].tag = "collection" THEN 1 ELSE 0) + (IF word.total = 0 THEN 1 ELSE 0)
          = IF call[t].tag = "collection" THEN 1 ELSE 0
    BY <1>3
  <2> QED BY <1>4, <1>5, <1>6, <2>1 DEF Dec
<1>8. Cardinality(Live') \in 0 .. Half - 1 /\ Cardinality(InCollection') \in 0 .. Half - 1
  BY <1>3, <1>4, HalfAssumption DEF Words, PEGGED
<1>9. Cardinality(Live') < PEGGED /\ ~(Cardinality(Live') < Cardinality(InCollection'))
  <2>1. word.total \in 0 .. Half - 1
    BY <1>3 DEF Words
  <2>2. Cardinality(Live') < PEGGED
    BY <1>3, <1>4, <2>1, HalfAssumption DEF PEGGED
  <2>3. ~(Cardinality(Live') < Cardinality(InCollection'))
    BY <1>4, <1>8, HalfAssumption
  <2> QED BY <2>2, <2>3
<1>10. Dec(word, call[t].tag) \in Words
  BY <1>7, <1>8 DEF Words
<1>11. Cardinality(Live') \in Nat
  BY <1>8
<1>12. ~RegistryCorrupted(word, call[t].tag)
  BY <1>7, <1>9 DEF RegistryCorrupted
<1>13. Dec(word, call[t].tag).total < PEGGED
  BY <1>7, <1>9
<1> QED BY <1>7, <1>10, <1>11, <1>12, <1>13

(* Fewer references than freeWhen are left only when all of them are the   *)
(* object's own.                                                           *)
LEMMA OnlySelfLeft ==
  ASSUME IInv, NEW r \in Live, r \notin SelfRefs, word.total # FREEING,
         DropRef(r), tag' = tag, Cardinality(Live') < FreeWhen
  PROVE  ClientRefs' = {}
<1>1. Live' = Live \ {r} /\ IsFiniteSet(Live')
  BY DropCounts DEF IInv
<1>2. SelfRefs \subseteq Live'
  BY <1>1, SelfAssumption, HolderAssumption DEF IInv, SelfOK, Live
<1>3. Cardinality(Live') <= Cardinality(SelfRefs)
  BY <1>1, SelfAssumption, FS_CardinalityType DEF FreeWhen
<1>4. Cardinality(SelfRefs) <= Cardinality(Live')
  BY <1>1, <1>2, FS_Subset
<1>5. SelfRefs = Live'
  <2>1. Cardinality(SelfRefs) = Cardinality(Live')
    BY <1>1, <1>3, <1>4, SelfAssumption, FS_CardinalityType
  <2> QED BY <1>1, <1>2, <2>1, FS_Subset
<1> QED BY <1>5 DEF ClientRefs

-----------------------------------------------------------------------------
(* The swap of a release: either it returns with references left, or it    *)
(* has written FREEING with none of the clients' left and calls free().    *)
LEMMA SwapReleaseStep == ASSUME IInv, NEW t \in Threads, SwapRelease(t) PROVE IInv'
<1> DEFINE d == Dec(word, call[t].tag)
<1>1. /\ word = orig[t] /\ call[t].op = "release" /\ DropRef(call[t].ref) /\ Return(t)
      /\ UNCHANGED <<tag, linked, mem>>
      /\ word.total \notin {FREEING, PEGGED} /\ pc[t] = "swap"
  BY DEF SwapRelease, SwapReleaseIf, IInv, CallOK
<1>2. /\ d.total = Cardinality(Live') /\ d.coll = Cardinality(InCollection')
      /\ d \in Words /\ d.total < PEGGED /\ ~RegistryCorrupted(word, call[t].tag)
      /\ d.total \in Nat
  BY <1>1, DecCounts
<1>3. CASE d.total < FreeWhen
  <2>1. word' = [total |-> FREEING, coll |-> 0]
    BY <1>1, <1>3 DEF SwapRelease, SwapReleaseIf, Released
  <2>2. pc' = [pc EXCEPT ![t] = "free"]
    BY <1>1, <1>2, <1>3 DEF SwapRelease, SwapReleaseIf, Released
  <2>3. /\ call[t].ref \in Refs \ SelfRefs /\ holder[call[t].ref] = t
        /\ call[t].ref \in Live
    BY <1>1, HolderAssumption DEF IInv, CallOK, Live
  <2>4. ClientRefs' = {}
    BY <1>1, <1>2, <1>3, <2>3, OnlySelfLeft
  <2>5. IsFiniteSet(Live')
    BY <1>1, <2>3, DropCounts DEF IInv
  <2>6. TypeOK'
    <3>1. word' \in Words /\ NoWord \in Words
      BY <2>1, HalfAssumption DEF Words, NoWord, FREEING
    <3> QED BY <1>1, <2>2, <3>1 DEF IInv, TypeOK, DropRef, Return, NoCall, Tags
  <2>7. \A u \in Threads : call'[u].op \notin {"retain", "release"}
    <3> SUFFICES ASSUME NEW u \in Threads, call'[u].op \in {"retain", "release"} PROVE FALSE
      OBVIOUS
    <3>1. u # t
      BY <1>1 DEF IInv, TypeOK, Return, NoCall
    <3>2. call'[u] = call[u]
      BY <1>1, <3>1 DEF IInv, TypeOK, Return
    <3>3. PICK q \in Refs \ SelfRefs : holder[q] = u
      BY <3>2 DEF IInv, CallOK
    <3>4. holder'[q] = u
      BY <1>1, <2>3, <3>1, <3>3 DEF IInv, TypeOK, DropRef
    <3>5. q \in ClientRefs'
      BY <3>3, <3>4, HolderAssumption DEF ClientRefs, Live
    <3> QED BY <2>4, <3>5
  <2>8. CallOK'
    BY <1>1, <2>2, <2>7 DEF IInv, TypeOK, CallOK, Return, NoCall
  <2>9. SelfOK'
    BY <1>1, <2>1, <2>3, HolderAssumption DEF IInv, TypeOK, SelfOK, DropRef
  <2>10. mem = "allocated" /\ linked
    BY <1>1 DEF IInv, FreeOK, TypeOK
  <2>11. FreeOK'
    BY <1>1, <2>2, <2>10 DEF IInv, TypeOK, FreeOK
  <2>12. FreedOnce'
    <3>1. \A u \in Threads : pc[u] \notin {"free", "delete"}
      BY <1>1 DEF IInv, FreedOnce
    <3> QED BY <1>1, <2>1, <2>2, <2>10, <3>1 DEF IInv, TypeOK, FreedOnce
  <2>13. NoPanic' /\ CountIsExact'
    BY <2>1, <2>2 DEF IInv, TypeOK, NoPanic, CountIsExact
  <2> QED BY <2>4, <2>5, <2>6, <2>8, <2>9, <2>11, <2>12, <2>13 DEF IInv
<1>4. CASE ~(d.total < FreeWhen)
  <2>1. word' = d /\ word'.total \notin {FREEING, PEGGED}
    BY <1>1, <1>2, <1>4, Codes DEF SwapRelease, SwapReleaseIf, Released
  <2>2. Finish(t)
    BY <1>1, <1>2, <1>4, <2>1 DEF SwapRelease, SwapReleaseIf, Released, Finish
  <2> QED BY <1>1, <1>2, <2>1, <2>2, DropStep
<1> QED BY <1>3, <1>4

-----------------------------------------------------------------------------
LEMMA FreeStep == ASSUME IInv, NEW t \in Threads, Free(t) PROVE IInv'
<1>1. word.total = FREEING /\ mem = "allocated" /\ ClientRefs = {}
  BY DEF IInv, FreedOnce, Free
<1>2. \A u \in Threads : call[u].op = "none"
  <2> SUFFICES ASSUME NEW u \in Threads PROVE call[u].op = "none"
    OBVIOUS
  <2>1. call[u].op \notin {"retain", "release"}
    BY <1>1, CallersKeepAlive
  <2> QED BY <2>1 DEF IInv, TypeOK, ops, Free
<1>3. Live' = {} /\ ClientRefs' = {}
  BY <1>1 DEF Free, Live, ClientRefs
<1>4. IsFiniteSet(Live')
  BY <1>3, FS_EmptySet
<1>5. TypeOK'
  BY DEF IInv, TypeOK, Free
<1>6. CallOK'
  BY <1>2 DEF IInv, TypeOK, CallOK, Free
<1>7. SelfOK'
  BY <1>1, SelfAssumption DEF IInv, TypeOK, SelfOK, Free
<1>8. FreeOK' /\ FreedOnce' /\ NoPanic' /\ CountIsExact'
  BY <1>1, <1>2 DEF IInv, TypeOK, FreeOK, FreedOnce, NoPanic, CountIsExact, Free
<1> QED BY <1>3, <1>4, <1>5, <1>6, <1>7, <1>8 DEF IInv

LEMMA DeleteStep == ASSUME IInv, NEW t \in Threads, Delete(t) PROVE IInv'
<1>1. word.total = FREEING /\ mem = "allocated" /\ ~linked
  BY DEF IInv, FreedOnce, FreeOK, Delete
<1>2. Live' = Live /\ InCollection' = InCollection /\ ClientRefs' = ClientRefs
  BY DEF Delete, Live, InCollection, ClientRefs
<1>3. TypeOK' /\ CallOK' /\ SelfOK'
  BY DEF IInv, TypeOK, CallOK, SelfOK, Delete
<1>4. FreeOK' /\ NoPanic' /\ CountIsExact'
  BY <1>1, <1>2 DEF IInv, TypeOK, FreeOK, NoPanic, CountIsExact, Delete
<1>5. FreedOnce'
  <2>1. \A u \in Threads : u # t => pc[u] \notin {"free", "delete"}
    BY DEF IInv, FreedOnce, Delete
  <2> QED BY <2>1 DEF IInv, TypeOK, FreedOnce, Delete
<1> QED BY <1>2, <1>3, <1>4, <1>5 DEF IInv, Delete

-----------------------------------------------------------------------------
LEMMA StepInvariant == IInv /\ [Next]_vars => IInv'
<1> SUFFICES ASSUME IInv, [Next]_vars PROVE IInv'
  OBVIOUS
<1>1. CASE UNCHANGED vars
  BY <1>1 DEF IInv, vars, TypeOK, Live, InCollection, ClientRefs, CallOK, SelfOK,
              FreeOK, CountIsExact, FreedOnce, NoPanic
<1>2. ASSUME NEW t \in Threads, Call(t) PROVE IInv'
  BY <1>2, CallStep
<1>3. ASSUME NEW t \in Threads, Step(t) PROVE IInv'
  BY <1>3, ReadCountStep, ReadFreeingStep, ReadPeggedStep, SwapFailsStep,
     SwapRetainStep, SwapReleaseStep, FreeStep, DeleteStep DEF Step
<1> QED BY <1>1, <1>2, <1>3 DEF Next

(* The inductive invariant holds of every reachable state. *)
THEOREM Invariant == Spec => []IInv
<1>1. Init => IInv
  BY InitInvariant
<1>2. IInv /\ [Next]_vars => IInv'
  BY StepInvariant
<1> QED BY <1>1, <1>2, PTL DEF Spec

(* Every variable keeps to its type. *)
THEOREM Typing == Spec => []TypeOK
<1>1. IInv => TypeOK
  BY DEF IInv
<1> QED BY <1>1, Invariant, PTL

(* The word counts the references exactly until it wraps or is freed. *)
THEOREM ExactCount == Spec => []CountIsExact
<1>1. IInv => CountIsExact
  BY DEF IInv
<1> QED BY <1>1, Invariant, PTL

(* The object is freed once, and only when no client can still use it. *)
THEOREM SafeFree == Spec => [](FreedOnlyUnreferenced /\ FreedOnce)
<1>1. IInv => FreedOnlyUnreferenced /\ FreedOnce
  <2> SUFFICES ASSUME IInv PROVE FreedOnlyUnreferenced
    BY DEF IInv
  <2>1. ASSUME mem = "deleted", NEW t \in Threads PROVE call[t].op = "none"
    <3>1. word.total = FREEING /\ ~linked
      BY <2>1 DEF IInv, FreeOK
    <3>2. call[t].op \notin {"retain", "release"}
      BY <3>1, CallersKeepAlive
    <3> QED BY <3>1, <3>2 DEF IInv, TypeOK, FreeOK, ops
  <2> QED BY <2>1 DEF IInv, FreedOnlyUnreferenced
<1> QED BY <1>1, Invariant, PTL

(* Balanced clients never meet the panics of retain and release. *)
THEOREM Balanced == Spec => []NoPanic
<1>1. IInv => NoPanic
  BY DEF IInv
<1> QED BY <1>1, Invariant, PTL

(* Nothing moves a pegged count, and its object is never deleted. *)
THEOREM Pegged == Spec => PeggedForEver
<1>1. IInv /\ [Next]_vars => [word.total = PEGGED => UNCHANGED <<word, mem>>]_vars
  <2> SUFFICES ASSUME IInv, word.total = PEGGED, NEW t \in Threads, Call(t) \/ Step(t)
               PROVE  UNCHANGED <<word, mem>>
    BY DEF Next, vars
  <2>1. word.total # FREEING
    BY Codes
  <2>2. CASE Call(t)
    BY <2>2 DEF Call, CallRetain, CallTryRetain, CallRelease, HandOver
  <2>3. pc[t] \notin {"free", "delete"}
    BY <2>1 DEF IInv, FreedOnce
  <2>4. ASSUME pc[t] = "swap" PROVE word # orig[t]
    BY <2>4 DEF IInv, CallOK
  <2>5. CASE Step(t)
    BY <2>3, <2>4, <2>5 DEF Step, ReadCount, ReadUnless, ReadFreeing, ReadPegged, SwapFails,
                            SwapRetain, SwapRelease, SwapReleaseIf, Free, Delete
  <2> QED BY <2>2, <2>5
<1> QED BY <1>1, Invariant, PTL DEF Spec, PeggedForEver

-----------------------------------------------------------------------------
(* Each successful swap is one atomic step of the abstract lifetime, and   *)
(* everything else a thread does is invisible there.                       *)
LEMMA InitRefines == Init => Lifetime!Init
<1> SUFFICES ASSUME Init PROVE Lifetime!Init
  OBVIOUS
<1>1. PICK t0 \in Threads, r0 \in Refs \ SelfRefs :
        holder = [q \in Refs |-> IF q = r0 THEN t0
                                 ELSE IF q \in SelfRefs THEN "self" ELSE NoOne]
  BY DEF Init
<1>2. ClientRefs = {r0}
  BY <1>1, SelfAssumption, HolderAssumption DEF ClientRefs, Live
<1>3. Phase = "alive"
  BY Codes DEF Init, Phase
<1> QED BY <1>2, <1>3 DEF Lifetime!Init

LEMMA TakeRefines ==
  ASSUME IInv, NEW t \in Threads, NEW r \in Refs, NEW g, TakeRef(t, r, g),
         word.total # FREEING, word'.total # FREEING, mem' = mem
  PROVE  \E q \in Refs \ SelfRefs : Lifetime!Acquire(q)
<1>1. r \in Refs \ SelfRefs /\ r \notin ClientRefs
  BY HolderAssumption DEF IInv, SelfOK, TakeRef, ClientRefs, Live
<1>2. ClientRefs' = ClientRefs \cup {r}
  BY <1>1, HolderAssumption DEF IInv, TypeOK, TakeRef, ClientRefs, Live
<1>3. Phase = "alive" /\ Phase' = "alive"
  BY DEF IInv, FreeOK, Phase
<1> QED BY <1>1, <1>2, <1>3 DEF Lifetime!Acquire

LEMMA DropRefines ==
  ASSUME IInv, IInv', NEW r \in Refs \ SelfRefs, holder[r] # NoOne, DropRef(r),
         word.total # FREEING, mem' = mem
  PROVE  \E q \in Refs \ SelfRefs : Lifetime!Drop(q)
<1>1. r \in ClientRefs /\ ClientRefs' = ClientRefs \ {r}
  BY DEF IInv, TypeOK, DropRef, ClientRefs, Live
<1>2. Phase = "alive" /\ mem = "allocated"
  BY DEF IInv, FreeOK, TypeOK, Phase
<1>3. /\ Phase' \in {"alive", "dying"}
      /\ Phase' = "dying" => ClientRefs' = {}
  BY <1>2 DEF IInv, Phase
<1> QED BY <1>1, <1>2, <1>3 DEF Lifetime!Drop

LEMMA StepRefines ==
  ASSUME IInv, IInv', [Next]_vars
  PROVE  [Lifetime!Next]_Lifetime!vars
<1> USE DEF Lifetime!vars
<1>1. CASE UNCHANGED <<word, holder, mem>>
  BY <1>1 DEF ClientRefs, Live, Phase
<1>2. ASSUME NEW t \in Threads, Call(t) PROVE [Lifetime!Next]_Lifetime!vars
  <2>1. ASSUME NEW r \in Refs, NEW u \in Threads, HandOver(t, u, r)
        PROVE  UNCHANGED <<ClientRefs, Phase>>
    BY <2>1, HoldersKeepAlive, HolderAssumption
    DEF IInv, TypeOK, HandOver, Holds, ClientRefs, Live, Phase
  <2> QED BY <1>1, <1>2, <2>1 DEF Call, CallRetain, CallTryRetain, CallRelease
<1>3. ASSUME NEW t \in Threads, Step(t) PROVE [Lifetime!Next]_Lifetime!vars
  <2>1. CASE ReadCount(t) \/ SwapFails(t)
    BY <1>1, <2>1 DEF ReadCount, ReadUnless, SwapFails
  <2>2. CASE ReadFreeing(t)
    <3>1. call[t].op = "tryRetain"
      BY <2>2, CallersKeepAlive DEF ReadFreeing
    <3> QED BY <1>1, <2>2, <3>1 DEF ReadFreeing
  <2>3. CASE ReadPegged(t)
    <3>1. word.total # FREEING /\ word' = word /\ mem' = mem
      BY <2>3, Codes DEF ReadPegged
    <3>2. CASE \E r \in Refs : TakeRef(t, r, call[t].tag)
      BY <3>1, <3>2, TakeRefines DEF Lifetime!Next
    <3>3. CASE call[t].op = "release" /\ DropRef(call[t].ref)
      <4>1. call[t].ref \in Refs \ SelfRefs /\ holder[call[t].ref] # NoOne
        BY <3>3, HolderAssumption DEF IInv, CallOK
      <4> QED BY <3>1, <3>3, <4>1, DropRefines DEF Lifetime!Next
    <3> QED BY <2>3, <3>2, <3>3 DEF ReadPegged
  <2>4. CASE SwapRetain(t)
    <3>1. word.total \notin {FREEING, PEGGED} /\ call[t].tag \in Tags /\ word \in Words
      BY <2>4 DEF SwapRetain, IInv, CallOK, TypeOK
    <3>2. word'.total # FREEING /\ mem' = mem
      BY <2>4, <3>1, IncInRange DEF SwapRetain
    <3>3. PICK r \in Refs : TakeRef(t, r, call[t].tag)
      BY <2>4 DEF SwapRetain
    <3> QED BY <3>1, <3>2, <3>3, TakeRefines DEF Lifetime!Next
  <2>5. CASE SwapRelease(t)
    <3>1. /\ word.total # FREEING /\ DropRef(call[t].ref) /\ mem' = mem
          /\ call[t].ref \in Refs \ SelfRefs /\ holder[call[t].ref] # NoOne
      BY <2>5, HolderAssumption DEF SwapRelease, SwapReleaseIf, IInv, CallOK
    <3> QED BY <3>1, DropRefines DEF Lifetime!Next
  <2>6. CASE Free(t)
    <3>1. ClientRefs = {}
      BY <2>6 DEF Free, IInv, FreedOnce
    <3>2. ClientRefs' = {}
      BY <2>6, <3>1 DEF Free, ClientRefs, Live
    <3>3. Phase' = Phase
      BY <2>6 DEF Free, Phase
    <3> QED BY <3>1, <3>2, <3>3
  <2>7. CASE Delete(t)
    <3>1. Phase = "dying" /\ Phase' = "dead"
      BY <2>7 DEF Delete, IInv, FreedOnce, Phase
    <3>2. ClientRefs' = ClientRefs
      BY <2>7 DEF Delete, ClientRefs, Live
    <3> QED BY <3>1, <3>2 DEF Lifetime!Next, Lifetime!Die
  <2> QED BY <1>3, <2>1, <2>2, <2>3, <2>4, <2>5, <2>6, <2>7 DEF Step
<1> QED BY <1>1, <1>2, <1>3 DEF Next, vars

(* The racing loops on the word implement the atomic object lifetime.      *)
THEOREM Refinement == Spec => ImplementsLifetime
<1>1. Init => Lifetime!Init
  BY InitRefines
<1>2. IInv /\ IInv' /\ [Next]_vars => [Lifetime!Next]_Lifetime!vars
  BY StepRefines
<1> QED BY <1>1, <1>2, Invariant, PTL DEF Spec, ImplementsLifetime, Lifetime!Spec
=============================================================================
