---------------------------- MODULE OSSymbolPool ----------------------------
(***************************************************************************)
(* The pool of unique strings (src/libkern/src/OSSymbol.cpp).              *)
(*                                                                         *)
(* The pool is a hash table of buckets, each a list of symbols with the    *)
(* newest in front, guarded by the read/write lock poolGate.  It holds no  *)
(* references: findSymbol and insertSymbol taggedTryRetain the symbol they *)
(* match, and a symbol whose count has reached zero stays in its bucket    *)
(* until the thread that released it gets the gate in OSSymbol::free.  In  *)
(* that window another thread may insert a second symbol with the same     *)
(* string, so a bucket can hold dying symbols behind a live one.           *)
(*                                                                         *)
(* The reference count is atomic here, with 0 for the code FREEING: that   *)
(* this is what the word of OSObject amounts to is shown in OSObject.tla.  *)
(* Each step of a thread ends at the next point where it can wait or where *)
(* another thread can tell the difference: opening the gate belongs to the *)
(* last step inside it.                                                    *)
(***************************************************************************)
EXTENDS Naturals, Sequences, SequencesExt, FiniteSetsExt

CONSTANTS
  Threads,
  Symbols,         \* the storage of OSSymbol instances, reused after delete
  Strings,
  Hash,            \* hashSymbol, for each string
  InitialBuckets,  \* INITIAL_POOL_SIZE
  MaxHold,         \* bound: references a thread keeps to one symbol
  InitMayFail,     \* OSString::initWithCString may return false
  None

ASSUME PoolAssumption ==
  /\ Hash \in [Strings -> Nat]
  /\ InitialBuckets \in Nat \ {0}
  /\ MaxHold \in Nat \ {0}
  /\ None \notin Symbols \cup Strings \cup Threads
  /\ InitMayFail \in BOOLEAN

GrowFactor == 1
ShrinkFactor == 3

VARIABLES
  buckets,   \* function from 0 .. nBuckets - 1 to lists of symbols
  count,     \* the number of symbols the pool believes it has
  rc,        \* the retain count of each symbol; 0 is FREEING
  name,      \* the string of each symbol
  place,     \* where its characters are: "heap", or "text" for NoCopy
  text,      \* the unloadable text the NoCopy strings lie in is mapped
  readers,   \* the threads that hold poolGate shared
  writer,    \* the thread that holds it exclusively, or None
  held,      \* the references each thread has to each symbol
  pc,
  loc        \* each thread's local variables

vars == <<buckets, count, rc, name, place, text, readers, writer, held, pc, loc>>
table == <<buckets, count>>
symbols == <<rc, name, place>>
gate == <<readers, writer>>

SymbolsIn(b) == UNION {ToSet(b[i]) : i \in DOMAIN b}

nBuckets == Cardinality(DOMAIN buckets)
InPool == SymbolsIn(buckets)
FreeStorage ==
  {s \in Symbols : rc[s] = 0 /\ s \notin InPool /\ \A t \in Threads : loc[t].sym # s}

NoLocals == [str |-> None, copy |-> TRUE, sym |-> None, list |-> <<>>]

Init ==
  /\ buckets = [i \in 0 .. InitialBuckets - 1 |-> <<>>]
  /\ count = 0
  /\ rc = [s \in Symbols |-> 0]
  /\ name = [s \in Symbols |-> None]
  /\ place = [s \in Symbols |-> "heap"]
  /\ text = "mapped"
  /\ readers = {} /\ writer = None
  /\ held = [t \in Threads |-> [s \in Symbols |-> 0]]
  /\ pc = [t \in Threads |-> "idle"]
  /\ loc = [t \in Threads |-> NoLocals]

-----------------------------------------------------------------------------
(* poolGate: a reader waits for the writer, a writer for everybody.        *)
CloseReadGate(t) ==
  /\ writer = None
  /\ readers' = readers \cup {t}
  /\ UNCHANGED writer

OpenReadGate(t) == readers' = readers \ {t} /\ UNCHANGED writer

CloseWriteGate(t) ==
  /\ writer = None /\ readers = {}
  /\ writer' = t
  /\ UNCHANGED readers

OpenWriteGate(t) == writer' = None /\ UNCHANGED readers

Goto(t, label) == pc' = [pc EXCEPT ![t] = label]

Return(t) == Goto(t, "idle") /\ loc' = [loc EXCEPT ![t] = NoLocals]

Hold(t, s) == held' = [held EXCEPT ![t][s] = @ + 1]

-----------------------------------------------------------------------------
(* The pool's pure part.  p is a table with the counts its probes retain.  *)
BucketOf(b, x) == Hash[x] % Cardinality(DOMAIN b)

(* Where a list has symbols of the string that can be retained.            *)
LiveMatches(list, x, r) == {j \in DOMAIN list : name[list[j]] = x /\ r[list[j]] > 0}

(* insertSymbol on a table whose writer is alone: the newest match is      *)
(* retained, or the symbol goes in front.                                  *)
InsertInto(p, s) ==
  LET i == BucketOf(p.buckets, name[s])
      live == LiveMatches(p.buckets[i], name[s], p.rc)
  IN  IF live # {}
      THEN [p EXCEPT !.rc[p.buckets[i][Min(live)]] = @ + 1]
      ELSE [p EXCEPT !.buckets[i] = Cons(s, @), !.count = @ + 1]

(* nextHashState: a bucket is walked from its oldest entry,                *)
InsertAll(p, list) ==
  LET after[j \in 0 .. Len(list)] ==
        IF j = 0 THEN p ELSE InsertInto(after[j - 1], list[Len(list) + 1 - j])
  IN  after[Len(list)]

EmptyTable(n, r) == [buckets |-> [i \in 0 .. n - 1 |-> <<>>], count |-> 0, rc |-> r]

(* and the last bucket comes first.  reconstructSymbols: everything is     *)
(* inserted again in a new array, which is never small enough for that to  *)
(* grow it once more.                                                      *)
Reconstruct(b, n, r) ==
  LET size == Cardinality(DOMAIN b)
      after[k \in 0 .. size] ==
        IF k = 0 THEN EmptyTable(n, r) ELSE InsertAll(after[k - 1], b[size - k])
  IN  after[size]

(* The macros GROW_POOL and SHRINK_POOL, on the table b of c entries.      *)
GrowPool(b, c, r) ==
  LET n == Cardinality(DOMAIN b)
  IN  IF c * GrowFactor > n THEN Reconstruct(b, 2 * n + 1, r)
      ELSE [buckets |-> b, count |-> c, rc |-> r]

ShrinkPool(b, c, r) ==
  LET n == Cardinality(DOMAIN b)
  IN  IF c * ShrinkFactor < n /\ n > InitialBuckets
      THEN Reconstruct(b, (n - 1) \div 2, r)
      ELSE [buckets |-> b, count |-> c, rc |-> r]

SetTable(p) == buckets' = p.buckets /\ count' = p.count

-----------------------------------------------------------------------------
(* withCString, withCStringNoCopy and existingSymbolForCString.  Only code *)
(* of a loaded kext passes strings of its text.                            *)
CanHold(t, x) == \A s \in Symbols : name[s] = x => held[t][s] < MaxHold

Lookup(t, x, copy, label) ==
  /\ pc[t] = "idle" /\ CanHold(t, x)
  /\ copy \/ text = "mapped"
  /\ Goto(t, label)
  /\ loc' = [loc EXCEPT ![t] = [NoLocals EXCEPT !.str = x, !.copy = copy]]
  /\ UNCHANGED <<table, symbols, text, gate, held>>

WithCString(t, x) == Lookup(t, x, TRUE, "with")
WithCStringNoCopy(t, x) == Lookup(t, x, FALSE, "with")
ExistingSymbolForCString(t, x) == Lookup(t, x, TRUE, "existing")

(* closeReadGate, and the list that findSymbol is about to walk.           *)
BeginFind(t) ==
  /\ pc[t] \in {"with", "existing"}
  /\ CloseReadGate(t)
  /\ Goto(t, IF pc[t] = "with" THEN "find" ELSE "findOnly")
  /\ loc' = [loc EXCEPT ![t].list = buckets[BucketOf(buckets, loc[t].str)]]
  /\ UNCHANGED <<table, symbols, text, held>>

Probing == {"find", "findOnly", "insert"}

(* One probe of findSymbol or insertSymbol fails: another string, or the   *)
(* symbol is dying.                                                        *)
Misses(t, s) == name[s] # loc[t].str \/ rc[s] = 0

ProbeNext(t) ==
  /\ pc[t] \in Probing
  /\ loc[t].list # <<>>
  /\ Misses(t, Head(loc[t].list))
  /\ loc' = [loc EXCEPT ![t].list = Tail(@)]
  /\ UNCHANGED <<table, symbols, text, gate, held, pc>>

(* The probe matches and retains the symbol, and the gate opens.  dropped  *)
(* are the symbols whose storage goes back.                                *)
HitAndDrop(t, dropped) ==
  /\ pc[t] \in Probing
  /\ loc[t].list # <<>>
  /\ LET s == Head(loc[t].list)
     IN  /\ ~ Misses(t, s)
         /\ rc' = [q \in Symbols |-> IF q = s THEN rc[s] + 1
                                     ELSE IF q \in dropped THEN 0 ELSE rc[q]]
         /\ Hold(t, s)
  /\ name' = [q \in Symbols |-> IF q \in dropped THEN None ELSE name[q]]
  /\ place' = [q \in Symbols |-> IF q \in dropped THEN "heap" ELSE place[q]]
  /\ IF pc[t] = "insert" THEN OpenWriteGate(t) ELSE OpenReadGate(t)
  /\ Return(t)
  /\ UNCHANGED <<table, text>>

(* Mutant: the copy that lost the race is forgotten. *)
BugProbeHit(t) == HitAndDrop(t, {})

(* The copy that insertSymbol did not need is freed by OSString::free,     *)
(* past the pool.                                                          *)
ProbeHit(t) == HitAndDrop(t, {loc[t].sym})

(* findSymbol found nothing. *)
FindFails(t) ==
  /\ pc[t] \in {"find", "findOnly"}
  /\ loc[t].list = <<>>
  /\ OpenReadGate(t)
  /\ IF pc[t] = "find" THEN Goto(t, "new") /\ UNCHANGED loc ELSE Return(t)
  /\ UNCHANGED <<table, symbols, text, held>>

(* new OSSymbol and the initialisation of the string it inherits. *)
NewSymbol(t) ==
  /\ pc[t] = "new"
  /\ \E s \in FreeStorage :
       /\ rc' = [rc EXCEPT ![s] = 1]
       /\ name' = [name EXCEPT ![s] = loc[t].str]
       /\ place' = [place EXCEPT ![s] = IF loc[t].copy THEN "heap" ELSE "text"]
       /\ loc' = [loc EXCEPT ![t].sym = s]
  /\ Goto(t, "newInited")
  /\ UNCHANGED <<table, text, gate, held>>

(* The initialisation fails: withCString returns the new symbol all the    *)
(* same, without a string and outside the pool.                            *)
NewSymbolFails(t) ==
  /\ pc[t] = "new"
  /\ InitMayFail
  /\ \E s \in FreeStorage :
       /\ rc' = [rc EXCEPT ![s] = 1]
       /\ name' = [name EXCEPT ![s] = None]
       /\ Hold(t, s)
  /\ Return(t)
  /\ UNCHANGED <<table, place, text, gate>>

(* Mutant: inserts without looking for the string again. *)
BugBeginInsert(t) ==
  /\ pc[t] = "newInited"
  /\ CloseWriteGate(t)
  /\ Goto(t, "insert")
  /\ UNCHANGED <<table, symbols, text, held, loc>>

BeginInsert(t) ==
  /\ pc[t] = "newInited"
  /\ CloseWriteGate(t)
  /\ Goto(t, "insert")
  /\ loc' = [loc EXCEPT ![t].list = buckets[BucketOf(buckets, loc[t].str)]]
  /\ UNCHANGED <<table, symbols, text, held>>

(* No probe matched: the symbol is in its bucket's new list, and a bucket  *)
(* that was not empty may make the pool grow.                              *)
InsertAs(t, list) ==
  /\ pc[t] = "insert"
  /\ loc[t].list = <<>>
  /\ LET s == loc[t].sym
         i == BucketOf(buckets, loc[t].str)
         b == [buckets EXCEPT ![i] = list]
         p == IF buckets[i] = <<>> THEN [buckets |-> b, count |-> count + 1, rc |-> rc]
              ELSE GrowPool(b, count + 1, rc)
     IN  SetTable(p) /\ rc' = p.rc /\ Hold(t, s)
  /\ OpenWriteGate(t)
  /\ Return(t)
  /\ UNCHANGED <<name, place, text>>

ListFor(t) == buckets[BucketOf(buckets, loc[t].str)]

(* Mutant: the new symbol goes to the back of its bucket. *)
BugInsert(t) == InsertAs(t, Append(ListFor(t), loc[t].sym))

(* The new symbol goes in front. *)
Insert(t) == InsertAs(t, Cons(loc[t].sym, ListFor(t)))

-----------------------------------------------------------------------------
(* withString and existingSymbolForString of an OSSymbol, or retain. *)
Retain(t, s) ==
  /\ pc[t] = "idle" /\ held[t][s] \in 1 .. MaxHold - 1
  /\ rc' = [rc EXCEPT ![s] = @ + 1]
  /\ Hold(t, s)
  /\ UNCHANGED <<table, name, place, text, gate, pc, loc>>

(* release: the last one goes on to OSSymbol::free. *)
Release(t, s) ==
  /\ pc[t] = "idle"
  /\ held[t][s] > 0
  /\ rc' = [rc EXCEPT ![s] = @ - 1]
  /\ held' = [held EXCEPT ![t][s] = @ - 1]
  /\ IF rc[s] = 1
     THEN Goto(t, "free") /\ loc' = [loc EXCEPT ![t].sym = s]
     ELSE UNCHANGED <<pc, loc>>
  /\ UNCHANGED <<table, name, place, text, gate>>

BeginFree(t) ==
  /\ pc[t] = "free"
  /\ CloseWriteGate(t)
  /\ Goto(t, "remove")
  /\ UNCHANGED <<table, symbols, text, held, loc>>

(* What removeSymbol looks for: the symbol in the bucket of its string. *)
InItsBucket(s) ==
  name[s] # None /\ Contains(buckets[BucketOf(buckets, name[s])], s)

(* removeSymbol finds the symbol, takes it out and, from a bucket of one   *)
(* or two entries, may shrink the pool; the gate opens and the storage is  *)
(* deleted.                                                                *)
RemoveSymbol(t) ==
  /\ pc[t] = "remove"
  /\ InItsBucket(loc[t].sym)
  /\ LET s == loc[t].sym
         i == BucketOf(buckets, name[s])
     IN  \E j \in DOMAIN buckets[i] :
           LET b == [buckets EXCEPT ![i] = RemoveAt(@, j)]
               p == IF Len(buckets[i]) <= 2 THEN ShrinkPool(b, count - 1, rc)
                    ELSE [buckets |-> b, count |-> count - 1, rc |-> rc]
           IN  /\ buckets[i][j] = s
               /\ SetTable(p) /\ rc' = p.rc
               /\ name' = [name EXCEPT ![s] = None]
               /\ place' = [place EXCEPT ![s] = "heap"]
  /\ OpenWriteGate(t)
  /\ Return(t)
  /\ UNCHANGED <<text, held>>

(* removeSymbol does not find it, or it has no string to look it up with.  *)
RemovePanics(t) ==
  /\ pc[t] = "remove"
  /\ ~ InItsBucket(loc[t].sym)
  /\ Goto(t, "panic")
  /\ UNCHANGED <<table, symbols, text, gate, held, loc>>

-----------------------------------------------------------------------------
(* OSRuntimeFinalizeCPP calls checkForPageUnload before the text of a kext *)
(* goes away; its code no longer runs by then.                             *)
Unload(t) ==
  /\ pc[t] = "idle"
  /\ text = "mapped"
  /\ \A u \in Threads : loc[u].copy /\ pc[u] # "unmap"
  /\ text' = "unloading"
  /\ Goto(t, "unload")
  /\ UNCHANGED <<table, symbols, gate, held, loc>>

BeginPageUnload(t) ==
  /\ pc[t] = "unload"
  /\ CloseWriteGate(t)
  /\ Goto(t, "checkPages")
  /\ UNCHANGED <<table, symbols, text, held, loc>>

(* Mutant: only the symbols that are alive are copied. *)
BugCheckForPageUnload(t) ==
  /\ pc[t] = "checkPages"
  /\ place' = [s \in Symbols |-> IF s \in InPool /\ rc[s] > 0 THEN "heap" ELSE place[s]]
  /\ OpenWriteGate(t)
  /\ Goto(t, "unmap")
  /\ UNCHANGED <<table, rc, name, text, held, loc>>

(* Every symbol in the pool gets its own copy of its characters. *)
CheckForPageUnload(t) ==
  /\ pc[t] = "checkPages"
  /\ place' = [s \in Symbols |-> IF s \in InPool THEN "heap" ELSE place[s]]
  /\ OpenWriteGate(t)
  /\ Goto(t, "unmap")
  /\ UNCHANGED <<table, rc, name, text, held, loc>>

Unmap(t) ==
  /\ pc[t] = "unmap"
  /\ text' = "unmapped"
  /\ Goto(t, "idle")
  /\ UNCHANGED <<table, symbols, gate, held, loc>>

-----------------------------------------------------------------------------
Call(t) ==
  \/ \E x \in Strings : \/ WithCString(t, x)
                        \/ WithCStringNoCopy(t, x)
                        \/ ExistingSymbolForCString(t, x)
  \/ \E s \in Symbols : Retain(t, s) \/ Release(t, s)
  \/ Unload(t)

Enter(t) ==
  BeginFind(t) \/ BeginInsert(t) \/ BeginFree(t) \/ BeginPageUnload(t)

Inside(t) ==
  \/ ProbeNext(t) \/ ProbeHit(t) \/ FindFails(t)
  \/ NewSymbol(t) \/ NewSymbolFails(t) \/ Insert(t)
  \/ RemoveSymbol(t) \/ RemovePanics(t)
  \/ CheckForPageUnload(t) \/ Unmap(t)

(* A panic aborts the process: no thread runs after it. *)
Next ==
  /\ \A u \in Threads : pc[u] # "panic"
  /\ \E t \in Threads : Call(t) \/ Enter(t) \/ Inside(t)

Spec == Init /\ [][Next]_vars

-----------------------------------------------------------------------------
(* The sizes a pool may have: it grows to twice its buckets and one.       *)
PoolSize[k \in Nat] == IF k = 0 THEN InitialBuckets ELSE 2 * PoolSize[k - 1] + 1

IsPoolSize(n) == \E k \in 0 .. n : n = PoolSize[k]

(* The values every variable may take. *)
TypeOK ==
  /\ IsPoolSize(nBuckets)
  /\ buckets \in [0 .. nBuckets - 1 -> Seq(Symbols)]
  /\ count \in Nat
  /\ rc \in [Symbols -> Nat]
  /\ name \in [Symbols -> Strings \cup {None}]
  /\ place \in [Symbols -> {"heap", "text"}]
  /\ text \in {"mapped", "unloading", "unmapped"}
  /\ readers \subseteq Threads /\ writer \in Threads \cup {None}
  /\ held \in [Threads -> [Symbols -> 0 .. MaxHold]]
  /\ pc \in [Threads -> {"idle", "with", "existing", "find", "findOnly", "new", "newInited",
                         "insert", "free", "remove", "unload", "checkPages", "unmap", "panic"}]
  /\ loc \in [Threads -> [str : Strings \cup {None}, copy : BOOLEAN,
                         sym : Symbols \cup {None}, list : Seq(Symbols)]]

(* No symbol is twice in a table,                                          *)
EntriesDiffer(b) ==
  \A i, k \in DOMAIN b : \A j \in DOMAIN b[i], l \in DOMAIN b[k] :
    b[i][j] = b[k][l] => i = k /\ j = l

(* each is where its string hashes to,                                     *)
AtTheirHash(b) ==
  \A i \in DOMAIN b : \A j \in DOMAIN b[i] :
    name[b[i][j]] \in Strings /\ i = BucketOf(b, name[b[i][j]])

(* and a live symbol is in front of the dying ones with its string.        *)
LiveInFront(b, r) ==
  \A i \in DOMAIN b : \A j, l \in DOMAIN b[i] :
    name[b[i][j]] = name[b[i][l]] /\ r[b[i][l]] > 0 => l <= j

(* The pool has a size it can grow to and shrink from, counts its entries, *)
(* and holds them in the order that rehashing depends on.                  *)
PoolIsSound ==
  /\ IsPoolSize(nBuckets)
  /\ count = Cardinality(InPool)
  /\ EntriesDiffer(buckets) /\ AtTheirHash(buckets) /\ LiveInFront(buckets, rc)

(* The references clients have to a symbol, numbered for each thread, and  *)
(* the one of a symbol that is being made.                                 *)
Refs(s) == {r \in Threads \X (1 .. MaxHold) : r[2] <= held[r[1]][s]}

IsNew(s) == \E t \in Threads : pc[t] \in {"newInited", "insert"} /\ loc[t].sym = s

(* The retain count of a symbol is the number of references clients hold:  *)
(* no probe, rehash or lost race keeps one.                                *)
NoLeakedRetain ==
  \A s \in Symbols : rc[s] = Cardinality(Refs(s)) + IF IsNew(s) THEN 1 ELSE 0

(* After a kext's text is unmapped no symbol, dying ones included, has its *)
(* characters there.                                                       *)
NoDanglingText ==
  text = "unmapped" => \A s \in InPool : place[s] = "heap"

(* The pool as its clients see it: a table of unique live symbols.         *)
Interned ==
  [x \in Strings |->
     LET live == {s \in InPool : name[s] = x /\ rc[s] > 0}
     IN  IF live = {} THEN None ELSE CHOOSE s \in live : TRUE]

UniqueStrings == INSTANCE SymbolTable WITH entry <- Interned

ImplementsSymbolTable == UniqueStrings!Spec

=============================================================================
