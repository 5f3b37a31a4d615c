------------------------- MODULE OSSymbolPool_proofs -------------------------
(***************************************************************************)
(* OSSymbolPool keeps its pool sound, counts references exactly, leaves no *)
(* symbol in unloaded text, and implements SymbolTable, for any threads,   *)
(* symbols, strings and hash.                                              *)
(***************************************************************************)
EXTENDS OSSymbolPool, SequenceLemmas, FiniteSetTheorems, TLAPS

-----------------------------------------------------------------------------
(* Tables, and what insertSymbol and rehashing make of them.               *)

Arrays(n) == [0 .. n - 1 -> Seq(Symbols)]

Tables(n) == [buckets : Arrays(n), count : Nat, rc : [Symbols -> Nat]]

(* A table of n buckets in order, that has retained nothing since r. *)
SoundTable(p, n, r) ==
  /\ p \in Tables(n) /\ p.rc = r
  /\ IsFiniteSet(SymbolsIn(p.buckets)) /\ p.count = Cardinality(SymbolsIn(p.buckets))
  /\ EntriesDiffer(p.buckets) /\ AtTheirHash(p.buckets) /\ LiveInFront(p.buckets, r)

(* A bucket with a symbol more, in front. *)
IsConsOf(c, s, l) ==
  /\ c \in Seq(Symbols) /\ DOMAIN c = 1 .. Len(l) + 1
  /\ DOMAIN l = 1 .. Len(l) /\ Len(l) \in Nat
  /\ c[1] = s
  /\ \A j \in 2 .. Len(l) + 1 : c[j] = l[j - 1]
  /\ \A j \in 1 .. Len(l) : c[j + 1] = l[j]

LEMMA BucketCons ==
  ASSUME NEW l \in Seq(Symbols), NEW s \in Symbols
  PROVE  IsConsOf(Cons(s, l), s, l)
<1>1. Cons(s, l) \in Seq(Symbols) /\ DOMAIN Cons(s, l) = 1 .. Len(l) + 1
  BY ConsFacts
<1>2. DOMAIN l = 1 .. Len(l) /\ Len(l) \in Nat /\ Cons(s, l)[1] = s
  BY ConsFacts
<1>3. \A j \in 2 .. Len(l) + 1 : Cons(s, l)[j] = l[j - 1]
  BY ConsFacts
<1>4. \A j \in 1 .. Len(l) : Cons(s, l)[j + 1] = l[j]
  BY ConsFacts
<1> QED BY <1>1, <1>2, <1>3, <1>4 DEF IsConsOf

USE PoolAssumption

LEMMA SizeFacts ==
  ASSUME NEW n \in Nat \ {0}, NEW b, DOMAIN b = 0 .. n - 1
  PROVE  /\ Cardinality(DOMAIN b) = n
         /\ \A x \in Strings : BucketOf(b, x) = Hash[x] % n /\ Hash[x] % n \in 0 .. n - 1
<1>1. Cardinality(0 .. n - 1) = n
  BY FS_Interval
<1>2. \A x \in Strings : Hash[x] \in Nat
  OBVIOUS
<1>3. \A h \in Nat : h % n \in 0 .. n - 1
  OBVIOUS
<1> QED BY <1>1, <1>2, <1>3 DEF BucketOf

(* The symbols of a table are those at its places. *)
LEMMA SymbolsInFacts ==
  ASSUME NEW n \in Nat, NEW b \in Arrays(n)
  PROVE  /\ SymbolsIn(b) \subseteq Symbols
         /\ \A s : s \in SymbolsIn(b) <=> \E i \in DOMAIN b : \E j \in DOMAIN b[i] : b[i][j] = s
         /\ \A i \in DOMAIN b : /\ DOMAIN b[i] = 1 .. Len(b[i]) /\ Len(b[i]) \in Nat
                                /\ \A j \in DOMAIN b[i] : b[i][j] \in Symbols
<1>1. \A i \in DOMAIN b : b[i] \in Seq(Symbols)
  BY DEF Arrays
<1>2. \A i \in DOMAIN b : /\ DOMAIN b[i] = 1 .. Len(b[i]) /\ Len(b[i]) \in Nat
                          /\ ToSet(b[i]) \subseteq Symbols
                          /\ \A x : x \in ToSet(b[i]) <=> \E j \in DOMAIN b[i] : b[i][j] = x
  BY <1>1, ToSetFacts
<1> QED BY <1>2 DEF SymbolsIn

LEMMA MinFacts ==
  ASSUME NEW T \in SUBSET Nat, T # {}
  PROVE  Min(T) \in T /\ \A k \in T : Min(T) <= k
<1>1. \E m \in T : \A k \in T : m <= k
  BY LeastNumber
<1> QED BY <1>1 DEF Min

(* insertSymbol leads from tables to tables, *)
LEMMA InsertIntoType ==
  ASSUME NEW n \in Nat \ {0}, NEW p \in Tables(n), NEW s \in Symbols, name[s] \in Strings
  PROVE  InsertInto(p, s) \in Tables(n)
<1> DEFINE i == BucketOf(p.buckets, name[s])
           live == LiveMatches(p.buckets[i], name[s], p.rc)
<1>1. /\ p.buckets \in Arrays(n) /\ p.count \in Nat
      /\ p.rc \in [Symbols -> Nat] /\ DOMAIN p.buckets = 0 .. n - 1
      /\ p = [buckets |-> p.buckets, count |-> p.count, rc |-> p.rc]
  BY DEF Tables, Arrays
<1>2. i \in 0 .. n - 1 /\ p.buckets[i] \in Seq(Symbols)
  BY <1>1, SizeFacts DEF Arrays
<1>3. CASE live # {}
  <2> DEFINE r == [p.rc EXCEPT ![p.buckets[i][Min(live)]] = @ + 1]
  <2>1. InsertInto(p, s) = [p EXCEPT !.rc = r]
    BY <1>3 DEF InsertInto
  <2>2. r \in [Symbols -> Nat]
    <3>1. ASSUME NEW q, NEW f \in [Symbols -> Nat] PROVE [f EXCEPT ![q] = @ + 1] \in [Symbols -> Nat]
      <4>1. CASE q \in Symbols
        BY <4>1
      <4>2. CASE q \notin Symbols
        <5>1. [f EXCEPT ![q] = @ + 1] = f
          BY <4>2
        <5> QED BY <5>1
      <4> QED BY <4>1, <4>2
    <3> QED BY <1>1, <3>1
  <2> HIDE DEF r
  <2>3. [p EXCEPT !.rc = r] \in Tables(n)
    BY <2>2 DEF Tables
  <2> QED BY <2>1, <2>3
<1>4. CASE live = {}
  <2>1. PICK b, m, q : /\ b = [p.buckets EXCEPT ![i] = Cons(s, p.buckets[i])]
                       /\ m = p.count + 1
                       /\ q = [p EXCEPT !.buckets = b, !.count = m]
                    /\ InsertInto(p, s) = q
    BY <1>4 DEF InsertInto
  <2>2. b \in Arrays(n)
    <3>1. Cons(s, p.buckets[i]) \in Seq(Symbols)
      BY <1>2, BucketCons DEF IsConsOf
    <3> HIDE DEF i
    <3> QED BY <1>1, <2>1, <3>1 DEF Arrays
  <2>3. q \in Tables(n)
    <3>1. m \in Nat
      BY <1>1, <2>1
    <3> QED BY <2>1, <2>2, <3>1 DEF Tables
  <2> QED BY <2>1, <2>3
<1> QED BY <1>3, <1>4

(* The table p has neither s nor a live symbol with its string. *)
IsMissing(p, s, r) ==
  /\ s \in Symbols /\ name[s] \in Strings /\ s \notin SymbolsIn(p.buckets)
  /\ \A q \in SymbolsIn(p.buckets) : name[q] = name[s] => ~(r[q] > 0)

(* Such a symbol is inserted in front, and nothing else happens.           *)
LEMMA InsertIntoSound ==
  ASSUME NEW n \in Nat \ {0}, NEW r, NEW p, SoundTable(p, n, r), NEW s, IsMissing(p, s, r)
  PROVE  /\ SoundTable(InsertInto(p, s), n, r)
         /\ SymbolsIn(InsertInto(p, s).buckets) = SymbolsIn(p.buckets) \cup {s}
<1> USE DEF IsMissing
<1>0. PICK b, i : b = p.buckets /\ i = BucketOf(p.buckets, name[s])
  OBVIOUS
<1>1. /\ b \in Arrays(n) /\ p.count \in Nat /\ p.rc = r
      /\ DOMAIN b = 0 .. n - 1 /\ p \in Tables(n)
  BY <1>0 DEF Tables, SoundTable, Arrays
<1>2. i \in 0 .. n - 1 /\ b[i] \in Seq(Symbols) /\ i = Hash[name[s]] % n
  BY <1>0, <1>1, SizeFacts DEF Arrays
<1>3. LiveMatches(b[i], name[s], p.rc) = {}
  <2>1. \A j \in DOMAIN b[i] : b[i][j] \in SymbolsIn(b)
    BY <1>1, <1>2, SymbolsInFacts
  <2> QED BY <1>0, <1>1, <2>1 DEF LiveMatches
<1>4. PICK c, m, q : /\ c = [b EXCEPT ![i] = Cons(s, b[i])]
                     /\ m = p.count + 1
                     /\ q = [p EXCEPT !.buckets = c, !.count = m]
                     /\ InsertInto(p, s) = q
  BY <1>0, <1>3 DEF InsertInto
<1>5. /\ Cons(s, b[i]) \in Seq(Symbols) /\ DOMAIN Cons(s, b[i]) = 1 .. Len(b[i]) + 1
      /\ DOMAIN b[i] = 1 .. Len(b[i]) /\ Len(b[i]) \in Nat
      /\ Cons(s, b[i])[1] = s
      /\ \A j \in 2 .. Len(b[i]) + 1 : Cons(s, b[i])[j] = b[i][j - 1]
      /\ \A j \in 1 .. Len(b[i]) : Cons(s, b[i])[j + 1] = b[i][j]
  <2>1. IsConsOf(Cons(s, b[i]), s, b[i])
    BY <1>2, BucketCons
  <2> QED BY <2>1 DEF IsConsOf
<1>6. /\ c \in Arrays(n) /\ DOMAIN c = 0 .. n - 1
      /\ c[i] = Cons(s, b[i]) /\ \A k \in 0 .. n - 1 : k # i => c[k] = b[k]
  BY <1>1, <1>2, <1>4, <1>5 DEF Arrays
<1>7. q \in Tables(n) /\ q.buckets = c /\ q.count = p.count + 1 /\ q.rc = r
  <2>1. m \in Nat
    BY <1>1, <1>4
  <2>2. q \in Tables(n) /\ q.buckets = c
    BY <1>1, <1>4, <1>6, <2>1 DEF Tables
  <2>3. q.count = m /\ q.rc = p.rc
    BY <1>1, <1>4, <1>6, <2>1 DEF Tables
  <2> QED BY <1>1, <1>4, <2>2, <2>3
(* A place of c is the first of bucket i, or a place of b. *)
<1>8. ASSUME NEW k \in DOMAIN c, NEW j \in DOMAIN c[k]
      PROVE  \/ k = i /\ j = 1 /\ c[k][j] = s
             \/ k = i /\ j > 1 /\ j - 1 \in DOMAIN b[k] /\ c[k][j] = b[k][j - 1]
             \/ k # i /\ j \in DOMAIN b[k] /\ c[k][j] = b[k][j]
  <2>1. CASE k = i
    <3>1. j \in 1 .. Len(b[i]) + 1
      BY <1>5, <1>6, <2>1
    <3>2. CASE j = 1
      BY <1>5, <1>6, <2>1, <3>2
    <3>3. CASE j # 1
      <4>1. j \in 2 .. Len(b[i]) + 1 /\ j - 1 \in 1 .. Len(b[i]) /\ j > 1
        BY <1>5, <3>1, <3>3
      <4> QED BY <1>5, <1>6, <2>1, <4>1
    <3> QED BY <3>2, <3>3
  <2>2. CASE k # i
    BY <1>6, <2>2
  <2> QED BY <2>1, <2>2
<1>9. SymbolsIn(c) = SymbolsIn(b) \cup {s}
  <2>1. ASSUME NEW x \in SymbolsIn(c) PROVE x \in SymbolsIn(b) \cup {s}
    <3>1. PICK k \in DOMAIN c : \E j \in DOMAIN c[k] : c[k][j] = x
      BY <1>6, SymbolsInFacts
    <3>2. PICK j \in DOMAIN c[k] : c[k][j] = x
      BY <3>1
    <3> QED BY <1>1, <1>6, <1>8, <3>2, SymbolsInFacts
  <2>2. s \in SymbolsIn(c)
    <3>1. 1 \in DOMAIN c[i] /\ c[i][1] = s /\ i \in DOMAIN c
      <4>1. i \in DOMAIN c
        BY <1>2, <1>6
      <4>2. c[i][1] = s
        BY <1>5, <1>6
      <4>3. 1 \in DOMAIN c[i]
        BY <1>5, <1>6, SMTT(20)
      <4> QED BY <4>1, <4>2, <4>3
    <3> QED BY <1>6, <3>1, SymbolsInFacts
  <2>3. ASSUME NEW x \in SymbolsIn(b) PROVE x \in SymbolsIn(c)
    <3>1. PICK k \in DOMAIN b : \E j \in DOMAIN b[k] : b[k][j] = x
      BY <1>1, SymbolsInFacts
    <3>2. PICK j \in DOMAIN b[k] : b[k][j] = x
      BY <3>1
    <3>3. CASE k = i
      <4>1. j \in 1 .. Len(b[i]) /\ j + 1 \in 1 .. Len(b[i]) + 1
        BY <1>5, <3>3
      <4>2. j + 1 \in DOMAIN c[i] /\ c[i][j + 1] = x /\ i \in DOMAIN c
        BY <1>2, <1>5, <1>6, <3>2, <3>3, <4>1
      <4> QED BY <1>6, <4>2, SymbolsInFacts
    <3>4. CASE k # i
      BY <1>1, <1>6, <3>2, <3>4, SymbolsInFacts
    <3> QED BY <3>3, <3>4
  <2> QED BY <2>1, <2>2, <2>3
<1>10. IsFiniteSet(SymbolsIn(c)) /\ q.count = Cardinality(SymbolsIn(c))
  <2>1. /\ s \notin SymbolsIn(b) /\ IsFiniteSet(SymbolsIn(b)) /\ p.count = Cardinality(SymbolsIn(b))
    BY <1>0 DEF SoundTable
  <2> QED BY <1>7, <1>9, <2>1, FS_AddElement
<1>11. /\ EntriesDiffer(b) /\ AtTheirHash(b) /\ LiveInFront(b, r)
       /\ \A k \in DOMAIN b : \A j \in DOMAIN b[k] : b[k][j] # s /\ (name[b[k][j]] = name[s] => ~(r[b[k][j]] > 0))
  <2>1. \A k \in DOMAIN b : \A j \in DOMAIN b[k] : b[k][j] \in SymbolsIn(b)
    BY <1>1, SymbolsInFacts
  <2> QED BY <1>0, <2>1 DEF SoundTable
<1>12. EntriesDiffer(c)
  <2> SUFFICES ASSUME NEW k \in DOMAIN c, NEW h \in DOMAIN c, NEW j \in DOMAIN c[k], NEW l \in DOMAIN c[h],
                      c[k][j] = c[h][l]
               PROVE  k = h /\ j = l
    BY DEF EntriesDiffer
  <2>1. j \in Nat /\ l \in Nat /\ k \in DOMAIN b /\ h \in DOMAIN b
    BY SMTT(30), <1>1, <1>6, SymbolsInFacts
  <2>2. CASE c[k][j] = s
    <3>1. k = i /\ j = 1
      BY <1>8, <1>11, <2>1, <2>2
    <3>2. c[h][l] = s
      BY <2>2
    <3>3. h = i /\ l = 1
      BY <1>8, <1>11, <2>1, <3>2
    <3> QED BY <3>1, <3>3
  <2>3. CASE c[k][j] # s
    <3>1. PICK u \in DOMAIN b[k] : c[k][j] = b[k][u] /\ u = IF k = i THEN j - 1 ELSE j
      BY <1>8, <2>3
    <3>2. PICK v \in DOMAIN b[h] : c[h][l] = b[h][v] /\ v = IF h = i THEN l - 1 ELSE l
      BY <1>8, <2>3
    <3>3. k = h /\ u = v
      <4>1. b[k][u] = b[h][v]
        BY <3>1, <3>2
      <4> QED BY <1>11, <2>1, <4>1 DEF EntriesDiffer
    <3> QED BY <2>1, <3>1, <3>2, <3>3
  <2> QED BY <2>2, <2>3
<1>13. AtTheirHash(c)
  <2>1. \A x \in Strings : BucketOf(c, x) = BucketOf(b, x)
    BY <1>1, <1>6, SizeFacts
  <2>2. i = BucketOf(c, name[s])
    BY <1>0, <1>2, <2>1
  <2> QED BY <1>1, <1>6, <1>8, <1>11, <2>1, <2>2 DEF AtTheirHash
<1>14. LiveInFront(c, r)
  <2> SUFFICES ASSUME NEW k \in DOMAIN c, NEW j \in DOMAIN c[k], NEW l \in DOMAIN c[k],
                      name[c[k][j]] = name[c[k][l]], r[c[k][l]] > 0
               PROVE  l <= j
    BY DEF LiveInFront
  <2>1. j \in Nat /\ j >= 1 /\ l \in Nat /\ k \in DOMAIN b
    BY <1>1, <1>6, SymbolsInFacts
  <2>2. CASE k = i /\ l = 1
    BY <2>1, <2>2
  <2>3. CASE ~(k = i /\ l = 1)
    <3>1. PICK v \in DOMAIN b[k] : c[k][l] = b[k][v] /\ v = IF k = i THEN l - 1 ELSE l
      BY <1>8, <2>3
    <3>2. c[k][j] # s
      BY <1>11, <2>1, <3>1
    <3>3. PICK u \in DOMAIN b[k] : c[k][j] = b[k][u] /\ u = IF k = i THEN j - 1 ELSE j
      BY <1>8, <3>2
    <3>4. v <= u
      BY <1>11, <2>1, <3>1, <3>3 DEF LiveInFront
    <3> QED BY <2>1, <3>1, <3>3, <3>4
  <2> QED BY <2>2, <2>3
<1> QED BY <1>0, <1>4, <1>7, <1>9, <1>10, <1>12, <1>13, <1>14 DEF SoundTable

(* f is the loop over a bucket, after each of its symbols. *)
BucketLoop(f, p, list) ==
  /\ f[0] = p /\ InsertAll(p, list) = f[Len(list)]
  /\ \A j \in 1 .. Len(list) : f[j] = InsertInto(f[j - 1], list[Len(list) + 1 - j])

LEMMA InsertAllSteps ==
  ASSUME NEW n \in Nat \ {0}, NEW p \in Tables(n), NEW list \in Seq(Symbols),
         \A j \in DOMAIN list : name[list[j]] \in Strings
  PROVE  \E f : BucketLoop(f, p, list)
<1> DEFINE N == Len(list)
           s(j) == list[N + 1 - j]
<1>1. N \in Nat /\ DOMAIN list = 1 .. N /\ \A j \in 1 .. N : list[j] \in Symbols
  BY ToSetFacts, ElementOfSeq
<1>2. \A j \in 1 .. N : s(j) \in Symbols /\ name[s(j)] \in Strings
  <2> TAKE j \in 1 .. N
  <2>1. N + 1 - j \in 1 .. N
    BY <1>1
  <2> QED BY <1>1, <2>1
<1>3. PICK g : g = [j \in 1 .. N |-> [x \in Tables(n) |-> InsertInto(x, s(j))]]
  OBVIOUS
<1>4. \A j \in 1 .. N : \A x \in Tables(n) : InsertInto(x, s(j)) \in Tables(n)
  <2> HIDE DEF s
  <2> QED BY <1>2, InsertIntoType
<1>5. StepsWithin(1 .. N, Tables(n), g)
  <2> HIDE DEF s
  <2> QED BY <1>3, <1>4 DEF StepsWithin
<1>6. PICK e : Iterates(N, Tables(n), p, g, e)
  BY <1>1, <1>5, RecursionTo
<1>7. e \in [0 .. N -> Tables(n)] /\ e[0] = p /\ \A j \in 1 .. N : e[j] = g[j][e[j - 1]]
  BY <1>6 DEF Iterates
<1>8. \A j \in 1 .. N : e[j] = InsertInto(e[j - 1], s(j))
  <2> TAKE j \in 1 .. N
  <2>1. j - 1 \in 0 .. N
    BY <1>1
  <2> HIDE DEF s, N
  <2> QED BY <1>3, <1>7, <2>1
<1>9. e = [j \in 0 .. N |-> IF j = 0 THEN p ELSE InsertInto(e[j - 1], s(j))]
  <2> HIDE DEF s
  <2> QED BY <1>1, <1>7, <1>8
<1> DEFINE f == CHOOSE f : f = [j \in 0 .. N |-> IF j = 0 THEN p ELSE InsertInto(f[j - 1], s(j))]
<1>10. f = [j \in 0 .. N |-> IF j = 0 THEN p ELSE InsertInto(f[j - 1], s(j))]
  <2> HIDE DEF s
  <2> QED BY <1>9
<1>11. InsertAll(p, list) = f[N]
  BY DEF InsertAll
<1> HIDE DEF f
<1>12. f[0] = p /\ \A j \in 1 .. N : f[j] = InsertInto(f[j - 1], s(j))
  <2> HIDE DEF s, N
  <2>1. 0 \in 0 .. N /\ \A j \in 1 .. N : j \in 0 .. N /\ j # 0
    BY <1>1
  <2> QED BY <1>10, <2>1
<1> QED BY <1>11, <1>12 DEF BucketLoop

(* A bucket in order whose strings the table does not have. *)
IsAbsent(p, list, r) ==
  /\ list \in Seq(Symbols)
  /\ \A j \in DOMAIN list : /\ name[list[j]] \in Strings
                            /\ \A q \in SymbolsIn(p.buckets) : name[q] # name[list[j]]
  /\ \A j, l \in DOMAIN list :
       /\ list[j] = list[l] => j = l
       /\ name[list[j]] = name[list[l]] /\ r[list[l]] > 0 => l <= j

LEMMA InsertAllSound ==
  ASSUME NEW n \in Nat \ {0}, NEW r, NEW p, SoundTable(p, n, r), NEW list, IsAbsent(p, list, r)
  PROVE  /\ SoundTable(InsertAll(p, list), n, r)
         /\ SymbolsIn(InsertAll(p, list).buckets) = SymbolsIn(p.buckets) \cup ToSet(list)
<1>0. PICK N : N = Len(list)
  OBVIOUS
<1>1. N \in Nat /\ DOMAIN list = 1 .. N /\ \A j \in 1 .. N : list[j] \in Symbols
  BY <1>0, ToSetFacts, ElementOfSeq DEF IsAbsent
<1>2. PICK f : /\ f[0] = p /\ InsertAll(p, list) = f[N]
               /\ \A j \in 1 .. N : f[j] = InsertInto(f[j - 1], list[N + 1 - j])
  <2>1. p \in Tables(n) /\ list \in Seq(Symbols) /\ \A j \in DOMAIN list : name[list[j]] \in Strings
    BY DEF SoundTable, IsAbsent
  <2>2. \E f : BucketLoop(f, p, list)
    BY <2>1, InsertAllSteps
  <2> QED BY <1>0, <2>2 DEF BucketLoop
<1> DEFINE In(j) == SymbolsIn(p.buckets) \cup {list[l] : l \in N + 1 - j .. N}
           T == {j \in 0 .. N : SoundTable(f[j], n, r) /\ SymbolsIn(f[j].buckets) = In(j)}
<1>3. 0 \in T
  <2>1. In(0) = SymbolsIn(p.buckets)
    <3>1. N + 1 - 0 .. N = {}
      BY <1>1
    <3> QED BY <3>1
  <2> QED BY <1>1, <1>2, <2>1
<1>4. ASSUME NEW j \in 1 .. N, j - 1 \in T PROVE j \in T
  <2>1. PICK s, m : m = N + 1 - j /\ s = list[m] /\ m \in 1 .. N /\ s \in Symbols
    BY <1>1
  <2>2. SoundTable(f[j - 1], n, r) /\ SymbolsIn(f[j - 1].buckets) = In(j - 1) /\ f[j] = InsertInto(f[j - 1], s)
    BY <1>2, <1>4, <2>1
  <2>3. In(j - 1) = SymbolsIn(p.buckets) \cup {list[l] : l \in m + 1 .. N}
    <3>1. N + 1 - (j - 1) = m + 1
      BY <1>1, <2>1
    <3> QED BY <3>1
  <2>4. In(j) = In(j - 1) \cup {s}
    <3>1. m .. N = m + 1 .. N \cup {m}
      BY <1>1, <2>1
    <3> QED BY <2>1, <2>3, <3>1
  <2>5. name[s] \in Strings
    BY <1>1, <2>1 DEF IsAbsent
  <2>6. ASSUME NEW q \in In(j - 1) PROVE q # s /\ (name[q] = name[s] => ~(r[q] > 0))
    <3>1. CASE q \in SymbolsIn(p.buckets)
      BY <1>1, <2>1, <3>1 DEF IsAbsent
    <3>2. CASE \E l \in m + 1 .. N : q = list[l]
      <4>1. PICK l \in m + 1 .. N : q = list[l]
        BY <3>2
      <4>2. l \in DOMAIN list /\ m \in DOMAIN list /\ l # m /\ ~(l <= m)
        BY <1>1, <2>1
      <4> QED BY <2>1, <4>1, <4>2 DEF IsAbsent
    <3> QED BY <2>3, <3>1, <3>2
  <2> HIDE DEF In
  <2>7. s \notin SymbolsIn(f[j - 1].buckets)
    BY <2>2, <2>6
  <2>8. \A q \in SymbolsIn(f[j - 1].buckets) : name[q] = name[s] => ~(r[q] > 0)
    BY <2>2, <2>6
  <2>9. SoundTable(f[j], n, r) /\ SymbolsIn(f[j].buckets) = In(j)
    <3>1. PICK h : h = f[j - 1]
      OBVIOUS
    <3>2. /\ SoundTable(h, n, r) /\ s \notin SymbolsIn(h.buckets) /\ f[j] = InsertInto(h, s)
          /\ \A q \in SymbolsIn(h.buckets) : name[q] = name[s] => ~(r[q] > 0)
          /\ SymbolsIn(h.buckets) = In(j - 1)
      BY <2>2, <2>7, <2>8, <3>1
    <3>3. SoundTable(InsertInto(h, s), n, r) /\ SymbolsIn(InsertInto(h, s).buckets) = SymbolsIn(h.buckets) \cup {s}
      <4>1. IsMissing(h, s, r)
        BY <2>1, <2>5, <3>2 DEF IsMissing
      <4> QED BY <3>2, <4>1, InsertIntoSound
    <3> QED BY <2>4, <3>2, <3>3
  <2> QED BY <2>9
<1>5. N \in T
  <2> HIDE DEF T
  <2>1. 0 .. N \subseteq T
    BY <1>1, <1>3, <1>4, InductionTo
  <2> QED BY <1>1, <2>1
<1>6. In(N) = SymbolsIn(p.buckets) \cup ToSet(list)
  <2>1. N + 1 - N = 1
    BY <1>1
  <2> QED BY <1>1, <2>1 DEF ToSet
<1> HIDE DEF In
<1> QED BY <1>2, <1>5, <1>6

LEMMA InsertAllType ==
  ASSUME NEW n \in Nat \ {0}, NEW p \in Tables(n), NEW list \in Seq(Symbols),
         \A j \in DOMAIN list : name[list[j]] \in Strings
  PROVE  InsertAll(p, list) \in Tables(n)
<1>0. PICK N : N = Len(list)
  OBVIOUS
<1>1. N \in Nat /\ DOMAIN list = 1 .. N /\ \A j \in 1 .. N : list[j] \in Symbols
  BY <1>0, ToSetFacts, ElementOfSeq
<1>2. PICK f : /\ f[0] = p /\ InsertAll(p, list) = f[N]
               /\ \A j \in 1 .. N : f[j] = InsertInto(f[j - 1], list[N + 1 - j])
  <2>1. \E f : BucketLoop(f, p, list)
    BY InsertAllSteps
  <2> QED BY <1>0, <2>1 DEF BucketLoop
<1> DEFINE T == {j \in 0 .. N : f[j] \in Tables(n)}
<1>3. 0 \in T
  BY <1>1, <1>2
<1>4. ASSUME NEW j \in 1 .. N, j - 1 \in T PROVE j \in T
  <2>1. PICK s, h : s = list[N + 1 - j] /\ h = f[j - 1]
    OBVIOUS
  <2>2. N + 1 - j \in 1 .. N
    BY <1>1
  <2>3. s \in Symbols /\ name[s] \in Strings /\ h \in Tables(n) /\ f[j] = InsertInto(h, s)
    BY <1>1, <1>2, <1>4, <2>1, <2>2
  <2>4. f[j] \in Tables(n)
    BY <2>3, InsertIntoType
  <2> QED BY <2>4
<1> HIDE DEF T
<1>5. 0 .. N \subseteq T
  BY <1>1, <1>3, <1>4, InductionTo
<1>6. N \in T
  BY <1>1, <1>5
<1> QED BY <1>2, <1>6 DEF T

(* A table in order, whose symbols have strings. *)
InOrder(b, r) == EntriesDiffer(b) /\ AtTheirHash(b) /\ LiveInFront(b, r)

(* f is the loop over the m old buckets, after each of them. *)
TableLoop(f, b, m, n, r) ==
  /\ f[0] = EmptyTable(n, r) /\ Reconstruct(b, n, r) = f[m]
  /\ \A k \in 1 .. m : f[k] = InsertAll(f[k - 1], b[m - k])

LEMMA ReconstructSteps ==
  ASSUME NEW m \in Nat \ {0}, NEW n \in Nat \ {0}, NEW r \in [Symbols -> Nat],
         NEW b \in Arrays(m), AtTheirHash(b)
  PROVE  EmptyTable(n, r) \in Tables(n) /\ \E f : TableLoop(f, b, m, n, r)
<1>0. Cardinality(DOMAIN b) = m
  BY SizeFacts DEF Arrays
<1>1. EmptyTable(n, r) \in Tables(n)
  <2>1. <<>> \in Seq(Symbols)
    OBVIOUS
  <2> QED BY <2>1 DEF EmptyTable, Tables, Arrays
<1>2. \A k \in 1 .. m : /\ b[m - k] \in Seq(Symbols)
                        /\ \A j \in DOMAIN b[m - k] : name[b[m - k][j]] \in Strings
  <2> TAKE k \in 1 .. m
  <2>1. m - k \in DOMAIN b
    BY DEF Arrays
  <2> QED BY <2>1 DEF Arrays, AtTheirHash
<1>3. PICK g : g = [k \in 1 .. m |-> [x \in Tables(n) |-> InsertAll(x, b[m - k])]]
  OBVIOUS
<1>4. ASSUME NEW k \in 1 .. m, NEW x \in Tables(n) PROVE InsertAll(x, b[m - k]) \in Tables(n)
  <2>1. PICK l : l = b[m - k]
    OBVIOUS
  <2>2. l \in Seq(Symbols) /\ \A j \in DOMAIN l : name[l[j]] \in Strings
    BY <1>2, <2>1
  <2>3. InsertAll(x, l) \in Tables(n)
    BY <2>2, InsertAllType
  <2> QED BY <2>1, <2>3
<1>5. StepsWithin(1 .. m, Tables(n), g)
  BY <1>3, <1>4 DEF StepsWithin
<1>6. PICK e : Iterates(m, Tables(n), EmptyTable(n, r), g, e)
  BY <1>1, <1>5, RecursionTo
<1>7. /\ e \in [0 .. m -> Tables(n)] /\ e[0] = EmptyTable(n, r)
      /\ \A k \in 1 .. m : e[k] = g[k][e[k - 1]]
  BY <1>6 DEF Iterates
<1>8. \A k \in 1 .. m : e[k] = InsertAll(e[k - 1], b[m - k])
  <2> TAKE k \in 1 .. m
  <2>1. k - 1 \in 0 .. m
    OBVIOUS
  <2> QED BY <1>3, <1>7, <2>1
<1>9. e = [k \in 0 .. m |-> IF k = 0 THEN EmptyTable(n, r) ELSE InsertAll(e[k - 1], b[m - k])]
  BY <1>7, <1>8
<1> DEFINE f == CHOOSE f : f = [k \in 0 .. m |-> IF k = 0 THEN EmptyTable(n, r)
                                                ELSE InsertAll(f[k - 1], b[m - k])]
<1>10. f = [k \in 0 .. m |-> IF k = 0 THEN EmptyTable(n, r) ELSE InsertAll(f[k - 1], b[m - k])]
  BY <1>9
<1>11. Reconstruct(b, n, r) = f[m]
  BY <1>0 DEF Reconstruct
<1> HIDE DEF f
<1>12. f[0] = EmptyTable(n, r) /\ \A k \in 1 .. m : f[k] = InsertAll(f[k - 1], b[m - k])
  <2>1. 0 \in 0 .. m /\ \A k \in 1 .. m : k \in 0 .. m /\ k # 0
    OBVIOUS
  <2> QED BY <1>10, <2>1
<1> QED BY <1>1, <1>11, <1>12 DEF TableLoop

(* Rehashing loses nothing, retains nothing, and keeps the order that it   *)
(* needs itself the next time.                                             *)
THEOREM ReconstructSound ==
  ASSUME NEW m \in Nat \ {0}, NEW n \in Nat \ {0}, NEW r \in [Symbols -> Nat],
         NEW b \in Arrays(m), InOrder(b, r)
  PROVE  /\ SoundTable(Reconstruct(b, n, r), n, r)
         /\ SymbolsIn(Reconstruct(b, n, r).buckets) = SymbolsIn(b)
<1>1. PICK f : /\ f[0] = EmptyTable(n, r) /\ Reconstruct(b, n, r) = f[m]
               /\ \A k \in 1 .. m : f[k] = InsertAll(f[k - 1], b[m - k])
  <2>1. \E f : TableLoop(f, b, m, n, r)
    BY ReconstructSteps DEF InOrder
  <2> QED BY <2>1 DEF TableLoop
<1>2. DOMAIN b = 0 .. m - 1 /\ \A i \in 0 .. m - 1 : b[i] \in Seq(Symbols)
  BY DEF Arrays
<1> DEFINE In(k) == UNION {ToSet(b[i]) : i \in m - k .. m - 1}
           T == {k \in 0 .. m : SoundTable(f[k], n, r) /\ SymbolsIn(f[k].buckets) = In(k)}
<1>3. 0 \in T
  <2>1. m - 0 .. m - 1 = {}
    OBVIOUS
  <2>2. In(0) = {}
    BY <2>1
  <2>3. PICK p : p = EmptyTable(n, r)
    OBVIOUS
  <2>4. p.buckets = [i \in 0 .. n - 1 |-> <<>>] /\ p.count = 0 /\ p.rc = r
    BY <2>3 DEF EmptyTable
  <2>5. p \in Tables(n)
    BY <2>3, ReconstructSteps DEF InOrder
  <2>6. \A i \in DOMAIN p.buckets : DOMAIN p.buckets[i] = {}
    BY <2>4
  <2>7. p.buckets \in Arrays(n)
    BY <2>5 DEF Tables
  <2>8. SymbolsIn(p.buckets) = {}
    BY <2>6, <2>7, SymbolsInFacts
  <2>9. EntriesDiffer(p.buckets) /\ AtTheirHash(p.buckets) /\ LiveInFront(p.buckets, r)
    BY <2>6 DEF EntriesDiffer, AtTheirHash, LiveInFront
  <2>10. SoundTable(p, n, r)
    BY <2>4, <2>5, <2>8, <2>9, FS_EmptySet DEF SoundTable
  <2> HIDE DEF In
  <2> QED BY SMTT(30), <1>1, <2>2, <2>3, <2>8, <2>10
<1>4. ASSUME NEW k \in 1 .. m, k - 1 \in T PROVE k \in T
  <2>1. PICK i, l, h : i = m - k /\ l = b[i] /\ h = f[k - 1] /\ i \in 0 .. m - 1
    OBVIOUS
  <2>2. /\ SoundTable(h, n, r) /\ SymbolsIn(h.buckets) = In(k - 1) /\ f[k] = InsertAll(h, l)
        /\ l \in Seq(Symbols)
    BY <1>1, <1>2, <1>4, <2>1
  <2>3. \A j \in DOMAIN l : name[l[j]] \in Strings /\ i = BucketOf(b, name[l[j]])
    BY <1>2, <2>1 DEF InOrder, AtTheirHash
  <2>4. ASSUME NEW j \in DOMAIN l, NEW q \in SymbolsIn(h.buckets) PROVE name[q] # name[l[j]]
    <3>1. PICK u \in m - (k - 1) .. m - 1 : q \in ToSet(b[u])
      BY <2>2, <2>4
    <3>2. u \in 0 .. m - 1 /\ u # i
      BY <2>1, <3>1
    <3>3. PICK v \in DOMAIN b[u] : b[u][v] = q
      BY <1>2, <3>1, <3>2, ToSetFacts
    <3>4. u = BucketOf(b, name[q])
      BY <1>2, <3>2, <3>3 DEF InOrder, AtTheirHash
    <3> QED BY <2>3, <3>2, <3>4
  <2>5. ASSUME NEW j \in DOMAIN l, NEW u \in DOMAIN l
        PROVE  /\ l[j] = l[u] => j = u
               /\ name[l[j]] = name[l[u]] /\ r[l[u]] > 0 => u <= j
    <3>1. i \in DOMAIN b /\ j \in DOMAIN b[i] /\ u \in DOMAIN b[i] /\ l[j] = b[i][j] /\ l[u] = b[i][u]
      BY <1>2, <2>1
    <3>2. b[i][j] = b[i][u] => j = u
      BY <3>1 DEF InOrder, EntriesDiffer
    <3>3. name[b[i][j]] = name[b[i][u]] /\ r[b[i][u]] > 0 => u <= j
      BY <3>1 DEF InOrder, LiveInFront
    <3> QED BY <3>1, <3>2, <3>3
  <2>6. IsAbsent(h, l, r)
    BY <2>2, <2>3, <2>4, <2>5 DEF IsAbsent
  <2>7. SoundTable(InsertAll(h, l), n, r) /\ SymbolsIn(InsertAll(h, l).buckets) = SymbolsIn(h.buckets) \cup ToSet(l)
    BY <2>2, <2>6, InsertAllSound
  <2>8. In(k) = In(k - 1) \cup ToSet(l)
    <3>1. m - k .. m - 1 = (m - (k - 1) .. m - 1) \cup {i}
      BY <2>1
    <3> QED BY <2>1, <3>1
  <2> HIDE DEF In
  <2>9. SoundTable(f[k], n, r) /\ SymbolsIn(f[k].buckets) = In(k)
    BY <2>2, <2>7, <2>8
  <2>10. k \in 0 .. m
    OBVIOUS
  <2> QED BY <2>9, <2>10
<1>5. m \in T
  <2> HIDE DEF T
  <2>1. 0 .. m \subseteq T
    BY <1>3, <1>4, InductionTo
  <2> QED BY <2>1
<1>6. In(m) = SymbolsIn(b)
  <2>1. m - m = 0
    OBVIOUS
  <2> QED BY <1>2, <2>1 DEF SymbolsIn
<1> HIDE DEF In
<1> QED BY <1>1, <1>5, <1>6

(* The sizes of a pool. *)
LEMMA PoolSizeFacts ==
  /\ PoolSize[0] = InitialBuckets
  /\ \A k \in Nat : /\ PoolSize[k] \in Nat /\ PoolSize[k] > k
                    /\ PoolSize[k + 1] = 2 * PoolSize[k] + 1
<1>1. PICK g : g = [k \in Nat |-> [x \in Nat |-> 2 * x + 1]]
  OBVIOUS
<1>2. StepsWithin(Nat, Nat, g)
  BY <1>1 DEF StepsWithin
<1>3. PICK f : IteratesOn(Nat, InitialBuckets, g, f)
  BY <1>2, Recursion
<1>4. f \in [Nat -> Nat] /\ f[0] = InitialBuckets /\ \A k \in Nat : f[k + 1] = g[k][f[k]]
  BY <1>3 DEF IteratesOn
<1>5. f = [k \in Nat |-> IF k = 0 THEN InitialBuckets ELSE 2 * f[k - 1] + 1]
  <2>1. ASSUME NEW k \in Nat, k # 0 PROVE f[k] = 2 * f[k - 1] + 1
    <3>1. k - 1 \in Nat /\ k - 1 + 1 = k
      BY <2>1
    <3>2. f[k] = g[k - 1][f[k - 1]]
      BY <1>4, <3>1
    <3> QED BY <1>1, <1>4, <3>1, <3>2
  <2> QED BY <1>4, <2>1
<1>6. PoolSize = [k \in Nat |-> IF k = 0 THEN InitialBuckets ELSE 2 * PoolSize[k - 1] + 1]
  BY <1>5 DEF PoolSize
<1>7. PoolSize[0] = InitialBuckets /\ \A k \in Nat : PoolSize[k + 1] = 2 * PoolSize[k] + 1
  BY <1>6
<1> DEFINE T == {k \in Nat : PoolSize[k] \in Nat /\ PoolSize[k] > k}
<1>8. 0 \in T
  BY <1>7
<1>9. \A k \in Nat : k \in T => k + 1 \in T
  BY <1>7
<1> HIDE DEF T
<1>10. Nat \subseteq T
  BY <1>8, <1>9, Induction
<1> QED BY <1>7, <1>10 DEF T

LEMMA SizesAround ==
  ASSUME NEW n \in Nat, IsPoolSize(n)
  PROVE  /\ n \in Nat \ {0} /\ n >= InitialBuckets
         /\ IsPoolSize(2 * n + 1)
         /\ n > InitialBuckets => (n - 1) \div 2 \in Nat \ {0} /\ IsPoolSize((n - 1) \div 2)
<1>1. PICK k \in 0 .. n : n = PoolSize[k]
  BY DEF IsPoolSize
<1>2. k \in Nat
  OBVIOUS
<1>3. IsPoolSize(2 * n + 1)
  <2>1. k + 1 \in 0 .. 2 * n + 1 /\ 2 * n + 1 = PoolSize[k + 1]
    BY <1>1, <1>2, PoolSizeFacts
  <2> QED BY <2>1 DEF IsPoolSize
<1>4. CASE k = 0
  BY <1>1, <1>3, <1>4, PoolSizeFacts
<1>5. CASE k # 0
  <2>1. k - 1 \in Nat /\ k - 1 + 1 = k
    BY <1>2, <1>5
  <2>2. PICK m \in Nat : m = PoolSize[k - 1] /\ m > k - 1 /\ n = 2 * m + 1
    BY <1>1, <2>1, PoolSizeFacts
  <2>3. (n - 1) \div 2 = m
    BY <2>2
  <2>4. k - 1 \in 0 .. m
    BY <2>1, <2>2
  <2>5. IsPoolSize(m)
    BY <2>2, <2>4 DEF IsPoolSize
  <2>6. n >= InitialBuckets
    <3> DEFINE T == {i \in Nat : PoolSize[i] >= InitialBuckets}
    <3>1. 0 \in T
      BY PoolSizeFacts
    <3>2. \A i \in Nat : i \in T => i + 1 \in T
      BY PoolSizeFacts
    <3> HIDE DEF T
    <3>3. Nat \subseteq T
      BY <3>1, <3>2, Induction
    <3> QED BY <1>1, <1>2, <3>3 DEF T
  <2> QED BY <1>3, <2>1, <2>2, <2>3, <2>5, <2>6
<1> QED BY <1>4, <1>5

(* What becomes of a table that may grow or shrink: one in order, of the   *)
(* same symbols.                                                           *)
IsRehashed(q, b, r) ==
  \E k \in Nat : IsPoolSize(k) /\ SoundTable(q, k, r) /\ SymbolsIn(q.buckets) = SymbolsIn(b)

LEMMA RehashFacts ==
  ASSUME NEW n \in Nat, IsPoolSize(n), NEW r \in [Symbols -> Nat], NEW b \in Arrays(n), InOrder(b, r),
         IsFiniteSet(SymbolsIn(b)), NEW c \in Nat, c = Cardinality(SymbolsIn(b))
  PROVE  /\ IsRehashed([buckets |-> b, count |-> c, rc |-> r], b, r)
         /\ IsRehashed(GrowPool(b, c, r), b, r)
         /\ IsRehashed(ShrinkPool(b, c, r), b, r)
<1>1. n \in Nat \ {0}
  BY SizesAround
<1>2. Cardinality(DOMAIN b) = n
  BY <1>1, SizeFacts DEF Arrays
<1>3. IsRehashed([buckets |-> b, count |-> c, rc |-> r], b, r)
  <2>1. PICK q : q = [buckets |-> b, count |-> c, rc |-> r]
    OBVIOUS
  <2>2. q \in Tables(n) /\ q.buckets = b /\ q.count = c /\ q.rc = r
    BY <2>1 DEF Tables
  <2>3. SoundTable(q, n, r)
    BY <2>2 DEF SoundTable, InOrder
  <2> QED BY <2>1, <2>2, <2>3 DEF IsRehashed
<1>4. ASSUME NEW k \in Nat \ {0}, IsPoolSize(k) PROVE IsRehashed(Reconstruct(b, k, r), b, r)
  <2>1. SoundTable(Reconstruct(b, k, r), k, r) /\ SymbolsIn(Reconstruct(b, k, r).buckets) = SymbolsIn(b)
    BY <1>1, <1>4, ReconstructSound
  <2> QED BY <1>4, <2>1 DEF IsRehashed
<1>5. IsRehashed(GrowPool(b, c, r), b, r)
  <2>1. IsRehashed(Reconstruct(b, 2 * n + 1, r), b, r)
    <3>1. PICK k : k = 2 * n + 1
      OBVIOUS
    <3>2. k \in Nat \ {0} /\ IsPoolSize(k)
      BY <3>1, SizesAround
    <3> QED BY <1>4, <3>1, <3>2
  <2> QED BY <1>2, <1>3, <2>1 DEF GrowPool
<1>6. IsRehashed(ShrinkPool(b, c, r), b, r)
  <2>1. ASSUME n > InitialBuckets PROVE IsRehashed(Reconstruct(b, (n - 1) \div 2, r), b, r)
    <3>1. PICK k : k = (n - 1) \div 2
      OBVIOUS
    <3>2. k \in Nat \ {0} /\ IsPoolSize(k)
      BY <2>1, <3>1, SizesAround
    <3> QED BY <1>4, <3>1, <3>2
  <2> QED BY <1>2, <1>3, <2>1 DEF ShrinkPool
<1> QED BY <1>3, <1>5, <1>6

-----------------------------------------------------------------------------
(* The inductive invariant.                                                *)

Looking == {"find", "findOnly"}
Writing == {"insert", "remove", "checkPages"}
Asking == {"with", "existing", "find", "findOnly", "new"}
Making == {"newInited", "insert"}
Freeing == {"free", "remove", "panic"}
Unloading == {"unload", "checkPages", "unmap"}

(* The gate is what its holders make of it. *)
GateIsHeld ==
  /\ readers = {t \in Threads : pc[t] \in Looking}
  /\ \A t \in Threads : pc[t] \in Writing => writer = t
  /\ writer # None => readers = {}

(* A symbol that thread t makes is nobody else's and not in the pool yet;  *)
(* one whose last reference is gone still is.                              *)
IsMade(t, s) ==
  /\ s \in Symbols /\ name[s] = loc[t].str /\ rc[s] = 1
  /\ s \notin InPool
  /\ loc[t].copy => place[s] = "heap"

IsFreed(s) ==
  /\ s \in Symbols /\ rc[s] = 0
  /\ name[s] # None => s \in InPool

LocalsFit ==
  /\ \A t \in Threads :
       /\ pc[t] \in {"idle"} \cup Unloading => loc[t] = NoLocals
       /\ pc[t] \in Asking \cup Making => loc[t].str \in Strings
       /\ pc[t] \in Asking => loc[t].sym = None
       /\ pc[t] \in Making => IsMade(t, loc[t].sym)
       /\ pc[t] \in Freeing => IsFreed(loc[t].sym)
  /\ \A t, u \in Threads : loc[t].sym = loc[u].sym /\ t # u => loc[t].sym = None

(* Who walks over a bucket has the rest of it left, and a writer has seen  *)
(* no live symbol with his string in the part he has passed.               *)
WalkIsOn ==
  \A t \in Threads :
    /\ pc[t] \in Looking \cup {"insert"} => ToSet(loc[t].list) \subseteq ToSet(ListFor(t))
    /\ pc[t] = "insert" => \A s \in ToSet(ListFor(t)) \ ToSet(loc[t].list) : Misses(t, s)

(* A thread that asks for a string can keep one more of its references. *)
RoomToHold ==
  \A t \in Threads : pc[t] \in Asking \cup Making => CanHold(t, loc[t].str)

RefsAreExact ==
  /\ \A s \in Symbols : IsFiniteSet(Refs(s))
  /\ NoLeakedRetain

(* A live symbol that has a string and is not being made is in the pool. *)
LivesInPool ==
  \A s \in Symbols : rc[s] > 0 /\ name[s] # None /\ ~ IsNew(s) => s \in InPool

(* A table b with c entries of a size the pool may have, in order for the  *)
(* names nm and the counts r.                                              *)
SoundPool(b, c, nm, r) ==
  /\ \E n \in Nat : IsPoolSize(n) /\ b \in Arrays(n)
  /\ IsFiniteSet(SymbolsIn(b)) /\ c = Cardinality(SymbolsIn(b))
  /\ EntriesDiffer(b)
  /\ \A i \in DOMAIN b : \A j \in DOMAIN b[i] :
       nm[b[i][j]] \in Strings /\ i = BucketOf(b, nm[b[i][j]])
  /\ \A i \in DOMAIN b : \A j, l \in DOMAIN b[i] :
       nm[b[i][j]] = nm[b[i][l]] /\ r[b[i][l]] > 0 => l <= j

PoolHolds == SoundPool(buckets, count, name, rc)

(* Characters lie in the text only while it is mapped or about to go. *)
TextIsLeft ==
  /\ \A t \in Threads : loc[t].copy \/ text = "mapped"
  /\ \A t \in Threads : pc[t] \in Unloading => text = "unloading"
  /\ \A t, u \in Threads : pc[t] \in Unloading /\ pc[u] \in Unloading => t = u
  /\ text = "unmapped" \/ (\E t \in Threads : pc[t] = "unmap") => \A s \in InPool : place[s] = "heap"

LocalTypes == [str : Strings \cup {None}, copy : BOOLEAN, sym : Symbols \cup {None}, list : Seq(Symbols)]

(* The values of the variables besides the table, which PoolHolds has. *)
Typed ==
  /\ rc \in [Symbols -> Nat]
  /\ name \in [Symbols -> Strings \cup {None}]
  /\ place \in [Symbols -> {"heap", "text"}]
  /\ text \in {"mapped", "unloading", "unmapped"}
  /\ readers \subseteq Threads /\ writer \in Threads \cup {None}
  /\ held \in [Threads -> [Symbols -> 0 .. MaxHold]]
  /\ pc \in [Threads -> {"idle", "with", "existing", "find", "findOnly", "new", "newInited",
                         "insert", "free", "remove", "unload", "checkPages", "unmap", "panic"}]
  /\ loc \in [Threads -> LocalTypes]

IInv ==
  /\ Typed /\ GateIsHeld /\ LocalsFit /\ WalkIsOn /\ RoomToHold
  /\ RefsAreExact /\ LivesInPool /\ PoolHolds /\ TextIsLeft

-----------------------------------------------------------------------------
(* What the invariant says of the table.                                   *)

(* Where the symbols of a sound table are, and in which bucket one finds   *)
(* those of a string.                                                      *)
IsAccess(b, nm) ==
  /\ SymbolsIn(b) \subseteq Symbols
  /\ \A s \in SymbolsIn(b) : nm[s] \in Strings
  /\ \A x \in Strings : /\ BucketOf(b, x) \in DOMAIN b
                         /\ b[BucketOf(b, x)] \in Seq(Symbols)
                         /\ ToSet(b[BucketOf(b, x)]) \subseteq SymbolsIn(b)
                         /\ \A s \in SymbolsIn(b) : nm[s] = x => s \in ToSet(b[BucketOf(b, x)])

LEMMA PoolAccess ==
  ASSUME NEW b, NEW c, NEW nm, NEW r, SoundPool(b, c, nm, r)
  PROVE  IsAccess(b, nm)
<1>1. PICK n \in Nat : IsPoolSize(n) /\ b \in Arrays(n)
  BY DEF SoundPool
<1>2. n \in Nat \ {0} /\ DOMAIN b = 0 .. n - 1
  BY <1>1, SizesAround DEF Arrays
<1>3. \A x \in Strings : BucketOf(b, x) \in DOMAIN b
  BY <1>2, SizeFacts
<1>4. /\ SymbolsIn(b) \subseteq Symbols
      /\ \A s : s \in SymbolsIn(b) <=> \E i \in DOMAIN b : \E j \in DOMAIN b[i] : b[i][j] = s
  BY <1>1, SymbolsInFacts
<1>5. \A i \in DOMAIN b : b[i] \in Seq(Symbols) /\ \A x : x \in ToSet(b[i]) <=> \E j \in DOMAIN b[i] : b[i][j] = x
  <2> TAKE i \in DOMAIN b
  <2>1. PICK l : l = b[i]
    OBVIOUS
  <2>2. l \in Seq(Symbols)
    BY <1>1, <1>2, <2>1 DEF Arrays
  <2> QED BY <2>1, <2>2, ToSetFacts
<1>6. \A s \in SymbolsIn(b) : nm[s] \in Strings /\ s \in ToSet(b[BucketOf(b, nm[s])])
  BY <1>4, <1>5 DEF SoundPool
<1>7. \A i \in DOMAIN b : ToSet(b[i]) \subseteq SymbolsIn(b)
  BY <1>4, <1>5
<1> QED BY <1>3, <1>4, <1>5, <1>6, <1>7 DEF IsAccess

(* Where two live symbols of a sound table have the same string, they are  *)
(* the same.                                                               *)
LEMMA OneIsLive ==
  ASSUME NEW b, NEW c, NEW nm, NEW r, SoundPool(b, c, nm, r),
         NEW s \in SymbolsIn(b), NEW q \in SymbolsIn(b), nm[s] = nm[q], r[s] > 0, r[q] > 0
  PROVE  s = q
<1>1. PICK n \in Nat : b \in Arrays(n)
  BY DEF SoundPool
<1>2. PICK i, j : i \in DOMAIN b /\ j \in DOMAIN b[i] /\ b[i][j] = s
  BY <1>1, SymbolsInFacts
<1>3. PICK k, l : k \in DOMAIN b /\ l \in DOMAIN b[k] /\ b[k][l] = q
  BY <1>1, SymbolsInFacts
<1>4. i = k
  BY <1>2, <1>3 DEF SoundPool
<1>5. l <= j /\ j <= l
  BY <1>2, <1>3, <1>4 DEF SoundPool
<1>6. j \in Nat /\ l \in Nat
  <2>1. \A u \in DOMAIN b : DOMAIN b[u] = 1 .. Len(b[u]) /\ Len(b[u]) \in Nat
    BY <1>1, SymbolsInFacts
  <2>2. j \in 1 .. Len(b[i]) /\ l \in 1 .. Len(b[k])
    BY <1>2, <1>3, <2>1
  <2> QED BY <2>2
<1> QED BY <1>2, <1>3, <1>4, <1>5, <1>6

(* The order looks only at the symbols of the table, and only a symbol     *)
(* that comes to life could disturb it.                                    *)
LEMMA PoolStays ==
  ASSUME NEW b, NEW c, NEW nm, NEW r, SoundPool(b, c, nm, r), NEW nm2, NEW r2,
         \A s \in SymbolsIn(b) : nm2[s] = nm[s] /\ (r2[s] > 0 => r[s] > 0)
  PROVE  SoundPool(b, c, nm2, r2)
<1>1. PICK n \in Nat : b \in Arrays(n)
  BY DEF SoundPool
<1>2. \A i \in DOMAIN b : \A j \in DOMAIN b[i] : b[i][j] \in SymbolsIn(b)
  BY <1>1, SymbolsInFacts
<1>3. \A i \in DOMAIN b : \A j \in DOMAIN b[i] :
        nm2[b[i][j]] \in Strings /\ i = BucketOf(b, nm2[b[i][j]])
  BY <1>2 DEF SoundPool
<1>4. \A i \in DOMAIN b : \A j, l \in DOMAIN b[i] :
        nm2[b[i][j]] = nm2[b[i][l]] /\ r2[b[i][l]] > 0 => l <= j
  BY <1>2 DEF SoundPool
<1> QED BY <1>3, <1>4 DEF SoundPool

(* What a walk leaves when it goes on. *)
LEMMA HeadAndTail ==
  ASSUME NEW S, NEW l \in Seq(S), l # <<>>
  PROVE  /\ Head(l) \in S /\ Tail(l) \in Seq(S)
         /\ ToSet(l) = {Head(l)} \cup ToSet(Tail(l))
<1>1. Len(l) \in Nat \ {0} /\ DOMAIN l = 1 .. Len(l)
  BY EmptySeq
<1>2. /\ Head(l) = l[1] /\ Tail(l) \in Seq(S) /\ Len(Tail(l)) = Len(l) - 1
      /\ \A i \in 1 .. Len(l) - 1 : Tail(l)[i] = l[i + 1]
  BY HeadTailProperties
<1>3. DOMAIN Tail(l) = 1 .. Len(l) - 1
  BY <1>1, <1>2
<1>4. l[1] \in S
  BY <1>1, ElementOfSeq
<1>5. ASSUME NEW x \in ToSet(l), x # l[1] PROVE x \in ToSet(Tail(l))
  <2>1. PICK i \in 1 .. Len(l) : l[i] = x
    BY <1>1, <1>5 DEF ToSet
  <2>2. i - 1 \in 1 .. Len(l) - 1 /\ i - 1 + 1 = i
    BY <1>1, <1>5, <2>1
  <2> QED BY <1>2, <1>3, <2>1, <2>2 DEF ToSet
<1>6. ASSUME NEW x \in ToSet(Tail(l)) PROVE x \in ToSet(l)
  <2>1. PICK i \in 1 .. Len(l) - 1 : Tail(l)[i] = x
    BY <1>3 DEF ToSet
  <2>2. i + 1 \in 1 .. Len(l)
    BY <1>1
  <2> QED BY <1>1, <1>2, <2>1, <2>2 DEF ToSet
<1>7. l[1] \in ToSet(l)
  BY <1>1 DEF ToSet
<1> QED BY <1>2, <1>4, <1>5, <1>6, <1>7

(* The local variables of a thread keep their types. *)
LEMMA LocalsTyped ==
  ASSUME NEW f \in [Threads -> LocalTypes], NEW t \in Threads
  PROVE  /\ [f EXCEPT ![t] = NoLocals] \in [Threads -> LocalTypes]
         /\ \A x \in Strings, copy \in BOOLEAN :
              [f EXCEPT ![t] = [NoLocals EXCEPT !.str = x, !.copy = copy]] \in [Threads -> LocalTypes]
         /\ \A s \in Symbols : [f EXCEPT ![t].sym = s] \in [Threads -> LocalTypes]
         /\ \A l \in Seq(Symbols) : [f EXCEPT ![t].list = l] \in [Threads -> LocalTypes]
<1>1. NoLocals \in LocalTypes
  <2>1. <<>> \in Seq(Symbols)
    OBVIOUS
  <2> QED BY <2>1 DEF NoLocals, LocalTypes
<1>2. \A x \in Strings, copy \in BOOLEAN : [NoLocals EXCEPT !.str = x, !.copy = copy] \in LocalTypes
  BY <1>1 DEF LocalTypes
<1>3. f[t] \in LocalTypes
  OBVIOUS
<1>4. ASSUME NEW s \in Symbols PROVE [f EXCEPT ![t].sym = s] \in [Threads -> LocalTypes]
  <2>1. [f[t] EXCEPT !.sym = s] \in LocalTypes
    BY <1>3 DEF LocalTypes
  <2>2. [f EXCEPT ![t].sym = s] = [f EXCEPT ![t] = [f[t] EXCEPT !.sym = s]]
    OBVIOUS
  <2> QED BY <2>1, <2>2
<1>5. ASSUME NEW l \in Seq(Symbols) PROVE [f EXCEPT ![t].list = l] \in [Threads -> LocalTypes]
  <2>1. [f[t] EXCEPT !.list = l] \in LocalTypes
    BY <1>3 DEF LocalTypes
  <2>2. [f EXCEPT ![t].list = l] = [f EXCEPT ![t] = [f[t] EXCEPT !.list = l]]
    OBVIOUS
  <2> QED BY <2>1, <2>2
<1> QED BY <1>1, <1>2, <1>4, <1>5

-----------------------------------------------------------------------------
(* References, for the numbers h that threads hold.                        *)

Holdings == [Threads -> [Symbols -> 0 .. MaxHold]]

RefsOf(h, s) == {r \in Threads \X (1 .. MaxHold) : r[2] <= h[r[1]][s]}

(* g is h with a reference of t to s more. *)
IsMore(g, h, t, s) ==
  /\ g \in Holdings
  /\ g[t][s] = h[t][s] + 1
  /\ \A u \in Threads, q \in Symbols : u # t \/ q # s => g[u][q] = h[u][q]

IsCounted(g, h, s, n) ==
  \A q \in Symbols :
    IsFiniteSet(RefsOf(h, q)) =>
      /\ IsFiniteSet(RefsOf(g, q))
      /\ q = s => Cardinality(RefsOf(g, q)) = Cardinality(RefsOf(h, q)) + n
      /\ q # s => Cardinality(RefsOf(g, q)) = Cardinality(RefsOf(h, q))

LEMMA MoreIsTyped ==
  ASSUME NEW h \in Holdings, NEW t \in Threads, NEW s \in Symbols, h[t][s] < MaxHold
  PROVE  IsMore([h EXCEPT ![t][s] = @ + 1], h, t, s)
<1>1. h[t][s] + 1 \in 0 .. MaxHold
  BY DEF Holdings
<1>2. PICK g : g = [h EXCEPT ![t][s] = @ + 1]
  OBVIOUS
<1>3. g = [h EXCEPT ![t] = [h[t] EXCEPT ![s] = h[t][s] + 1]]
  BY <1>2
<1>4. [h[t] EXCEPT ![s] = h[t][s] + 1] \in [Symbols -> 0 .. MaxHold]
  BY <1>1 DEF Holdings
<1>5. g \in Holdings
  BY <1>3, <1>4 DEF Holdings
<1>6. g[t][s] = h[t][s] + 1 /\ \A u \in Threads, q \in Symbols : u # t \/ q # s => g[u][q] = h[u][q]
  BY <1>3 DEF Holdings
<1> QED BY <1>2, <1>5, <1>6 DEF IsMore

LEMMA LessIsTyped ==
  ASSUME NEW h \in Holdings, NEW t \in Threads, NEW s \in Symbols, h[t][s] > 0
  PROVE  [h EXCEPT ![t][s] = @ - 1] \in Holdings /\ IsMore(h, [h EXCEPT ![t][s] = @ - 1], t, s)
<1>1. h[t][s] - 1 \in 0 .. MaxHold /\ h[t][s] - 1 + 1 = h[t][s]
  BY DEF Holdings
<1>2. PICK g : g = [h EXCEPT ![t][s] = @ - 1]
  OBVIOUS
<1>3. g = [h EXCEPT ![t] = [h[t] EXCEPT ![s] = h[t][s] - 1]]
  BY <1>2
<1>4. [h[t] EXCEPT ![s] = h[t][s] - 1] \in [Symbols -> 0 .. MaxHold]
  BY <1>1 DEF Holdings
<1>5. g \in Holdings
  BY <1>3, <1>4 DEF Holdings
<1>6. h[t][s] = g[t][s] + 1 /\ \A u \in Threads, q \in Symbols : u # t \/ q # s => h[u][q] = g[u][q]
  BY <1>1, <1>3 DEF Holdings
<1> QED BY <1>2, <1>5, <1>6 DEF IsMore

(* One reference more is one more that is counted, *)
LEMMA MoreIsCounted ==
  ASSUME NEW h \in Holdings, NEW g, NEW t \in Threads, NEW s \in Symbols, IsMore(g, h, t, s)
  PROVE  IsCounted(g, h, s, 1)
<1> SUFFICES ASSUME NEW q \in Symbols, IsFiniteSet(RefsOf(h, q))
             PROVE  /\ IsFiniteSet(RefsOf(g, q))
                    /\ q = s => Cardinality(RefsOf(g, q)) = Cardinality(RefsOf(h, q)) + 1
                    /\ q # s => Cardinality(RefsOf(g, q)) = Cardinality(RefsOf(h, q))
  BY DEF IsCounted
<1>1. CASE q = s
  <2>1. PICK e : e = <<t, h[t][s] + 1>>
    OBVIOUS
  <2>2. e \in Threads \X (1 .. MaxHold) /\ e \notin RefsOf(h, s)
    BY <2>1 DEF RefsOf, Holdings, IsMore
  <2>3. RefsOf(g, s) = RefsOf(h, s) \cup {e}
    <3>1. ASSUME NEW u \in Threads, NEW m \in 1 .. MaxHold
          PROVE  <<u, m>> \in RefsOf(g, s) <=> <<u, m>> \in RefsOf(h, s) \cup {e}
      <4>1. <<u, m>> \in RefsOf(g, s) <=> m <= g[u][s]
        BY DEF RefsOf
      <4>2. <<u, m>> \in RefsOf(h, s) <=> m <= h[u][s]
        BY DEF RefsOf
      <4>3. <<u, m>> = e <=> u = t /\ m = h[t][s] + 1
        BY <2>1
      <4>4. h[t][s] \in Nat /\ g[t][s] = h[t][s] + 1 /\ (u # t => g[u][s] = h[u][s])
        BY DEF IsMore, Holdings
      <4>5. CASE u = t
        <5>1. m <= h[t][s] + 1 <=> m <= h[t][s] \/ m = h[t][s] + 1
          BY <4>4
        <5> QED BY <4>1, <4>2, <4>3, <4>4, <4>5, <5>1
      <4>6. CASE u # t
        BY <4>1, <4>2, <4>3, <4>4, <4>6
      <4> QED BY <4>5, <4>6
    <3>2. RefsOf(g, s) \subseteq Threads \X (1 .. MaxHold) /\ RefsOf(h, s) \cup {e} \subseteq Threads \X (1 .. MaxHold)
      BY <2>2 DEF RefsOf
    <3> QED BY <3>1, <3>2
  <2>4. PICK R : R = RefsOf(h, s)
    OBVIOUS
  <2>5. IsFiniteSet(R) /\ e \notin R
    BY <1>1, <2>2, <2>4
  <2>6. IsFiniteSet(R \cup {e}) /\ Cardinality(R \cup {e}) = Cardinality(R) + 1
    BY <2>5, FS_AddElement
  <2>7. RefsOf(g, q) = R \cup {e} /\ RefsOf(h, q) = R
    BY <1>1, <2>3, <2>4
  <2> QED BY <1>1, <2>6, <2>7
<1>2. CASE q # s
  <2>1. \A u \in Threads : g[u][q] = h[u][q]
    BY <1>2 DEF IsMore
  <2>2. RefsOf(g, q) = RefsOf(h, q)
    BY <2>1 DEF RefsOf
  <2> QED BY <1>2, <2>2
<1> QED BY <1>1, <1>2

(* as one less is one less. *)
LEMMA LessIsCounted ==
  ASSUME NEW h \in Holdings, NEW g, NEW t \in Threads, NEW s \in Symbols, IsMore(h, g, t, s), g \in Holdings
  PROVE  IsCounted(g, h, s, -1)
<1> SUFFICES ASSUME NEW q \in Symbols, IsFiniteSet(RefsOf(h, q))
             PROVE  /\ IsFiniteSet(RefsOf(g, q))
                    /\ q = s => Cardinality(RefsOf(g, q)) = Cardinality(RefsOf(h, q)) + (-1)
                    /\ q # s => Cardinality(RefsOf(g, q)) = Cardinality(RefsOf(h, q))
  BY DEF IsCounted
<1>1. RefsOf(g, q) \subseteq RefsOf(h, q)
  <2>1. \A u \in Threads : g[u][q] <= h[u][q]
    BY DEF IsMore, Holdings
  <2>2. \A u \in Threads : g[u][q] \in Nat /\ h[u][q] \in Nat
    BY DEF Holdings
  <2> QED BY <2>1, <2>2 DEF RefsOf
<1>2. IsFiniteSet(RefsOf(g, q))
  BY <1>1, FS_Subset
<1>3. IsCounted(h, g, s, 1)
  BY MoreIsCounted
<1>4. /\ q = s => Cardinality(RefsOf(h, q)) = Cardinality(RefsOf(g, q)) + 1
      /\ q # s => Cardinality(RefsOf(h, q)) = Cardinality(RefsOf(g, q))
  BY <1>2, <1>3 DEF IsCounted
<1>5. Cardinality(RefsOf(g, q)) \in Nat /\ Cardinality(RefsOf(h, q)) \in Nat
  BY <1>2, FS_CardinalityType
<1> QED BY <1>2, <1>4, <1>5

(* Who holds a reference is counted, and nobody else is. *)
LEMMA RefsCount ==
  ASSUME NEW h \in Holdings, NEW s \in Symbols, IsFiniteSet(RefsOf(h, s))
  PROVE  /\ Cardinality(RefsOf(h, s)) \in Nat
         /\ Cardinality(RefsOf(h, s)) = 0 <=> \A t \in Threads : h[t][s] = 0
<1>1. Cardinality(RefsOf(h, s)) \in Nat /\ (Cardinality(RefsOf(h, s)) = 0 <=> RefsOf(h, s) = {})
  BY FS_CardinalityType, FS_EmptySet
<1>2. ASSUME NEW t \in Threads, h[t][s] # 0 PROVE RefsOf(h, s) # {}
  <2>1. h[t][s] \in 1 .. MaxHold
    BY <1>2 DEF Holdings
  <2>2. <<t, 1>> \in RefsOf(h, s)
    BY <2>1 DEF RefsOf
  <2> QED BY <2>2
<1>3. ASSUME \A t \in Threads : h[t][s] = 0 PROVE RefsOf(h, s) = {}
  <2>1. ASSUME NEW r \in RefsOf(h, s) PROVE FALSE
    BY <1>3, <2>1 DEF RefsOf
  <2> QED BY <2>1
<1> QED BY <1>1, <1>2, <1>3

-----------------------------------------------------------------------------
(* What a thread does to the table.                                        *)

(* d is a table in order of n buckets with c symbols, and S are these.     *)
IsOrdered(d, n, c, r, S) ==
  /\ d \in Arrays(n) /\ InOrder(d, r)
  /\ SymbolsIn(d) = S /\ IsFiniteSet(S) /\ c \in Nat /\ c = Cardinality(S)

LEMMA PoolIsOrdered ==
  ASSUME NEW b, NEW c, NEW r, SoundPool(b, c, name, r)
  PROVE  \E n \in Nat \ {0} : IsPoolSize(n) /\ IsOrdered(b, n, c, r, SymbolsIn(b))
<1>1. PICK n \in Nat : IsPoolSize(n) /\ b \in Arrays(n)
  BY DEF SoundPool
<1>2. n \in Nat \ {0}
  BY <1>1, SizesAround
<1>3. c \in Nat
  BY FS_CardinalityType DEF SoundPool
<1>4. InOrder(b, r)
  BY DEF SoundPool, InOrder, AtTheirHash, LiveInFront
<1> QED BY <1>1, <1>2, <1>3, <1>4 DEF IsOrdered, SoundPool

(* The symbol s goes in front of a bucket, *)
LEMMA InsertTable ==
  ASSUME NEW n \in Nat \ {0}, NEW b, NEW c, NEW r \in [Symbols -> Nat], NEW B, IsOrdered(b, n, c, r, B),
         NEW s \in Symbols \ B, name[s] \in Strings,
         \A q \in B : name[q] = name[s] => ~(r[q] > 0)
  PROVE  IsOrdered([b EXCEPT ![BucketOf(b, name[s])] = Cons(s, b[BucketOf(b, name[s])])], n, c + 1, r, B \cup {s})
<1>1. PICK p : p = [buckets |-> b, count |-> c, rc |-> r]
  OBVIOUS
<1>2. p.buckets = b /\ p.count = c /\ p.rc = r
  BY <1>1
<1>3. SoundTable(p, n, r)
  <2>1. p \in Tables(n)
    BY <1>1 DEF IsOrdered, Tables
  <2> QED BY <1>2, <2>1 DEF SoundTable, IsOrdered, InOrder
<1>4. IsMissing(p, s, r)
  BY <1>2 DEF IsMissing, IsOrdered
<1>5. PICK q : q = InsertInto(p, s)
  OBVIOUS
<1>6. SoundTable(q, n, r) /\ SymbolsIn(q.buckets) = SymbolsIn(b) \cup {s}
  BY <1>2, <1>3, <1>4, <1>5, InsertIntoSound
<1>7. PICK i : i = BucketOf(b, name[s])
  OBVIOUS
<1>8. LiveMatches(b[i], name[s], r) = {}
  <2>1. i \in DOMAIN b /\ b \in Arrays(n)
    BY <1>7, SizeFacts DEF IsOrdered, Arrays
  <2>2. \A j \in DOMAIN b[i] : b[i][j] \in B
    BY <2>1, SymbolsInFacts DEF IsOrdered
  <2> QED BY <2>2 DEF LiveMatches
<1>9. q = [p EXCEPT !.buckets[i] = Cons(s, b[i]), !.count = c + 1]
  BY <1>2, <1>5, <1>7, <1>8 DEF InsertInto
<1>10. q.buckets = [b EXCEPT ![i] = Cons(s, b[i])] /\ q.count = c + 1
  BY <1>1, <1>9
<1>11. /\ q.buckets \in Arrays(n) /\ q.count \in Nat
       /\ IsFiniteSet(SymbolsIn(q.buckets)) /\ q.count = Cardinality(SymbolsIn(q.buckets))
       /\ InOrder(q.buckets, r)
  BY <1>6 DEF SoundTable, Tables, InOrder
<1>12. SymbolsIn(q.buckets) = B \cup {s}
  BY <1>6 DEF IsOrdered
<1> QED BY <1>7, <1>10, <1>11, <1>12 DEF IsOrdered

(* or is taken out of it. *)
LEMMA RemoveTable ==
  ASSUME NEW n \in Nat \ {0}, NEW b, NEW c, NEW r \in [Symbols -> Nat], NEW B, IsOrdered(b, n, c, r, B),
         NEW i \in DOMAIN b, NEW j \in DOMAIN b[i]
  PROVE  IsOrdered([b EXCEPT ![i] = RemoveAt(b[i], j)], n, c - 1, r, B \ {b[i][j]})
<1>1. /\ b \in Arrays(n) /\ DOMAIN b = 0 .. n - 1 /\ b[i] \in Seq(Symbols)
      /\ EntriesDiffer(b) /\ AtTheirHash(b) /\ LiveInFront(b, r) /\ SymbolsIn(b) = B
  BY DEF IsOrdered, Arrays, InOrder
<1>2. PICK l, s, d, N : /\ l = RemoveAt(b[i], j) /\ s = b[i][j] /\ d = [b EXCEPT ![i] = l] /\ N = Len(b[i])
  OBVIOUS
<1>3. /\ l \in Seq(Symbols) /\ Len(l) = N - 1
      /\ \A u \in 1 .. N - 1 : (u < j => l[u] = b[i][u]) /\ (u >= j => l[u] = b[i][u + 1])
  <2>1. PICK a : a = b[i]
    OBVIOUS
  <2>2. a \in Seq(Symbols) /\ j \in DOMAIN a
    BY <1>1, <2>1
  <2>3. /\ RemoveAt(a, j) \in Seq(Symbols) /\ Len(RemoveAt(a, j)) = Len(a) - 1
        /\ \A u \in 1 .. Len(a) - 1 : /\ u < j => RemoveAt(a, j)[u] = a[u]
                                      /\ u >= j => RemoveAt(a, j)[u] = a[u + 1]
    BY ONLY <2>2, RemoveAtFacts
  <2> QED BY <1>2, <2>1, <2>3
<1>4. DOMAIN b[i] = 1 .. N /\ N \in Nat /\ DOMAIN l = 1 .. N - 1 /\ j \in 1 .. N
  BY <1>1, <1>2, <1>3, LenProperties
<1>5. /\ d \in Arrays(n) /\ DOMAIN d = DOMAIN b
      /\ d[i] = l /\ \A k \in DOMAIN b : k # i => d[k] = b[k]
  BY <1>1, <1>2, <1>3 DEF Arrays
<1>6. \A k \in DOMAIN b : /\ DOMAIN b[k] \subseteq Nat /\ DOMAIN d[k] \subseteq Nat
                          /\ \A u \in DOMAIN b[k] : b[k][u] \in B
  <2>1. \A k \in DOMAIN b : DOMAIN b[k] = 1 .. Len(b[k])
    BY <1>1, SymbolsInFacts
  <2>2. \A k \in DOMAIN d : DOMAIN d[k] = 1 .. Len(d[k])
    BY <1>5, SymbolsInFacts
  <2>3. \A k \in DOMAIN b : \A u \in DOMAIN b[k] : b[k][u] \in B
    BY <1>1, SymbolsInFacts
  <2> QED BY <1>5, <2>1, <2>2, <2>3
(* A place of d is one of b, other than the one of s. *)
<1>7. ASSUME NEW k \in DOMAIN b, NEW u \in DOMAIN d[k]
      PROVE  \E v \in DOMAIN b[k] : /\ d[k][u] = b[k][v]
                                    /\ k # i => v = u
                                    /\ k = i => (u < j /\ v = u) \/ (u >= j /\ v = u + 1)
  <2>1. CASE k = i
    <3>1. u \in 1 .. N - 1
      BY <1>4, <1>5, <2>1
    <3>2. CASE u < j
      <4>1. u \in DOMAIN b[i] /\ d[i][u] = b[i][u]
        BY <1>3, <1>4, <1>5, <3>1, <3>2
      <4> QED BY <2>1, <3>2, <4>1
    <3>3. CASE u >= j
      <4>1. u + 1 \in DOMAIN b[i] /\ d[i][u] = b[i][u + 1]
        BY <1>3, <1>4, <1>5, <3>1, <3>3
      <4> QED BY <2>1, <3>3, <4>1
    <3> QED BY <1>4, <3>1, <3>2, <3>3
  <2>2. CASE k # i
    BY <1>5, <2>2
  <2> QED BY <2>1, <2>2
<1>8. ASSUME NEW k \in DOMAIN b, NEW u \in DOMAIN d[k] PROVE d[k][u] \in B /\ d[k][u] # s
  <2>1. PICK v \in DOMAIN b[k] : d[k][u] = b[k][v] /\ (k = i => (u < j /\ v = u) \/ (u >= j /\ v = u + 1))
    BY <1>7
  <2>2. u \in Nat /\ v \in Nat /\ j \in Nat
    BY <1>4, <1>6
  <2>3. ~(k = i /\ v = j)
    BY <2>1, <2>2
  <2>4. b[k][v] # b[i][j]
    BY <1>1, <2>3 DEF EntriesDiffer
  <2> QED BY <1>2, <1>6, <2>1, <2>4
<1>9. ASSUME NEW q \in B, q # s PROVE q \in SymbolsIn(d)
  <2>0. \E k \in DOMAIN b : \E v \in DOMAIN b[k] : b[k][v] = q
    BY <1>1, SymbolsInFacts
  <2>1. PICK k, v : k \in DOMAIN b /\ v \in DOMAIN b[k] /\ b[k][v] = q
    BY <2>0
  <2>2. \E u \in DOMAIN d[k] : d[k][u] = q
    <3>1. CASE k # i
      BY <1>5, <2>1, <3>1
    <3>2. CASE k = i
      <4>1. v \in 1 .. N /\ v # j
        BY <1>2, <1>4, <1>9, <2>1, <3>2
      <4>2. CASE v < j
        <5>1. v \in DOMAIN d[i] /\ d[i][v] = q
          BY <1>3, <1>4, <1>5, <2>1, <3>2, <4>1, <4>2
        <5> QED BY <3>2, <5>1
      <4>3. CASE v > j
        <5>1. PICK u : u = v - 1
          OBVIOUS
        <5>2. u \in 1 .. N - 1 /\ u >= j /\ u + 1 = v
          BY <1>4, <4>1, <4>3, <5>1
        <5>3. u \in DOMAIN d[i] /\ d[i][u] = q
          BY <1>3, <1>4, <1>5, <2>1, <3>2, <5>2
        <5> QED BY <3>2, <5>3
      <4> QED BY <1>4, <4>1, <4>2, <4>3
    <3> QED BY <3>1, <3>2
  <2>3. k \in DOMAIN d
    BY <1>5, <2>1
  <2> QED BY <1>5, <2>2, <2>3, SymbolsInFacts
<1>10. SymbolsIn(d) = B \ {s}
  <2>1. ASSUME NEW q \in SymbolsIn(d) PROVE q \in B /\ q # s
    <3>1. PICK k, u : k \in DOMAIN d /\ u \in DOMAIN d[k] /\ d[k][u] = q
      BY <1>5, SymbolsInFacts
    <3> QED BY <1>5, <1>8, <3>1
  <2> QED BY <1>9, <2>1
<1>11. IsFiniteSet(B \ {s}) /\ c - 1 \in Nat /\ c - 1 = Cardinality(B \ {s})
  <2>1. s \in B
    BY <1>2, <1>6
  <2>2. IsFiniteSet(B) /\ c = Cardinality(B) /\ c \in Nat
    BY DEF IsOrdered
  <2>3. IsFiniteSet(B \ {s}) /\ Cardinality(B \ {s}) = Cardinality(B) - 1
    BY <2>1, <2>2, FS_RemoveElement
  <2>4. Cardinality(B \ {s}) \in Nat
    BY <2>3, FS_CardinalityType
  <2> QED BY <2>2, <2>3, <2>4
<1>12. EntriesDiffer(d)
  <2> SUFFICES ASSUME NEW k \in DOMAIN d, NEW h \in DOMAIN d, NEW u \in DOMAIN d[k], NEW w \in DOMAIN d[h],
                      d[k][u] = d[h][w]
               PROVE  k = h /\ u = w
    BY DEF EntriesDiffer
  <2>0. k \in DOMAIN b /\ h \in DOMAIN b
    BY <1>5
  <2>1. PICK v \in DOMAIN b[k] : /\ d[k][u] = b[k][v] /\ (k # i => v = u)
                                 /\ k = i => (u < j /\ v = u) \/ (u >= j /\ v = u + 1)
    BY <1>7, <2>0
  <2>2. PICK x \in DOMAIN b[h] : /\ d[h][w] = b[h][x] /\ (h # i => x = w)
                                 /\ h = i => (w < j /\ x = w) \/ (w >= j /\ x = w + 1)
    BY <1>7, <2>0
  <2>3. k = h /\ v = x
    <3>1. b[k][v] = b[h][x]
      BY <2>1, <2>2
    <3> QED BY <1>1, <2>0, <3>1 DEF EntriesDiffer
  <2>4. u \in Nat /\ w \in Nat /\ j \in Nat
    BY <1>4, <1>6, <2>0
  <2> QED BY <2>1, <2>2, <2>3, <2>4
<1>13. AtTheirHash(d)
  <2>1. \A x \in Strings : BucketOf(d, x) = BucketOf(b, x)
    BY <1>1, <1>5, SizeFacts
  <2> SUFFICES ASSUME NEW k \in DOMAIN d, NEW u \in DOMAIN d[k]
               PROVE  name[d[k][u]] \in Strings /\ k = BucketOf(d, name[d[k][u]])
    BY DEF AtTheirHash
  <2>2. k \in DOMAIN b
    BY <1>5
  <2>3. PICK v \in DOMAIN b[k] : d[k][u] = b[k][v]
    BY <1>7, <2>2
  <2> QED BY <1>1, <2>1, <2>2, <2>3 DEF AtTheirHash
<1>14. LiveInFront(d, r)
  <2> SUFFICES ASSUME NEW k \in DOMAIN d, NEW u \in DOMAIN d[k], NEW w \in DOMAIN d[k],
                      name[d[k][u]] = name[d[k][w]], r[d[k][w]] > 0
               PROVE  w <= u
    BY DEF LiveInFront
  <2>0. k \in DOMAIN b
    BY <1>5
  <2>1. PICK v \in DOMAIN b[k] : /\ d[k][u] = b[k][v] /\ (k # i => v = u)
                                 /\ k = i => (u < j /\ v = u) \/ (u >= j /\ v = u + 1)
    BY <1>7, <2>0
  <2>2. PICK x \in DOMAIN b[k] : /\ d[k][w] = b[k][x] /\ (k # i => x = w)
                                 /\ k = i => (w < j /\ x = w) \/ (w >= j /\ x = w + 1)
    BY <1>7, <2>0
  <2>3. x <= v
    BY <1>1, <2>0, <2>1, <2>2 DEF LiveInFront
  <2>4. u \in Nat /\ w \in Nat /\ j \in Nat
    BY <1>4, <1>6, <2>0
  <2> QED BY <2>1, <2>2, <2>3, <2>4
<1> QED BY <1>2, <1>5, <1>10, <1>11, <1>12, <1>13, <1>14 DEF IsOrdered, InOrder

(* A table that was in order before it was rehashed is a sound one.        *)
LEMMA RehashedPool ==
  ASSUME NEW n \in Nat, IsPoolSize(n), NEW r \in [Symbols -> Nat], NEW b, NEW c, NEW B, IsOrdered(b, n, c, r, B),
         NEW q, \/ q = [buckets |-> b, count |-> c, rc |-> r]
                \/ q = GrowPool(b, c, r)
                \/ q = ShrinkPool(b, c, r)
  PROVE  SoundPool(q.buckets, q.count, name, r) /\ SymbolsIn(q.buckets) = B /\ q.rc = r
<1>1. IsRehashed(q, b, r)
  <2>1. b \in Arrays(n) /\ InOrder(b, r) /\ IsFiniteSet(SymbolsIn(b)) /\ c \in Nat /\ c = Cardinality(SymbolsIn(b))
    BY DEF IsOrdered
  <2>2. /\ IsRehashed([buckets |-> b, count |-> c, rc |-> r], b, r)
        /\ IsRehashed(GrowPool(b, c, r), b, r)
        /\ IsRehashed(ShrinkPool(b, c, r), b, r)
    BY ONLY <2>1, n \in Nat, IsPoolSize(n), r \in [Symbols -> Nat], RehashFacts
  <2> QED BY <2>2
<1>2. PICK k \in Nat : IsPoolSize(k) /\ SoundTable(q, k, r) /\ SymbolsIn(q.buckets) = SymbolsIn(b)
  BY <1>1 DEF IsRehashed
<1>3. q.buckets \in Arrays(k) /\ q.rc = r
  BY <1>2 DEF SoundTable, Tables
<1> QED BY <1>2, <1>3 DEF SoundTable, SoundPool, AtTheirHash, LiveInFront, IsOrdered

(* What insertSymbol leaves when nobody had the string: one symbol more, *)
LEMMA InsertEffect ==
  ASSUME IInv, NEW t \in Threads, Insert(t)
  PROVE  /\ rc' = rc /\ SoundPool(buckets', count', name, rc)
         /\ SymbolsIn(buckets') = InPool \cup {loc[t].sym}
<1>1. PICK s, i, d : /\ s = loc[t].sym /\ i = BucketOf(buckets, loc[t].str)
                     /\ d = [buckets EXCEPT ![i] = Cons(s, buckets[i])]
  OBVIOUS
<1>2. pc[t] = "insert" /\ loc[t].list = <<>>
  BY DEF Insert, InsertAs
<1>3. s \in Symbols \ InPool /\ name[s] = loc[t].str /\ name[s] \in Strings
  BY <1>1, <1>2 DEF IInv, LocalsFit, Making, IsMade
<1>4. ASSUME NEW q \in InPool, name[q] = name[s] PROVE ~(rc[q] > 0)
  <2>1. q \in ToSet(ListFor(t))
    BY <1>3, <1>4, PoolAccess DEF IInv, PoolHolds, IsAccess, InPool, ListFor
  <2>2. q \notin ToSet(loc[t].list)
    BY <1>2 DEF ToSet
  <2> QED BY <1>2, <1>3, <1>4, <2>1, <2>2 DEF IInv, WalkIsOn, Misses
<1>5. PICK n \in Nat \ {0} : IsPoolSize(n) /\ IsOrdered(buckets, n, count, rc, InPool)
  BY PoolIsOrdered DEF IInv, PoolHolds, InPool
<1>6. rc \in [Symbols -> Nat]
  BY DEF IInv, Typed
<1>7. IsOrdered(d, n, count + 1, rc, InPool \cup {s})
  <2>1. i = BucketOf(buckets, name[s])
    BY <1>1, <1>3
  <2> QED BY <1>1, <1>3, <1>4, <1>5, <1>6, <2>1, InsertTable
<1>8. PICK p : /\ SetTable(p) /\ rc' = p.rc
               /\ \/ p = [buckets |-> d, count |-> count + 1, rc |-> rc]
                  \/ p = GrowPool(d, count + 1, rc)
  <2>1. ListFor(t) = buckets[i]
    BY <1>1 DEF ListFor
  <2> QED BY <1>1, <2>1 DEF Insert, InsertAs
<1>9. SoundPool(p.buckets, p.count, name, rc) /\ SymbolsIn(p.buckets) = InPool \cup {s} /\ p.rc = rc
  BY <1>5, <1>6, <1>7, <1>8, RehashedPool
<1> QED BY <1>1, <1>8, <1>9 DEF SetTable

(* and removeSymbol: one less. *)
LEMMA RemoveEffect ==
  ASSUME IInv, NEW t \in Threads, RemoveSymbol(t)
  PROVE  /\ rc' = rc /\ SoundPool(buckets', count', name, rc)
         /\ loc[t].sym \in InPool /\ SymbolsIn(buckets') = InPool \ {loc[t].sym}
         /\ name' = [name EXCEPT ![loc[t].sym] = None]
         /\ place' = [place EXCEPT ![loc[t].sym] = "heap"]
<1>1. PICK s, i : s = loc[t].sym /\ i = BucketOf(buckets, name[s])
  OBVIOUS
<1>2. s \in Symbols /\ name[s] \in Strings /\ s \in InPool
  <2>1. pc[t] \in Freeing /\ name[s] # None
    BY <1>1 DEF RemoveSymbol, InItsBucket, Freeing
  <2> QED BY <1>1, <2>1 DEF IInv, LocalsFit, IsFreed, Typed
<1>3. PICK n \in Nat \ {0} : IsPoolSize(n) /\ IsOrdered(buckets, n, count, rc, InPool)
  BY PoolIsOrdered DEF IInv, PoolHolds, InPool
<1>4. i \in DOMAIN buckets
  BY <1>1, <1>2, PoolAccess DEF IInv, PoolHolds, IsAccess
<1>5. rc \in [Symbols -> Nat]
  BY DEF IInv, Typed
<1>6. PICK j \in DOMAIN buckets[i] : \E d, p :
        /\ d = [buckets EXCEPT ![i] = RemoveAt(buckets[i], j)]
        /\ \/ p = [buckets |-> d, count |-> count - 1, rc |-> rc]
           \/ p = ShrinkPool(d, count - 1, rc)
        /\ buckets[i][j] = s /\ SetTable(p) /\ rc' = p.rc
        /\ name' = [name EXCEPT ![s] = None]
        /\ place' = [place EXCEPT ![s] = "heap"]
  BY <1>1 DEF RemoveSymbol
<1>7. PICK d, p :
        /\ d = [buckets EXCEPT ![i] = RemoveAt(buckets[i], j)]
        /\ \/ p = [buckets |-> d, count |-> count - 1, rc |-> rc]
           \/ p = ShrinkPool(d, count - 1, rc)
        /\ buckets[i][j] = s /\ SetTable(p) /\ rc' = p.rc
        /\ name' = [name EXCEPT ![s] = None]
        /\ place' = [place EXCEPT ![s] = "heap"]
  BY <1>6
<1>8. IsOrdered(d, n, count - 1, rc, InPool \ {s})
  BY <1>3, <1>4, <1>5, <1>7, RemoveTable
<1>9. SoundPool(p.buckets, p.count, name, rc) /\ SymbolsIn(p.buckets) = InPool \ {s} /\ p.rc = rc
  <2>1. PICK c, B : c = count - 1 /\ B = InPool \ {s}
    OBVIOUS
  <2>2. IsOrdered(d, n, c, rc, B)
    BY <1>8, <2>1
  <2>3. p = [buckets |-> d, count |-> c, rc |-> rc] \/ p = GrowPool(d, c, rc) \/ p = ShrinkPool(d, c, rc)
    BY <1>7, <2>1
  <2>4. SoundPool(p.buckets, p.count, name, rc) /\ SymbolsIn(p.buckets) = B /\ p.rc = rc
    BY <1>3, <1>5, <2>2, <2>3, RehashedPool
  <2> QED BY <2>1, <2>4
<1> QED BY <1>1, <1>2, <1>7, <1>9 DEF SetTable

-----------------------------------------------------------------------------
(* The steps that leave the table and what a symbol is.                    *)

Asks(t) == \E x \in Strings, copy \in BOOLEAN, label \in {"with", "existing"} : Lookup(t, x, copy, label)

Quiet(t) ==
  \/ Asks(t) \/ BeginFind(t) \/ BeginInsert(t) \/ BeginFree(t) \/ BeginPageUnload(t)
  \/ ProbeNext(t) \/ FindFails(t) \/ RemovePanics(t)
  \/ Unload(t) \/ CheckForPageUnload(t) \/ Unmap(t)

IsFrame ==
  /\ buckets' = buckets /\ count' = count /\ rc' = rc /\ name' = name /\ held' = held
  /\ \A u \in Threads : /\ loc'[u].sym = loc[u].sym
                        /\ pc'[u] \in Making <=> pc[u] \in Making

(* Nothing that is counted changes. *)
LEMMA QuietFrame ==
  ASSUME IInv, NEW t \in Threads, Quiet(t)
  PROVE  IsFrame
<1>1. CASE Asks(t)
  BY <1>1 DEF Asks, Lookup, Goto, NoLocals, IsFrame, IInv, Typed, LocalTypes, LocalsFit, Making,
         Asking, Unloading, table, symbols
<1>2. CASE BeginFind(t)
  BY <1>2 DEF BeginFind, CloseReadGate, Goto, IsFrame, IInv, Typed, LocalTypes, LocalsFit, Making,
         Asking, Unloading, table, symbols
<1>3. CASE BeginInsert(t)
  BY <1>3 DEF BeginInsert, CloseWriteGate, Goto, IsFrame, IInv, Typed, LocalTypes, LocalsFit, Making,
         Asking, Unloading, table, symbols
<1>4. CASE BeginFree(t)
  BY <1>4 DEF BeginFree, CloseWriteGate, Goto, IsFrame, IInv, Typed, LocalTypes, LocalsFit, Making,
         Asking, Unloading, table, symbols
<1>5. CASE BeginPageUnload(t)
  BY <1>5 DEF BeginPageUnload, CloseWriteGate, Goto, IsFrame, IInv, Typed, LocalTypes, LocalsFit,
         Making, Asking, Unloading, table, symbols
<1>6. CASE ProbeNext(t)
  BY <1>6 DEF ProbeNext, IsFrame, IInv, Typed, LocalTypes, LocalsFit, Making, Asking, Unloading,
         table, symbols
<1>7. CASE FindFails(t)
  BY <1>7 DEF FindFails, OpenReadGate, Goto, Return, NoLocals, IsFrame, IInv, Typed, LocalTypes,
         LocalsFit, Making, Asking, Unloading, table, symbols
<1>8. CASE RemovePanics(t)
  BY <1>8 DEF RemovePanics, Goto, IsFrame, IInv, Typed, LocalTypes, LocalsFit, Making, Asking,
         Unloading, table, symbols
<1>9. CASE Unload(t)
  BY <1>9 DEF Unload, Goto, IsFrame, IInv, Typed, LocalTypes, LocalsFit, Making, Asking, Unloading,
         table, symbols
<1>10. CASE CheckForPageUnload(t)
  BY <1>10 DEF CheckForPageUnload, OpenWriteGate, Goto, IsFrame, IInv, Typed, LocalTypes, LocalsFit,
         Making, Asking, Unloading, table, symbols
<1>11. CASE Unmap(t)
  BY <1>11 DEF Unmap, Goto, IsFrame, IInv, Typed, LocalTypes, LocalsFit, Making, Asking, Unloading,
         table, symbols
<1> QED BY <1>1, <1>2, <1>3, <1>4, <1>5, <1>6, <1>7, <1>8, <1>9, <1>10, <1>11 DEF Quiet

(* The types stay. *)
LEMMA QuietTyped ==
  ASSUME IInv, NEW t \in Threads, Quiet(t)
  PROVE  Typed'
<1>0. loc \in [Threads -> LocalTypes]
  BY DEF IInv, Typed
<1>1. CASE Asks(t)
  <2>1. loc' \in [Threads -> LocalTypes]
    <3>1. PICK x \in Strings, copy \in BOOLEAN : loc' = [loc EXCEPT ![t] = [NoLocals EXCEPT !.str = x,
    !.copy = copy]]
      BY <1>1 DEF Asks, Lookup
    <3> QED BY <1>0, <3>1, LocalsTyped
  <2> QED BY <1>1, <2>1 DEF Asks, Lookup, Goto, IInv, Typed, table, symbols, gate
<1>2. CASE BeginFind(t)
  <2>1. loc' \in [Threads -> LocalTypes]
    <3>1. PICK l : l = ListFor(t) /\ loc' = [loc EXCEPT ![t].list = l]
      BY <1>2 DEF BeginFind, ListFor
    <3>2. loc[t].str \in Strings
      BY <1>2 DEF BeginFind, IInv, LocalsFit, Asking
    <3>3. l \in Seq(Symbols)
      BY <3>1, <3>2, PoolAccess DEF IInv, PoolHolds, IsAccess, ListFor
    <3> QED BY <1>0, <3>1, <3>3, LocalsTyped
  <2> QED BY <1>2, <2>1 DEF BeginFind, CloseReadGate, Goto, IInv, Typed, table, symbols, gate
<1>3. CASE BeginInsert(t)
  <2>1. loc' \in [Threads -> LocalTypes]
    <3>1. PICK l : l = ListFor(t) /\ loc' = [loc EXCEPT ![t].list = l]
      BY <1>3 DEF BeginInsert, ListFor
    <3>2. loc[t].str \in Strings
      BY <1>3 DEF BeginInsert, IInv, LocalsFit, Making
    <3>3. l \in Seq(Symbols)
      BY <3>1, <3>2, PoolAccess DEF IInv, PoolHolds, IsAccess, ListFor
    <3> QED BY <1>0, <3>1, <3>3, LocalsTyped
  <2> QED BY <1>3, <2>1 DEF BeginInsert, CloseWriteGate, Goto, IInv, Typed, table, symbols, gate
<1>4. CASE BeginFree(t)
  BY <1>4 DEF BeginFree, CloseWriteGate, Goto, IInv, Typed, table, symbols, gate
<1>5. CASE BeginPageUnload(t)
  BY <1>5 DEF BeginPageUnload, CloseWriteGate, Goto, IInv, Typed, table, symbols, gate
<1>6. CASE ProbeNext(t)
  <2>1. loc' \in [Threads -> LocalTypes]
    <3>1. PICK l : l = Tail(loc[t].list) /\ loc' = [loc EXCEPT ![t].list = l]
      BY <1>6 DEF ProbeNext
    <3>2. l \in Seq(Symbols)
      BY <1>6, <1>0, <3>1, HeadAndTail DEF ProbeNext, LocalTypes
    <3> QED BY <1>0, <3>1, <3>2, LocalsTyped
  <2> QED BY <1>6, <2>1 DEF ProbeNext, IInv, Typed, table, symbols, gate
<1>7. CASE FindFails(t)
  <2>1. loc' \in [Threads -> LocalTypes]
    <3>1. loc' = loc \/ loc' = [loc EXCEPT ![t] = NoLocals]
      BY <1>7 DEF FindFails, Return
    <3>2. [loc EXCEPT ![t] = NoLocals] \in [Threads -> LocalTypes]
      BY <1>0, LocalsTyped
    <3> QED BY <1>0, <3>1, <3>2
  <2> QED BY <1>7, <2>1 DEF FindFails, OpenReadGate, Goto, Return, IInv, Typed, table, symbols
<1>8. CASE RemovePanics(t)
  BY <1>8 DEF RemovePanics, Goto, IInv, Typed, table, symbols, gate
<1>9. CASE Unload(t)
  BY <1>9 DEF Unload, Goto, IInv, Typed, table, symbols, gate
<1>10. CASE CheckForPageUnload(t)
  BY <1>10 DEF CheckForPageUnload, OpenWriteGate, Goto, IInv, Typed, table, symbols, gate
<1>11. CASE Unmap(t)
  BY <1>11 DEF Unmap, Goto, IInv, Typed, table, symbols, gate
<1> QED BY <1>1, <1>2, <1>3, <1>4, <1>5, <1>6, <1>7, <1>8, <1>9, <1>10, <1>11 DEF Quiet

(* The gate is held by those who have closed it. *)
LEMMA QuietGate ==
  ASSUME IInv, NEW t \in Threads, Quiet(t)
  PROVE  GateIsHeld'
<1>1. CASE Asks(t)
  BY <1>1 DEF Asks, Lookup, Goto, NoLocals, IInv, Typed, GateIsHeld, Looking, Writing, gate
<1>2. CASE BeginFind(t)
  BY <1>2 DEF BeginFind, CloseReadGate, Goto, IInv, Typed, GateIsHeld, Looking, Writing, gate
<1>3. CASE BeginInsert(t)
  BY <1>3 DEF BeginInsert, CloseWriteGate, Goto, IInv, Typed, GateIsHeld, Looking, Writing, gate
<1>4. CASE BeginFree(t)
  BY <1>4 DEF BeginFree, CloseWriteGate, Goto, IInv, Typed, GateIsHeld, Looking, Writing, gate
<1>5. CASE BeginPageUnload(t)
  BY <1>5 DEF BeginPageUnload, CloseWriteGate, Goto, IInv, Typed, GateIsHeld, Looking, Writing, gate
<1>6. CASE ProbeNext(t)
  BY <1>6 DEF ProbeNext, IInv, Typed, GateIsHeld, Looking, Writing, gate
<1>7. CASE FindFails(t)
  BY <1>7 DEF FindFails, OpenReadGate, Goto, Return, NoLocals, IInv, Typed, GateIsHeld, Looking,
         Writing, gate
<1>8. CASE RemovePanics(t)
  BY <1>8 DEF RemovePanics, Goto, IInv, Typed, GateIsHeld, Looking, Writing, gate
<1>9. CASE Unload(t)
  BY <1>9 DEF Unload, Goto, IInv, Typed, GateIsHeld, Looking, Writing, gate
<1>10. CASE CheckForPageUnload(t)
  BY <1>10 DEF CheckForPageUnload, OpenWriteGate, Goto, IInv, Typed, GateIsHeld, Looking, Writing, gate
<1>11. CASE Unmap(t)
  BY <1>11 DEF Unmap, Goto, IInv, Typed, GateIsHeld, Looking, Writing, gate
<1> QED BY <1>1, <1>2, <1>3, <1>4, <1>5, <1>6, <1>7, <1>8, <1>9, <1>10, <1>11 DEF Quiet

OthersStay(t) == \A u \in Threads : u # t => pc'[u] = pc[u] /\ loc'[u] = loc[u]

(* A thread goes on alone. *)
LEMMA QuietOthers ==
  ASSUME IInv, NEW t \in Threads, Quiet(t)
  PROVE  OthersStay(t)
<1>1. CASE Asks(t)
  BY <1>1 DEF Asks, Lookup, Goto, NoLocals, OthersStay, IInv, Typed
<1>2. CASE BeginFind(t)
  BY <1>2 DEF BeginFind, CloseReadGate, Goto, OthersStay, IInv, Typed
<1>3. CASE BeginInsert(t)
  BY <1>3 DEF BeginInsert, CloseWriteGate, Goto, OthersStay, IInv, Typed
<1>4. CASE BeginFree(t)
  BY <1>4 DEF BeginFree, CloseWriteGate, Goto, OthersStay, IInv, Typed
<1>5. CASE BeginPageUnload(t)
  BY <1>5 DEF BeginPageUnload, CloseWriteGate, Goto, OthersStay, IInv, Typed
<1>6. CASE ProbeNext(t)
  BY <1>6 DEF ProbeNext, OthersStay, IInv, Typed
<1>7. CASE FindFails(t)
  BY <1>7 DEF FindFails, OpenReadGate, Goto, Return, NoLocals, OthersStay, IInv, Typed
<1>8. CASE RemovePanics(t)
  BY <1>8 DEF RemovePanics, Goto, OthersStay, IInv, Typed
<1>9. CASE Unload(t)
  BY <1>9 DEF Unload, Goto, OthersStay, IInv, Typed
<1>10. CASE CheckForPageUnload(t)
  BY <1>10 DEF CheckForPageUnload, OpenWriteGate, Goto, OthersStay, IInv, Typed
<1>11. CASE Unmap(t)
  BY <1>11 DEF Unmap, Goto, OthersStay, IInv, Typed
<1> QED BY <1>1, <1>2, <1>3, <1>4, <1>5, <1>6, <1>7, <1>8, <1>9, <1>10, <1>11 DEF Quiet

(* What a thread makes or frees stays so. *)
LEMMA QuietLocals ==
  ASSUME IInv, NEW t \in Threads, Quiet(t)
  PROVE  LocalsFit'
<1>1. CASE Asks(t)
  <2>1. OthersStay(t)
    BY QuietOthers
  <2>2. pc'[t] \in {"with", "existing"} /\ loc'[t].str \in Strings /\ loc'[t].sym = None
    BY <1>1 DEF IInv, Typed, LocalTypes, table, symbols, Asks, Lookup, Goto, NoLocals
  <2>3. buckets' = buckets /\ rc' = rc /\ name' = name /\ place' = place
    BY <1>1 DEF Asks, Lookup, table, symbols
  <2> QED BY <2>1, <2>2, <2>3 DEF OthersStay, IInv, LocalsFit, IsMade, IsFreed, InPool, Making,
         Asking, Unloading, Freeing
<1>2. CASE BeginFind(t)
  BY <1>2 DEF BeginFind, CloseReadGate, Goto, IInv, Typed, LocalTypes, LocalsFit, IsMade, IsFreed,
         InPool, Making, Asking, Unloading, Freeing, NoLocals, table, symbols
<1>3. CASE BeginInsert(t)
  BY <1>3 DEF BeginInsert, CloseWriteGate, Goto, IInv, Typed, LocalTypes, LocalsFit, IsMade, IsFreed,
         InPool, Making, Asking, Unloading, Freeing, NoLocals, table, symbols
<1>4. CASE BeginFree(t)
  BY <1>4 DEF BeginFree, CloseWriteGate, Goto, IInv, Typed, LocalTypes, LocalsFit, IsMade, IsFreed,
         InPool, Making, Asking, Unloading, Freeing, NoLocals, table, symbols
<1>5. CASE BeginPageUnload(t)
  BY <1>5 DEF BeginPageUnload, CloseWriteGate, Goto, IInv, Typed, LocalTypes, LocalsFit, IsMade,
         IsFreed, InPool, Making, Asking, Unloading, Freeing, NoLocals, table, symbols
<1>6. CASE ProbeNext(t)
  <2>1. OthersStay(t)
    BY QuietOthers
  <2>2. pc[t] \in {"find", "findOnly", "insert"} /\ pc'[t] = pc[t]
        /\ loc'[t].str = loc[t].str /\ loc'[t].sym = loc[t].sym /\ loc'[t].copy = loc[t].copy
    BY <1>6 DEF IInv, Typed, LocalTypes, table, symbols, ProbeNext, Probing
  <2>3. buckets' = buckets /\ rc' = rc /\ name' = name /\ place' = place
    BY <1>6 DEF ProbeNext, table, symbols
  <2> QED BY <2>1, <2>2, <2>3 DEF OthersStay, IInv, LocalsFit, IsMade, IsFreed, InPool, Making,
         Asking, Unloading, Freeing
<1>7. CASE FindFails(t)
  <2>1. OthersStay(t)
    BY QuietOthers
  <2>2. \/ pc[t] = "find" /\ pc'[t] = "new" /\ loc'[t] = loc[t]
        \/ pc'[t] = "idle" /\ loc'[t] = NoLocals
    BY <1>7 DEF IInv, Typed, LocalTypes, table, symbols, FindFails, Goto, Return
  <2>3. buckets' = buckets /\ rc' = rc /\ name' = name /\ place' = place
    BY <1>7 DEF FindFails, table, symbols
  <2>4. NoLocals.sym = None
    BY <1>7 DEF NoLocals
  <2> QED BY <2>1, <2>2, <2>3, <2>4 DEF OthersStay, IInv, LocalsFit, IsMade, IsFreed, InPool, Making,
         Asking, Unloading, Freeing
<1>8. CASE RemovePanics(t)
  BY <1>8 DEF RemovePanics, Goto, IInv, Typed, LocalTypes, LocalsFit, IsMade, IsFreed, InPool, Making,
         Asking, Unloading, Freeing, NoLocals, table, symbols
<1>9. CASE Unload(t)
  BY <1>9 DEF Unload, Goto, IInv, Typed, LocalTypes, LocalsFit, IsMade, IsFreed, InPool, Making,
         Asking, Unloading, Freeing, NoLocals, table, symbols
<1>10. CASE CheckForPageUnload(t)
  BY <1>10 DEF CheckForPageUnload, OpenWriteGate, Goto, IInv, Typed, LocalTypes, LocalsFit, IsMade,
         IsFreed, InPool, Making, Asking, Unloading, Freeing, NoLocals, table, symbols
<1>11. CASE Unmap(t)
  BY <1>11 DEF Unmap, Goto, IInv, Typed, LocalTypes, LocalsFit, IsMade, IsFreed, InPool, Making,
         Asking, Unloading, Freeing, NoLocals, table, symbols
<1> QED BY <1>1, <1>2, <1>3, <1>4, <1>5, <1>6, <1>7, <1>8, <1>9, <1>10, <1>11 DEF Quiet

(* A walk begins with the whole bucket and goes on past what does not match. *)
LEMMA QuietWalk ==
  ASSUME IInv, NEW t \in Threads, Quiet(t)
  PROVE  WalkIsOn'
<1>1. CASE Asks(t)
  <2>1. OthersStay(t)
    BY QuietOthers
  <2>2. pc'[t] \in {"with", "existing"}
    BY <1>1 DEF IInv, Typed, LocalTypes, table, symbols, Asks, Lookup, Goto
  <2>3. buckets' = buckets /\ rc' = rc /\ name' = name
    BY <1>1 DEF Asks, Lookup, table, symbols
  <2> QED BY <2>1, <2>2, <2>3 DEF OthersStay, IInv, LocalsFit, GateIsHeld, WalkIsOn, Misses, ListFor,
         Looking, Writing
<1>2. CASE BeginFind(t)
  <2>1. OthersStay(t)
    BY QuietOthers
  <2>2. pc'[t] \in {"find", "findOnly"} /\ loc'[t].str = loc[t].str /\ loc'[t].list = ListFor(t)
    BY <1>2 DEF IInv, Typed, LocalTypes, table, symbols, BeginFind, Goto, ListFor
  <2>3. buckets' = buckets /\ rc' = rc /\ name' = name
    BY <1>2 DEF BeginFind, table, symbols
  <2> QED BY <2>1, <2>2, <2>3 DEF OthersStay, IInv, LocalsFit, GateIsHeld, WalkIsOn, Misses, ListFor,
         Looking, Writing
<1>3. CASE BeginInsert(t)
  BY <1>3 DEF BeginInsert, CloseWriteGate, Goto, IInv, Typed, LocalTypes, LocalsFit, GateIsHeld,
         WalkIsOn, Misses, ListFor, Looking, Writing, Making, Asking, table, symbols, gate
<1>4. CASE BeginFree(t)
  BY <1>4 DEF BeginFree, CloseWriteGate, Goto, IInv, Typed, LocalTypes, LocalsFit, GateIsHeld,
         WalkIsOn, Misses, ListFor, Looking, Writing, Making, Asking, table, symbols, gate
<1>5. CASE BeginPageUnload(t)
  BY <1>5 DEF BeginPageUnload, CloseWriteGate, Goto, IInv, Typed, LocalTypes, LocalsFit, GateIsHeld,
         WalkIsOn, Misses, ListFor, Looking, Writing, Making, Asking, table, symbols, gate
<1>6. CASE ProbeNext(t)
  <2>1. OthersStay(t)
    BY QuietOthers
  <2>2. pc'[t] = pc[t] /\ pc[t] \in {"find", "findOnly", "insert"} /\ loc'[t].str = loc[t].str /\ loc'[t].list = Tail(loc[t].list)
    BY <1>6 DEF IInv, Typed, LocalTypes, table, symbols, ProbeNext, Probing
  <2>3. buckets' = buckets /\ rc' = rc /\ name' = name
    BY <1>6 DEF ProbeNext, table, symbols
  <2>4. Misses(t, Head(loc[t].list)) /\ loc[t].list # <<>> /\ loc[t].list \in Seq(Symbols)
    BY <1>6 DEF IInv, Typed, LocalTypes, table, symbols, ProbeNext
  <2>5. ToSet(loc[t].list) = {Head(loc[t].list)} \cup ToSet(Tail(loc[t].list))
    BY <2>4, HeadAndTail
  <2>6. \A u \in Threads : /\ ListFor(u)' = ListFor(u) /\ pc'[u] = pc[u]
                           /\ \A q : Misses(u, q)' <=> Misses(u, q)
    BY <2>1, <2>2, <2>3 DEF OthersStay, ListFor, Misses
  <2>7. \A u \in Threads : ToSet(loc'[u].list) \subseteq ToSet(loc[u].list)
    BY <2>1, <2>2, <2>5 DEF OthersStay
  <2>8. \A u \in Threads : \A q \in ToSet(loc[u].list) \ ToSet(loc'[u].list) : Misses(u, q)
    BY <2>1, <2>2, <2>4, <2>5 DEF OthersStay
  <2> QED BY <2>6, <2>7, <2>8 DEF IInv, WalkIsOn
<1>7. CASE FindFails(t)
  <2>1. OthersStay(t)
    BY QuietOthers
  <2>2. pc'[t] \in {"new", "idle"}
    BY <1>7 DEF IInv, Typed, LocalTypes, table, symbols, FindFails, Goto, Return
  <2>3. buckets' = buckets /\ rc' = rc /\ name' = name
    BY <1>7 DEF FindFails, table, symbols
  <2> QED BY <2>1, <2>2, <2>3 DEF OthersStay, IInv, LocalsFit, GateIsHeld, WalkIsOn, Misses, ListFor,
         Looking, Writing
<1>8. CASE RemovePanics(t)
  BY <1>8 DEF RemovePanics, Goto, IInv, Typed, LocalTypes, LocalsFit, GateIsHeld, WalkIsOn, Misses,
         ListFor, Looking, Writing, Making, Asking, table, symbols, gate
<1>9. CASE Unload(t)
  <2>1. OthersStay(t)
    BY QuietOthers
  <2>2. pc'[t] = "unload"
    BY <1>9 DEF IInv, Typed, LocalTypes, table, symbols, Unload, Goto
  <2>3. buckets' = buckets /\ rc' = rc /\ name' = name
    BY <1>9 DEF Unload, table, symbols
  <2> QED BY <2>1, <2>2, <2>3 DEF OthersStay, IInv, LocalsFit, GateIsHeld, WalkIsOn, Misses, ListFor,
         Looking, Writing
<1>10. CASE CheckForPageUnload(t)
  BY <1>10 DEF CheckForPageUnload, OpenWriteGate, Goto, IInv, Typed, LocalTypes, LocalsFit,
         GateIsHeld, WalkIsOn, Misses, ListFor, Looking, Writing, Making, Asking, table, symbols, gate
<1>11. CASE Unmap(t)
  BY ZenonT(60), <1>11 DEF Unmap, Goto, IInv, Typed, LocalTypes, LocalsFit, GateIsHeld, WalkIsOn, Misses, ListFor,
         Looking, Writing, Making, Asking, table, symbols, gate
<1> QED BY <1>1, <1>2, <1>3, <1>4, <1>5, <1>6, <1>7, <1>8, <1>9, <1>10, <1>11 DEF Quiet

(* Nobody takes the room that another has. *)
LEMMA QuietRoom ==
  ASSUME IInv, NEW t \in Threads, Quiet(t)
  PROVE  RoomToHold'
<1>1. CASE Asks(t)
  BY <1>1 DEF Asks, Lookup, Goto, NoLocals, IInv, Typed, LocalTypes, RoomToHold, CanHold, Asking,
         Making, symbols
<1>2. CASE BeginFind(t)
  BY <1>2 DEF BeginFind, CloseReadGate, Goto, IInv, Typed, LocalTypes, RoomToHold, CanHold, Asking,
         Making, symbols
<1>3. CASE BeginInsert(t)
  BY <1>3 DEF BeginInsert, CloseWriteGate, Goto, IInv, Typed, LocalTypes, RoomToHold, CanHold, Asking,
         Making, symbols
<1>4. CASE BeginFree(t)
  BY <1>4 DEF BeginFree, CloseWriteGate, Goto, IInv, Typed, LocalTypes, RoomToHold, CanHold, Asking,
         Making, symbols
<1>5. CASE BeginPageUnload(t)
  BY <1>5 DEF BeginPageUnload, CloseWriteGate, Goto, IInv, Typed, LocalTypes, RoomToHold, CanHold,
         Asking, Making, symbols
<1>6. CASE ProbeNext(t)
  BY SMTT(30), <1>6 DEF ProbeNext, IInv, Typed, LocalTypes, RoomToHold, CanHold, Asking, Making, symbols
<1>7. CASE FindFails(t)
  BY ZenonT(60), <1>7 DEF FindFails, OpenReadGate, Goto, Return, NoLocals, IInv, Typed, LocalTypes, RoomToHold,
         CanHold, Asking, Making, symbols
<1>8. CASE RemovePanics(t)
  BY <1>8 DEF RemovePanics, Goto, IInv, Typed, LocalTypes, RoomToHold, CanHold, Asking, Making, symbols
<1>9. CASE Unload(t)
  BY <1>9 DEF Unload, Goto, IInv, Typed, LocalTypes, RoomToHold, CanHold, Asking, Making, symbols
<1>10. CASE CheckForPageUnload(t)
  BY <1>10 DEF CheckForPageUnload, OpenWriteGate, Goto, IInv, Typed, LocalTypes, RoomToHold, CanHold,
         Asking, Making, symbols
<1>11. CASE Unmap(t)
  BY <1>11 DEF Unmap, Goto, IInv, Typed, LocalTypes, RoomToHold, CanHold, Asking, Making, symbols
<1> QED BY <1>1, <1>2, <1>3, <1>4, <1>5, <1>6, <1>7, <1>8, <1>9, <1>10, <1>11 DEF Quiet

(* The text goes only when no symbol of the pool lies in it. *)
LEMMA QuietText ==
  ASSUME IInv, NEW t \in Threads, Quiet(t)
  PROVE  TextIsLeft'
<1>1. CASE Asks(t)
  BY <1>1 DEF Asks, Lookup, Goto, NoLocals, IInv, Typed, LocalTypes, TextIsLeft, LocalsFit, InPool,
         Unloading, table, symbols
<1>2. CASE BeginFind(t)
  BY <1>2 DEF BeginFind, CloseReadGate, Goto, IInv, Typed, LocalTypes, TextIsLeft, LocalsFit, InPool,
         Unloading, table, symbols
<1>3. CASE BeginInsert(t)
  BY <1>3 DEF BeginInsert, CloseWriteGate, Goto, IInv, Typed, LocalTypes, TextIsLeft, LocalsFit,
         InPool, Unloading, table, symbols
<1>4. CASE BeginFree(t)
  BY <1>4 DEF BeginFree, CloseWriteGate, Goto, IInv, Typed, LocalTypes, TextIsLeft, LocalsFit, InPool,
         Unloading, table, symbols
<1>5. CASE BeginPageUnload(t)
  BY <1>5 DEF BeginPageUnload, CloseWriteGate, Goto, IInv, Typed, LocalTypes, TextIsLeft, LocalsFit,
         InPool, Unloading, table, symbols
<1>6. CASE ProbeNext(t)
  BY <1>6 DEF ProbeNext, IInv, Typed, LocalTypes, TextIsLeft, LocalsFit, InPool, Unloading, table,
         symbols
<1>7. CASE FindFails(t)
  <2>1. OthersStay(t)
    BY QuietOthers
  <2>2. \/ pc'[t] = "new" /\ loc'[t] = loc[t]
        \/ pc'[t] = "idle" /\ loc'[t] = NoLocals
    BY <1>7 DEF IInv, Typed, LocalTypes, table, symbols, FindFails, Goto, Return
  <2>3. buckets' = buckets /\ place' = place /\ text' = text
    BY <1>7 DEF FindFails, table, symbols
  <2>4. NoLocals.copy = TRUE
    BY <1>7 DEF NoLocals
  <2> QED BY <2>1, <2>2, <2>3, <2>4 DEF OthersStay, IInv, TextIsLeft, LocalsFit, InPool, Unloading
<1>8. CASE RemovePanics(t)
  BY <1>8 DEF RemovePanics, Goto, IInv, Typed, LocalTypes, TextIsLeft, LocalsFit, InPool, Unloading,
         table, symbols
<1>9. CASE Unload(t)
  BY <1>9 DEF Unload, Goto, IInv, Typed, LocalTypes, TextIsLeft, LocalsFit, InPool, Unloading, table,
         symbols
<1>10. CASE CheckForPageUnload(t)
  <2>1. OthersStay(t)
    BY QuietOthers
  <2>2. pc[t] = "checkPages" /\ pc'[t] = "unmap" /\ loc' = loc
    BY <1>10 DEF IInv, Typed, LocalTypes, table, symbols, CheckForPageUnload, Goto
  <2>3. buckets' = buckets /\ text' = text
    BY <1>10 DEF CheckForPageUnload, table
  <2>4. \A q \in InPool : place'[q] = "heap"
    BY <1>10, PoolAccess DEF CheckForPageUnload, IInv, PoolHolds, IsAccess, InPool
  <2> QED BY <2>1, <2>2, <2>3, <2>4 DEF OthersStay, IInv, TextIsLeft, LocalsFit, InPool, Unloading
<1>11. CASE Unmap(t)
  BY <1>11 DEF Unmap, Goto, IInv, Typed, LocalTypes, TextIsLeft, LocalsFit, InPool, Unloading, table,
         symbols
<1> QED BY <1>1, <1>2, <1>3, <1>4, <1>5, <1>6, <1>7, <1>8, <1>9, <1>10, <1>11 DEF Quiet

LEMMA QuietKeeps ==
  ASSUME IInv, NEW t \in Threads, Quiet(t)
  PROVE  IInv'
<1>1. IsFrame
  BY QuietFrame
<1>2. \A s : IsNew(s)' <=> IsNew(s)
  BY <1>1 DEF IsFrame, IsNew, Making
<1>3. RefsAreExact'
  BY <1>1, <1>2 DEF IsFrame, IInv, RefsAreExact, NoLeakedRetain, Refs
<1>4. LivesInPool' /\ PoolHolds'
  BY <1>1, <1>2 DEF IsFrame, IInv, LivesInPool, PoolHolds, InPool
<1> QED BY <1>3, <1>4, QuietTyped, QuietGate, QuietLocals, QuietWalk, QuietRoom, QuietText DEF IInv

-----------------------------------------------------------------------------
(* The steps that change what symbols there are.                           *)

(* A count is what is held, and a symbol that is being made is held by     *)
(* nobody else.                                                            *)
LEMMA ExactRefs ==
  ASSUME IInv, NEW s \in Symbols
  PROVE  /\ held \in Holdings /\ IsFiniteSet(RefsOf(held, s)) /\ Cardinality(RefsOf(held, s)) \in Nat
         /\ rc[s] = Cardinality(RefsOf(held, s)) + (IF IsNew(s) THEN 1 ELSE 0)
         /\ Cardinality(RefsOf(held, s)) = 0 <=> \A t \in Threads : held[t][s] = 0
         /\ IsNew(s) => rc[s] = 1 /\ s \notin InPool
<1>1. held \in Holdings
  BY DEF IInv, Typed, Holdings
<1>2. RefsOf(held, s) = Refs(s)
  BY DEF RefsOf, Refs
<1>3. IsFiniteSet(RefsOf(held, s)) /\ rc[s] = Cardinality(RefsOf(held, s)) + (IF IsNew(s) THEN 1 ELSE 0)
  BY <1>2 DEF IInv, RefsAreExact, NoLeakedRetain
<1>4. IsNew(s) => rc[s] = 1 /\ s \notin InPool
  BY DEF IInv, LocalsFit, IsNew, IsMade, Making
<1> QED BY <1>1, <1>3, <1>4, RefsCount

(* Who holds a symbol holds a live one, which is in the pool if it has a   *)
(* string, and which no thread makes or frees.                             *)
LEMMA HeldLives ==
  ASSUME IInv, NEW t \in Threads, NEW s \in Symbols, held[t][s] > 0
  PROVE  /\ rc[s] \in Nat /\ rc[s] > 0 /\ ~ IsNew(s) /\ rc[s] = Cardinality(RefsOf(held, s))
         /\ name[s] # None => s \in InPool
         /\ \A u \in Threads : loc[u].sym # s
<1>1. Cardinality(RefsOf(held, s)) \in Nat /\ Cardinality(RefsOf(held, s)) # 0
  BY ExactRefs DEF Holdings
<1>2. ~ IsNew(s)
  BY <1>1, ExactRefs
<1>3. rc[s] = Cardinality(RefsOf(held, s))
  BY <1>2, ExactRefs
<1>4. rc[s] \in Nat /\ rc[s] > 0
  BY <1>1, <1>3
<1>5. name[s] # None => s \in InPool
  BY <1>2, <1>4 DEF IInv, LivesInPool
<1>6. ASSUME NEW u \in Threads, loc[u].sym = s PROVE FALSE
  <2>1. pc[u] \notin Making
    BY <1>2, <1>6 DEF IsNew, Making
  <2>2. pc[u] \notin Freeing
    BY <1>4, <1>6 DEF IInv, LocalsFit, IsFreed
  <2>3. loc[u].sym = None
    BY <2>1, <2>2 DEF IInv, Typed, LocalsFit, Making, Freeing, Asking, Unloading, NoLocals
  <2> QED BY <1>6, <2>3
<1> QED BY <1>2, <1>3, <1>4, <1>5, <1>6

(* The counts stay exact when each changes by its references and by the    *)
(* one of its making.                                                      *)
LEMMA RefsStayExact ==
  ASSUME IInv, NEW s \in Symbols, NEW n \in Int, IsCounted(held', held, s, n),
         \A q \in Symbols :
           rc'[q] - (IF IsNew(q)' THEN 1 ELSE 0)
             = rc[q] - (IF IsNew(q) THEN 1 ELSE 0) + (IF q = s THEN n ELSE 0),
         rc' \in [Symbols -> Nat]
  PROVE  RefsAreExact'
<1> SUFFICES ASSUME NEW q \in Symbols
             PROVE  /\ IsFiniteSet(RefsOf(held', q))
                    /\ rc'[q] = Cardinality(RefsOf(held', q)) + (IF IsNew(q)' THEN 1 ELSE 0)
  BY DEF RefsAreExact, NoLeakedRetain, Refs, RefsOf
<1>1. /\ IsFiniteSet(RefsOf(held, q)) /\ Cardinality(RefsOf(held, q)) \in Nat
      /\ rc[q] = Cardinality(RefsOf(held, q)) + (IF IsNew(q) THEN 1 ELSE 0)
  BY ExactRefs
<1>2. /\ IsFiniteSet(RefsOf(held', q))
      /\ q = s => Cardinality(RefsOf(held', q)) = Cardinality(RefsOf(held, q)) + n
      /\ q # s => Cardinality(RefsOf(held', q)) = Cardinality(RefsOf(held, q))
  BY <1>1 DEF IsCounted
<1>3. rc[q] \in Nat /\ rc'[q] \in Nat
  BY DEF IInv, Typed
<1>4. rc'[q] - (IF IsNew(q)' THEN 1 ELSE 0)
        = Cardinality(RefsOf(held, q)) + (IF q = s THEN n ELSE 0)
  BY <1>1, <1>3
<1>5. Cardinality(RefsOf(held', q)) = Cardinality(RefsOf(held, q)) + (IF q = s THEN n ELSE 0)
  BY <1>1, <1>2
<1> QED BY <1>2, <1>3, <1>4, <1>5

(* A walk is not disturbed while the buckets stay and no symbol comes to   *)
(* life in them.                                                           *)
LEMMA WalkStays ==
  ASSUME IInv, buckets' = buckets,
         \A u \in Threads : pc'[u] \in Looking \cup {"insert"} => pc'[u] = pc[u] /\ loc'[u] = loc[u],
         \A q \in InPool : name'[q] = name[q] /\ (rc[q] = 0 => rc'[q] = 0)
  PROVE  WalkIsOn'
<1> SUFFICES ASSUME NEW u \in Threads, pc'[u] \in Looking \cup {"insert"}
             PROVE  /\ ToSet(loc'[u].list) \subseteq ToSet(ListFor(u)')
                    /\ pc'[u] = "insert" =>
                         \A q \in ToSet(ListFor(u)') \ ToSet(loc'[u].list) : Misses(u, q)'
  BY DEF WalkIsOn
<1>1. pc'[u] = pc[u] /\ loc'[u] = loc[u] /\ ListFor(u)' = ListFor(u)
  BY DEF ListFor
<1>2. loc[u].str \in Strings
  BY <1>1 DEF IInv, LocalsFit, Asking, Making, Looking
<1>3. ToSet(ListFor(u)) \subseteq InPool
  BY <1>2, PoolAccess DEF IInv, PoolHolds, IsAccess, ListFor, InPool
<1>4. ToSet(loc[u].list) \subseteq ToSet(ListFor(u))
  BY <1>1 DEF IInv, WalkIsOn
<1>5. ASSUME pc[u] = "insert", NEW q \in ToSet(ListFor(u)) \ ToSet(loc[u].list) PROVE Misses(u, q)'
  <2>1. Misses(u, q)
    BY <1>5 DEF IInv, WalkIsOn
  <2> QED BY <1>1, <1>3, <1>5, <2>1 DEF Misses
<1> QED BY <1>1, <1>4, <1>5

(* A client retains a symbol that it holds. *)
LEMMA RetainKeeps ==
  ASSUME IInv, NEW t \in Threads, NEW s \in Symbols, Retain(t, s)
  PROVE  IInv'
<1>1. /\ pc[t] = "idle" /\ held[t][s] \in 1 .. MaxHold - 1
      /\ rc' = [rc EXCEPT ![s] = rc[s] + 1] /\ held' = [held EXCEPT ![t][s] = @ + 1]
      /\ buckets' = buckets /\ count' = count /\ name' = name /\ place' = place /\ text' = text
      /\ readers' = readers /\ writer' = writer /\ pc' = pc /\ loc' = loc
  BY DEF Retain, Hold, table, gate
<1>2. rc[s] \in Nat /\ rc[s] > 0 /\ \A u \in Threads : loc[u].sym # s
  BY <1>1, HeldLives
<1>3. IsMore(held', held, t, s) /\ held \in Holdings
  <2>1. held \in Holdings /\ held[t][s] < MaxHold
    BY <1>1, ExactRefs DEF Holdings
  <2>2. IsMore([held EXCEPT ![t][s] = @ + 1], held, t, s)
    BY <2>1, MoreIsTyped
  <2> QED BY <1>1, <2>1, <2>2
<1>4. rc' \in [Symbols -> Nat] /\ rc'[s] = rc[s] + 1 /\ \A q \in Symbols : q # s => rc'[q] = rc[q]
  BY <1>1, <1>2 DEF IInv, Typed
<1>5. Typed'
  BY <1>1, <1>3, <1>4 DEF IInv, Typed, IsMore, Holdings
<1>6. GateIsHeld' /\ TextIsLeft'
  BY <1>1 DEF IInv, GateIsHeld, TextIsLeft, InPool
<1>7. LocalsFit'
  BY <1>1, <1>2, <1>4 DEF IInv, LocalsFit, IsMade, IsFreed, InPool
<1>8. WalkIsOn'
  <2>1. \A q \in InPool : name'[q] = name[q] /\ (rc[q] = 0 => rc'[q] = 0)
    BY <1>1, <1>2, <1>4, PoolAccess DEF IInv, PoolHolds, IsAccess, InPool
  <2> QED BY <1>1, <2>1, WalkStays
<1>9. RoomToHold'
  BY <1>1, <1>3 DEF IInv, RoomToHold, CanHold, IsMore, Asking, Making
<1>10. RefsAreExact'
  <2>1. IsCounted(held', held, s, 1)
    BY <1>3, MoreIsCounted
  <2>2. \A q \in Symbols : IsNew(q)' <=> IsNew(q)
    BY <1>1 DEF IsNew
  <2>3. \A q \in Symbols : rc[q] \in Nat
    BY DEF IInv, Typed
  <2>4. \A q \in Symbols : rc'[q] - (IF IsNew(q)' THEN 1 ELSE 0)
             = rc[q] - (IF IsNew(q) THEN 1 ELSE 0) + (IF q = s THEN 1 ELSE 0)
    BY <1>4, <2>2, <2>3
  <2> QED BY <1>4, <2>1, <2>4, RefsStayExact
<1>11. LivesInPool'
  BY <1>1, <1>2, <1>4 DEF IInv, LivesInPool, IsNew, InPool
<1>12. PoolHolds'
  <2>1. \A q \in SymbolsIn(buckets) : rc'[q] > 0 => rc[q] > 0
    BY <1>2, <1>4, PoolAccess DEF IInv, PoolHolds, IsAccess
  <2> QED BY <1>1, <2>1, PoolStays DEF IInv, PoolHolds
<1> QED BY <1>5, <1>6, <1>7, <1>8, <1>9, <1>10, <1>11, <1>12 DEF IInv


(* A client gives a reference back, and a symbol without any goes on to    *)
(* OSSymbol::free from where it is.                                        *)
LEMMA ReleaseKeeps ==
  ASSUME IInv, NEW t \in Threads, NEW s \in Symbols, Release(t, s)
  PROVE  IInv'
<1>1. /\ pc[t] = "idle" /\ held[t][s] > 0
      /\ rc' = [rc EXCEPT ![s] = rc[s] - 1] /\ held' = [held EXCEPT ![t][s] = @ - 1]
      /\ buckets' = buckets /\ count' = count /\ name' = name /\ place' = place /\ text' = text
      /\ readers' = readers /\ writer' = writer
  BY DEF Release, table, gate
<1>2. /\ rc[s] \in Nat /\ rc[s] > 0 /\ ~ IsNew(s) /\ (name[s] # None => s \in InPool)
      /\ \A u \in Threads : loc[u].sym # s
  BY <1>1, HeldLives
<1>3. IsMore(held, held', t, s) /\ held' \in Holdings /\ held \in Holdings
  <2>1. held \in Holdings
    BY ExactRefs
  <2> QED BY <1>1, <2>1, LessIsTyped
<1>4. rc' \in [Symbols -> Nat] /\ rc'[s] = rc[s] - 1 /\ \A q \in Symbols : q # s => rc'[q] = rc[q]
  BY <1>1, <1>2 DEF IInv, Typed
<1>5. OthersStay(t)
  BY DEF Release, Goto, IInv, Typed, OthersStay
<1>6. \/ rc[s] # 1 /\ pc' = pc /\ loc' = loc
      \/ /\ rc[s] = 1 /\ pc' = [pc EXCEPT ![t] = "free"] /\ loc' = [loc EXCEPT ![t].sym = s]
         /\ pc'[t] = "free" /\ loc'[t] = [NoLocals EXCEPT !.sym = s]
  <2>1. t \in DOMAIN pc /\ t \in DOMAIN loc
    BY DEF IInv, Typed
  <2>2. pc[t] = "idle" /\ loc[t] = NoLocals
    BY DEF Release, IInv, LocalsFit
  <2>3. CASE rc[s] = 1
    <3>1. pc' = [pc EXCEPT ![t] = "free"] /\ loc' = [loc EXCEPT ![t].sym = s]
      BY <2>3 DEF Release, Goto
    <3>2. pc'[t] = "free" /\ loc'[t] = [NoLocals EXCEPT !.sym = s]
      BY <2>1, <2>2, <3>1
    <3> QED BY <2>3, <3>1, <3>2
  <2>4. CASE rc[s] # 1
    BY <2>4 DEF Release
  <2> QED BY <2>3, <2>4
<1>7. Typed'
  <2>1. loc' \in [Threads -> LocalTypes]
    <3>1. loc \in [Threads -> LocalTypes]
      BY DEF IInv, Typed
    <3>2. [loc EXCEPT ![t].sym = s] \in [Threads -> LocalTypes]
      BY <3>1, LocalsTyped
    <3> QED BY <1>6, <3>1, <3>2
  <2>2. pc' \in [Threads -> {"idle", "with", "existing", "find", "findOnly", "new", "newInited",
                         "insert", "free", "remove", "unload", "checkPages", "unmap", "panic"}]
    BY <1>6 DEF IInv, Typed
  <2> QED BY <1>1, <1>3, <1>4, <2>1, <2>2 DEF IInv, Typed, Holdings
<1>8. GateIsHeld'
  BY <1>1, <1>5, <1>6 DEF IInv, GateIsHeld, OthersStay, Looking, Writing
<1>9. TextIsLeft'
  BY <1>1, <1>5, <1>6 DEF IInv, TextIsLeft, InPool, OthersStay, Unloading, NoLocals
<1>10. LocalsFit'
  <2>1. CASE rc[s] # 1
    <3>1. pc' = pc /\ loc' = loc
      BY <1>6, <2>1
    <3> QED BY <1>1, <1>2, <1>4, <3>1 DEF IInv, LocalsFit, IsMade, IsFreed, InPool
  <2>2. CASE rc[s] = 1
    <3>1. pc'[t] = "free" /\ loc'[t].sym = s /\ rc'[s] = 0
      BY <1>4, <1>6, <2>2 DEF NoLocals
    <3> QED BY <1>1, <1>2, <1>4, <1>5, <3>1
         DEF IInv, LocalsFit, IsMade, IsFreed, InPool, OthersStay, Making, Asking, Unloading, Freeing
  <2> QED BY <2>1, <2>2
<1>11. WalkIsOn'
  <2>1. \A u \in Threads : pc'[u] \in Looking \cup {"insert"} => pc'[u] = pc[u] /\ loc'[u] = loc[u]
    BY <1>5, <1>6 DEF OthersStay, Looking
  <2>2. \A q \in InPool : name'[q] = name[q] /\ (rc[q] = 0 => rc'[q] = 0)
    BY <1>1, <1>2, <1>4, PoolAccess DEF IInv, PoolHolds, IsAccess, InPool
  <2> QED BY <1>1, <2>1, <2>2, WalkStays
<1>12. RoomToHold'
  BY <1>1, <1>3, <1>5, <1>6 DEF IInv, RoomToHold, CanHold, IsMore, OthersStay, Asking, Making
<1>13. \A q \in Symbols : IsNew(q)' <=> IsNew(q)
  BY <1>1, <1>5, <1>6 DEF IsNew, OthersStay
<1>14. RefsAreExact'
  <2>1. IsCounted(held', held, s, -1)
    BY <1>3, LessIsCounted
  <2>2. \A q \in Symbols : rc[q] \in Nat
    BY DEF IInv, Typed
  <2>3. \A q \in Symbols : rc'[q] - (IF IsNew(q)' THEN 1 ELSE 0)
             = rc[q] - (IF IsNew(q) THEN 1 ELSE 0) + (IF q = s THEN -1 ELSE 0)
    BY <1>4, <1>13, <2>2
  <2> QED BY <1>4, <2>1, <2>3, RefsStayExact
<1>15. LivesInPool'
  BY <1>1, <1>2, <1>4, <1>13 DEF IInv, LivesInPool, InPool
<1>16. PoolHolds'
  <2>1. \A q \in SymbolsIn(buckets) : rc'[q] > 0 => rc[q] > 0
    BY <1>2, <1>4, PoolAccess DEF IInv, PoolHolds, IsAccess
  <2> QED BY <1>1, <2>1, PoolStays DEF IInv, PoolHolds
<1> QED BY <1>7, <1>8, <1>9, <1>10, <1>11, <1>12, <1>14, <1>15, <1>16 DEF IInv

(* Storage that is free has no references. *)
LEMMA FreeFacts ==
  ASSUME IInv, NEW s \in FreeStorage
  PROVE  /\ s \in Symbols /\ rc[s] = 0 /\ s \notin InPool /\ ~ IsNew(s)
         /\ \A u \in Threads : loc[u].sym # s /\ held[u][s] = 0
<1>1. s \in Symbols /\ rc[s] = 0 /\ s \notin InPool /\ \A u \in Threads : loc[u].sym # s
  BY DEF FreeStorage
<1>2. ~ IsNew(s)
  BY <1>1 DEF IsNew
<1>3. Cardinality(RefsOf(held, s)) = 0
  BY <1>1, <1>2, ExactRefs
<1> QED BY <1>1, <1>2, <1>3, ExactRefs

(* A new symbol belongs to the thread that makes it. *)
LEMMA NewSymbolKeeps ==
  ASSUME IInv, NEW t \in Threads, NewSymbol(t)
  PROVE  IInv'
<1>1. PICK s \in FreeStorage :
        /\ rc' = [rc EXCEPT ![s] = 1]
        /\ name' = [name EXCEPT ![s] = loc[t].str]
        /\ place' = [place EXCEPT ![s] = IF loc[t].copy THEN "heap" ELSE "text"]
        /\ loc' = [loc EXCEPT ![t].sym = s]
  BY DEF NewSymbol
<1>2. /\ pc[t] = "new" /\ pc' = [pc EXCEPT ![t] = "newInited"]
      /\ buckets' = buckets /\ count' = count /\ text' = text
      /\ readers' = readers /\ writer' = writer /\ held' = held
  BY DEF NewSymbol, Goto, table, gate
<1>3. /\ s \in Symbols /\ rc[s] = 0 /\ s \notin InPool /\ ~ IsNew(s)
      /\ \A u \in Threads : loc[u].sym # s /\ held[u][s] = 0
  BY FreeFacts
<1>4. loc[t].str \in Strings /\ loc[t].sym = None
  BY <1>2 DEF IInv, LocalsFit, Asking
<1>5. /\ pc'[t] = "newInited" /\ loc'[t].sym = s /\ loc'[t].str = loc[t].str
      /\ loc'[t].copy = loc[t].copy /\ loc'[t].list = loc[t].list
  BY <1>1, <1>2 DEF IInv, Typed, LocalTypes
<1>6. OthersStay(t)
  BY <1>1, <1>2 DEF IInv, Typed, OthersStay
<1>7. /\ rc'[s] = 1 /\ name'[s] = loc[t].str /\ (loc[t].copy => place'[s] = "heap")
      /\ \A q : q # s => rc'[q] = rc[q] /\ name'[q] = name[q] /\ place'[q] = place[q]
  <2>1. rc \in [Symbols -> Nat] /\ DOMAIN name = Symbols /\ DOMAIN place = Symbols
    BY DEF IInv, Typed
  <2> QED BY <1>1, <1>3, <2>1
<1>8. Typed'
  <2>1. loc' \in [Threads -> LocalTypes]
    BY <1>1, <1>3, LocalsTyped DEF IInv, Typed
  <2>2. rc' \in [Symbols -> Nat]
    BY <1>1 DEF IInv, Typed
  <2>3. name' \in [Symbols -> Strings \cup {None}] /\ place' \in [Symbols -> {"heap", "text"}]
    BY <1>1, <1>4 DEF IInv, Typed
  <2> QED BY <1>2, <2>1, <2>2, <2>3 DEF IInv, Typed
<1>9. GateIsHeld'
  BY <1>2, <1>5, <1>6 DEF IInv, GateIsHeld, OthersStay, Looking, Writing
<1>10. TextIsLeft'
  BY <1>2, <1>3, <1>5, <1>6, <1>7 DEF IInv, TextIsLeft, InPool, OthersStay, Unloading
<1>11. LocalsFit'
  BY <1>2, <1>3, <1>4, <1>5, <1>6, <1>7
     DEF IInv, LocalsFit, IsMade, IsFreed, InPool, OthersStay, Making, Asking, Unloading, Freeing
<1>12. WalkIsOn'
  <2>1. \A u \in Threads : pc'[u] \in Looking \cup {"insert"} => pc'[u] = pc[u] /\ loc'[u] = loc[u]
    BY <1>5, <1>6 DEF OthersStay, Looking
  <2>2. \A q \in InPool : name'[q] = name[q] /\ (rc[q] = 0 => rc'[q] = 0)
    BY <1>3, <1>7
  <2> QED BY <1>2, <2>1, <2>2, WalkStays
<1>13. RoomToHold'
  <2>1. \A u \in Threads : pc'[u] \in Asking \cup Making => pc[u] \in Asking \cup Making /\ loc'[u].str = loc[u].str
    BY <1>2, <1>5, <1>6 DEF OthersStay, Asking, Making
  <2> QED BY <1>2, <1>3, <1>7, <2>1 DEF IInv, RoomToHold, CanHold
<1>14. \A q \in Symbols : IsNew(q)' <=> IsNew(q) \/ q = s
  BY <1>2, <1>5, <1>6 DEF IsNew, OthersStay
<1>15. RefsAreExact'
  <2>1. IsCounted(held', held, s, 0)
    <3>1. ASSUME NEW q \in Symbols PROVE Cardinality(RefsOf(held, q)) \in Nat
      BY ExactRefs
    <3> QED BY <1>2, <3>1 DEF IsCounted
  <2>2. \A q \in Symbols : rc[q] \in Nat
    BY DEF IInv, Typed
  <2>3. \A q \in Symbols : rc'[q] - (IF IsNew(q)' THEN 1 ELSE 0)
             = rc[q] - (IF IsNew(q) THEN 1 ELSE 0) + (IF q = s THEN 0 ELSE 0)
    BY <1>3, <1>7, <1>14, <2>2
  <2>4. rc' \in [Symbols -> Nat]
    BY <1>8 DEF Typed
  <2> QED BY <1>3, <2>1, <2>3, <2>4, RefsStayExact
<1>16. LivesInPool'
  BY <1>2, <1>3, <1>7, <1>14 DEF IInv, LivesInPool, InPool
<1>17. PoolHolds'
  <2>1. \A q \in SymbolsIn(buckets) : name'[q] = name[q] /\ (rc'[q] > 0 => rc[q] > 0)
    BY <1>3, <1>7 DEF InPool
  <2> QED BY <1>2, <2>1, PoolStays DEF IInv, PoolHolds
<1> QED BY <1>8, <1>9, <1>10, <1>11, <1>12, <1>13, <1>15, <1>16, <1>17 DEF IInv

(* One that could not be initialised belongs to the caller. *)
LEMMA NewSymbolFailsKeeps ==
  ASSUME IInv, NEW t \in Threads, NewSymbolFails(t)
  PROVE  IInv'
<1>1. PICK s \in FreeStorage :
        /\ rc' = [rc EXCEPT ![s] = 1]
        /\ name' = [name EXCEPT ![s] = None]
        /\ held' = [held EXCEPT ![t][s] = @ + 1]
  BY DEF NewSymbolFails, Hold
<1>2. /\ pc[t] = "new" /\ pc' = [pc EXCEPT ![t] = "idle"] /\ loc' = [loc EXCEPT ![t] = NoLocals]
      /\ buckets' = buckets /\ count' = count /\ text' = text /\ place' = place
      /\ readers' = readers /\ writer' = writer
  BY DEF NewSymbolFails, Return, Goto, table, gate
<1>3. /\ s \in Symbols /\ rc[s] = 0 /\ s \notin InPool /\ ~ IsNew(s)
      /\ \A u \in Threads : loc[u].sym # s /\ held[u][s] = 0
  BY FreeFacts
<1>4. IsMore(held', held, t, s) /\ held \in Holdings
  <2>1. held \in Holdings /\ held[t][s] < MaxHold
    BY <1>3, ExactRefs
  <2>2. IsMore([held EXCEPT ![t][s] = @ + 1], held, t, s)
    BY <1>3, <2>1, MoreIsTyped
  <2> QED BY <1>1, <2>1, <2>2
<1>5. pc'[t] = "idle" /\ loc'[t] = NoLocals /\ NoLocals.sym = None /\ NoLocals.copy
  BY <1>2 DEF IInv, Typed, NoLocals
<1>6. OthersStay(t)
  BY <1>2 DEF IInv, Typed, OthersStay
<1>7. /\ rc'[s] = 1 /\ name'[s] = None
      /\ \A q : q # s => rc'[q] = rc[q] /\ name'[q] = name[q]
  <2>1. rc \in [Symbols -> Nat] /\ DOMAIN name = Symbols
    BY DEF IInv, Typed
  <2> QED BY <1>1, <1>3, <2>1
<1>8. Typed'
  <2>1. loc' \in [Threads -> LocalTypes]
    BY <1>2, LocalsTyped DEF IInv, Typed
  <2>2. rc' \in [Symbols -> Nat]
    BY <1>1 DEF IInv, Typed
  <2>3. name' \in [Symbols -> Strings \cup {None}]
    BY <1>1 DEF IInv, Typed
  <2> QED BY <1>2, <1>4, <2>1, <2>2, <2>3 DEF IInv, Typed, IsMore, Holdings
<1>9. GateIsHeld'
  BY <1>2, <1>5, <1>6 DEF IInv, GateIsHeld, OthersStay, Looking, Writing
<1>10. TextIsLeft'
  BY <1>2, <1>5, <1>6 DEF IInv, TextIsLeft, InPool, OthersStay, Unloading
<1>11. LocalsFit'
  BY <1>2, <1>3, <1>5, <1>6, <1>7
     DEF IInv, LocalsFit, IsMade, IsFreed, InPool, OthersStay, Making, Asking, Unloading, Freeing
<1>12. WalkIsOn'
  <2>1. \A u \in Threads : pc'[u] \in Looking \cup {"insert"} => pc'[u] = pc[u] /\ loc'[u] = loc[u]
    BY <1>5, <1>6 DEF OthersStay, Looking
  <2>2. \A q \in InPool : name'[q] = name[q] /\ (rc[q] = 0 => rc'[q] = 0)
    BY <1>3, <1>7
  <2> QED BY <1>2, <2>1, <2>2, WalkStays
<1>13. RoomToHold'
  <2>1. \A u \in Threads : pc'[u] \in Asking \cup Making => u # t
    BY <1>5 DEF Asking, Making
  <2>2. \A u \in Threads : u # t => \A q \in Symbols : held'[u][q] = held[u][q]
    BY <1>4 DEF IsMore
  <2>3. \A u \in Threads : pc[u] \in Asking \cup Making => loc[u].str # None
    BY DEF IInv, LocalsFit
  <2>4. \A q \in Symbols : name'[q] = name[q] \/ name'[q] = None
    BY <1>7
  <2> QED BY <1>6, <2>1, <2>2, <2>3, <2>4 DEF IInv, RoomToHold, CanHold, OthersStay
<1>14. \A q \in Symbols : IsNew(q)' <=> IsNew(q)
  BY <1>2, <1>5, <1>6 DEF IsNew, OthersStay
<1>15. RefsAreExact'
  <2>1. IsCounted(held', held, s, 1)
    BY <1>3, <1>4, MoreIsCounted
  <2>2. \A q \in Symbols : rc[q] \in Nat
    BY DEF IInv, Typed
  <2>3. \A q \in Symbols : rc'[q] - (IF IsNew(q)' THEN 1 ELSE 0)
             = rc[q] - (IF IsNew(q) THEN 1 ELSE 0) + (IF q = s THEN 1 ELSE 0)
    BY <1>3, <1>7, <1>14, <2>2
  <2>4. rc' \in [Symbols -> Nat]
    BY <1>8 DEF Typed
  <2> QED BY <1>3, <2>1, <2>3, <2>4, RefsStayExact
<1>16. LivesInPool'
  BY <1>2, <1>3, <1>7, <1>14 DEF IInv, LivesInPool, InPool
<1>17. PoolHolds'
  <2>1. \A q \in SymbolsIn(buckets) : name'[q] = name[q] /\ (rc'[q] > 0 => rc[q] > 0)
    BY <1>3, <1>7 DEF InPool
  <2> QED BY <1>2, <2>1, PoolStays DEF IInv, PoolHolds
<1> QED BY <1>8, <1>9, <1>10, <1>11, <1>12, <1>13, <1>15, <1>16, <1>17 DEF IInv

(* A probe that matches retains a symbol of the pool; a copy that is not   *)
(* needed then goes.                                                       *)
LEMMA ProbeHitKeeps ==
  ASSUME IInv, NEW t \in Threads, ProbeHit(t)
  PROVE  IInv'
<1>1. PICK s, d : s = Head(loc[t].list) /\ d = loc[t].sym
  OBVIOUS
<1>2. /\ pc[t] \in Probing /\ loc[t].list # <<>> /\ ~ Misses(t, s)
      /\ rc' = [q \in Symbols |-> IF q = s THEN rc[s] + 1 ELSE IF q \in {d} THEN 0 ELSE rc[q]]
      /\ held' = [held EXCEPT ![t][s] = @ + 1]
      /\ name' = [q \in Symbols |-> IF q \in {d} THEN None ELSE name[q]]
      /\ place' = [q \in Symbols |-> IF q \in {d} THEN "heap" ELSE place[q]]
      /\ pc' = [pc EXCEPT ![t] = "idle"] /\ loc' = [loc EXCEPT ![t] = NoLocals]
      /\ buckets' = buckets /\ count' = count /\ text' = text
  BY <1>1 DEF ProbeHit, HitAndDrop, Hold, Return, Goto, table
<1>3. \/ pc[t] = "insert" /\ writer' = None /\ readers' = readers
      \/ pc[t] \in Looking /\ readers' = readers \ {t} /\ writer' = writer
  BY DEF ProbeHit, HitAndDrop, Probing, Looking, OpenReadGate, OpenWriteGate
<1>4. loc[t].str \in Strings /\ CanHold(t, loc[t].str)
  BY <1>2 DEF IInv, LocalsFit, RoomToHold, Asking, Making, Probing
<1>5. s \in InPool /\ s \in Symbols
  <2>1. s \in ToSet(loc[t].list)
    <3>1. loc[t].list \in Seq(Symbols)
      BY DEF IInv, Typed, LocalTypes
    <3> QED BY <1>1, <1>2, <3>1, HeadAndTail
  <2>2. s \in ToSet(ListFor(t))
    BY <1>2, <2>1 DEF IInv, WalkIsOn, Looking, Probing
  <2> QED BY <1>4, <2>2, PoolAccess DEF IInv, PoolHolds, IsAccess, ListFor, InPool
<1>6. name[s] = loc[t].str /\ rc[s] \in Nat /\ rc[s] > 0
  BY <1>2, <1>5 DEF Misses, IInv, Typed
<1>7. \/ pc[t] = "insert" /\ d \in Symbols /\ rc[d] = 1 /\ IsNew(d)
      \/ pc[t] \in Looking /\ d = None
  BY <1>1, <1>2 DEF IInv, LocalsFit, IsMade, IsNew, Making, Asking, Probing, Looking
<1>8. d # s /\ d \notin InPool
  <2>1. None \notin InPool
    BY PoolAccess DEF IInv, PoolHolds, IsAccess, InPool
  <2>2. d \in Symbols /\ IsNew(d) => d \notin InPool
    BY ExactRefs
  <2> QED BY <1>5, <1>7, <2>1, <2>2
<1>9. ASSUME NEW u \in Threads, u # t PROVE loc[u].sym = d => d = None
  BY <1>1, <1>9 DEF IInv, LocalsFit
<1>10. IsMore(held', held, t, s) /\ held \in Holdings
  <2>1. held \in Holdings /\ held[t][s] < MaxHold
    BY <1>4, <1>5, <1>6, ExactRefs DEF CanHold
  <2>2. IsMore([held EXCEPT ![t][s] = @ + 1], held, t, s)
    BY <1>5, <2>1, MoreIsTyped
  <2> QED BY <1>2, <2>1, <2>2
<1>11. pc'[t] = "idle" /\ loc'[t] = NoLocals /\ NoLocals.sym = None /\ NoLocals.copy
  BY <1>2 DEF IInv, Typed, NoLocals
<1>12. OthersStay(t)
  BY <1>2 DEF IInv, Typed, OthersStay
<1>13. /\ rc'[s] = rc[s] + 1 /\ (d \in Symbols => rc'[d] = 0 /\ name'[d] = None)
       /\ \A q \in Symbols : q # s /\ q # d => rc'[q] = rc[q]
       /\ \A q \in Symbols : q # d => name'[q] = name[q] /\ place'[q] = place[q]
  BY <1>2, <1>5, <1>8
<1>14. Typed'
  <2>1. loc' \in [Threads -> LocalTypes]
    BY <1>2, LocalsTyped DEF IInv, Typed
  <2>2. rc' \in [Symbols -> Nat]
    BY <1>2, <1>6 DEF IInv, Typed
  <2>3. name' \in [Symbols -> Strings \cup {None}] /\ place' \in [Symbols -> {"heap", "text"}]
    BY <1>2 DEF IInv, Typed
  <2>4. readers' \subseteq Threads /\ writer' \in Threads \cup {None}
    BY <1>3 DEF IInv, Typed
  <2>5. pc' \in [Threads -> {"idle", "with", "existing", "find", "findOnly", "new", "newInited",
                         "insert", "free", "remove", "unload", "checkPages", "unmap", "panic"}]
    BY <1>2 DEF IInv, Typed
  <2> QED BY <1>2, <1>10, <2>1, <2>2, <2>3, <2>4, <2>5 DEF IInv, Typed, IsMore, Holdings
<1>15. GateIsHeld'
  <2>1. pc[t] = "insert" => writer = t
    BY DEF IInv, GateIsHeld, Writing
  <2> QED BY <1>3, <1>11, <1>12, <2>1 DEF IInv, Typed, GateIsHeld, OthersStay, Looking, Writing
<1>16. TextIsLeft'
  <2>1. \A q \in InPool : place'[q] = place[q]
    BY <1>8, <1>13, PoolAccess DEF IInv, PoolHolds, IsAccess, InPool
  <2> QED BY <1>2, <1>11, <1>12, <2>1 DEF IInv, TextIsLeft, InPool, OthersStay, Unloading
<1>17. LocalsFit'
  <2>1. ASSUME NEW u \in Threads, u # t, pc[u] \in Making PROVE IsMade(u, loc[u].sym)'
    <3>1. IsMade(u, loc[u].sym)
      BY <2>1 DEF IInv, LocalsFit
    <3>2. loc[u].sym \in Symbols /\ loc[u].sym # s /\ loc[u].sym # d
      BY <1>5, <1>9, <2>1, <3>1 DEF IsMade
    <3> QED BY <1>2, <1>12, <1>13, <2>1, <3>1, <3>2 DEF IsMade, InPool, OthersStay
  <2>2. ASSUME NEW u \in Threads, u # t, pc[u] \in Freeing PROVE IsFreed(loc[u].sym)'
    <3>1. IsFreed(loc[u].sym)
      BY <2>2 DEF IInv, LocalsFit
    <3>2. loc[u].sym \in Symbols /\ loc[u].sym # s /\ loc[u].sym # d
      BY <1>6, <1>9, <2>2, <3>1 DEF IsFreed
    <3> QED BY <1>2, <1>12, <1>13, <2>2, <3>1, <3>2 DEF IsFreed, InPool, OthersStay
  <2> QED BY <1>11, <1>12, <2>1, <2>2 DEF IInv, LocalsFit, OthersStay, Making, Asking, Unloading,
         Freeing
<1>18. WalkIsOn'
  <2>1. \A u \in Threads : pc'[u] \in Looking \cup {"insert"} => pc'[u] = pc[u] /\ loc'[u] = loc[u]
    BY <1>11, <1>12 DEF OthersStay, Looking
  <2>2. \A q \in InPool : name'[q] = name[q] /\ (rc[q] = 0 => rc'[q] = 0)
    BY <1>6, <1>8, <1>13, PoolAccess DEF IInv, PoolHolds, IsAccess, InPool
  <2> QED BY <1>2, <2>1, <2>2, WalkStays
<1>19. RoomToHold'
  <2>1. \A u \in Threads : pc'[u] \in Asking \cup Making => u # t
    BY <1>11 DEF Asking, Making
  <2>2. \A u \in Threads : u # t => \A q \in Symbols : held'[u][q] = held[u][q]
    BY <1>10 DEF IsMore
  <2>3. \A u \in Threads : pc[u] \in Asking \cup Making => loc[u].str # None
    BY DEF IInv, LocalsFit
  <2>4. \A q \in Symbols : name'[q] = name[q] \/ name'[q] = None
    BY <1>13
  <2> QED BY <1>12, <2>1, <2>2, <2>3, <2>4 DEF IInv, RoomToHold, CanHold, OthersStay
<1>20. \A q \in Symbols : IsNew(q)' <=> IsNew(q) /\ q # d
  <2>1. ASSUME NEW q \in Symbols, IsNew(q)' PROVE IsNew(q) /\ q # d
    <3>1. PICK u \in Threads : pc'[u] \in {"newInited", "insert"} /\ loc'[u].sym = q
      BY <2>1 DEF IsNew
    <3>2. u # t
      BY <1>11, <3>1
    <3> QED BY <1>9, <1>12, <3>1, <3>2 DEF IsNew, OthersStay
  <2>2. ASSUME NEW q \in Symbols, IsNew(q), q # d PROVE IsNew(q)'
    <3>1. PICK u \in Threads : pc[u] \in {"newInited", "insert"} /\ loc[u].sym = q
      BY <2>2 DEF IsNew
    <3>2. u # t
      BY <1>1, <2>2, <3>1
    <3> QED BY <1>12, <3>1, <3>2 DEF IsNew, OthersStay
  <2> QED BY <2>1, <2>2
<1>21. RefsAreExact'
  <2>1. IsCounted(held', held, s, 1)
    BY <1>5, <1>10, MoreIsCounted
  <2>2. \A q \in Symbols : rc[q] \in Nat
    BY DEF IInv, Typed
  <2>3. \A q \in Symbols : rc'[q] - (IF IsNew(q)' THEN 1 ELSE 0)
             = rc[q] - (IF IsNew(q) THEN 1 ELSE 0) + (IF q = s THEN 1 ELSE 0)
    BY <1>7, <1>8, <1>13, <1>20, <2>2
  <2>4. rc' \in [Symbols -> Nat]
    BY <1>14 DEF Typed
  <2> QED BY <1>5, <2>1, <2>3, <2>4, RefsStayExact
<1>22. LivesInPool'
  BY <1>2, <1>5, <1>13, <1>20 DEF IInv, LivesInPool, InPool
<1>23. PoolHolds'
  <2>1. \A q \in SymbolsIn(buckets) : name'[q] = name[q] /\ (rc'[q] > 0 => rc[q] > 0)
    BY <1>6, <1>8, <1>13, PoolAccess DEF IInv, PoolHolds, IsAccess, InPool
  <2> QED BY <1>2, <2>1, PoolStays DEF IInv, PoolHolds
<1> QED BY <1>14, <1>15, <1>16, <1>17, <1>18, <1>19, <1>21, <1>22, <1>23 DEF IInv

(* The new symbol goes into the pool, and the gate opens. *)
LEMMA InsertKeeps ==
  ASSUME IInv, NEW t \in Threads, Insert(t)
  PROVE  IInv'
<1>1. PICK s : s = loc[t].sym
  OBVIOUS
<1>2. /\ pc[t] = "insert" /\ pc' = [pc EXCEPT ![t] = "idle"] /\ loc' = [loc EXCEPT ![t] = NoLocals]
      /\ held' = [held EXCEPT ![t][s] = @ + 1]
      /\ name' = name /\ place' = place /\ text' = text
      /\ readers' = readers /\ writer' = None
  BY <1>1 DEF Insert, InsertAs, Hold, Return, Goto, OpenWriteGate
<1>3. rc' = rc /\ SoundPool(buckets', count', name, rc) /\ InPool' = InPool \cup {s}
  BY <1>1, InsertEffect DEF InPool
<1>4. /\ loc[t].str \in Strings /\ CanHold(t, loc[t].str)
      /\ s \in Symbols /\ name[s] = loc[t].str /\ rc[s] = 1 /\ IsNew(s)
      /\ loc[t].copy => place[s] = "heap"
  BY <1>1, <1>2 DEF IInv, LocalsFit, RoomToHold, IsMade, IsNew, Asking, Making
<1>5. ASSUME NEW u \in Threads, u # t PROVE loc[u].sym # s
  BY <1>1, <1>4, <1>5 DEF IInv, LocalsFit
<1>6. IsMore(held', held, t, s) /\ held \in Holdings
  <2>1. held \in Holdings /\ held[t][s] < MaxHold
    BY <1>4, ExactRefs DEF CanHold
  <2>2. IsMore([held EXCEPT ![t][s] = @ + 1], held, t, s)
    BY <1>4, <2>1, MoreIsTyped
  <2> QED BY <1>2, <2>1, <2>2
<1>7. pc'[t] = "idle" /\ loc'[t] = NoLocals /\ NoLocals.sym = None /\ NoLocals.copy
  BY <1>2 DEF IInv, Typed, NoLocals
<1>8. OthersStay(t)
  BY <1>2 DEF IInv, Typed, OthersStay
<1>9. /\ writer = t /\ readers = {}
      /\ \A u \in Threads : u # t => pc[u] \notin Looking \cup Writing
  BY <1>2 DEF IInv, Typed, GateIsHeld, Looking, Writing
<1>10. Typed'
  <2>1. loc' \in [Threads -> LocalTypes]
    BY <1>2, LocalsTyped DEF IInv, Typed
  <2>2. pc' \in [Threads -> {"idle", "with", "existing", "find", "findOnly", "new", "newInited",
                         "insert", "free", "remove", "unload", "checkPages", "unmap", "panic"}]
    BY <1>2 DEF IInv, Typed
  <2> QED BY <1>2, <1>3, <1>6, <2>1, <2>2 DEF IInv, Typed, IsMore, Holdings
<1>11. GateIsHeld'
  BY <1>2, <1>7, <1>8, <1>9 DEF IInv, GateIsHeld, OthersStay, Looking, Writing
<1>12. TextIsLeft'
  <2>1. text = "mapped" \/ place[s] = "heap"
    BY <1>4 DEF IInv, TextIsLeft
  <2>2. ASSUME text' = "unmapped" \/ \E u \in Threads : pc'[u] = "unmap"
        PROVE  \A q \in InPool' : place'[q] = "heap"
    <3>1. text # "mapped" /\ (text = "unmapped" \/ \E u \in Threads : pc[u] = "unmap")
      BY <1>2, <1>7, <1>8, <2>2 DEF IInv, TextIsLeft, Unloading, OthersStay
    <3> QED BY <1>2, <1>3, <2>1, <3>1 DEF IInv, TextIsLeft
  <2> QED BY <1>2, <1>7, <1>8, <2>2 DEF IInv, TextIsLeft, OthersStay, Unloading
<1>13. LocalsFit'
  BY <1>2, <1>3, <1>5, <1>7, <1>8
     DEF IInv, LocalsFit, IsMade, IsFreed, OthersStay, Making, Asking, Unloading, Freeing
<1>14. WalkIsOn'
  BY <1>7, <1>8, <1>9 DEF WalkIsOn, OthersStay, Looking, Writing
<1>15. RoomToHold'
  <2>1. \A u \in Threads : pc'[u] \in Asking \cup Making => u # t
    BY <1>7 DEF Asking, Making
  <2>2. \A u \in Threads : u # t => \A q \in Symbols : held'[u][q] = held[u][q]
    BY <1>6 DEF IsMore
  <2> QED BY <1>2, <1>8, <2>1, <2>2 DEF IInv, RoomToHold, CanHold, OthersStay
<1>16. \A q \in Symbols : IsNew(q)' <=> IsNew(q) /\ q # s
  <2>1. ASSUME NEW q \in Symbols, IsNew(q)' PROVE IsNew(q) /\ q # s
    <3>1. PICK u \in Threads : pc'[u] \in {"newInited", "insert"} /\ loc'[u].sym = q
      BY <2>1 DEF IsNew
    <3>2. u # t
      BY <1>7, <3>1
    <3> QED BY <1>5, <1>8, <3>1, <3>2 DEF IsNew, OthersStay
  <2>2. ASSUME NEW q \in Symbols, IsNew(q), q # s PROVE IsNew(q)'
    <3>1. PICK u \in Threads : pc[u] \in {"newInited", "insert"} /\ loc[u].sym = q
      BY <2>2 DEF IsNew
    <3>2. u # t
      BY <1>1, <2>2, <3>1
    <3> QED BY <1>8, <3>1, <3>2 DEF IsNew, OthersStay
  <2> QED BY <2>1, <2>2
<1>17. RefsAreExact'
  <2>1. IsCounted(held', held, s, 1)
    BY <1>4, <1>6, MoreIsCounted
  <2>2. \A q \in Symbols : rc[q] \in Nat
    BY DEF IInv, Typed
  <2>3. \A q \in Symbols : rc'[q] - (IF IsNew(q)' THEN 1 ELSE 0)
             = rc[q] - (IF IsNew(q) THEN 1 ELSE 0) + (IF q = s THEN 1 ELSE 0)
    BY <1>3, <1>4, <1>16, <2>2
  <2>4. rc' \in [Symbols -> Nat]
    BY <1>10 DEF Typed
  <2> QED BY <1>4, <2>1, <2>3, <2>4, RefsStayExact
<1>18. LivesInPool'
  BY <1>2, <1>3, <1>16 DEF IInv, LivesInPool
<1>19. PoolHolds'
  BY <1>2, <1>3 DEF PoolHolds
<1> QED BY <1>10, <1>11, <1>12, <1>13, <1>14, <1>15, <1>17, <1>18, <1>19 DEF IInv

(* A dying symbol goes out of the pool, and its storage is free. *)
LEMMA RemoveSymbolKeeps ==
  ASSUME IInv, NEW t \in Threads, RemoveSymbol(t)
  PROVE  IInv'
<1>1. PICK s : s = loc[t].sym
  OBVIOUS
<1>2. /\ pc[t] = "remove" /\ pc' = [pc EXCEPT ![t] = "idle"] /\ loc' = [loc EXCEPT ![t] = NoLocals]
      /\ held' = held /\ text' = text /\ readers' = readers /\ writer' = None
  BY DEF RemoveSymbol, Return, Goto, OpenWriteGate
<1>3. /\ rc' = rc /\ SoundPool(buckets', count', name, rc) /\ s \in InPool /\ InPool' = InPool \ {s}
      /\ name' = [name EXCEPT ![s] = None] /\ place' = [place EXCEPT ![s] = "heap"]
  BY <1>1, RemoveEffect DEF InPool
<1>4. s \in Symbols /\ rc[s] = 0
  BY <1>1, <1>2 DEF IInv, LocalsFit, IsFreed, Freeing
<1>5. ASSUME NEW u \in Threads, u # t PROVE loc[u].sym # s
  BY <1>1, <1>4, <1>5 DEF IInv, LocalsFit
<1>6. pc'[t] = "idle" /\ loc'[t] = NoLocals /\ NoLocals.sym = None /\ NoLocals.copy
  BY <1>2 DEF IInv, Typed, NoLocals
<1>7. OthersStay(t)
  BY <1>2 DEF IInv, Typed, OthersStay
<1>8. /\ writer = t /\ readers = {}
      /\ \A u \in Threads : u # t => pc[u] \notin Looking \cup Writing
  BY <1>2 DEF IInv, Typed, GateIsHeld, Looking, Writing
<1>9. /\ name'[s] = None /\ place'[s] = "heap"
      /\ \A q : q # s => name'[q] = name[q] /\ place'[q] = place[q]
  <2>1. DOMAIN name = Symbols /\ DOMAIN place = Symbols
    BY DEF IInv, Typed
  <2> QED BY <1>3, <1>4, <2>1
<1>10. Typed'
  <2>1. loc' \in [Threads -> LocalTypes]
    BY <1>2, LocalsTyped DEF IInv, Typed
  <2>2. pc' \in [Threads -> {"idle", "with", "existing", "find", "findOnly", "new", "newInited",
                         "insert", "free", "remove", "unload", "checkPages", "unmap", "panic"}]
    BY <1>2 DEF IInv, Typed
  <2>3. name' \in [Symbols -> Strings \cup {None}] /\ place' \in [Symbols -> {"heap", "text"}]
    BY <1>3 DEF IInv, Typed
  <2> QED BY <1>2, <1>3, <2>1, <2>2, <2>3 DEF IInv, Typed
<1>11. GateIsHeld'
  BY <1>2, <1>6, <1>7, <1>8 DEF IInv, GateIsHeld, OthersStay, Looking, Writing
<1>12. TextIsLeft'
  <2>1. \A q \in InPool' : q \in InPool /\ place'[q] = place[q]
    BY <1>3, <1>9
  <2> QED BY <1>2, <1>6, <1>7, <2>1 DEF IInv, TextIsLeft, OthersStay, Unloading
<1>13. LocalsFit'
  <2>1. ASSUME NEW u \in Threads, u # t, pc[u] \in Making PROVE IsMade(u, loc[u].sym)'
    <3>1. IsMade(u, loc[u].sym)
      BY <2>1 DEF IInv, LocalsFit
    <3> QED BY <1>3, <1>5, <1>7, <1>9, <2>1, <3>1 DEF IsMade, OthersStay
  <2>2. ASSUME NEW u \in Threads, u # t, pc[u] \in Freeing PROVE IsFreed(loc[u].sym)'
    <3>1. IsFreed(loc[u].sym)
      BY <2>2 DEF IInv, LocalsFit
    <3> QED BY <1>3, <1>5, <1>7, <1>9, <2>2, <3>1 DEF IsFreed, OthersStay
  <2> QED BY <1>6, <1>7, <2>1, <2>2 DEF IInv, LocalsFit, OthersStay, Making, Asking, Unloading, Freeing
<1>14. WalkIsOn'
  BY <1>6, <1>7, <1>8 DEF WalkIsOn, OthersStay, Looking, Writing
<1>15. RoomToHold'
  <2>1. \A u \in Threads : pc'[u] \in Asking \cup Making => u # t
    BY <1>6 DEF Asking, Making
  <2>2. \A u \in Threads : pc[u] \in Asking \cup Making => loc[u].str # None
    BY DEF IInv, LocalsFit
  <2> QED BY <1>2, <1>7, <1>9, <2>1, <2>2 DEF IInv, RoomToHold, CanHold, OthersStay
<1>16. \A q \in Symbols : IsNew(q)' <=> IsNew(q)
  BY <1>2, <1>6, <1>7 DEF IsNew, OthersStay
<1>17. RefsAreExact'
  BY <1>2, <1>3, <1>16 DEF IInv, RefsAreExact, NoLeakedRetain, Refs
<1>18. LivesInPool'
  BY <1>3, <1>4, <1>9, <1>16 DEF IInv, LivesInPool
<1>19. PoolHolds'
  <2>1. \A q \in SymbolsIn(buckets') : name'[q] = name[q] /\ (rc'[q] > 0 => rc[q] > 0)
    BY <1>3, <1>9 DEF InPool
  <2>2. SoundPool(buckets', count', name', rc')
    BY <1>3, <2>1, PoolStays
  <2> QED BY <2>2 DEF PoolHolds
<1> QED BY <1>10, <1>11, <1>12, <1>13, <1>14, <1>15, <1>17, <1>18, <1>19 DEF IInv

-----------------------------------------------------------------------------
(* The theorems.                                                           *)

LEMMA InitHolds == Init => IInv
<1> SUFFICES ASSUME Init PROVE IInv
  OBVIOUS
<1> USE DEF Init
<1>1. DOMAIN buckets = 0 .. InitialBuckets - 1 /\ \A i \in DOMAIN buckets : DOMAIN buckets[i] = {}
  OBVIOUS
<1>2. buckets \in Arrays(InitialBuckets)
  <2>1. <<>> \in Seq(Symbols)
    OBVIOUS
  <2> QED BY <2>1 DEF Arrays
<1>3. IsPoolSize(InitialBuckets)
  <2>1. 0 \in 0 .. InitialBuckets
    OBVIOUS
  <2> QED BY <2>1, PoolSizeFacts DEF IsPoolSize
<1>4. InPool = {}
  BY <1>1, <1>2, SymbolsInFacts DEF InPool
<1>5. PoolHolds
  <2>1. IsFiniteSet(SymbolsIn(buckets)) /\ count = Cardinality(SymbolsIn(buckets))
    BY <1>4, FS_EmptySet DEF InPool
  <2>2. EntriesDiffer(buckets)
    BY <1>1 DEF EntriesDiffer
  <2> QED BY <1>1, <1>2, <1>3, <2>1, <2>2 DEF PoolHolds, SoundPool
<1>6. NoLocals \in LocalTypes /\ NoLocals.sym = None /\ NoLocals.copy
  <2>1. <<>> \in Seq(Symbols)
    OBVIOUS
  <2> QED BY <2>1 DEF NoLocals, LocalTypes
<1>7. Typed
  BY <1>6 DEF Typed
<1>8. GateIsHeld /\ LocalsFit /\ WalkIsOn /\ RoomToHold /\ LivesInPool /\ TextIsLeft
  BY <1>6 DEF GateIsHeld, LocalsFit, WalkIsOn, RoomToHold, LivesInPool, TextIsLeft, Looking, Writing,
              Asking, Making, Freeing, Unloading
<1>9. RefsAreExact
  <2> SUFFICES ASSUME NEW s \in Symbols
               PROVE  /\ IsFiniteSet(Refs(s))
                      /\ rc[s] = Cardinality(Refs(s)) + (IF IsNew(s) THEN 1 ELSE 0)
    BY DEF RefsAreExact, NoLeakedRetain
  <2>1. Refs(s) = {}
    BY DEF Refs
  <2>2. ~ IsNew(s)
    BY DEF IsNew
  <2> QED BY <2>1, <2>2, FS_EmptySet
<1> QED BY <1>5, <1>7, <1>8, <1>9 DEF IInv

LEMMA NextKeeps == IInv /\ [Next]_vars => IInv'
<1> SUFFICES ASSUME IInv, [Next]_vars PROVE IInv'
  OBVIOUS
<1>1. ASSUME NEW t \in Threads, Call(t) PROVE IInv'
  <2>1. CASE \E x \in Strings : WithCString(t, x) \/ WithCStringNoCopy(t, x) \/ ExistingSymbolForCString(t, x)
    <3>1. Quiet(t)
      BY <2>1 DEF Quiet, Asks, WithCString, WithCStringNoCopy, ExistingSymbolForCString
    <3> QED BY <3>1, QuietKeeps
  <2>2. CASE \E s \in Symbols : Retain(t, s) \/ Release(t, s)
    BY <2>2, RetainKeeps, ReleaseKeeps
  <2>3. CASE Unload(t)
    BY <2>3, QuietKeeps DEF Quiet
  <2> QED BY <1>1, <2>1, <2>2, <2>3 DEF Call
<1>2. ASSUME NEW t \in Threads, Enter(t) PROVE IInv'
  BY <1>2, QuietKeeps DEF Enter, Quiet
<1>3. ASSUME NEW t \in Threads, Inside(t) PROVE IInv'
  <2>1. CASE ProbeNext(t) \/ FindFails(t) \/ RemovePanics(t) \/ CheckForPageUnload(t) \/ Unmap(t)
    BY <2>1, QuietKeeps DEF Quiet
  <2>2. CASE ProbeHit(t) \/ NewSymbol(t) \/ NewSymbolFails(t) \/ Insert(t) \/ RemoveSymbol(t)
    BY <2>2, ProbeHitKeeps, NewSymbolKeeps, NewSymbolFailsKeeps, InsertKeeps, RemoveSymbolKeeps
  <2> QED BY <1>3, <2>1, <2>2 DEF Inside
<1>4. ASSUME UNCHANGED vars PROVE IInv'
  <2> USE <1>4 DEF vars, IInv
  <2>1. Typed' /\ GateIsHeld' /\ RoomToHold' /\ PoolHolds'
    BY DEF Typed, GateIsHeld, RoomToHold, CanHold, PoolHolds
  <2>2. LocalsFit' /\ TextIsLeft' /\ LivesInPool'
    BY DEF LocalsFit, IsMade, IsFreed, TextIsLeft, LivesInPool, IsNew, InPool
  <2>3. WalkIsOn' /\ RefsAreExact'
    BY DEF WalkIsOn, Misses, ListFor, RefsAreExact, NoLeakedRetain, Refs, IsNew
  <2> QED BY <2>1, <2>2, <2>3
<1> QED BY <1>1, <1>2, <1>3, <1>4 DEF Next

(* In every state the invariant holds. *)
THEOREM Invariance == Spec => []IInv
BY InitHolds, NextKeeps, PTL DEF Spec

LEMMA TypesFollow == IInv => TypeOK
<1> SUFFICES ASSUME IInv PROVE TypeOK
  OBVIOUS
<1>1. PICK n \in Nat : IsPoolSize(n) /\ buckets \in Arrays(n)
  BY DEF IInv, PoolHolds, SoundPool
<1>2. n \in Nat \ {0}
  BY <1>1, SizesAround
<1>3. nBuckets = n
  BY <1>1, <1>2, SizeFacts DEF nBuckets, Arrays
<1>4. count \in Nat
  BY FS_CardinalityType DEF IInv, PoolHolds, SoundPool
<1> QED BY <1>1, <1>3, <1>4 DEF TypeOK, IInv, Typed, Arrays, LocalTypes

LEMMA SoundFollows == IInv => PoolIsSound
<1> SUFFICES ASSUME IInv PROVE PoolIsSound
  OBVIOUS
<1>1. IsPoolSize(nBuckets)
  BY TypesFollow DEF TypeOK
<1> QED BY <1>1 DEF PoolIsSound, IInv, PoolHolds, SoundPool, InPool, AtTheirHash, LiveInFront

(* Every variable keeps its type. *)
THEOREM Typing == Spec => []TypeOK
BY Invariance, TypesFollow, PTL

(* The pool counts its symbols, has each once where its string hashes to,  *)
(* and never a live one behind a dying one with its string, whatever       *)
(* threads look up, insert, free and rehash at the same time.              *)
THEOREM SoundTables == Spec => []PoolIsSound
BY Invariance, SoundFollows, PTL

(* The retain count of a symbol is the number of references to it. *)
THEOREM ExactRetains == Spec => []NoLeakedRetain
<1>1. IInv => NoLeakedRetain
  BY DEF IInv, RefsAreExact
<1> QED BY <1>1, Invariance, PTL

(* No symbol of the pool has its characters in text that is gone. *)
THEOREM TextStays == Spec => []NoDanglingText
<1>1. IInv => NoDanglingText
  BY DEF IInv, TextIsLeft, NoDanglingText
<1> QED BY <1>1, Invariance, PTL

(* removeSymbol finds every symbol that has a string: its panic is for     *)
(* those whose string could not be initialised.                            *)
OnlyNamelessPanic == \A t \in Threads : pc[t] = "panic" => name[loc[t].sym] = None

THEOREM NamedAreFound == Spec => []OnlyNamelessPanic
<1>1. ASSUME IInv, NEW t \in Threads, RemovePanics(t) PROVE name[loc[t].sym] = None
  <2>1. PICK s : s = loc[t].sym
    OBVIOUS
  <2>2. s \in Symbols /\ (name[s] # None => s \in InPool /\ name[s] \in Strings)
    BY <1>1, <2>1 DEF RemovePanics, IInv, Typed, LocalsFit, IsFreed, Freeing
  <2>3. ASSUME name[s] # None PROVE InItsBucket(s)
    <3>1. PICK l : l = buckets[BucketOf(buckets, name[s])]
      OBVIOUS
    <3>2. s \in ToSet(l) /\ l \in Seq(Symbols)
      BY <1>1, <2>2, <2>3, <3>1, PoolAccess DEF IInv, PoolHolds, IsAccess, InPool
    <3>3. Contains(l, s)
      BY <3>2, ToSetFacts DEF Contains
    <3> QED BY <2>3, <3>1, <3>3 DEF InItsBucket
  <2> QED BY <1>1, <2>1, <2>3 DEF RemovePanics
<1>2. Init => OnlyNamelessPanic
  BY DEF Init, OnlyNamelessPanic
<1>3. IInv /\ OnlyNamelessPanic /\ [Next]_vars => OnlyNamelessPanic'
  <2> SUFFICES ASSUME IInv, OnlyNamelessPanic, [Next]_vars, NEW u \in Threads, pc'[u] = "panic"
               PROVE  name'[loc'[u].sym] = None
    BY DEF OnlyNamelessPanic
  <2>1. CASE UNCHANGED vars
    BY <2>1 DEF vars, OnlyNamelessPanic
  <2>2. ASSUME NEW t \in Threads, RemovePanics(t), pc[u] # "panic" PROVE name'[loc'[u].sym] = None
    <3>1. u = t
      BY <2>2 DEF RemovePanics, Goto, IInv, Typed
    <3> QED BY <1>1, <2>2, <3>1 DEF RemovePanics, symbols
  <2>3. ASSUME NEW t \in Threads, Call(t) \/ Enter(t) \/ Inside(t), pc[u] # "panic" PROVE RemovePanics(t)
    <3>1. CASE Call(t)
      BY ZenonT(60), <2>3, <3>1 DEF Call, WithCString, WithCStringNoCopy, ExistingSymbolForCString, Lookup,
             Retain, Release,
                        Unload, Goto, IInv, Typed
    <3>2. CASE Enter(t)
      BY <2>3, <3>2 DEF Enter, BeginFind, BeginInsert, BeginFree, BeginPageUnload, Goto, IInv, Typed
    <3>3. CASE Inside(t)
      BY ZenonT(60), <2>3, <3>3 DEF Inside, ProbeNext, ProbeHit, HitAndDrop, FindFails, NewSymbol, NewSymbolFails,
             Insert, InsertAs,
                        RemoveSymbol, CheckForPageUnload, Unmap, Return, Goto, IInv, Typed
    <3> QED BY <2>3, <3>1, <3>2, <3>3
  <2> QED BY <2>1, <2>2, <2>3 DEF Next
<1> QED BY <1>1, <1>2, <1>3, Invariance, PTL DEF Spec

-----------------------------------------------------------------------------
(* The table that clients see.                                             *)

LiveOf(x) == {s \in InPool : name[s] = x /\ rc[s] > 0}

LEMMA InternedFacts ==
  ASSUME IInv, NEW x \in Strings
  PROVE  /\ LiveOf(x) = {} => Interned[x] = None
         /\ \A s \in LiveOf(x) : Interned[x] = s
         /\ Interned[x] # None => Interned[x] \in LiveOf(x)
<1>1. Interned[x] = IF LiveOf(x) = {} THEN None ELSE CHOOSE s \in LiveOf(x) : TRUE
  BY DEF Interned, LiveOf
<1>2. \A s, q \in LiveOf(x) : s = q
  BY OneIsLive DEF IInv, PoolHolds, LiveOf, InPool
<1> QED BY <1>1, <1>2

(* While the live symbols of each string stay, so does the table. *)
LEMMA SameInterned ==
  ASSUME \A x \in Strings : LiveOf(x)' = LiveOf(x)
  PROVE  Interned' = Interned
<1>1. \A x \in Strings : Interned'[x] = IF LiveOf(x)' = {} THEN None ELSE CHOOSE q \in LiveOf(x)' : TRUE
  BY DEF Interned, LiveOf
<1>2. \A x \in Strings : Interned[x] = IF LiveOf(x) = {} THEN None ELSE CHOOSE q \in LiveOf(x) : TRUE
  BY DEF Interned, LiveOf
<1>3. \A x \in Strings : Interned'[x] = Interned[x]
  BY <1>1, <1>2
<1>4. Interned' = [x \in Strings |-> Interned'[x]] /\ Interned = [x \in Strings |-> Interned[x]]
  BY DEF Interned
<1> QED BY <1>3, <1>4

(* Insert creates the entry of a string. *)
LEMMA InsertCreates ==
  ASSUME IInv, IInv', NEW t \in Threads, Insert(t)
  PROVE  UniqueStrings!Next
<1>1. PICK s, x : s = loc[t].sym /\ x = loc[t].str
  OBVIOUS
<1>2. pc[t] = "insert" /\ loc[t].list = <<>> /\ name' = name
  BY DEF Insert, InsertAs
<1>3. rc' = rc /\ InPool' = InPool \cup {s}
  BY <1>1, InsertEffect DEF InPool
<1>4. x \in Strings /\ s \in Symbols /\ name[s] = x /\ rc[s] = 1 /\ s \notin InPool
  BY <1>1, <1>2 DEF IInv, LocalsFit, IsMade, Making
<1>5. LiveOf(x) = {}
  <2> SUFFICES ASSUME NEW q \in LiveOf(x) PROVE FALSE
    OBVIOUS
  <2>1. q \in ToSet(ListFor(t))
    BY <1>1, <1>4, PoolAccess DEF LiveOf, IInv, PoolHolds, IsAccess, InPool, ListFor
  <2>2. q \notin ToSet(loc[t].list)
    BY <1>2 DEF ToSet
  <2> QED BY <1>1, <1>2, <2>1, <2>2 DEF IInv, WalkIsOn, Misses, LiveOf
<1>6. /\ LiveOf(x)' = {s} /\ \A y \in Strings : y # x => LiveOf(y)' = LiveOf(y)
  BY <1>2, <1>3, <1>4, <1>5 DEF LiveOf
<1>7. Interned[x] = None
  BY <1>4, <1>5, InternedFacts
<1>8. \A y \in Strings : Interned[y] # s
  BY <1>4, InternedFacts DEF LiveOf
<1>9. Interned' = [Interned EXCEPT ![x] = s]
  <2>1. \A y \in Strings : Interned'[y] = IF LiveOf(y)' = {} THEN None ELSE CHOOSE q \in LiveOf(y)' : TRUE
    BY DEF Interned, LiveOf
  <2>2. \A y \in Strings : Interned[y] = IF LiveOf(y) = {} THEN None ELSE CHOOSE q \in LiveOf(y) : TRUE
    BY DEF Interned, LiveOf
  <2>3. Interned'[x] = s
    BY <1>4, <1>6, <2>1
  <2>4. \A y \in Strings : y # x => Interned'[y] = Interned[y]
    BY <1>6, <2>1, <2>2
  <2>5. Interned' = [y \in Strings |-> Interned'[y]] /\ Interned = [y \in Strings |-> Interned[y]]
    BY DEF Interned
  <2> QED BY <1>4, <2>3, <2>4, <2>5
<1>10. UniqueStrings!Create(x, s)
  BY <1>7, <1>8, <1>9 DEF UniqueStrings!Create
<1>11. Interned' # Interned
  BY <1>4, <1>7, <1>9 DEF Interned
<1> QED BY <1>4, <1>10, <1>11 DEF UniqueStrings!Next

(* The last release of a symbol of the pool lets the entry of its string   *)
(* die; another leaves the table.                                          *)
LEMMA ReleaseDies ==
  ASSUME IInv, IInv', NEW t \in Threads, NEW s \in Symbols, Release(t, s)
  PROVE  UniqueStrings!Next \/ Interned' = Interned
<1>1. held[t][s] > 0 /\ rc' = [rc EXCEPT ![s] = rc[s] - 1] /\ buckets' = buckets /\ name' = name
  BY DEF Release, table
<1>2. rc[s] \in Nat /\ rc[s] > 0
  BY <1>1, HeldLives
<1>3. rc'[s] = rc[s] - 1 /\ \A q : q # s => rc'[q] = rc[q]
  BY <1>1 DEF IInv, Typed
<1>4. InPool' = InPool
  BY <1>1 DEF InPool
<1>5. CASE s \in InPool /\ rc[s] = 1
  <2>1. PICK x : x = name[s]
    OBVIOUS
  <2>2. x \in Strings
    BY <1>5, <2>1, PoolAccess DEF IInv, PoolHolds, IsAccess, InPool
  <2>3. s \in LiveOf(x)
    BY <1>5, <2>1 DEF LiveOf
  <2>4. Interned[x] = s /\ Interned[x] # None
    BY <2>2, <2>3, InternedFacts
  <2>5. LiveOf(x) = {s}
    BY <2>2, <2>3, InternedFacts
  <2>6. LiveOf(x)' = {}
    BY <1>1, <1>3, <1>4, <1>5, <2>5 DEF LiveOf
  <2>7. \A y \in Strings : y # x => LiveOf(y)' = LiveOf(y)
    BY <1>1, <1>3, <1>4, <2>1 DEF LiveOf
  <2>8. Interned' = [Interned EXCEPT ![x] = None]
    <3>1. \A y \in Strings : Interned'[y] = IF LiveOf(y)' = {} THEN None ELSE CHOOSE q \in LiveOf(y)' : TRUE
      BY DEF Interned, LiveOf
    <3>2. \A y \in Strings : Interned[y] = IF LiveOf(y) = {} THEN None ELSE CHOOSE q \in LiveOf(y) : TRUE
      BY DEF Interned, LiveOf
    <3>3. Interned'[x] = None
      BY <2>2, <2>6, <3>1
    <3>4. \A y \in Strings : y # x => Interned'[y] = Interned[y]
      BY <2>7, <3>1, <3>2
    <3>5. Interned' = [y \in Strings |-> Interned'[y]] /\ Interned = [y \in Strings |-> Interned[y]]
      BY DEF Interned
    <3> QED BY <2>2, <3>3, <3>4, <3>5
  <2>9. UniqueStrings!Die(x) /\ Interned' # Interned
    BY <2>2, <2>4, <2>8 DEF UniqueStrings!Die, Interned
  <2> QED BY <2>2, <2>9 DEF UniqueStrings!Next
<1>6. CASE ~(s \in InPool /\ rc[s] = 1)
  <2>1. \A x \in Strings : LiveOf(x)' = LiveOf(x)
    <3>1. \A q \in InPool : rc'[q] > 0 <=> rc[q] > 0
      BY <1>2, <1>3, <1>6
    <3> QED BY <1>1, <1>4, <3>1 DEF LiveOf
  <2> QED BY <2>1, SameInterned
<1> QED BY <1>5, <1>6

(* The other steps leave it: what they make alive or dead, name or forget  *)
(* is not a symbol of the pool, or was dead before.                        *)
LEMMA OthersStutter ==
  ASSUME IInv, NEW t \in Threads,
         \/ Quiet(t) \/ ProbeHit(t) \/ NewSymbol(t) \/ NewSymbolFails(t) \/ RemoveSymbol(t)
         \/ \E s \in Symbols : Retain(t, s)
  PROVE  Interned' = Interned
<1>0. InPool \subseteq Symbols
  BY PoolAccess DEF IInv, PoolHolds, IsAccess, InPool
<1>1. CASE Quiet(t)
  BY <1>1, QuietFrame, SameInterned DEF IsFrame, LiveOf, InPool
<1>2. CASE ProbeHit(t)
  <2>1. PICK s, d : s = Head(loc[t].list) /\ d = loc[t].sym
    OBVIOUS
  <2>2. /\ pc[t] \in Probing /\ ~ Misses(t, s) /\ buckets' = buckets
        /\ rc' = [q \in Symbols |-> IF q = s THEN rc[s] + 1 ELSE IF q \in {d} THEN 0 ELSE rc[q]]
        /\ name' = [q \in Symbols |-> IF q \in {d} THEN None ELSE name[q]]
    BY <1>2, <2>1 DEF ProbeHit, HitAndDrop, table
  <2>3. d \notin InPool
    <3>1. d = None \/ (d \in Symbols /\ IsNew(d))
      BY <2>1, <2>2 DEF IInv, LocalsFit, IsMade, IsNew, Making, Asking, Probing
    <3> QED BY <1>0, <3>1, ExactRefs
  <2>4. rc \in [Symbols -> Nat]
    BY DEF IInv, Typed
  <2>5. \A q \in InPool : name'[q] = name[q] /\ (rc'[q] > 0 <=> rc[q] > 0)
    BY <1>0, <2>2, <2>3, <2>4 DEF Misses
  <2> QED BY <2>2, <2>5, SameInterned DEF LiveOf, InPool
<1>3. CASE NewSymbol(t) \/ NewSymbolFails(t)
  <2>1. PICK s, x : s \in FreeStorage /\ rc' = [rc EXCEPT ![s] = 1] /\ name' = [name EXCEPT ![s] = x] /\ buckets' = buckets
    BY <1>3 DEF NewSymbol, NewSymbolFails, table
  <2>2. s \notin InPool
    BY <2>1, FreeFacts
  <2>3. \A q \in InPool : name'[q] = name[q] /\ rc'[q] = rc[q]
    BY <1>0, <2>1, <2>2 DEF IInv, Typed
  <2> QED BY <2>1, <2>3, SameInterned DEF LiveOf, InPool
<1>4. CASE RemoveSymbol(t)
  <2>1. PICK s : s = loc[t].sym
    OBVIOUS
  <2>2. rc' = rc /\ s \in InPool /\ InPool' = InPool \ {s} /\ name' = [name EXCEPT ![s] = None]
    BY <1>4, <2>1, RemoveEffect DEF InPool
  <2>3. rc[s] = 0
    BY <1>4, <2>1 DEF RemoveSymbol, IInv, LocalsFit, IsFreed, Freeing
  <2>4. \A q : q # s => name'[q] = name[q]
    BY <2>2 DEF IInv, Typed
  <2>5. \A x \in Strings : LiveOf(x)' = LiveOf(x)
    BY <2>2, <2>3, <2>4 DEF LiveOf
  <2> QED BY <2>5, SameInterned
<1>5. CASE \E s \in Symbols : Retain(t, s)
  <2>1. PICK s \in Symbols : Retain(t, s)
    BY <1>5
  <2>2. held[t][s] > 0 /\ rc' = [rc EXCEPT ![s] = rc[s] + 1] /\ buckets' = buckets /\ name' = name
    BY <2>1 DEF Retain, table
  <2>3. rc[s] \in Nat /\ rc[s] > 0
    BY <2>2, HeldLives
  <2>4. \A q \in InPool : rc'[q] > 0 <=> rc[q] > 0
    BY <1>0, <2>2, <2>3 DEF IInv, Typed
  <2> QED BY <2>2, <2>4, SameInterned DEF LiveOf, InPool
<1> QED BY <1>1, <1>2, <1>3, <1>4, <1>5

(* A string has at most one live symbol, a symbol stands for its string    *)
(* until it dies, and a string's symbol changes only by dying first.       *)
THEOREM Refinement == Spec => ImplementsSymbolTable
<1>1. Init => UniqueStrings!Init
  <2> SUFFICES ASSUME Init PROVE \A x \in Strings : Interned[x] = None
    BY DEF UniqueStrings!Init, Interned
  <2>1. IInv
    BY InitHolds
  <2>2. \A s \in Symbols : rc[s] = 0
    BY DEF Init
  <2>3. InPool \subseteq Symbols
    BY <2>1, PoolAccess DEF IInv, PoolHolds, IsAccess, InPool
  <2>4. \A x \in Strings : LiveOf(x) = {}
    BY <2>2, <2>3 DEF LiveOf
  <2> QED BY <2>1, <2>4, InternedFacts
<1>2. IInv /\ IInv' /\ [Next]_vars => [UniqueStrings!Next]_Interned
  <2> SUFFICES ASSUME IInv, IInv', [Next]_vars PROVE UniqueStrings!Next \/ Interned' = Interned
    OBVIOUS
  <2>1. CASE UNCHANGED vars
    BY <2>1, SameInterned DEF vars, LiveOf, InPool
  <2>2. ASSUME NEW t \in Threads, Call(t) PROVE UniqueStrings!Next \/ Interned' = Interned
    <3>1. CASE \E x \in Strings : WithCString(t, x) \/ WithCStringNoCopy(t,
    x) \/ ExistingSymbolForCString(t, x)
      <4>1. Quiet(t)
        BY <3>1 DEF Quiet, Asks, WithCString, WithCStringNoCopy, ExistingSymbolForCString
      <4> QED BY <4>1, OthersStutter
    <3>2. CASE \E s \in Symbols : Release(t, s)
      BY <3>2, ReleaseDies
    <3>3. CASE Unload(t) \/ \E s \in Symbols : Retain(t, s)
      BY <3>3, OthersStutter DEF Quiet
    <3> QED BY <2>2, <3>1, <3>2, <3>3 DEF Call
  <2>3. ASSUME NEW t \in Threads, Enter(t) PROVE Interned' = Interned
    BY <2>3, OthersStutter DEF Enter, Quiet
  <2>4. ASSUME NEW t \in Threads, Inside(t) PROVE UniqueStrings!Next \/ Interned' = Interned
    <3>1. CASE Insert(t)
      BY <3>1, InsertCreates
    <3>2. CASE ~ Insert(t)
      BY <2>4, <3>2, OthersStutter DEF Inside, Quiet
    <3> QED BY <3>1, <3>2
  <2> QED BY <2>1, <2>2, <2>3, <2>4 DEF Next
<1> QED BY <1>1, <1>2, Invariance, PTL DEF Spec, ImplementsSymbolTable, UniqueStrings!Spec
=============================================================================
