---------------------------- MODULE SequenceLemmas ----------------------------
(***************************************************************************)
(* What the operators on sequences do that the modules use for arrays, and *)
(* what is computed by walking over one: induction and recursion.          *)
(***************************************************************************)
EXTENDS SequencesExt, SequenceTheorems, WellFoundedInduction, TLAPS

(* Removing an element keeps the order of the others. *)
LEMMA RemoveAtFacts ==
  ASSUME NEW S, NEW s \in Seq(S), NEW i \in DOMAIN s
  PROVE  /\ RemoveAt(s, i) \in Seq(S)
         /\ Len(RemoveAt(s, i)) = Len(s) - 1
         /\ \A j \in 1 .. Len(s) - 1 : /\ j < i => RemoveAt(s, i)[j] = s[j]
                                       /\ j >= i => RemoveAt(s, i)[j] = s[j + 1]
<1> DEFINE a == SubSeq(s, 1, i - 1)
           b == SubSeq(s, i + 1, Len(s))
<1>1. Len(s) \in Nat /\ i \in 1 .. Len(s) /\ \A j \in 1 .. Len(s) : s[j] \in S
  OBVIOUS
<1>2. /\ a \in Seq(S) /\ Len(a) = i - 1
      /\ \A j \in 1 .. i - 1 : a[j] = s[j]
  <2>1. \A j \in 1 .. i - 1 : s[j] \in S
    BY <1>1
  <2>2. 1 \in Int /\ i - 1 \in Int
    BY <1>1
  <2> QED BY <1>1, <2>1, <2>2, SubSeqProperties
<1>3. /\ b \in Seq(S) /\ Len(b) = Len(s) - i
      /\ \A j \in 1 .. Len(s) - i : b[j] = s[j + i]
  <2>1. \A j \in i + 1 .. Len(s) : s[j] \in S
    BY <1>1
  <2>2. i + 1 \in Int /\ Len(s) \in Int
    BY <1>1
  <2>3. /\ b \in Seq(S)
        /\ Len(b) = IF i + 1 <= Len(s) THEN Len(s) - (i + 1) + 1 ELSE 0
        /\ \A j \in 1 .. Len(s) - (i + 1) + 1 : b[j] = s[i + 1 + j - 1]
    BY <2>1, <2>2, SubSeqProperties
  <2> QED BY <1>1, <2>3
<1>4. RemoveAt(s, i) = a \o b
  BY DEF RemoveAt
<1> HIDE DEF a, b
<1>5. /\ a \o b \in Seq(S) /\ Len(a \o b) = Len(a) + Len(b)
      /\ \A j \in 1 .. Len(a) + Len(b) : (a \o b)[j] = IF j <= Len(a) THEN a[j] ELSE b[j - Len(a)]
  BY <1>2, <1>3, ConcatProperties
<1>6. Len(a) + Len(b) = Len(s) - 1
  BY <1>1, <1>2, <1>3
<1>7. ASSUME NEW j \in 1 .. Len(s) - 1, j < i PROVE (a \o b)[j] = s[j]
  <2>1. j \in 1 .. Len(a) + Len(b) /\ j <= Len(a) /\ j \in 1 .. i - 1
    BY <1>1, <1>2, <1>6, <1>7
  <2> QED BY <1>2, <1>5, <2>1
<1>8. ASSUME NEW j \in 1 .. Len(s) - 1, j >= i PROVE (a \o b)[j] = s[j + 1]
  <2>1. j \in 1 .. Len(a) + Len(b) /\ ~(j <= Len(a))
    BY <1>1, <1>2, <1>6, <1>8
  <2>2. (a \o b)[j] = b[j - Len(a)]
    BY <1>5, <2>1
  <2>3. j - Len(a) \in 1 .. Len(s) - i /\ j - Len(a) + i = j + 1
    BY <1>1, <1>2, <1>8
  <2> QED BY <1>3, <2>2, <2>3
<1> QED BY <1>4, <1>5, <1>6, <1>7, <1>8

(* r is s with e at place i: the others keep their order. *)
Insertion(r, s, i, e) ==
  /\ Len(r) = Len(s) + 1
  /\ \A j \in 1 .. Len(s) + 1 : /\ j < i => r[j] = s[j]
                                /\ j = i => r[j] = e
                                /\ j > i => r[j] = s[j - 1]

LEMMA InsertAtFacts ==
  ASSUME NEW S, NEW s \in Seq(S), NEW e \in S, NEW i \in 1 .. Len(s) + 1
  PROVE  InsertAt(s, i, e) \in Seq(S) /\ Insertion(InsertAt(s, i, e), s, i, e)
<1> DEFINE a == SubSeq(s, 1, i - 1)
           b == SubSeq(s, i, Len(s))
           c == a \o <<e>>
<1>1. Len(s) \in Nat /\ \A j \in 1 .. Len(s) : s[j] \in S
  OBVIOUS
<1>2. /\ a \in Seq(S) /\ Len(a) = i - 1
      /\ \A j \in 1 .. i - 1 : a[j] = s[j]
  <2>1. \A j \in 1 .. i - 1 : s[j] \in S
    BY <1>1
  <2>2. 1 \in Int /\ i - 1 \in Int
    BY <1>1
  <2> QED BY <1>1, <2>1, <2>2, SubSeqProperties
<1>3. /\ b \in Seq(S) /\ Len(b) = Len(s) + 1 - i
      /\ \A j \in 1 .. Len(s) + 1 - i : b[j] = s[i + j - 1]
  <2>1. \A j \in i .. Len(s) : s[j] \in S
    BY <1>1
  <2>2. i \in Int /\ Len(s) \in Int
    BY <1>1
  <2>3. /\ b \in Seq(S)
        /\ Len(b) = IF i <= Len(s) THEN Len(s) - i + 1 ELSE 0
        /\ \A j \in 1 .. Len(s) - i + 1 : b[j] = s[i + j - 1]
    BY <2>1, <2>2, SubSeqProperties
  <2> QED BY <1>1, <2>3
<1>4. InsertAt(s, i, e) = c \o b
  BY DEF InsertAt
<1>5. <<e>> \in Seq(S) /\ Len(<<e>>) = 1 /\ <<e>>[1] = e
  OBVIOUS
<1>6. /\ c \in Seq(S) /\ Len(c) = i
      /\ \A j \in 1 .. i : c[j] = IF j < i THEN s[j] ELSE e
  <2> HIDE DEF a
  <2>1. /\ a \o <<e>> \in Seq(S) /\ Len(a \o <<e>>) = Len(a) + Len(<<e>>)
        /\ \A j \in 1 .. Len(a) + Len(<<e>>) :
             (a \o <<e>>)[j] = IF j <= Len(a) THEN a[j] ELSE <<e>>[j - Len(a)]
    BY <1>2, <1>5, ConcatProperties
  <2>2. Len(a) + Len(<<e>>) = i
    BY <1>1, <1>2, <1>5
  <2>3. ASSUME NEW j \in 1 .. i PROVE (a \o <<e>>)[j] = IF j < i THEN s[j] ELSE e
    <3>1. CASE j < i
      <4>1. j <= Len(a) /\ j \in 1 .. i - 1
        BY <1>1, <1>2, <3>1
      <4> QED BY <1>2, <2>1, <2>2, <3>1, <4>1
    <3>2. CASE j = i
      <4>1. ~(j <= Len(a)) /\ j - Len(a) = 1
        BY <1>1, <1>2, <3>2
      <4> QED BY <1>5, <2>1, <2>2, <3>2, <4>1
    <3>3. j < i \/ j = i
      BY <1>1
    <3> QED BY <3>1, <3>2, <3>3
  <2> QED BY <2>1, <2>2, <2>3
<1> HIDE DEF b, c
<1>7. PICK d : d = c \o b
  OBVIOUS
<1>8. /\ d \in Seq(S) /\ Len(d) = Len(c) + Len(b)
      /\ \A j \in 1 .. Len(c) + Len(b) : d[j] = IF j <= Len(c) THEN c[j] ELSE b[j - Len(c)]
  BY <1>3, <1>6, <1>7, ConcatProperties
<1>9. Len(c) + Len(b) = Len(s) + 1
  BY <1>1, <1>3, <1>6
<1>10. ASSUME NEW j \in 1 .. Len(s) + 1, j <= i
      PROVE  d[j] = IF j < i THEN s[j] ELSE e
  <2>1. j \in 1 .. i /\ j <= Len(c)
    BY <1>1, <1>6, <1>10
  <2> QED BY <1>6, <1>8, <1>9, <2>1
<1>11. ASSUME NEW j \in 1 .. Len(s) + 1, j > i
       PROVE  d[j] = s[j - 1]
  <2>1. j \in 1 .. Len(c) + Len(b) /\ ~(j <= Len(c))
    BY <1>1, <1>6, <1>9, <1>11
  <2>2. d[j] = b[j - Len(c)]
    BY <1>8, <2>1
  <2>3. j - Len(c) \in 1 .. Len(s) + 1 - i /\ i + (j - Len(c)) - 1 = j - 1
    BY <1>1, <1>6, <1>11
  <2> QED BY <1>3, <2>2, <2>3
<1>12. ASSUME NEW j \in 1 .. Len(s) + 1
       PROVE  /\ j < i => d[j] = s[j]
              /\ j = i => d[j] = e
              /\ j > i => d[j] = s[j - 1]
  <2>1. j \in Int /\ i \in Int
    BY <1>1
  <2>2. CASE j < i
    BY <1>10, <2>1, <2>2
  <2>3. CASE j = i
    BY <1>10, <2>1, <2>3
  <2>4. CASE j > i
    BY <1>11, <2>1, <2>4
  <2> QED BY <2>1, <2>2, <2>3, <2>4
<1>13. d \in Seq(S) /\ Insertion(d, s, i, e)
  <2>1. d \in Seq(S) /\ Len(d) = Len(s) + 1
    BY <1>8, <1>9
  <2> QED BY <1>12, <2>1 DEF Insertion
<1> QED BY <1>4, <1>7, <1>13

(* Front is all but the last. *)
LEMMA FrontFacts ==
  ASSUME NEW S, NEW s \in Seq(S), s # <<>>
  PROVE  /\ Front(s) \in Seq(S) /\ Len(Front(s)) = Len(s) - 1
         /\ \A n \in 1 .. Len(s) - 1 : Front(s)[n] = s[n]
<1>1. Len(s) \in Nat \ {0} /\ \A j \in 1 .. Len(s) : s[j] \in S
  BY EmptySeq
<1>2. \A j \in 1 .. Len(s) - 1 : s[j] \in S
  BY <1>1
<1>3. 1 \in Int /\ Len(s) - 1 \in Int
  BY <1>1
<1> DEFINE f == SubSeq(s, 1, Len(s) - 1)
<1>4. /\ f \in Seq(S)
      /\ Len(f) = IF 1 <= Len(s) - 1 THEN Len(s) - 1 - 1 + 1 ELSE 0
      /\ \A n \in 1 .. Len(s) - 1 - 1 + 1 : f[n] = s[1 + n - 1]
  BY <1>2, <1>3, SubSeqProperties
<1>5. Front(s) = f
  BY DEF Front
<1> HIDE DEF f
<1> QED BY <1>1, <1>4, <1>5

(* The elements of a sequence are those at its indices. *)
LEMMA ToSetFacts ==
  ASSUME NEW S, NEW s \in Seq(S)
  PROVE  /\ DOMAIN s = 1 .. Len(s) /\ Len(s) \in Nat
         /\ ToSet(s) \subseteq S
         /\ \A x : x \in ToSet(s) <=> \E i \in DOMAIN s : s[i] = x
<1>1. DOMAIN s = 1 .. Len(s) /\ Len(s) \in Nat
  OBVIOUS
<1>2. \A i \in DOMAIN s : s[i] \in S
  BY <1>1, ElementOfSeq
<1> QED BY <1>1, <1>2 DEF ToSet

(* Appending adds one element, at the end. *)
LEMMA AppendFacts ==
  ASSUME NEW S, NEW s \in Seq(S), NEW e \in S
  PROVE  /\ Append(s, e) \in Seq(S) /\ Len(Append(s, e)) = Len(s) + 1
         /\ DOMAIN Append(s, e) = 1 .. Len(s) + 1 /\ DOMAIN s = 1 .. Len(s) /\ Len(s) \in Nat
         /\ \A i \in DOMAIN s : Append(s, e)[i] = s[i]
         /\ Append(s, e)[Len(s) + 1] = e
         /\ ToSet(Append(s, e)) = ToSet(s) \cup {e}
<1>1. /\ Append(s, e) \in Seq(S) /\ Len(Append(s, e)) = Len(s) + 1
      /\ DOMAIN Append(s, e) = 1 .. Len(s) + 1 /\ DOMAIN s = 1 .. Len(s) /\ Len(s) \in Nat
      /\ \A i \in DOMAIN s : Append(s, e)[i] = s[i]
      /\ Append(s, e)[Len(s) + 1] = e
  BY AppendProperties
<1> DEFINE a == Append(s, e)
<1> HIDE DEF a
<1>2. DOMAIN a = DOMAIN s \cup {Len(s) + 1}
  BY <1>1 DEF a
<1>3. ToSet(a) = ToSet(s) \cup {e}
  BY <1>1, <1>2 DEF ToSet, a
<1> QED BY <1>1, <1>3 DEF a

(* Where no element occurs twice, one that is removed is gone. *)
LEMMA RemoveOnce ==
  ASSUME NEW S, NEW s \in Seq(S), NEW i \in DOMAIN s,
         \A m, n \in DOMAIN s : s[m] = s[n] => m = n
  PROVE  /\ ToSet(RemoveAt(s, i)) = ToSet(s) \ {s[i]}
         /\ \A m, n \in DOMAIN RemoveAt(s, i) : RemoveAt(s, i)[m] = RemoveAt(s, i)[n] => m = n
<1> DEFINE r == RemoveAt(s, i)
<1>1. Len(s) \in Nat /\ DOMAIN s = 1 .. Len(s) /\ i \in 1 .. Len(s)
  OBVIOUS
<1>2. /\ r \in Seq(S) /\ Len(r) = Len(s) - 1
      /\ \A j \in 1 .. Len(s) - 1 : /\ j < i => r[j] = s[j]
                                    /\ j >= i => r[j] = s[j + 1]
  BY RemoveAtFacts
<1> HIDE DEF r
<1>3. DOMAIN r = 1 .. Len(s) - 1
  BY <1>2, LenProperties
<1>4. ASSUME NEW x \in ToSet(r) PROVE x \in ToSet(s) \ {s[i]}
  <2>1. PICK j \in 1 .. Len(s) - 1 : x = r[j]
    BY <1>3 DEF ToSet
  <2>2. PICK m \in 1 .. Len(s) : x = s[m] /\ m # i
    BY <1>1, <1>2, <2>1
  <2> QED BY <1>1, <2>2 DEF ToSet
<1>5. ASSUME NEW x \in ToSet(s) \ {s[i]} PROVE x \in ToSet(r)
  <2>1. PICK m \in 1 .. Len(s) : x = s[m] /\ m # i
    BY <1>1 DEF ToSet
  <2>2. PICK j \in 1 .. Len(s) - 1 : (j = m /\ j < i) \/ (j + 1 = m /\ j >= i)
    <3>1. CASE m < i
      BY <1>1, <3>1
    <3>2. CASE m > i
      <4>1. m - 1 \in 1 .. Len(s) - 1 /\ m - 1 + 1 = m /\ m - 1 >= i
        BY <1>1, <3>2
      <4> QED BY <4>1
    <3> QED BY <1>1, <2>1, <3>1, <3>2
  <2>3. x = r[j]
    BY <1>2, <2>1, <2>2
  <2> QED BY <1>3, <2>2, <2>3 DEF ToSet
<1>6. ASSUME NEW m \in DOMAIN r, NEW n \in DOMAIN r, r[m] = r[n] PROVE m = n
  <2>1. PICK a \in 1 .. Len(s) : r[m] = s[a] /\ ((m < i /\ a = m) \/ (m >= i /\ a = m + 1))
    BY <1>1, <1>2, <1>3
  <2>2. PICK b \in 1 .. Len(s) : r[n] = s[b] /\ ((n < i /\ b = n) \/ (n >= i /\ b = n + 1))
    BY <1>1, <1>2, <1>3
  <2>3. a = b
    BY <1>1, <1>6, <2>1, <2>2
  <2> QED BY <1>1, <1>3, <2>1, <2>2, <2>3
<1>7. ToSet(r) = ToSet(s) \ {s[i]}
  BY <1>4, <1>5
<1> QED BY <1>6, <1>7 DEF r

(* A new first element moves the others back by one. *)
LEMMA ConsFacts ==
  ASSUME NEW S, NEW s \in Seq(S), NEW e \in S
  PROVE  /\ Cons(e, s) \in Seq(S) /\ DOMAIN Cons(e, s) = 1 .. Len(s) + 1
         /\ DOMAIN s = 1 .. Len(s) /\ Len(s) \in Nat
         /\ Cons(e, s)[1] = e
         /\ \A i \in 1 .. Len(s) : Cons(e, s)[i + 1] = s[i]
         /\ \A i \in 2 .. Len(s) + 1 : Cons(e, s)[i] = s[i - 1]
         /\ ToSet(Cons(e, s)) = ToSet(s) \cup {e}
<1> DEFINE c == Cons(e, s)
<1>1. c = <<e>> \o s
  BY DEF Cons
<1>2. /\ <<e>> \in Seq(S) /\ Len(<<e>>) = 1 /\ <<e>>[1] = e
      /\ DOMAIN s = 1 .. Len(s) /\ Len(s) \in Nat
  OBVIOUS
<1>3. /\ c \in Seq(S) /\ Len(c) = Len(s) + 1
      /\ \A i \in 1 .. Len(s) + 1 : c[i] = IF i <= 1 THEN <<e>>[i] ELSE s[i - 1]
  BY <1>1, <1>2, ConcatProperties
<1> HIDE DEF c
<1>4. DOMAIN c = 1 .. Len(s) + 1
  BY <1>2, <1>3, LenProperties
<1>5. c[1] = e /\ \A i \in 2 .. Len(s) + 1 : c[i] = s[i - 1]
  BY <1>2, <1>3
<1>6. \A i \in 1 .. Len(s) : c[i + 1] = s[i]
  <2> TAKE i \in 1 .. Len(s)
  <2>1. i + 1 \in 2 .. Len(s) + 1 /\ i + 1 - 1 = i
    BY <1>2
  <2> QED BY <1>5, <2>1
<1>7. ToSet(c) = ToSet(s) \cup {e}
  <2>1. ASSUME NEW x \in ToSet(c) PROVE x \in ToSet(s) \cup {e}
    <3>1. PICK i \in 1 .. Len(s) + 1 : x = c[i]
      BY <1>4 DEF ToSet
    <3>2. CASE i = 1
      BY <1>5, <3>1, <3>2
    <3>3. CASE i # 1
      <4>1. i \in 2 .. Len(s) + 1 /\ i - 1 \in 1 .. Len(s)
        BY <1>2, <3>3
      <4> QED BY <1>2, <1>5, <3>1, <4>1 DEF ToSet
    <3> QED BY <3>2, <3>3
  <2>2. ASSUME NEW x \in ToSet(s) \cup {e} PROVE x \in ToSet(c)
    <3>1. CASE x = e
      <4>1. 1 \in DOMAIN c
        BY <1>2, <1>4
      <4> QED BY <1>5, <3>1, <4>1 DEF ToSet
    <3>2. CASE x \in ToSet(s)
      <4>1. PICK i \in 1 .. Len(s) : x = s[i]
        BY <1>2, <3>2 DEF ToSet
      <4>2. i + 1 \in DOMAIN c
        BY <1>2, <1>4
      <4> QED BY <1>6, <4>1, <4>2 DEF ToSet
    <3> QED BY <3>1, <3>2
  <2> QED BY <2>1, <2>2
<1> QED BY <1>2, <1>3, <1>4, <1>5, <1>6, <1>7 DEF c

-----------------------------------------------------------------------------
(* A set of numbers has a least one. *)
LEMMA LeastNumber ==
  ASSUME NEW T \in SUBSET Nat, T # {}
  PROVE  \E m \in T : \A k \in T : m <= k
<1> DEFINE R == OpToRel(<, Nat)
<1>1. IsWellFoundedOn(R, Nat)
  BY NatLessThanWellFounded
<1>2. \A x, y \in Nat : x < y => <<x, y>> \in R
  BY DEF OpToRel
<1> HIDE DEF R
<1>3. PICK m \in T : \A k \in T : ~ (<<k, m>> \in R)
  BY <1>1, WFMin
<1>4. \A k \in T : ~ (k < m)
  BY <1>2, <1>3
<1>5. T \subseteq Nat /\ m \in Nat
  BY <1>3
<1>6. \A k \in T : m <= k
  BY <1>4, <1>5
<1> QED BY <1>3, <1>6

(* Induction, for a set instead of a predicate: the provers here cannot    *)
(* instantiate the library's theorems, which take an operator.             *)
LEMMA Induction ==
  ASSUME NEW T, 0 \in T, \A n \in Nat : n \in T => n + 1 \in T
  PROVE  Nat \subseteq T
<1> SUFFICES ASSUME NEW x \in Nat, x \notin T PROVE FALSE
  OBVIOUS
<1>1. PICK m \in Nat \ T : \A k \in Nat \ T : m <= k
  BY LeastNumber
<1>2. m - 1 \in Nat
  BY <1>1
<1>3. m - 1 \in T
  BY <1>1, <1>2
<1> QED BY <1>1, <1>2, <1>3

(* g says for each position what becomes of a value, within S. *)
StepsWithin(D, S, g) == \A n \in D : \A x \in S : g[n][x] \in S

(* f is what the steps of g make of base, one after the other. *)
IteratesOn(S, base, g, f) ==
  f \in [Nat -> S] /\ f[0] = base /\ \A n \in Nat : f[n + 1] = g[n][f[n]]

(* What is defined by recursion over the numbers exists. *)
LEMMA Recursion ==
  ASSUME NEW S, NEW base, base \in S, NEW g, StepsWithin(Nat, S, g)
  PROVE  \E f : IteratesOn(S, base, g, f)
<1> DEFINE Start(n) == {h \in [0 .. n -> S] : h[0] = base /\ \A k \in 0 .. n - 1 : h[k + 1] = g[k][h[k]]}
           Some == {n \in Nat : Start(n) # {}}
           Same == {k \in Nat : \A m, n \in Nat : k <= m /\ k <= n =>
                                  \A h \in Start(m), i \in Start(n) : h[k] = i[k]}
<1>1. Nat \subseteq Some
  <2>1. 0 \in Some
    <3>1. [j \in 0 .. 0 |-> base] \in Start(0)
      OBVIOUS
    <3> QED BY <3>1
  <2>2. ASSUME NEW n \in Nat, n \in Some PROVE n + 1 \in Some
    <3>1. PICK h \in Start(n) : TRUE
      BY <2>2
    <3> DEFINE i == [j \in 0 .. n + 1 |-> IF j <= n THEN h[j] ELSE g[n][h[n]]]
    <3>2. h[n] \in S /\ g[n][h[n]] \in S
      BY <3>1 DEF StepsWithin
    <3>3. i \in [0 .. n + 1 -> S]
      BY <3>1, <3>2
    <3>4. \A k \in 0 .. n : i[k + 1] = g[k][i[k]]
      <4> TAKE k \in 0 .. n
      <4>1. CASE k < n
        BY <4>1, <3>1
      <4>2. CASE k = n
        BY <4>2, <3>1
      <4> QED BY <4>1, <4>2
    <3>5. i[0] = base
      BY <3>1
    <3>6. i \in Start(n + 1)
      <4> HIDE DEF i
      <4> QED BY <3>3, <3>4, <3>5
    <3> HIDE DEF Start, i
    <3> QED BY <3>6
  <2> HIDE DEF Some
  <2> QED BY <2>1, <2>2, Induction
<1>2. Nat \subseteq Same
  <2>1. 0 \in Same
    OBVIOUS
  <2>2. ASSUME NEW k \in Nat, k \in Same PROVE k + 1 \in Same
    <3>1. ASSUME NEW m \in Nat, NEW n \in Nat, k + 1 <= m, k + 1 <= n,
                 NEW h \in Start(m), NEW i \in Start(n)
          PROVE  h[k + 1] = i[k + 1]
      <4>1. h[k] = i[k]
        <5>1. k <= m /\ k <= n
          BY <3>1
        <5> HIDE DEF Start
        <5> QED BY <2>2, <5>1
      <4>2. h[k + 1] = g[k][h[k]] /\ i[k + 1] = g[k][i[k]]
        BY <3>1
      <4> QED BY <4>1, <4>2
    <3> HIDE DEF Start
    <3> QED BY <3>1
  <2> HIDE DEF Same
  <2> QED BY <2>1, <2>2, Induction
<1> DEFINE Chosen(n) == CHOOSE h \in Start(n) : TRUE
           f == [n \in Nat |-> Chosen(n)[n]]
<1>3. ASSUME NEW n \in Nat PROVE Chosen(n) \in Start(n)
  <2>1. Start(n) # {}
    <3>1. n \in Some
      BY <1>1
    <3> HIDE DEF Start
    <3> QED BY <3>1
  <2> HIDE DEF Start
  <2> QED BY <2>1
<1>4. \A n \in Nat : f[n] \in S /\ f[n + 1] = g[n][f[n]]
  <2> TAKE n \in Nat
  <2>1. n + 1 \in Nat /\ f[n] = Chosen(n)[n] /\ f[n + 1] = Chosen(n + 1)[n + 1]
    <3> HIDE DEF Chosen
    <3> QED OBVIOUS
  <2>2. Chosen(n) \in Start(n) /\ Chosen(n + 1) \in Start(n + 1)
    BY <1>3, <2>1
  <2> HIDE DEF Chosen, f
  <2>3. Chosen(n)[n] = Chosen(n + 1)[n]
    <3>1. n \in Same
      BY <1>2, Zenon
    <3>2. n <= n /\ n <= n + 1
      OBVIOUS
    <3> HIDE DEF Start
    <3> QED BY <2>1, <2>2, <3>1, <3>2
  <2>4. Chosen(n + 1)[n + 1] = g[n][Chosen(n + 1)[n]] /\ Chosen(n)[n] \in S
    BY <2>2
  <2> QED BY <2>1, <2>3, <2>4
<1>5. f[0] = base
  <2>1. Chosen(0) \in Start(0)
    <3> HIDE DEF Chosen, Start
    <3> QED BY <1>3
  <2>2. f[0] = Chosen(0)[0]
    <3> HIDE DEF Chosen
    <3> QED OBVIOUS
  <2> HIDE DEF Chosen, f
  <2> QED BY <2>1, <2>2
<1>6. f \in [Nat -> S]
  <2>1. \A n \in Nat : f[n] \in S
    BY <1>4
  <2> QED BY <2>1
<1> HIDE DEF f
<1> QED BY <1>4, <1>5, <1>6 DEF IteratesOn

(* Both as far as N, as they are needed for the indices of a sequence. *)
LEMMA InductionTo ==
  ASSUME NEW N \in Nat, NEW T, 0 \in T, \A n \in 1 .. N : n - 1 \in T => n \in T
  PROVE  0 .. N \subseteq T
<1> DEFINE U == {n \in Nat : n <= N => n \in T}
<1>1. 0 \in U
  OBVIOUS
<1>2. ASSUME NEW n \in Nat, n \in U PROVE n + 1 \in U
  <2>1. ASSUME n + 1 <= N PROVE n + 1 \in T
    <3>1. n \in T /\ n + 1 \in 1 .. N /\ n + 1 - 1 = n
      BY <1>2, <2>1
    <3> QED BY <3>1
  <2> QED BY <2>1
<1> HIDE DEF U
<1>3. Nat \subseteq U
  BY <1>1, <1>2, Induction
<1> QED BY <1>3 DEF U

(* f is what N steps of g make of base, one after the other. *)
Iterates(N, S, base, g, f) ==
  f \in [0 .. N -> S] /\ f[0] = base /\ \A n \in 1 .. N : f[n] = g[n][f[n - 1]]

(* The recursion that defines f[n] from f[n - 1] exists as far as N. *)
LEMMA RecursionTo ==
  ASSUME NEW N \in Nat, NEW S, NEW base, base \in S, NEW g, StepsWithin(1 .. N, S, g)
  PROVE  \E f : Iterates(N, S, base, g, f)
<1>0. PICK h : h = [n \in Nat |-> IF n < N THEN g[n + 1] ELSE [x \in S |-> x]]
  OBVIOUS
<1>1. StepsWithin(Nat, S, h)
  BY <1>0 DEF StepsWithin
<1>2. \A n \in 1 .. N : h[n - 1] = g[n]
  BY <1>0
<1>3. PICK f : f \in [Nat -> S] /\ f[0] = base /\ \A n \in Nat : f[n + 1] = h[n][f[n]]
  <2>1. PICK f : IteratesOn(S, base, h, f)
    BY <1>1, Recursion
  <2> QED BY <2>1 DEF IteratesOn
<1> DEFINE e == [n \in 0 .. N |-> f[n]]
<1>4. e \in [0 .. N -> S] /\ e[0] = base
  BY <1>3
<1>5. ASSUME NEW n \in 1 .. N PROVE e[n] = g[n][e[n - 1]]
  <2>1. n - 1 \in Nat /\ n - 1 + 1 = n /\ e[n] = f[n] /\ e[n - 1] = f[n - 1]
    OBVIOUS
  <2>2. f[n] = h[n - 1][f[n - 1]]
    BY <1>3, <2>1
  <2> QED BY <1>2, <2>1, <2>2
<1> HIDE DEF e
<1> QED BY <1>4, <1>5 DEF Iterates
=============================================================================
