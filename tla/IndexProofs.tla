---------------------------- MODULE IndexProofs ----------------------------
(***************************************************************************)
(* What the index of the workers and of the search engine holds after any  *)
(* words were added to it, and what its operators, which go through lists, *)
(* find there.  Induction over the lists is made out of the theorem that   *)
(* every set of natural numbers has a least element.                       *)
(***************************************************************************)
EXTENDS Index, Lemmas

-----------------------------------------------------------------------------
(* Induction, and functions that fold a sequence.                          *)

\* Every set of natural numbers has a least element.
LEMMA LeastElement ==
  ASSUME NEW T \in SUBSET Nat, T # {}
  PROVE  \E x \in T : \A y \in T : x <= y
<1> DEFINE R == {ss \in Nat \X Nat : ss[1] < ss[2]}
<1>1. IsWellFoundedOn(R, Nat)
  BY NatLessThanWellFounded DEF OpToRel
<1>2. \A x, y \in Nat : <<y, x>> \in R <=> y < x
  OBVIOUS
<1> HIDE DEF R
<1>3. PICK x \in T : \A y \in T : ~(<<y, x>> \in R)
  BY <1>1, WFMin
<1>4. ASSUME NEW y \in T PROVE x <= y
  <2>1. x \in Nat /\ y \in Nat /\ ~(y < x)
    BY <1>2, <1>3
  <2>2. QED
    BY <2>1
<1>5. QED
  BY <1>4

\* A set with 0, and with the successor of each of its elements, has them all.
LEMMA Induction ==
  ASSUME NEW T, 0 \in T, \A k \in Nat : k \in T => k+1 \in T
  PROVE  Nat \subseteq T
<1>1. SUFFICES ASSUME Nat \ T # {} PROVE FALSE
  OBVIOUS
<1>2. PICK k \in Nat \ T : \A m \in Nat \ T : k <= m
  BY <1>1, LeastElement
<1>3. k # 0 /\ k-1 \in Nat /\ ~(k <= k-1)
  BY <1>2
<1>4. k-1 \in T
  BY <1>2, <1>3
<1>5. (k-1)+1 \in T
  BY <1>3, <1>4
<1>6. QED
  BY <1>2, <1>5

LEMMA MaxIsGreatest ==
  ASSUME NEW n \in Nat, NEW s \in SUBSET (1..n), s # {}
  PROVE  Max(s) \in s /\ \A y \in s : Max(s) >= y
<1> DEFINE T == {m \in Nat : \A y \in s : m >= y}
<1>1. n \in T
  OBVIOUS
<1>2. PICK m \in T : \A k \in T : m <= k
  <2> HIDE DEF T
  <2>1. T \in SUBSET Nat
    BY DEF T
  <2>2. QED
    BY <1>1, <2>1, LeastElement
<1>3. m \in s
  <2>1. SUFFICES ASSUME m \notin s PROVE FALSE
    OBVIOUS
  <2>2. m # 0
    <3>1. PICK y \in s : TRUE
      OBVIOUS
    <3>2. m >= y /\ y >= 1
      BY <3>1
    <3>3. QED
      BY <3>1, <3>2
  <2>3. m-1 \in Nat /\ \A y \in s : m-1 >= y
    BY <2>1, <2>2
  <2>4. m-1 \in T /\ ~(m <= m-1)
    BY <2>3
  <2>5. QED
    BY <1>2, <2>4
<1>4. \E x \in s : \A y \in s : x >= y
  BY <1>3
<1>5. QED
  BY <1>4 DEF Max

\* Induction over sets of places, taking off the last.
LEMMA SetInduction ==
  ASSUME NEW n \in Nat, NEW T, {} \in T,
         \A s \in SUBSET (1..n) : s # {} /\ s \ {Max(s)} \in T => s \in T
  PROVE  SUBSET (1..n) \subseteq T
<1> DEFINE Done(k) == \A s \in SUBSET (1..k) : s \in T
           U == {k \in Nat : k <= n => Done(k)}
<1>1. 0 \in U
  <2>1. \A s \in SUBSET (1..0) : s = {}
    OBVIOUS
  <2>2. QED
    BY <2>1
<1>2. ASSUME NEW k \in Nat, k \in U PROVE k+1 \in U
  <2>1. SUFFICES ASSUME k+1 <= n, NEW s \in SUBSET (1..k+1) PROVE s \in T
    OBVIOUS
  <2>2. \A r \in SUBSET (1..k) : r \in T
    <3>1. k <= n
      BY <2>1
    <3>2. QED
      BY <1>2, <3>1
  <2>3. CASE s = {}
    BY <2>3
  <2>4. CASE s # {}
    <3>1. s \in SUBSET (1..n)
      BY <2>1
    <3>2. Max(s) \in s /\ \A y \in s : Max(s) >= y
      BY <2>4, <3>1, MaxIsGreatest
    <3>3. ASSUME NEW x \in s, x # Max(s) PROVE x \in 1..k
      <4>1. x \in 1..k+1 /\ Max(s) \in 1..k+1 /\ Max(s) >= x
        BY <3>2
      <4>2. QED
        BY <3>3, <4>1
    <3>4. s \ {Max(s)} \in T
      BY <2>2, <3>3
    <3>5. QED
      BY <2>4, <3>1, <3>4
  <2>5. QED
    BY <2>3, <2>4
<1>3. n \in U
  <2> HIDE DEF U
  <2>1. QED
    BY <1>1, <1>2, Induction
<1>4. Done(n)
  <2> HIDE DEF Done
  <2>1. n <= n
    OBVIOUS
  <2>2. QED
    BY <1>3, <2>1
<1>5. QED
  BY <1>4

\* Going through the places 1 to n in order, F giving the next value from the
\* last: there is such a function on the sets of places, by which FoldLeft is
\* defined.
StaysIn(V, n, F) == \A v \in V, k \in 1..n : F[<<v, k>>] \in V

FoldsBy(it, n, base, F) ==
  \A s \in SUBSET (1..n) :
    it[s] = IF s = {} THEN base ELSE F[<<it[s \ {Max(s)}], Max(s)>>]

LEMMA FoldExists ==
  ASSUME NEW n \in Nat, NEW V, NEW base \in V, NEW F,
         StaysIn(V, n, F)
  PROVE  \E it \in [SUBSET (1..n) -> V] : FoldsBy(it, n, base, F)
<1> DEFINE Good(k) == \E it \in [SUBSET (1..k) -> V] : FoldsBy(it, k, base, F)
           T == {k \in Nat : k <= n => Good(k)}
<1>1. 0 \in T
  <2> DEFINE it == [s \in SUBSET (1..0) |-> base]
  <2>1. \A s \in SUBSET (1..0) : s = {}
    OBVIOUS
  <2>2. it \in [SUBSET (1..0) -> V] /\ FoldsBy(it, 0, base, F)
    BY <2>1 DEF FoldsBy
  <2>3. QED
    BY <2>2
<1>2. ASSUME NEW k \in Nat, k \in T PROVE k+1 \in T
  <2> HIDE DEF Good
  <2>1. SUFFICES ASSUME k+1 <= n PROVE Good(k+1)
    OBVIOUS
  <2>0. Good(k)
    <3>1. k <= n
      BY <2>1
    <3>2. QED
      BY <1>2, <3>1
  <2>2. PICK g \in [SUBSET (1..k) -> V] : FoldsBy(g, k, base, F)
    BY <2>0 DEF Good
  <2> DEFINE h == [s \in SUBSET (1..k+1) |->
                     IF k+1 \in s THEN F[<<g[s \ {k+1}], k+1>>] ELSE g[s]]
  <2>3. \A s \in SUBSET (1..k+1) : s \ {k+1} \in SUBSET (1..k)
    <3>1. \A x \in 1..k+1 : x # k+1 => x \in 1..k
      OBVIOUS
    <3>2. QED
      BY <3>1
  <2>4. k+1 \in 1..n
    BY <2>1
  <2>5. ASSUME NEW s \in SUBSET (1..k+1) PROVE h[s] \in V
    <3>1. CASE k+1 \in s
      BY <2>3, <2>4, <3>1 DEF StaysIn
    <3>2. CASE k+1 \notin s
      <4>1. s \in SUBSET (1..k)
        BY <2>3, <3>2
      <4>2. QED
        BY <3>2, <4>1
    <3>3. QED
      BY <3>1, <3>2
  <2>6. ASSUME NEW s \in SUBSET (1..k+1)
        PROVE  h[s] = IF s = {} THEN base ELSE F[<<h[s \ {Max(s)}], Max(s)>>]
    <3>1. CASE k+1 \in s
      <4>1. Max(s) = k+1
        <5>1. k+1 \in Nat /\ s # {}
          BY <3>1
        <5>2. Max(s) \in s /\ Max(s) >= k+1
          BY <3>1, <5>1, MaxIsGreatest
        <5>3. Max(s) \in 1..k+1
          BY <5>2
        <5>4. QED
          BY <5>2, <5>3
      <4>2. h[s \ {k+1}] = g[s \ {k+1}]
        BY <2>3
      <4>3. QED
        BY <3>1, <4>1, <4>2
    <3>2. CASE k+1 \notin s
      <4>1. s \in SUBSET (1..k) /\ h[s] = g[s]
        BY <2>3, <3>2
      <4>2. CASE s = {}
        BY <2>2, <4>1, <4>2 DEF FoldsBy
      <4>3. CASE s # {}
        <5>1. /\ s \ {Max(s)} \in SUBSET (1..k) /\ s \ {Max(s)} \in SUBSET (1..k+1)
              /\ k+1 \notin s \ {Max(s)}
          BY <3>2, <4>1
        <5>2. h[s \ {Max(s)}] = g[s \ {Max(s)}]
          BY <5>1
        <5>3. QED
          BY <2>2, <4>1, <4>3, <5>2 DEF FoldsBy
      <4>4. QED
        BY <4>2, <4>3
    <3>3. QED
      BY <3>1, <3>2
  <2>7. h \in [SUBSET (1..k+1) -> V] /\ FoldsBy(h, k+1, base, F)
    <3>1. h \in [SUBSET (1..k+1) -> V]
      BY <2>5
    <3>2. FoldsBy(h, k+1, base, F)
      BY <2>6 DEF FoldsBy
    <3>3. QED
      BY <3>1, <3>2
  <2>8. QED
    BY <2>7 DEF Good
<1>3. n \in T
  <2> HIDE DEF T
  <2>1. QED
    BY <1>1, <1>2, Induction
<1>4. Good(n)
  <2> HIDE DEF Good
  <2>1. n <= n
    OBVIOUS
  <2>2. QED
    BY <1>3, <2>1
<1>5. QED
  BY <1>4

\* The values that it gives to the first 0, 1, ... n places.
Values(it, n) == [k \in 0..n |-> it[1..k]]

LEMMA FoldValues ==
  ASSUME NEW n \in Nat, NEW V, NEW base \in V, NEW F,
         StaysIn(V, n, F),
         NEW it, FoldsBy(it, n, base, F)
  PROVE  /\ Values(it, n) \in [0..n -> V]
         /\ Values(it, n)[0] = base /\ Values(it, n)[n] = it[1..n]
         /\ \A k \in 0..n-1 : Values(it, n)[k+1] = F[<<Values(it, n)[k], k+1>>]
<1> DEFINE h == Values(it, n)
<1>h. h = [k \in 0..n |-> it[1..k]]
  BY DEF Values
<1> HIDE DEF h
<1>1. h[0] = base /\ h[n] = it[1..n]
  <2>1. 1..0 = {} /\ {} \in SUBSET (1..n) /\ 0 \in 0..n /\ n \in 0..n
    OBVIOUS
  <2>2. it[{}] = base
    BY <2>1 DEF FoldsBy
  <2>3. QED
    BY <1>h, <2>1, <2>2
<1>2. ASSUME NEW k \in 0..n-1 PROVE h[k+1] = F[<<h[k], k+1>>]
  <2>1. /\ 1..k+1 \in SUBSET (1..n) /\ 1..k+1 # {} /\ k+1 \in 1..k+1
        /\ (1..k+1) \ {k+1} = 1..k /\ k \in 0..n /\ k+1 \in 0..n
    <3>1. 1..k+1 \in SUBSET (1..n) /\ k+1 \in 1..k+1 /\ k \in 0..n /\ k+1 \in 0..n
      OBVIOUS
    <3>2. \A x : x \in 1..k <=> x \in 1..k+1 /\ x # k+1
      OBVIOUS
    <3>3. QED
      BY <3>1, <3>2
  <2>2. Max(1..k+1) = k+1
    <3>1. Max(1..k+1) \in 1..k+1 /\ Max(1..k+1) >= k+1
      BY <2>1, MaxIsGreatest
    <3>2. QED
      BY <3>1
  <2>3. it[1..k+1] = F[<<it[(1..k+1) \ {Max(1..k+1)}], Max(1..k+1)>>]
    BY <2>1 DEF FoldsBy
  <2>4. QED
    BY <1>h, <2>1, <2>2, <2>3
<1>3. h \in [0..n -> V]
  <2> DEFINE T == {k \in Nat : k <= n => h[k] \in V}
  <2>1. 0 \in T
    BY <1>1
  <2>2. ASSUME NEW k \in Nat, k \in T PROVE k+1 \in T
    <3>1. CASE k+1 <= n
      <4>1. k \in 0..n-1 /\ k+1 \in 1..n /\ h[k] \in V
        BY <2>2, <3>1
      <4>2. h[k+1] = F[<<h[k], k+1>>]
        BY <1>2, <4>1
      <4>3. h[k+1] \in V
        BY <4>1, <4>2 DEF StaysIn
      <4>4. QED
        BY <4>3
    <3>2. QED
      BY <3>1
  <2>3. Nat \subseteq T
    <3> HIDE DEF T
    <3>1. QED
      BY <2>1, <2>2, Induction
  <2>4. \A k \in 0..n : h[k] \in V
    BY <2>3
  <2>5. QED
    BY <1>h, <2>4
<1>4. QED
  BY <1>1, <1>2, <1>3 DEF h

\* The same of a function that is only known to go on as F does from values in
\* V: this is what the definition of FoldLeft gives for an operator.
GoesOnBy(it, n, V, base, F) ==
  /\ it[{}] = base
  /\ \A s \in SUBSET (1..n) :
       s # {} /\ it[s \ {Max(s)}] \in V => it[s] = F[<<it[s \ {Max(s)}], Max(s)>>]

LEMMA FoldSteps ==
  ASSUME NEW n \in Nat, NEW V, NEW base \in V, NEW F,
         StaysIn(V, n, F),
         NEW it, GoesOnBy(it, n, V, base, F)
  PROVE  /\ Values(it, n) \in [0..n -> V]
         /\ Values(it, n)[0] = base /\ Values(it, n)[n] = it[1..n]
         /\ \A k \in 0..n-1 : Values(it, n)[k+1] = F[<<Values(it, n)[k], k+1>>]
<1> DEFINE T == {s \in SUBSET (1..n) : it[s] \in V}
<1>1. {} \in T
  BY DEF GoesOnBy
<1>2. ASSUME NEW s \in SUBSET (1..n), s # {}, s \ {Max(s)} \in T PROVE s \in T
  <2>1. Max(s) \in 1..n
    BY <1>2, MaxIsGreatest
  <2>2. it[s] = F[<<it[s \ {Max(s)}], Max(s)>>]
    BY <1>2 DEF GoesOnBy
  <2>3. QED
    BY <1>2, <2>1, <2>2 DEF StaysIn
<1>3. SUBSET (1..n) \subseteq T
  <2> HIDE DEF T
  <2>1. QED
    BY <1>1, <1>2, SetInduction
<1>4. FoldsBy(it, n, base, F)
  <2>1. ASSUME NEW s \in SUBSET (1..n), s # {}
        PROVE  it[s] = F[<<it[s \ {Max(s)}], Max(s)>>]
    <3>1. s \ {Max(s)} \in SUBSET (1..n)
      OBVIOUS
    <3>2. QED
      BY <1>3, <2>1, <3>1 DEF GoesOnBy
  <2>2. QED
    BY <2>1 DEF FoldsBy, GoesOnBy
<1> HIDE DEF T
<1>5. QED
  BY <1>4, FoldValues

-----------------------------------------------------------------------------
(* AddWords: the trie after each word.                                     *)

AddsWithin(V, text, place) ==
  \A t \in V, k \in 1..Len(text) : AddWord(t, text[k], place) \in V

LEMMA AddWordsFolds ==
  ASSUME NEW V, NEW trie \in V, NEW X, NEW text \in Seq(X), NEW place,
         AddsWithin(V, text, place)
  PROVE  \E h \in [0..Len(text) -> V] :
           /\ h[0] = trie /\ h[Len(text)] = AddWords(trie, text, place)
           /\ \A k \in 0..Len(text)-1 : h[k+1] = AddWord(h[k], text[k+1], place)
<1> DEFINE n == Len(text)
           F == [vk \in V \X (1..n) |-> AddWord(vk[1], text[vk[2]], place)]
           Folds(it) == it = [s \in SUBSET (DOMAIN text) |->
                                IF s = {} THEN trie
                                ELSE AddWord(it[s \ {Max(s)}], text[Max(s)], place)]
           iter == CHOOSE it : Folds(it)
<1>1. n \in Nat /\ DOMAIN text = 1..n
  BY LenProperties
<1>2. \A v \in V, k \in 1..n : F[<<v, k>>] = AddWord(v, text[k], place) /\ F[<<v, k>>] \in V
  BY DEF AddsWithin
<1>3. AddWords(trie, text, place) = iter[DOMAIN text]
  BY DEF AddWords, FoldLeft, MapThenFoldSet
<1> HIDE DEF n, F
<1>4. \A s \in SUBSET (1..n) : s # {} => s \ {Max(s)} \in SUBSET (1..n) /\ Max(s) \in 1..n
  BY <1>1, MaxIsGreatest
<1>5. \E it : Folds(it)
  <2>1. PICK it \in [SUBSET (1..n) -> V] : FoldsBy(it, n, trie, F)
    <3>1. StaysIn(V, n, F)
      BY <1>2 DEF StaysIn
    <3>2. QED
      BY <1>1, <3>1, FoldExists
  <2>2. \A s \in SUBSET (1..n) :
          it[s] = IF s = {} THEN trie
                  ELSE AddWord(it[s \ {Max(s)}], text[Max(s)], place)
    BY <1>2, <1>4, <2>1 DEF FoldsBy
  <2>3. QED
    BY <1>1, <2>1, <2>2
<1>6. Folds(iter)
  <2> HIDE DEF Folds
  <2>1. QED
    BY <1>5
<1> HIDE DEF iter
<1>7. GoesOnBy(iter, n, V, trie, F)
  BY <1>1, <1>2, <1>4, <1>6 DEF GoesOnBy
<1> DEFINE h == Values(iter, n)
<1> HIDE DEF h, Folds
<1>8. n \in Nat /\ trie \in V /\ StaysIn(V, n, F)
  BY <1>1, <1>2 DEF StaysIn
<1>9. /\ h \in [0..n -> V] /\ h[0] = trie /\ h[n] = iter[1..n]
      /\ \A k \in 0..n-1 : h[k+1] = F[<<h[k], k+1>>]
  <2>1. /\ Values(iter, n) \in [0..n -> V]
        /\ Values(iter, n)[0] = trie /\ Values(iter, n)[n] = iter[1..n]
        /\ \A k \in 0..n-1 : Values(iter, n)[k+1] = F[<<Values(iter, n)[k], k+1>>]
    BY <1>7, <1>8, FoldSteps
  <2>2. QED
    BY <2>1 DEF h
<1>10. \A k \in 0..n-1 : h[k] \in V /\ k+1 \in 1..n
  BY <1>1, <1>9
<1>11. \A k \in 0..n-1 : h[k+1] = AddWord(h[k], text[k+1], place)
  BY <1>2, <1>9, <1>10
<1>12. QED
  BY <1>1, <1>3, <1>9, <1>11 DEF n

-----------------------------------------------------------------------------
(* FlattenSeq: one sequence after the other.                               *)

\* e is somewhere in s.
Has(s, e) == \E i \in 1..Len(s) : s[i] = e

LEMMA HasConcat ==
  ASSUME NEW S, NEW s \in Seq(S), NEW t \in Seq(S), NEW e
  PROVE  Has(s \o t, e) <=> Has(s, e) \/ Has(t, e)
<1>1. /\ Len(s) \in Nat /\ Len(t) \in Nat /\ Len(s \o t) = Len(s) + Len(t)
      /\ \A i \in 1 .. Len(s) + Len(t) :
           (s \o t)[i] = IF i <= Len(s) THEN s[i] ELSE t[i - Len(s)]
  BY ConcatProperties, LenProperties
<1>2. ASSUME Has(s, e) PROVE Has(s \o t, e)
  <2>1. PICK i \in 1..Len(s) : s[i] = e
    BY <1>2 DEF Has
  <2>2. i \in 1 .. Len(s) + Len(t) /\ i <= Len(s)
    BY <1>1
  <2>3. QED
    BY <1>1, <2>1, <2>2 DEF Has
<1>3. ASSUME Has(t, e) PROVE Has(s \o t, e)
  <2>1. PICK i \in 1..Len(t) : t[i] = e
    BY <1>3 DEF Has
  <2>2. /\ Len(s) + i \in 1 .. Len(s) + Len(t) /\ ~(Len(s) + i <= Len(s))
        /\ (Len(s) + i) - Len(s) = i
    BY <1>1
  <2>3. QED
    BY <1>1, <2>1, <2>2 DEF Has
<1>4. ASSUME Has(s \o t, e) PROVE Has(s, e) \/ Has(t, e)
  <2>1. PICK i \in 1 .. Len(s) + Len(t) : (s \o t)[i] = e
    BY <1>1, <1>4 DEF Has
  <2>2. CASE i <= Len(s)
    <3>1. i \in 1..Len(s) /\ s[i] = e
      BY <1>1, <2>1, <2>2
    <3>2. QED
      BY <3>1 DEF Has
  <2>3. CASE ~(i <= Len(s))
    <3>1. i - Len(s) \in 1..Len(t) /\ t[i - Len(s)] = e
      BY <1>1, <2>1, <2>3
    <3>2. QED
      BY <3>1 DEF Has
  <2>4. QED
    BY <2>2, <2>3
<1>5. QED
  BY <1>2, <1>3, <1>4

LEMMA FlattenFolds ==
  ASSUME NEW S, NEW seqs \in Seq(Seq(S))
  PROVE  \E h \in [0..Len(seqs) -> Seq(S)] :
           /\ h[0] = <<>> /\ h[Len(seqs)] = FlattenSeq(seqs)
           /\ \A k \in 0..Len(seqs)-1 : h[k+1] = h[k] \o seqs[k+1]
<1> DEFINE n == Len(seqs)
           Flat(f, m) == f = [i \in 1..m |-> IF i = 1 THEN seqs[i] ELSE f[i-1] \o seqs[i]]
           flatten == CHOOSE f : Flat(f, n)
<1>1. n \in Nat /\ \A i \in 1..n : seqs[i] \in Seq(S)
  BY LenProperties, ElementOfSeq
<1>2. CASE n = 0
  <2>1. seqs = <<>> /\ FlattenSeq(seqs) = seqs /\ <<>> \in Seq(S)
    BY <1>2, EmptySeq DEF FlattenSeq
  <2> DEFINE h == [k \in 0..n |-> <<>>]
  <2>2. /\ h \in [0..n -> Seq(S)] /\ h[0] = <<>> /\ h[n] = FlattenSeq(seqs)
        /\ \A k \in 0..n-1 : h[k+1] = h[k] \o seqs[k+1]
    BY <1>2, <2>1
  <2> HIDE DEF h
  <2>3. QED
    BY <2>2
<1>3. CASE n # 0
  <2>1. FlattenSeq(seqs) = flatten[n]
    BY <1>3 DEF FlattenSeq
  <2> DEFINE Good(k) == \E f \in [1..k -> Seq(S)] : Flat(f, k)
             T == {k \in Nat : k <= n => Good(k)}
  <2> HIDE DEF n
  <2>2. 0 \in T
    <3> DEFINE f == [i \in 1..0 |-> <<>>]
    <3>1. f \in [1..0 -> Seq(S)] /\ Flat(f, 0)
      OBVIOUS
    <3> HIDE DEF f, Flat
    <3>2. QED
      BY <3>1
  <2>3. ASSUME NEW k \in Nat, k \in T PROVE k+1 \in T
    <3> HIDE DEF Good
    <3>1. SUFFICES ASSUME k+1 <= n PROVE Good(k+1)
      OBVIOUS
    <3>2. Good(k)
      <4>1. k <= n
        BY <1>1, <3>1
      <4>2. QED
        BY <2>3, <4>1
    <3> HIDE DEF Flat
    <3>3. PICK f \in [1..k -> Seq(S)] : Flat(f, k)
      BY <3>2 DEF Good
    <3> DEFINE g == [i \in 1..k+1 |->
                       IF i = k+1 THEN (IF k = 0 THEN seqs[1] ELSE f[k] \o seqs[k+1])
                       ELSE f[i]]
    <3>4. k+1 \in 1..n /\ seqs[k+1] \in Seq(S)
      BY <1>1, <3>1
    <3>5. k # 0 => k \in 1..k /\ f[k] \o seqs[k+1] \in Seq(S)
      BY <3>4, ConcatProperties
    <3>6. \A i \in 1..k+1 : i # k+1 => i \in 1..k
      OBVIOUS
    <3>7. \A i \in 1..k+1 : g[i] \in Seq(S)
      BY <3>4, <3>5, <3>6
    <3>8. ASSUME NEW i \in 1..k+1
          PROVE  g[i] = IF i = 1 THEN seqs[i] ELSE g[i-1] \o seqs[i]
      <4>1. CASE i = k+1
        <5>1. k = 0 \/ (k \in 1..k /\ k+1 # 1 /\ k # k+1 /\ k \in 1..k+1 /\ (k+1)-1 = k)
          OBVIOUS
        <5>. k+1 \in 1..k+1
          OBVIOUS
        <5>2. CASE k = 0
          BY <4>1, <5>2
        <5>3. CASE k # 0
          <6>1. g[k] = f[k] /\ g[k+1] = f[k] \o seqs[k+1]
            BY <5>1, <5>3
          <6>2. QED
            BY <4>1, <5>1, <5>3, <6>1
        <5>4. QED
          BY <5>2, <5>3
      <4>2. CASE i # k+1
        <5>1. i \in 1..k /\ (i # 1 => i-1 \in 1..k /\ i-1 # k+1 /\ i-1 \in 1..k+1)
          BY <4>2
        <5>2. g[i] = f[i] /\ (i # 1 => g[i-1] = f[i-1])
          BY <4>2, <5>1
        <5>3. f[i] = IF i = 1 THEN seqs[i] ELSE f[i-1] \o seqs[i]
          BY <3>3, <5>1 DEF Flat
        <5>4. QED
          BY <5>2, <5>3
      <4>3. QED
        BY <4>1, <4>2
    <3>9. g \in [1..k+1 -> Seq(S)]
      BY <3>7
    <3>10. Flat(g, k+1)
      BY <3>8 DEF Flat
    <3> HIDE DEF g
    <3>11. QED
      BY <3>9, <3>10 DEF Good
  <2>4. n \in T
    <3> HIDE DEF T
    <3>1. QED
      BY <1>1, <2>2, <2>3, Induction
  <2>5. Good(n)
    <3> HIDE DEF Good
    <3>1. n <= n
      BY <1>1
    <3>2. QED
      BY <2>4, <3>1
  <2>6. Flat(flatten, n)
    <3> HIDE DEF Flat
    <3>1. \E f : Flat(f, n)
      BY <2>5
    <3>2. QED
      BY <3>1
  <2> HIDE DEF flatten, Good, T
  <2>7. \A i \in 1..n : flatten[i] = IF i = 1 THEN seqs[i] ELSE flatten[i-1] \o seqs[i]
    BY <2>6
  <2> HIDE DEF Flat
  <2> DEFINE h == [k \in 0..n |-> IF k = 0 THEN <<>> ELSE flatten[k]]
  <2>8. \A k \in 0..n-1 : h[k+1] = h[k] \o seqs[k+1]
    <3>1. ASSUME NEW k \in 0..n-1 PROVE h[k+1] = h[k] \o seqs[k+1]
      <4>1. k+1 \in 1..n /\ k+1 # 0 /\ k \in 0..n /\ k+1 \in 0..n /\ (k+1)-1 = k
        BY <1>1
      <4>h. h[k+1] = flatten[k+1] /\ h[k] = IF k = 0 THEN <<>> ELSE flatten[k]
        BY <4>1
      <4> HIDE DEF h
      <4>2. CASE k = 0
        <5>1. <<>> \o seqs[1] = seqs[1] /\ seqs[k+1] = seqs[1] /\ k+1 = 1
          BY <1>1, <4>1, <4>2, ConcatEmptySeq
        <5>2. flatten[k+1] = seqs[1] /\ h[k] = <<>>
          BY <2>7, <4>1, <4>2, <4>h, <5>1
        <5>3. QED
          BY <4>h, <5>1, <5>2
      <4>3. CASE k # 0
        <5>1. k+1 # 1
          BY <4>3
        <5>2. flatten[k+1] = flatten[(k+1)-1] \o seqs[k+1]
          <6>1. PICK i \in 1..n : i = k+1
            BY <4>1
          <6>2. flatten[i] = flatten[i-1] \o seqs[i]
            BY <2>7, <5>1, <6>1
          <6>3. QED
            BY <6>1, <6>2
        <5>3. QED
          BY <4>1, <4>3, <4>h, <5>2
      <4>4. QED
        BY <4>2, <4>3
    <3>2. QED
      BY <3>1
  <2>9. h[0] = <<>> /\ h[n] = FlattenSeq(seqs) /\ DOMAIN h = 0..n /\ h = [k \in 0..n |-> h[k]]
    BY <1>1, <1>3, <2>1 DEF n
  <2> HIDE DEF h
  <2>10. h \in [0..n -> Seq(S)]
    <3> DEFINE U == {k \in Nat : k <= n => h[k] \in Seq(S)}
    <3>1. 0 \in U
      BY <2>9, EmptySeq
    <3>2. ASSUME NEW k \in Nat, k \in U PROVE k+1 \in U
      <4>1. CASE k+1 <= n
        <5>1. k \in 0..n-1 /\ h[k] \in Seq(S) /\ k+1 \in 1..n
          BY <1>1, <3>2, <4>1
        <5>2. h[k+1] \in Seq(S)
          BY <1>1, <2>8, <5>1, ConcatProperties
        <5>3. QED
          BY <5>2
      <4>2. QED
        BY <4>1
    <3>3. Nat \subseteq U
      <4> HIDE DEF U
      <4>1. QED
        BY <3>1, <3>2, Induction
    <3>4. \A k \in 0..n : h[k] \in Seq(S)
      BY <1>1, <3>3
    <3>5. QED
      BY <2>9, <3>4
  <2>11. QED
    BY <2>8, <2>9, <2>10 DEF n
<1>4. QED
  BY <1>2, <1>3

\* FlattenSeq has what the sequences have.
LEMMA FlattenHas ==
  ASSUME NEW S, NEW seqs \in Seq(Seq(S))
  PROVE  /\ FlattenSeq(seqs) \in Seq(S)
         /\ \A e : Has(FlattenSeq(seqs), e) <=> \E k \in 1..Len(seqs) : Has(seqs[k], e)
<1> DEFINE n == Len(seqs)
<1>1. n \in Nat /\ \A i \in 1..n : seqs[i] \in Seq(S)
  BY LenProperties, ElementOfSeq
<1>2. PICK h \in [0..n -> Seq(S)] :
        /\ h[0] = <<>> /\ h[n] = FlattenSeq(seqs)
        /\ \A k \in 0..n-1 : h[k+1] = h[k] \o seqs[k+1]
  BY FlattenFolds
<1> HIDE DEF n
<1>3. ASSUME NEW e
      PROVE  Has(h[n], e) <=> \E k \in 1..n : Has(seqs[k], e)
  <2> DEFINE U == {k \in Nat : k <= n => (Has(h[k], e) <=> \E m \in 1..k : Has(seqs[m], e))}
  <2>1. 0 \in U
    BY <1>2 DEF Has
  <2>2. ASSUME NEW k \in Nat, k \in U PROVE k+1 \in U
    <3>1. SUFFICES ASSUME k+1 <= n
                   PROVE  Has(h[k+1], e) <=> \E m \in 1..k+1 : Has(seqs[m], e)
      OBVIOUS
    <3>2. k \in 0..n-1 /\ k+1 \in 1..n /\ k <= n /\ k \in 0..n
      BY <1>1, <3>1
    <3>3. Has(h[k], e) <=> \E m \in 1..k : Has(seqs[m], e)
      BY <2>2, <3>2
    <3>4. Has(h[k+1], e) <=> Has(h[k], e) \/ Has(seqs[k+1], e)
      <4>1. h[k] \in Seq(S) /\ seqs[k+1] \in Seq(S) /\ h[k+1] = h[k] \o seqs[k+1]
        BY <1>1, <1>2, <3>2
      <4>2. QED
        BY <4>1, HasConcat
    <3>5. \A m : m \in 1..k+1 <=> m \in 1..k \/ m = k+1
      OBVIOUS
    <3>6. QED
      BY <3>3, <3>4, <3>5
  <2>3. Nat \subseteq U
    <3> HIDE DEF U
    <3>1. QED
      BY <2>1, <2>2, Induction
  <2>4. n \in U /\ n <= n
    BY <1>1, <2>3
  <2>5. QED
    BY <2>4
<1>4. QED
  BY <1>1, <1>2, <1>3 DEF n

-----------------------------------------------------------------------------
(* Lists and posting lists.                                                *)

\* Lists of elements of S that have not outgrown their array, and will not.
ListOf(S) == {l \in [items : Seq(S), allocated : Nat, start_from : Int] :
                l.allocated > 1 /\ Len(l.items) <= l.allocated}

LEMMA NewListFits ==
  ASSUME NEW S, NEW a \in Nat, a > 1
  PROVE  NewList(a) \in ListOf(S) /\ NewList(a).items = <<>>
BY EmptySeq DEF NewList, ListOf

\* An element is appended, and the list grows in time.
LEMMA AppendFits ==
  ASSUME NEW S, NEW l \in ListOf(S), NEW x \in S
  PROVE  /\ AppendElement(l, x) \in ListOf(S)
         /\ AppendElement(l, x).items = Append(l.items, x)
         /\ AppendElement(l, x).start_from = l.start_from
<1>1. /\ l \in [items : Seq(S), allocated : Nat, start_from : Int]
      /\ l.allocated > 1 /\ Len(l.items) <= l.allocated /\ Len(l.items) \in Nat
  BY LenProperties DEF ListOf
<1>2. Append(l.items, x) \in Seq(S) /\ Len(Append(l.items, x)) = Len(l.items)+1
  BY <1>1, AppendProperties
<1>3. CASE Len(l.items) >= l.allocated
  <2> DEFINE a == (l.allocated * 3) \div 2
  <2>1. a \in Nat /\ a > l.allocated
    BY <1>1
  <2>2. AppendElement(l, x) = [[l EXCEPT !.allocated = a] EXCEPT !.items = Append(@, x)]
    BY <1>3 DEF AppendElement, AllocateMore
  <2> HIDE DEF a
  <2>3. AppendElement(l, x) = [items |-> Append(l.items, x), allocated |-> a,
                               start_from |-> l.start_from]
    BY <1>1, <2>2
  <2>4. Len(Append(l.items, x)) <= a /\ a > 1
    BY <1>1, <1>2, <2>1
  <2>5. QED
    BY <1>1, <1>2, <2>1, <2>3, <2>4 DEF ListOf
<1>4. CASE ~(Len(l.items) >= l.allocated)
  <2>1. AppendElement(l, x) = [l EXCEPT !.items = Append(@, x)]
    BY <1>4 DEF AppendElement
  <2>2. AppendElement(l, x) = [items |-> Append(l.items, x), allocated |-> l.allocated,
                               start_from |-> l.start_from]
    BY <1>1, <2>1
  <2>3. Len(Append(l.items, x)) <= l.allocated
    BY <1>1, <1>2, <1>4
  <2>4. QED
    BY <1>1, <1>2, <2>2, <2>3 DEF ListOf
<1>5. QED
  BY <1>3, <1>4

\* Posting lists with places of P: no two postings are of one place.
Posting(P) == [place : P, times : Nat \ {0}]

PostingList(P) ==
  {l \in ListOf(Posting(P)) :
     \A i, j \in 1..Len(l.items) : l.items[i].place = l.items[j].place => i = j}

\* How often a posting list has the place p.
Times(l, p) ==
  IF \E j \in 1..Len(l.items) : l.items[j].place = p
  THEN l.items[CHOOSE j \in 1..Len(l.items) : l.items[j].place = p].times
  ELSE 0

\* m has the place p once more than l, and nothing else more or less often.
OneMore(m, l, p) ==
  Times(m, p) = Times(l, p) + 1 /\ \A q : q # p => Times(m, q) = Times(l, q)

LEMMA TimesAt ==
  ASSUME NEW P, NEW l \in PostingList(P), NEW j \in 1..Len(l.items)
  PROVE  Times(l, l.items[j].place) = l.items[j].times
<1> DEFINE p == l.items[j].place
           i == CHOOSE m \in 1..Len(l.items) : l.items[m].place = p
<1>1. i \in 1..Len(l.items) /\ l.items[i].place = p
  OBVIOUS
<1>2. i = j
  BY <1>1 DEF PostingList
<1>3. Times(l, p) = l.items[i].times
  BY DEF Times
<1>4. QED
  BY <1>2, <1>3

LEMMA TimesType ==
  ASSUME NEW P, NEW l \in PostingList(P), NEW p
  PROVE  /\ Times(l, p) \in Nat
         /\ Times(l, p) = 0 <=> \A j \in 1..Len(l.items) : l.items[j].place # p
<1>1. \A j \in 1..Len(l.items) : l.items[j] \in Posting(P)
  BY ElementOfSeq DEF PostingList, ListOf
<1>2. CASE \E j \in 1..Len(l.items) : l.items[j].place = p
  <2>1. PICK j \in 1..Len(l.items) : l.items[j].place = p
    BY <1>2
  <2>2. Times(l, p) = l.items[j].times
    BY <2>1, TimesAt
  <2>3. l.items[j].times \in Nat \ {0}
    BY <1>1 DEF Posting
  <2>4. QED
    BY <1>2, <2>2, <2>3
<1>3. CASE ~ \E j \in 1..Len(l.items) : l.items[j].place = p
  BY <1>3 DEF Times
<1>4. QED
  BY <1>2, <1>3

\* A new posting.
LEMMA NewPosting ==
  ASSUME NEW P, NEW l \in PostingList(P), NEW p \in P,
         \A j \in 1..Len(l.items) : l.items[j].place # p
  PROVE  LET m == AppendElement(l, [place |-> p, times |-> 1])
         IN  m \in PostingList(P) /\ OneMore(m, l, p)
<1> DEFINE x == [place |-> p, times |-> 1]
           m == AppendElement(l, x)
           n == Len(l.items)
<1>1. x \in Posting(P) /\ l \in ListOf(Posting(P)) /\ x.place = p /\ x.times = 1
  BY DEF Posting, PostingList
<1> HIDE DEF x
<1>2. m \in ListOf(Posting(P)) /\ m.items = Append(l.items, x)
  BY <1>1, AppendFits
<1>3. l.items \in Seq(Posting(P)) /\ n \in Nat
  BY <1>1, LenProperties DEF ListOf
<1>4. /\ Len(m.items) = n+1 /\ m.items[n+1] = x
      /\ \A j \in 1..n : m.items[j] = l.items[j]
  BY <1>1, <1>2, <1>3, AppendProperties
<1> HIDE DEF m
<1>5. \A j : j \in 1..n+1 <=> j \in 1..n \/ j = n+1
  BY <1>3
<1>6. m \in PostingList(P)
  <2>1. ASSUME NEW i \in 1..n+1, NEW j \in 1..n+1, m.items[i].place = m.items[j].place
        PROVE  i = j
    <3>1. CASE i \in 1..n /\ j \in 1..n
      BY <1>4, <2>1, <3>1 DEF PostingList
    <3>2. CASE i = n+1 \/ j = n+1
      BY <1>1, <1>4, <1>5, <2>1, <3>2
    <3>3. QED
      BY <1>5, <3>1, <3>2
  <2>2. QED
    BY <1>2, <1>4, <2>1 DEF PostingList
<1>7. ASSUME NEW q
      PROVE  IF q = p THEN Times(m, q) = Times(l, q) + 1 ELSE Times(m, q) = Times(l, q)
  <2>1. CASE q = p
    <3>1. n+1 \in 1..Len(m.items) /\ m.items[n+1].place = p /\ m.items[n+1].times = 1
      BY <1>1, <1>3, <1>4
    <3>2. Times(m, p) = 1
      BY <1>6, <3>1, TimesAt
    <3>3. Times(l, p) = 0
      BY TimesType
    <3>4. QED
      BY <2>1, <3>2, <3>3
  <2>2. CASE q # p /\ \E j \in 1..n : l.items[j].place = q
    <3>1. PICK j \in 1..n : l.items[j].place = q
      BY <2>2
    <3>2. Times(l, q) = l.items[j].times /\ Times(l, q) \in Nat
      BY <3>1, TimesAt, TimesType
    <3>3. j \in 1..Len(m.items) /\ m.items[j] = l.items[j]
      BY <1>4, <1>5, <3>1
    <3>4. Times(m, q) = l.items[j].times
      BY <1>6, <3>1, <3>3, TimesAt
    <3>5. QED
      BY <2>2, <3>2, <3>4
  <2>3. CASE q # p /\ ~ \E j \in 1..n : l.items[j].place = q
    <3>1. Times(l, q) = 0
      BY <2>3, TimesType
    <3>2. \A j \in 1..Len(m.items) : m.items[j].place # q
      BY <1>1, <1>4, <1>5, <2>3
    <3>3. Times(m, q) = 0
      BY <1>6, <3>2, TimesType
    <3>4. QED
      BY <2>3, <3>1, <3>3
  <2>4. QED
    BY <2>1, <2>2, <2>3
<1>8. QED
  BY <1>6, <1>7 DEF m, x, OneMore

\* One more time in the posting at i.
LEMMA MoreTimes ==
  ASSUME NEW P, NEW l \in PostingList(P), NEW i \in 1..Len(l.items), NEW p,
         l.items[i].place = p
  PROVE  LET m == [l EXCEPT !.items[i].times = @ + 1]
         IN  m \in PostingList(P) /\ OneMore(m, l, p)
<1> DEFINE x == [l.items[i] EXCEPT !.times = @ + 1]
           s == [l.items EXCEPT ![i] = x]
           m == [l EXCEPT !.items[i].times = @ + 1]
           n == Len(l.items)
<1>1. /\ l \in [items : Seq(Posting(P)), allocated : Nat, start_from : Int]
      /\ l.items \in Seq(Posting(P)) /\ l.allocated > 1 /\ n <= l.allocated
  BY DEF PostingList, ListOf
<1>2. l.items[i] \in Posting(P) /\ n \in Nat /\ DOMAIN l.items = 1..n
  BY <1>1, ElementOfSeq, LenProperties
<1>3. x \in Posting(P) /\ x.place = p /\ x.times = l.items[i].times + 1
  BY <1>2 DEF Posting
<1>4. m = [l EXCEPT !.items = s]
  BY <1>1, <1>2
<1> HIDE DEF x
<1>5. /\ s \in Seq(Posting(P)) /\ Len(s) = n
      /\ \A j \in 1..n : s[j] = IF j = i THEN x ELSE l.items[j]
  BY <1>1, <1>3, ExceptSeq
<1> HIDE DEF s, m
<1>6. m = [items |-> s, allocated |-> l.allocated, start_from |-> l.start_from]
  BY <1>1, <1>4
<1>7. m \in ListOf(Posting(P)) /\ m.items = s
  BY <1>1, <1>5, <1>6 DEF ListOf
<1>8. m \in PostingList(P)
  <2>1. \A j \in 1..n : s[j].place = l.items[j].place
    BY <1>3, <1>5
  <2>2. QED
    BY <1>5, <1>7, <2>1 DEF PostingList
<1>9. ASSUME NEW q
      PROVE  IF q = p THEN Times(m, q) = Times(l, q) + 1 ELSE Times(m, q) = Times(l, q)
  <2>1. CASE q = p
    <3>1. Times(m, p) = l.items[i].times + 1
      BY <1>3, <1>5, <1>7, <1>8, TimesAt
    <3>2. Times(l, p) = l.items[i].times
      BY TimesAt
    <3>3. QED
      BY <2>1, <3>1, <3>2
  <2>2. CASE q # p /\ \E j \in 1..n : l.items[j].place = q
    <3>1. PICK j \in 1..n : l.items[j].place = q
      BY <2>2
    <3>2. Times(l, q) = l.items[j].times /\ Times(l, q) \in Nat
      BY <3>1, TimesAt, TimesType
    <3>3. j \in 1..Len(m.items) /\ m.items[j] = l.items[j]
      BY <1>5, <1>7, <2>2, <3>1
    <3>4. Times(m, q) = l.items[j].times
      BY <1>8, <3>1, <3>3, TimesAt
    <3>5. QED
      BY <2>2, <3>2, <3>4
  <2>3. CASE q # p /\ ~ \E j \in 1..n : l.items[j].place = q
    <3>1. Times(l, q) = 0
      BY <2>3, TimesType
    <3>2. \A j \in 1..Len(m.items) : m.items[j].place # q
      BY <1>3, <1>5, <1>7, <2>3
    <3>3. Times(m, q) = 0
      BY <1>8, <3>2, TimesType
    <3>4. QED
      BY <2>3, <3>1, <3>3
  <2>4. QED
    BY <2>1, <2>2, <2>3
<1>10. QED
  BY <1>8, <1>9 DEF m, OneMore

-----------------------------------------------------------------------------
(* What adding words does to the index.                                    *)

Tries(P) == [Word -> PostingList(P)]

LEMMA NewTrieIsEmpty ==
  ASSUME NEW P
  PROVE  /\ NewTrie \in Tries(P)
         /\ \A w \in Word : \A q : Times(NewTrie[w], q) = 0
<1>1. NewList(NodeList) \in PostingList(P) /\ Len(NewList(NodeList).items) = 0
  <2>1. NewList(NodeList) \in ListOf(Posting(P)) /\ NewList(NodeList).items = <<>>
    BY IndexAssumption, NewListFits
  <2>2. QED
    BY <2>1 DEF PostingList
<1>2. \A q : Times(NewList(NodeList), q) = 0
  BY <1>1 DEF Times
<1>3. QED
  BY <1>1, <1>2 DEF NewTrie, Tries

\* One word: its posting at this place has one more, nothing else changes.
LEMMA AddWordCounts ==
  ASSUME NEW P, NEW trie \in Tries(P), NEW w \in Word, NEW p \in P
  PROVE  /\ AddWord(trie, w, p) \in Tries(P)
         /\ OneMore(AddWord(trie, w, p)[w], trie[w], p)
         /\ \A u \in Word : u # w => AddWord(trie, w, p)[u] = trie[u]
<1> DEFINE l  == trie[w]
           at == {j \in DOMAIN l.items : l.items[j].place = p}
<1>1. l \in PostingList(P) /\ l.items \in Seq(Posting(P)) /\ DOMAIN l.items = 1..Len(l.items)
  <2>1. l \in PostingList(P)
    BY DEF Tries
  <2>2. l.items \in Seq(Posting(P))
    BY <2>1 DEF PostingList, ListOf
  <2>3. QED
    BY <2>1, <2>2, LenProperties
<1>2. \E m \in PostingList(P) :
        /\ AddWord(trie, w, p) = [trie EXCEPT ![w] = m]
        /\ OneMore(m, l, p)
  <2>1. CASE at = {}
    <3> DEFINE m == AppendElement(l, [place |-> p, times |-> 1])
    <3>1. AddWord(trie, w, p) = [trie EXCEPT ![w] = m]
      BY <2>1 DEF AddWord
    <3>2. \A j \in 1..Len(l.items) : l.items[j].place # p
      BY <1>1, <2>1
    <3>3. /\ m \in PostingList(P)
          /\ OneMore(m, l, p)
      BY <1>1, <3>2, NewPosting
    <3> HIDE DEF m
    <3>4. QED
      BY <3>1, <3>3
  <2>2. CASE at # {}
    <3>1. Min(at) \in at
      <4>1. PICK j \in at : TRUE
        BY <2>2
      <4>2. \A i \in at : i = j /\ i \in 1..Len(l.items)
        BY <1>1 DEF PostingList
      <4>3. \A i \in at : j <= i
        BY <4>2
      <4>4. QED
        BY <4>1, <4>3 DEF Min
    <3> DEFINE i == Min(at)
               m == [l EXCEPT !.items[i].times = @ + 1]
    <3>2. AddWord(trie, w, p) = [trie EXCEPT ![w] = m]
      BY <1>1, <2>2 DEF AddWord, Tries
    <3>3. i \in 1..Len(l.items) /\ l.items[i].place = p
      BY <1>1, <3>1
    <3> HIDE DEF i
    <3>4. /\ m \in PostingList(P)
          /\ OneMore(m, l, p)
      BY <1>1, <3>3, MoreTimes, Zenon
    <3> HIDE DEF m
    <3>5. QED
      BY <3>2, <3>4
  <2>3. QED
    BY <2>1, <2>2
<1>3. PICK m \in PostingList(P) :
        /\ AddWord(trie, w, p) = [trie EXCEPT ![w] = m]
        /\ OneMore(m, l, p)
  BY <1>2
<1>4. /\ [trie EXCEPT ![w] = m] \in Tries(P) /\ [trie EXCEPT ![w] = m][w] = m
      /\ \A u \in Word : u # w => [trie EXCEPT ![w] = m][u] = trie[u]
  BY DEF Tries
<1>5. QED
  BY <1>3, <1>4

\* How often a text has a word among its first k.
CountIn(text, k, w) == Cardinality({i \in 1..k : text[i] = w})

LEMMA CountNext ==
  ASSUME NEW text, NEW k \in Nat, NEW w
  PROVE  /\ CountIn(text, 0, w) = 0 /\ CountIn(text, k, w) \in Nat
         /\ text[k+1] = w => CountIn(text, k+1, w) = CountIn(text, k, w) + 1
         /\ text[k+1] # w => CountIn(text, k+1, w) = CountIn(text, k, w)
<1> DEFINE A(m) == {i \in 1..m : text[i] = w}
<1>1. IsFiniteSet(A(k)) /\ Cardinality(A(k)) \in Nat
  <2>1. IsFiniteSet(1..k) /\ A(k) \in SUBSET (1..k)
    BY FS_Interval
  <2>2. QED
    BY <2>1, FS_Subset, FS_CardinalityType
<1>2. Cardinality(A(0)) = 0
  <2>1. A(0) = {}
    OBVIOUS
  <2>2. QED
    BY <2>1, FS_EmptySet
<1>3. \A i : i \in 1..k+1 <=> i \in 1..k \/ i = k+1
  OBVIOUS
<1>4. k+1 \notin A(k)
  OBVIOUS
<1>5. CASE text[k+1] = w
  <2>1. A(k+1) = A(k) \cup {k+1}
    BY <1>3, <1>5
  <2>2. Cardinality(A(k) \cup {k+1}) = Cardinality(A(k)) + 1
    <3> HIDE DEF A
    <3>1. QED
      BY <1>1, <1>4, FS_AddElement
  <2>3. QED
    BY <1>1, <1>2, <1>5, <2>1, <2>2 DEF CountIn
<1>6. CASE text[k+1] # w
  <2>1. A(k+1) = A(k)
    BY <1>3, <1>6
  <2>2. QED
    BY <1>1, <1>2, <1>6, <2>1 DEF CountIn
<1>7. QED
  BY <1>5, <1>6

\* A text: each of its words has as many more at this place as it occurs.
LEMMA AddWordsCounts ==
  ASSUME NEW P, NEW trie \in Tries(P), NEW text \in Seq(Word), NEW p \in P
  PROVE  /\ AddWords(trie, text, p) \in Tries(P)
         /\ \A u \in Word :
              /\ Times(AddWords(trie, text, p)[u], p)
                   = Times(trie[u], p) + CountIn(text, Len(text), u)
              /\ \A q : q # p => Times(AddWords(trie, text, p)[u], q) = Times(trie[u], q)
<1> DEFINE n == Len(text)
<1>1. n \in Nat /\ \A k \in 1..n : text[k] \in Word
  BY LenProperties, ElementOfSeq
<1>2. PICK h \in [0..n -> Tries(P)] :
        /\ h[0] = trie /\ h[n] = AddWords(trie, text, p)
        /\ \A k \in 0..n-1 : h[k+1] = AddWord(h[k], text[k+1], p)
  <2>1. AddsWithin(Tries(P), text, p)
    BY <1>1, AddWordCounts DEF AddsWithin
  <2>2. QED
    BY <2>1, AddWordsFolds
<1> HIDE DEF n
<1>3. ASSUME NEW u \in Word
      PROVE  /\ Times(h[n][u], p) = Times(trie[u], p) + CountIn(text, n, u)
             /\ \A q : q # p => Times(h[n][u], q) = Times(trie[u], q)
  <2> DEFINE Right(k) == /\ Times(h[k][u], p) = Times(trie[u], p) + CountIn(text, k, u)
                         /\ \A q : q # p => Times(h[k][u], q) = Times(trie[u], q)
             U == {k \in Nat : k <= n => Right(k)}
  <2>1. Times(trie[u], p) \in Nat
    BY TimesType DEF Tries
  <2>2. 0 \in U
    BY <1>2, <2>1, CountNext
  <2>3. ASSUME NEW k \in Nat, k \in U PROVE k+1 \in U
    <3> HIDE DEF Right
    <3>1. SUFFICES ASSUME k+1 <= n PROVE Right(k+1)
      OBVIOUS
    <3>2. k \in 0..n-1 /\ k+1 \in 1..n /\ k <= n /\ k \in 0..n
      BY <1>1, <3>1
    <3>3. Right(k)
      BY <2>3, <3>2
    <3>4. h[k] \in Tries(P) /\ text[k+1] \in Word /\ h[k+1] = AddWord(h[k], text[k+1], p)
      BY <1>1, <1>2, <3>2
    <3>5. /\ OneMore(h[k+1][text[k+1]], h[k][text[k+1]], p)
          /\ u # text[k+1] => h[k+1][u] = h[k][u]
      BY <3>4, AddWordCounts
    <3>6. /\ CountIn(text, k, u) \in Nat
          /\ text[k+1] = u => CountIn(text, k+1, u) = CountIn(text, k, u) + 1
          /\ text[k+1] # u => CountIn(text, k+1, u) = CountIn(text, k, u)
      BY CountNext
    <3>7. CASE text[k+1] = u
      <4>1. OneMore(h[k+1][u], h[k][u], p)
        BY <3>5, <3>7
      <4>2. QED
        BY <2>1, <3>3, <3>6, <3>7, <4>1 DEF Right, OneMore
    <3>8. CASE text[k+1] # u
      BY <3>3, <3>5, <3>6, <3>8 DEF Right
    <3>9. QED
      BY <3>7, <3>8
  <2>4. Nat \subseteq U
    <3> HIDE DEF U
    <3>1. QED
      BY <2>2, <2>3, Induction
  <2>5. n \in U /\ n <= n
    BY <1>1, <2>4
  <2> HIDE DEF Right
  <2>6. Right(n)
    BY <2>5
  <2>7. QED
    BY <2>6 DEF Right
<1>4. n \in 0..n
  BY <1>1
<1>5. QED
  BY <1>2, <1>3, <1>4 DEF n

-----------------------------------------------------------------------------
(* The postings of a query.                                                *)

LEMMA MinOfTwo ==
  ASSUME NEW a \in Int, NEW b \in Int
  PROVE  Min({a, b}) = IF a <= b THEN a ELSE b
<1>1. \E x \in {a, b} : \A y \in {a, b} : x <= y
  OBVIOUS
<1>2. Min({a, b}) \in {a, b} /\ \A y \in {a, b} : Min({a, b}) <= y
  BY <1>1 DEF Min
<1>3. QED
  BY <1>2

LEMMA MaxOfTwo ==
  ASSUME NEW a \in Int, NEW b \in Int
  PROVE  Max({a, b}) = IF a >= b THEN a ELSE b
<1>1. \E x \in {a, b} : \A y \in {a, b} : x >= y
  OBVIOUS
<1>2. Max({a, b}) \in {a, b} /\ \A y \in {a, b} : Max({a, b}) >= y
  BY <1>1 DEF Max
<1>3. QED
  BY <1>2

HasPlace(postings, d) == \E i \in 1..Len(postings) : postings[i].place = d

HasOneOf(trie, q, d) == \E k \in 1..Len(q) : Times(trie[q[k]], d) # 0

\* They are of the places that have a word of the query, and of no others.
LEMMA AppearancesHave ==
  ASSUME NEW P, NEW trie \in Tries(P), NEW q \in Seq(Word)
  PROVE  /\ Appearances(trie, q) \in Seq(Posting(P))
         /\ \A d : HasPlace(Appearances(trie, q), d) <=> HasOneOf(trie, q, d)
<1> DEFINE seqs == [k \in DOMAIN q |-> trie[q[k]].items]
           a == Appearances(trie, q)
<1>1. Len(q) \in Nat /\ DOMAIN q = 1..Len(q) /\ \A k \in 1..Len(q) : q[k] \in Word
  BY LenProperties, ElementOfSeq
<1>2. \A k \in 1..Len(q) : trie[q[k]] \in PostingList(P)
  BY <1>1 DEF Tries
<1>3. \A k \in 1..Len(q) : trie[q[k]].items \in Seq(Posting(P))
  BY <1>2 DEF PostingList, ListOf
<1>4. seqs \in Seq(Seq(Posting(P))) /\ Len(seqs) = Len(q)
  <2>1. seqs \in [1..Len(q) -> Seq(Posting(P))]
    BY <1>1, <1>3
  <2> HIDE DEF seqs
  <2>2. QED
    BY <1>1, <2>1
<1>5. \A k \in 1..Len(q) : seqs[k] = trie[q[k]].items
  BY <1>1
<1>6. a = FlattenSeq(seqs)
  BY DEF Appearances
<1> HIDE DEF seqs, a
<1>7. a \in Seq(Posting(P)) /\ \A e : Has(a, e) <=> \E k \in 1..Len(seqs) : Has(seqs[k], e)
  BY <1>4, <1>6, FlattenHas
<1>8. ASSUME NEW d, NEW i \in 1..Len(a), a[i].place = d
      PROVE  \E k \in 1..Len(q) : Times(trie[q[k]], d) # 0
  <2>1. Has(a, a[i])
    BY DEF Has
  <2>2. PICK k \in 1..Len(q) : Has(seqs[k], a[i])
    BY <1>4, <1>7, <2>1
  <2>3. PICK j \in 1..Len(trie[q[k]].items) : trie[q[k]].items[j] = a[i]
    BY <1>5, <2>2 DEF Has
  <2>4. Times(trie[q[k]], d) # 0
    BY <1>2, <1>8, <2>3, TimesType
  <2>5. QED
    BY <2>4
<1>9. ASSUME NEW d, NEW k \in 1..Len(q), Times(trie[q[k]], d) # 0
      PROVE  \E i \in 1..Len(a) : a[i].place = d
  <2>1. PICK j \in 1..Len(trie[q[k]].items) : trie[q[k]].items[j].place = d
    BY <1>2, <1>9, TimesType
  <2>2. Has(seqs[k], trie[q[k]].items[j])
    BY <1>5, <2>1 DEF Has
  <2>3. Has(a, trie[q[k]].items[j])
    BY <1>4, <1>7, <2>2
  <2>4. QED
    BY <2>1, <2>3 DEF Has
<1>10. \A d : HasPlace(a, d) <=> HasOneOf(trie, q, d)
  BY <1>8, <1>9 DEF HasPlace, HasOneOf
<1>11. QED
  BY <1>7, <1>10 DEF a

-----------------------------------------------------------------------------
(* Counting by blocks: tag[j] with each element of D[j].                   *)

Blocks(tag, D, k) == UNION {{tag[j]} \X D[j] : j \in 1..k}

Different(tag, n) == \A i, j \in 1..n : tag[i] = tag[j] => i = j

AllFinite(D, n) == \A j \in 1..n : IsFiniteSet(D[j])

Adding(tag, D, n) ==
  /\ Cardinality(Blocks(tag, D, 0)) = 0
  /\ \A k \in 0..n : Cardinality(Blocks(tag, D, k)) \in Nat
  /\ \A k \in 0..n-1 : Cardinality(Blocks(tag, D, k+1))
                         = Cardinality(Blocks(tag, D, k)) + Cardinality(D[k+1])

LEMMA UpTo ==
  ASSUME NEW t \in Nat
  PROVE  IsFiniteSet(1..t) /\ Cardinality(1..t) = t
<1>1. IsFiniteSet(1..t) /\ Cardinality(1..t) = IF 1 > t THEN 0 ELSE t-1+1
  BY FS_Interval
<1>2. QED
  BY <1>1

LEMMA PairCount ==
  ASSUME NEW t, NEW D, IsFiniteSet(D)
  PROVE  IsFiniteSet({t} \X D) /\ Cardinality({t} \X D) = Cardinality(D)
<1>1. IsFiniteSet({t}) /\ Cardinality({t}) = 1
  BY FS_Singleton
<1>2. IsFiniteSet({t} \X D) /\ Cardinality({t} \X D) = Cardinality({t}) * Cardinality(D)
  BY <1>1, FS_Product
<1>3. Cardinality(D) \in Nat
  BY FS_CardinalityType
<1>4. QED
  BY <1>1, <1>2, <1>3

LEMMA BlocksCount ==
  ASSUME NEW n \in Nat, NEW tag, NEW D, Different(tag, n), AllFinite(D, n)
  PROVE  /\ Blocks(tag, D, 0) = {} /\ Cardinality(Blocks(tag, D, 0)) = 0
         /\ \A k \in 0..n : IsFiniteSet(Blocks(tag, D, k)) /\ Cardinality(Blocks(tag, D, k)) \in Nat
         /\ \A k \in 0..n-1 : Cardinality(Blocks(tag, D, k+1))
                                = Cardinality(Blocks(tag, D, k)) + Cardinality(D[k+1])
<1>1. Blocks(tag, D, 0) = {} /\ Cardinality(Blocks(tag, D, 0)) = 0
  <2>1. Blocks(tag, D, 0) = {}
    BY DEF Blocks
  <2>2. QED
    BY <2>1, FS_EmptySet
<1>2. ASSUME NEW k \in 0..n-1
      PROVE  /\ Blocks(tag, D, k+1) = Blocks(tag, D, k) \cup ({tag[k+1]} \X D[k+1])
             /\ Blocks(tag, D, k) \cap ({tag[k+1]} \X D[k+1]) = {}
             /\ IsFiniteSet({tag[k+1]} \X D[k+1])
             /\ Cardinality({tag[k+1]} \X D[k+1]) = Cardinality(D[k+1])
             /\ Cardinality(D[k+1]) \in Nat
  <2>1. \A j : j \in 1..k+1 <=> j \in 1..k \/ j = k+1
    OBVIOUS
  <2>2. Blocks(tag, D, k+1) = Blocks(tag, D, k) \cup ({tag[k+1]} \X D[k+1])
    BY <2>1 DEF Blocks
  <2>3. k+1 \in 1..n /\ \A j \in 1..k : j \in 1..n /\ j # k+1
    OBVIOUS
  <2>4. \A e \in Blocks(tag, D, k) : e[1] # tag[k+1]
    BY <2>3 DEF Blocks, Different
  <2>5. \A e \in {tag[k+1]} \X D[k+1] : e[1] = tag[k+1]
    OBVIOUS
  <2>6. IsFiniteSet(D[k+1])
    BY <2>3 DEF AllFinite
  <2>7. QED
    BY <2>2, <2>4, <2>5, <2>6, PairCount, FS_CardinalityType
<1> DEFINE U == {k \in Nat : k <= n => IsFiniteSet(Blocks(tag, D, k))}
<1>3. Nat \subseteq U
  <2>1. 0 \in U
    BY <1>1, FS_EmptySet
  <2>2. ASSUME NEW k \in Nat, k \in U PROVE k+1 \in U
    <3>1. CASE k+1 <= n
      <4>1. k \in 0..n-1 /\ IsFiniteSet(Blocks(tag, D, k))
        BY <2>2, <3>1
      <4>2. IsFiniteSet(Blocks(tag, D, k+1))
        <5> DEFINE A == Blocks(tag, D, k)
                   B == {tag[k+1]} \X D[k+1]
        <5>1. Blocks(tag, D, k+1) = A \cup B /\ IsFiniteSet(A) /\ IsFiniteSet(B)
          BY <1>2, <4>1
        <5> HIDE DEF A, B
        <5>2. QED
          BY <5>1, FS_Union
      <4>3. QED
        BY <4>2
    <3>2. QED
      BY <3>1
  <2> HIDE DEF U
  <2>3. QED
    BY <2>1, <2>2, Induction
<1>4. \A k \in 0..n : IsFiniteSet(Blocks(tag, D, k)) /\ Cardinality(Blocks(tag, D, k)) \in Nat
  BY <1>3, FS_CardinalityType
<1>5. ASSUME NEW k \in 0..n-1
      PROVE  Cardinality(Blocks(tag, D, k+1)) = Cardinality(Blocks(tag, D, k)) + Cardinality(D[k+1])
  <2>1. k \in 0..n /\ IsFiniteSet(Blocks(tag, D, k)) /\ Cardinality(Blocks(tag, D, k)) \in Nat
    BY <1>4
  <2> DEFINE A == Blocks(tag, D, k)
             B == {tag[k+1]} \X D[k+1]
  <2>2. /\ Blocks(tag, D, k+1) = A \cup B /\ A \cap B = {} /\ IsFiniteSet(B)
        /\ Cardinality(B) = Cardinality(D[k+1]) /\ Cardinality(D[k+1]) \in Nat
    BY <1>2
  <2>3. IsFiniteSet(A) /\ Cardinality(A) \in Nat
    BY <2>1
  <2> HIDE DEF A, B
  <2>4. Cardinality(A \cup B) = Cardinality(A) + Cardinality(B) - Cardinality(A \cap B)
    BY <2>2, <2>3, FS_Union
  <2>5. Cardinality(A \cap B) = 0
    BY <2>2, FS_EmptySet
  <2>6. QED
    BY <2>2, <2>3, <2>4, <2>5 DEF A
<1>6. QED
  BY <1>1, <1>4, <1>5

LEMMA BlocksAdd ==
  ASSUME NEW n \in Nat, NEW tag, NEW D, Different(tag, n), AllFinite(D, n)
  PROVE  Adding(tag, D, n)
  BY BlocksCount DEF Adding
=============================================================================
