--------------------------- MODULE CountingProofs ---------------------------
(***************************************************************************)
(* What ./jobExecutor prints, for any number of workers and any documents: *)
(* that /search finds every line with one of the words, once, and that     *)
(* /maxcount and /mincount print extremal documents, as far as the numbers *)
(* of the lines fit into int, and that /wc prints the totals.              *)
(***************************************************************************)
EXTENDS Counting, IndexProofs

-----------------------------------------------------------------------------
(* The numbers by which search tells lines apart.                          *)

Triangle(s) == (s * (s + 1)) \div 2

LEMMA TriangleGrows ==
  ASSUME NEW s \in Nat
  PROVE  Triangle(s) \in Nat /\ Triangle(s+1) = Triangle(s) + s + 1
<1> DEFINE p == s * (s + 1)
<1>1. p \in Nat
  OBVIOUS
<1>2. (s+1) * ((s+1)+1) = p + 2 * (s+1)
  OBVIOUS
<1> HIDE DEF p
<1>3. p \div 2 \in Nat /\ (p + 2 * (s+1)) \div 2 = p \div 2 + (s+1)
  BY <1>1
<1>4. Triangle(s) = p \div 2 /\ Triangle(s+1) = (p + 2 * (s+1)) \div 2
  BY <1>2 DEF Triangle, p
<1>5. QED
  BY <1>3, <1>4

LEMMA TriangleMonotone ==
  ASSUME NEW s \in Nat, NEW t \in Nat, s < t
  PROVE  Triangle(s) + s + 1 <= Triangle(t)
<1> DEFINE U == {d \in Nat : Triangle(s+1) <= Triangle(s+1+d)}
<1>1. 0 \in U
  <2>1. Triangle(s+1) \in Nat /\ s+1+0 = s+1
    BY TriangleGrows
  <2>2. QED
    BY <2>1
<1>2. ASSUME NEW d \in Nat, d \in U PROVE d+1 \in U
  <2>1. s+1+d \in Nat /\ s+1+(d+1) = (s+1+d)+1
    OBVIOUS
  <2>2. /\ Triangle(s+1+d) \in Nat /\ Triangle(s+1) \in Nat
        /\ Triangle((s+1+d)+1) = Triangle(s+1+d) + (s+1+d) + 1
    BY <2>1, TriangleGrows
  <2>3. Triangle(s+1) <= Triangle(s+1+(d+1))
    BY <1>2, <2>1, <2>2
  <2>4. QED
    BY <2>3
<1>3. t - (s+1) \in U
  <2> HIDE DEF U
  <2>1. t - (s+1) \in Nat
    OBVIOUS
  <2>2. QED
    BY <1>1, <1>2, <2>1, Induction
<1>4. s+1+(t-(s+1)) = t
  OBVIOUS
<1>5. Triangle(s+1) <= Triangle(t)
  BY <1>3, <1>4
<1>6. QED
  BY <1>5, TriangleGrows

\* Cantor's numbers are different for different lines.
LEMMA CantorIsInjective ==
  ASSUME NEW f \in Nat, NEW l \in Nat, NEW g \in Nat, NEW m \in Nat,
         Cantor(f, l) = Cantor(g, m)
  PROVE  f = g /\ l = m
<1> DEFINE s == f + l
           t == g + m
<1>1. Triangle(s) + l = Triangle(t) + m
  BY DEF Cantor, Triangle
<1>2. s \in Nat /\ t \in Nat /\ l <= s /\ m <= t
  OBVIOUS
<1>3. Triangle(s) \in Nat /\ Triangle(t) \in Nat
  BY TriangleGrows
<1>4. f + l = s /\ g + m = t
  OBVIOUS
<1> HIDE DEF s, t
<1>5. s < t => Triangle(s) + s + 1 <= Triangle(t)
  BY <1>2, TriangleMonotone
<1>6. t < s => Triangle(t) + t + 1 <= Triangle(s)
  BY <1>2, TriangleMonotone
<1>7. s = t
  BY <1>1, <1>2, <1>3, <1>5, <1>6
<1>8. l = m
  BY <1>1, <1>3, <1>7
<1>9. QED
  BY <1>4, <1>7, <1>8

Fitting(f, n) == Cantor(f, n) <= IntMax

\* So are the numbers in int, as long as they fit; all others are the same.
LEMMA PairsDiffer ==
  ASSUME NEW f \in Nat, NEW l \in Nat, NEW g \in Nat, NEW m \in Nat
  PROVE  /\ Fitting(f, l) => UniqueCantorPair(f, l) = Cantor(f, l)
         /\ ~Fitting(f, l) => UniqueCantorPair(f, l) = - IntMax - 1
         /\ UniqueCantorPair(f, l) = UniqueCantorPair(g, m)
              <=> \/ f = g /\ l = m
                  \/ ~Fitting(f, l) /\ ~Fitting(g, m)
<1>1. IntMax \in Nat
  BY IndexAssumption
<1>2. Cantor(f, l) \in Nat /\ Cantor(g, m) \in Nat
  <2>1. f + l \in Nat /\ g + m \in Nat
    OBVIOUS
  <2>2. Triangle(f + l) \in Nat /\ Triangle(g + m) \in Nat
    BY <2>1, TriangleGrows
  <2>3. QED
    BY <2>2 DEF Triangle, Cantor
<1>3. /\ UniqueCantorPair(f, l) = IF Fitting(f, l) THEN Cantor(f, l) ELSE - IntMax - 1
      /\ UniqueCantorPair(g, m) = IF Fitting(g, m) THEN Cantor(g, m) ELSE - IntMax - 1
  BY DEF UniqueCantorPair, ToInt, Fitting
<1>4. QED
  BY <1>1, <1>2, <1>3, CantorIsInjective

-----------------------------------------------------------------------------
(* search of a worker.                                                     *)

Place == Nat \X Nat

PairOf(place) == UniqueCantorPair(place[1], place[2])

LEMMA PairOfType == ASSUME NEW p \in Place PROVE PairOf(p) \in Int
<1>1. p[1] \in Nat /\ p[2] \in Nat
  BY DEF Place
<1>2. IntMax \in Nat
  BY IndexAssumption
<1>3. Cantor(p[1], p[2]) \in Int
  <2> DEFINE s == p[1] + p[2]
  <2>1. s \in Nat
    BY <1>1
  <2>2. Triangle(s) \in Nat /\ Cantor(p[1], p[2]) = Triangle(s) + p[2]
    BY <2>1, TriangleGrows DEF Triangle, Cantor
  <2>3. QED
    BY <1>1, <2>2
<1>4. QED
  BY <1>2, <1>3 DEF PairOf, UniqueCantorPair, ToInt

\* pairsInResult has the numbers of the results, all different.
Founds ==
  {f \in [pairs : ListOf(Int), results : ListOf(Posting(Place))] :
     /\ Len(f.pairs.items) = Len(f.results.items)
     /\ \A k \in 1..Len(f.pairs.items) : f.pairs.items[k] = PairOf(f.results.items[k].place)
     /\ \A j, k \in 1..Len(f.pairs.items) : f.pairs.items[j] = f.pairs.items[k] => j = k}

LEMMA VisitOne ==
  ASSUME NEW f \in Founds, NEW p \in Posting(Place)
  PROVE  /\ Visit(f, p) \in Founds
         /\ \A e : Has(Visit(f, p).results.items, e) => Has(f.results.items, e) \/ e = p
         /\ \A e : Has(f.pairs.items, e) => Has(Visit(f, p).pairs.items, e)
         /\ Has(Visit(f, p).pairs.items, PairOf(p.place))
<1> DEFINE pair == PairOf(p.place)
           n == Len(f.pairs.items)
           ps == AppendElement(f.pairs, pair)
           rs == AppendElement(f.results, p)
<1>1. /\ f.pairs \in ListOf(Int) /\ f.results \in ListOf(Posting(Place))
      /\ f.pairs.items \in Seq(Int) /\ f.results.items \in Seq(Posting(Place))
      /\ Len(f.results.items) = n
      /\ \A k \in 1..n : f.pairs.items[k] = PairOf(f.results.items[k].place)
      /\ \A j, k \in 1..n : f.pairs.items[j] = f.pairs.items[k] => j = k
  BY DEF Founds, ListOf
<1>2. n \in Nat /\ DOMAIN f.pairs.items = 1..n /\ pair \in Int
  BY <1>1, LenProperties, PairOfType DEF Posting
<1>3. Visit(f, p) = IF Exists(f.pairs, pair) THEN f ELSE [pairs |-> ps, results |-> rs]
  BY DEF Visit, PairOf
<1>4. Exists(f.pairs, pair) <=> Has(f.pairs.items, pair)
  BY <1>2 DEF Exists, Has
<1>5. CASE Exists(f.pairs, pair)
  BY <1>3, <1>4, <1>5
<1>6. CASE ~Exists(f.pairs, pair)
  <2>0. ps \in ListOf(Int) /\ ps.items = Append(f.pairs.items, pair)
    <3>1. f.pairs \in ListOf(Int) /\ pair \in Int
      BY <1>1, <1>2
    <3> HIDE DEF pair
    <3>2. QED
      BY <3>1, AppendFits
  <2>1. /\ ps \in ListOf(Int) /\ ps.items = Append(f.pairs.items, pair)
        /\ rs \in ListOf(Posting(Place)) /\ rs.items = Append(f.results.items, p)
    <3> HIDE DEF ps
    <3>1. QED
      BY <1>1, <2>0, AppendFits
  <2>2. /\ Len(ps.items) = n+1 /\ ps.items[n+1] = pair
        /\ \A j \in 1..n : ps.items[j] = f.pairs.items[j]
    BY <1>1, <1>2, <2>1, AppendProperties
  <2>3. /\ Len(rs.items) = n+1 /\ rs.items[n+1] = p
        /\ \A j \in 1..n : rs.items[j] = f.results.items[j]
    BY <1>1, <1>2, <2>1, AppendProperties
  <2>4. Visit(f, p) = [pairs |-> ps, results |-> rs]
    BY <1>3, <1>6
  <2>5. \A j \in 1..n : f.pairs.items[j] # pair
    BY <1>4, <1>6 DEF Has
  <2>6. \A j : j \in 1..n+1 <=> j \in 1..n \/ j = n+1
    BY <1>2
  <2> HIDE DEF ps, rs
  <2>7. \A k \in 1..n+1 : ps.items[k] = PairOf(rs.items[k].place)
    BY <1>1, <2>2, <2>3, <2>6
  <2> HIDE DEF pair, n
  <2>8. \A j, k \in 1..n+1 : ps.items[j] = ps.items[k] => j = k
    <3>1. ASSUME NEW j \in 1..n+1, NEW k \in 1..n+1, ps.items[j] = ps.items[k]
          PROVE  j = k
      <4>1. CASE j \in 1..n /\ k \in 1..n
        BY <1>1, <2>2, <3>1, <4>1
      <4>2. CASE j = n+1 \/ k = n+1
        BY <2>2, <2>5, <2>6, <3>1, <4>2
      <4>3. QED
        BY <2>6, <4>1, <4>2
    <3>2. QED
      BY <3>1
  <2>9. [pairs |-> ps, results |-> rs] \in Founds
    BY <2>1, <2>2, <2>3, <2>7, <2>8 DEF Founds
  <2>10. \A e : Has(rs.items, e) => Has(f.results.items, e) \/ e = p
    BY <1>1, <2>3, <2>6 DEF Has
  <2>11. /\ \A e : Has(f.pairs.items, e) => Has(ps.items, e)
         /\ Has(ps.items, pair)
    BY <1>1, <2>2, <2>6 DEF Has, n
  <2>12. Visit(f, p).pairs = ps /\ Visit(f, p).results = rs
    BY <2>4
  <2>13. QED
    BY <2>4, <2>9, <2>10, <2>11, <2>12 DEF pair
<1>7. QED
  BY <1>5, <1>6

\* The results of search are postings of the words, no two of them with the same
\* number, and one for each number that a posting of the words has.
LEMMA SearchFinds ==
  ASSUME NEW t \in Tries(Place), NEW q \in Seq(Word)
  PROVE  LET r == Search(t, q)
             a == Appearances(t, q)
         IN  /\ r \in ListOf(Posting(Place))
             /\ \A j, k \in 1..Len(r.items) :
                  PairOf(r.items[j].place) = PairOf(r.items[k].place) => j = k
             /\ \A k \in 1..Len(r.items) : Has(a, r.items[k])
             /\ \A i \in 1..Len(a) : \E k \in 1..Len(r.items) :
                  PairOf(r.items[k].place) = PairOf(a[i].place)
<1> DEFINE a == Appearances(t, q)
           n == Len(a)
           base == [pairs |-> NewList(ResultList), results |-> NewList(ResultList)]
           F == [vk \in Founds \X (1..n) |-> Visit(vk[1], a[vk[2]])]
           NextFound(it, r) == IF r = {} THEN base ELSE Visit(it[r \ {Max(r)}], a[Max(r)])
           Lists(it) == it = [r \in SUBSET (DOMAIN a) |-> NextFound(it, r)]
           iter == CHOOSE it : Lists(it)
<1>1. a \in Seq(Posting(Place))
  BY AppearancesHave
<1>2. n \in Nat /\ DOMAIN a = 1..n /\ \A k \in 1..n : a[k] \in Posting(Place)
  <2> HIDE DEF a
  <2>1. QED
    BY <1>1, LenProperties, ElementOfSeq
<1>3. Search(t, q) = iter[DOMAIN a].results
  BY DEF Search, FoldLeft, MapThenFoldSet
<1> HIDE DEF a, n
<1>4. base \in Founds /\ base.results.items = <<>> /\ base.pairs.items = <<>>
  <2>1. /\ NewList(ResultList) \in ListOf(Int) /\ NewList(ResultList) \in ListOf(Posting(Place))
        /\ NewList(ResultList).items = <<>>
    BY IndexAssumption, NewListFits
  <2>2. Len(NewList(ResultList).items) = 0
    BY <2>1, EmptySeq
  <2>3. QED
    BY <2>1, <2>2 DEF Founds
<1> HIDE DEF base
<1>5. \A v \in Founds, k \in 1..n : F[<<v, k>>] = Visit(v, a[k]) /\ F[<<v, k>>] \in Founds
  BY <1>2, VisitOne
<1> HIDE DEF F
<1>6. \A r \in SUBSET (1..n) : r # {} => r \ {Max(r)} \in SUBSET (1..n) /\ Max(r) \in 1..n
  BY <1>2, MaxIsGreatest
<1>7. StaysIn(Founds, n, F)
  BY <1>5 DEF StaysIn
<1>8. \E it : Lists(it)
  <2>1. PICK it \in [SUBSET (1..n) -> Founds] : FoldsBy(it, n, base, F)
    BY <1>2, <1>4, <1>7, FoldExists
  <2>2. ASSUME NEW r \in SUBSET (1..n) PROVE it[r] = NextFound(it, r)
    <3>1. CASE r = {}
      BY <2>1, <3>1 DEF FoldsBy
    <3>2. CASE r # {}
      <4>1. it[r] = F[<<it[r \ {Max(r)}], Max(r)>>]
        BY <2>1, <3>2 DEF FoldsBy
      <4>2. it[r \ {Max(r)}] \in Founds /\ Max(r) \in 1..n
        BY <1>6, <2>1, <3>2
      <4>3. QED
        BY <1>5, <3>2, <4>1, <4>2
    <3>3. QED
      BY <3>1, <3>2
  <2> HIDE DEF NextFound
  <2>3. QED
    BY <1>2, <2>1, <2>2
<1>9. Lists(iter)
  <2> HIDE DEF Lists
  <2>1. QED
    BY <1>8
<1> HIDE DEF iter
<1>10. GoesOnBy(iter, n, Founds, base, F)
  <2>1. ASSUME NEW r \in SUBSET (1..n) PROVE iter[r] = NextFound(iter, r)
    <3> HIDE DEF NextFound
    <3>1. QED
      BY <1>2, <1>9
  <2>2. ASSUME NEW r \in SUBSET (1..n), r # {}, iter[r \ {Max(r)}] \in Founds
        PROVE  iter[r] = F[<<iter[r \ {Max(r)}], Max(r)>>]
    <3>1. iter[r] = Visit(iter[r \ {Max(r)}], a[Max(r)])
      BY <2>1, <2>2
    <3>2. Max(r) \in 1..n
      BY <1>6, <2>2
    <3>3. QED
      BY <1>5, <2>2, <3>1, <3>2
  <2>3. iter[{}] = base
    BY <2>1
  <2>4. QED
    BY <2>2, <2>3 DEF GoesOnBy
<1> HIDE DEF Lists
<1> DEFINE h == Values(iter, n)
<1>11. /\ h \in [0..n -> Founds] /\ h[0] = base /\ h[n] = iter[1..n]
       /\ \A k \in 0..n-1 : h[k+1] = F[<<h[k], k+1>>]
  <2> HIDE DEF h
  <2>1. /\ Values(iter, n) \in [0..n -> Founds]
        /\ Values(iter, n)[0] = base /\ Values(iter, n)[n] = iter[1..n]
        /\ \A k \in 0..n-1 : Values(iter, n)[k+1] = F[<<Values(iter, n)[k], k+1>>]
    BY <1>2, <1>4, <1>7, <1>10, FoldSteps
  <2>2. QED
    BY <2>1 DEF h
<1> HIDE DEF h
<1> DEFINE Right(k) == /\ \A e : Has(h[k].results.items, e) => \E i \in 1..k : a[i] = e
                       /\ \A i \in 1..k : Has(h[k].pairs.items, PairOf(a[i].place))
           U == {k \in Nat : k <= n => Right(k)}
<1>12. 0 \in U
  <2>1. Len(<<>>) = 0
    BY EmptySeq
  <2>2. QED
    BY <1>4, <1>11, <2>1 DEF Has
<1>13. ASSUME NEW k \in Nat, k \in U PROVE k+1 \in U
  <2> HIDE DEF Right
  <2>1. SUFFICES ASSUME k+1 <= n PROVE Right(k+1)
    OBVIOUS
  <2>2. k \in 0..n-1 /\ k+1 \in 1..n /\ k <= n /\ k \in 0..n
    BY <1>2, <2>1
  <2>3. Right(k)
    BY <1>13, <2>2
  <2> HIDE DEF U
  <2>4. h[k] \in Founds /\ h[k+1] = Visit(h[k], a[k+1]) /\ a[k+1] \in Posting(Place)
    BY <1>2, <1>5, <1>11, <2>2
  <2>5. /\ \A e : Has(h[k+1].results.items, e) => Has(h[k].results.items, e) \/ e = a[k+1]
        /\ \A e : Has(h[k].pairs.items, e) => Has(h[k+1].pairs.items, e)
        /\ Has(h[k+1].pairs.items, PairOf(a[k+1].place))
    BY <2>4, VisitOne
  <2>6. \A j : j \in 1..k+1 <=> j \in 1..k \/ j = k+1
    OBVIOUS
  <2>7. QED
    BY <2>3, <2>5, <2>6 DEF Right
<1>14. n \in U /\ n <= n
  <2> HIDE DEF U
  <2>1. QED
    BY <1>2, <1>12, <1>13, Induction
<1>15. Right(n)
  <2> HIDE DEF Right
  <2>1. QED
    BY <1>14
<1> DEFINE f == h[n]
<1>16. f \in Founds /\ Search(t, q) = f.results
  BY <1>2, <1>3, <1>11
<1> HIDE DEF f
<1>17. /\ f.results \in ListOf(Posting(Place)) /\ Len(f.pairs.items) = Len(f.results.items)
       /\ \A k \in 1..Len(f.pairs.items) : f.pairs.items[k] = PairOf(f.results.items[k].place)
       /\ \A j, k \in 1..Len(f.pairs.items) : f.pairs.items[j] = f.pairs.items[k] => j = k
  BY <1>16 DEF Founds
<1>18. \A k \in 1..Len(f.results.items) : Has(a, f.results.items[k])
  <2>1. ASSUME NEW k \in 1..Len(f.results.items) PROVE Has(a, f.results.items[k])
    <3>1. Has(f.results.items, f.results.items[k])
      BY DEF Has
    <3>2. \E i \in 1..n : a[i] = f.results.items[k]
      BY <1>15, <3>1 DEF f
    <3>3. QED
      BY <3>2 DEF Has, n
  <2>2. QED
    BY <2>1
<1>19. \A i \in 1..n : \E k \in 1..Len(f.results.items) :
         PairOf(f.results.items[k].place) = PairOf(a[i].place)
  <2>1. ASSUME NEW i \in 1..n
        PROVE  \E k \in 1..Len(f.results.items) :
                 PairOf(f.results.items[k].place) = PairOf(a[i].place)
    <3>1. Has(f.pairs.items, PairOf(a[i].place))
      BY <1>15 DEF f
    <3>2. QED
      BY <1>17, <3>1 DEF Has
  <2>2. QED
    BY <2>1
<1>20. QED
  BY <1>16, <1>17, <1>18, <1>19 DEF a, n

-----------------------------------------------------------------------------
(* The inductive invariant: what is loaded.                                *)

\* The lines of files with numbers less than n.
TextLine(n) == [file : 0..n-1, words : Seq(Word)]

LEMMA LinesAre ==
  ASSUME corpus \in Corpora, NEW i \in Worker
  PROVE  /\ Lines(i) \in Seq(TextLine(Len(corpus[i])))
         /\ Len(Lines(i)) \in Nat /\ DOMAIN Lines(i) = 1..Len(Lines(i))
         /\ Len(corpus[i]) \in Nat
         /\ \A n \in 1..Len(Lines(i)) :
              /\ Lines(i)[n].file \in 0..Len(corpus[i])-1 /\ Lines(i)[n].file \in Nat
              /\ Lines(i)[n].words \in Seq(Word)
<1> DEFINE c == corpus[i]
           m == Len(c)
           Of(f) == [n \in DOMAIN c[f] |-> [file |-> f-1, words |-> c[f][n]]]
           seqs == [f \in DOMAIN c |-> Of(f)]
           S == TextLine(m)
<1>1. c \in Seq(Seq(Seq(Word)))
  BY CountingAssumption
<1>2. m \in Nat /\ DOMAIN c = 1..m /\ \A f \in 1..m : c[f] \in Seq(Seq(Word))
  <2> HIDE DEF c
  <2>1. QED
    BY <1>1, LenProperties, ElementOfSeq
<1>3. ASSUME NEW f \in 1..m PROVE Of(f) \in Seq(S)
  <2>1. c[f] \in Seq(Seq(Word))
    BY <1>2
  <2>2. /\ Len(c[f]) \in Nat /\ DOMAIN c[f] = 1..Len(c[f])
        /\ \A n \in 1..Len(c[f]) : c[f][n] \in Seq(Word)
    <3> HIDE DEF c
    <3>1. QED
      BY <2>1, LenProperties, ElementOfSeq
  <2>3. f-1 \in 0..m-1
    BY <1>2
  <2>4. \A n \in 1..Len(c[f]) : [file |-> f-1, words |-> c[f][n]] \in S
    BY <2>2, <2>3 DEF TextLine
  <2> HIDE DEF S, c, m
  <2>5. Of(f) \in [1..Len(c[f]) -> S]
    BY <2>2, <2>4
  <2> DEFINE k == Len(c[f])
  <2>6. Of(f) \in [1..k -> S] /\ k \in Nat
    BY <2>2, <2>5
  <2> HIDE DEF Of, k
  <2>7. QED
    BY <2>6
<1>4. seqs \in Seq(Seq(S))
  <2> HIDE DEF S, c, Of
  <2>1. seqs \in [1..m -> Seq(S)]
    BY <1>2, <1>3
  <2> HIDE DEF seqs
  <2>2. QED
    BY <1>2, <2>1
<1>5. Lines(i) = FlattenSeq(seqs)
  BY DEF Lines
<1>6. Lines(i) \in Seq(S)
  <2> HIDE DEF seqs, S
  <2>1. QED
    BY <1>4, <1>5, FlattenHas
<1> HIDE DEF S
<1>7. /\ Len(Lines(i)) \in Nat /\ DOMAIN Lines(i) = 1..Len(Lines(i))
      /\ \A n \in 1..Len(Lines(i)) : Lines(i)[n] \in S
  BY <1>6, LenProperties, ElementOfSeq
<1>8. \A n \in 1..Len(Lines(i)) :
         /\ Lines(i)[n].file \in 0..m-1 /\ Lines(i)[n].file \in Nat
         /\ Lines(i)[n].words \in Seq(Word)
  BY <1>2, <1>7 DEF S, TextLine
<1>9. QED
  BY <1>2, <1>6, <1>7, <1>8 DEF S

\* The trie t has the first m of the lines l, each under its file and number.
Indexed(t, l, m) ==
  \A w \in Word : \A p \in Place :
    /\ p[2] < m /\ l[p[2]+1].file = p[1] =>
         Times(t[w], p) = CountIn(l[p[2]+1].words, Len(l[p[2]+1].words), w)
    /\ ~(p[2] < m /\ l[p[2]+1].file = p[1]) => Times(t[w], p) = 0

LoadInv ==
  /\ corpus \in Corpora
  /\ trie \in [Worker -> Tries(Place)]
  /\ lines \in [Worker -> Seq([file : Nat, words : Seq(Word)])]
  /\ totals \in [Worker -> [chars : Nat, words : Nat, lines : Nat]]
  /\ \A i \in Worker : /\ Len(lines[i]) \in 0..Len(Lines(i))
                       /\ totals[i].lines = Len(lines[i])
                       /\ Indexed(trie[i], Lines(i), Len(lines[i]))

LEMMA LoadInit == Init => LoadInv
<1> SUFFICES ASSUME Init PROVE LoadInv
  OBVIOUS
<1>1. corpus \in Corpora
  BY DEF Init
<1>2. NewTrie \in Tries(Place) /\ \A w \in Word : \A q : Times(NewTrie[w], q) = 0
  BY NewTrieIsEmpty
<1>3. ASSUME NEW i \in Worker
      PROVE  /\ Len(lines[i]) \in 0..Len(Lines(i))
             /\ totals[i].lines = Len(lines[i])
             /\ Indexed(trie[i], Lines(i), Len(lines[i]))
  <2>1. /\ lines[i] = <<>> /\ Len(lines[i]) = 0 /\ totals[i].lines = 0
        /\ trie[i] = NewTrie
    BY EmptySeq DEF Init
  <2>2. Lines(i) \in Seq(TextLine(Len(corpus[i]))) /\ Len(Lines(i)) \in Nat
    BY <1>1, LinesAre
  <2>4. Indexed(trie[i], Lines(i), 0)
    <3>1. \A p \in Place : ~(p[2] < 0)
      BY DEF Place
    <3>2. QED
      BY <1>2, <2>1, <3>1 DEF Indexed
  <2>5. QED
    BY <2>1, <2>2, <2>4
<1>4. lines \in [Worker -> Seq([file : Nat, words : Seq(Word)])]
  BY EmptySeq DEF Init
<1>5. QED
  BY <1>1, <1>2, <1>3, <1>4 DEF Init, LoadInv

\* A text and its place: AddWordsCounts, for the tries of the workers.
LEMMA TextCounts ==
  ASSUME NEW t \in Tries(Place), NEW text \in Seq(Word), NEW at \in Place
  PROVE  /\ AddWords(t, text, at) \in Tries(Place)
         /\ \A u \in Word :
              /\ Times(AddWords(t, text, at)[u], at) = Times(t[u], at) + CountIn(text, Len(text), u)
              /\ \A q : q # at => Times(AddWords(t, text, at)[u], q) = Times(t[u], q)
  BY AddWordsCounts

\* One more line is read.
LEMMA IndexedNext ==
  ASSUME NEW S, NEW l \in Seq(S), NEW m \in Nat, m < Len(l),
         l[m+1].file \in Nat, l[m+1].words \in Seq(Word),
         NEW t \in Tries(Place), Indexed(t, l, m)
  PROVE  LET t2 == AddWords(t, l[m+1].words, <<l[m+1].file, m>>)
         IN  t2 \in Tries(Place) /\ Indexed(t2, l, m+1)
<1> DEFINE text == l[m+1].words
           at == <<l[m+1].file, m>>
           t2 == AddWords(t, text, at)
<1>1. at \in Place /\ at[1] = l[m+1].file /\ at[2] = m
  BY DEF Place
<1>2. /\ t2 \in Tries(Place)
      /\ \A u \in Word :
           /\ Times(t2[u], at) = Times(t[u], at) + CountIn(text, Len(text), u)
           /\ \A q : q # at => Times(t2[u], q) = Times(t[u], q)
  <2>1. text \in Seq(Word) /\ t \in Tries(Place) /\ at \in Place
    BY <1>1
  <2> HIDE DEF at, text
  <2>2. /\ AddWords(t, text, at) \in Tries(Place)
        /\ \A u \in Word :
             /\ Times(AddWords(t, text, at)[u], at) = Times(t[u], at) + CountIn(text, Len(text), u)
             /\ \A q : q # at => Times(AddWords(t, text, at)[u], q) = Times(t[u], q)
    BY <2>1, TextCounts
  <2>3. QED
    BY <2>2
<1>3. Len(text) \in Nat
  BY LenProperties
<1> HIDE DEF t2, text
<1>4. ASSUME NEW w \in Word, NEW p \in Place
      PROVE  /\ p[2] < m+1 /\ l[p[2]+1].file = p[1] =>
                  Times(t2[w], p) = CountIn(l[p[2]+1].words, Len(l[p[2]+1].words), w)
             /\ ~(p[2] < m+1 /\ l[p[2]+1].file = p[1]) => Times(t2[w], p) = 0
  <2>1. p[1] \in Nat /\ p[2] \in Nat /\ p = <<p[1], p[2]>>
    BY DEF Place
  <2>2. CASE p = at
    <3>1. ~(p[2] < m)
      BY <1>1, <2>2
    <3>2. Times(t[w], at) = 0
      BY <1>1, <2>2, <3>1 DEF Indexed
    <3>3. CountIn(text, Len(text), w) \in Nat
      BY <1>3, CountNext
    <3>4. Times(t2[w], at) = 0 + CountIn(text, Len(text), w)
      BY <1>2, <3>2
    <3>5. p[2] < m+1 /\ l[p[2]+1].file = p[1] /\ l[p[2]+1].words = text
      BY <1>1, <2>2 DEF text
    <3>6. QED
      BY <2>2, <3>3, <3>4, <3>5
  <2>3. CASE p # at
    <3>1. Times(t2[w], p) = Times(t[w], p)
      BY <1>2, <2>3
    <3>2. p[2] < m+1 /\ l[p[2]+1].file = p[1] <=> p[2] < m /\ l[p[2]+1].file = p[1]
      <4>1. CASE p[2] = m
        <5>1. p[1] # l[m+1].file
          BY <2>1, <2>3, <4>1
        <5>2. QED
          BY <4>1, <5>1
      <4>2. CASE p[2] # m
        BY <2>1, <4>2
      <4>3. QED
        BY <4>1, <4>2
    <3>3. QED
      BY <3>1, <3>2 DEF Indexed
  <2>4. QED
    BY <2>2, <2>3
<1>5. QED
  BY <1>2, <1>4 DEF Indexed, t2, text

LEMMA LoadStep ==
  ASSUME LoadInv, [Next]_vars
  PROVE  LoadInv'
<1>1. ASSUME NEW i \in Worker, ReadLine(i) PROVE LoadInv'
  <2> DEFINE l == Lines(i)
             m == Len(lines[i])
             line == l[m+1]
  <2>1. /\ corpus \in Corpora /\ trie \in [Worker -> Tries(Place)]
        /\ lines \in [Worker -> Seq([file : Nat, words : Seq(Word)])]
        /\ totals \in [Worker -> [chars : Nat, words : Nat, lines : Nat]]
        /\ m \in 0..Len(l) /\ totals[i].lines = m /\ Indexed(trie[i], l, m)
    BY DEF LoadInv
  <2>2. /\ m # Len(l) /\ corpus' = corpus
        /\ trie' = [trie EXCEPT ![i] = AddWords(@, line.words, <<line.file, totals[i].lines>>)]
        /\ lines' = [lines EXCEPT ![i] = Append(@, line)]
        /\ totals' = [totals EXCEPT ![i] =
             [chars |-> @.chars + Chars(line.words), words |-> @.words + Len(line.words),
              lines |-> @.lines + 1]]
    BY <1>1 DEF ReadLine, Loaded
  <2>3. /\ l \in Seq(TextLine(Len(corpus[i]))) /\ Len(l) \in Nat
        /\ line.file \in Nat /\ line.words \in Seq(Word) /\ m \in Nat /\ m < Len(l)
    <3>1. m+1 \in 1..Len(l) /\ m \in Nat /\ m < Len(l)
      BY <2>1, <2>2, LinesAre
    <3>2. QED
      BY <2>1, <3>1, LinesAre
  <2>4. Len(line.words) \in Nat /\ Chars(line.words) \in Nat
    <3>1. Len(line.words) \in Nat
      BY <2>3, LenProperties
    <3>2. QED
      BY <3>1 DEF Chars
  <2>5. \A j \in Worker : Lines(j)' = Lines(j)
    BY <2>2 DEF Lines
  <2>6. line \in [file : Nat, words : Seq(Word)]
    <3>1. l[m+1] \in TextLine(Len(corpus[i]))
      BY <2>3, ElementOfSeq
    <3>2. QED
      BY <2>3, <3>1 DEF TextLine
  <2> HIDE DEF line, l
  <2>7. lines[i] \in Seq([file : Nat, words : Seq(Word)]) /\ lines'[i] = Append(lines[i], line)
    BY <2>1, <2>2
  <2>8. lines'[i] \in Seq([file : Nat, words : Seq(Word)]) /\ Len(lines'[i]) = m + 1
    BY <2>6, <2>7, AppendProperties
  <2>9. /\ lines' \in [Worker -> Seq([file : Nat, words : Seq(Word)])]
        /\ \A j \in Worker : j # i => lines'[j] = lines[j]
    BY <2>1, <2>2, <2>7, <2>8
  <2>10. /\ totals' \in [Worker -> [chars : Nat, words : Nat, lines : Nat]]
         /\ totals'[i].lines = m + 1 /\ \A j \in Worker : j # i => totals'[j] = totals[j]
    <3> DEFINE r == [chars |-> totals[i].chars + Chars(line.words),
                     words |-> totals[i].words + Len(line.words),
                     lines |-> totals[i].lines + 1]
    <3>1. totals[i].chars \in Nat /\ totals[i].words \in Nat /\ totals[i].lines \in Nat
      BY <2>1
    <3>2. r \in [chars : Nat, words : Nat, lines : Nat] /\ r.lines = m + 1
      BY <2>1, <2>4, <3>1
    <3>3. totals' = [totals EXCEPT ![i] = r]
      BY <2>2
    <3> HIDE DEF r
    <3>4. QED
      BY <2>1, <3>2, <3>3
  <2>11. /\ trie'[i] = AddWords(trie[i], line.words, <<line.file, m>>)
         /\ \A j \in Worker : j # i => trie'[j] = trie[j]
         /\ trie' = [j \in Worker |-> trie'[j]]
    BY <2>1, <2>2
  <2>12. trie'[i] \in Tries(Place) /\ Indexed(trie'[i], l, m+1)
    <3>1. trie[i] \in Tries(Place) /\ l \in Seq(TextLine(Len(corpus[i])))
      BY <2>1, <2>3
    <3>2. /\ m \in Nat /\ m < Len(l) /\ l[m+1].file \in Nat /\ l[m+1].words \in Seq(Word)
          /\ Indexed(trie[i], l, m)
      BY <2>1, <2>3 DEF line
    <3> HIDE DEF m
    <3>3. LET t2 == AddWords(trie[i], l[m+1].words, <<l[m+1].file, m>>)
          IN  t2 \in Tries(Place) /\ Indexed(t2, l, m+1)
      BY <3>1, <3>2, IndexedNext
    <3>4. QED
      BY <2>11, <3>3 DEF line
  <2>13. trie' \in [Worker -> Tries(Place)]
    BY <2>1, <2>11, <2>12
  <2>14. \A j \in Worker : /\ Len(lines'[j]) \in 0..Len(Lines(j))
                           /\ totals'[j].lines = Len(lines'[j])
                           /\ Indexed(trie'[j], Lines(j), Len(lines'[j]))
    <3>1. ASSUME NEW j \in Worker, j # i
          PROVE  /\ Len(lines'[j]) \in 0..Len(Lines(j))
                 /\ totals'[j].lines = Len(lines'[j])
                 /\ Indexed(trie'[j], Lines(j), Len(lines'[j]))
      BY <2>9, <2>10, <2>11, <3>1 DEF LoadInv
    <3>2. /\ Len(lines'[i]) \in 0..Len(Lines(i))
          /\ totals'[i].lines = Len(lines'[i])
          /\ Indexed(trie'[i], Lines(i), Len(lines'[i]))
      BY <2>3, <2>8, <2>10, <2>12 DEF l
    <3>3. QED
      BY <3>1, <3>2
  <2>15. QED
    BY <2>1, <2>2, <2>5, <2>9, <2>10, <2>13, <2>14 DEF LoadInv
<1>2. CASE UNCHANGED <<corpus, trie, lines, totals>>
  BY <1>2 DEF LoadInv, Lines
<1>3. QED
  BY <1>1, <1>2 DEF Next, Send, PrintAnswers, Handle, vars, worker

-----------------------------------------------------------------------------
(* What a worker that has read all its lines answers to search.            *)

LEMMA CountPositive ==
  ASSUME NEW text, NEW n \in Nat, NEW w
  PROVE  CountIn(text, n, w) # 0 <=> \E x \in 1..n : text[x] = w
<1> DEFINE A == {x \in 1..n : text[x] = w}
<1>1. IsFiniteSet(1..n) /\ A \in SUBSET (1..n)
  BY FS_Interval
<1>2. IsFiniteSet(A)
  BY <1>1, FS_Subset
<1> HIDE DEF A
<1>3. Cardinality(A) = 0 <=> A = {}
  BY <1>2, FS_EmptySet
<1>4. CountIn(text, n, w) = Cardinality(A)
  BY DEF CountIn, A
<1>5. A = {} <=> ~ \E x \in 1..n : text[x] = w
  BY DEF A
<1>6. QED
  BY <1>3, <1>4, <1>5

Matches(line, q) == Range(line.words) \cap Range(q) # {}

\* A line is found under its number and that of its file, and nothing else is.
LEMMA MatchingIs ==
  ASSUME LoadInv, NEW i \in Worker, Loaded(i), NEW q \in Seq(Word)
  PROVE  /\ \A p \in Place : <<i, p[1], p[2]>> \in Matching(i, Range(q)) <=> HasOneOf(trie[i], q, p)
         /\ \A l \in Matching(i, Range(q)) : <<l[2], l[3]>> \in Place /\ l = <<i, l[2], l[3]>>
<1> DEFINE A == Lines(i)
           n == Len(A)
<1>1. /\ corpus \in Corpora /\ Indexed(trie[i], A, n)
  BY DEF LoadInv, Loaded
<1>2. /\ n \in Nat /\ DOMAIN A = 1..n
      /\ \A m \in 1..n : A[m].file \in Nat /\ A[m].words \in Seq(Word)
  BY <1>1, LinesAre
<1>3. Matching(i, Range(q)) = {<<i, A[m].file, m-1>> : m \in {k \in 1..n : Matches(A[k], q)}}
  BY <1>2 DEF Matching, Matches
<1>4. Len(q) \in Nat /\ DOMAIN q = 1..Len(q) /\ \A k \in 1..Len(q) : q[k] \in Word
  BY LenProperties, ElementOfSeq
<1> HIDE DEF A, n
<1>5. ASSUME NEW m \in 1..n
      PROVE  Matches(A[m], q)
               <=> \E k \in 1..Len(q) : CountIn(A[m].words, Len(A[m].words), q[k]) # 0
  <2> DEFINE text == A[m].words
  <2>1. Len(text) \in Nat /\ DOMAIN text = 1..Len(text)
    <3>1. text \in Seq(Word)
      BY <1>2
    <3> HIDE DEF text
    <3>2. QED
      BY <3>1, LenProperties
  <2>2. Matches(A[m], q) <=> \E k \in 1..Len(q) : \E x \in 1..Len(text) : text[x] = q[k]
    BY <1>4, <2>1 DEF Matches, Range
  <2> HIDE DEF text
  <2>3. \A k \in 1..Len(q) : CountIn(text, Len(text), q[k]) # 0
                               <=> \E x \in 1..Len(text) : text[x] = q[k]
    BY <2>1, CountPositive
  <2>4. QED
    BY <2>2, <2>3 DEF text
<1>6. ASSUME NEW p \in Place
      PROVE  <<i, p[1], p[2]>> \in Matching(i, Range(q)) <=> HasOneOf(trie[i], q, p)
  <2>1. p[1] \in Nat /\ p[2] \in Nat
    BY DEF Place
  <2>2. <<i, p[1], p[2]>> \in Matching(i, Range(q))
          <=> /\ p[2] < n /\ A[p[2]+1].file = p[1]
              /\ Matches(A[p[2]+1], q)
    <3>1. <<i, p[1], p[2]>> \in Matching(i, Range(q))
            <=> \E m \in 1..n : Matches(A[m], q) /\ A[m].file = p[1] /\ m-1 = p[2]
      BY <1>3
    <3>2. \A m \in 1..n : m-1 = p[2] <=> m = p[2]+1 /\ p[2] < n
      <4>1. \A y \in Nat, m \in 1..n : m-1 = y <=> m = y+1 /\ y < n
        BY <1>2
      <4>2. QED
        BY <2>1, <4>1
    <3>3. p[2] < n => p[2]+1 \in 1..n
      BY <1>2, <2>1
    <3>4. QED
      BY <3>1, <3>2, <3>3
  <2>3. CASE p[2] < n /\ A[p[2]+1].file = p[1]
    <3>1. \A k \in 1..Len(q) : Times(trie[i][q[k]], p)
            = CountIn(A[p[2]+1].words, Len(A[p[2]+1].words), q[k])
      BY <1>1, <1>4, <2>3 DEF Indexed
    <3>2. p[2]+1 \in 1..n
      BY <1>2, <2>1, <2>3
    <3>3. QED
      BY <1>5, <2>2, <2>3, <3>1, <3>2 DEF HasOneOf
  <2>4. CASE ~(p[2] < n /\ A[p[2]+1].file = p[1])
    <3>1. \A k \in 1..Len(q) : Times(trie[i][q[k]], p) = 0
      BY <1>1, <1>4, <2>4 DEF Indexed
    <3>2. QED
      BY <2>2, <2>4, <3>1 DEF HasOneOf
  <2>5. QED
    BY <2>3, <2>4
<1>7. ASSUME NEW l \in Matching(i, Range(q))
      PROVE  <<l[2], l[3]>> \in Place /\ l = <<i, l[2], l[3]>>
  <2>1. PICK m \in 1..n : l = <<i, A[m].file, m-1>>
    BY <1>3
  <2>2. A[m].file \in Nat /\ m-1 \in Nat
    BY <1>2
  <2>3. QED
    BY <2>1, <2>2 DEF Place
<1>8. QED
  BY <1>6, <1>7

\* The lines of an answer, no line twice.
Text == {Empty} \cup (Nat \X Nat \X Nat)

Once(s) == \A m, n \in 1..Len(s) : s[m] # Empty /\ s[m] = s[n] => m = n

\* An answer s to a query whose matching lines are all.
Answering(s, all) ==
  /\ s \in Seq(Text) /\ Once(s) /\ s # <<>>
  /\ \A l : Has(s, l) /\ l # Empty => l \in all
  /\ \A l \in all : FitsInt(l) => Has(s, l)
  /\ (\E l \in all : ~FitsInt(l)) => \E l \in all : ~FitsInt(l) /\ Has(s, l)
  /\ \A l, m : Has(s, l) /\ Has(s, m) /\ l # Empty /\ m # Empty
                 /\ ~FitsInt(l) /\ ~FitsInt(m) => l = m

Named(i, p) == <<i, p[1], p[2]>>

LEMMA NamedIs ==
  ASSUME NEW i \in Worker, NEW p \in Place
  PROVE  /\ Named(i, p) \in Text /\ Named(i, p) # Empty
         /\ FitsInt(Named(i, p)) <=> Fitting(p[1], p[2])
<1>1. i \in Nat
  BY CountingAssumption DEF Worker
<1>2. p[1] \in Nat /\ p[2] \in Nat
  BY DEF Place
<1>3. Named(i, p) # Empty
  <2>1. Len(Named(i, p)) = 3 /\ Len(Empty) = 0
    BY EmptySeq DEF Named, Empty
  <2>2. QED
    BY <2>1
<1>4. QED
  BY <1>1, <1>2, <1>3 DEF Named, Text, FitsInt, Fitting

LEMMA SearchAnswers ==
  ASSUME LoadInv, NEW i \in Worker, Loaded(i), NEW q \in Seq(Word)
  PROVE  Answering(SearchLines(i, q), Matching(i, Range(q)))
<1> DEFINE t == trie[i]
           r == Search(t, q).items
           a == Appearances(t, q)
           n == Len(r)
           s == SearchLines(i, q)
           all == Matching(i, Range(q))
<1>1. t \in Tries(Place)
  BY DEF LoadInv
<1> HIDE DEF t
<1>2. /\ Search(t, q) \in ListOf(Posting(Place))
      /\ \A j, k \in 1..n : PairOf(r[j].place) = PairOf(r[k].place) => j = k
      /\ \A k \in 1..n : Has(a, r[k])
      /\ \A j \in 1..Len(a) : \E k \in 1..n : PairOf(r[k].place) = PairOf(a[j].place)
  BY <1>1, SearchFinds
<1>3. \A d : HasPlace(a, d) <=> HasOneOf(t, q, d)
  BY <1>1, AppearancesHave
<1>4. /\ \A p \in Place : Named(i, p) \in all <=> HasOneOf(t, q, p)
      /\ \A l \in all : <<l[2], l[3]>> \in Place /\ l = Named(i, <<l[2], l[3]>>)
  BY MatchingIs DEF t, Named
<1>5. r \in Seq(Posting(Place))
  BY <1>2 DEF ListOf
<1>6. s = IF r = <<>> THEN <<Empty>> ELSE [k \in DOMAIN r |-> Named(i, r[k].place)]
  BY DEF SearchLines, Results, t, Named
<1> HIDE DEF r, a, s, all
<1>7. n \in Nat /\ DOMAIN r = 1..n /\ \A k \in 1..n : r[k].place \in Place
  <2>1. \A k \in 1..n : r[k] \in Posting(Place)
    BY <1>5, ElementOfSeq
  <2>2. n \in Nat /\ DOMAIN r = 1..n
    BY <1>5, LenProperties
  <2>3. QED
    BY <2>1, <2>2 DEF Posting
<1>8. \A k \in 1..n : Named(i, r[k].place) \in all
  <2>1. ASSUME NEW k \in 1..n PROVE Named(i, r[k].place) \in all
    <3>1. HasPlace(a, r[k].place)
      BY <1>2 DEF Has, HasPlace
    <3>2. QED
      BY <1>3, <1>4, <1>7, <3>1
  <2>2. QED
    BY <2>1
<1>9. ASSUME NEW p \in Place, Named(i, p) \in all
      PROVE  \E k \in 1..n : PairOf(r[k].place) = PairOf(p)
  <2>1. HasPlace(a, p)
    BY <1>3, <1>4, <1>9
  <2>2. QED
    BY <1>2, <2>1 DEF HasPlace
<1>10. \A p, u \in Place :
         PairOf(p) = PairOf(u) <=> p = u \/ (~Fitting(p[1], p[2]) /\ ~Fitting(u[1], u[2]))
  <2>1. ASSUME NEW p \in Place, NEW u \in Place
        PROVE  PairOf(p) = PairOf(u)
                 <=> p = u \/ (~Fitting(p[1], p[2]) /\ ~Fitting(u[1], u[2]))
    <3>1. /\ p[1] \in Nat /\ p[2] \in Nat /\ u[1] \in Nat /\ u[2] \in Nat
          /\ p = <<p[1], p[2]>> /\ u = <<u[1], u[2]>>
      BY DEF Place
    <3>2. UniqueCantorPair(p[1], p[2]) = UniqueCantorPair(u[1], u[2])
            <=> \/ p[1] = u[1] /\ p[2] = u[2]
                \/ ~Fitting(p[1], p[2]) /\ ~Fitting(u[1], u[2])
      BY <3>1, PairsDiffer
    <3>3. p = u <=> p[1] = u[1] /\ p[2] = u[2]
      BY <3>1
    <3>4. QED
      BY <3>2, <3>3 DEF PairOf
  <2>2. QED
    BY <2>1
<1>11. \A p \in Place : /\ Named(i, p) \in Text /\ Named(i, p) # Empty
                        /\ FitsInt(Named(i, p)) <=> Fitting(p[1], p[2])
  BY NamedIs
<1>12. \A p, u \in Place : Named(i, p) = Named(i, u) => p = u
  BY DEF Named, Place
<1>13. CASE n = 0
  <2>1. r = <<>> /\ s = <<Empty>>
    BY <1>5, <1>6, <1>13, EmptySeq
  <2>2. ASSUME NEW l \in all PROVE FALSE
    <3>1. <<l[2], l[3]>> \in Place /\ Named(i, <<l[2], l[3]>>) \in all
      BY <1>4
    <3>2. \E k \in 1..n : PairOf(r[k].place) = PairOf(<<l[2], l[3]>>)
      BY <1>9, <3>1
    <3>3. QED
      BY <1>13, <3>2
  <2>3. s \in Seq(Text) /\ Len(s) = 1 /\ s[1] = Empty /\ s # <<>>
    BY <2>1 DEF Text
  <2>4. \A l : Has(s, l) => l = Empty
    BY <2>3 DEF Has
  <2>5. Once(s)
    BY <2>3 DEF Once
  <2> HIDE DEF Empty
  <2>6. \A l \in all : FALSE
    BY <2>2
  <2>7. QED
    BY <2>3, <2>4, <2>5, <2>6 DEF Answering, s, all
<1>14. CASE n # 0
  <2>1. r # <<>>
    BY <1>14, EmptySeq
  <2>2. s \in [1..n -> Text] /\ \A k \in 1..n : s[k] = Named(i, r[k].place)
    BY <1>6, <1>7, <1>11, <2>1
  <2>3. s \in Seq(Text) /\ Len(s) = n /\ s # <<>>
    BY <1>7, <1>14, <2>2, EmptySeq
  <2>4. \A l : Has(s, l) <=> \E k \in 1..n : l = Named(i, r[k].place)
    BY <2>2, <2>3 DEF Has
  <2>5. Once(s)
    <3>1. ASSUME NEW j \in 1..n, NEW k \in 1..n, s[j] = s[k] PROVE j = k
      <4>1. r[j].place = r[k].place
        BY <1>7, <1>12, <2>2, <3>1
      <4>2. QED
        BY <1>2, <4>1
    <3>2. QED
      BY <2>3, <3>1 DEF Once
  <2>6. \A l : Has(s, l) => l \in all
    BY <1>8, <2>4
  <2>7. ASSUME NEW l \in all
        PROVE  IF FitsInt(l) THEN Has(s, l) ELSE \E m \in all : ~FitsInt(m) /\ Has(s, m)
    <3> DEFINE p == <<l[2], l[3]>>
    <3>1. p \in Place /\ l = Named(i, p)
      BY <1>4
    <3> HIDE DEF p
    <3>2. PICK k \in 1..n : PairOf(r[k].place) = PairOf(p)
      BY <1>9, <3>1
    <3>3. r[k].place \in Place
      BY <1>7
    <3>4. CASE r[k].place = p
      BY <2>4, <3>1, <3>4
    <3>5. CASE ~Fitting(p[1], p[2]) /\ ~Fitting(r[k].place[1], r[k].place[2])
      <4>1. ~FitsInt(l) /\ ~FitsInt(Named(i, r[k].place))
        BY <1>11, <3>1, <3>3, <3>5
      <4>2. QED
        BY <1>8, <2>4, <4>1
    <3>6. QED
      BY <1>10, <3>1, <3>2, <3>3, <3>4, <3>5
  <2>8. ASSUME NEW l, NEW m, Has(s, l), Has(s, m), ~FitsInt(l), ~FitsInt(m)
        PROVE  l = m
    <3>1. PICK j \in 1..n : l = Named(i, r[j].place)
      BY <2>4, <2>8
    <3>2. PICK k \in 1..n : m = Named(i, r[k].place)
      BY <2>4, <2>8
    <3>3. r[j].place \in Place /\ r[k].place \in Place
      BY <1>7
    <3>4. PairOf(r[j].place) = PairOf(r[k].place)
      BY <1>10, <1>11, <2>8, <3>1, <3>2, <3>3
    <3>5. QED
      BY <1>2, <3>1, <3>2, <3>4
  <2>9. /\ \A l \in all : FitsInt(l) => Has(s, l)
        /\ (\E l \in all : ~FitsInt(l)) => \E l \in all : ~FitsInt(l) /\ Has(s, l)
    BY <2>7
  <2>10. \A l, m : Has(s, l) /\ Has(s, m) /\ l # Empty /\ m # Empty
                     /\ ~FitsInt(l) /\ ~FitsInt(m) => l = m
    BY <2>8
  <2>11. QED
    BY <2>3, <2>5, <2>6, <2>9, <2>10 DEF Answering, s, all
<1>15. QED
  BY <1>13, <1>14 DEF s, all

-----------------------------------------------------------------------------
(* What the master makes of the answers to search.                         *)

Apart(seqs) ==
  \A j, k \in 1..Len(seqs) : \A e :
    e # Empty /\ Has(seqs[j], e) /\ Has(seqs[k], e) => j = k

LEMMA OnceConcat ==
  ASSUME NEW s \in Seq(Text), NEW t \in Seq(Text), Once(s), Once(t),
         \A e : Has(s, e) /\ Has(t, e) => e = Empty
  PROVE  Once(s \o t)
<1>1. /\ Len(s) \in Nat /\ Len(t) \in Nat /\ Len(s \o t) = Len(s) + Len(t)
      /\ \A i \in 1 .. Len(s) + Len(t) :
           (s \o t)[i] = IF i <= Len(s) THEN s[i] ELSE t[i - Len(s)]
  BY ConcatProperties, LenProperties
<1> DEFINE c == s \o t
<1> HIDE DEF c
<1>2. ASSUME NEW i \in 1..Len(c) 
      PROVE  \/ i \in 1..Len(s) /\ c[i] = s[i] /\ Has(s, c[i])
             \/ /\ i > Len(s) /\ i - Len(s) \in 1..Len(t) /\ c[i] = t[i - Len(s)]
                /\ Has(t, c[i])
  BY <1>1 DEF c, Has
<1>3. ASSUME NEW i \in 1..Len(c), NEW j \in 1..Len(c), c[i] # Empty, c[i] = c[j]
      PROVE  i = j
  <2>1. CASE i \in 1..Len(s) /\ j \in 1..Len(s) /\ c[i] = s[i] /\ c[j] = s[j]
    BY <1>3, <2>1 DEF Once
  <2>2. CASE /\ i - Len(s) \in 1..Len(t) /\ j - Len(s) \in 1..Len(t)
             /\ c[i] = t[i - Len(s)] /\ c[j] = t[j - Len(s)]
    <3>1. i - Len(s) = j - Len(s)
      BY <1>3, <2>2 DEF Once
    <3>2. i \in Int /\ j \in Int
      OBVIOUS
    <3>3. QED
      BY <1>1, <3>1, <3>2
  <2>3. QED
    BY <1>2, <1>3, <2>1, <2>2
<1>4. QED
  BY <1>3 DEF Once, c

LEMMA FlattenOnce ==
  ASSUME NEW seqs \in Seq(Seq(Text)), Apart(seqs), \A k \in 1..Len(seqs) : Once(seqs[k])
  PROVE  Once(FlattenSeq(seqs))
<1> DEFINE n == Len(seqs)
<1>1. n \in Nat /\ \A k \in 1..n : seqs[k] \in Seq(Text)
  BY LenProperties, ElementOfSeq
<1>2. PICK h \in [0..n -> Seq(Text)] :
        /\ h[0] = <<>> /\ h[n] = FlattenSeq(seqs)
        /\ \A k \in 0..n-1 : h[k+1] = h[k] \o seqs[k+1]
  BY FlattenFolds
<1> HIDE DEF n
<1> DEFINE Good(k) == Once(h[k]) /\ \A e : Has(h[k], e) => \E j \in 1..k : Has(seqs[j], e)
           T == {k \in Nat : k <= n => Good(k)}
<1>3. 0 \in T
  <2>1. Len(h[0]) = 0
    BY <1>2, EmptySeq
  <2>2. QED
    BY <2>1 DEF Once, Has
<1>4. ASSUME NEW k \in Nat, k \in T PROVE k+1 \in T
  <2> HIDE DEF Good
  <2>1. SUFFICES ASSUME k+1 <= n PROVE Good(k+1)
    OBVIOUS
  <2>2. k \in 0..n-1 /\ k+1 \in 1..n /\ k <= n /\ k \in 0..n
    BY <1>1, <2>1
  <2>3. Good(k)
    BY <1>4, <2>2
  <2> HIDE DEF T
  <2>4. h[k] \in Seq(Text) /\ seqs[k+1] \in Seq(Text) /\ h[k+1] = h[k] \o seqs[k+1]
    BY <1>1, <1>2, <2>2
  <2>5. Once(h[k]) /\ Once(seqs[k+1])
    BY <2>2, <2>3 DEF Good, n
  <2>6. ASSUME NEW e, Has(h[k], e), Has(seqs[k+1], e) PROVE e = Empty
    <3>1. PICK j \in 1..k : Has(seqs[j], e)
      BY <2>3, <2>6 DEF Good
    <3>2. j \in 1..n /\ j # k+1
      BY <1>1, <2>2
    <3>3. QED
      BY <2>2, <2>6, <3>1, <3>2 DEF Apart, n
  <2>7. Once(h[k+1])
    BY <2>4, <2>5, <2>6, OnceConcat
  <2>8. \A e : Has(h[k+1], e) => Has(h[k], e) \/ Has(seqs[k+1], e)
    BY <2>4, HasConcat
  <2>9. \A j : j \in 1..k => j \in 1..k+1
    OBVIOUS
  <2>10. k+1 \in 1..k+1
    OBVIOUS
  <2>11. \A e : Has(h[k+1], e) => \E j \in 1..k+1 : Has(seqs[j], e)
    BY <2>3, <2>8, <2>9, <2>10 DEF Good
  <2>12. QED
    BY <2>7, <2>11 DEF Good
<1>5. n \in T /\ n <= n
  <2> HIDE DEF T
  <2>1. Nat \subseteq T
    BY <1>3, <1>4, Induction
  <2>2. QED
    BY <1>1, <2>1
<1> HIDE DEF Good
<1>6. Good(n)
  BY <1>5
<1>7. QED
  BY <1>2, <1>6 DEF Good

\* What SearchFindsLines says of a text printed for a query.
Finds(text, q) ==
  LET printed == {n \in DOMAIN text : text[n] # Empty}
  IN /\ \A m, n \in printed : text[m] = text[n] => m = n
     /\ \A i \in Worker :
          LET mine == {l \in {text[n] : n \in printed} : l[1] = i}
              all  == Matching(i, q)
          IN /\ mine \subseteq all
             /\ {l \in all : FitsInt(l)} \subseteq mine
             /\ all # {l \in all : FitsInt(l)} =>
                  Cardinality({l \in mine : ~FitsInt(l)}) = 1

LEMMA PrintFinds ==
  ASSUME NEW q, NEW a, a \in [Worker -> Seq(Text)],
         \A i \in Worker : Answering(a[i], Matching(i, q))
  PROVE  Finds(FlattenSeq([i \in Worker |-> a[i]]), q)
<1> DEFINE text == FlattenSeq([i \in Worker |-> a[i]])
<1>1. N \in Nat /\ Worker = 1..N
  BY CountingAssumption DEF Worker
<1>2. a = [i \in Worker |-> a[i]] /\ a \in Seq(Seq(Text)) /\ Len(a) = N
  BY <1>1
<1>3. ASSUME NEW i \in Worker, NEW e, Has(a[i], e), e # Empty
      PROVE  e \in Matching(i, q) /\ e[1] = i
  <2>1. e \in Matching(i, q)
    BY <1>3 DEF Answering
  <2>2. QED
    BY <2>1 DEF Matching
<1>4. Apart(a)
  BY <1>1, <1>2, <1>3 DEF Apart
<1>5. text \in Seq(Text) /\ \A e : Has(text, e) <=> \E i \in Worker : Has(a[i], e)
  BY <1>1, <1>2, FlattenHas
<1>6. Once(text)
  BY <1>1, <1>2, <1>4, FlattenOnce DEF Answering
<1> HIDE DEF text
<1>7. Len(text) \in Nat /\ DOMAIN text = 1..Len(text)
  BY <1>5, LenProperties
<1> DEFINE printed == {n \in DOMAIN text : text[n] # Empty}
<1>8. \A m, n \in printed : text[m] = text[n] => m = n
  BY <1>6, <1>7 DEF Once
<1>9. ASSUME NEW i \in Worker
      PROVE  LET mine == {l \in {text[n] : n \in printed} : l[1] = i}
                 all  == Matching(i, q)
             IN /\ mine \subseteq all
                /\ {l \in all : FitsInt(l)} \subseteq mine
                /\ all # {l \in all : FitsInt(l)} =>
                     Cardinality({l \in mine : ~FitsInt(l)}) = 1
  <2> DEFINE mine == {l \in {text[n] : n \in printed} : l[1] = i}
             all  == Matching(i, q)
             odd  == {l \in mine : ~FitsInt(l)}
  <2>1. \A l : l \in mine <=> Has(text, l) /\ l # Empty /\ l[1] = i
    BY <1>7 DEF Has
  <2>2. \A l : l \in mine <=> Has(a[i], l) /\ l # Empty
    BY <1>3, <1>5, <2>1
  <2>3. Answering(a[i], all)
    OBVIOUS
  <2>4. \A l \in all : l # Empty
    <3>1. ASSUME NEW l \in all PROVE l # Empty
      <4>1. PICK n : l = <<i, Lines(i)[n].file, n-1>>
        BY DEF Matching
      <4>2. <<i, Lines(i)[n].file, n-1>> # Empty
        <5>1. Len(<<i, Lines(i)[n].file, n-1>>) = 3 /\ Len(Empty) = 0
          BY EmptySeq DEF Empty
        <5>2. QED
          BY <5>1
      <4>3. QED
        BY <4>1, <4>2
    <3>2. QED
      BY <3>1
  <2>5. \A l : l \in odd <=> Has(a[i], l) /\ l # Empty /\ ~FitsInt(l)
    BY <2>2
  <2> HIDE DEF mine, all, odd, Empty
  <2>6. mine \subseteq all
    BY <2>2, <2>3 DEF Answering
  <2>7. {l \in all : FitsInt(l)} \subseteq mine
    BY <2>2, <2>3, <2>4 DEF Answering
  <2>8. ASSUME all # {l \in all : FitsInt(l)} PROVE Cardinality(odd) = 1
    <3>1. \E l \in all : ~FitsInt(l)
      BY <2>8
    <3>2. PICK l \in all : ~FitsInt(l) /\ Has(a[i], l)
      BY <2>3, <3>1 DEF Answering
    <3>3. \A m \in odd : m = l
      BY <2>3, <2>4, <2>5, <3>2 DEF Answering
    <3>4. odd = {l}
      BY <2>4, <2>5, <3>2, <3>3
    <3>5. QED
      BY <3>4, FS_Singleton
  <2>9. QED
    BY <2>6, <2>7, <2>8 DEF mine, all, odd
<1>10. Finds(text, q)
  BY <1>8, <1>9 DEF Finds
<1>11. QED
  BY <1>10 DEF text

-----------------------------------------------------------------------------
(* The inductive invariant: what is asked and answered.                    *)

\* What worker i has to answer.
AnswerOf(i) ==
  CASE command = "search"   -> SearchLines(i, query)
    [] command = "maxcount" -> <<MaxCount(i, Head(query))>>
    [] command = "mincount" -> <<MinCount(i, Head(query))>>
    [] command = "wc"       -> <<totals[i]>>

AskInv ==
  /\ command \in {None, "search", "maxcount", "mincount", "wc"}
  /\ buffer \in Arguments /\ query \in Seq(Word)
  /\ command # None => query = Sent(command, buffer)
  /\ command # None => \A i \in Worker : Loaded(i)
  /\ answers = [i \in Worker |-> answers[i]]
  /\ \A i \in Worker : answers[i] # <<>> => command # None /\ answers[i] = AnswerOf(i)

LEMMA AskInit == Init => AskInv
  BY EmptySeq DEF Init, AskInv

\* The cut leaves words, and those that are searched.
LEMMA CutIs ==
  ASSUME NEW typed \in Seq(Word)
  PROVE  /\ UpToHyphen(typed) \in Seq(Word)
         /\ Range(UpToHyphen(typed)) = Searched(typed)
<1> DEFINE cuts == {k \in DOMAIN typed : typed[k] \in Hyphenated}
<1>1. Len(typed) \in Nat /\ DOMAIN typed = 1..Len(typed)
  BY LenProperties
<1>2. CASE cuts = {}
  <2>1. UpToHyphen(typed) = typed
    BY <1>2 DEF UpToHyphen
  <2>2. Searched(typed) = {typed[k] : k \in DOMAIN typed}
    BY <1>1, <1>2 DEF Searched
  <2>3. QED
    BY <2>1, <2>2 DEF Range
<1>3. CASE cuts # {}
  <2> DEFINE c == Min(cuts)
             head == SubSeq(typed, 1, c-1)
             rest == InFront[typed[c]]
  <2>1. c \in cuts /\ \A k \in cuts : c <= k
    <3>1. cuts \subseteq Nat
      BY <1>1
    <3> HIDE DEF cuts
    <3>2. \E k \in cuts : \A j \in cuts : k <= j
      BY <1>3, <3>1, LeastElement
    <3>3. QED
      BY <3>2 DEF Min
  <2>2. UpToHyphen(typed) = head \o rest
    BY <1>3 DEF UpToHyphen
  <2>3. c \in 1..Len(typed) /\ typed[c] \in Hyphenated
    BY <1>1, <2>1
  <2>4. \A j \in 1..Len(typed) : j < c => typed[j] \notin Hyphenated
    <3>1. ASSUME NEW j \in 1..Len(typed), typed[j] \in Hyphenated PROVE ~(j < c)
      <4>1. j \in cuts
        BY <1>1, <3>1
      <4> HIDE DEF c, cuts
      <4>2. c <= j /\ c \in Nat /\ j \in Nat
        BY <1>1, <2>1, <2>3, <4>1
      <4>3. QED
        BY <4>2
    <3>2. QED
      BY <3>1
  <2>5. rest = <<>> \/ \E w \in Word : rest = <<w>>
    BY <2>3, CountingAssumption
  <2> HIDE DEF cuts, c, rest
  <2>6. rest \in Seq(Word) /\ Len(rest) \in Nat /\ DOMAIN rest = 1..Len(rest)
    <3>1. rest \in Seq(Word)
      <4>1. CASE rest = <<>>
        BY <4>1, EmptySeq
      <4>2. ASSUME NEW w \in Word, rest = <<w>> PROVE rest \in Seq(Word)
        <5>1. <<w>> \in Seq(Word)
          OBVIOUS
        <5>2. QED
          BY <4>2, <5>1
      <4>3. QED
        BY <2>5, <4>1, <4>2
    <3>2. QED
      BY <3>1, LenProperties
  <2>7. /\ head \in Seq(Word) /\ Len(head) = c-1
        /\ \A j \in 1..c-1 : head[j] = typed[j]
    <3>1. 1 \in Int /\ c-1 \in Int /\ \A j \in 1..c-1 : typed[j] \in Word
      BY <1>1, <2>3, ElementOfSeq
    <3>2. QED
      BY <2>3, <3>1, SubSeqProperties
  <2> HIDE DEF head
  <2>8. /\ head \o rest \in Seq(Word) /\ Len(head \o rest) = c-1 + Len(rest)
        /\ \A j \in 1..c-1+Len(rest) :
             (head \o rest)[j] = IF j <= c-1 THEN typed[j] ELSE rest[j-(c-1)]
    <3>1. /\ head \o rest \in Seq(Word) /\ Len(head \o rest) = Len(head) + Len(rest)
          /\ \A j \in 1..Len(head)+Len(rest) :
               (head \o rest)[j] = IF j <= Len(head) THEN head[j] ELSE rest[j-Len(head)]
      BY <2>6, <2>7, ConcatProperties
    <3>2. \A j \in 1..c-1+Len(rest) : j <= c-1 => j \in 1..c-1
      BY <2>3, <2>6
    <3>3. QED
      BY <2>7, <3>1, <3>2
  <2> DEFINE s == head \o rest
  <2> HIDE DEF s
  <2>9. Range(s) = {typed[j] : j \in 1..c-1} \cup Range(rest)
    <3>1. DOMAIN s = 1..c-1+Len(rest)
      BY <2>8, LenProperties DEF s
    <3>2. \A j \in 1..c-1 : j \in DOMAIN s /\ s[j] = typed[j]
      BY <2>3, <2>6, <2>8, <3>1 DEF s
    <3>3. \A j \in 1..Len(rest) : c-1+j \in DOMAIN s /\ s[c-1+j] = rest[j]
      BY <2>3, <2>6, <2>8, <3>1 DEF s
    <3>4. ASSUME NEW j \in DOMAIN s
          PROVE  \/ j \in 1..c-1 /\ s[j] = typed[j]
                 \/ j-(c-1) \in 1..Len(rest) /\ s[j] = rest[j-(c-1)]
      <4>1. j \in 1..c-1+Len(rest) /\ s[j] = IF j <= c-1 THEN typed[j] ELSE rest[j-(c-1)]
        BY <2>8, <3>1 DEF s
      <4>2. j \in 1..c-1 \/ (~(j <= c-1) /\ j-(c-1) \in 1..Len(rest))
        BY <2>3, <2>6, <4>1
      <4>3. QED
        BY <2>3, <4>1, <4>2
    <3>5. ASSUME NEW v \in Range(s)
          PROVE  v \in {typed[j] : j \in 1..c-1} \cup Range(rest)
      <4>1. PICK j \in DOMAIN s : v = s[j]
        BY DEF Range
      <4>2. \A k \in 1..Len(rest) : rest[k] \in Range(rest)
        BY <2>6, LenProperties DEF Range
      <4>3. QED
        BY <3>4, <4>1, <4>2
    <3>6. {typed[j] : j \in 1..c-1} \subseteq Range(s)
      BY <3>2 DEF Range
    <3>7. Range(rest) \subseteq Range(s)
      <4>1. \A v \in Range(rest) : \E j \in 1..Len(rest) : v = rest[j]
        BY <2>6, LenProperties DEF Range
      <4>2. \A j \in 1..Len(rest) : rest[j] \in Range(s)
        BY <3>3 DEF Range
      <4>3. QED
        BY <4>1, <4>2
    <3>8. QED
      BY <3>5, <3>6, <3>7
  <2>10. Searched(typed) = {typed[j] : j \in 1..c-1} \cup Range(rest)
    <3> DEFINE whole == {k \in DOMAIN typed : \A j \in 1..k : typed[j] \notin Hyphenated}
               cut   == {k \in DOMAIN typed :
                           /\ typed[k] \in Hyphenated
                           /\ \A j \in 1..k-1 : typed[j] \notin Hyphenated}
    <3>1. whole = 1..c-1
      BY <1>1, <2>3, <2>4
    <3>2. cut = {c}
      BY <1>1, <2>3, <2>4
    <3>3. QED
      BY <3>1, <3>2 DEF Searched, rest
  <2>11. QED
    BY <2>2, <2>8, <2>9, <2>10 DEF s
<1>4. QED
  BY <1>2, <1>3

LEMMA SentIs ==
  ASSUME NEW typed \in Arguments, NEW com
  PROVE  /\ Sent(com, typed) \in Seq(Word)
         /\ com = "search" => Range(Sent(com, typed)) = Searched(typed)
         /\ com # "search" => Sent(com, typed) = typed
  BY CutIs, CountingAssumption DEF Sent

\* FileCounter, of given files and results.
Counter(files, results) ==
  LET empty == FoldLeft(LAMBDA l, k : AppendElement(l, 0), NewList(Len(files)), files)
  IN FoldLeft(LAMBDA l, r : Update(l, r.place[1], Value(l, r.place[1]) + r.times),
              empty, results)

LEMMA CounterIs ==
  ASSUME NEW i, NEW w
  PROVE  FileCounter(i, w) = Counter(corpus[i], Results(i, <<w>>))
  BY DEF FileCounter, Counter

LEMMA CounterIsNext ==
  ASSUME NEW i, NEW w
  PROVE  (FileCounter(i, w) = Counter(corpus[i], Results(i, <<w>>)))'
<1>1. FileCounter(i, w) = Counter(corpus[i], Results(i, <<w>>))
  BY CounterIs
<1>2. QED
  BY <1>1, PTL

\* As long as nothing is read and asked, the answers are the same.
LEMMA AnswerStays ==
  ASSUME UNCHANGED <<corpus, trie, totals, command, query>>, NEW i \in Worker
  PROVE  AnswerOf(i)' = AnswerOf(i)
<1>1. \A q : Results(i, q)' = Results(i, q)
  BY DEF Results
<1>2. \A q : SearchLines(i, q)' = SearchLines(i, q)
  BY <1>1 DEF SearchLines
<1>3. \A w : FileCounter(i, w)' = FileCounter(i, w)
  BY <1>1, CounterIs, CounterIsNext
<1>4. \A w : MaxCount(i, w)' = MaxCount(i, w) /\ MinCount(i, w)' = MinCount(i, w)
  BY <1>1, <1>3 DEF MaxCount, MinCount, Count
<1>5. QED
  BY <1>2, <1>4 DEF AnswerOf

LEMMA AskStep ==
  ASSUME AskInv, [Next]_vars
  PROVE  AskInv'
<1>1. ASSUME NEW i \in Worker, ReadLine(i) PROVE AskInv'
  <2>1. /\ command = None /\ UNCHANGED <<corpus, command, buffer, query, answers>>
    BY <1>1 DEF ReadLine, AskInv, master
  <2>2. QED
    BY <2>1 DEF AskInv
<1>2. CASE Send
  <2>1. /\ command = None /\ \A i \in Worker : Loaded(i)
        /\ command' \in {"search", "maxcount", "mincount", "wc"} /\ buffer' \in Arguments
        /\ query' = Sent(command', buffer') /\ UNCHANGED <<corpus, lines, answers>>
    BY <1>2 DEF Send, worker
  <2>2. \A i \in Worker : Loaded(i)'
    BY <2>1 DEF Loaded, Lines
  <2>3. \A i \in Worker : answers'[i] = <<>>
    BY <2>1 DEF AskInv
  <2>4. query' \in Seq(Word)
    BY <2>1, SentIs
  <2>5. (\A i \in Worker : Loaded(i))'
    BY <2>2
  <2>6. (command # None => query = Sent(command, buffer))'
    BY <2>1
  <2>7. QED
    BY <2>1, <2>3, <2>4, <2>5, <2>6 DEF AskInv
<1>3. CASE PrintAnswers
  <2>1. command' = None /\ UNCHANGED <<buffer, query>> /\ answers' = [i \in Worker |-> <<>>]
    BY <1>3 DEF PrintAnswers
  <2>2. QED
    BY <2>1 DEF AskInv
<1>4. ASSUME NEW i \in Worker, Handle(i) PROVE AskInv'
  <2>1. /\ command # None /\ UNCHANGED <<corpus, trie, lines, totals, command, buffer, query>>
        /\ \/ answers' = answers
           \/ answers' = [answers EXCEPT ![i] = AnswerOf(i)]
    BY <1>4 DEF Handle, AnswerOf, master
  <2>2. \A j \in Worker : Loaded(j)'
    BY <2>1 DEF Loaded, Lines, AskInv
  <2>3. \A j \in Worker : AnswerOf(j)' = AnswerOf(j)
    BY <2>1, AnswerStays
  <2>4. /\ answers' = [j \in Worker |-> answers'[j]]
        /\ \A j \in Worker : answers'[j] = answers[j] \/ answers'[j] = AnswerOf(j)
    BY <2>1 DEF AskInv
  <2>5. \A j \in Worker : answers'[j] # <<>> => command' # None /\ answers'[j] = AnswerOf(j)'
    BY <2>1, <2>3, <2>4 DEF AskInv
  <2>6. QED
    BY <2>1, <2>2, <2>4, <2>5 DEF AskInv
<1>5. CASE UNCHANGED vars
  <2>1. UNCHANGED <<corpus, trie, lines, totals, command, buffer, query, answers>>
    BY <1>5 DEF vars, worker, master
  <2>2. \A j \in Worker : AnswerOf(j)' = AnswerOf(j) /\ Loaded(j)' = Loaded(j)
    BY <2>1, AnswerStays DEF Loaded, Lines
  <2>3. QED
    BY <2>1, <2>2 DEF AskInv
<1>6. QED
  BY <1>1, <1>2, <1>3, <1>4, <1>5 DEF Next

-----------------------------------------------------------------------------
(* /search.                                                                *)

\* The same, of documents c.
LinesIn(c, i) ==
  FlattenSeq([f \in DOMAIN c[i] |->
                [n \in DOMAIN c[i][f] |-> [file |-> f-1, words |-> c[i][f][n]]]])

MatchIn(c, i, keywords) ==
  {<<i, LinesIn(c, i)[n].file, n-1>> : n \in
     {m \in DOMAIN LinesIn(c, i) : Range(LinesIn(c, i)[m].words) \cap keywords # {}}}

FindsIn(c, text, q) ==
  LET printed == {n \in DOMAIN text : text[n] # Empty}
  IN /\ \A m, n \in printed : text[m] = text[n] => m = n
     /\ \A i \in Worker :
          LET mine == {l \in {text[n] : n \in printed} : l[1] = i}
              all  == MatchIn(c, i, q)
          IN /\ mine \subseteq all
             /\ {l \in all : FitsInt(l)} \subseteq mine
             /\ all # {l \in all : FitsInt(l)} =>
                  Cardinality({l \in mine : ~FitsInt(l)}) = 1

LEMMA FindsIs ==
  /\ \A text, q : Finds(text, q) <=> FindsIn(corpus, text, q)
  /\ SearchFindsLines
       <=> (shown.command = "search" => FindsIn(corpus, shown.text, Searched(shown.typed)))
  /\ SearchFindsLines'
       <=> (shown'.command = "search" => FindsIn(corpus', shown'.text, Searched(shown'.typed)))
<1>1. \A text, q : Finds(text, q) <=> FindsIn(corpus, text, q)
  BY DEF Finds, FindsIn, Matching, MatchIn, Lines, LinesIn
<1>2. SearchFindsLines
        <=> (shown.command = "search" => FindsIn(corpus, shown.text, Searched(shown.typed)))
  BY DEF SearchFindsLines, FindsIn, Matching, MatchIn, Lines, LinesIn
<1>3. SearchFindsLines'
        <=> (shown'.command = "search" => FindsIn(corpus', shown'.text, Searched(shown'.typed)))
  BY DEF SearchFindsLines, FindsIn, Matching, MatchIn, Lines, LinesIn
<1>4. QED
  BY <1>1, <1>2, <1>3

LEMMA SearchInit == Init => SearchFindsLines
  BY DEF Init, SearchFindsLines, None

LEMMA SearchStep ==
  ASSUME LoadInv, AskInv, SearchFindsLines, [Next]_vars
  PROVE  SearchFindsLines'
<1>2. corpus' = corpus
  BY DEF Next, Send, PrintAnswers, ReadLine, Handle, vars
<1>4. CASE PrintAnswers
  <2>1. CASE command = "search"
    <3> DEFINE a == [i \in Worker |-> answers[i]]
    <3>1. /\ shown' = [command |-> command, typed |-> buffer, text |-> FlattenSeq(a)]
          /\ \A i \in Worker : answers[i] # <<>>
      BY <1>4, <2>1 DEF PrintAnswers
    <3>2. /\ buffer \in Arguments /\ query = Sent(command, buffer) /\ query \in Seq(Word)
          /\ \A i \in Worker : Loaded(i) /\ answers[i] = SearchLines(i, query)
      BY <2>1, <3>1 DEF AskInv, AnswerOf, None
    <3>s. Range(query) = Searched(buffer)
      BY <2>1, <3>2, SentIs
    <3>3. \A i \in Worker : Answering(a[i], Matching(i, Searched(buffer)))
      BY <3>2, <3>s, SearchAnswers
    <3>4. a \in [Worker -> Seq(Text)]
      BY <3>3 DEF Answering
    <3>5. Finds(FlattenSeq([i \in Worker |-> a[i]]), Searched(buffer))
      <4> HIDE DEF a
      <4>1. QED
        BY <3>3, <3>4, PrintFinds
    <3>6. a = [i \in Worker |-> a[i]]
      OBVIOUS
    <3> HIDE DEF a
    <3>7. Finds(shown'.text, Searched(shown'.typed))
      BY <3>1, <3>5, <3>6
    <3>8. QED
      BY <1>2, <3>7, FindsIs
  <2>2. CASE command # "search"
    <3>1. shown'.command # "search"
      BY <1>4, <2>2 DEF PrintAnswers
    <3>2. QED
      BY <3>1 DEF SearchFindsLines
  <2>3. QED
    BY <2>1, <2>2
<1>5. CASE shown' = shown
  BY <1>2, <1>5, FindsIs
<1>6. QED
  BY <1>4, <1>5 DEF Next, Send, ReadLine, Handle, vars, master

-----------------------------------------------------------------------------
(* fileCounter and wc: what the loops over results and answers have after  *)
(* each of them.                                                           *)

Bump(l, r) == Update(l, r.place[1], Value(l, r.place[1]) + r.times)

AddUp(s, r) ==
  [chars |-> s.chars + r.chars, words |-> s.words + r.words, lines |-> s.lines + r.lines]

\* A place for each file.
Zeros(seq, base) == FoldLeft(LAMBDA l, k : AppendElement(l, 0), base, seq)

ZerosWithin(V, seq) == \A v \in V, k \in 1..Len(seq) : AppendElement(v, 0) \in V

LEMMA ZerosFold ==
  ASSUME NEW V, NEW base \in V, NEW X, NEW seq \in Seq(X),
         ZerosWithin(V, seq)
  PROVE  \E h \in [0..Len(seq) -> V] :
           /\ h[0] = base /\ h[Len(seq)] = Zeros(seq, base)
           /\ \A k \in 0..Len(seq)-1 : h[k+1] = AppendElement(h[k], 0)
<1> DEFINE n == Len(seq)
           F == [vk \in V \X (1..n) |-> AppendElement(vk[1], 0)]
           Folds(it) == it = [s \in SUBSET (DOMAIN seq) |->
                                IF s = {} THEN base
                                ELSE AppendElement(it[s \ {Max(s)}], 0)]
           iter == CHOOSE it : Folds(it)
<1>1. n \in Nat /\ DOMAIN seq = 1..n
  BY LenProperties
<1>2. \A v \in V, k \in 1..n : F[<<v, k>>] = AppendElement(v, 0) /\ F[<<v, k>>] \in V
  BY DEF ZerosWithin
<1>3. Zeros(seq, base) = iter[DOMAIN seq]
  BY DEF Zeros, FoldLeft, MapThenFoldSet
<1> HIDE DEF n, F
<1>4. \A s \in SUBSET (1..n) : s # {} => s \ {Max(s)} \in SUBSET (1..n) /\ Max(s) \in 1..n
  BY <1>1, MaxIsGreatest
<1>5. \E it : Folds(it)
  <2>1. PICK it \in [SUBSET (1..n) -> V] : FoldsBy(it, n, base, F)
    <3>1. StaysIn(V, n, F)
      BY <1>2 DEF StaysIn
    <3>2. QED
      BY <1>1, <3>1, FoldExists
  <2>2. \A s \in SUBSET (1..n) :
          it[s] = IF s = {} THEN base
                  ELSE AppendElement(it[s \ {Max(s)}], 0)
    BY <1>2, <1>4, <2>1 DEF FoldsBy
  <2>3. QED
    BY <1>1, <2>1, <2>2
<1>6. Folds(iter)
  <2> HIDE DEF Folds
  <2>1. QED
    BY <1>5
<1> HIDE DEF iter
<1>7. GoesOnBy(iter, n, V, base, F)
  BY <1>1, <1>2, <1>4, <1>6 DEF GoesOnBy
<1> DEFINE h == Values(iter, n)
<1> HIDE DEF h, Folds
<1>8. n \in Nat /\ StaysIn(V, n, F)
  BY <1>1, <1>2 DEF StaysIn
<1>9. /\ h \in [0..n -> V] /\ h[0] = base /\ h[n] = iter[1..n]
      /\ \A k \in 0..n-1 : h[k+1] = F[<<h[k], k+1>>]
  <2>1. /\ Values(iter, n) \in [0..n -> V]
        /\ Values(iter, n)[0] = base /\ Values(iter, n)[n] = iter[1..n]
        /\ \A k \in 0..n-1 : Values(iter, n)[k+1] = F[<<Values(iter, n)[k], k+1>>]
    BY <1>7, <1>8, FoldSteps
  <2>2. QED
    BY <2>1 DEF h
<1>10. \A k \in 0..n-1 : h[k] \in V /\ k+1 \in 1..n
  BY <1>1, <1>9
<1>11. \A k \in 0..n-1 : h[k+1] = AppendElement(h[k], 0)
  BY <1>2, <1>9, <1>10
<1>12. QED
  BY <1>1, <1>3, <1>9, <1>11 DEF n

\* The results, counted.
Bumps(seq, base) == FoldLeft(LAMBDA l, r : Bump(l, r), base, seq)

BumpsWithin(V, seq) == \A v \in V, k \in 1..Len(seq) : Bump(v, seq[k]) \in V

LEMMA BumpsFold ==
  ASSUME NEW V, NEW base \in V, NEW X, NEW seq \in Seq(X),
         BumpsWithin(V, seq)
  PROVE  \E h \in [0..Len(seq) -> V] :
           /\ h[0] = base /\ h[Len(seq)] = Bumps(seq, base)
           /\ \A k \in 0..Len(seq)-1 : h[k+1] = Bump(h[k], seq[k+1])
<1> DEFINE n == Len(seq)
           F == [vk \in V \X (1..n) |-> Bump(vk[1], seq[vk[2]])]
           Folds(it) == it = [s \in SUBSET (DOMAIN seq) |->
                                IF s = {} THEN base
                                ELSE Bump(it[s \ {Max(s)}], seq[Max(s)])]
           iter == CHOOSE it : Folds(it)
<1>1. n \in Nat /\ DOMAIN seq = 1..n
  BY LenProperties
<1>2. \A v \in V, k \in 1..n : F[<<v, k>>] = Bump(v, seq[k]) /\ F[<<v, k>>] \in V
  BY DEF BumpsWithin
<1>3. Bumps(seq, base) = iter[DOMAIN seq]
  BY DEF Bumps, FoldLeft, MapThenFoldSet
<1> HIDE DEF n, F
<1>4. \A s \in SUBSET (1..n) : s # {} => s \ {Max(s)} \in SUBSET (1..n) /\ Max(s) \in 1..n
  BY <1>1, MaxIsGreatest
<1>5. \E it : Folds(it)
  <2>1. PICK it \in [SUBSET (1..n) -> V] : FoldsBy(it, n, base, F)
    <3>1. StaysIn(V, n, F)
      BY <1>2 DEF StaysIn
    <3>2. QED
      BY <1>1, <3>1, FoldExists
  <2>2. \A s \in SUBSET (1..n) :
          it[s] = IF s = {} THEN base
                  ELSE Bump(it[s \ {Max(s)}], seq[Max(s)])
    BY <1>2, <1>4, <2>1 DEF FoldsBy
  <2>3. QED
    BY <1>1, <2>1, <2>2
<1>6. Folds(iter)
  <2> HIDE DEF Folds
  <2>1. QED
    BY <1>5
<1> HIDE DEF iter
<1>7. GoesOnBy(iter, n, V, base, F)
  BY <1>1, <1>2, <1>4, <1>6 DEF GoesOnBy
<1> DEFINE h == Values(iter, n)
<1> HIDE DEF h, Folds
<1>8. n \in Nat /\ StaysIn(V, n, F)
  BY <1>1, <1>2 DEF StaysIn
<1>9. /\ h \in [0..n -> V] /\ h[0] = base /\ h[n] = iter[1..n]
      /\ \A k \in 0..n-1 : h[k+1] = F[<<h[k], k+1>>]
  <2>1. /\ Values(iter, n) \in [0..n -> V]
        /\ Values(iter, n)[0] = base /\ Values(iter, n)[n] = iter[1..n]
        /\ \A k \in 0..n-1 : Values(iter, n)[k+1] = F[<<Values(iter, n)[k], k+1>>]
    BY <1>7, <1>8, FoldSteps
  <2>2. QED
    BY <2>1 DEF h
<1>10. \A k \in 0..n-1 : h[k] \in V /\ k+1 \in 1..n
  BY <1>1, <1>9
<1>11. \A k \in 0..n-1 : h[k+1] = Bump(h[k], seq[k+1])
  BY <1>2, <1>9, <1>10
<1>12. QED
  BY <1>1, <1>3, <1>9, <1>11 DEF n

\* The totals, added up.
Totals(seq, base) == FoldLeft(LAMBDA s, r : AddUp(s, r), base, seq)

TotalsWithin(V, seq) == \A v \in V, k \in 1..Len(seq) : AddUp(v, seq[k]) \in V

LEMMA TotalsFold ==
  ASSUME NEW V, NEW base \in V, NEW X, NEW seq \in Seq(X),
         TotalsWithin(V, seq)
  PROVE  \E h \in [0..Len(seq) -> V] :
           /\ h[0] = base /\ h[Len(seq)] = Totals(seq, base)
           /\ \A k \in 0..Len(seq)-1 : h[k+1] = AddUp(h[k], seq[k+1])
<1> DEFINE n == Len(seq)
           F == [vk \in V \X (1..n) |-> AddUp(vk[1], seq[vk[2]])]
           Folds(it) == it = [s \in SUBSET (DOMAIN seq) |->
                                IF s = {} THEN base
                                ELSE AddUp(it[s \ {Max(s)}], seq[Max(s)])]
           iter == CHOOSE it : Folds(it)
<1>1. n \in Nat /\ DOMAIN seq = 1..n
  BY LenProperties
<1>2. \A v \in V, k \in 1..n : F[<<v, k>>] = AddUp(v, seq[k]) /\ F[<<v, k>>] \in V
  BY DEF TotalsWithin
<1>3. Totals(seq, base) = iter[DOMAIN seq]
  BY DEF Totals, FoldLeft, MapThenFoldSet
<1> HIDE DEF n, F
<1>4. \A s \in SUBSET (1..n) : s # {} => s \ {Max(s)} \in SUBSET (1..n) /\ Max(s) \in 1..n
  BY <1>1, MaxIsGreatest
<1>5. \E it : Folds(it)
  <2>1. PICK it \in [SUBSET (1..n) -> V] : FoldsBy(it, n, base, F)
    <3>1. StaysIn(V, n, F)
      BY <1>2 DEF StaysIn
    <3>2. QED
      BY <1>1, <3>1, FoldExists
  <2>2. \A s \in SUBSET (1..n) :
          it[s] = IF s = {} THEN base
                  ELSE AddUp(it[s \ {Max(s)}], seq[Max(s)])
    BY <1>2, <1>4, <2>1 DEF FoldsBy
  <2>3. QED
    BY <1>1, <2>1, <2>2
<1>6. Folds(iter)
  <2> HIDE DEF Folds
  <2>1. QED
    BY <1>5
<1> HIDE DEF iter
<1>7. GoesOnBy(iter, n, V, base, F)
  BY <1>1, <1>2, <1>4, <1>6 DEF GoesOnBy
<1> DEFINE h == Values(iter, n)
<1> HIDE DEF h, Folds
<1>8. n \in Nat /\ StaysIn(V, n, F)
  BY <1>1, <1>2 DEF StaysIn
<1>9. /\ h \in [0..n -> V] /\ h[0] = base /\ h[n] = iter[1..n]
      /\ \A k \in 0..n-1 : h[k+1] = F[<<h[k], k+1>>]
  <2>1. /\ Values(iter, n) \in [0..n -> V]
        /\ Values(iter, n)[0] = base /\ Values(iter, n)[n] = iter[1..n]
        /\ \A k \in 0..n-1 : Values(iter, n)[k+1] = F[<<Values(iter, n)[k], k+1>>]
    BY <1>7, <1>8, FoldSteps
  <2>2. QED
    BY <2>1 DEF h
<1>10. \A k \in 0..n-1 : h[k] \in V /\ k+1 \in 1..n
  BY <1>1, <1>9
<1>11. \A k \in 0..n-1 : h[k+1] = AddUp(h[k], seq[k+1])
  BY <1>2, <1>9, <1>10
<1>12. QED
  BY <1>1, <1>3, <1>9, <1>11 DEF n

\* A count for each of n files.
Counters(n) ==
  {l \in [items : Seq(Nat), allocated : {n}, start_from : {0}] : Len(l.items) = n}

LEMMA ZerosAre ==
  ASSUME NEW X, NEW files \in Seq(X)
  PROVE  LET zeros == Zeros(files, NewList(Len(files)))
         IN  zeros \in Counters(Len(files)) /\ \A j \in 1..Len(files) : zeros.items[j] = 0
<1> DEFINE n == Len(files)
           base == NewList(n)
           zeros == Zeros(files, base)
           V == [items : Seq(Nat), allocated : Nat, start_from : {0}]
<1>1. n \in Nat
  BY LenProperties
<1>2. base \in V /\ base.items = <<>> /\ Len(base.items) = 0 /\ base.allocated = n
  BY <1>1, EmptySeq DEF NewList
<1>3. ASSUME NEW v \in V
      PROVE  /\ AppendElement(v, 0) \in V
             /\ AppendElement(v, 0).items = Append(v.items, 0)
             /\ Len(v.items) < v.allocated => AppendElement(v, 0).allocated = v.allocated
  <2>1. v.items \in Seq(Nat) /\ Append(v.items, 0) \in Seq(Nat) /\ v.allocated \in Nat
    BY AppendProperties
  <2>2. Len(v.items) \in Nat
    BY <2>1, LenProperties
  <2>3. (v.allocated * 3) \div 2 \in Nat
    BY <2>1
  <2>4. CASE Len(v.items) >= v.allocated
    <3> DEFINE a == (v.allocated * 3) \div 2
    <3>1. AppendElement(v, 0) = [[v EXCEPT !.allocated = a] EXCEPT !.items = Append(@, 0)]
      BY <2>4 DEF AppendElement, AllocateMore
    <3> HIDE DEF a
    <3>2. AppendElement(v, 0) = [items |-> Append(v.items, 0), allocated |-> a,
                                 start_from |-> v.start_from]
      BY <3>1
    <3>3. a \in Nat
      BY <2>3 DEF a
    <3>4. AppendElement(v, 0) \in V
      <4>1. Append(v.items, 0) \in Seq(Nat) /\ v.start_from \in {0}
        BY <2>1
      <4>2. \A s \in Seq(Nat), z \in {0} :
              [items |-> s, allocated |-> a, start_from |-> z] \in V
        BY <3>3
      <4>3. QED
        BY <3>2, <4>1, <4>2
    <3>5. ~(Len(v.items) < v.allocated)
      BY <2>1, <2>2, <2>4
    <3>6. QED
      BY <3>2, <3>4, <3>5
  <2>5. CASE ~(Len(v.items) >= v.allocated)
    <3>1. AppendElement(v, 0) = [v EXCEPT !.items = Append(@, 0)]
      BY <2>5 DEF AppendElement
    <3>2. AppendElement(v, 0) = [items |-> Append(v.items, 0), allocated |-> v.allocated,
                                 start_from |-> v.start_from]
      BY <3>1
    <3>3. QED
      BY <2>1, <3>2
  <2>6. QED
    BY <2>4, <2>5
<1> HIDE DEF V, base
<1>4. PICK h \in [0..n -> V] :
        /\ h[0] = base /\ h[n] = zeros
        /\ \A k \in 0..n-1 : h[k+1] = AppendElement(h[k], 0)
  <2>1. ZerosWithin(V, files)
    BY <1>3 DEF ZerosWithin
  <2> HIDE DEF n
  <2>2. \E h \in [0..Len(files) -> V] :
          /\ h[0] = base
          /\ h[Len(files)] = Zeros(files, base)
          /\ \A k \in 0..Len(files)-1 : h[k+1] = AppendElement(h[k], 0)
    BY <1>2, <2>1, ZerosFold
  <2>3. QED
    BY <2>2 DEF n
<1> HIDE DEF n, zeros
<1> DEFINE Right(k) == /\ Len(h[k].items) = k /\ h[k].allocated = n
                       /\ \A j \in 1..k : h[k].items[j] = 0
           U == {k \in Nat : k <= n => Right(k)}
<1>5. 0 \in U
  BY <1>2, <1>4
<1>6. ASSUME NEW k \in Nat, k \in U PROVE k+1 \in U
  <2> HIDE DEF Right
  <2>1. SUFFICES ASSUME k+1 <= n PROVE Right(k+1)
    OBVIOUS
  <2>2. k \in 0..n-1 /\ k <= n /\ k \in 0..n
    BY <1>1, <2>1
  <2>3. Right(k)
    BY <1>6, <2>2
  <2>4. h[k] \in V /\ h[k+1] = AppendElement(h[k], 0) /\ h[k].items \in Seq(Nat)
    BY <1>4, <2>2 DEF V
  <2>5. Len(h[k].items) = k /\ h[k].allocated = n /\ k < n
    BY <1>1, <2>2, <2>3 DEF Right
  <2>6. h[k+1].items = Append(h[k].items, 0) /\ h[k+1].allocated = n
    BY <1>3, <2>4, <2>5
  <2>7. /\ Len(Append(h[k].items, 0)) = k+1 /\ Append(h[k].items, 0)[k+1] = 0
        /\ \A j \in 1..k : Append(h[k].items, 0)[j] = h[k].items[j]
    BY <2>4, <2>5, AppendProperties
  <2>8. \A j \in 1..k+1 : j \in 1..k \/ j = k+1
    OBVIOUS
  <2>9. QED
    BY <2>3, <2>6, <2>7, <2>8 DEF Right
<1>7. Right(n)
  <2> HIDE DEF U, Right
  <2>1. Nat \subseteq U
    BY <1>5, <1>6, Induction
  <2>2. n \in U /\ n <= n
    BY <1>1, <2>1
  <2>3. QED
    BY <2>2 DEF U
<1>8. zeros \in V /\ zeros = h[n]
  BY <1>1, <1>4
<1>9. zeros \in Counters(n)
  BY <1>7, <1>8 DEF Counters, V
<1>10. QED
  BY <1>7, <1>8, <1>9 DEF n, zeros, base

\* A result is counted for its file, and for no other.
LEMMA BumpCounts ==
  ASSUME NEW n \in Nat, NEW l \in Counters(n), NEW r \in Posting(Place), r.place[1] < n
  PROVE  /\ Bump(l, r) \in Counters(n)
         /\ \A f \in 0..n-1 : Bump(l, r).items[f+1] =
              l.items[f+1] + (IF f = r.place[1] THEN r.times ELSE 0)
<1> DEFINE f == r.place[1]
           c == l.items[f+1] + r.times
<1>1. /\ l.items \in Seq(Nat) /\ Len(l.items) = n /\ l.allocated = n /\ l.start_from = 0
      /\ l = [items |-> l.items, allocated |-> n, start_from |-> 0]
  BY DEF Counters
<1>2. f \in 0..n-1 /\ f+1 \in 1..n /\ r.times \in Nat
  BY DEF Posting, Place
<1>3. \A j \in 1..n : l.items[j] \in Nat
  BY <1>1, ElementOfSeq
<1>4. c \in Nat
  BY <1>2, <1>3
<1>5. Bump(l, r) = [l EXCEPT !.items[f+1] = c]
  <2>1. f - 0 + 1 = f + 1
    BY <1>2
  <2>2. QED
    BY <1>1, <2>1 DEF Bump, Update, Value
<1> HIDE DEF c
<1>6. /\ [l.items EXCEPT ![f+1] = c] \in Seq(Nat) /\ Len([l.items EXCEPT ![f+1] = c]) = n
      /\ \A j \in 1..n : [l.items EXCEPT ![f+1] = c][j] = IF j = f+1 THEN c ELSE l.items[j]
  BY <1>1, <1>2, <1>4, ExceptSeq
<1>7. Bump(l, r) = [items |-> [l.items EXCEPT ![f+1] = c], allocated |-> n, start_from |-> 0]
  BY <1>1, <1>5
<1>8. Bump(l, r) \in Counters(n)
  BY <1>6, <1>7 DEF Counters
<1>9. ASSUME NEW g \in 0..n-1
      PROVE  Bump(l, r).items[g+1] = l.items[g+1] + (IF g = f THEN r.times ELSE 0)
  <2>1. g+1 \in 1..n /\ l.items[g+1] \in Nat /\ (g+1 = f+1 <=> g = f)
    BY <1>2, <1>3
  <2>2. Bump(l, r).items[g+1] = IF g+1 = f+1 THEN c ELSE l.items[g+1]
    BY <1>6, <1>7, <2>1
  <2>3. QED
    BY <2>1, <2>2 DEF c
<1>10. QED
  BY <1>8, <1>9

LEMMA CounterFold ==
  ASSUME NEW X, NEW files \in Seq(X), NEW results \in Seq(Posting(Place)),
         \A k \in 1..Len(results) : results[k].place[1] < Len(files)
  PROVE  \E h \in [0..Len(results) -> Counters(Len(files))] :
           /\ \A j \in 1..Len(files) : h[0].items[j] = 0
           /\ h[Len(results)] = Counter(files, results)
           /\ \A k \in 0..Len(results)-1 : h[k+1] = Bump(h[k], results[k+1])
<1> DEFINE n == Len(files)
           base == Zeros(files, NewList(n))
           V == Counters(n)
           S == Posting(Place)
<1>1. n \in Nat /\ \A k \in 1..Len(results) : results[k] \in Posting(Place)
  BY LenProperties, ElementOfSeq
<1>2. base \in Counters(n) /\ \A j \in 1..n : base.items[j] = 0
  BY ZerosAre
<1>3. Counter(files, results) = Bumps(results, base)
  BY DEF Counter, Bumps, Bump, Zeros
<1> HIDE DEF base
<1>4. \A v \in Counters(n), k \in 1..Len(results) : Bump(v, results[k]) \in Counters(n)
  BY <1>1, BumpCounts
<1>5. base \in V /\ results \in Seq(S)
  BY <1>2
<1>6. BumpsWithin(V, results)
  BY <1>4 DEF BumpsWithin
<1> HIDE DEF n, V, S
<1>7. \E h \in [0..Len(results) -> V] :
        /\ h[0] = base /\ h[Len(results)] = Bumps(results, base)
        /\ \A k \in 0..Len(results)-1 : h[k+1] = Bump(h[k], results[k+1])
  BY <1>5, <1>6, BumpsFold
<1>8. QED
  BY <1>2, <1>3, <1>7 DEF n, V

\* The results of one word are of files that there are.
LEMMA ResultsAre ==
  ASSUME LoadInv, NEW i \in Worker, NEW w \in Word
  PROVE  /\ Search(trie[i], <<w>>) \in ListOf(Posting(Place))
         /\ Results(i, <<w>>) \in Seq(Posting(Place))
         /\ corpus[i] \in Seq(Seq(Seq(Word)))
         /\ \A k \in 1..Len(Results(i, <<w>>)) :
              Results(i, <<w>>)[k].place[1] < Len(corpus[i])
         /\ \A k \in 1..Len(Results(i, <<w>>)) :
              Times(trie[i][w], Results(i, <<w>>)[k].place) # 0
<1> DEFINE t == trie[i]
           q == <<w>>
           r == Results(i, q)
           a == Appearances(t, q)
<1>1. /\ corpus \in Corpora /\ t \in Tries(Place) /\ Indexed(t, Lines(i), Len(lines[i]))
      /\ Len(lines[i]) \in 0..Len(Lines(i))
  BY DEF LoadInv
<1>2. corpus[i] \in Seq(Seq(Seq(Word)))
  BY <1>1, CountingAssumption
<1>3. q \in Seq(Word) /\ Len(q) = 1 /\ q[1] = w
  OBVIOUS
<1> HIDE DEF t, q
<1>4. /\ Search(t, q) \in ListOf(Posting(Place))
      /\ \A k \in 1..Len(r) : Has(a, r[k])
  BY <1>1, <1>3, SearchFinds DEF Results, t
<1>5. \A d : HasPlace(a, d) <=> HasOneOf(t, q, d)
  BY <1>1, <1>3, AppearancesHave
<1>6. r \in Seq(Posting(Place))
  BY <1>4 DEF Results, ListOf, t
<1> HIDE DEF r, a
<1>7. \A k \in 1..Len(r) : r[k] \in Posting(Place)
  BY <1>6, ElementOfSeq
<1>8. ASSUME NEW k \in 1..Len(r)
      PROVE  r[k].place[1] < Len(corpus[i]) /\ Times(t[w], r[k].place) # 0
  <2> DEFINE p == r[k].place
  <2>1. p \in Place /\ HasPlace(a, p)
    BY <1>4, <1>7 DEF Posting, Has, HasPlace
  <2>2. p[1] \in Nat /\ p[2] \in Nat
    BY <2>1 DEF Place
  <2> HIDE DEF p
  <2>3. Times(t[w], p) # 0
    BY <1>3, <1>5, <2>1 DEF HasOneOf
  <2>4. p[2] < Len(lines[i]) /\ Lines(i)[p[2]+1].file = p[1]
    BY <1>1, <2>1, <2>3 DEF Indexed
  <2>5. p[2]+1 \in 1..Len(Lines(i))
    BY <1>1, <2>2, <2>4, LinesAre
  <2>6. p[1] \in 0..Len(corpus[i])-1 /\ Len(corpus[i]) \in Nat
    BY <1>1, <2>4, <2>5, LinesAre
  <2>7. QED
    BY <2>2, <2>3, <2>6 DEF p
<1>9. QED
  BY <1>2, <1>4, <1>6, <1>8 DEF r, t, q

LEMMA TypesFollow ==
  ASSUME LoadInv, AskInv
  PROVE  TypeOK
<1>1. ASSUME NEW i \in Worker, NEW w \in Word
      PROVE  /\ Fits(trie[i][w]) /\ Fits(Search(trie[i], <<w>>))
             /\ corpus[i] # <<>> => Fits(FileCounter(i, w))
  <2>1. trie[i] \in Tries(Place)
    BY DEF LoadInv
  <2>2. Fits(trie[i][w])
    BY <2>1 DEF Tries, PostingList, ListOf, Fits
  <2>3. Fits(Search(trie[i], <<w>>))
    BY ResultsAre DEF ListOf, Fits
  <2>4. PICK h \in [0..Len(Results(i, <<w>>)) -> Counters(Len(corpus[i]))] :
          h[Len(Results(i, <<w>>))] = Counter(corpus[i], Results(i, <<w>>))
    BY ResultsAre, CounterFold
  <2>5. Len(Results(i, <<w>>)) \in Nat
    BY ResultsAre, LenProperties
  <2>6. FileCounter(i, w) \in Counters(Len(corpus[i]))
    BY <2>4, <2>5, CounterIs
  <2>7. Len(corpus[i]) \in Nat
    BY ResultsAre, LenProperties
  <2>8. Fits(FileCounter(i, w))
    BY <2>6, <2>7 DEF Counters, Fits
  <2>9. QED
    BY <2>2, <2>3, <2>8
<1>2. QED
  BY <1>1 DEF TypeOK, LoadInv, AskInv

-----------------------------------------------------------------------------
(* Counting by blocks.                                                      *)

\* Blocks of the same sizes have the same size.
LEMMA SameBlocks ==
  ASSUME NEW n \in Nat, NEW tag, NEW D, Different(tag, n), AllFinite(D, n),
         NEW mark, NEW E, Different(mark, n), AllFinite(E, n),
         \A j \in 1..n : Cardinality(D[j]) = Cardinality(E[j])
  PROVE  /\ Cardinality(Blocks(tag, D, n)) = Cardinality(Blocks(mark, E, n))
         /\ IsFiniteSet(Blocks(tag, D, n))
<1> DEFINE Same(k) == Cardinality(Blocks(tag, D, k)) = Cardinality(Blocks(mark, E, k))
           U == {k \in Nat : k <= n => Same(k)}
<1>a. /\ Cardinality(Blocks(tag, D, 0)) = 0
      /\ \A k \in 0..n-1 : Cardinality(Blocks(tag, D, k+1))
                             = Cardinality(Blocks(tag, D, k)) + Cardinality(D[k+1])
  <2>1. Adding(tag, D, n)
    BY BlocksAdd
  <2>2. QED
    BY <2>1 DEF Adding
<1>b. /\ Cardinality(Blocks(mark, E, 0)) = 0
      /\ \A k \in 0..n-1 : Cardinality(Blocks(mark, E, k+1))
                             = Cardinality(Blocks(mark, E, k)) + Cardinality(E[k+1])
  <2>1. Adding(mark, E, n)
    BY BlocksAdd
  <2>2. QED
    BY <2>1 DEF Adding
<1>1. 0 \in U
  BY <1>a, <1>b
<1>2. ASSUME NEW k \in Nat, k \in U PROVE k+1 \in U
  <2>1. CASE k+1 <= n
    <3>1. k \in 0..n-1 /\ k+1 \in 1..n /\ Same(k)
      BY <1>2, <2>1
    <3>2. /\ Cardinality(Blocks(tag, D, k+1)) = Cardinality(Blocks(tag, D, k)) + Cardinality(D[k+1])
          /\ Cardinality(Blocks(mark, E, k+1))
               = Cardinality(Blocks(mark, E, k)) + Cardinality(E[k+1])
      BY <3>1, <1>a, <1>b
    <3>3. QED
      BY <3>1, <3>2
  <2>2. QED
    BY <2>1
<1>3. n \in U
  <2> HIDE DEF U
  <2>1. Nat \subseteq U
    BY <1>1, <1>2, Induction
  <2>2. QED
    BY <2>1
<1>4. n \in 0..n
  OBVIOUS
<1>5. QED
  BY <1>3, <1>4, BlocksCount

-----------------------------------------------------------------------------
(* The lines of a worker, file by file.                                    *)

\* The lines of this file, whose number is given, are in l from b on.
Starts(l, b, file, number) ==
  /\ \A k \in 1..Len(file) : b+k \in 1..Len(l) /\ l[b+k] = [file |-> number, words |-> file[k]]
  /\ \A m \in 1..Len(l) : l[m].file = number => m-b \in 1..Len(file)

LEMMA FileStarts ==
  ASSUME corpus \in Corpora, NEW i \in Worker, NEW f \in 1..Len(corpus[i])
  PROVE  \E b \in Nat : Starts(Lines(i), b, corpus[i][f], f-1)
<1> DEFINE c == corpus[i]
           n == Len(c)
           Of(g) == [m \in DOMAIN c[g] |-> [file |-> g-1, words |-> c[g][m]]]
           seqs == [g \in DOMAIN c |-> Of(g)]
           S == [file : Nat, words : Seq(Word)]
           file == c[f]
<1>1. c \in Seq(Seq(Seq(Word)))
  BY CountingAssumption
<1>2. n \in Nat /\ DOMAIN c = 1..n /\ \A g \in 1..n : c[g] \in Seq(Seq(Word))
  <2> HIDE DEF c
  <2>1. QED
    BY <1>1, LenProperties, ElementOfSeq
<1>3. ASSUME NEW g \in 1..n
      PROVE  /\ Of(g) \in Seq(S) /\ Len(Of(g)) = Len(c[g])
             /\ Len(c[g]) \in Nat
             /\ \A m \in 1..Len(c[g]) : Of(g)[m] = [file |-> g-1, words |-> c[g][m]]
  <2>1. c[g] \in Seq(Seq(Word))
    BY <1>2
  <2>2. /\ Len(c[g]) \in Nat /\ DOMAIN c[g] = 1..Len(c[g])
        /\ \A m \in 1..Len(c[g]) : c[g][m] \in Seq(Word)
    <3> HIDE DEF c
    <3>1. QED
      BY <2>1, LenProperties, ElementOfSeq
  <2>3. g-1 \in Nat
    BY <1>2
  <2> HIDE DEF c, n
  <2>4. Of(g) \in [1..Len(c[g]) -> S]
    BY <2>2, <2>3
  <2>5. \A m \in 1..Len(c[g]) : Of(g)[m] = [file |-> g-1, words |-> c[g][m]]
    BY <2>2
  <2> HIDE DEF Of, S
  <2>6. Of(g) \in Seq(S) /\ Len(Of(g)) = Len(c[g])
    BY <2>2, <2>4
  <2>7. QED
    BY <2>2, <2>5, <2>6
<1>4. seqs \in Seq(Seq(S)) /\ Len(seqs) = n /\ \A g \in 1..n : seqs[g] = Of(g)
  <2> HIDE DEF S, c, Of
  <2>1. seqs \in [1..n -> Seq(S)] /\ \A g \in 1..n : seqs[g] = Of(g)
    BY <1>2, <1>3
  <2> HIDE DEF seqs
  <2>2. QED
    BY <1>2, <2>1
<1>5. Lines(i) = FlattenSeq(seqs)
  BY DEF Lines
<1>6. f \in 1..n
  OBVIOUS
<1> HIDE DEF c, n, Of, seqs, file
<1>7. PICK h \in [0..n -> Seq(S)] :
        /\ h[0] = <<>> /\ h[n] = Lines(i)
        /\ \A k \in 0..n-1 : h[k+1] = h[k] \o Of(k+1)
  <2>1. \E h \in [0..Len(seqs) -> Seq(S)] :
          /\ h[0] = <<>> /\ h[Len(seqs)] = FlattenSeq(seqs)
          /\ \A k \in 0..Len(seqs)-1 : h[k+1] = h[k] \o seqs[k+1]
    <3> HIDE DEF S
    <3>1. QED
      BY <1>4, FlattenFolds
  <2>2. \A k \in 0..n-1 : k+1 \in 1..n
    BY <1>2
  <2>3. QED
    BY <1>4, <1>5, <2>1, <2>2
<1> HIDE DEF S
<1>8. ASSUME NEW k \in 0..n-1
      PROVE  /\ Len(h[k]) \in Nat /\ Len(h[k+1]) = Len(h[k]) + Len(c[k+1]) /\ Len(c[k+1]) \in Nat
             /\ \A m \in 1..Len(h[k]) : h[k+1][m] = h[k][m]
             /\ \A m \in 1..Len(c[k+1]) :
                  h[k+1][Len(h[k]) + m] = [file |-> k, words |-> c[k+1][m]]
  <2>1. k+1 \in 1..n /\ k+1-1 = k /\ k \in 0..n
    BY <1>2
  <2> DEFINE s == h[k]
             t == Of(k+1)
  <2>2. s \in Seq(S) /\ t \in Seq(S) /\ h[k+1] = s \o t /\ Len(t) = Len(c[k+1])
    BY <1>3, <1>7, <2>1
  <2>3. \A m \in 1..Len(c[k+1]) : t[m] = [file |-> k, words |-> c[k+1][m]]
    BY <1>3, <2>1
  <2> HIDE DEF s, t
  <2>4. /\ Len(s) \in Nat /\ Len(t) \in Nat /\ Len(s \o t) = Len(s) + Len(t)
        /\ \A j \in 1 .. Len(s) + Len(t) :
             (s \o t)[j] = IF j <= Len(s) THEN s[j] ELSE t[j - Len(s)]
    BY <2>2, ConcatProperties, LenProperties
  <2>5. \A m \in 1..Len(s) : m \in 1 .. Len(s) + Len(t) /\ m <= Len(s)
    BY <2>4
  <2>6. \A m \in 1..Len(t) : /\ Len(s) + m \in 1 .. Len(s) + Len(t) /\ ~(Len(s) + m <= Len(s))
                             /\ Len(s) + m - Len(s) = m
    BY <2>4
  <2>7. \A m \in 1..Len(t) : (s \o t)[Len(s) + m] = t[m]
    BY <2>4, <2>6
  <2>8. QED
    BY <2>2, <2>3, <2>4, <2>5, <2>7 DEF s
<1> DEFINE b == Len(h[f-1])
           Good(k) == IF k < f THEN \A m \in 1..Len(h[k]) : h[k][m].file # f-1
                      ELSE Starts(h[k], b, file, f-1)
           U == {k \in Nat : k <= n => Good(k)}
<1>9. 0 \in U
  <2>1. Len(h[0]) = 0 /\ 0 < f
    BY <1>6, <1>7, EmptySeq
  <2>2. QED
    BY <2>1
<1>10. ASSUME NEW k \in Nat, k \in U PROVE k+1 \in U
  <2> HIDE DEF Good
  <2>1. SUFFICES ASSUME k+1 <= n PROVE Good(k+1)
    OBVIOUS
  <2>2. k \in 0..n-1 /\ k <= n
    BY <1>2, <2>1
  <2>3. Good(k)
    BY <1>10, <2>2
  <2> HIDE DEF U, b
  <2> DEFINE s == h[k]
             t == h[k+1]
             g == c[k+1]
  <2>4. /\ Len(s) \in Nat /\ Len(t) = Len(s) + Len(g) /\ Len(g) \in Nat
        /\ \A m \in 1..Len(s) : t[m] = s[m]
        /\ \A m \in 1..Len(g) : t[Len(s) + m] = [file |-> k, words |-> g[m]]
    BY <1>8, <2>2
  <2>5. Good(k) <=> IF k < f THEN \A m \in 1..Len(s) : s[m].file # f-1
                    ELSE Starts(s, b, file, f-1)
    BY DEF Good
  <2>6. Good(k+1) <=> IF k+1 < f THEN \A m \in 1..Len(t) : t[m].file # f-1
                      ELSE Starts(t, b, file, f-1)
    BY DEF Good
  <2>7. f \in Nat
    BY <1>2, <1>6
  <2>13. f = k+1 => Len(s) = b /\ g = file
    BY <2>7 DEF b, file
  <2> HIDE DEF s, t, g
  <2>8. \A m \in 1..Len(t) : m \in 1..Len(s) \/ (m - Len(s) \in 1..Len(g) /\ t[m].file = k)
    <3>1. ASSUME NEW m \in 1..Len(t), m \notin 1..Len(s)
          PROVE  m - Len(s) \in 1..Len(g) /\ t[m].file = k
      <4>1. m - Len(s) \in 1..Len(g) /\ Len(s) + (m - Len(s)) = m
        BY <2>4, <3>1
      <4>2. t[m] = [file |-> k, words |-> g[m - Len(s)]]
        BY <2>4, <4>1
      <4>3. QED
        BY <4>1, <4>2
    <3>2. QED
      BY <3>1
  <2>9. CASE k+1 < f
    <3>1. k < f /\ k # f-1
      BY <2>7, <2>9
    <3>2. QED
      BY <2>3, <2>4, <2>5, <2>6, <2>8, <2>9, <3>1
  <2>10. CASE k+1 = f
    <3>1. k < f /\ k = f-1 /\ ~(k+1 < f)
      BY <2>7, <2>10
    <3>2. Len(s) = b /\ g = file
      BY <2>10, <2>13
    <3>3. \A m \in 1..Len(t) : t[m].file = f-1 => m - b \in 1..Len(file)
      BY <2>3, <2>4, <2>5, <2>8, <3>1, <3>2
    <3>4. \A m \in 1..Len(file) :
            b+m \in 1..Len(t) /\ t[b+m] = [file |-> f-1, words |-> file[m]]
      BY <2>4, <3>1, <3>2
    <3>5. QED
      BY <2>6, <3>1, <3>3, <3>4 DEF Starts
  <2>11. CASE k+1 > f
    <3>1. ~(k < f) /\ k # f-1 /\ ~(k+1 < f)
      BY <2>7, <2>11
    <3>2. Starts(s, b, file, f-1)
      BY <2>3, <2>5, <3>1
    <3>3. \A m \in 1..Len(t) : t[m].file = f-1 => m - b \in 1..Len(file)
      BY <2>4, <2>8, <3>1, <3>2 DEF Starts
    <3>4. \A m \in 1..Len(file) :
            b+m \in 1..Len(t) /\ t[b+m] = [file |-> f-1, words |-> file[m]]
      BY <2>4, <3>2 DEF Starts
    <3>5. QED
      BY <2>6, <3>1, <3>3, <3>4 DEF Starts
  <2>12. QED
    BY <2>7, <2>9, <2>10, <2>11
<1>11. Good(n)
  <2> HIDE DEF U, Good
  <2>1. Nat \subseteq U
    BY <1>9, <1>10, Induction
  <2>2. n \in U /\ n <= n
    BY <1>2, <2>1
  <2>3. QED
    BY <2>2 DEF U
<1>12. b \in Nat
  <2>1. f-1 \in 0..n-1
    BY <1>2, <1>6
  <2>2. QED
    BY <1>8, <2>1
<1>13. Starts(h[n], b, file, f-1)
  <2>1. ~(n < f)
    BY <1>2, <1>6
  <2>2. QED
    BY <1>11, <2>1
<1>14. QED
  <2> HIDE DEF b
  <2>1. QED
    BY <1>7, <1>12, <1>13 DEF file, c

-----------------------------------------------------------------------------
(* What fileCounter counts: the occurrences of the word in the file.       *)

LEMMA AppearancesOfOne ==
  ASSUME NEW t \in Tries(Place), NEW w \in Word, NEW e
  PROVE  Has(Appearances(t, <<w>>), e) <=> Has(t[w].items, e)
<1> DEFINE q == <<w>>
           seqs == [k \in DOMAIN q |-> t[q[k]].items]
           P == Posting(Place)
<1>1. Appearances(t, q) = FlattenSeq(seqs)
  BY DEF Appearances
<1>2. t[w].items \in Seq(P)
  BY DEF Tries, PostingList, ListOf
<1>3. seqs \in Seq(Seq(P)) /\ Len(seqs) = 1 /\ seqs[1] = t[w].items
  <2> HIDE DEF P
  <2>1. DOMAIN q = 1..1 /\ q[1] = w
    OBVIOUS
  <2>2. seqs \in [1..1 -> Seq(P)] /\ seqs[1] = t[w].items
    BY <1>2, <2>1
  <2> DEFINE Q == Seq(P)
  <2>3. seqs \in [1..1 -> Q] /\ 1 \in Nat
    BY <2>2
  <2> HIDE DEF seqs, Q
  <2>4. seqs \in Seq(Q) /\ Len(seqs) = 1
    BY <2>3
  <2>5. QED
    BY <2>2, <2>4 DEF Q
<1> HIDE DEF seqs, P
<1>4. Has(FlattenSeq(seqs), e) <=> \E k \in 1..Len(seqs) : Has(seqs[k], e)
  BY <1>3, FlattenHas
<1>5. QED
  BY <1>1, <1>3, <1>4

\* If all numbers fit, the results of one word are its postings.
LEMMA ResultsOfOne ==
  ASSUME LoadInv, AllFit, NEW i \in Worker, Loaded(i), NEW w \in Word
  PROVE  LET r == Results(i, <<w>>)
         IN  /\ \A j, k \in 1..Len(r) : r[j].place = r[k].place => j = k
             /\ \A k \in 1..Len(r) : r[k].place \in Place
                                     /\ r[k].times = Times(trie[i][w], r[k].place)
             /\ \A p \in Place : Times(trie[i][w], p) # 0 => \E k \in 1..Len(r) : r[k].place = p
<1> DEFINE t == trie[i]
           q == <<w>>
           r == Results(i, q)
           a == Appearances(t, q)
           n == Len(lines[i])
<1>1. /\ corpus \in Corpora /\ t \in Tries(Place) /\ Indexed(t, Lines(i), n)
      /\ n \in 0..Len(Lines(i))
  BY DEF LoadInv
<1>3. q \in Seq(Word) /\ Len(q) = 1 /\ q[1] = w
  OBVIOUS
<1> HIDE DEF t, q
<1>4. /\ Search(t, q) \in ListOf(Posting(Place))
      /\ \A j, k \in 1..Len(r) : PairOf(r[j].place) = PairOf(r[k].place) => j = k
      /\ \A k \in 1..Len(r) : Has(a, r[k])
      /\ \A j \in 1..Len(a) : \E k \in 1..Len(r) : PairOf(r[k].place) = PairOf(a[j].place)
  BY <1>1, <1>3, SearchFinds DEF Results, t
<1>5. \A d : HasPlace(a, d) <=> HasOneOf(t, q, d)
  BY <1>1, <1>3, AppearancesHave
<1>6. r \in Seq(Posting(Place))
  BY <1>4 DEF Results, ListOf, t
<1>7. \A e : Has(a, e) <=> Has(t[w].items, e)
  BY <1>1, AppearancesOfOne DEF q
<1> HIDE DEF r, a
<1>8. \A k \in 1..Len(r) : r[k] \in Posting(Place) /\ r[k].place \in Place
  <2>1. \A k \in 1..Len(r) : r[k] \in Posting(Place)
    BY <1>6, ElementOfSeq
  <2>2. QED
    BY <2>1 DEF Posting
<1>9. ASSUME NEW k \in 1..Len(r) PROVE r[k].times = Times(t[w], r[k].place)
  <2>1. PICK j \in 1..Len(t[w].items) : t[w].items[j] = r[k]
    BY <1>4, <1>7 DEF Has
  <2>2. t[w] \in PostingList(Place)
    BY <1>1 DEF Tries
  <2>3. QED
    BY <2>1, <2>2, TimesAt
<1>10. ASSUME NEW p \in Place, Times(t[w], p) # 0
       PROVE  \E k \in 1..Len(r) : r[k].place = p
  <2>1. p[1] \in Nat /\ p[2] \in Nat
    BY DEF Place
  <2>2. p[2] < n /\ Lines(i)[p[2]+1].file = p[1]
    BY <1>1, <1>10 DEF Indexed
  <2>3. Fitting(p[1], p[2])
    <3> DEFINE x == p[2]+1
    <3>1. x \in DOMAIN Lines(i) /\ x-1 = p[2] /\ Lines(i)[x].file = p[1]
      BY <1>1, <2>1, <2>2, LinesAre
    <3> HIDE DEF x
    <3>2. FitsInt(<<i, Lines(i)[x].file, x-1>>)
      BY <3>1 DEF AllFit
    <3>3. FitsInt(<<i, p[1], p[2]>>)
      BY <3>1, <3>2
    <3>4. QED
      BY <3>3 DEF FitsInt, Fitting
  <2>4. HasPlace(a, p)
    BY <1>3, <1>5, <1>10 DEF HasOneOf
  <2>5. PICK k \in 1..Len(r) : PairOf(r[k].place) = PairOf(p)
    BY <1>4, <2>4 DEF HasPlace
  <2> DEFINE u == r[k].place
  <2>6. u \in Place /\ u[1] \in Nat /\ u[2] \in Nat /\ u = <<u[1], u[2]>> /\ p = <<p[1], p[2]>>
    BY <1>8 DEF Place
  <2>7. UniqueCantorPair(u[1], u[2]) = UniqueCantorPair(p[1], p[2])
    BY <2>5 DEF PairOf
  <2> HIDE DEF u
  <2>8. u[1] = p[1] /\ u[2] = p[2]
    BY <2>1, <2>3, <2>6, <2>7, PairsDiffer
  <2>9. u = p
    BY <2>6, <2>8
  <2>10. QED
    BY <2>9 DEF u
<1>11. \A j, k \in 1..Len(r) : r[j].place = r[k].place => j = k
  BY <1>4
<1>12. QED
  BY <1>8, <1>9, <1>10, <1>11 DEF r, t, q

\* The occurrences of a word in a file, as the index has them.
Units(i, w, g) ==
  {e \in Place \X Nat : e[1][1] = g /\ e[2] \in 1..Times(trie[i][w], e[1])}

LEMMA CounterUnits ==
  ASSUME LoadInv, AllFit, NEW i \in Worker, Loaded(i), NEW w \in Word,
         NEW f \in 1..Len(corpus[i])
  PROVE  FileCounter(i, w).items[f] = Cardinality(Units(i, w, f-1))
<1> DEFINE r == Results(i, <<w>>)
           m == Len(r)
           n == Len(corpus[i])
           tag == [k \in 1..m |-> r[k].place]
           D == [k \in 1..m |-> IF r[k].place[1] = f-1 THEN 1..r[k].times ELSE {}]
<1>1. /\ r \in Seq(Posting(Place)) /\ corpus[i] \in Seq(Seq(Seq(Word)))
      /\ \A k \in 1..m : r[k].place[1] < n
  BY ResultsAre
<1>2. /\ \A j, k \in 1..m : r[j].place = r[k].place => j = k
      /\ \A k \in 1..m : r[k].place \in Place /\ r[k].times = Times(trie[i][w], r[k].place)
      /\ \A p \in Place : Times(trie[i][w], p) # 0 => \E k \in 1..m : r[k].place = p
  BY ResultsOfOne
<1>3. FileCounter(i, w) = Counter(corpus[i], r)
  BY CounterIs
<1> HIDE DEF r
<1>4. /\ m \in Nat /\ n \in Nat /\ f-1 \in 0..n-1 /\ f-1+1 = f
      /\ \A k \in 1..m : r[k] \in Posting(Place) /\ r[k].times \in Nat
  <2>1. \A k \in 1..m : r[k] \in Posting(Place)
    BY <1>1, ElementOfSeq
  <2>2. m \in Nat /\ n \in Nat
    BY <1>1, LenProperties
  <2>3. QED
    BY <2>1, <2>2 DEF Posting
<1>5. PICK h \in [0..m -> Counters(n)] :
        /\ \A j \in 1..n : h[0].items[j] = 0
        /\ h[m] = FileCounter(i, w)
        /\ \A k \in 0..m-1 : h[k+1] = Bump(h[k], r[k+1])
  BY <1>1, <1>3, CounterFold
<1> HIDE DEF m, n, tag, D
<1>6. Different(tag, m)
  BY <1>2 DEF Different, tag
<1>7. /\ AllFinite(D, m)
      /\ \A k \in 1..m : Cardinality(D[k]) = IF r[k].place[1] = f-1 THEN r[k].times ELSE 0
  <2>1. \A t \in Nat : IsFiniteSet(1..t) /\ Cardinality(1..t) = t
    BY UpTo
  <2>2. IsFiniteSet({}) /\ Cardinality({}) = 0
    BY FS_EmptySet
  <2>3. ASSUME NEW k \in 1..m
        PROVE  /\ IsFiniteSet(D[k])
               /\ Cardinality(D[k]) = IF r[k].place[1] = f-1 THEN r[k].times ELSE 0
    BY <1>4, <2>1, <2>2 DEF D
  <2>4. QED
    BY <2>3 DEF AllFinite
<1>0. Adding(tag, D, m)
  <2>1. m \in Nat /\ Different(tag, m) /\ AllFinite(D, m)
    BY <1>4, <1>6, <1>7
  <2>2. QED
    BY <2>1, BlocksAdd
<1> DEFINE B(k) == Cardinality(Blocks(tag, D, k))
<1>8. /\ B(0) = 0 /\ \A k \in 0..m : B(k) \in Nat
      /\ \A k \in 0..m-1 : B(k+1) = B(k) + Cardinality(D[k+1])
  BY <1>0 DEF Adding
<1> HIDE DEF B
<1> DEFINE U == {k \in Nat : k <= m => h[k].items[f] = B(k)}
<1>9. 0 \in U
  BY <1>5, <1>8 DEF n
<1>10. ASSUME NEW k \in Nat, k \in U PROVE k+1 \in U
  <2>1. CASE k+1 <= m
    <3>1. k \in 0..m-1 /\ k+1 \in 1..m /\ k \in 0..m /\ h[k].items[f] = B(k)
      BY <1>4, <1>10, <2>1
    <3>2. h[k] \in Counters(n) /\ h[k+1] = Bump(h[k], r[k+1])
      BY <1>5, <3>1
    <3>3. r[k+1] \in Posting(Place) /\ r[k+1].place[1] < n
      BY <1>1, <1>4, <3>1 DEF m, n
    <3>4. Bump(h[k], r[k+1]).items[f-1+1] =
            h[k].items[f-1+1] + (IF f-1 = r[k+1].place[1] THEN r[k+1].times ELSE 0)
      BY <1>4, <3>2, <3>3, BumpCounts
    <3>5. B(k+1) = B(k) + (IF r[k+1].place[1] = f-1 THEN r[k+1].times ELSE 0)
      BY <1>7, <1>8, <3>1
    <3>6. h[k+1].items[f] = B(k+1)
      BY <1>4, <3>1, <3>2, <3>4, <3>5
    <3>7. QED
      BY <3>6
  <2>2. QED
    BY <2>1
<1>11. FileCounter(i, w).items[f] = B(m)
  <2> HIDE DEF U
  <2>1. Nat \subseteq U
    BY <1>9, <1>10, Induction
  <2>2. m \in U /\ m <= m
    BY <1>4, <2>1
  <2>3. QED
    BY <1>5, <2>2 DEF U
<1>12. Blocks(tag, D, m) = Units(i, w, f-1)
  <2>1. ASSUME NEW e \in Blocks(tag, D, m) PROVE e \in Units(i, w, f-1)
    <3>1. PICK k \in 1..m : e \in {tag[k]} \X D[k]
      BY <2>1 DEF Blocks
    <3>2. /\ e = <<r[k].place, e[2]>> /\ r[k].place[1] = f-1 /\ e[2] \in 1..r[k].times
          /\ e[2] \in Nat
      BY <3>1 DEF tag, D
    <3>3. QED
      BY <1>2, <3>2 DEF Units
  <2>2. ASSUME NEW e \in Units(i, w, f-1) PROVE e \in Blocks(tag, D, m)
    <3>1. /\ e[1] \in Place /\ e = <<e[1], e[2]>> /\ e[1][1] = f-1
          /\ e[2] \in Nat /\ e[2] \in 1..Times(trie[i][w], e[1])
      BY <2>2 DEF Units
    <3>2. Times(trie[i][w], e[1]) # 0
      BY <3>1
    <3>3. PICK k \in 1..m : r[k].place = e[1]
      BY <1>2, <3>1, <3>2
    <3>4. e \in {tag[k]} \X D[k]
      BY <1>2, <3>1, <3>3 DEF tag, D
    <3>5. QED
      BY <3>4 DEF Blocks
  <2>3. QED
    BY <2>1, <2>2
<1>13. QED
  BY <1>11, <1>12 DEF B

LEMMA UnitsOccur ==
  ASSUME LoadInv, NEW i \in Worker, Loaded(i), NEW w \in Word, NEW f \in 1..Len(corpus[i])
  PROVE  /\ Cardinality(Units(i, w, f-1)) = Occurrences(<<i, f-1>>, w)
         /\ Occurrences(<<i, f-1>>, w) \in Nat
         /\ IsFiniteSet(Units(i, w, f-1))
<1> DEFINE file == corpus[i][f]
           n == Len(file)
           A == Lines(i)
           T(p) == Times(trie[i][w], p)
<1>1. /\ corpus \in Corpora /\ Indexed(trie[i], A, Len(A))
  BY DEF LoadInv, Loaded
<1>2. PICK b \in Nat : Starts(A, b, file, f-1)
  BY <1>1, FileStarts
<1>3. Len(A) \in Nat
  BY <1>1, LinesAre
<1>4. n \in Nat /\ DOMAIN file = 1..n /\ \A j \in 1..n : file[j] \in Seq(Word)
  <2>1. corpus[i] \in Seq(Seq(Seq(Word)))
    BY <1>1, CountingAssumption
  <2>2. file \in Seq(Seq(Word))
    BY <2>1, ElementOfSeq
  <2> HIDE DEF file
  <2>3. QED
    BY <2>2, LenProperties, ElementOfSeq
<1>5. \A j \in 1..n : Len(file[j]) \in Nat /\ DOMAIN file[j] = 1..Len(file[j])
  <2> HIDE DEF file
  <2>1. QED
    BY <1>4, LenProperties
<1>f. f-1 \in Nat /\ f-1+1 = f
  <2>1. corpus[i] \in Seq(Seq(Seq(Word)))
    BY <1>1, CountingAssumption
  <2>2. Len(corpus[i]) \in Nat
    BY <2>1, LenProperties
  <2>3. QED
    BY <2>2
<1> DEFINE g == f-1
           c(j) == CountIn(file[j], Len(file[j]), w)
           tag == [j \in 1..n |-> <<g, b+j-1>>]
           D == [j \in 1..n |-> 1..c(j)]
           mark == [j \in 1..n |-> j]
           E == [j \in 1..n |-> {k \in 1..Len(file[j]) : file[j][k] = w}]
<1>6. \A j \in 1..n : /\ c(j) \in Nat /\ IsFiniteSet(D[j]) /\ IsFiniteSet(E[j])
                      /\ Cardinality(D[j]) = Cardinality(E[j])
  <2>1. ASSUME NEW j \in 1..n
        PROVE  /\ c(j) \in Nat /\ IsFiniteSet(D[j]) /\ IsFiniteSet(E[j])
               /\ Cardinality(D[j]) = Cardinality(E[j])
    <3>1. c(j) \in Nat
      BY <1>5, CountNext
    <3>2. Cardinality(E[j]) = c(j)
      BY DEF CountIn
    <3>3. IsFiniteSet(E[j])
      <4>1. Len(file[j]) \in Nat
        BY <1>5
      <4>2. IsFiniteSet(1..Len(file[j])) /\ E[j] \subseteq 1..Len(file[j])
        BY <4>1, UpTo
      <4> HIDE DEF E
      <4>3. QED
        BY <4>2, FS_Subset
    <3> HIDE DEF c, E
    <3>4. IsFiniteSet(D[j]) /\ Cardinality(D[j]) = c(j)
      BY <3>1, UpTo
    <3>5. QED
      BY <3>1, <3>2, <3>3, <3>4
  <2>2. QED
    BY <2>1
<1>7. Different(tag, n) /\ Different(mark, n) /\ AllFinite(D, n) /\ AllFinite(E, n)
  <2>1. Different(tag, n)
    <3>1. ASSUME NEW j \in 1..n, NEW k \in 1..n, tag[j] = tag[k] PROVE j = k
      <4>1. b+j-1 = b+k-1 /\ j \in Int /\ k \in Int
        BY <3>1
      <4>2. QED
        BY <4>1
    <3>2. QED
      BY <3>1 DEF Different
  <2>2. Different(mark, n)
    BY DEF Different
  <2> HIDE DEF D, E
  <2>3. QED
    BY <1>6, <2>1, <2>2 DEF AllFinite
<1>8. Blocks(tag, D, n) = Units(i, w, g)
  <2>1. \A j \in 1..n : /\ b+j \in 1..Len(A) /\ A[b+j] = [file |-> g, words |-> file[j]]
    BY <1>2 DEF Starts
  <2>2. ASSUME NEW j \in 1..n
        PROVE  /\ tag[j] \in Place /\ tag[j][1] = g /\ T(tag[j]) = c(j)
    <3> DEFINE p == <<g, b+j-1>>
    <3>1. p \in Place /\ p[1] = g /\ p[2] = b+j-1 /\ tag[j] = p /\ b+j-1+1 = b+j
      BY <1>4, <1>f DEF Place
    <3>2. b+j \in 1..Len(A) /\ A[b+j].file = g /\ A[b+j].words = file[j]
      <4> HIDE DEF A, file, g, n
      <4>1. b+j \in 1..Len(A) /\ A[b+j] = [file |-> g, words |-> file[j]]
        BY <2>1
      <4>2. QED
        BY <4>1
    <3>3. p[2] < Len(A) /\ p[2]+1 = b+j
      BY <1>3, <3>1, <3>2
    <3> HIDE DEF p, c, A
    <3>4. A[p[2]+1].file = p[1] /\ A[p[2]+1].words = file[j]
      BY <3>1, <3>2, <3>3
    <3>5. T(p) = CountIn(A[p[2]+1].words, Len(A[p[2]+1].words), w)
      BY <1>1, <3>1, <3>3, <3>4 DEF Indexed
    <3>6. QED
      BY <3>1, <3>4, <3>5 DEF c
  <2>3. ASSUME NEW p \in Place, p[1] = g, T(p) # 0
        PROVE  \E j \in 1..n : tag[j] = p
    <3>1. p[2] < Len(A) /\ A[p[2]+1].file = g /\ p[2] \in Nat /\ p = <<p[1], p[2]>>
      BY <1>1, <2>3 DEF Indexed, Place
    <3>2. p[2]+1 \in 1..Len(A)
      BY <1>3, <3>1
    <3>3. p[2]+1-b \in 1..n
      BY <1>2, <3>1, <3>2 DEF Starts
    <3>4. b + (p[2]+1-b) - 1 = p[2]
      BY <3>1
    <3>5. tag[p[2]+1-b] = p
      BY <2>3, <3>1, <3>3, <3>4
    <3>6. QED
      BY <3>3, <3>5
  <2> HIDE DEF tag, c, T, n
  <2>4. \A j \in 1..n : D[j] = 1..c(j) /\ c(j) \in Nat
    BY <1>6
  <2> HIDE DEF D
  <2>5. ASSUME NEW e \in Blocks(tag, D, n) PROVE e \in Units(i, w, g)
    <3>1. PICK j \in 1..n : e \in {tag[j]} \X D[j]
      BY <2>5 DEF Blocks
    <3>2. e = <<tag[j], e[2]>> /\ e[2] \in 1..c(j) /\ e[2] \in Nat /\ e[1] = tag[j]
      BY <2>4, <3>1
    <3>3. QED
      BY <2>2, <3>2 DEF Units, T
  <2>6. ASSUME NEW e \in Units(i, w, g) PROVE e \in Blocks(tag, D, n)
    <3>1. /\ e[1] \in Place /\ e = <<e[1], e[2]>> /\ e[1][1] = g
          /\ e[2] \in Nat /\ e[2] \in 1..T(e[1])
      BY <2>6 DEF Units, T
    <3>2. T(e[1]) # 0
      BY <3>1
    <3>3. PICK j \in 1..n : tag[j] = e[1]
      BY <2>3, <3>1, <3>2
    <3>4. e \in {tag[j]} \X D[j]
      BY <2>2, <2>4, <3>1, <3>3
    <3>5. QED
      BY <3>4 DEF Blocks
  <2>7. QED
    BY <2>5, <2>6
<1>9. Occurrences(<<i, f-1>>, w) = Cardinality(Blocks(mark, E, n))
  <2> DEFINE O == {p \in UNION {{<<m, k>> : k \in DOMAIN file[m]} : m \in DOMAIN file} :
                     file[p[1]][p[2]] = w}
  <2>1. Occurrences(<<i, f-1>>, w) = Cardinality(O)
    BY <1>f DEF Occurrences
  <2>2. \A e : e \in O <=> \E m \in 1..n : \E k \in 1..Len(file[m]) :
                              e = <<m, k>> /\ file[m][k] = w
    BY <1>4, <1>5
  <2>3. \A e : e \in Blocks(mark, E, n)
                 <=> \E m \in 1..n : \E k \in 1..Len(file[m]) : e = <<m, k>> /\ file[m][k] = w
    <3>1. \A m \in 1..n : mark[m] = m /\ \A k : k \in E[m] <=> k \in 1..Len(file[m]) /\ file[m][k] = w
      OBVIOUS
    <3> HIDE DEF mark, E, n, file
    <3>2. QED
      BY <3>1 DEF Blocks
  <2> HIDE DEF O
  <2>4. O = Blocks(mark, E, n)
    BY <2>2, <2>3
  <2>5. QED
    BY <2>1, <2>4
<1>10. Cardinality(Blocks(mark, E, n)) = Cardinality(Blocks(tag, D, n))
  <2> HIDE DEF mark, E, tag, D, n, c
  <2>1. \A j \in 1..n : Cardinality(D[j]) = Cardinality(E[j])
    BY <1>6
  <2>2. QED
    BY <1>4, <1>7, <2>1, SameBlocks
<1>11. Cardinality(Blocks(mark, E, n)) \in Nat
  <2> HIDE DEF mark, E, n
  <2>1. n \in 0..n /\ n \in Nat
    BY <1>4
  <2>2. Adding(mark, E, n)
    BY <1>7, <2>1, BlocksAdd
  <2>3. QED
    BY <2>1, <2>2 DEF Adding
<1>12. IsFiniteSet(Blocks(tag, D, n))
  <2> HIDE DEF tag, D, n
  <2>1. n \in 0..n /\ n \in Nat
    BY <1>4
  <2>2. \A k \in 0..n : IsFiniteSet(Blocks(tag, D, k))
    BY <1>7, <2>1, BlocksCount
  <2>3. QED
    BY <2>1, <2>2
<1>13. QED
  BY <1>8, <1>9, <1>10, <1>11, <1>12

\* fileCounter has how often the word occurs in each file.
LEMMA CounterOccurs ==
  ASSUME LoadInv, AllFit, NEW i \in Worker, Loaded(i), NEW w \in Word
  PROVE  /\ FileCounter(i, w) \in Counters(Len(corpus[i]))
         /\ \A f \in 1..Len(corpus[i]) :
              /\ FileCounter(i, w).items[f] = Occurrences(<<i, f-1>>, w)
              /\ Occurrences(<<i, f-1>>, w) \in Nat
<1>1. PICK h \in [0..Len(Results(i, <<w>>)) -> Counters(Len(corpus[i]))] :
        h[Len(Results(i, <<w>>))] = Counter(corpus[i], Results(i, <<w>>))
  BY ResultsAre, CounterFold
<1>2. Len(Results(i, <<w>>)) \in Nat
  BY ResultsAre, LenProperties
<1>3. FileCounter(i, w) \in Counters(Len(corpus[i]))
  BY <1>1, <1>2, CounterIs
<1>4. QED
  BY <1>3, CounterUnits, UnitsOccur

-----------------------------------------------------------------------------
(* maxcount and mincount: the best so far, after each file and answer.     *)

UpFile(c, best, k) ==
  IF c[k] > best.count THEN [count |-> c[k], file |-> k-1] ELSE best

DownFile(c, best, k) ==
  IF c[k] < best.count THEN [count |-> c[k], file |-> k-1] ELSE best

UpAnswer(c, best, k) ==
  IF c[k].count > best.count THEN [count |-> c[k].count, index |-> k] ELSE best

DownAnswer(c, best, k) ==
  IF c[k].path # Empty /\ c[k].count < best.count
  THEN [count |-> c[k].count, index |-> k] ELSE best

\* UpFile.
UpFiles(c, seq, base) == FoldLeft(LAMBDA best, k : UpFile(c, best, k), base, seq)

UpFilesWithin(c, V, seq) == \A v \in V, k \in 1..Len(seq) : UpFile(c, v, seq[k]) \in V

LEMMA UpFilesFold ==
  ASSUME NEW V, NEW base \in V, NEW X, NEW seq \in Seq(X), NEW c,
         UpFilesWithin(c, V, seq)
  PROVE  \E h \in [0..Len(seq) -> V] :
           /\ h[0] = base /\ h[Len(seq)] = UpFiles(c, seq, base)
           /\ \A k \in 0..Len(seq)-1 : h[k+1] = UpFile(c, h[k], seq[k+1])
<1> DEFINE n == Len(seq)
           F == [vk \in V \X (1..n) |-> UpFile(c, vk[1], seq[vk[2]])]
           Folds(it) == it = [s \in SUBSET (DOMAIN seq) |->
                                IF s = {} THEN base
                                ELSE UpFile(c, it[s \ {Max(s)}], seq[Max(s)])]
           iter == CHOOSE it : Folds(it)
<1>1. n \in Nat /\ DOMAIN seq = 1..n
  BY LenProperties
<1>2. \A v \in V, k \in 1..n : F[<<v, k>>] = UpFile(c, v, seq[k]) /\ F[<<v, k>>] \in V
  BY DEF UpFilesWithin
<1>3. UpFiles(c, seq, base) = iter[DOMAIN seq]
  BY DEF UpFiles, FoldLeft, MapThenFoldSet
<1> HIDE DEF n, F
<1>4. \A s \in SUBSET (1..n) : s # {} => s \ {Max(s)} \in SUBSET (1..n) /\ Max(s) \in 1..n
  BY <1>1, MaxIsGreatest
<1>5. \E it : Folds(it)
  <2>1. PICK it \in [SUBSET (1..n) -> V] : FoldsBy(it, n, base, F)
    <3>1. StaysIn(V, n, F)
      BY <1>2 DEF StaysIn
    <3>2. QED
      BY <1>1, <3>1, FoldExists
  <2>2. \A s \in SUBSET (1..n) :
          it[s] = IF s = {} THEN base
                  ELSE UpFile(c, it[s \ {Max(s)}], seq[Max(s)])
    BY <1>2, <1>4, <2>1 DEF FoldsBy
  <2>3. QED
    BY <1>1, <2>1, <2>2
<1>6. Folds(iter)
  <2> HIDE DEF Folds
  <2>1. QED
    BY <1>5
<1> HIDE DEF iter
<1>7. GoesOnBy(iter, n, V, base, F)
  BY <1>1, <1>2, <1>4, <1>6 DEF GoesOnBy
<1> DEFINE h == Values(iter, n)
<1> HIDE DEF h, Folds
<1>8. n \in Nat /\ StaysIn(V, n, F)
  BY <1>1, <1>2 DEF StaysIn
<1>9. /\ h \in [0..n -> V] /\ h[0] = base /\ h[n] = iter[1..n]
      /\ \A k \in 0..n-1 : h[k+1] = F[<<h[k], k+1>>]
  <2>1. /\ Values(iter, n) \in [0..n -> V]
        /\ Values(iter, n)[0] = base /\ Values(iter, n)[n] = iter[1..n]
        /\ \A k \in 0..n-1 : Values(iter, n)[k+1] = F[<<Values(iter, n)[k], k+1>>]
    BY <1>7, <1>8, FoldSteps
  <2>2. QED
    BY <2>1 DEF h
<1>10. \A k \in 0..n-1 : h[k] \in V /\ k+1 \in 1..n
  BY <1>1, <1>9
<1>11. \A k \in 0..n-1 : h[k+1] = UpFile(c, h[k], seq[k+1])
  BY <1>2, <1>9, <1>10
<1>12. QED
  BY <1>1, <1>3, <1>9, <1>11 DEF n

\* DownFile.
DownFiles(c, seq, base) == FoldLeft(LAMBDA best, k : DownFile(c, best, k), base, seq)

DownFilesWithin(c, V, seq) == \A v \in V, k \in 1..Len(seq) : DownFile(c, v, seq[k]) \in V

LEMMA DownFilesFold ==
  ASSUME NEW V, NEW base \in V, NEW X, NEW seq \in Seq(X), NEW c,
         DownFilesWithin(c, V, seq)
  PROVE  \E h \in [0..Len(seq) -> V] :
           /\ h[0] = base /\ h[Len(seq)] = DownFiles(c, seq, base)
           /\ \A k \in 0..Len(seq)-1 : h[k+1] = DownFile(c, h[k], seq[k+1])
<1> DEFINE n == Len(seq)
           F == [vk \in V \X (1..n) |-> DownFile(c, vk[1], seq[vk[2]])]
           Folds(it) == it = [s \in SUBSET (DOMAIN seq) |->
                                IF s = {} THEN base
                                ELSE DownFile(c, it[s \ {Max(s)}], seq[Max(s)])]
           iter == CHOOSE it : Folds(it)
<1>1. n \in Nat /\ DOMAIN seq = 1..n
  BY LenProperties
<1>2. \A v \in V, k \in 1..n : F[<<v, k>>] = DownFile(c, v, seq[k]) /\ F[<<v, k>>] \in V
  BY DEF DownFilesWithin
<1>3. DownFiles(c, seq, base) = iter[DOMAIN seq]
  BY DEF DownFiles, FoldLeft, MapThenFoldSet
<1> HIDE DEF n, F
<1>4. \A s \in SUBSET (1..n) : s # {} => s \ {Max(s)} \in SUBSET (1..n) /\ Max(s) \in 1..n
  BY <1>1, MaxIsGreatest
<1>5. \E it : Folds(it)
  <2>1. PICK it \in [SUBSET (1..n) -> V] : FoldsBy(it, n, base, F)
    <3>1. StaysIn(V, n, F)
      BY <1>2 DEF StaysIn
    <3>2. QED
      BY <1>1, <3>1, FoldExists
  <2>2. \A s \in SUBSET (1..n) :
          it[s] = IF s = {} THEN base
                  ELSE DownFile(c, it[s \ {Max(s)}], seq[Max(s)])
    BY <1>2, <1>4, <2>1 DEF FoldsBy
  <2>3. QED
    BY <1>1, <2>1, <2>2
<1>6. Folds(iter)
  <2> HIDE DEF Folds
  <2>1. QED
    BY <1>5
<1> HIDE DEF iter
<1>7. GoesOnBy(iter, n, V, base, F)
  BY <1>1, <1>2, <1>4, <1>6 DEF GoesOnBy
<1> DEFINE h == Values(iter, n)
<1> HIDE DEF h, Folds
<1>8. n \in Nat /\ StaysIn(V, n, F)
  BY <1>1, <1>2 DEF StaysIn
<1>9. /\ h \in [0..n -> V] /\ h[0] = base /\ h[n] = iter[1..n]
      /\ \A k \in 0..n-1 : h[k+1] = F[<<h[k], k+1>>]
  <2>1. /\ Values(iter, n) \in [0..n -> V]
        /\ Values(iter, n)[0] = base /\ Values(iter, n)[n] = iter[1..n]
        /\ \A k \in 0..n-1 : Values(iter, n)[k+1] = F[<<Values(iter, n)[k], k+1>>]
    BY <1>7, <1>8, FoldSteps
  <2>2. QED
    BY <2>1 DEF h
<1>10. \A k \in 0..n-1 : h[k] \in V /\ k+1 \in 1..n
  BY <1>1, <1>9
<1>11. \A k \in 0..n-1 : h[k+1] = DownFile(c, h[k], seq[k+1])
  BY <1>2, <1>9, <1>10
<1>12. QED
  BY <1>1, <1>3, <1>9, <1>11 DEF n

\* UpAnswer.
UpAnswers(c, seq, base) == FoldLeft(LAMBDA best, k : UpAnswer(c, best, k), base, seq)

UpAnswersWithin(c, V, seq) == \A v \in V, k \in 1..Len(seq) : UpAnswer(c, v, seq[k]) \in V

LEMMA UpAnswersFold ==
  ASSUME NEW V, NEW base \in V, NEW X, NEW seq \in Seq(X), NEW c,
         UpAnswersWithin(c, V, seq)
  PROVE  \E h \in [0..Len(seq) -> V] :
           /\ h[0] = base /\ h[Len(seq)] = UpAnswers(c, seq, base)
           /\ \A k \in 0..Len(seq)-1 : h[k+1] = UpAnswer(c, h[k], seq[k+1])
<1> DEFINE n == Len(seq)
           F == [vk \in V \X (1..n) |-> UpAnswer(c, vk[1], seq[vk[2]])]
           Folds(it) == it = [s \in SUBSET (DOMAIN seq) |->
                                IF s = {} THEN base
                                ELSE UpAnswer(c, it[s \ {Max(s)}], seq[Max(s)])]
           iter == CHOOSE it : Folds(it)
<1>1. n \in Nat /\ DOMAIN seq = 1..n
  BY LenProperties
<1>2. \A v \in V, k \in 1..n : F[<<v, k>>] = UpAnswer(c, v, seq[k]) /\ F[<<v, k>>] \in V
  BY DEF UpAnswersWithin
<1>3. UpAnswers(c, seq, base) = iter[DOMAIN seq]
  BY DEF UpAnswers, FoldLeft, MapThenFoldSet
<1> HIDE DEF n, F
<1>4. \A s \in SUBSET (1..n) : s # {} => s \ {Max(s)} \in SUBSET (1..n) /\ Max(s) \in 1..n
  BY <1>1, MaxIsGreatest
<1>5. \E it : Folds(it)
  <2>1. PICK it \in [SUBSET (1..n) -> V] : FoldsBy(it, n, base, F)
    <3>1. StaysIn(V, n, F)
      BY <1>2 DEF StaysIn
    <3>2. QED
      BY <1>1, <3>1, FoldExists
  <2>2. \A s \in SUBSET (1..n) :
          it[s] = IF s = {} THEN base
                  ELSE UpAnswer(c, it[s \ {Max(s)}], seq[Max(s)])
    BY <1>2, <1>4, <2>1 DEF FoldsBy
  <2>3. QED
    BY <1>1, <2>1, <2>2
<1>6. Folds(iter)
  <2> HIDE DEF Folds
  <2>1. QED
    BY <1>5
<1> HIDE DEF iter
<1>7. GoesOnBy(iter, n, V, base, F)
  BY <1>1, <1>2, <1>4, <1>6 DEF GoesOnBy
<1> DEFINE h == Values(iter, n)
<1> HIDE DEF h, Folds
<1>8. n \in Nat /\ StaysIn(V, n, F)
  BY <1>1, <1>2 DEF StaysIn
<1>9. /\ h \in [0..n -> V] /\ h[0] = base /\ h[n] = iter[1..n]
      /\ \A k \in 0..n-1 : h[k+1] = F[<<h[k], k+1>>]
  <2>1. /\ Values(iter, n) \in [0..n -> V]
        /\ Values(iter, n)[0] = base /\ Values(iter, n)[n] = iter[1..n]
        /\ \A k \in 0..n-1 : Values(iter, n)[k+1] = F[<<Values(iter, n)[k], k+1>>]
    BY <1>7, <1>8, FoldSteps
  <2>2. QED
    BY <2>1 DEF h
<1>10. \A k \in 0..n-1 : h[k] \in V /\ k+1 \in 1..n
  BY <1>1, <1>9
<1>11. \A k \in 0..n-1 : h[k+1] = UpAnswer(c, h[k], seq[k+1])
  BY <1>2, <1>9, <1>10
<1>12. QED
  BY <1>1, <1>3, <1>9, <1>11 DEF n

\* DownAnswer.
DownAnswers(c, seq, base) == FoldLeft(LAMBDA best, k : DownAnswer(c, best, k), base, seq)

DownAnswersWithin(c, V, seq) == \A v \in V, k \in 1..Len(seq) : DownAnswer(c, v, seq[k]) \in V

LEMMA DownAnswersFold ==
  ASSUME NEW V, NEW base \in V, NEW X, NEW seq \in Seq(X), NEW c,
         DownAnswersWithin(c, V, seq)
  PROVE  \E h \in [0..Len(seq) -> V] :
           /\ h[0] = base /\ h[Len(seq)] = DownAnswers(c, seq, base)
           /\ \A k \in 0..Len(seq)-1 : h[k+1] = DownAnswer(c, h[k], seq[k+1])
<1> DEFINE n == Len(seq)
           F == [vk \in V \X (1..n) |-> DownAnswer(c, vk[1], seq[vk[2]])]
           Folds(it) == it = [s \in SUBSET (DOMAIN seq) |->
                                IF s = {} THEN base
                                ELSE DownAnswer(c, it[s \ {Max(s)}], seq[Max(s)])]
           iter == CHOOSE it : Folds(it)
<1>1. n \in Nat /\ DOMAIN seq = 1..n
  BY LenProperties
<1>2. \A v \in V, k \in 1..n : F[<<v, k>>] = DownAnswer(c, v, seq[k]) /\ F[<<v, k>>] \in V
  BY DEF DownAnswersWithin
<1>3. DownAnswers(c, seq, base) = iter[DOMAIN seq]
  BY DEF DownAnswers, FoldLeft, MapThenFoldSet
<1> HIDE DEF n, F
<1>4. \A s \in SUBSET (1..n) : s # {} => s \ {Max(s)} \in SUBSET (1..n) /\ Max(s) \in 1..n
  BY <1>1, MaxIsGreatest
<1>5. \E it : Folds(it)
  <2>1. PICK it \in [SUBSET (1..n) -> V] : FoldsBy(it, n, base, F)
    <3>1. StaysIn(V, n, F)
      BY <1>2 DEF StaysIn
    <3>2. QED
      BY <1>1, <3>1, FoldExists
  <2>2. \A s \in SUBSET (1..n) :
          it[s] = IF s = {} THEN base
                  ELSE DownAnswer(c, it[s \ {Max(s)}], seq[Max(s)])
    BY <1>2, <1>4, <2>1 DEF FoldsBy
  <2>3. QED
    BY <1>1, <2>1, <2>2
<1>6. Folds(iter)
  <2> HIDE DEF Folds
  <2>1. QED
    BY <1>5
<1> HIDE DEF iter
<1>7. GoesOnBy(iter, n, V, base, F)
  BY <1>1, <1>2, <1>4, <1>6 DEF GoesOnBy
<1> DEFINE h == Values(iter, n)
<1> HIDE DEF h, Folds
<1>8. n \in Nat /\ StaysIn(V, n, F)
  BY <1>1, <1>2 DEF StaysIn
<1>9. /\ h \in [0..n -> V] /\ h[0] = base /\ h[n] = iter[1..n]
      /\ \A k \in 0..n-1 : h[k+1] = F[<<h[k], k+1>>]
  <2>1. /\ Values(iter, n) \in [0..n -> V]
        /\ Values(iter, n)[0] = base /\ Values(iter, n)[n] = iter[1..n]
        /\ \A k \in 0..n-1 : Values(iter, n)[k+1] = F[<<Values(iter, n)[k], k+1>>]
    BY <1>7, <1>8, FoldSteps
  <2>2. QED
    BY <2>1 DEF h
<1>10. \A k \in 0..n-1 : h[k] \in V /\ k+1 \in 1..n
  BY <1>1, <1>9
<1>11. \A k \in 0..n-1 : h[k+1] = DownAnswer(c, h[k], seq[k+1])
  BY <1>2, <1>9, <1>10
<1>12. QED
  BY <1>1, <1>3, <1>9, <1>11 DEF n

\* An answer to maxcount or mincount: a document and how often it has the word.
Answer == [path : Seq(Nat), count : Nat]

\* The first file with the greatest count, if one has any.
LEMMA FirstGreatestIs ==
  ASSUME NEW c \in Seq(Nat)
  PROVE  LET best == FirstGreatest(c)
         IN  /\ best.count \in Nat /\ best.file \in Nat
             /\ \A j \in 1..Len(c) : c[j] <= best.count
             /\ best.count # 0 => best.file+1 \in 1..Len(c) /\ c[best.file+1] = best.count
<1> DEFINE n == Len(c)
           ids == [k \in DOMAIN c |-> k]
           base == [count |-> 0, file |-> 0]
           V == [count : Nat, file : Nat]
<1>1. n \in Nat /\ DOMAIN c = 1..n /\ \A k \in 1..n : c[k] \in Nat
  BY LenProperties, ElementOfSeq
<1>2. FirstGreatest(c) = UpFiles(c, ids, base)
  BY DEF FirstGreatest, UpFiles, UpFile
<1> HIDE DEF n
<1>3. ids \in Seq(1..n) /\ Len(ids) = n /\ \A k \in 1..n : ids[k] = k
  <2>1. ids \in [1..n -> 1..n] /\ \A k \in 1..n : ids[k] = k
    BY <1>1
  <2> HIDE DEF ids
  <2>2. QED
    BY <1>1, <2>1
<1>4. UpFilesWithin(c, V, ids)
  <2> HIDE DEF ids
  <2>1. ASSUME NEW v \in V, NEW k \in 1..n PROVE UpFile(c, v, k) \in V
    BY <1>1 DEF UpFile
  <2> HIDE DEF V
  <2>2. QED
    BY <1>3, <2>1 DEF UpFilesWithin
<1>5. base \in V
  OBVIOUS
<1> HIDE DEF ids, base, V
<1>6. PICK h \in [0..n -> V] :
        /\ h[0] = base /\ h[n] = UpFiles(c, ids, base)
        /\ \A k \in 0..n-1 : h[k+1] = UpFile(c, h[k], k+1)
  <2>1. \E h \in [0..Len(ids) -> V] :
          /\ h[0] = base /\ h[Len(ids)] = UpFiles(c, ids, base)
          /\ \A k \in 0..Len(ids)-1 : h[k+1] = UpFile(c, h[k], ids[k+1])
    <3> DEFINE I == 1..n
    <3>1. ids \in Seq(I)
      BY <1>3
    <3> HIDE DEF I
    <3>2. QED
      BY <1>4, <1>5, <3>1, UpFilesFold
  <2>2. \A k \in 0..n-1 : k+1 \in 1..n
    BY <1>1
  <2>3. QED
    BY <1>3, <2>1, <2>2
<1> DEFINE Right(k) == /\ \A j \in 1..k : c[j] <= h[k].count
                       /\ h[k].count # 0 => h[k].file+1 \in 1..k /\ c[h[k].file+1] = h[k].count
           U == {k \in Nat : k <= n => Right(k)}
<1>7. 0 \in U
  BY <1>1, <1>6 DEF base
<1>8. ASSUME NEW k \in Nat, k \in U PROVE k+1 \in U
  <2> HIDE DEF Right
  <2>1. SUFFICES ASSUME k+1 <= n PROVE Right(k+1)
    OBVIOUS
  <2>2. k \in 0..n-1 /\ k+1 \in 1..n /\ k <= n /\ k \in 0..n
    BY <1>1, <2>1
  <2>3. Right(k)
    BY <1>8, <2>2
  <2> HIDE DEF U
  <2>4. h[k] \in V /\ h[k+1] = UpFile(c, h[k], k+1) /\ c[k+1] \in Nat
    BY <1>1, <1>6, <2>2
  <2>5. \A j : j \in 1..k+1 <=> j \in 1..k \/ j = k+1
    OBVIOUS
  <2>6. /\ h[k].count \in Nat /\ h[k].file \in Nat /\ c[k+1] \in Nat
        /\ \A j \in 1..k : c[j] \in Nat
    <3>1. h[k].count \in Nat /\ h[k].file \in Nat
      BY <2>4 DEF V
    <3>2. QED
      BY <1>1, <2>2, <2>4, <3>1
  <2>7. CASE c[k+1] > h[k].count
    <3>1. h[k+1].count = c[k+1] /\ h[k+1].file+1 = k+1
      BY <2>2, <2>4, <2>7 DEF UpFile
    <3>2. QED
      BY <2>2, <2>3, <2>5, <2>6, <2>7, <3>1 DEF Right
  <2>8. CASE ~(c[k+1] > h[k].count)
    <3>1. h[k+1] = h[k]
      BY <2>4, <2>8 DEF UpFile
    <3>2. QED
      BY <2>2, <2>3, <2>5, <2>6, <2>8, <3>1 DEF Right
  <2>9. QED
    BY <2>7, <2>8
<1>9. Right(n)
  <2> HIDE DEF U, Right
  <2>1. Nat \subseteq U
    BY <1>7, <1>8, Induction
  <2>2. n \in U /\ n <= n
    BY <1>1, <2>1
  <2>3. QED
    BY <2>2 DEF U
<1>10. h[n] \in V
  BY <1>1, <1>6
<1>11. QED
  BY <1>1, <1>2, <1>6, <1>9, <1>10 DEF n, base, V

\* The first file with the least count, starting from m, which is greater than all.
LEMMA DownFilesIs ==
  ASSUME NEW c \in Seq(Nat), c # <<>>, NEW m \in Nat,
         \A j \in 1..Len(c) : c[j] < m
  PROVE  LET best == DownFiles(c, [k \in DOMAIN c |-> k], [count |-> m, file |-> 0])
         IN  /\ best.count \in Nat /\ best.file \in Nat
             /\ \A j \in 1..Len(c) : best.count <= c[j]
             /\ best.file+1 \in 1..Len(c) /\ c[best.file+1] = best.count
<1> DEFINE n == Len(c)
           ids == [k \in DOMAIN c |-> k]
           base == [count |-> m, file |-> 0]
           V == [count : Nat, file : Nat]
<1>1. n \in Nat /\ DOMAIN c = 1..n /\ \A k \in 1..n : c[k] \in Nat
  BY LenProperties, ElementOfSeq
<1> HIDE DEF n
<1>3. ids \in Seq(1..n) /\ Len(ids) = n /\ \A k \in 1..n : ids[k] = k
  <2>1. ids \in [1..n -> 1..n] /\ \A k \in 1..n : ids[k] = k
    BY <1>1
  <2> HIDE DEF ids
  <2>2. QED
    BY <1>1, <2>1
<1>4. DownFilesWithin(c, V, ids)
  <2> HIDE DEF ids
  <2>1. ASSUME NEW v \in V, NEW k \in 1..n PROVE DownFile(c, v, k) \in V
    BY <1>1 DEF DownFile
  <2> HIDE DEF V
  <2>2. QED
    BY <1>3, <2>1 DEF DownFilesWithin
<1>5. base \in V
  OBVIOUS
<1> HIDE DEF ids, base, V
<1>6. PICK h \in [0..n -> V] :
        /\ h[0] = base /\ h[n] = DownFiles(c, ids, base)
        /\ \A k \in 0..n-1 : h[k+1] = DownFile(c, h[k], k+1)
  <2>1. \E h \in [0..Len(ids) -> V] :
          /\ h[0] = base /\ h[Len(ids)] = DownFiles(c, ids, base)
          /\ \A k \in 0..Len(ids)-1 : h[k+1] = DownFile(c, h[k], ids[k+1])
    <3> DEFINE I == 1..n
    <3>1. ids \in Seq(I)
      BY <1>3
    <3> HIDE DEF I
    <3>2. QED
      BY <1>4, <1>5, <3>1, DownFilesFold
  <2>2. \A k \in 0..n-1 : k+1 \in 1..n
    BY <1>1
  <2>3. QED
    BY <1>3, <2>1, <2>2
<1> DEFINE Right(k) == /\ \A j \in 1..k : h[k].count <= c[j]
                       /\ k = 0 => h[k].count = m
                       /\ k # 0 => h[k].file+1 \in 1..k /\ c[h[k].file+1] = h[k].count
           U == {k \in Nat : k <= n => Right(k)}
<1>7. 0 \in U
  BY <1>1, <1>6 DEF base
<1>8. ASSUME NEW k \in Nat, k \in U PROVE k+1 \in U
  <2> HIDE DEF Right
  <2>1. SUFFICES ASSUME k+1 <= n PROVE Right(k+1)
    OBVIOUS
  <2>2. k \in 0..n-1 /\ k+1 \in 1..n /\ k <= n /\ k \in 0..n
    BY <1>1, <2>1
  <2>3. Right(k)
    BY <1>8, <2>2
  <2> HIDE DEF U
  <2>4. h[k] \in V /\ h[k+1] = DownFile(c, h[k], k+1) /\ c[k+1] \in Nat
    BY <1>1, <1>6, <2>2
  <2>5. \A j : j \in 1..k+1 <=> j \in 1..k \/ j = k+1
    OBVIOUS
  <2>6. /\ h[k].count \in Nat /\ h[k].file \in Nat /\ c[k+1] \in Nat /\ c[k+1] < m
        /\ \A j \in 1..k : c[j] \in Nat
    <3>1. h[k].count \in Nat /\ h[k].file \in Nat
      BY <2>4 DEF V
    <3>2. QED
      BY <1>1, <2>2, <2>4, <3>1
  <2>7. CASE c[k+1] < h[k].count
    <3>1. h[k+1].count = c[k+1] /\ h[k+1].file+1 = k+1
      BY <2>2, <2>4, <2>7 DEF DownFile
    <3>2. QED
      BY <2>2, <2>3, <2>5, <2>6, <2>7, <3>1 DEF Right
  <2>8. CASE ~(c[k+1] < h[k].count)
    <3>1. h[k+1] = h[k]
      BY <2>4, <2>8 DEF DownFile
    <3>2. QED
      BY <2>2, <2>3, <2>5, <2>6, <2>8, <3>1 DEF Right
  <2>9. QED
    BY <2>7, <2>8
<1>9. Right(n)
  <2> HIDE DEF U, Right
  <2>1. Nat \subseteq U
    BY <1>7, <1>8, Induction
  <2>2. n \in U /\ n <= n
    BY <1>1, <2>1
  <2>3. QED
    BY <2>2 DEF U
<1>10. h[n] \in V
  BY <1>1, <1>6
<1>11. QED
  BY <1>1, <1>6, <1>9, <1>10 DEF n, base, V, ids

LEMMA FirstLeastIs ==
  ASSUME NEW c \in Seq(Nat), c # <<>>, \A j \in 1..Len(c) : c[j] < WorkerMin
  PROVE  LET best == FirstLeast(c)
         IN  /\ best.count \in Nat /\ best.file \in Nat
             /\ \A j \in 1..Len(c) : best.count <= c[j]
             /\ best.file+1 \in 1..Len(c) /\ c[best.file+1] = best.count
<1>1. FirstLeast(c) = DownFiles(c, [k \in DOMAIN c |-> k], [count |-> WorkerMin, file |-> 0])
  BY DEF FirstLeast, DownFiles, DownFile
<1>2. WorkerMin \in Nat
  BY SMT DEF WorkerMin
<1>3. QED
  BY <1>1, <1>2, DownFilesIs

\* The first of the greatest answers.
LEMMA GreatestIs ==
  ASSUME NEW c \in Seq(Answer), c # <<>>
  PROVE  \E x \in 1..Len(c) :
           Greatest(c) = c[x] /\ \A j \in 1..Len(c) : c[j].count <= c[x].count
<1> DEFINE n == Len(c)
           ids == [k \in DOMAIN c |-> k]
           base == [count |-> 0, index |-> 1]
           V == [count : Nat, index : Nat]
<1>1. n \in Nat /\ DOMAIN c = 1..n /\ \A k \in 1..n : c[k] \in Answer
  BY LenProperties, ElementOfSeq
<1>2. Greatest(c) = c[UpAnswers(c, ids, base).index]
  BY DEF Greatest, UpAnswers, UpAnswer
<1> HIDE DEF n
<1>3. ids \in Seq(1..n) /\ Len(ids) = n /\ \A k \in 1..n : ids[k] = k
  <2>1. ids \in [1..n -> 1..n] /\ \A k \in 1..n : ids[k] = k
    BY <1>1
  <2> HIDE DEF ids
  <2>2. QED
    BY <1>1, <2>1
<1>4. UpAnswersWithin(c, V, ids)
  <2> HIDE DEF ids
  <2>1. ASSUME NEW v \in V, NEW k \in 1..n PROVE UpAnswer(c, v, k) \in V
    BY <1>1 DEF UpAnswer, Answer
  <2> HIDE DEF V
  <2>2. QED
    BY <1>3, <2>1 DEF UpAnswersWithin
<1>5. base \in V
  OBVIOUS
<1> HIDE DEF ids, base, V
<1>6. PICK h \in [0..n -> V] :
        /\ h[0] = base /\ h[n] = UpAnswers(c, ids, base)
        /\ \A k \in 0..n-1 : h[k+1] = UpAnswer(c, h[k], k+1)
  <2>1. \E h \in [0..Len(ids) -> V] :
          /\ h[0] = base /\ h[Len(ids)] = UpAnswers(c, ids, base)
          /\ \A k \in 0..Len(ids)-1 : h[k+1] = UpAnswer(c, h[k], ids[k+1])
    <3> DEFINE I == 1..n
    <3>1. ids \in Seq(I)
      BY <1>3
    <3> HIDE DEF I
    <3>2. QED
      BY <1>4, <1>5, <3>1, UpAnswersFold
  <2>2. \A k \in 0..n-1 : k+1 \in 1..n
    BY <1>1
  <2>3. QED
    BY <1>3, <2>1, <2>2
<1> DEFINE Right(k) == /\ \A j \in 1..k : c[j].count <= h[k].count
                       /\ h[k].count = 0 => h[k].index = 1
                       /\ h[k].count # 0 => /\ h[k].index \in 1..k
                                            /\ c[h[k].index].count = h[k].count
           U == {k \in Nat : k <= n => Right(k)}
<1>7. 0 \in U
  BY <1>1, <1>6 DEF base
<1>8. ASSUME NEW k \in Nat, k \in U PROVE k+1 \in U
  <2> HIDE DEF Right
  <2>1. SUFFICES ASSUME k+1 <= n PROVE Right(k+1)
    OBVIOUS
  <2>2. k \in 0..n-1 /\ k+1 \in 1..n /\ k <= n /\ k \in 0..n
    BY <1>1, <2>1
  <2>3. Right(k)
    BY <1>8, <2>2
  <2> HIDE DEF U
  <2>4. h[k] \in V /\ h[k+1] = UpAnswer(c, h[k], k+1) /\ c[k+1] \in Answer
    BY <1>1, <1>6, <2>2
  <2>5. \A j : j \in 1..k+1 <=> j \in 1..k \/ j = k+1
    OBVIOUS
  <2>6. /\ h[k].count \in Nat /\ h[k].index \in Nat /\ c[k+1].count \in Nat
        /\ \A j \in 1..k : c[j].count \in Nat
    <3>1. h[k].count \in Nat /\ h[k].index \in Nat
      BY <2>4 DEF V
    <3>2. \A a \in Answer : a.count \in Nat
      BY DEF Answer
    <3>3. QED
      BY <1>1, <2>2, <2>4, <3>1, <3>2
  <2>7. CASE c[k+1].count > h[k].count
    <3>1. h[k+1].count = c[k+1].count /\ h[k+1].index = k+1
      BY <2>2, <2>4, <2>7 DEF UpAnswer
    <3>2. QED
      BY <2>2, <2>3, <2>5, <2>6, <2>7, <3>1 DEF Right
  <2>8. CASE ~(c[k+1].count > h[k].count)
    <3>1. h[k+1] = h[k]
      BY <2>4, <2>8 DEF UpAnswer
    <3>2. QED
      BY <2>2, <2>3, <2>5, <2>6, <2>8, <3>1 DEF Right
  <2>9. QED
    BY <2>7, <2>8
<1>9. Right(n)
  <2> HIDE DEF U, Right
  <2>1. Nat \subseteq U
    BY <1>7, <1>8, Induction
  <2>2. n \in U /\ n <= n
    BY <1>1, <2>1
  <2>3. QED
    BY <2>2 DEF U
<1>10. h[n] \in V
  BY <1>1, <1>6
<1>11. n > 0 /\ \A j \in 1..n : c[j].count \in Nat
  BY <1>1, EmptySeq DEF Answer, n
<1>12. h[n].index \in 1..n /\ \A j \in 1..n : c[j].count <= c[h[n].index].count
  <2>1. CASE h[n].count = 0
    BY <1>1, <1>9, <1>11, <2>1
  <2>2. CASE h[n].count # 0
    BY <1>9, <2>2
  <2>3. QED
    BY <2>1, <2>2
<1>13. QED
  BY <1>2, <1>6, <1>12 DEF n

\* The first of the least answers that are not empty, starting from m.
LEMMA DownAnswersIs ==
  ASSUME NEW c \in Seq(Answer), c # <<>>, NEW m \in Nat,
         \A j \in 1..Len(c) : c[j].count < m
  PROVE  \E x \in 1..Len(c) :
           /\ DownAnswers(c, [k \in DOMAIN c |-> k], [count |-> m, index |-> 1]).index = x
           /\ \A j \in 1..Len(c) : c[j].path # Empty =>
                c[x].path # Empty /\ c[x].count <= c[j].count
<1> DEFINE n == Len(c)
           ids == [k \in DOMAIN c |-> k]
           base == [count |-> m, index |-> 1]
           V == [count : Nat, index : Nat]
<1>1. n \in Nat /\ DOMAIN c = 1..n /\ \A k \in 1..n : c[k] \in Answer
  BY LenProperties, ElementOfSeq
<1> HIDE DEF n
<1>3. ids \in Seq(1..n) /\ Len(ids) = n /\ \A k \in 1..n : ids[k] = k
  <2>1. ids \in [1..n -> 1..n] /\ \A k \in 1..n : ids[k] = k
    BY <1>1
  <2> HIDE DEF ids
  <2>2. QED
    BY <1>1, <2>1
<1>4. DownAnswersWithin(c, V, ids)
  <2> HIDE DEF ids
  <2>1. ASSUME NEW v \in V, NEW k \in 1..n PROVE DownAnswer(c, v, k) \in V
    BY <1>1 DEF DownAnswer, Answer
  <2> HIDE DEF V
  <2>2. QED
    BY <1>3, <2>1 DEF DownAnswersWithin
<1>5. base \in V
  OBVIOUS
<1> HIDE DEF ids, base, V
<1>6. PICK h \in [0..n -> V] :
        /\ h[0] = base /\ h[n] = DownAnswers(c, ids, base)
        /\ \A k \in 0..n-1 : h[k+1] = DownAnswer(c, h[k], k+1)
  <2>1. \E h \in [0..Len(ids) -> V] :
          /\ h[0] = base /\ h[Len(ids)] = DownAnswers(c, ids, base)
          /\ \A k \in 0..Len(ids)-1 : h[k+1] = DownAnswer(c, h[k], ids[k+1])
    <3> DEFINE I == 1..n
    <3>1. ids \in Seq(I)
      BY <1>3
    <3> HIDE DEF I
    <3>2. QED
      BY <1>4, <1>5, <3>1, DownAnswersFold
  <2>2. \A k \in 0..n-1 : k+1 \in 1..n
    BY <1>1
  <2>3. QED
    BY <1>3, <2>1, <2>2
<1> DEFINE Right(k) == /\ \A j \in 1..k : c[j].path # Empty => h[k].count <= c[j].count
                       /\ \/ h[k].index = 1 /\ h[k].count = m
                          \/ /\ h[k].index \in 1..k /\ c[h[k].index].path # Empty
                             /\ c[h[k].index].count = h[k].count
           U == {k \in Nat : k <= n => Right(k)}
<1>7. 0 \in U
  BY <1>1, <1>6 DEF base
<1>8. ASSUME NEW k \in Nat, k \in U PROVE k+1 \in U
  <2> HIDE DEF Right
  <2>1. SUFFICES ASSUME k+1 <= n PROVE Right(k+1)
    OBVIOUS
  <2>2. k \in 0..n-1 /\ k+1 \in 1..n /\ k <= n /\ k \in 0..n
    BY <1>1, <2>1
  <2>3. Right(k)
    BY <1>8, <2>2
  <2> HIDE DEF U
  <2>4. h[k] \in V /\ h[k+1] = DownAnswer(c, h[k], k+1) /\ c[k+1] \in Answer
    BY <1>1, <1>6, <2>2
  <2>5. \A j : j \in 1..k+1 <=> j \in 1..k \/ j = k+1
    OBVIOUS
  <2>6. /\ h[k].count \in Nat /\ h[k].index \in Nat /\ c[k+1].count \in Nat /\ c[k+1].count < m
        /\ \A j \in 1..k : c[j].count \in Nat
    <3>1. h[k].count \in Nat /\ h[k].index \in Nat
      BY <2>4 DEF V
    <3>2. \A a \in Answer : a.count \in Nat
      BY DEF Answer
    <3>3. QED
      BY <1>1, <2>2, <2>4, <3>1, <3>2
  <2>7. CASE c[k+1].path # Empty /\ c[k+1].count < h[k].count
    <3>1. h[k+1].count = c[k+1].count /\ h[k+1].index = k+1
      BY <2>2, <2>4, <2>7 DEF DownAnswer
    <3>2. ASSUME NEW j \in 1..k+1, c[j].path # Empty PROVE h[k+1].count <= c[j].count
      <4>1. CASE j = k+1
        BY <2>6, <2>7, <3>1, <3>2, <4>1
      <4>2. CASE j \in 1..k
        <5>1. h[k].count <= c[j].count /\ c[j].count \in Nat
          BY <2>3, <2>6, <3>2, <4>2 DEF Right
        <5>2. QED
          BY <2>6, <2>7, <3>1, <5>1
      <4>3. QED
        BY <2>5, <3>2, <4>1, <4>2
    <3>3. \/ h[k+1].index = 1 /\ h[k+1].count = m
          \/ /\ h[k+1].index \in 1..k+1 /\ c[h[k+1].index].path # Empty
             /\ c[h[k+1].index].count = h[k+1].count
      BY <2>2, <2>5, <2>7, <3>1
    <3>4. QED
      BY <3>2, <3>3 DEF Right
  <2>8. CASE ~(c[k+1].path # Empty /\ c[k+1].count < h[k].count)
    <3>1. h[k+1] = h[k]
      BY <2>2, <2>4, <2>8 DEF DownAnswer
    <3>2. ASSUME NEW j \in 1..k+1, c[j].path # Empty PROVE h[k+1].count <= c[j].count
      <4>1. CASE j = k+1
        BY <2>6, <2>8, <3>1, <3>2, <4>1
      <4>2. CASE j \in 1..k
        <5>1. h[k].count <= c[j].count /\ c[j].count \in Nat
          BY <2>3, <2>6, <3>2, <4>2 DEF Right
        <5>2. QED
          BY <2>6, <2>8, <3>1, <5>1
      <4>3. QED
        BY <2>5, <3>2, <4>1, <4>2
    <3>3. \/ h[k+1].index = 1 /\ h[k+1].count = m
          \/ /\ h[k+1].index \in 1..k+1 /\ c[h[k+1].index].path # Empty
             /\ c[h[k+1].index].count = h[k+1].count
      BY <2>3, <2>5, <3>1 DEF Right
    <3>4. QED
      BY <3>2, <3>3 DEF Right
  <2>9. QED
    BY <2>7, <2>8
<1>9. Right(n)
  <2> HIDE DEF U, Right
  <2>1. Nat \subseteq U
    BY <1>7, <1>8, Induction
  <2>2. n \in U /\ n <= n
    BY <1>1, <2>1
  <2>3. QED
    BY <2>2 DEF U
<1>10. h[n] \in V
  BY <1>1, <1>6
<1>11. n > 0 /\ \A j \in 1..n : c[j].count \in Nat /\ c[j].count < m
  BY <1>1, EmptySeq DEF Answer, n
<1>12. /\ h[n].index \in 1..n
       /\ \A j \in 1..n : c[j].path # Empty =>
            c[h[n].index].path # Empty /\ c[h[n].index].count <= c[j].count
  BY <1>1, <1>9, <1>10, <1>11 DEF V
<1>13. QED
  BY <1>6, <1>12 DEF n, ids, base

LEMMA LeastIs ==
  ASSUME NEW c \in Seq(Answer), c # <<>>, \A j \in 1..Len(c) : c[j].count < MasterMin
  PROVE  \E x \in 1..Len(c) :
           /\ Least(c) = c[x]
           /\ \A j \in 1..Len(c) : c[j].path # Empty =>
                c[x].path # Empty /\ c[x].count <= c[j].count
<1>1. Least(c) = c[DownAnswers(c, [k \in DOMAIN c |-> k], [count |-> MasterMin, index |-> 1]).index]
  BY DEF Least, DownAnswers, DownAnswer
<1>2. MasterMin \in Nat
  BY SMT DEF MasterMin
<1>3. QED
  BY <1>1, <1>2, DownAnswersIs

-----------------------------------------------------------------------------
(* /maxcount and /mincount: what a worker answers.                         *)

LEMMA DocumentsAre ==
  ASSUME LoadInv
  PROVE  /\ \A i \in Worker : Len(corpus[i]) \in Nat
         /\ \A i \in Worker : \A f \in 1..Len(corpus[i]) : <<i, f-1>> \in Document
         /\ \A d \in Document : \E i \in Worker : \E f \in 1..Len(corpus[i]) : d = <<i, f-1>>
<1>1. \A i \in Worker : DOMAIN corpus[i] = 1..Len(corpus[i]) /\ Len(corpus[i]) \in Nat
  <2>1. \A i \in Worker : corpus[i] \in Seq(Seq(Seq(Word)))
    BY CountingAssumption DEF LoadInv
  <2>2. QED
    BY <2>1, LenProperties
<1>2. \A d : d \in Document
               <=> \E i \in Worker : d \in {<<i, f-1>> : f \in DOMAIN corpus[i]}
  BY DEF Document
<1>3. \A d : d \in Document <=> \E i \in Worker : \E f \in 1..Len(corpus[i]) : d = <<i, f-1>>
  BY <1>1, <1>2
<1>4. QED
  BY <1>1, <1>3

\* A worker has no result exactly if none of its files has the word.
LEMMA ResultsEmpty ==
  ASSUME LoadInv, AllFit, NEW i \in Worker, Loaded(i), NEW w \in Word
  PROVE  Results(i, <<w>>) = <<>>
           <=> \A f \in 1..Len(corpus[i]) : Occurrences(<<i, f-1>>, w) = 0
<1> DEFINE r == Results(i, <<w>>)
<1>1. /\ r \in Seq(Posting(Place))
      /\ \A k \in 1..Len(r) : r[k].place[1] < Len(corpus[i])
      /\ \A k \in 1..Len(r) : Times(trie[i][w], r[k].place) # 0
  BY ResultsAre
<1>2. /\ \A k \in 1..Len(r) : r[k].place \in Place /\ r[k].times = Times(trie[i][w], r[k].place)
      /\ \A p \in Place : Times(trie[i][w], p) # 0 => \E k \in 1..Len(r) : r[k].place = p
  BY ResultsOfOne
<1>3. /\ Len(corpus[i]) \in Nat
      /\ \A f \in 1..Len(corpus[i]) : /\ IsFiniteSet(Units(i, w, f-1))
                                      /\ Cardinality(Units(i, w, f-1)) = Occurrences(<<i, f-1>>, w)
  BY DocumentsAre, UnitsOccur
<1> HIDE DEF r
<1>4. Len(r) \in Nat /\ (r = <<>> <=> Len(r) = 0) /\ \A k \in 1..Len(r) : r[k] \in Posting(Place)
  BY <1>1, EmptySeq, LenProperties, ElementOfSeq
<1>5. ASSUME r = <<>>, NEW f \in 1..Len(corpus[i]) PROVE Occurrences(<<i, f-1>>, w) = 0
  <2>1. \A p \in Place : Times(trie[i][w], p) = 0
    BY <1>2, <1>4, <1>5
  <2>2. Units(i, w, f-1) = {}
    BY <2>1 DEF Units
  <2>3. QED
    BY <1>3, <2>2, FS_EmptySet
<1>6. ASSUME r # <<>>
      PROVE  \E f \in 1..Len(corpus[i]) : Occurrences(<<i, f-1>>, w) # 0
  <2> DEFINE p == r[1].place
             f == p[1]+1
  <2>1. 1 \in 1..Len(r)
    BY <1>4, <1>6
  <2>2. /\ p \in Place /\ p[1] < Len(corpus[i]) /\ Times(trie[i][w], p) # 0
        /\ Times(trie[i][w], p) \in Nat
    <3>1. r[1] \in Posting(Place)
      BY <1>4, <2>1
    <3>2. r[1].times \in Nat
      BY <3>1 DEF Posting
    <3>3. QED
      BY <1>1, <1>2, <2>1, <3>2
  <2>3. p[1] \in Nat
    BY <2>2 DEF Place
  <2> HIDE DEF p
  <2>4. f \in 1..Len(corpus[i]) /\ f-1 = p[1]
    BY <1>3, <2>2, <2>3
  <2>5. <<p, 1>> \in Units(i, w, f-1)
    BY <2>2, <2>4 DEF Units
  <2> HIDE DEF f
  <2>6. Cardinality(Units(i, w, f-1)) # 0
    BY <1>3, <2>4, <2>5, FS_EmptySet
  <2>7. QED
    BY <1>3, <2>4, <2>6
<1>7. QED
  BY <1>5, <1>6 DEF r

\* A worker has the word if one of its files has it.
LEMMA HoldersAre ==
  ASSUME LoadInv, NEW w \in Word, \A i \in Worker : Loaded(i)
  PROVE  /\ \A d \in Document : Occurrences(d, w) \in Nat
         /\ \A i \in Worker : i \notin Holders(w)
              <=> \A f \in 1..Len(corpus[i]) : Occurrences(<<i, f-1>>, w) = 0
         /\ \A d \in Document : d[1] \notin Holders(w) => Occurrences(d, w) = 0
         /\ Holders(w) \subseteq Worker
<1>1. \A i \in Worker : \A f \in 1..Len(corpus[i]) : Occurrences(<<i, f-1>>, w) \in Nat
  BY UnitsOccur
<1>2. \A d \in Document : \E i \in Worker : \E f \in 1..Len(corpus[i]) : d = <<i, f-1>>
  BY DocumentsAre
<1>3. \A d \in Document : Occurrences(d, w) \in Nat
  BY <1>1, <1>2
<1>4. \A i : i \in Holders(w) <=> \E d \in Document : d[1] = i /\ Occurrences(d, w) > 0
  BY DEF Holders
<1>5. ASSUME NEW i \in Worker
      PROVE  i \in Holders(w) <=> \E f \in 1..Len(corpus[i]) : Occurrences(<<i, f-1>>, w) # 0
  <2>1. ASSUME NEW f \in 1..Len(corpus[i]), Occurrences(<<i, f-1>>, w) # 0
        PROVE  i \in Holders(w)
    <3>1. <<i, f-1>> \in Document /\ <<i, f-1>>[1] = i
      BY DocumentsAre
    <3>2. Occurrences(<<i, f-1>>, w) > 0
      BY <1>1, <2>1
    <3>3. QED
      BY <1>4, <3>1, <3>2
  <2>2. ASSUME i \in Holders(w)
        PROVE  \E f \in 1..Len(corpus[i]) : Occurrences(<<i, f-1>>, w) # 0
    <3>1. PICK d \in Document : d[1] = i /\ Occurrences(d, w) > 0
      BY <1>4, <2>2
    <3>2. Occurrences(d, w) # 0
      BY <1>3, <3>1
    <3>3. PICK j \in Worker : \E f \in 1..Len(corpus[j]) : d = <<j, f-1>>
      BY <1>2
    <3>4. j = i
      BY <3>1, <3>3
    <3>5. QED
      BY <3>2, <3>3, <3>4
  <2>3. QED
    BY <2>1, <2>2
<1>6. ASSUME NEW d \in Document, d[1] \notin Holders(w) PROVE Occurrences(d, w) = 0
  <2>1. ~(Occurrences(d, w) > 0) /\ Occurrences(d, w) \in Nat
    BY <1>3, <1>4, <1>6
  <2>2. QED
    BY <2>1
<1>7. Holders(w) \subseteq Worker
  <2>1. ASSUME NEW d \in Document PROVE d[1] \in Worker
    BY <1>2
  <2>2. QED
    BY <1>4, <2>1
<1>8. \A i \in Worker : i \notin Holders(w)
        <=> \A f \in 1..Len(corpus[i]) : Occurrences(<<i, f-1>>, w) = 0
  BY <1>5
<1>9. QED
  BY <1>3, <1>6, <1>7, <1>8

\* The answer of worker i: a document in which the word is as frequent as
\* said, or "empty" if no file of i has the word.
Speaks(i, w, a) ==
  /\ a \in Answer
  /\ i \in Holders(w) => /\ a.path \in Document /\ a.path[1] = i /\ a.path # Empty
                         /\ a.count = Occurrences(a.path, w)
  /\ i \notin Holders(w) => a = [path |-> Empty, count |-> 0]

\* The file that is counted as best.
LEMMA CountSpeaks ==
  ASSUME LoadInv, AllFit, \A j \in Worker : Loaded(j), NEW i \in Worker, NEW w \in Word,
         NEW best,
         i \in Holders(w) =>
           /\ best.file+1 \in 1..Len(corpus[i]) /\ best.file \in Nat
           /\ best.count = FileCounter(i, w).items[best.file+1]
  PROVE  Speaks(i, w, Count(i, w, best))
<1> DEFINE a == Count(i, w, best)
<1>1. i \notin Holders(w) <=> Results(i, <<w>>) = <<>>
  BY HoldersAre, ResultsEmpty
<1>2. Worker \subseteq Nat
  BY CountingAssumption DEF Worker
<1>3. CASE i \in Holders(w)
  <2> DEFINE f == best.file+1
  <2>1. a = [path |-> <<i, best.file>>, count |-> best.count]
    BY <1>1, <1>3 DEF Count
  <2>2. f \in 1..Len(corpus[i]) /\ f-1 = best.file /\ best.file \in Nat
    BY <1>3
  <2>3. /\ best.count = Occurrences(<<i, best.file>>, w) /\ best.count \in Nat
    <3>1. /\ FileCounter(i, w).items[f] = Occurrences(<<i, f-1>>, w)
          /\ Occurrences(<<i, f-1>>, w) \in Nat
      <4> HIDE DEF f
      <4>1. QED
        BY <2>2, CounterOccurs
    <3>2. QED
      BY <1>3, <2>2, <3>1
  <2>4. <<i, best.file>> \in Document
    <3> HIDE DEF f
    <3>1. <<i, f-1>> \in Document
      BY <2>2, DocumentsAre
    <3>2. QED
      BY <2>2, <3>1
  <2>5. <<i, best.file>> \in Seq(Nat) /\ <<i, best.file>> # <<>> /\ <<i, best.file>>[1] = i
    BY <1>2, <2>2
  <2>6. a \in Answer
    BY <2>1, <2>3, <2>5 DEF Answer
  <2> HIDE DEF a, f
  <2>7. QED
    BY <1>3, <2>1, <2>3, <2>4, <2>5, <2>6 DEF Speaks, Empty, a
<1>4. CASE i \notin Holders(w)
  <2>1. a = [path |-> Empty, count |-> 0]
    BY <1>1, <1>4 DEF Count
  <2>2. a \in Answer
    BY <2>1 DEF Answer, Empty
  <2> HIDE DEF a
  <2>3. QED
    BY <1>4, <2>1, <2>2 DEF Speaks, a
<1>5. QED
  BY <1>3, <1>4

\* What fileCounter holds for a document of the worker.
LEMMA ItemsAre ==
  ASSUME LoadInv, AllFit, NEW i \in Worker, Loaded(i), NEW w \in Word
  PROVE  LET c == FileCounter(i, w).items
         IN  /\ c \in Seq(Nat) /\ Len(c) = Len(corpus[i])
             /\ \A f \in 1..Len(c) : c[f] = Occurrences(<<i, f-1>>, w)
             /\ \A d \in Document : d[1] = i => \E f \in 1..Len(c) : c[f] = Occurrences(d, w)
<1>1. /\ FileCounter(i, w) \in Counters(Len(corpus[i]))
      /\ \A f \in 1..Len(corpus[i]) : FileCounter(i, w).items[f] = Occurrences(<<i, f-1>>, w)
  BY CounterOccurs
<1>2. FileCounter(i, w).items \in Seq(Nat) /\ Len(FileCounter(i, w).items) = Len(corpus[i])
  BY <1>1 DEF Counters
<1>3. ASSUME NEW d \in Document, d[1] = i
      PROVE  \E f \in 1..Len(corpus[i]) : d = <<i, f-1>>
  <2>1. PICK j \in Worker : \E f \in 1..Len(corpus[j]) : d = <<j, f-1>>
    BY DocumentsAre
  <2>2. j = i
    BY <1>3, <2>1
  <2>3. QED
    BY <2>1, <2>2
<1>4. QED
  BY <1>1, <1>2, <1>3

LEMMA WorkerMax ==
  ASSUME LoadInv, AllFit, \A j \in Worker : Loaded(j), NEW i \in Worker, NEW w \in Word
  PROVE  /\ Speaks(i, w, MaxCount(i, w))
         /\ i \in Holders(w) =>
              \A d \in Document : d[1] = i => Occurrences(d, w) <= MaxCount(i, w).count
<1> DEFINE c == FileCounter(i, w).items
           best == FirstGreatest(c)
<1>1. /\ c \in Seq(Nat) /\ Len(c) = Len(corpus[i])
      /\ \A f \in 1..Len(c) : c[f] = Occurrences(<<i, f-1>>, w)
      /\ \A d \in Document : d[1] = i => \E f \in 1..Len(c) : c[f] = Occurrences(d, w)
  BY ItemsAre
<1>2. MaxCount(i, w) = Count(i, w, best)
  BY DEF MaxCount
<1>3. /\ best.count \in Nat /\ best.file \in Nat
      /\ \A j \in 1..Len(c) : c[j] <= best.count
      /\ best.count # 0 => best.file+1 \in 1..Len(c) /\ c[best.file+1] = best.count
  <2> HIDE DEF c
  <2>1. QED
    BY <1>1, FirstGreatestIs
<1>4. ASSUME i \in Holders(w)
      PROVE  best.file+1 \in 1..Len(c) /\ c[best.file+1] = best.count
  <2>1. PICK f \in 1..Len(corpus[i]) : Occurrences(<<i, f-1>>, w) # 0
    BY <1>4, HoldersAre
  <2> HIDE DEF c, best
  <2>2. f \in 1..Len(c) /\ c[f] \in Nat /\ c[f] # 0 /\ c[f] <= best.count
    BY <1>1, <1>3, <2>1, ElementOfSeq
  <2>3. best.count # 0
    BY <1>3, <2>2
  <2>4. QED
    BY <1>3, <2>3
<1>5. i \in Holders(w) => /\ best.file+1 \in 1..Len(corpus[i]) /\ best.file \in Nat
                          /\ best.count = FileCounter(i, w).items[best.file+1]
  <2> HIDE DEF best
  <2>1. QED
    BY <1>1, <1>3, <1>4
<1> HIDE DEF best
<1>6. Speaks(i, w, Count(i, w, best))
  BY <1>5, CountSpeaks
<1>7. ASSUME i \in Holders(w) PROVE Count(i, w, best).count = best.count
  <2>1. Results(i, <<w>>) # <<>>
    BY <1>7, HoldersAre, ResultsEmpty
  <2>2. QED
    BY <2>1 DEF Count
<1> HIDE DEF c
<1>8. QED
  BY <1>1, <1>2, <1>3, <1>6, <1>7

\* Less often than minCount and mincount take for more than anything.
Countable(w) == \A d \in Document : Occurrences(d, w) < MasterMin

LEMMA WorkerMinIs ==
  ASSUME LoadInv, AllFit, \A j \in Worker : Loaded(j), NEW i \in Worker, NEW w \in Word,
         Countable(w)
  PROVE  /\ Speaks(i, w, MinCount(i, w))
         /\ i \in Holders(w) =>
              \A d \in Document : d[1] = i => Occurrences(d, w) >= MinCount(i, w).count
<1> DEFINE c == FileCounter(i, w).items
           best == FirstLeast(c)
<1>1. /\ c \in Seq(Nat) /\ Len(c) = Len(corpus[i])
      /\ \A f \in 1..Len(c) : c[f] = Occurrences(<<i, f-1>>, w)
      /\ \A d \in Document : d[1] = i => \E f \in 1..Len(c) : c[f] = Occurrences(d, w)
  BY ItemsAre
<1>2. MinCount(i, w) = Count(i, w, best)
  BY DEF MinCount
<1>3. ASSUME i \in Holders(w)
      PROVE  /\ best.count \in Nat /\ best.file \in Nat
             /\ \A j \in 1..Len(c) : best.count <= c[j]
             /\ best.file+1 \in 1..Len(c) /\ c[best.file+1] = best.count
  <2>1. PICK f \in 1..Len(corpus[i]) : Occurrences(<<i, f-1>>, w) # 0
    BY <1>3, HoldersAre
  <2>2. ASSUME NEW g \in 1..Len(c) PROVE c[g] < WorkerMin
    <3>1. <<i, g-1>> \in Document
      BY <1>1, DocumentsAre
    <3>2. c[g] < MasterMin /\ c[g] \in Nat
      <4> HIDE DEF c
      <4>1. QED
        BY <1>1, <3>1, ElementOfSeq DEF Countable
    <3>3. MasterMin \in Nat /\ WorkerMin \in Nat /\ MasterMin < WorkerMin
      BY SMT DEF MasterMin, WorkerMin
    <3> HIDE DEF c
    <3>4. QED
      BY <3>2, <3>3
  <2> HIDE DEF c
  <2>3. c # <<>>
    BY <1>1, <2>1, EmptySeq
  <2>4. QED
    BY <1>1, <2>2, <2>3, FirstLeastIs
<1>5. i \in Holders(w) => /\ best.file+1 \in 1..Len(corpus[i]) /\ best.file \in Nat
                          /\ best.count = FileCounter(i, w).items[best.file+1]
  <2> HIDE DEF best
  <2>1. QED
    BY <1>1, <1>3
<1> HIDE DEF best
<1>6. Speaks(i, w, Count(i, w, best))
  BY <1>5, CountSpeaks
<1>7. ASSUME i \in Holders(w) PROVE Count(i, w, best).count = best.count
  <2>1. Results(i, <<w>>) # <<>>
    BY <1>7, HoldersAre, ResultsEmpty
  <2>2. QED
    BY <2>1 DEF Count
<1> HIDE DEF c
<1>8. ASSUME i \in Holders(w), NEW d \in Document, d[1] = i
      PROVE  Occurrences(d, w) >= MinCount(i, w).count
  <2>1. PICK f \in 1..Len(c) : c[f] = Occurrences(d, w)
    BY <1>1, <1>8
  <2>2. c[f] \in Nat /\ best.count \in Nat /\ best.count <= c[f]
    BY <1>1, <1>3, <1>8, ElementOfSeq
  <2>3. QED
    BY <1>2, <1>7, <1>8, <2>1, <2>2
<1>9. QED
  BY <1>2, <1>6, <1>8

\* One answer after the other.
LEMMA FlattenSingles ==
  ASSUME NEW S, NEW seqs \in Seq(Seq(S)), NEW a,
         \A k \in 1..Len(seqs) : a[k] \in S /\ seqs[k] = <<a[k]>>
  PROVE  /\ FlattenSeq(seqs) \in Seq(S) /\ Len(FlattenSeq(seqs)) = Len(seqs)
         /\ \A k \in 1..Len(seqs) : FlattenSeq(seqs)[k] = a[k]
<1> DEFINE n == Len(seqs)
<1>1. n \in Nat /\ \A k \in 1..n : seqs[k] \in Seq(S)
  BY LenProperties, ElementOfSeq
<1>2. PICK h \in [0..n -> Seq(S)] :
        /\ h[0] = <<>> /\ h[n] = FlattenSeq(seqs)
        /\ \A k \in 0..n-1 : h[k+1] = h[k] \o seqs[k+1]
  BY FlattenFolds
<1>3. \A k \in 1..n : a[k] \in S /\ seqs[k] = <<a[k]>>
  OBVIOUS
<1> HIDE DEF n
<1> DEFINE Good(k) == Len(h[k]) = k /\ \A j \in 1..k : h[k][j] = a[j]
           U == {k \in Nat : k <= n => Good(k)}
<1>4. 0 \in U
  BY <1>2, EmptySeq
<1>5. ASSUME NEW k \in Nat, k \in U PROVE k+1 \in U
  <2> HIDE DEF Good
  <2>1. SUFFICES ASSUME k+1 <= n PROVE Good(k+1)
    OBVIOUS
  <2>2. k \in 0..n-1 /\ k+1 \in 1..n /\ k <= n /\ k \in 0..n
    BY <1>1, <2>1
  <2>3. Good(k)
    BY <1>5, <2>2
  <2> HIDE DEF U
  <2> DEFINE s == h[k]
             e == a[k+1]
  <2>4. s \in Seq(S) /\ e \in S /\ h[k+1] = s \o <<e>>
    BY <1>2, <1>3, <2>2
  <2>5. Len(s) = k /\ \A j \in 1..k : s[j] = a[j]
    BY <2>3 DEF Good
  <2>6. Good(k+1) <=> Len(h[k+1]) = k+1 /\ \A j \in 1..k+1 : h[k+1][j] = a[j]
    BY DEF Good
  <2>7. a[k+1] = e
    OBVIOUS
  <2> HIDE DEF s, e
  <2>8. s \o <<e>> = Append(s, e)
    BY <2>4
  <2>9. /\ Len(Append(s, e)) = k+1 /\ \A j \in 1..k : Append(s, e)[j] = s[j]
        /\ Append(s, e)[k+1] = e
    BY <2>4, <2>5, AppendProperties
  <2>10. \A j : j \in 1..k+1 <=> j \in 1..k \/ j = k+1
    OBVIOUS
  <2>11. QED
    BY <2>4, <2>5, <2>6, <2>7, <2>8, <2>9, <2>10
<1>6. n \in U /\ n <= n
  <2> HIDE DEF U
  <2>1. Nat \subseteq U
    BY <1>4, <1>5, Induction
  <2>2. QED
    BY <1>1, <2>1
<1>7. Good(n)
  BY <1>6
<1>8. QED
  BY <1>2, <1>7 DEF n

-----------------------------------------------------------------------------
(* /maxcount and /mincount: what the master prints.                        *)

\* What MaxCountIsMax says of a text printed for a word.
MostFrequent(text, w) ==
  IF Holders(w) = {}
  THEN text = [path |-> Empty, count |-> 0]
  ELSE /\ text.path \in Document
       /\ text.count = Occurrences(text.path, w)
       /\ \A d \in Document : Occurrences(d, w) <= text.count

\* What MinCountOfHolders says.
LeastFrequent(text, w) ==
  LET counted == {d \in Document : d[1] \in Holders(w)}
  IN IF counted = {}
     THEN text = [path |-> Empty, count |-> 0]
     ELSE /\ text.path \in counted
          /\ text.count = Occurrences(text.path, w)
          /\ \A d \in counted : Occurrences(d, w) >= text.count

LEMMA PrintMax ==
  ASSUME LoadInv, AllFit, \A i \in Worker : Loaded(i), NEW w \in Word,
         NEW r \in Seq(Answer), Len(r) = N, \A i \in Worker : r[i] = MaxCount(i, w)
  PROVE  MostFrequent(Greatest(r), w)
<1>1. N \in Nat /\ N # 0 /\ Worker = 1..N /\ r # <<>>
  BY CountingAssumption, EmptySeq DEF Worker
<1>2. \A i \in Worker :
         /\ Speaks(i, w, r[i])
         /\ i \in Holders(w) => \A d \in Document : d[1] = i => Occurrences(d, w) <= r[i].count
  BY WorkerMax
<1>3. PICK x \in Worker : Greatest(r) = r[x] /\ \A j \in Worker : r[j].count <= r[x].count
  BY <1>1, GreatestIs
<1>4. /\ \A d \in Document : Occurrences(d, w) \in Nat
      /\ \A d \in Document : d[1] \notin Holders(w) => Occurrences(d, w) = 0
      /\ Holders(w) \subseteq Worker
  BY HoldersAre
<1>5. \A i \in Worker : r[i].count \in Nat
  <2>1. \A i \in Worker : r[i] \in Answer
    BY <1>2 DEF Speaks
  <2>2. QED
    BY <2>1 DEF Answer
<1>6. CASE Holders(w) = {}
  BY <1>2, <1>3, <1>6 DEF Speaks, MostFrequent
<1>7. CASE Holders(w) # {}
  <2>1. PICK d \in Document : Occurrences(d, w) > 0
    BY <1>7 DEF Holders
  <2>2. d[1] \in Holders(w) /\ d[1] \in Worker
    BY <1>4, <2>1
  <2>3. r[d[1]].count # 0
    BY <1>2, <1>4, <1>5, <2>1, <2>2
  <2>4. r[x].count # 0
    BY <1>3, <1>5, <2>2, <2>3
  <2>5. x \in Holders(w)
    BY <1>2, <2>4 DEF Speaks
  <2>6. r[x].path \in Document /\ r[x].count = Occurrences(r[x].path, w)
    BY <1>2, <2>5 DEF Speaks
  <2>7. ASSUME NEW e \in Document PROVE Occurrences(e, w) <= r[x].count
    <3>1. CASE e[1] \in Holders(w)
      <4>1. Occurrences(e, w) <= r[e[1]].count /\ r[e[1]].count <= r[x].count
        BY <1>2, <1>3, <1>4, <3>1
      <4>2. QED
        BY <1>4, <1>5, <3>1, <4>1
    <3>2. CASE e[1] \notin Holders(w)
      BY <1>4, <1>5, <3>2
    <3>3. QED
      BY <3>1, <3>2
  <2>8. QED
    BY <1>3, <1>7, <2>6, <2>7 DEF MostFrequent
<1>8. QED
  BY <1>6, <1>7

LEMMA PrintMin ==
  ASSUME LoadInv, AllFit, \A i \in Worker : Loaded(i), NEW w \in Word, Countable(w),
         NEW r \in Seq(Answer), Len(r) = N, \A i \in Worker : r[i] = MinCount(i, w)
  PROVE  LeastFrequent(Least(r), w)
<1>1. N \in Nat /\ N # 0 /\ Worker = 1..N /\ r # <<>>
  BY CountingAssumption, EmptySeq DEF Worker
<1>2. \A i \in Worker :
         /\ Speaks(i, w, r[i])
         /\ i \in Holders(w) => \A d \in Document : d[1] = i => Occurrences(d, w) >= r[i].count
  BY WorkerMinIs
<1>4. /\ \A d \in Document : Occurrences(d, w) \in Nat
      /\ Holders(w) \subseteq Worker
  BY HoldersAre
<1>5. \A i \in Worker : r[i].count \in Nat
  <2>1. \A i \in Worker : r[i] \in Answer
    BY <1>2 DEF Speaks
  <2>2. QED
    BY <2>1 DEF Answer
<1>6. \A i \in Worker : r[i].count < MasterMin
  <2>1. MasterMin \in Nat /\ 0 < MasterMin
    BY SMT DEF MasterMin
  <2>2. QED
    BY <1>2, <2>1 DEF Speaks, Countable
<1>3. PICK x \in Worker :
        /\ Least(r) = r[x]
        /\ \A j \in Worker : r[j].path # Empty => r[x].path # Empty /\ r[x].count <= r[j].count
  BY <1>1, <1>6, LeastIs
<1> DEFINE counted == {d \in Document : d[1] \in Holders(w)}
<1>7. \A i \in Worker : r[i].path # Empty <=> i \in Holders(w)
  BY <1>2 DEF Speaks
<1>8. CASE counted = {}
  <2>1. Holders(w) = {}
    BY <1>8 DEF Holders
  <2>2. r[x] = [path |-> Empty, count |-> 0]
    BY <1>2, <2>1 DEF Speaks
  <2>3. QED
    BY <1>3, <1>8, <2>2 DEF LeastFrequent
<1>9. CASE counted # {}
  <2>1. PICK d \in Document : d[1] \in Holders(w)
    BY <1>9
  <2>2. x \in Holders(w)
    BY <1>3, <1>4, <1>7, <2>1
  <2>3. /\ r[x].path \in counted /\ r[x].count = Occurrences(r[x].path, w)
    BY <1>2, <2>2 DEF Speaks
  <2>4. ASSUME NEW e \in counted PROVE Occurrences(e, w) >= r[x].count
    <3>1. e \in Document /\ e[1] \in Holders(w) /\ e[1] \in Worker
      BY <1>4
    <3>2. Occurrences(e, w) >= r[e[1]].count /\ r[x].count <= r[e[1]].count
      BY <1>2, <1>3, <1>7, <3>1
    <3>3. QED
      BY <1>4, <1>5, <3>1, <3>2
  <2>5. QED
    BY <1>3, <1>9, <2>3, <2>4 DEF LeastFrequent
<1>10. QED
  BY <1>8, <1>9

-----------------------------------------------------------------------------
(* /wc: the words of the lines, one line after the other.                  *)

\* g has the lengths of the sequences, added up.
AddsLengths(g, seqs) == /\ g[0] = 0
                        /\ \A k \in 0..Len(seqs)-1 : g[k+1] = g[k] + Len(seqs[k+1])

LEMMA FlattenLength ==
  ASSUME NEW S, NEW seqs \in Seq(Seq(S)), NEW g, AddsLengths(g, seqs)
  PROVE  Len(FlattenSeq(seqs)) = g[Len(seqs)]
<1> DEFINE n == Len(seqs)
<1>1. n \in Nat /\ \A k \in 1..n : seqs[k] \in Seq(S)
  BY LenProperties, ElementOfSeq
<1>2. PICK h \in [0..n -> Seq(S)] :
        /\ h[0] = <<>> /\ h[n] = FlattenSeq(seqs)
        /\ \A k \in 0..n-1 : h[k+1] = h[k] \o seqs[k+1]
  BY FlattenFolds
<1>3. g[0] = 0 /\ \A k \in 0..n-1 : g[k+1] = g[k] + Len(seqs[k+1])
  BY DEF AddsLengths
<1> HIDE DEF n
<1> DEFINE U == {k \in Nat : k <= n => Len(h[k]) = g[k]}
<1>4. 0 \in U
  BY <1>2, <1>3, EmptySeq
<1>5. ASSUME NEW k \in Nat, k \in U PROVE k+1 \in U
  <2>1. SUFFICES ASSUME k+1 <= n PROVE Len(h[k+1]) = g[k+1]
    OBVIOUS
  <2>2. k \in 0..n-1 /\ k+1 \in 1..n /\ k <= n /\ k \in 0..n
    BY <1>1, <2>1
  <2>3. Len(h[k]) = g[k]
    BY <1>5, <2>2
  <2> HIDE DEF U
  <2>4. h[k] \in Seq(S) /\ seqs[k+1] \in Seq(S) /\ h[k+1] = h[k] \o seqs[k+1]
    BY <1>1, <1>2, <2>2
  <2>5. Len(h[k+1]) = Len(h[k]) + Len(seqs[k+1])
    BY <2>4, ConcatProperties
  <2>6. QED
    BY <1>3, <2>2, <2>3, <2>5
<1>6. n \in U /\ n <= n
  <2> HIDE DEF U
  <2>1. Nat \subseteq U
    BY <1>4, <1>5, Induction
  <2>2. QED
    BY <1>1, <2>1
<1>7. QED
  BY <1>2, <1>6 DEF n

LEMMA LengthsAdd ==
  ASSUME NEW S, NEW seqs \in Seq(Seq(S))
  PROVE  \E g \in [0..Len(seqs) -> Nat] : AddsLengths(g, seqs)
<1> DEFINE n == Len(seqs)
<1>1. n \in Nat /\ \A k \in 1..n : seqs[k] \in Seq(S)
  BY LenProperties, ElementOfSeq
<1>2. PICK h \in [0..n -> Seq(S)] :
        /\ h[0] = <<>> /\ h[n] = FlattenSeq(seqs)
        /\ \A k \in 0..n-1 : h[k+1] = h[k] \o seqs[k+1]
  BY FlattenFolds
<1> HIDE DEF n
<1> DEFINE g == [k \in 0..n |-> Len(h[k])]
<1>3. g \in [0..n -> Nat]
  BY <1>2, LenProperties
<1>4. g[0] = 0
  BY <1>1, <1>2, EmptySeq
<1>5. ASSUME NEW k \in 0..n-1 PROVE g[k+1] = g[k] + Len(seqs[k+1])
  <2>1. k \in 0..n /\ k+1 \in 0..n /\ k+1 \in 1..n
    BY <1>1
  <2>2. h[k] \in Seq(S) /\ seqs[k+1] \in Seq(S) /\ h[k+1] = h[k] \o seqs[k+1]
    BY <1>1, <1>2, <2>1
  <2>3. Len(h[k+1]) = Len(h[k]) + Len(seqs[k+1])
    BY <2>2, ConcatProperties
  <2>4. QED
    BY <2>1, <2>3
<1> HIDE DEF g
<1>6. QED
  BY <1>3, <1>4, <1>5 DEF AddsLengths, n

TextLines == [file : Nat, words : Seq(Word)]

TextOf(l) == [n \in DOMAIN l |-> l[n].words]

WordsOf(l) == Len(FlattenSeq(TextOf(l)))

LEMMA TextOfIs ==
  ASSUME NEW l \in Seq(TextLines)
  PROVE  /\ TextOf(l) \in Seq(Seq(Word)) /\ Len(TextOf(l)) = Len(l) /\ Len(l) \in Nat
         /\ \A n \in 1..Len(l) : TextOf(l)[n] = l[n].words /\ Len(l[n].words) \in Nat
<1> DEFINE S == Seq(Word)
<1>1. Len(l) \in Nat /\ DOMAIN l = 1..Len(l) /\ \A n \in 1..Len(l) : l[n] \in TextLines
  BY LenProperties, ElementOfSeq
<1>2. \A n \in 1..Len(l) : l[n].words \in S /\ Len(l[n].words) \in Nat
  BY <1>1, LenProperties DEF TextLines
<1> HIDE DEF S
<1>3. TextOf(l) \in [1..Len(l) -> S] /\ \A n \in 1..Len(l) : TextOf(l)[n] = l[n].words
  BY <1>1, <1>2 DEF TextOf
<1>4. TextOf(l) \in Seq(S) /\ Len(TextOf(l)) = Len(l)
  BY <1>1, <1>3
<1>5. QED
  BY <1>1, <1>2, <1>3, <1>4 DEF S

\* g has the words of the lines, added up.
AddsWords(g, l) == /\ g[0] = 0
                   /\ \A k \in 0..Len(l)-1 : g[k+1] = g[k] + Len(l[k+1].words)

LEMMA WordsAdd ==
  ASSUME NEW l \in Seq(TextLines)
  PROVE  /\ \E g \in [0..Len(l) -> Nat] : AddsWords(g, l)
         /\ \A g : AddsWords(g, l) => WordsOf(l) = g[Len(l)]
<1> DEFINE W == Word
           seqs == TextOf(l)
<1>1. /\ seqs \in Seq(Seq(W)) /\ Len(seqs) = Len(l) /\ Len(l) \in Nat
      /\ \A n \in 1..Len(l) : seqs[n] = l[n].words
  BY TextOfIs
<1>2. WordsOf(l) = Len(FlattenSeq(seqs))
  BY DEF WordsOf
<1> HIDE DEF seqs, W
<1>3. ASSUME NEW g PROVE AddsWords(g, l) <=> AddsLengths(g, seqs)
  <2>1. \A k \in 0..Len(l)-1 : k+1 \in 1..Len(l)
    BY <1>1
  <2>2. QED
    BY <1>1, <2>1 DEF AddsWords, AddsLengths
<1>4. \E g \in [0..Len(l) -> Nat] : AddsWords(g, l)
  BY <1>1, <1>3, LengthsAdd
<1>5. ASSUME NEW g, AddsWords(g, l) PROVE WordsOf(l) = g[Len(l)]
  BY <1>1, <1>2, <1>3, <1>5, FlattenLength
<1>6. QED
  BY <1>4, <1>5

LEMMA WordsConcat ==
  ASSUME NEW s \in Seq(TextLines), NEW t \in Seq(TextLines)
  PROVE  /\ WordsOf(s \o t) = WordsOf(s) + WordsOf(t)
         /\ WordsOf(s) \in Nat
<1> DEFINE m == Len(s)
           n == Len(t)
<1>1. PICK p \in [0..m -> Nat] : AddsWords(p, s)
  BY WordsAdd
<1>2. PICK q \in [0..n -> Nat] : AddsWords(q, t)
  BY WordsAdd
<1>3. /\ m \in Nat /\ n \in Nat /\ s \o t \in Seq(TextLines) /\ Len(s \o t) = m + n
      /\ \A i \in 1..m+n : (s \o t)[i] = IF i <= m THEN s[i] ELSE t[i - m]
  BY ConcatProperties, LenProperties
<1>4. WordsOf(s) = p[m] /\ WordsOf(t) = q[n]
  BY <1>1, <1>2, WordsAdd
<1>5. /\ p[0] = 0 /\ \A k \in 0..m-1 : p[k+1] = p[k] + Len(s[k+1].words)
      /\ q[0] = 0 /\ \A k \in 0..n-1 : q[k+1] = q[k] + Len(t[k+1].words)
  BY <1>1, <1>2 DEF AddsWords
<1>6. \A k \in 0..n-1 : Len(t[k+1].words) \in Nat
  <2>1. \A k \in 0..n-1 : k+1 \in 1..n
    BY <1>3
  <2>2. QED
    BY <2>1, TextOfIs
<1> DEFINE st == s \o t
           g == [k \in 0..m+n |-> IF k <= m THEN p[k] ELSE p[m] + q[k-m]]
<1> HIDE DEF m, n, st
<1>g. \A k \in 0..m+n : g[k] = IF k <= m THEN p[k] ELSE p[m] + q[k-m]
  OBVIOUS
<1> HIDE DEF g
<1>7. g[0] = 0 /\ g[m+n] = p[m] + q[n]
  <2>1. 0 \in 0..m+n /\ m+n \in 0..m+n /\ 0 <= m
    BY <1>3
  <2>2. CASE n = 0
    <3>1. m+n <= m /\ m+n = m /\ p[m] \in Nat /\ q[n] = 0
      BY <1>1, <1>3, <1>5, <2>2
    <3>2. QED
      BY <1>g, <1>5, <2>1, <3>1
  <2>3. CASE n # 0
    <3>1. ~(m+n <= m) /\ m+n-m = n
      BY <1>3, <2>3
    <3>2. g[m+n] = p[m] + q[m+n-m]
      BY <1>3, <1>g, <2>1, <3>1
    <3>3. g[0] = p[0]
      BY <1>g, <2>1
    <3>4. QED
      BY <1>5, <3>1, <3>2, <3>3
  <2>4. QED
    BY <2>2, <2>3
<1>8. ASSUME NEW k \in 0..m+n-1 PROVE g[k+1] = g[k] + Len(st[k+1].words)
  <2>1. k+1 \in 1..m+n /\ k \in 0..m+n /\ k+1 \in 0..m+n
    BY <1>3
  <2>2. CASE k+1 <= m
    <3>1. k \in 0..m-1 /\ k <= m /\ st[k+1] = s[k+1]
      BY <1>3, <2>1, <2>2 DEF st
    <3>2. QED
      BY <1>g, <1>5, <2>1, <2>2, <3>1
  <2>3. CASE ~(k+1 <= m)
    <3>1. k-m \in 0..n-1 /\ k+1-m = (k-m)+1 /\ st[k+1] = t[(k-m)+1]
      BY <1>3, <2>1, <2>3 DEF st
    <3>2. q[(k-m)+1] = q[k-m] + Len(t[(k-m)+1].words)
      BY <1>5, <3>1
    <3>3. g[k] = p[m] + q[k-m]
      <4>1. CASE k <= m
        <5>1. k = m /\ k-m = 0 /\ p[m] \in Nat
          BY <1>1, <1>3, <2>1, <2>3, <4>1
        <5>2. QED
          BY <1>g, <1>5, <2>1, <5>1
      <4>2. CASE ~(k <= m)
        BY <1>g, <2>1, <4>2
      <4>3. QED
        BY <4>1, <4>2
    <3>4. g[k+1] = p[m] + q[(k-m)+1]
      <4>1. g[k+1] = p[m] + q[k+1-m]
        BY <1>3, <1>g, <2>1, <2>3
      <4>2. QED
        BY <3>1, <4>1
    <3>5. p[m] \in Nat /\ q[k-m] \in Nat /\ Len(t[(k-m)+1].words) \in Nat
      <4>1. m \in 0..m /\ k-m \in 0..n
        BY <1>3, <3>1
      <4>2. QED
        BY <1>1, <1>2, <1>6, <3>1, <4>1
    <3>6. QED
      BY <3>1, <3>2, <3>3, <3>4, <3>5
  <2>4. QED
    BY <2>2, <2>3
<1>9. AddsWords(g, st)
  <2>1. Len(st) = m + n
    BY <1>3 DEF st
  <2>2. \A k \in 0..Len(st)-1 : g[k+1] = g[k] + Len(st[k+1].words)
    <3>1. ASSUME NEW k \in 0..Len(st)-1 PROVE g[k+1] = g[k] + Len(st[k+1].words)
      <4>1. k \in 0..m+n-1
        BY <1>3, <2>1
      <4>2. QED
        BY <1>8, <4>1
    <3>2. QED
      BY <3>1
  <2>3. QED
    BY <1>7, <2>2 DEF AddsWords
<1>10. WordsOf(st) = g[Len(st)]
  <2>1. st \in Seq(TextLines)
    BY <1>3 DEF st
  <2>2. QED
    BY <1>9, <2>1, WordsAdd
<1>11. Len(st) = m + n
  BY <1>3 DEF st
<1>12. p[m] \in Nat
  BY <1>1, <1>3
<1>13. QED
  BY <1>4, <1>7, <1>10, <1>11, <1>12 DEF st

LEMMA WordsAppend ==
  ASSUME NEW s \in Seq(TextLines), NEW e \in TextLines
  PROVE  WordsOf(Append(s, e)) = WordsOf(s) + Len(e.words)
<1> DEFINE t == <<e>>
<1>1. t \in Seq(TextLines) /\ Len(t) = 1 /\ t[1] = e /\ Append(s, e) = s \o t
  OBVIOUS
<1>2. Len(e.words) \in Nat
  BY LenProperties DEF TextLines
<1> DEFINE g == [k \in 0..1 |-> IF k = 0 THEN 0 ELSE Len(e.words)]
<1> HIDE DEF t
<1>3. AddsWords(g, t)
  BY <1>1, <1>2 DEF AddsWords
<1>4. g[1] = Len(e.words)
  OBVIOUS
<1> HIDE DEF g
<1>5. WordsOf(t) = Len(e.words)
  BY <1>1, <1>3, <1>4, WordsAdd
<1>6. QED
  BY <1>1, <1>5, WordsConcat

LEMMA NoWords == WordsOf(<<>>) = 0
<1>1. <<>> \in Seq(TextLines) /\ Len(<<>>) = 0
  OBVIOUS
<1> DEFINE g == [k \in 0..0 |-> 0]
<1>2. AddsWords(g, <<>>) /\ g[0] = 0
  BY <1>1 DEF AddsWords
<1> HIDE DEF g
<1>3. QED
  BY <1>1, <1>2, WordsAdd

\* The lines without a word.
EmptiesIn(l) == {n \in DOMAIN l : l[n].words = <<>>}

Empties(l) == Cardinality(EmptiesIn(l))

EmptyLine(e) == IF e.words = <<>> THEN 1 ELSE 0

LEMMA EmptiesAre ==
  ASSUME NEW l \in Seq(TextLines)
  PROVE  IsFiniteSet(EmptiesIn(l)) /\ Empties(l) \in Nat /\ EmptiesIn(l) \subseteq 1..Len(l)
<1>1. Len(l) \in Nat /\ EmptiesIn(l) \in SUBSET (1..Len(l))
  BY LenProperties DEF EmptiesIn
<1>2. IsFiniteSet(1..Len(l))
  BY <1>1, FS_Interval
<1>3. IsFiniteSet(EmptiesIn(l))
  BY <1>1, <1>2, FS_Subset
<1>4. QED
  BY <1>1, <1>3, FS_CardinalityType DEF Empties

LEMMA EmptiesAppend ==
  ASSUME NEW s \in Seq(TextLines), NEW e \in TextLines
  PROVE  Empties(Append(s, e)) = Empties(s) + EmptyLine(e)
<1> DEFINE a == Append(s, e)
           n == Len(s)
<1>1. /\ n \in Nat /\ DOMAIN s = 1..n /\ DOMAIN a = 1..n+1
      /\ \A k \in 1..n : a[k] = s[k]
      /\ a[n+1] = e
  BY AppendProperties, LenProperties
<1>2. /\ IsFiniteSet(EmptiesIn(s)) /\ Empties(s) \in Nat /\ n+1 \notin EmptiesIn(s)
  BY <1>1, EmptiesAre
<1> HIDE DEF a, n
<1>3. CASE e.words = <<>>
  <2>1. EmptiesIn(a) = EmptiesIn(s) \cup {n+1}
    BY <1>1, <1>3 DEF EmptiesIn
  <2>2. QED
    BY <1>2, <1>3, <2>1, FS_AddElement DEF Empties, EmptyLine, a
<1>4. CASE e.words # <<>>
  <2>1. EmptiesIn(a) = EmptiesIn(s)
    BY <1>1, <1>4 DEF EmptiesIn
  <2>2. QED
    BY <1>2, <1>4, <2>1 DEF Empties, EmptyLine, a
<1>5. QED
  BY <1>3, <1>4

LEMMA NoEmpties == Empties(<<>>) = 0
<1>1. EmptiesIn(<<>>) = {}
  BY DEF EmptiesIn
<1>2. QED
  BY <1>1, FS_EmptySet DEF Empties

LEMMA EmptiesConcat ==
  ASSUME NEW s \in Seq(TextLines), NEW t \in Seq(TextLines)
  PROVE  Empties(s \o t) = Empties(s) + Empties(t)
<1> DEFINE m == Len(s)
           n == Len(t)
           A == EmptiesIn(s)
           B == EmptiesIn(t)
           C == {m+k : k \in B}
<1>1. /\ m \in Nat /\ n \in Nat /\ DOMAIN s = 1..m /\ DOMAIN t = 1..n
      /\ DOMAIN (s \o t) = 1..m+n
      /\ \A i \in 1..m+n : (s \o t)[i] = IF i <= m THEN s[i] ELSE t[i - m]
  BY ConcatProperties, LenProperties
<1>2. /\ IsFiniteSet(A) /\ A \subseteq 1..m /\ Cardinality(A) \in Nat
      /\ IsFiniteSet(B) /\ B \subseteq 1..n /\ Cardinality(B) \in Nat
  BY EmptiesAre DEF Empties
<1> HIDE DEF m, n
<1>3. EmptiesIn(s \o t) = A \cup C
  <2>1. ASSUME NEW i PROVE i \in EmptiesIn(s \o t) => i \in A \cup C
    <3>1. SUFFICES ASSUME i \in 1..m+n, (s \o t)[i].words = <<>> PROVE i \in A \cup C
      BY <1>1 DEF EmptiesIn
    <3>2. CASE i <= m
      <4>1. i \in 1..m /\ s[i].words = <<>>
        BY <1>1, <3>1, <3>2
      <4>2. QED
        BY <1>1, <4>1 DEF EmptiesIn
    <3>3. CASE ~(i <= m)
      <4>1. i-m \in 1..n /\ t[i-m].words = <<>> /\ i = m+(i-m)
        BY <1>1, <3>1, <3>3
      <4>2. i-m \in B
        BY <1>1, <4>1 DEF EmptiesIn
      <4>3. QED
        BY <4>1, <4>2
    <3>4. QED
      BY <3>2, <3>3
  <2>2. ASSUME NEW i \in A PROVE i \in EmptiesIn(s \o t)
    <3>1. i \in 1..m /\ s[i].words = <<>>
      BY <1>1 DEF EmptiesIn
    <3>2. i \in 1..m+n /\ (s \o t)[i] = s[i]
      BY <1>1, <3>1
    <3>3. QED
      BY <1>1, <3>1, <3>2 DEF EmptiesIn
  <2>3. ASSUME NEW k \in B PROVE m+k \in EmptiesIn(s \o t)
    <3>1. k \in 1..n /\ t[k].words = <<>>
      BY <1>1 DEF EmptiesIn
    <3>2. m+k \in 1..m+n /\ ~(m+k <= m) /\ m+k-m = k
      BY <1>1, <3>1
    <3> DEFINE st == s \o t
    <3> HIDE DEF st
    <3>a. \A i \in 1..m+n : st[i] = IF i <= m THEN s[i] ELSE t[i - m]
      BY <1>1 DEF st
    <3>m. m \in Nat /\ n \in Nat /\ k \in Nat
      BY <1>1, <3>1
    <3>b. st[m+k] = t[m+k-m]
      BY <3>2, <3>a, <3>m
    <3>3. (s \o t)[m+k] = t[k]
      BY <3>2, <3>b DEF st
    <3>4. QED
      BY <1>1, <3>1, <3>2, <3>3 DEF EmptiesIn
  <2>4. QED
    BY <2>1, <2>2, <2>3
<1> HIDE DEF A, B
<1> DEFINE f == [k \in B |-> m+k]
<1>4. f \in Bijection(B, C)
  <2>1. f \in [B -> C]
    OBVIOUS
  <2>2. \A j, k \in B : f[j] = f[k] => j = k
    BY <1>1, <1>2
  <2>3. \A c \in C : \E k \in B : f[k] = c
    OBVIOUS
  <2> HIDE DEF f, C
  <2>4. f \in Injection(B, C)
    BY <2>1, <2>2, Zenon DEF Injection, IsInjective
  <2>5. f \in Surjection(B, C)
    BY <2>1, <2>3, Zenon DEF Surjection
  <2>6. QED
    BY <2>4, <2>5 DEF Bijection
<1>5. IsFiniteSet(C) /\ Cardinality(C) = Cardinality(B)
  <2> HIDE DEF f, C
  <2>1. QED
    BY <1>2, <1>4, FS_Bijection DEF ExistsBijection
<1>6. A \cap C = {}
  BY <1>1, <1>2
<1> HIDE DEF C
<1>7. Cardinality(A \cup C) = Cardinality(A) + Cardinality(C) - Cardinality(A \cap C)
  BY <1>2, <1>5, FS_Union
<1>8. Cardinality(A \cap C) = 0
  BY <1>6, FS_EmptySet
<1>9. QED
  BY <1>2, <1>3, <1>5, <1>7, <1>8 DEF Empties, A, B

\* The characters of lines of that many words.
CharsOf(l) == 2 * WordsOf(l) + Empties(l)

LEMMA CharsAppend ==
  ASSUME NEW s \in Seq(TextLines), NEW e \in TextLines
  PROVE  /\ CharsOf(Append(s, e)) = CharsOf(s) + Chars(e.words)
         /\ CharsOf(s) \in Nat
<1>1. Len(e.words) \in Nat /\ (e.words = <<>> <=> Len(e.words) = 0)
  BY LenProperties, EmptySeq DEF TextLines
<1>2. WordsOf(s) \in Nat /\ Empties(s) \in Nat
  BY EmptiesAre, WordsConcat
<1>3. /\ WordsOf(Append(s, e)) = WordsOf(s) + Len(e.words)
      /\ Empties(Append(s, e)) = Empties(s) + EmptyLine(e)
  BY WordsAppend, EmptiesAppend
<1>4. Chars(e.words) = 2 * Len(e.words) + EmptyLine(e)
  <2> DEFINE n == Len(e.words)
  <2>1. CASE n = 0
    <3>1. Chars(e.words) = 1 /\ EmptyLine(e) = 1
      BY <1>1, <2>1 DEF Chars, EmptyLine
    <3>2. QED
      BY <2>1, <3>1
  <2>2. CASE n # 0
    <3>1. Chars(e.words) = 2 * n /\ EmptyLine(e) = 0
      BY <1>1, <2>2 DEF Chars, EmptyLine
    <3> HIDE DEF n
    <3>2. 2 * n = 2 * n + 0
      BY <1>1 DEF n
    <3>3. QED
      BY <3>1, <3>2 DEF n
  <2>3. QED
    BY <2>1, <2>2
<1>5. EmptyLine(e) \in Nat
  BY DEF EmptyLine
<1>6. QED
  BY <1>1, <1>2, <1>3, <1>4, <1>5 DEF CharsOf

\* The words and characters of the lines read are in the totals.
TotalInv ==
  \A i \in Worker : /\ \A n \in 1..Len(lines[i]) : lines[i][n] = Lines(i)[n]
                    /\ totals[i].words = WordsOf(lines[i])
                    /\ totals[i].chars = CharsOf(lines[i])

LEMMA TotalInit == Init => TotalInv
<1> SUFFICES ASSUME Init PROVE TotalInv
  OBVIOUS
<1>1. ASSUME NEW i \in Worker PROVE lines[i] = <<>> /\ totals[i].words = 0 /\ totals[i].chars = 0
  BY DEF Init
<1>2. Len(<<>>) = 0
  OBVIOUS
<1>3. QED
  BY <1>1, <1>2, NoWords, NoEmpties DEF TotalInv, CharsOf

LEMMA TotalStep ==
  ASSUME LoadInv, TotalInv, [Next]_vars
  PROVE  TotalInv'
<1>1. ASSUME NEW i \in Worker, ReadLine(i) PROVE TotalInv'
  <2> DEFINE l == Lines(i)
             m == Len(lines[i])
             line == l[m+1]
  <2>1. /\ corpus \in Corpora /\ m \in 0..Len(l)
        /\ lines \in [Worker -> Seq(TextLines)]
        /\ totals \in [Worker -> [chars : Nat, words : Nat, lines : Nat]]
    BY DEF LoadInv, TextLines
  <2>2. /\ m # Len(l) /\ corpus' = corpus
        /\ lines' = [lines EXCEPT ![i] = Append(@, line)]
        /\ totals' = [totals EXCEPT ![i] =
             [chars |-> @.chars + Chars(line.words), words |-> @.words + Len(line.words),
              lines |-> @.lines + 1]]
    BY <1>1 DEF ReadLine, Loaded
  <2>3. \A j \in Worker : Lines(j)' = Lines(j)
    BY <2>2 DEF Lines
  <2>4. /\ l \in Seq(TextLine(Len(corpus[i]))) /\ Len(l) \in Nat
        /\ line.file \in Nat /\ line.words \in Seq(Word) /\ m \in Nat
    <3>1. m+1 \in 1..Len(l) /\ m \in Nat
      BY <2>1, <2>2, LinesAre
    <3>2. QED
      BY <2>1, <3>1, LinesAre
  <2>5. line \in TextLines
    <3>1. m+1 \in 1..Len(l)
      BY <2>1, <2>2, <2>4
    <3>2. l[m+1] \in TextLine(Len(corpus[i]))
      BY <2>4, <3>1, ElementOfSeq
    <3>3. QED
      BY <2>4, <3>2 DEF TextLine, TextLines
  <2>l. line = Lines(i)[m+1]
    OBVIOUS
  <2> HIDE DEF line, l
  <2>6. /\ lines[i] \in Seq(TextLines) /\ lines'[i] = Append(lines[i], line)
        /\ totals'[i].words = totals[i].words + Len(line.words)
        /\ totals'[i].chars = totals[i].chars + Chars(line.words)
        /\ \A j \in Worker : j # i => lines'[j] = lines[j] /\ totals'[j] = totals[j]
    BY <2>1, <2>2
  <2>7. /\ Len(lines'[i]) = m+1 /\ \A n \in 1..m : lines'[i][n] = lines[i][n]
        /\ lines'[i][m+1] = line
    BY <2>4, <2>5, <2>6, AppendProperties
  <2>8. \A n : n \in 1..m+1 <=> n \in 1..m \/ n = m+1
    BY <2>4
  <2>9. \A n \in 1..Len(lines'[i]) : lines'[i][n] = Lines(i)[n]
    BY <2>7, <2>8, <2>l DEF TotalInv
  <2>10. totals'[i].words = WordsOf(lines'[i]) /\ totals'[i].chars = CharsOf(lines'[i])
    BY <2>5, <2>6, WordsAppend, CharsAppend DEF TotalInv
  <2>11. ASSUME NEW j \in Worker
         PROVE  /\ \A n \in 1..Len(lines'[j]) : lines'[j][n] = Lines(j)[n]
                /\ totals'[j].words = WordsOf(lines'[j])
                /\ totals'[j].chars = CharsOf(lines'[j])
    <3>1. CASE j = i
      BY <2>9, <2>10, <3>1
    <3>2. CASE j # i
      BY <2>6, <3>2 DEF TotalInv
    <3>3. QED
      BY <3>1, <3>2
  <2>12. QED
    BY <2>3, <2>11 DEF TotalInv
<1>2. CASE UNCHANGED <<corpus, trie, lines, totals>>
  BY <1>2 DEF TotalInv, Lines
<1>3. QED
  BY <1>1, <1>2 DEF Next, Send, PrintAnswers, Handle, vars, worker

\* What TotalsAreSums says of totals printed.
SumsOf(text) ==
  LET all == FlattenSeq([i \in Worker |-> Lines(i)])
  IN /\ text.lines = Len(all) /\ text.words = WordsOf(all)
     /\ text.chars = 2 * text.words + Empties(all)

TotalType == [chars : Nat, words : Nat, lines : Nat]

NoTotals == [chars |-> 0, words |-> 0, lines |-> 0]

LEMMA SumsFold ==
  ASSUME NEW r \in Seq(TotalType)
  PROVE  \E h \in [0..Len(r) -> TotalType] :
           /\ h[0] = NoTotals /\ h[Len(r)] = Sums(r)
           /\ \A k \in 0..Len(r)-1 : h[k+1] = AddUp(h[k], r[k+1])
<1>1. Sums(r) = Totals(r, NoTotals)
  BY DEF Sums, Totals, AddUp, NoTotals
<1>2. NoTotals \in TotalType
  BY DEF NoTotals, TotalType
<1>3. TotalsWithin(TotalType, r)
  <2>1. ASSUME NEW v \in TotalType, NEW k \in 1..Len(r) PROVE AddUp(v, r[k]) \in TotalType
    <3>1. r[k] \in TotalType
      BY ElementOfSeq
    <3>2. /\ v.chars \in Nat /\ v.words \in Nat /\ v.lines \in Nat
          /\ r[k].chars \in Nat /\ r[k].words \in Nat /\ r[k].lines \in Nat
      BY <3>1 DEF TotalType
    <3> DEFINE x == v.chars + r[k].chars
               y == v.words + r[k].words
               z == v.lines + r[k].lines
    <3>3. x \in Nat /\ y \in Nat /\ z \in Nat
      <4>1. \A m, n \in Nat : m+n \in Nat
        OBVIOUS
      <4>2. QED
        BY <3>2, <4>1, Zenon
    <3>4. AddUp(v, r[k]) = [chars |-> x, words |-> y, lines |-> z]
      BY Zenon DEF AddUp
    <3> HIDE DEF x, y, z
    <3>5. QED
      BY <3>3, <3>4, SMT DEF TotalType
  <2>2. QED
    BY <2>1 DEF TotalsWithin
<1>4. QED
  BY <1>1, <1>2, <1>3, TotalsFold

LEMMA PrintSums ==
  ASSUME LoadInv, TotalInv, \A i \in Worker : Loaded(i),
         NEW r \in Seq(TotalType), Len(r) = N,
         \A i \in Worker : r[i] = totals[i]
  PROVE  SumsOf(Sums(r))
<1> DEFINE S == TextLines
           seqs == [i \in Worker |-> Lines(i)]
<1>1. N \in Nat /\ Worker = 1..N
  BY CountingAssumption DEF Worker
<1>2. ASSUME NEW i \in Worker
      PROVE  /\ Lines(i) \in Seq(S)
             /\ totals[i].lines = Len(Lines(i)) /\ totals[i].words = WordsOf(Lines(i))
             /\ totals[i].chars = CharsOf(Lines(i))
  <2>1. /\ Lines(i) \in Seq(TextLine(Len(corpus[i]))) /\ Len(Lines(i)) \in Nat
        /\ \A n \in 1..Len(Lines(i)) : /\ Lines(i)[n].file \in Nat
                                       /\ Lines(i)[n].words \in Seq(Word)
    BY LinesAre DEF LoadInv
  <2>2. /\ lines[i] \in Seq(S) /\ Len(lines[i]) = Len(Lines(i))
        /\ \A n \in 1..Len(lines[i]) : lines[i][n] = Lines(i)[n]
        /\ totals[i].lines = Len(lines[i]) /\ totals[i].words = WordsOf(lines[i])
        /\ totals[i].chars = CharsOf(lines[i])
    BY DEF LoadInv, TotalInv, Loaded, TextLines
  <2>3. lines[i] = Lines(i)
    <3> DEFINE a == lines[i]
               b == Lines(i)
               T == TextLine(Len(corpus[i]))
               n == Len(b)
    <3>1. a \in Seq(S) /\ b \in Seq(T) /\ Len(a) = n /\ n \in Nat /\ \A k \in 1..n : a[k] = b[k]
      BY <2>1, <2>2
    <3> HIDE DEF a, b, S, T
    <3>2. a = [k \in 1..n |-> a[k]] /\ b = [k \in 1..n |-> b[k]]
      <4>1. a \in [1..n -> S] /\ b \in [1..n -> T]
        BY <3>1
      <4>2. QED
        BY <4>1
    <3>3. a = b
      <4> HIDE DEF n
      <4>1. QED
        BY <3>1, <3>2
    <3>4. QED
      BY <3>3 DEF a, b
  <2>4. QED
    BY <2>2, <2>3
<1>3. seqs \in Seq(Seq(S)) /\ Len(seqs) = N /\ \A i \in 1..N : seqs[i] = Lines(i)
  <2> DEFINE Q == Seq(S)
  <2> HIDE DEF S, Q
  <2>1. \A i \in Worker : Lines(i) \in Q
    BY <1>2 DEF Q
  <2>2. seqs \in [1..N -> Q] /\ \A i \in 1..N : seqs[i] = Lines(i)
    BY <1>1, <2>1
  <2> HIDE DEF seqs
  <2>3. seqs \in Seq(Q) /\ Len(seqs) = N
    BY <1>1, <2>2
  <2>4. QED
    BY <2>2, <2>3 DEF Q
<1>s. SumsOf(Sums(r)) <=> /\ Sums(r).lines = Len(FlattenSeq(seqs))
                          /\ Sums(r).words = WordsOf(FlattenSeq(seqs))
                          /\ Sums(r).chars = 2 * Sums(r).words + Empties(FlattenSeq(seqs))
  BY DEF SumsOf
<1> HIDE DEF S, seqs
<1>4. PICK g \in [0..N -> Seq(S)] :
        /\ g[0] = <<>> /\ g[N] = FlattenSeq(seqs)
        /\ \A k \in 0..N-1 : g[k+1] = g[k] \o Lines(k+1)
  <2>1. PICK g \in [0..N -> Seq(S)] :
          /\ g[0] = <<>> /\ g[N] = FlattenSeq(seqs)
          /\ \A k \in 0..N-1 : g[k+1] = g[k] \o seqs[k+1]
    <3>1. \E g \in [0..Len(seqs) -> Seq(S)] :
            /\ g[0] = <<>> /\ g[Len(seqs)] = FlattenSeq(seqs)
            /\ \A k \in 0..Len(seqs)-1 : g[k+1] = g[k] \o seqs[k+1]
      BY <1>3, FlattenFolds
    <3>2. QED
      BY <1>3, <3>1
  <2>2. \A k \in 0..N-1 : k+1 \in 1..N
    BY <1>1
  <2>3. QED
    BY <1>3, <2>1, <2>2
<1>5. PICK h \in [0..N -> TotalType] :
        /\ h[0] = NoTotals /\ h[N] = Sums(r)
        /\ \A k \in 0..N-1 : h[k+1] = AddUp(h[k], r[k+1])
  BY SumsFold
<1> DEFINE Good(k) == /\ h[k].lines = Len(g[k]) /\ h[k].words = WordsOf(g[k])
                      /\ h[k].chars = CharsOf(g[k])
           U == {k \in Nat : k <= N => Good(k)}
<1>9. 0 \in U
  <2>1. Len(<<>>) = 0
    OBVIOUS
  <2>2. QED
    BY <1>4, <1>5, <2>1, NoWords, NoEmpties DEF NoTotals, CharsOf
<1>10. ASSUME NEW k \in Nat, k \in U PROVE k+1 \in U
  <2>1. SUFFICES ASSUME k+1 <= N PROVE Good(k+1)
    OBVIOUS
  <2>2. k \in 0..N-1 /\ k+1 \in Worker /\ k+1 \in 1..N /\ k <= N /\ k \in 0..N
    BY <1>1, <2>1
  <2>3. Good(k)
    BY <1>10, <2>2
  <2> HIDE DEF U
  <2> DEFINE s == g[k]
             t == Lines(k+1)
  <2>4. s \in Seq(S) /\ t \in Seq(S) /\ g[k+1] = s \o t
    BY <1>2, <1>4, <2>2
  <2>5. /\ h[k+1].lines = h[k].lines + totals[k+1].lines
        /\ h[k+1].words = h[k].words + totals[k+1].words
        /\ h[k+1].chars = h[k].chars + totals[k+1].chars
    <3>1. h[k+1] = AddUp(h[k], r[k+1]) /\ r[k+1] = totals[k+1]
      BY <1>5, <2>2
    <3>2. QED
      BY <3>1 DEF AddUp
  <2>6. /\ h[k].lines = Len(s) /\ h[k].words = WordsOf(s)
        /\ h[k].chars = CharsOf(s) /\ totals[k+1].chars = CharsOf(t)
        /\ totals[k+1].lines = Len(t) /\ totals[k+1].words = WordsOf(t)
    BY <1>2, <2>2, <2>3
  <2>7. Good(k+1) <=> /\ h[k+1].lines = Len(s \o t) /\ h[k+1].words = WordsOf(s \o t)
                      /\ h[k+1].chars = CharsOf(s \o t)
    BY <2>4
  <2> HIDE DEF s, t, Good
  <2>8. Len(s \o t) = Len(s) + Len(t) /\ WordsOf(s \o t) = WordsOf(s) + WordsOf(t)
    BY <2>4, ConcatProperties, WordsConcat DEF S
  <2>c. CharsOf(s \o t) = CharsOf(s) + CharsOf(t)
    <3>1. /\ WordsOf(s) \in Nat /\ WordsOf(t) \in Nat /\ Empties(s) \in Nat /\ Empties(t) \in Nat
          /\ Empties(s \o t) = Empties(s) + Empties(t)
      BY <2>4, WordsConcat, EmptiesAre, EmptiesConcat DEF S
    <3>2. QED
      BY <2>8, <3>1 DEF CharsOf
  <2>9. QED
    BY <2>5, <2>6, <2>7, <2>8, <2>c
<1>11. N \in U /\ N <= N
  <2> HIDE DEF U
  <2>1. Nat \subseteq U
    BY <1>9, <1>10, Induction
  <2>2. QED
    BY <1>1, <2>1
<1>12. Good(N)
  BY <1>11
<1>13. Sums(r).chars = 2 * Sums(r).words + Empties(FlattenSeq(seqs))
  BY <1>4, <1>5, <1>12 DEF CharsOf
<1>14. QED
  BY <1>s, <1>4, <1>5, <1>12, <1>13

-----------------------------------------------------------------------------
(* What /maxcount, /mincount and /wc print.                                *)

LEMMA OneAnswerEach ==
  ASSUME NEW S, NEW a, \A i \in Worker : a[i] \in S /\ answers[i] = <<a[i]>>
  PROVE  LET r == FlattenSeq([i \in Worker |-> answers[i]])
         IN  r \in Seq(S) /\ Len(r) = N /\ \A i \in Worker : r[i] = a[i]
<1> DEFINE seqs == [i \in Worker |-> answers[i]]
           Q == Seq(S)
<1>1. N \in Nat /\ Worker = 1..N
  BY CountingAssumption DEF Worker
<1>2. ASSUME NEW i \in 1..N PROVE answers[i] \in Q
  <2>1. a[i] \in S /\ answers[i] = <<a[i]>>
    BY <1>1
  <2>2. QED
    BY <2>1
<1> HIDE DEF Q
<1>3. seqs \in [1..N -> Q] /\ \A i \in 1..N : seqs[i] = answers[i]
  BY <1>1, <1>2
<1> HIDE DEF seqs
<1>4. seqs \in Seq(Q) /\ Len(seqs) = N
  BY <1>1, <1>3
<1>5. seqs \in Seq(Seq(S)) /\ \A k \in 1..Len(seqs) : a[k] \in S /\ seqs[k] = <<a[k]>>
  BY <1>1, <1>3, <1>4 DEF Q
<1>6. /\ FlattenSeq(seqs) \in Seq(S) /\ Len(FlattenSeq(seqs)) = Len(seqs)
      /\ \A k \in 1..Len(seqs) : FlattenSeq(seqs)[k] = a[k]
  BY <1>5, FlattenSingles
<1>7. QED
  BY <1>1, <1>4, <1>6 DEF seqs

\* The properties, of documents c.
DocumentIn(c) == UNION {{<<i, f-1>> : f \in DOMAIN c[i]} : i \in Worker}

OccurrencesIn(c, d, w) ==
  LET file == c[d[1]][d[2]+1]
  IN Cardinality({p \in UNION {{<<n, k>> : k \in DOMAIN file[n]} : n \in DOMAIN file} :
                    file[p[1]][p[2]] = w})

HoldersIn(c, w) == {d[1] : d \in {e \in DocumentIn(c) : OccurrencesIn(c, e, w) > 0}}

AllFitIn(c) == \A i \in Worker : \A n \in DOMAIN LinesIn(c, i) :
                 FitsInt(<<i, LinesIn(c, i)[n].file, n-1>>)

MostIn(c, text, w) ==
  IF HoldersIn(c, w) = {}
  THEN text = [path |-> Empty, count |-> 0]
  ELSE /\ text.path \in DocumentIn(c)
       /\ text.count = OccurrencesIn(c, text.path, w)
       /\ \A d \in DocumentIn(c) : OccurrencesIn(c, d, w) <= text.count

LeastIn(c, text, w) ==
  LET counted == {d \in DocumentIn(c) : d[1] \in HoldersIn(c, w)}
  IN IF counted = {}
     THEN text = [path |-> Empty, count |-> 0]
     ELSE /\ text.path \in counted
          /\ text.count = OccurrencesIn(c, text.path, w)
          /\ \A d \in counted : OccurrencesIn(c, d, w) >= text.count

SumsIn(c, text) ==
  LET all == FlattenSeq([i \in Worker |-> LinesIn(c, i)])
  IN /\ text.lines = Len(all) /\ text.words = WordsOf(all)
     /\ text.chars = 2 * text.words + Empties(all)

CountsIn(c, s) ==
  /\ s.command = "maxcount" /\ AllFitIn(c) => MostIn(c, s.text, Head(s.typed))
  /\ s.command = "mincount" /\ AllFitIn(c) => LeastIn(c, s.text, Head(s.typed))
  /\ s.command = "wc" => SumsIn(c, s.text)

LEMMA OccurrencesAre ==
  /\ Document = DocumentIn(corpus)
  /\ \A d, w : Occurrences(d, w) = OccurrencesIn(corpus, d, w)
  /\ \A w : Holders(w) = HoldersIn(corpus, w)
  /\ AllFit <=> AllFitIn(corpus)
  /\ \A i : Lines(i) = LinesIn(corpus, i)
<1>1. Document = DocumentIn(corpus)
  BY DEF Document, DocumentIn
<1>2. \A d, w : Occurrences(d, w) = OccurrencesIn(corpus, d, w)
  BY DEF Occurrences, OccurrencesIn
<1>3. \A i : Lines(i) = LinesIn(corpus, i)
  BY DEF Lines, LinesIn
<1>4. AllFit <=> AllFitIn(corpus)
  BY <1>3 DEF AllFit, AllFitIn
<1>5. \A w : Holders(w) = HoldersIn(corpus, w)
  BY <1>1, <1>2 DEF Holders, HoldersIn
<1>6. QED
  BY <1>1, <1>2, <1>3, <1>4, <1>5

LEMMA CountsAre ==
  /\ CountsAreRight <=> CountsIn(corpus, shown)
  /\ \A text, w : /\ MostFrequent(text, w) <=> MostIn(corpus, text, w)
                  /\ LeastFrequent(text, w) <=> LeastIn(corpus, text, w)
  /\ \A text : SumsOf(text) <=> SumsIn(corpus, text)
<1>1. \A text, w : /\ MostFrequent(text, w) <=> MostIn(corpus, text, w)
                   /\ LeastFrequent(text, w) <=> LeastIn(corpus, text, w)
  BY OccurrencesAre DEF MostFrequent, MostIn, LeastFrequent, LeastIn
<1>2. \A text : SumsOf(text) <=> SumsIn(corpus, text)
  BY OccurrencesAre DEF SumsOf, SumsIn
<1>3. MaxCountIsMax
        <=> (shown.command = "maxcount" /\ AllFit => MostFrequent(shown.text, Head(shown.typed)))
  BY DEF MaxCountIsMax, MostFrequent
<1>4. MinCountOfHolders
        <=> (shown.command = "mincount" /\ AllFit => LeastFrequent(shown.text, Head(shown.typed)))
  BY DEF MinCountOfHolders, LeastFrequent
<1>5. TotalsAreSums <=> (shown.command = "wc" => SumsOf(shown.text))
  BY DEF TotalsAreSums, SumsOf, WordsOf, TextOf, Empties, EmptiesIn
<1>6. QED
  BY <1>1, <1>2, <1>3, <1>4, <1>5, OccurrencesAre DEF CountsAreRight, CountsIn

LEMMA CountsAreNext == CountsAreRight' <=> CountsIn(corpus', shown')
<1>1. CountsAreRight <=> CountsIn(corpus, shown)
  BY CountsAre
<1>2. CountsIn(corpus, shown)' <=> CountsIn(corpus', shown')
  OBVIOUS
<1>3. QED
  BY <1>1, <1>2, PTL

\* No document has a word as often as minCount and mincount take for more than
\* anything.
FewOccurrences ==
  \A c \in Corpora : \A w \in Word :
    \A d \in DocumentIn(c) : OccurrencesIn(c, d, w) < MasterMin

LEMMA CountsStep ==
  ASSUME FewOccurrences, LoadInv, AskInv, TotalInv, CountsAreRight, [Next]_vars
  PROVE  CountsAreRight'
<1>1. corpus' = corpus
  BY DEF Next, Send, PrintAnswers, ReadLine, Handle, vars
<1>2. CASE PrintAnswers
  <2> DEFINE r == FlattenSeq([i \in Worker |-> answers[i]])
             w == Head(buffer)
  <2>1. /\ command # None /\ \A i \in Worker : answers[i] # <<>>
        /\ shown'.command = command /\ shown'.typed = buffer
        /\ command = "maxcount" => shown'.text = Greatest(r)
        /\ command = "mincount" => shown'.text = Least(r)
        /\ command = "wc" => shown'.text = Sums(r)
    BY <1>2 DEF PrintAnswers
  <2>2. /\ w \in Word
        /\ \A i \in Worker : Loaded(i)
        /\ \A i \in Worker :
             /\ command = "maxcount" => answers[i] = <<MaxCount(i, w)>>
             /\ command = "mincount" => answers[i] = <<MinCount(i, w)>>
             /\ command = "wc" => answers[i] = <<totals[i]>>
    <3>q. command # "search" => query = buffer
      BY <2>1, SentIs DEF AskInv
    <3>1. w \in Word
      <4>1. buffer \in Seq(Word) /\ buffer # <<>>
        BY CountingAssumption DEF AskInv
      <4>2. QED
        BY <4>1
    <3> HIDE DEF w
    <3>2. \A i \in Worker : Loaded(i) /\ answers[i] = AnswerOf(i)
      BY <2>1 DEF AskInv
    <3>3. QED
      BY <3>1, <3>2, <3>q DEF AnswerOf, w
  <2>3. Countable(w)
    BY <2>2, OccurrencesAre DEF FewOccurrences, Countable, LoadInv
  <2> HIDE DEF r, w
  <2>4. ASSUME command = "maxcount", AllFit PROVE MostFrequent(Greatest(r), w)
    <3> DEFINE a == [i \in Worker |-> MaxCount(i, w)]
    <3>1. \A i \in Worker : a[i] = MaxCount(i, w) /\ a[i] \in Answer /\ answers[i] = <<a[i]>>
      BY <2>2, <2>4, WorkerMax DEF Speaks
    <3> HIDE DEF a
    <3>2. r \in Seq(Answer) /\ Len(r) = N /\ \A i \in Worker : r[i] = a[i]
      BY <3>1, OneAnswerEach DEF r
    <3>3. QED
      BY <2>2, <2>4, <3>1, <3>2, PrintMax
  <2>5. ASSUME command = "mincount", AllFit PROVE LeastFrequent(Least(r), w)
    <3> DEFINE a == [i \in Worker |-> MinCount(i, w)]
    <3>1. \A i \in Worker : a[i] = MinCount(i, w) /\ a[i] \in Answer /\ answers[i] = <<a[i]>>
      BY <2>2, <2>3, <2>5, WorkerMinIs DEF Speaks
    <3> HIDE DEF a
    <3>2. r \in Seq(Answer) /\ Len(r) = N /\ \A i \in Worker : r[i] = a[i]
      BY <3>1, OneAnswerEach DEF r
    <3>3. QED
      BY <2>2, <2>3, <2>5, <3>1, <3>2, PrintMin
  <2>6. ASSUME command = "wc" PROVE SumsOf(Sums(r))
    <3>1. \A i \in Worker : totals[i] \in TotalType /\ answers[i] = <<totals[i]>>
      BY <2>2, <2>6 DEF LoadInv, TotalType
    <3>2. r \in Seq(TotalType) /\ Len(r) = N /\ \A i \in Worker : r[i] = totals[i]
      BY <3>1, OneAnswerEach DEF r
    <3>3. QED
      BY <2>2, <3>2, PrintSums
  <2>7. CountsIn(corpus, shown')
    BY <2>1, <2>4, <2>5, <2>6, CountsAre, OccurrencesAre DEF CountsIn, w
  <2>8. QED
    BY <1>1, <2>7, CountsAreNext
<1>3. CASE shown' = shown
  BY <1>1, <1>3, CountsAre, CountsAreNext
<1>4. QED
  BY <1>2, <1>3 DEF Next, Send, ReadLine, Handle, vars, master

-----------------------------------------------------------------------------
(* The theorems.                                                            *)

\* What is loaded into the index and what is answered, along every behavior.
THEOREM CountingInvariant == Spec => [](LoadInv /\ AskInv)
<1>1. Init => LoadInv /\ AskInv
  BY LoadInit, AskInit
<1>2. LoadInv /\ AskInv /\ [Next]_vars => (LoadInv /\ AskInv)'
  BY LoadStep, AskStep
<1>3. QED
  BY <1>1, <1>2, PTL DEF Spec

\* /search prints each line of the corpus that has one of the words searched,
\* which are those up to the first hyphen of the query, and a number that int
\* can hold, and no line twice, for any number of workers, any documents and any
\* queries, with hyphens or without (jobExecutor_main.cpp, worker_main.cpp,
\* Trie.cpp: search).
THEOREM LinesAreFound == Spec => []SearchFindsLines
<1>1. Init => SearchFindsLines
  BY SearchInit
<1>2. LoadInv /\ AskInv /\ SearchFindsLines /\ [Next]_vars => SearchFindsLines'
  BY SearchStep
<1>3. QED
  BY <1>1, <1>2, CountingInvariant, PTL DEF Spec

\* No list of a worker is written past its end, those of fileCounter with
\* exactly one place per file included (List.cpp: append, update).
THEOREM CountTypes == Spec => []TypeOK
<1>1. LoadInv /\ AskInv => TypeOK
  BY TypesFollow
<1>2. QED
  BY <1>1, CountingInvariant, PTL

\* /maxcount and /wc (its lines, words and characters) print what a count over
\* all documents gives, and /mincount what a count over the documents of the
\* workers that have the word gives (not over all, which README.md:8-9 of the
\* program promise); /maxcount and /mincount as long as the numbers of the
\* lines fit into int.  This is so for any number of workers and any documents,
\* however they are distributed, in which no word occurs 99999 times
\* (worker_main.cpp: maxcount, mincount, wc; jobExecutor_main.cpp: maxCount,
\* minCount, wc).
THEOREM CountsMatchTexts ==
  ASSUME FewOccurrences
  PROVE  Spec => []CountsAreRight
<1>1. Init => TotalInv /\ CountsAreRight
  <2>1. Init => CountsAreRight
    BY DEF Init, CountsAreRight, MaxCountIsMax, MinCountOfHolders, TotalsAreSums, None
  <2>2. QED
    BY <2>1, TotalInit
<1>2. LoadInv /\ TotalInv /\ [Next]_vars => TotalInv'
  BY TotalStep
<1>3. LoadInv /\ AskInv /\ TotalInv /\ CountsAreRight /\ [Next]_vars => CountsAreRight'
  BY CountsStep
<1>4. QED
  BY <1>1, <1>2, <1>3, CountingInvariant, PTL DEF Spec
=============================================================================
