------------------------- MODULE SearchEngineProofs -------------------------
(***************************************************************************)
(* The search engine, for every file, every query, any scores and any      *)
(* width of the console: that the index is exact, that a search finds and  *)
(* shows what it should, and where the marks are; and the result of        *)
(* quickSort, for lists of every length and any scores.                    *)
(***************************************************************************)
EXTENDS SearchEngine, IndexProofs

-----------------------------------------------------------------------------
(* Lists of results, and what a swap does to them.                         *)

\* A list of n results, numbered from 0.
IsList(f, n) == /\ f = [k \in 0..n-1 |-> f[k]]
                /\ \A k \in 0..n-1 : f[k].score \in Int

\* How often a result is in it.
Copies(f, r) == Cardinality({k \in DOMAIN f : f[k] = r})

LEMMA SwapFacts ==
  ASSUME NEW n \in Nat, NEW f, IsList(f, n), NEW a \in 0..n-1, NEW b \in 0..n-1
  PROVE  /\ IsList(Swap(f, a, b), n)
         /\ Swap(f, a, b)[a] = f[b] /\ Swap(f, a, b)[b] = f[a]
         /\ \A k \in 0..n-1 : k # a /\ k # b => Swap(f, a, b)[k] = f[k]
         /\ DOMAIN f = 0..n-1 /\ DOMAIN Swap(f, a, b) = 0..n-1
<1>1. DOMAIN f = 0..n-1 /\ f = [k \in 0..n-1 |-> f[k]]
  BY DEF IsList
<1>2. Swap(f, a, b) = [k \in 0..n-1 |-> IF k = b THEN f[a] ELSE IF k = a THEN f[b] ELSE f[k]]
  BY <1>1 DEF Swap
<1>3. QED
  BY <1>1, <1>2 DEF IsList

LEMMA SwapCounts ==
  ASSUME NEW n \in Nat, NEW f, IsList(f, n), NEW a \in 0..n-1, NEW b \in 0..n-1, NEW r
  PROVE  Copies(Swap(f, a, b), r) = Copies(f, r)
<1> DEFINE g == Swap(f, a, b)
           A == {k \in DOMAIN f : f[k] = r}
           B == {k \in DOMAIN g : g[k] = r}
<1>1. /\ g[a] = f[b] /\ g[b] = f[a] /\ \A k \in 0..n-1 : k # a /\ k # b => g[k] = f[k]
      /\ DOMAIN f = 0..n-1 /\ DOMAIN g = 0..n-1
  BY SwapFacts
<1>s. SUFFICES Cardinality(B) = Cardinality(A)
  BY DEF Copies
<1> HIDE DEF g
<1>2. IsFiniteSet(A) /\ Cardinality(A) \in Nat
  <2>1. IsFiniteSet(0..n-1) /\ A \in SUBSET (0..n-1)
    BY <1>1, FS_Interval
  <2>2. QED
    BY <2>1, FS_Subset, FS_CardinalityType
<1>3. CASE f[a] = f[b]
  <2>1. \A k \in 0..n-1 : g[k] = f[k]
    BY <1>1, <1>3
  <2>2. B = A
    BY <1>1, <2>1
  <2>3. QED
    BY <2>2
<1>4. CASE f[a] = r /\ f[b] # r
  <2>1. B = (A \ {a}) \cup {b} /\ a \in A /\ b \notin A \ {a}
    BY <1>1, <1>4
  <2>2. QED
    <3> HIDE DEF A, B
    <3>1. /\ IsFiniteSet(A \ {a}) /\ Cardinality(A \ {a}) = Cardinality(A) - 1
          /\ Cardinality((A \ {a}) \cup {b}) = Cardinality(A \ {a}) + 1
      BY <1>2, <2>1, FS_RemoveElement, FS_AddElement
    <3>2. QED
      BY <1>2, <2>1, <3>1
<1>5. CASE f[b] = r /\ f[a] # r
  <2>1. B = (A \ {b}) \cup {a} /\ b \in A /\ a \notin A \ {b}
    BY <1>1, <1>5
  <2>2. QED
    <3> HIDE DEF A, B
    <3>1. /\ IsFiniteSet(A \ {b}) /\ Cardinality(A \ {b}) = Cardinality(A) - 1
          /\ Cardinality((A \ {b}) \cup {a}) = Cardinality(A \ {b}) + 1
      BY <1>2, <2>1, FS_RemoveElement, FS_AddElement
    <3>2. QED
      BY <1>2, <2>1, <3>1
<1>6. CASE f[a] # r /\ f[b] # r
  <2>1. B = A
    BY <1>1, <1>6
  <2>2. QED
    BY <2>1
<1>7. QED
  BY <1>3, <1>4, <1>5, <1>6

-----------------------------------------------------------------------------
(* The inductive invariant.                                                *)

Frame == [low : Int, high : Int, i : Int, j : Int, pivot : Int]

\* The calls still to be made are for parts of the list, from left to right.
CallsInv(n) ==
  /\ calls \in Seq([low : Int, high : Int])
  /\ \A c \in 1..Len(calls) :
       0 <= calls[c].low /\ calls[c].low <= calls[c].high + 1 /\ calls[c].high < n
  /\ \A c, d \in 1..Len(calls) : c < d => calls[c].high < calls[d].low

\* The loop of partition is in a part to the left of all of them; up to i are
\* scores greater than the pivot's, from there up to j the others.
FrameInv(n) ==
  /\ frame \in Frame
  /\ frame # Idle =>
       /\ 0 <= frame.low /\ frame.low < frame.high /\ frame.high < n
       /\ frame.low - 1 <= frame.i /\ frame.i < frame.j /\ frame.j <= frame.high
       /\ frame.pivot = list[frame.high].score
       /\ \A x \in frame.low .. frame.i : list[x].score > frame.pivot
       /\ \A x \in frame.i + 1 .. frame.j - 1 : list[x].score <= frame.pivot
       /\ \A c \in 1..Len(calls) : frame.high < calls[c].low

\* The places a and b are in one part that is still to be sorted.
InFrame(a, b) == frame # Idle /\ frame.low <= a /\ b <= frame.high
InCall(a, b) == \E c \in 1..Len(calls) : calls[c].low <= a /\ b <= calls[c].high

\* What is not in one part is in order already.
Ordered(n) ==
  \A a, b \in 0..n-1 :
    a < b /\ ~InFrame(a, b) /\ ~InCall(a, b) => list[a].score >= list[b].score

SameCounts == \A r : Copies(list, r) = Copies(input, r)

SortInv(n) == /\ n \in Nat /\ IsList(list, n) /\ IsList(input, n) /\ SameCounts
              /\ CallsInv(n) /\ FrameInv(n) /\ Ordered(n)

\* One call for the whole list.
Starts(n) == /\ n \in Nat /\ IsList(list, n) /\ input = list
             /\ calls = <<[low |-> 0, high |-> n-1]>> /\ frame = Idle

LEMMA SortStarts == ASSUME NEW n, Starts(n) PROVE SortInv(n)
<1>1. n \in Nat /\ IsList(list, n) /\ IsList(input, n) /\ SameCounts
  BY DEF Starts, SameCounts
<1>2. calls = <<[low |-> 0, high |-> n-1]>> /\ frame = Idle
  BY DEF Starts
<1>3. Len(calls) = 1 /\ calls[1] = [low |-> 0, high |-> n-1]
  BY <1>2
<1>4. CallsInv(n)
  <2>1. calls \in Seq([low : Int, high : Int])
    BY <1>1, <1>2
  <2>2. QED
    BY <1>1, <1>3, <2>1 DEF CallsInv
<1>5. FrameInv(n)
  BY <1>2 DEF FrameInv, Frame, Idle
<1>6. Ordered(n)
  <2>1. ASSUME NEW a \in 0..n-1, NEW b \in 0..n-1 PROVE InCall(a, b)
    BY <1>1, <1>3 DEF InCall
  <2>2. QED
    BY <2>1 DEF Ordered
<1>7. QED
  BY <1>1, <1>4, <1>5, <1>6 DEF SortInv

\* The first call is taken off.
LEMMA TailCalls ==
  ASSUME NEW n \in Nat, CallsInv(n), calls # <<>>, calls' = Tail(calls)
  PROVE  /\ Len(calls) \in Nat \ {0} /\ Len(calls') = Len(calls)-1
         /\ Head(calls) = calls[1] /\ calls[1] \in [low : Int, high : Int]
         /\ \A c \in 1..Len(calls') : calls'[c] = calls[c+1] /\ c+1 \in 1..Len(calls)
         /\ \A c \in 1..Len(calls) : c = 1 \/ (c-1 \in 1..Len(calls') /\ calls'[c-1] = calls[c])
         /\ \A c \in 1..Len(calls') : calls[1].high < calls'[c].low
         /\ CallsInv(n)'
<1>1. /\ calls \in Seq([low : Int, high : Int]) /\ Len(calls) \in Nat \ {0}
      /\ Tail(calls) \in Seq([low : Int, high : Int])
      /\ Len(calls') = Len(calls)-1
      /\ Head(calls) = calls[1]
      /\ \A c \in 1..Len(calls') : calls'[c] = calls[c+1]
  BY HeadTailProperties, EmptySeq DEF CallsInv
<1>2. 1 \in 1..Len(calls) /\ calls[1] \in [low : Int, high : Int]
  <2>1. 1 \in 1..Len(calls)
    BY <1>1
  <2>2. QED
    BY <1>1, <2>1, ElementOfSeq
<1>3. /\ \A c \in 1..Len(calls') : c+1 \in 1..Len(calls) /\ 1 < c+1
      /\ \A c \in 1..Len(calls) : c = 1 \/ (c-1 \in 1..Len(calls') /\ (c-1)+1 = c)
      /\ \A c, d \in 1..Len(calls') : c < d => c+1 < d+1
  BY <1>1
<1>4. \A c \in 1..Len(calls') : calls[1].high < calls'[c].low
  BY <1>1, <1>2, <1>3 DEF CallsInv
<1>5. CallsInv(n)'
  <2>1. calls' \in Seq([low : Int, high : Int])
    BY <1>1
  <2>2. \A c \in 1..Len(calls') :
          0 <= calls'[c].low /\ calls'[c].low <= calls'[c].high + 1 /\ calls'[c].high < n
    BY <1>1, <1>3 DEF CallsInv
  <2>3. \A c, d \in 1..Len(calls') : c < d => calls'[c].high < calls'[d].low
    BY <1>1, <1>3 DEF CallsInv
  <2>4. QED
    BY <2>1, <2>2, <2>3 DEF CallsInv
<1>6. QED
  BY <1>1, <1>2, <1>3, <1>4, <1>5

LEMMA ReturnStep ==
  ASSUME NEW n \in Nat, SortInv(n), Return
  PROVE  SortInv(n)'
<1>1. /\ frame = Idle /\ calls # <<>> /\ calls' = Tail(calls)
      /\ Head(calls).low >= Head(calls).high
      /\ UNCHANGED <<list, input, frame>>
  BY DEF Return
<1>2. CallsInv(n)'
  BY <1>1, TailCalls DEF SortInv
<1>3. FrameInv(n)'
  BY <1>1 DEF SortInv, FrameInv
<1>4. Ordered(n)'
  <2>1. ASSUME NEW a \in 0..n-1, NEW b \in 0..n-1, a < b, InCall(a, b)
        PROVE  InCall(a, b)'
    <3>1. PICK c \in 1..Len(calls) : calls[c].low <= a /\ b <= calls[c].high
      BY <2>1 DEF InCall
    <3>2. c # 1
      BY <1>1, <2>1, <3>1, TailCalls DEF SortInv
    <3>3. c-1 \in 1..Len(calls') /\ calls'[c-1] = calls[c]
      BY <1>1, <3>2, TailCalls DEF SortInv
    <3>4. QED
      BY <3>1, <3>3 DEF InCall
  <2>2. QED
    BY <1>1, <2>1 DEF SortInv, Ordered, InFrame
<1>5. QED
  BY <1>1, <1>2, <1>3, <1>4 DEF SortInv, SameCounts

LEMMA CallStep ==
  ASSUME NEW n \in Nat, SortInv(n), CallPartition
  PROVE  SortInv(n)'
<1> DEFINE l == calls[1].low
           h == calls[1].high
<1>1. /\ frame = Idle /\ calls # <<>> /\ calls' = Tail(calls)
      /\ UNCHANGED <<list, input>>
  BY DEF CallPartition
<1>2. /\ Head(calls) = calls[1] /\ 1 \in 1..Len(calls) /\ l \in Int /\ h \in Int
      /\ \A c \in 1..Len(calls') : h < calls'[c].low
      /\ CallsInv(n)'
  BY <1>1, TailCalls DEF SortInv
<1>3. /\ l < h
      /\ frame' = [low |-> l, high |-> h, i |-> l-1, j |-> l, pivot |-> list[h].score]
  BY <1>2 DEF CallPartition
<1>4. 0 <= l /\ h < n /\ list[h].score \in Int
  <2>1. 0 <= l /\ h < n
    BY <1>2 DEF SortInv, CallsInv
  <2>2. h \in 0..n-1
    BY <1>2, <1>3, <2>1
  <2>3. QED
    BY <2>1, <2>2 DEF SortInv, IsList
<1> HIDE DEF l, h
<1>5. /\ frame' \in Frame /\ frame'.low = l /\ frame'.high = h /\ frame'.i = l-1
      /\ frame'.j = l /\ frame'.pivot = list[h].score
  BY <1>2, <1>3, <1>4 DEF Frame
<1>6. FrameInv(n)'
  <2>1. \A x \in Int : x \notin l .. l-1 /\ x \notin (l-1)+1 .. l-1
    BY <1>2
  <2>2. QED
    BY <1>1, <1>2, <1>3, <1>4, <1>5, <2>1 DEF FrameInv
<1>7. Ordered(n)'
  <2>1. ASSUME NEW a \in 0..n-1, NEW b \in 0..n-1, InCall(a, b)
        PROVE  InCall(a, b)' \/ InFrame(a, b)'
    <3>1. PICK c \in 1..Len(calls) : calls[c].low <= a /\ b <= calls[c].high
      BY <2>1 DEF InCall
    <3>2. CASE c = 1
      <4>1. frame' # Idle
        BY <1>3, <1>4, <1>5 DEF Idle
      <4>2. QED
        BY <1>5, <3>1, <3>2, <4>1 DEF InFrame, l, h
    <3>3. CASE c # 1
      <4>1. c-1 \in 1..Len(calls') /\ calls'[c-1] = calls[c]
        BY <1>1, <3>3, TailCalls DEF SortInv
      <4>2. QED
        BY <3>1, <4>1 DEF InCall
    <3>4. QED
      BY <3>2, <3>3
  <2>2. QED
    BY <1>1, <2>1 DEF SortInv, Ordered, InFrame
<1>8. IsList(list, n)' /\ IsList(input, n)' /\ SameCounts'
  BY <1>1 DEF SortInv, SameCounts
<1>9. QED
  BY <1>2, <1>6, <1>7, <1>8 DEF SortInv

\* Exchanging two places of the part in the loop keeps the order of what is not
\* in one part.
LEMMA Exchange ==
  ASSUME NEW n \in Nat, SortInv(n), frame # Idle,
         NEW a \in frame.low .. frame.high, NEW b \in frame.low .. frame.high,
         list' = Swap(list, a, b), input' = input
  PROVE  /\ IsList(list, n)' /\ IsList(input, n)' /\ SameCounts'
         /\ a \in 0..n-1 /\ b \in 0..n-1
         /\ list'[a] = list[b] /\ list'[b] = list[a]
         /\ \A x \in 0..n-1 : x # a /\ x # b => list'[x] = list[x]
         /\ \A x, y \in 0..n-1 :
              x < y /\ ~InFrame(x, y) /\ ~InCall(x, y) => list'[x].score >= list'[y].score
<1>1. /\ frame \in Frame /\ 0 <= frame.low /\ frame.high < n
      /\ \A c \in 1..Len(calls) : frame.high < calls[c].low
  BY DEF SortInv, FrameInv
<1>2. frame.low \in Int /\ frame.high \in Int
  BY <1>1 DEF Frame
<1>3. a \in 0..n-1 /\ b \in 0..n-1
  BY <1>1, <1>2
<1>4. IsList(list, n) /\ IsList(input, n) /\ SameCounts
  BY DEF SortInv
<1>5. /\ IsList(Swap(list, a, b), n)
      /\ Swap(list, a, b)[a] = list[b] /\ Swap(list, a, b)[b] = list[a]
      /\ \A x \in 0..n-1 : x # a /\ x # b => Swap(list, a, b)[x] = list[x]
  <2>1. IsList(list, n)
    BY <1>4
  <2>2. QED
    BY <1>3, <2>1, SwapFacts
<1>6. IsList(list, n)' /\ IsList(input, n)'
  BY <1>4, <1>5
<1>7. SameCounts'
  <2>1. \A r : Copies(Swap(list, a, b), r) = Copies(list, r)
    BY <1>3, <1>4, SwapCounts
  <2>2. QED
    BY <1>4, <2>1 DEF SameCounts
<1>8. ASSUME NEW x \in 0..n-1, NEW y \in 0..n-1, x < y, ~InFrame(x, y), ~InCall(x, y)
      PROVE  list'[x].score >= list'[y].score
  <2> DEFINE p(u) == IF u = a THEN b ELSE IF u = b THEN a ELSE u
  <2>1. list'[x] = list[p(x)] /\ list'[y] = list[p(y)]
    BY <1>5
  <2>2. p(x) \in 0..n-1 /\ p(y) \in 0..n-1
    BY <1>3
  <2>3. CASE x < frame.low \/ frame.high < x
    <3>1. p(x) = x /\ x < p(y) /\ ~InFrame(x, p(y))
      BY <1>2, <1>8, <2>3 DEF InFrame
    <3>2. ~InCall(x, p(y))
      <4>1. CASE p(y) = y
        BY <1>8, <4>1
      <4>2. CASE p(y) # y
        <5>1. x < frame.low
          BY <1>2, <1>8, <2>3, <4>2
        <5>2. \A c \in 1..Len(calls) : ~(calls[c].low <= x)
          <6>1. \A c \in 1..Len(calls) : calls[c] \in [low : Int, high : Int]
            BY ElementOfSeq DEF SortInv, CallsInv
          <6>2. QED
            BY <1>1, <1>2, <5>1, <6>1 DEF SortInv, FrameInv
        <5>3. QED
          BY <5>2 DEF InCall
      <4>3. QED
        BY <4>1, <4>2
    <3>3. QED
      BY <2>1, <2>2, <3>1, <3>2 DEF SortInv, Ordered
  <2>4. CASE frame.low <= x /\ x <= frame.high
    <3>1. p(y) = y /\ frame.high < y
      BY <1>2, <1>8, <2>4 DEF InFrame
    <3>2. p(x) < y /\ p(x) <= frame.high /\ ~InFrame(p(x), y)
      BY <1>2, <2>4, <3>1 DEF InFrame
    <3>3. ~InCall(p(x), y)
      <4>1. \A c \in 1..Len(calls) : calls[c] \in [low : Int, high : Int]
        BY ElementOfSeq DEF SortInv, CallsInv
      <4>2. \A c \in 1..Len(calls) : ~(calls[c].low <= p(x))
        BY <1>1, <1>2, <2>2, <3>2, <4>1
      <4>3. QED
        BY <4>2 DEF InCall
    <3>4. QED
      BY <2>1, <2>2, <3>1, <3>2, <3>3 DEF SortInv, Ordered
  <2>5. QED
    BY <1>2, <2>3, <2>4
<1>9. QED
  BY <1>3, <1>5, <1>6, <1>7, <1>8

LEMMA CompareStep ==
  ASSUME NEW n \in Nat, SortInv(n), Compare
  PROVE  SortInv(n)'
<1> DEFINE l == frame.low
           h == frame.high
           i == frame.i
           j == frame.j
<1>1. /\ frame # Idle /\ j <= h-1 /\ UNCHANGED <<input, calls>>
  BY DEF Compare
<1>2. /\ frame \in Frame
      /\ 0 <= l /\ l < h /\ h < n /\ l-1 <= i /\ i < j /\ j <= h
      /\ frame.pivot = list[h].score
      /\ \A x \in l .. i : list[x].score > frame.pivot
      /\ \A x \in i+1 .. j-1 : list[x].score <= frame.pivot
      /\ \A c \in 1..Len(calls) : h < calls[c].low
  BY <1>1 DEF SortInv, FrameInv
<1>3. l \in Int /\ h \in Int /\ i \in Int /\ j \in Int /\ frame.pivot \in Int
  BY <1>2 DEF Frame
<1>4. CallsInv(n)'
  BY <1>1 DEF SortInv, CallsInv
<1>5. CASE list[j].score > frame.pivot
  <2>1. /\ list' = Swap(list, i+1, j)
        /\ frame' = [frame EXCEPT !.i = i+1, !.j = j+1]
    BY <1>5 DEF Compare
  <2>2. /\ frame' \in Frame /\ frame'.low = l /\ frame'.high = h /\ frame'.i = i+1
        /\ frame'.j = j+1 /\ frame'.pivot = frame.pivot
    <3>1. i+1 \in Int /\ j+1 \in Int
      BY <1>3
    <3> HIDE DEF i, j
    <3>2. QED
      BY <1>2, <1>3, <2>1, <3>1 DEF Frame, l, h
  <2>3. i+1 \in l .. h /\ j \in l .. h
    BY <1>1, <1>2, <1>3
  <2>4. /\ IsList(list, n)' /\ IsList(input, n)' /\ SameCounts'
        /\ list'[i+1] = list[j] /\ list'[j] = list[i+1]
        /\ \A x \in 0..n-1 : x # i+1 /\ x # j => list'[x] = list[x]
        /\ \A x, y \in 0..n-1 :
             x < y /\ ~InFrame(x, y) /\ ~InCall(x, y) => list'[x].score >= list'[y].score
    BY <1>1, <2>1, <2>3, Exchange
  <2>5. Ordered(n)'
    <3>1. frame' # Idle
      BY <1>2, <1>3, <2>2 DEF Idle
    <3>2. \A x, y : InFrame(x, y)' <=> InFrame(x, y)
      BY <1>1, <2>2, <3>1 DEF InFrame
    <3>3. \A x, y : InCall(x, y)' <=> InCall(x, y)
      BY <1>1 DEF InCall
    <3>4. QED
      BY <2>4, <3>2, <3>3 DEF Ordered
  <2> HIDE DEF l, h, i, j
  <2>6. list'[h] = list[h]
    BY <1>1, <1>2, <1>3, <2>4
  <2>7. \A x \in l .. i+1 : list'[x].score > frame.pivot
    <3>1. ASSUME NEW x \in l .. i+1, x # i+1 PROVE list'[x] = list[x] /\ x \in l .. i
      BY <1>2, <1>3, <2>4, <3>1
    <3>2. QED
      BY <1>2, <1>5, <2>4, <3>1 DEF j
  <2>8. \A x \in (i+1)+1 .. (j+1)-1 : list'[x].score <= frame.pivot
    <3>1. ASSUME NEW x \in (i+1)+1 .. (j+1)-1, x # j
          PROVE  list'[x] = list[x] /\ x \in i+1 .. j-1
      BY <1>1, <1>2, <1>3, <2>4, <3>1
    <3>2. ASSUME NEW x \in (i+1)+1 .. (j+1)-1, x = j PROVE i+1 \in i+1 .. j-1
      BY <1>3, <3>2
    <3>3. QED
      BY <1>2, <2>4, <3>1, <3>2
  <2>9. FrameInv(n)'
    BY <1>1, <1>2, <1>3, <2>2, <2>6, <2>7, <2>8 DEF FrameInv
  <2>10. QED
    BY <1>4, <2>4, <2>5, <2>9 DEF SortInv
<1>6. CASE ~(list[j].score > frame.pivot)
  <2>1. frame' = [frame EXCEPT !.j = j+1] /\ UNCHANGED list
    BY <1>6 DEF Compare
  <2>2. /\ frame' \in Frame /\ frame'.low = l /\ frame'.high = h /\ frame'.i = i
        /\ frame'.j = j+1 /\ frame'.pivot = frame.pivot
    BY <1>2, <1>3, <2>1 DEF Frame
  <2>3. Ordered(n)'
    <3>1. frame' # Idle
      BY <1>2, <1>3, <2>2 DEF Idle
    <3>2. \A x, y : InFrame(x, y)' <=> InFrame(x, y)
      BY <1>1, <2>2, <3>1 DEF InFrame
    <3>3. \A x, y : InCall(x, y)' <=> InCall(x, y)
      BY <1>1 DEF InCall
    <3>4. QED
      BY <2>1, <3>2, <3>3 DEF SortInv, Ordered
  <2>4. list[j].score <= frame.pivot
    <3>1. j \in 0..n-1
      BY <1>1, <1>2, <1>3
    <3>2. list[j].score \in Int
      BY <3>1 DEF SortInv, IsList
    <3>3. QED
      BY <1>3, <1>6, <3>2
  <2> HIDE DEF l, h, i, j
  <2>5. \A x \in i+1 .. (j+1)-1 : list[x].score <= frame.pivot
    <3>1. \A x \in i+1 .. (j+1)-1 : x = j \/ x \in i+1 .. j-1
      BY <1>3
    <3>2. QED
      BY <1>2, <2>4, <3>1
  <2>6. FrameInv(n)'
    BY <1>1, <1>2, <1>3, <2>1, <2>2, <2>5 DEF FrameInv
  <2>7. IsList(list, n)' /\ IsList(input, n)' /\ SameCounts'
    BY <1>1, <2>1 DEF SortInv, SameCounts
  <2>8. QED
    BY <1>4, <2>3, <2>6, <2>7 DEF SortInv
<1>7. QED
  BY <1>5, <1>6

\* The two parts beside the pivot, in front of the calls still to be made.
LEMMA PivotCalls ==
  ASSUME NEW n \in Nat, CallsInv(n), NEW l \in Int, NEW i \in Int, NEW h \in Int,
         0 <= l, l-1 <= i, i < h, h < n,
         \A c \in 1..Len(calls) : h < calls[c].low,
         calls' = <<[low |-> l, high |-> i], [low |-> i+2, high |-> h]>> \o calls
  PROVE  /\ CallsInv(n)'
         /\ \A a, b : ~InCall(a, b)' =>
              ~(l <= a /\ b <= i) /\ ~(i+2 <= a /\ b <= h) /\ ~InCall(a, b)
<1> DEFINE two == <<[low |-> l, high |-> i], [low |-> i+2, high |-> h]>>
<1>1. /\ two \in Seq([low : Int, high : Int]) /\ Len(two) = 2
      /\ two[1] = [low |-> l, high |-> i] /\ two[2] = [low |-> i+2, high |-> h]
  OBVIOUS
<1>2. calls \in Seq([low : Int, high : Int]) /\ Len(calls) \in Nat
  BY LenProperties DEF CallsInv
<1> HIDE DEF two
<1>3. /\ calls' \in Seq([low : Int, high : Int]) /\ Len(calls') = 2 + Len(calls)
      /\ \A k \in 1 .. 2 + Len(calls) : calls'[k] = IF k <= 2 THEN two[k] ELSE calls[k-2]
  BY <1>1, <1>2, ConcatProperties DEF two
<1>4. /\ calls'[1] = [low |-> l, high |-> i] /\ calls'[2] = [low |-> i+2, high |-> h]
      /\ 1 \in 1..Len(calls') /\ 2 \in 1..Len(calls')
      /\ \A c \in 1..Len(calls) : c+2 \in 1..Len(calls') /\ calls'[c+2] = calls[c]
  <2>1. /\ 1 \in 1 .. 2 + Len(calls) /\ 2 \in 1 .. 2 + Len(calls)
        /\ \A c \in 1..Len(calls) : c+2 \in 1 .. 2 + Len(calls) /\ ~(c+2 <= 2) /\ (c+2)-2 = c
    BY <1>2
  <2>2. QED
    BY <1>1, <1>3, <2>1
<1>5. \A k \in 1..Len(calls') :
        k = 1 \/ k = 2 \/ \E c \in 1..Len(calls) : k = c+2
  <2>1. ASSUME NEW k \in 1 .. 2 + Len(calls), k # 1, k # 2
        PROVE  k-2 \in 1..Len(calls) /\ k = (k-2)+2
    BY <1>2, <2>1
  <2>2. QED
    BY <1>3, <2>1
<1>6. CallsInv(n)'
  <2>1. \A k \in 1..Len(calls') :
          0 <= calls'[k].low /\ calls'[k].low <= calls'[k].high + 1 /\ calls'[k].high < n
    <3>1. \A c \in 1..Len(calls) :
            0 <= calls[c].low /\ calls[c].low <= calls[c].high + 1 /\ calls[c].high < n
      BY DEF CallsInv
    <3>2. 0 <= i+2 /\ i+2 <= h+1 /\ l <= i+1 /\ i < n
      OBVIOUS
    <3>3. QED
      BY <1>4, <1>5, <3>1, <3>2
  <2>2. ASSUME NEW k \in 1..Len(calls'), NEW m \in 1..Len(calls'), k < m
        PROVE  calls'[k].high < calls'[m].low
    <3>1. CASE m = 1
      BY <1>2, <1>3, <2>2, <3>1
    <3>2. CASE m = 2
      <4>1. k = 1
        BY <1>2, <1>3, <2>2, <3>2
      <4>2. QED
        BY <1>4, <3>2, <4>1
    <3>3. CASE \E c \in 1..Len(calls) : m = c+2
      <4>1. PICK c \in 1..Len(calls) : m = c+2
        BY <3>3
      <4>2. calls'[m] = calls[c] /\ h < calls[c].low
        BY <1>4, <4>1
      <4>3. CASE k = 1 \/ k = 2
        <5>1. calls[c] \in [low : Int, high : Int]
          BY <1>2, ElementOfSeq
        <5>2. calls'[k].high \in {i, h}
          BY <1>4, <4>3
        <5>3. \A u \in {i, h} : u < calls[c].low
          BY <4>2, <5>1
        <5>4. QED
          BY <4>2, <5>2, <5>3
      <4>4. CASE \E e \in 1..Len(calls) : k = e+2
        <5>1. PICK e \in 1..Len(calls) : k = e+2
          BY <4>4
        <5>2. e < c /\ calls'[k] = calls[e]
          BY <1>2, <1>4, <2>2, <4>1, <5>1
        <5>3. QED
          BY <4>2, <5>2 DEF CallsInv
      <4>5. QED
        BY <1>5, <4>3, <4>4
    <3>4. QED
      BY <1>5, <3>1, <3>2, <3>3
  <2>3. QED
    BY <1>3, <2>1, <2>2 DEF CallsInv
<1>7. ASSUME NEW a, NEW b, ~InCall(a, b)'
      PROVE  ~(l <= a /\ b <= i) /\ ~(i+2 <= a /\ b <= h) /\ ~InCall(a, b)
  <2>1. \A k \in 1..Len(calls') : ~(calls'[k].low <= a /\ b <= calls'[k].high)
    BY <1>7 DEF InCall
  <2>2. ~(l <= a /\ b <= i) /\ ~(i+2 <= a /\ b <= h)
    BY <1>4, <2>1
  <2>3. ~InCall(a, b)
    BY <1>4, <2>1 DEF InCall
  <2>4. QED
    BY <2>2, <2>3
<1>8. QED
  BY <1>6, <1>7

LEMMA PlacePivotStep ==
  ASSUME NEW n \in Nat, SortInv(n), PlacePivot
  PROVE  SortInv(n)'
<1> DEFINE l == frame.low
           h == frame.high
           i == frame.i
<1>1. /\ frame # Idle /\ frame.j > h-1 /\ input' = input /\ frame' = Idle
      /\ list' = Swap(list, i+1, h)
      /\ calls' = <<[low |-> l, high |-> i], [low |-> i+2, high |-> h]>> \o calls
  BY DEF PlacePivot
<1>2. /\ frame \in Frame
      /\ 0 <= l /\ l < h /\ h < n /\ l-1 <= i /\ i < frame.j /\ frame.j <= h
      /\ frame.pivot = list[h].score
      /\ \A x \in l .. i : list[x].score > frame.pivot
      /\ \A x \in i+1 .. frame.j-1 : list[x].score <= frame.pivot
      /\ \A c \in 1..Len(calls) : h < calls[c].low
  BY <1>1 DEF SortInv, FrameInv
<1>3. /\ l \in Int /\ h \in Int /\ i \in Int /\ frame.pivot \in Int
      /\ frame.j \in Int /\ frame.j = h
  BY <1>1, <1>2 DEF Frame
<1>4. i+1 \in l .. h /\ h \in l .. h
  BY <1>2, <1>3
<1>5. /\ IsList(list, n)' /\ IsList(input, n)' /\ SameCounts'
      /\ i+1 \in 0..n-1 /\ h \in 0..n-1
      /\ list'[i+1] = list[h] /\ list'[h] = list[i+1]
      /\ \A x \in 0..n-1 : x # i+1 /\ x # h => list'[x] = list[x]
      /\ \A x, y \in 0..n-1 :
           x < y /\ ~InFrame(x, y) /\ ~InCall(x, y) => list'[x].score >= list'[y].score
  BY <1>1, <1>4, Exchange
<1>6. /\ CallsInv(n)'
      /\ \A a, b : ~InCall(a, b)' =>
           ~(l <= a /\ b <= i) /\ ~(i+2 <= a /\ b <= h) /\ ~InCall(a, b)
  <2> HIDE DEF l, h, i
  <2>1. i < h /\ CallsInv(n)
    BY <1>2, <1>3 DEF SortInv
  <2>2. QED
    BY <1>1, <1>2, <1>3, <2>1, PivotCalls
<1>7. FrameInv(n)'
  BY <1>1 DEF FrameInv, Frame, Idle
<1> HIDE DEF l, h, i
\* The pivot's place, the greater ones before it and the others behind it.
<1>8. list'[i+1].score = frame.pivot
  BY <1>2, <1>5
<1>9. ASSUME NEW x \in l .. i PROVE list'[x].score > frame.pivot
  <2>1. x \in 0..n-1 /\ x # i+1 /\ x # h
    BY <1>2, <1>3
  <2>2. QED
    BY <1>2, <1>5, <2>1
<1>10. ASSUME NEW y \in i+2 .. h PROVE list'[y].score <= frame.pivot
  <2>1. i+1 \in i+1 .. frame.j-1
    BY <1>2, <1>3
  <2>2. CASE y = h
    BY <1>2, <1>5, <2>1, <2>2
  <2>3. CASE y # h
    <3>1. y \in 0..n-1 /\ y # i+1 /\ y \in i+1 .. frame.j-1
      BY <1>2, <1>3, <2>3
    <3>2. QED
      BY <1>2, <1>5, <2>3, <3>1
  <2>4. QED
    BY <2>2, <2>3
<1>11. Ordered(n)'
  <2>1. ASSUME NEW a \in 0..n-1, NEW b \in 0..n-1, a < b, ~InCall(a, b)'
        PROVE  list'[a].score >= list'[b].score
    <3>1. ~(l <= a /\ b <= i) /\ ~(i+2 <= a /\ b <= h) /\ ~InCall(a, b)
      BY <1>6, <2>1
    <3>2. CASE ~InFrame(a, b)
      BY <1>5, <2>1, <3>1, <3>2
    <3>3. CASE InFrame(a, b)
      <4>1. l <= a /\ b <= h
        BY <3>3 DEF InFrame, l, h
      <4>2. (a \in l .. i \/ a = i+1) /\ (b = i+1 \/ b \in i+2 .. h)
        BY <1>3, <2>1, <3>1, <4>1
      <4>3. list'[a].score \in Int /\ list'[b].score \in Int
        BY <1>5 DEF IsList
      <4>4. a # b
        BY <2>1
      <4>5. QED
        BY <1>3, <1>8, <1>9, <1>10, <4>2, <4>3, <4>4
    <3>4. QED
      BY <3>2, <3>3
  <2>2. QED
    BY <2>1 DEF Ordered
<1>12. QED
  BY <1>5, <1>6, <1>7, <1>11 DEF SortInv

\* Every step of quickSort keeps the invariant.
LEMMA SortKeeps ==
  ASSUME NEW n, SortInv(n), SortStep
  PROVE  SortInv(n)'
<1>1. n \in Nat
  BY DEF SortInv
<1>2. QED
  BY <1>1, ReturnStep, CallStep, CompareStep, PlacePivotStep DEF SortStep

\* With no call left, all of it is in order.
LEMMA SortEnds ==
  ASSUME NEW n, SortInv(n), Sorted
  PROVE  Descending(list) /\ SameResults(list, input)
<1>1. n \in Nat /\ DOMAIN list = 0..n-1 /\ DOMAIN input = 0..n-1
  BY DEF SortInv, IsList
<1>2. Len(calls) = 0 /\ frame = Idle
  BY DEF Sorted
<1>3. ASSUME NEW a \in 0..n-1, NEW b \in 0..n-1, a <= b
      PROVE  list[a].score >= list[b].score
  <2>1. CASE a = b
    <3>1. list[a].score \in Int
      BY DEF SortInv, IsList
    <3>2. QED
      BY <2>1, <3>1
  <2>2. CASE a < b
    <3>1. ~InFrame(a, b) /\ ~InCall(a, b)
      BY <1>2 DEF InFrame, InCall
    <3>2. QED
      BY <2>2, <3>1 DEF SortInv, Ordered
  <2>3. QED
    BY <1>1, <1>3, <2>1, <2>2
<1>4. SameResults(list, input)
  BY <1>1 DEF SortInv, SameCounts, SameResults, Copies
<1>5. QED
  BY <1>1, <1>3, <1>4 DEF Descending

-----------------------------------------------------------------------------
Permuting == \E n : SortInv(n)

\* What quickSort returns is the list it was given, from the best score down,
\* for every list and any scores, equal ones included.
SortedRight == Sorted => Descending(list) /\ SameResults(list, input)

THEOREM QuickSortSorts == Spec => []SortedRight
<1>1. Init => Permuting
  <2>1. ASSUME NEW n \in 0..MaxResults, NEW f \in [0..n-1 -> Result], list = f, input = f,
               calls = <<[low |-> 0, high |-> n-1]>>, frame = Idle
        PROVE  Starts(n)
    <3>1. n \in Nat
      BY RankingAssumption
    <3>2. IsList(list, n)
      BY <2>1, RankingAssumption DEF IsList
    <3>3. QED
      BY <2>1, <3>1, <3>2 DEF Starts
  <2>2. QED
    BY <2>1, SortStarts DEF Init, Permuting
<1>2. Permuting /\ [SortStep]_sorting => Permuting'
  <2>1. ASSUME Permuting, SortStep PROVE Permuting'
    BY <2>1, SortKeeps DEF Permuting
  <2>2. ASSUME Permuting, UNCHANGED sorting PROVE Permuting'
    BY <2>2 DEF Permuting, SortInv, IsList, SameCounts, CallsInv, FrameInv, Ordered,
                InFrame, InCall, sorting
  <2>3. QED
    BY <2>1, <2>2
<1>3. Permuting => SortedRight
  BY SortEnds DEF Permuting, SortedRight
<1>4. QED
  BY <1>1, <1>2, <1>3, PTL DEF Spec

-----------------------------------------------------------------------------
(* /tf and /df: the sum over a posting list.                               *)

\* h are the sums along the postings s of those that are meant by id.
SumsAlong(h, s, id) ==
  /\ h \in [0..Len(s) -> Nat] /\ h[0] = 0
  /\ \A k \in 0..Len(s)-1 :
       h[k+1] = IF id < 0 \/ s[k+1].place = id THEN h[k] + s[k+1].times ELSE h[k]

LEMMA AppearanceTimesAdds ==
  ASSUME NEW P, trie \in Tries(P), NEW word \in Word, NEW id \in Int
  PROVE  \E h : /\ SumsAlong(h, trie[word].items, id)
                /\ h[Len(trie[word].items)] = AppearanceTimes(word, id)
<1> DEFINE l == trie[word]
           s == l.items
           n == Len(s)
           F == [vk \in Nat \X (1..n) |->
                   IF id < 0 \/ s[vk[2]].place = id THEN vk[1] + s[vk[2]].times ELSE vk[1]]
           NextSum(it, r) == IF r = {} THEN 0
                          ELSE IF id < 0 \/ s[Max(r)].place = id
                               THEN it[r \ {Max(r)}] + s[Max(r)].times
                               ELSE it[r \ {Max(r)}]
           Sums(it) == it = [r \in SUBSET (DOMAIN s) |-> NextSum(it, r)]
           iter == CHOOSE it : Sums(it)
<1>1. l \in PostingList(P) /\ s \in Seq(Posting(P))
  BY DEF Tries, PostingList, ListOf
<1>2. n \in Nat /\ DOMAIN s = 1..n /\ \A k \in 1..n : s[k].times \in Nat \ {0}
  <2>1. \A k \in 1..n : s[k] \in Posting(P)
    BY <1>1, ElementOfSeq
  <2>2. QED
    BY <1>1, <2>1, LenProperties DEF Posting
<1>3. AppearanceTimes(word, id) = iter[DOMAIN s]
  BY DEF AppearanceTimes, FoldLeft, MapThenFoldSet
<1>4. \A v \in Nat, k \in 1..n :
        /\ F[<<v, k>>] = IF id < 0 \/ s[k].place = id THEN v + s[k].times ELSE v
        /\ F[<<v, k>>] \in Nat
  BY <1>2
<1> HIDE DEF s, n, F
<1>5. \A r \in SUBSET (1..n) : r # {} => r \ {Max(r)} \in SUBSET (1..n) /\ Max(r) \in 1..n
  BY <1>2, MaxIsGreatest
<1>6. StaysIn(Nat, n, F)
  BY <1>4 DEF StaysIn
<1>7. \E it : Sums(it)
  <2>1. PICK it \in [SUBSET (1..n) -> Nat] : FoldsBy(it, n, 0, F)
    BY <1>2, <1>6, FoldExists
  <2>2. ASSUME NEW r \in SUBSET (1..n) PROVE it[r] = NextSum(it, r)
    <3>1. CASE r = {}
      BY <2>1, <3>1 DEF FoldsBy
    <3>2. CASE r # {}
      <4>1. it[r] = F[<<it[r \ {Max(r)}], Max(r)>>]
        BY <2>1, <3>2 DEF FoldsBy
      <4>2. it[r \ {Max(r)}] \in Nat /\ Max(r) \in 1..n
        BY <1>5, <2>1, <3>2
      <4>3. it[r] = IF id < 0 \/ s[Max(r)].place = id
                    THEN it[r \ {Max(r)}] + s[Max(r)].times ELSE it[r \ {Max(r)}]
        BY <1>4, <4>1, <4>2
      <4>4. QED
        BY <3>2, <4>3
    <3>3. QED
      BY <3>1, <3>2
  <2> HIDE DEF NextSum
  <2>3. QED
    BY <1>2, <2>1, <2>2
<1>8. Sums(iter)
  <2> HIDE DEF Sums
  <2>1. QED
    BY <1>7
<1> HIDE DEF iter
<1>9. GoesOnBy(iter, n, Nat, 0, F)
  <2>1. ASSUME NEW r \in SUBSET (1..n), r # {}, iter[r \ {Max(r)}] \in Nat
        PROVE  iter[r] = F[<<iter[r \ {Max(r)}], Max(r)>>]
    <3>1. iter[r] = NextSum(iter, r)
      <4> HIDE DEF NextSum
      <4>1. QED
        BY <1>2, <1>8
    <3>2. iter[r] = IF id < 0 \/ s[Max(r)].place = id
                    THEN iter[r \ {Max(r)}] + s[Max(r)].times ELSE iter[r \ {Max(r)}]
      BY <2>1, <3>1
    <3>3. Max(r) \in 1..n
      BY <1>5, <2>1
    <3>4. QED
      BY <1>4, <2>1, <3>2, <3>3
  <2>2. iter[{}] = 0
    BY <1>2, <1>8
  <2>3. QED
    BY <2>1, <2>2 DEF GoesOnBy
<1> DEFINE h == Values(iter, n)
<1> HIDE DEF Sums
<1>10. /\ h \in [0..n -> Nat] /\ h[0] = 0 /\ h[n] = iter[1..n]
       /\ \A k \in 0..n-1 : h[k+1] = F[<<h[k], k+1>>]
  <2>1. /\ Values(iter, n) \in [0..n -> Nat]
        /\ Values(iter, n)[0] = 0 /\ Values(iter, n)[n] = iter[1..n]
        /\ \A k \in 0..n-1 : Values(iter, n)[k+1] = F[<<Values(iter, n)[k], k+1>>]
    <3> DEFINE V == Nat
    <3>1. 0 \in V /\ StaysIn(V, n, F) /\ GoesOnBy(iter, n, V, 0, F)
      BY <1>6, <1>9
    <3> HIDE DEF h, V
    <3>2. /\ Values(iter, n) \in [0..n -> V]
          /\ Values(iter, n)[0] = 0 /\ Values(iter, n)[n] = iter[1..n]
          /\ \A k \in 0..n-1 : Values(iter, n)[k+1] = F[<<Values(iter, n)[k], k+1>>]
      BY <1>2, <3>1, FoldSteps
    <3>3. QED
      BY <3>2 DEF V
  <2>2. QED
    BY <2>1 DEF h
<1> HIDE DEF h
<1>11. ASSUME NEW k \in 0..n-1
       PROVE  h[k+1] = IF id < 0 \/ s[k+1].place = id THEN h[k] + s[k+1].times ELSE h[k]
  <2>1. h[k] \in Nat /\ k+1 \in 1..n /\ h[k+1] = F[<<h[k], k+1>>]
    BY <1>2, <1>10
  <2>2. QED
    BY <1>4, <2>1
<1>12. \A k \in 0..n-1 :
         h[k+1] = IF id < 0 \/ s[k+1].place = id THEN h[k] + s[k+1].times ELSE h[k]
  BY <1>11
<1>13. h[n] = AppearanceTimes(word, id)
  BY <1>2, <1>3, <1>10
<1>14. SumsAlong(h, s, id)
  BY <1>10, <1>12 DEF SumsAlong, n
<1>15. QED
  BY <1>13, <1>14 DEF s, n

\* /tf: there is one posting of a document, or none.
LEMMA AppearanceTimesIsTimes ==
  ASSUME NEW P, trie \in Tries(P), NEW word \in Word, NEW id \in Nat
  PROVE  AppearanceTimes(word, id) = Times(trie[word], id)
<1> DEFINE l == trie[word]
           s == l.items
           n == Len(s)
<1>0. PICK h : SumsAlong(h, s, id) /\ h[n] = AppearanceTimes(word, id)
  <2>1. id \in Int
    OBVIOUS
  <2>2. QED
    BY <2>1, AppearanceTimesAdds
<1>1. l \in PostingList(P) /\ s \in Seq(Posting(P))
  BY DEF Tries, PostingList, ListOf
<1>2. n \in Nat /\ DOMAIN s = 1..n /\ \A k \in 1..n : s[k].times \in Nat \ {0}
  <2>1. \A k \in 1..n : s[k] \in Posting(P)
    BY <1>1, ElementOfSeq
  <2>2. QED
    BY <1>1, <2>1, LenProperties DEF Posting
<1>3. \A i, j \in 1..n : s[i].place = s[j].place => i = j
  BY <1>1 DEF PostingList
<1> HIDE DEF s, n
<1>10. h \in [0..n -> Nat] /\ h[0] = 0
  BY <1>0 DEF SumsAlong, n
<1>11. ASSUME NEW k \in 0..n-1
       PROVE  h[k+1] = IF s[k+1].place = id THEN h[k] + s[k+1].times ELSE h[k]
  BY <1>0 DEF SumsAlong, n
\* Only one posting is added to the sum.
<1> DEFINE Right(k) == h[k] = IF \E j \in 1..k : s[j].place = id THEN Times(l, id) ELSE 0
           U == {k \in Nat : k <= n => Right(k)}
<1>12. 0 \in U
  BY <1>10, <1>2
<1>13. ASSUME NEW k \in Nat, k \in U PROVE k+1 \in U
  <2> HIDE DEF Right
  <2>1. SUFFICES ASSUME k+1 <= n PROVE Right(k+1)
    OBVIOUS
  <2>2. k \in 0..n-1 /\ k+1 \in 1..n /\ k <= n
    BY <1>2, <2>1
  <2>3. Right(k)
    BY <1>13, <2>2
  <2> HIDE DEF U
  <2>4. \A j : j \in 1..k+1 <=> j \in 1..k \/ j = k+1
    OBVIOUS
  <2>5. CASE s[k+1].place = id
    <3>1. \A j \in 1..k : s[j].place # id
      <4>1. \A j \in 1..k : j \in 1..n /\ j # k+1
        BY <1>2, <2>2
      <4>2. QED
        BY <1>3, <2>2, <2>5, <4>1
    <3>2. Times(l, id) = s[k+1].times
      BY <1>1, <2>2, <2>5, TimesAt DEF s, n
    <3>3. h[k] = 0
      BY <2>3, <3>1 DEF Right
    <3>4. h[k+1] = 0 + s[k+1].times
      BY <1>11, <2>2, <2>5, <3>3
    <3>5. s[k+1].times \in Nat
      BY <1>2, <2>2
    <3>6. QED
      BY <2>4, <2>5, <3>2, <3>4, <3>5 DEF Right
  <2>6. CASE s[k+1].place # id
    BY <1>11, <2>2, <2>3, <2>4, <2>6 DEF Right
  <2>7. QED
    BY <2>5, <2>6
<1>14. n \in U /\ n <= n
  <2> HIDE DEF U
  <2>1. Nat \subseteq U
    BY <1>12, <1>13, Induction
  <2>2. QED
    BY <1>2, <2>1
<1>15. Right(n)
  <2> HIDE DEF Right
  <2>1. QED
    BY <1>14
<1>16. h[n] = Times(l, id)
  <2>1. CASE \E j \in 1..n : s[j].place = id
    BY <1>15, <2>1
  <2>2. CASE ~ \E j \in 1..n : s[j].place = id
    <3>1. Times(l, id) = 0
      BY <1>1, <2>2, TimesType DEF s, n
    <3>2. QED
      BY <1>15, <2>2, <3>1
  <2>3. QED
    BY <2>1, <2>2
<1>17. QED
  BY <1>0, <1>16

-----------------------------------------------------------------------------
(* The documents that a search finds.                                      *)

DocList(P) == {l \in ListOf(P) : \A i, j \in 1..Len(l.items) : l.items[i] = l.items[j] => i = j}

\* The list of documents with one more that may be in it.
LEMMA AddDoc ==
  ASSUME NEW P, NEW l \in DocList(P), NEW d \in P
  PROVE  LET m == IF Exists(l, d) THEN l ELSE AppendElement(l, d)
         IN  m \in DocList(P) /\ \A e : Has(m.items, e) <=> Has(l.items, e) \/ e = d
<1> DEFINE m == AppendElement(l, d)
           n == Len(l.items)
<1>1. l \in ListOf(P) /\ l.items \in Seq(P) /\ n \in Nat /\ DOMAIN l.items = 1..n
  <2>1. l \in ListOf(P) /\ l.items \in Seq(P)
    BY DEF DocList, ListOf
  <2>2. QED
    BY <2>1, LenProperties
<1>2. Exists(l, d) <=> Has(l.items, d)
  BY <1>1 DEF Exists, Has
<1>3. CASE Exists(l, d)
  BY <1>2, <1>3
<1>4. CASE ~Exists(l, d)
  <2>1. m \in ListOf(P) /\ m.items = Append(l.items, d)
    BY <1>1, AppendFits
  <2>2. /\ Len(m.items) = n+1 /\ m.items[n+1] = d
        /\ \A j \in 1..n : m.items[j] = l.items[j]
    BY <1>1, <2>1, AppendProperties
  <2> HIDE DEF m
  <2>3. \A j : j \in 1..n+1 <=> j \in 1..n \/ j = n+1
    BY <1>1
  <2>4. \A j \in 1..n : l.items[j] # d
    BY <1>2, <1>4 DEF Has
  <2>5. m \in DocList(P)
    <3>1. ASSUME NEW i \in 1..n+1, NEW j \in 1..n+1, m.items[i] = m.items[j]
          PROVE  i = j
      <4>1. CASE i \in 1..n /\ j \in 1..n
        BY <2>2, <3>1, <4>1 DEF DocList
      <4>2. CASE i = n+1 \/ j = n+1
        BY <2>2, <2>3, <2>4, <3>1, <4>2
      <4>3. QED
        BY <2>3, <4>1, <4>2
    <3>2. QED
      BY <2>1, <2>2, <3>1 DEF DocList
  <2>6. \A e : Has(m.items, e) <=> Has(l.items, e) \/ e = d
    BY <2>2, <2>3 DEF Has
  <2>7. QED
    BY <1>4, <2>5, <2>6 DEF m
<1>5. QED
  BY <1>3, <1>4

\* The words of a query that are looked up.
Asked(q) == SubSeq(q, 1, Min({Len(q), MaxWords}))

LEMMA AskedFacts ==
  ASSUME NEW q \in Seq(Word)
  PROVE  /\ Min({Len(q), MaxWords}) \in 0..Len(q)
         /\ Asked(q) \in Seq(Word) /\ Len(Asked(q)) = Min({Len(q), MaxWords})
         /\ \A k \in 1..Len(Asked(q)) : Asked(q)[k] = q[k]
<1> DEFINE m == Min({Len(q), MaxWords})
<1>1. Len(q) \in Nat /\ MaxWords \in Nat
  BY LenProperties, SearchEngineAssumption
<1>2. m \in 0..Len(q)
  BY <1>1, MinOfTwo
<1> HIDE DEF m
<1>3. m \in Int /\ 1 \in Int /\ \A k \in 1..m : k \in 1..Len(q) /\ q[k] \in Word
  BY <1>1, <1>2, ElementOfSeq
<1>4. /\ SubSeq(q, 1, m) \in Seq(Word)
      /\ Len(SubSeq(q, 1, m)) = IF 1 <= m THEN m-1+1 ELSE 0
      /\ \A k \in 1..m-1+1 : SubSeq(q, 1, m)[k] = q[1+k-1]
  BY <1>3, SubSeqProperties
<1>5. Len(SubSeq(q, 1, m)) = m /\ \A k \in 1..m : SubSeq(q, 1, m)[k] = q[k]
  BY <1>1, <1>2, <1>4
<1>6. QED
  BY <1>2, <1>4, <1>5 DEF m, Asked

\* They are those with one of these words, each once.
LEMMA DocsFound ==
  ASSUME NEW P, trie \in Tries(P), NEW q \in Seq(Word)
  PROVE  /\ DocsToSearch(q) \in Seq(P)
         /\ \A i, j \in 1..Len(DocsToSearch(q)) :
              DocsToSearch(q)[i] = DocsToSearch(q)[j] => i = j
         /\ \A d : Has(DocsToSearch(q), d)
                     <=> HasOneOf(trie, Asked(q), d)
<1> DEFINE a == Appearances(trie, Asked(q))
           n == Len(a)
           V == DocList(P)
           base == NewList(ResultList)
           Add(l, d) == IF Exists(l, d) THEN l ELSE AppendElement(l, d)
           F == [vk \in V \X (1..n) |-> Add(vk[1], a[vk[2]].place)]
           NextDocs(it, r) == IF r = {} THEN base
                              ELSE Add(it[r \ {Max(r)}], a[Max(r)].place)
           Lists(it) == it = [r \in SUBSET (DOMAIN a) |-> NextDocs(it, r)]
           iter == CHOOSE it : Lists(it)
<1>1. a \in Seq(Posting(P)) /\ \A d : HasPlace(a, d) <=> HasOneOf(trie, Asked(q), d)
  BY AskedFacts, AppearancesHave
<1>2. n \in Nat /\ DOMAIN a = 1..n /\ \A k \in 1..n : a[k].place \in P
  <2>1. \A k \in 1..n : a[k] \in Posting(P)
    BY <1>1, ElementOfSeq
  <2> HIDE DEF a
  <2>2. QED
    BY <1>1, <2>1, LenProperties DEF Posting
<1>3. DocsToSearch(q) = iter[DOMAIN a].items
  BY DEF DocsToSearch, FoldLeft, MapThenFoldSet, Asked
<1> HIDE DEF a, n
<1>4. \A l \in V, k \in 1..n :
        /\ Add(l, a[k].place) \in V
        /\ \A e : Has(Add(l, a[k].place).items, e) <=> Has(l.items, e) \/ e = a[k].place
  BY <1>2, AddDoc
<1>5. base \in V /\ base.items = <<>>
  <2>1. base \in ListOf(P) /\ base.items = <<>>
    BY IndexAssumption, NewListFits
  <2>2. QED
    BY <2>1 DEF DocList
<1> HIDE DEF Add, base, V
<1>6. \A v \in V, k \in 1..n : F[<<v, k>>] = Add(v, a[k].place) /\ F[<<v, k>>] \in V
  BY <1>4
<1> HIDE DEF F
<1>7. \A r \in SUBSET (1..n) : r # {} => r \ {Max(r)} \in SUBSET (1..n) /\ Max(r) \in 1..n
  BY <1>2, MaxIsGreatest
<1>8. StaysIn(V, n, F)
  BY <1>6 DEF StaysIn
<1>9. \E it : Lists(it)
  <2>1. PICK it \in [SUBSET (1..n) -> V] : FoldsBy(it, n, base, F)
    BY <1>2, <1>5, <1>8, FoldExists
  <2>2. ASSUME NEW r \in SUBSET (1..n) PROVE it[r] = NextDocs(it, r)
    <3>1. CASE r = {}
      BY <2>1, <3>1 DEF FoldsBy
    <3>2. CASE r # {}
      <4>1. it[r] = F[<<it[r \ {Max(r)}], Max(r)>>]
        BY <2>1, <3>2 DEF FoldsBy
      <4>2. it[r \ {Max(r)}] \in V /\ Max(r) \in 1..n
        BY <1>7, <2>1, <3>2
      <4>3. QED
        BY <1>6, <3>2, <4>1, <4>2
    <3>3. QED
      BY <3>1, <3>2
  <2> HIDE DEF NextDocs
  <2>3. QED
    BY <1>2, <2>1, <2>2
<1>10. Lists(iter)
  <2> HIDE DEF Lists
  <2>1. QED
    BY <1>9
<1> HIDE DEF iter
<1>11. GoesOnBy(iter, n, V, base, F)
  <2>1. ASSUME NEW r \in SUBSET (1..n) PROVE iter[r] = NextDocs(iter, r)
    <3> HIDE DEF NextDocs
    <3>1. QED
      BY <1>2, <1>10
  <2>2. ASSUME NEW r \in SUBSET (1..n), r # {}, iter[r \ {Max(r)}] \in V
        PROVE  iter[r] = F[<<iter[r \ {Max(r)}], Max(r)>>]
    <3>1. iter[r] = Add(iter[r \ {Max(r)}], a[Max(r)].place)
      BY <2>1, <2>2
    <3>2. Max(r) \in 1..n
      BY <1>7, <2>2
    <3>3. QED
      BY <1>6, <2>2, <3>1, <3>2
  <2>3. iter[{}] = base
    BY <2>1
  <2>4. QED
    BY <2>2, <2>3 DEF GoesOnBy
<1> HIDE DEF Lists
<1> DEFINE h == Values(iter, n)
<1>12. /\ h \in [0..n -> V] /\ h[0] = base /\ h[n] = iter[1..n]
       /\ \A k \in 0..n-1 : h[k+1] = F[<<h[k], k+1>>]
  <2> HIDE DEF h
  <2>1. /\ Values(iter, n) \in [0..n -> V]
        /\ Values(iter, n)[0] = base /\ Values(iter, n)[n] = iter[1..n]
        /\ \A k \in 0..n-1 : Values(iter, n)[k+1] = F[<<Values(iter, n)[k], k+1>>]
    BY <1>2, <1>5, <1>8, <1>11, FoldSteps
  <2>2. QED
    BY <2>1 DEF h
<1> HIDE DEF h
<1> DEFINE Right(k) == \A e : Has(h[k].items, e) <=> \E i \in 1..k : a[i].place = e
           U == {k \in Nat : k <= n => Right(k)}
<1>13. 0 \in U
  <2>1. Len(<<>>) = 0
    BY EmptySeq
  <2>2. QED
    BY <1>5, <1>12, <2>1 DEF Has
<1>14. ASSUME NEW k \in Nat, k \in U PROVE k+1 \in U
  <2> HIDE DEF Right
  <2>1. SUFFICES ASSUME k+1 <= n PROVE Right(k+1)
    OBVIOUS
  <2>2. k \in 0..n-1 /\ k+1 \in 1..n /\ k <= n /\ k \in 0..n
    BY <1>2, <2>1
  <2>3. Right(k)
    BY <1>14, <2>2
  <2> HIDE DEF U
  <2>4. h[k] \in V /\ h[k+1] = Add(h[k], a[k+1].place)
    BY <1>6, <1>12, <2>2
  <2>5. \A e : Has(h[k+1].items, e) <=> Has(h[k].items, e) \/ e = a[k+1].place
    BY <1>4, <2>2, <2>4
  <2>6. \A j : j \in 1..k+1 <=> j \in 1..k \/ j = k+1
    OBVIOUS
  <2>7. QED
    BY <2>3, <2>5, <2>6 DEF Right
<1>15. n \in U /\ n <= n
  <2> HIDE DEF U
  <2>1. QED
    BY <1>2, <1>13, <1>14, Induction
<1>16. Right(n)
  <2> HIDE DEF Right
  <2>1. QED
    BY <1>15
<1>17. n \in 0..n /\ h[n] \in V /\ DocsToSearch(q) = h[n].items
  BY <1>2, <1>3, <1>12
<1>18. DocsToSearch(q) \in Seq(P)
  BY <1>17 DEF V, DocList, ListOf
<1>19. \A i, j \in 1..Len(DocsToSearch(q)) :
         DocsToSearch(q)[i] = DocsToSearch(q)[j] => i = j
  BY <1>17 DEF V, DocList
<1>20. \A d : Has(DocsToSearch(q), d) <=> HasPlace(a, d)
  BY <1>16, <1>17 DEF HasPlace, n
<1>21. QED
  BY <1>1, <1>18, <1>19, <1>20

-----------------------------------------------------------------------------
(* The index after each document.                                          *)

\* PastMinusOne for any list of texts.
Past(t) == /\ t.items # <<>> /\ t.start_from <= -1
           /\ t.start_from + Len(t.items) > -1

\* The trie tr counts the words of the texts t, and of nothing else.
Counted(tr, t) ==
  \A w \in Word : \A d \in Int :
    /\ InRange(t, d) => Times(tr[w], d) = CountIn(Value(t, d), Len(Value(t, d)), w)
    /\ ~InRange(t, d) => Times(tr[w], d) = 0

\* Only places of S are in the trie.
Within(tr, S) == \A w \in Word : \A q \in Int : Times(tr[w], q) # 0 => q \in S

Spread(tr, n) == \E S \in SUBSET Int : IsFiniteSet(S) /\ Cardinality(S) <= n /\ Within(tr, S)

\* c: cur_id, t: texts, s: words, tr: trie.
IndexState(c, t, s, tr) ==
  /\ c \in Int /\ t \in ListOf(Seq(Word)) /\ s \in ListOf(Nat) /\ tr \in Tries(Int)
  /\ Len(t.items) = Len(s.items) /\ t.start_from = s.start_from
  /\ Spread(tr, Len(t.items))
  /\ t.items = <<>> => c = 0
  /\ t.items # <<>> /\ ~Past(t) => c = t.start_from + Len(t.items)
  /\ ~Past(t) => Counted(tr, t)

LEMMA StartFromFits ==
  ASSUME NEW S, NEW l \in ListOf(S), NEW id \in Int, NEW x \in S
  PROVE  LET m == AppendElement(StartFrom(l, id), x)
             n == Len(l.items)
         IN  /\ m \in ListOf(S) /\ n \in Nat /\ Len(m.items) = n+1
             /\ m.items[n+1] = x /\ \A k \in 1..n : m.items[k] = l.items[k]
             /\ (n = 0) = (l.items = <<>>) /\ m.items # <<>>
             /\ n = 0 => m.start_from = id
             /\ n # 0 => m.start_from = l.start_from
<1> DEFINE m == AppendElement(StartFrom(l, id), x)
           n == Len(l.items)
<1>1. /\ l \in [items : Seq(S), allocated : Nat, start_from : Int]
      /\ l.items \in Seq(S) /\ l.allocated > 1 /\ n <= l.allocated /\ l.start_from \in Int
  BY DEF ListOf
<1>2. n \in Nat /\ (n = 0) = (l.items = <<>>)
  BY <1>1, LenProperties, EmptySeq
<1>3. /\ StartFrom(l, id) \in ListOf(S) /\ StartFrom(l, id).items = l.items
      /\ l.items = <<>> => StartFrom(l, id).start_from = id
      /\ l.items # <<>> => StartFrom(l, id).start_from = l.start_from
  BY <1>1 DEF StartFrom, ListOf
<1>4. /\ m \in ListOf(S) /\ m.items = Append(l.items, x)
      /\ m.start_from = StartFrom(l, id).start_from
  BY <1>3, AppendFits
<1>5. /\ Len(Append(l.items, x)) = n+1 /\ Append(l.items, x)[n+1] = x
      /\ \A k \in 1..n : Append(l.items, x)[k] = l.items[k]
  BY <1>1, AppendProperties
<1> HIDE DEF m
<1>6. m.items # <<>>
  BY <1>2, <1>4, <1>5, EmptySeq
<1>7. QED
  BY <1>2, <1>3, <1>4, <1>5, <1>6 DEF m

LEMMA Added ==
  ASSUME NEW c, NEW t, NEW s, NEW tr, IndexState(c, t, s, tr),
         NEW id \in Int, NEW text \in Seq(Word), c = 0 \/ c = id
  PROVE  LET t2 == AppendElement(StartFrom(t, id), text)
         IN  /\ IndexState(id + 1, t2, AppendElement(StartFrom(s, id), Len(text)),
                           AddWords(tr, text, id))
             /\ Len(t2.items) = Len(t.items) + 1
<1> DEFINE t2 == AppendElement(StartFrom(t, id), text)
           s2 == AppendElement(StartFrom(s, id), Len(text))
           tr2 == AddWords(tr, text, id)
           n == Len(t.items)
<1>1. /\ t \in ListOf(Seq(Word)) /\ s \in ListOf(Nat) /\ tr \in Tries(Int)
      /\ Len(text) \in Nat /\ t.start_from \in Int /\ n = Len(s.items)
      /\ t.start_from = s.start_from
  BY LenProperties DEF IndexState, ListOf
<1>2. /\ t2 \in ListOf(Seq(Word)) /\ n \in Nat /\ Len(t2.items) = n+1
      /\ t2.items[n+1] = text /\ \A k \in 1..n : t2.items[k] = t.items[k]
      /\ (n = 0) = (t.items = <<>>) /\ t2.items # <<>>
      /\ n = 0 => t2.start_from = id
      /\ n # 0 => t2.start_from = t.start_from
  BY <1>1, StartFromFits
<1>3. /\ s2 \in ListOf(Nat) /\ Len(s2.items) = n+1
      /\ n = 0 => s2.start_from = id
      /\ n # 0 => s2.start_from = s.start_from
  BY <1>1, StartFromFits
<1>4. /\ tr2 \in Tries(Int)
      /\ \A u \in Word :
           /\ Times(tr2[u], id) = Times(tr[u], id) + CountIn(text, Len(text), u)
           /\ \A q : q # id => Times(tr2[u], q) = Times(tr[u], q)
  <2> HIDE DEF t2, s2, n
  <2>1. tr \in Tries(Int) /\ id \in Int /\ text \in Seq(Word)
    BY <1>1
  <2>2. QED
    BY <2>1, AddWordsCounts
<1> HIDE DEF t2, s2, tr2
<1>5. Spread(tr2, n+1)
  <2>1. PICK S \in SUBSET Int : IsFiniteSet(S) /\ Cardinality(S) <= n /\ Within(tr, S)
    BY DEF IndexState, Spread
  <2>2. /\ IsFiniteSet(S \cup {id})
        /\ Cardinality(S \cup {id}) <= Cardinality(S) + 1 /\ Cardinality(S) \in Nat
    <3>1. Cardinality(S) \in Nat
      BY <2>1, FS_CardinalityType
    <3>2. CASE id \in S
      <4>1. S \cup {id} = S
        BY <3>2
      <4>2. IsFiniteSet(S \cup {id}) /\ Cardinality(S \cup {id}) = Cardinality(S)
        BY <2>1, <4>1, Zenon
      <4>3. QED
        BY <3>1, <4>2
    <3>3. CASE id \notin S
      <4>1. IsFiniteSet(S \cup {id}) /\ Cardinality(S \cup {id}) = Cardinality(S) + 1
        BY <2>1, <3>3, FS_AddElement, Zenon
      <4>2. QED
        BY <3>1, <4>1
    <3>4. QED
      BY <3>2, <3>3
  <2>3. Cardinality(S \cup {id}) <= n+1
    <3>1. Cardinality(S \cup {id}) \in Nat
      BY <2>2, FS_CardinalityType
    <3>2. QED
      BY <1>2, <2>1, <2>2, <3>1
  <2>4. Within(tr2, S \cup {id})
    BY <1>4, <2>1 DEF Within
  <2>5. S \cup {id} \in SUBSET Int
    OBVIOUS
  <2>6. QED
    BY <2>2, <2>3, <2>4, <2>5 DEF Spread
<1>6. ASSUME ~Past(t2)
      PROVE  ~Past(t) /\ id = t2.start_from + n
  <2>1. CASE n = 0
    BY <1>2, <2>1 DEF Past
  <2>2. CASE n # 0
    <3>1. ~Past(t)
      BY <1>1, <1>2, <1>6, <2>2 DEF Past
    <3>2. c = t.start_from + n
      BY <1>2, <2>2, <3>1 DEF IndexState
    <3>3. c # 0
      BY <1>1, <1>2, <2>2, <3>1, <3>2 DEF Past
    <3>4. QED
      BY <1>2, <2>2, <3>1, <3>2, <3>3
  <2>3. QED
    BY <2>1, <2>2
<1>7. ASSUME ~Past(t2) PROVE Counted(tr2, t2)
  <2>1. ~Past(t) /\ id = t2.start_from + n /\ Counted(tr, t)
    BY <1>6, <1>7 DEF IndexState
  <2>2. ASSUME NEW w \in Word, NEW d \in Int
        PROVE  /\ InRange(t2, d) => Times(tr2[w], d) = CountIn(Value(t2, d), Len(Value(t2, d)), w)
               /\ ~InRange(t2, d) => Times(tr2[w], d) = 0
    <3>0. n \in Nat /\ t2.start_from \in Int /\ id - t2.start_from = n
      BY <1>1, <1>2, <2>1
    <3>1. InRange(t2, id) /\ Value(t2, id) = text /\ ~InRange(t, id)
      <4>1. InRange(t2, id) /\ Value(t2, id) = text
        BY <1>2, <3>0 DEF InRange, Value
      <4>2. CASE n = 0
        BY <1>1, <4>1, <4>2 DEF InRange
      <4>3. CASE n # 0
        BY <1>1, <1>2, <3>0, <4>1, <4>3 DEF InRange
      <4>4. QED
        BY <4>1, <4>2, <4>3
    <3>2. CASE d = id
      <4>1. Times(tr[w], id) = 0
        BY <2>1, <3>1 DEF Counted
      <4>2. CountIn(text, Len(text), w) \in Nat
        BY <1>1, CountNext
      <4>3. Times(tr2[w], id) = 0 + CountIn(text, Len(text), w)
        BY <1>4, <4>1
      <4>4. QED
        BY <3>1, <3>2, <4>2, <4>3
    <3>3. CASE d # id
      <4>1. Times(tr2[w], d) = Times(tr[w], d)
        BY <1>4, <3>3
      <4>2. InRange(t2, d) <=> InRange(t, d)
        <5>1. CASE n = 0
          BY <1>2, <3>0, <3>3, <5>1 DEF InRange
        <5>2. CASE n # 0
          BY <1>2, <3>0, <3>3, <5>2 DEF InRange
        <5>3. QED
          BY <5>1, <5>2
      <4>3. InRange(t, d) => Value(t2, d) = Value(t, d)
        <5>1. SUFFICES ASSUME InRange(t, d) PROVE Value(t2, d) = Value(t, d)
          OBVIOUS
        <5>2. n # 0 /\ d - t.start_from + 1 \in 1..n
          BY <1>1, <1>2, <5>1 DEF InRange
        <5>3. QED
          BY <1>2, <5>2 DEF Value
      <4>4. QED
        BY <2>1, <4>1, <4>2, <4>3 DEF Counted
    <3>4. QED
      BY <3>2, <3>3
  <2>3. QED
    BY <2>2 DEF Counted
<1>8. ~Past(t2) => id + 1 = t2.start_from + Len(t2.items)
  <2>1. t2.start_from \in Int
    BY <1>1, <1>2
  <2>2. QED
    BY <1>2, <1>6, <2>1
<1>9. t2.start_from = s2.start_from
  BY <1>1, <1>2, <1>3
<1>10. IndexState(id + 1, t2, s2, tr2)
  BY <1>2, <1>3, <1>4, <1>5, <1>7, <1>8, <1>9 DEF IndexState
<1>11. QED
  BY <1>2, <1>10 DEF t2, s2, tr2

-----------------------------------------------------------------------------
(* The inductive invariant: what is read.                                  *)

Pcs == {"read", "ready", "sort", "print", "row", "exit", "assert", "crash"}

ReadInv == /\ pc \in Pcs
           /\ IndexState(cur_id, texts, words, trie)
           /\ file \in Seq(Line)
           /\ Len(texts.items) + Len(file) <= MaxResults

LEMMA ReadInit == EngineInit => ReadInv
<1> SUFFICES ASSUME EngineInit PROVE ReadInv
  OBVIOUS
<1>1. /\ texts \in ListOf(Seq(Word)) /\ words \in ListOf(Nat) /\ trie \in Tries(Int)
      /\ texts.items = <<>> /\ words.items = <<>> /\ texts.start_from = words.start_from
      /\ \A w \in Word : \A q : Times(trie[w], q) = 0
  BY IndexAssumption, NewListFits, NewTrieIsEmpty DEF EngineInit
<1>2. Len(texts.items) = 0 /\ texts.start_from \in Int /\ cur_id = 0
  BY <1>1, EmptySeq DEF EngineInit, ListOf
<1>3. Spread(trie, 0)
  <2>1. IsFiniteSet({}) /\ Cardinality({}) = 0
    BY FS_EmptySet
  <2>2. {} \in SUBSET Int /\ Within(trie, {})
    BY <1>1 DEF Within
  <2>3. QED
    BY <2>1, <2>2 DEF Spread
<1>4. Counted(trie, texts)
  BY <1>1, <1>2 DEF Counted, InRange
<1>5. IndexState(cur_id, texts, words, trie)
  BY <1>1, <1>2, <1>3, <1>4 DEF IndexState
<1>6. file \in Seq(Line) /\ Len(file) <= MaxResults /\ pc = "read"
  BY SearchEngineAssumption DEF EngineInit
<1>7. Len(file) \in Nat
  BY <1>6, LenProperties
<1>8. QED
  BY <1>2, <1>5, <1>6, <1>7 DEF ReadInv, Pcs

\* Reading a document keeps the invariant, and never takes PastMinusOne back.
LEMMA AddDocumentStep ==
  ASSUME ReadInv, NEW id \in Int, NEW text \in Seq(Word), AddDocument(id, text), pc = "read",
         file' \in Seq(Line), Len(file') < Len(file)
  PROVE  ReadInv' /\ pc' \in {"read", "exit"}
<1>1. /\ Len(file') \in Nat /\ Len(file) \in Nat /\ Len(texts.items) \in Nat
      /\ Len(texts.items) + Len(file) <= MaxResults /\ MaxResults \in Nat
  BY LenProperties, RankingAssumption DEF ReadInv, IndexState, ListOf
<1>2. IndexState(cur_id, texts, words, trie)
  BY DEF ReadInv
<1>3. CASE cur_id # 0 /\ cur_id # id
  <2>1. /\ pc' = "exit" /\ cur_id' = cur_id /\ texts' = texts /\ words' = words /\ trie' = trie
    BY <1>3 DEF AddDocument
  <2>2. IndexState(cur_id', texts', words', trie')
    BY <1>2, <2>1
  <2>3. Len(texts'.items) + Len(file') <= MaxResults
    BY <1>1, <2>1
  <2>4. QED
    BY <2>1, <2>2, <2>3 DEF ReadInv, Pcs
<1>4. CASE cur_id = 0 \/ cur_id = id
  <2>1. /\ cur_id' = id + 1
        /\ texts' = AppendElement(StartFrom(texts, id), text)
        /\ words' = AppendElement(StartFrom(words, id), Len(text))
        /\ trie' = AddWords(trie, text, id)
        /\ pc' = pc
    BY <1>4 DEF AddDocument
  <2>2. /\ IndexState(id + 1, AppendElement(StartFrom(texts, id), text),
                      AppendElement(StartFrom(words, id), Len(text)), AddWords(trie, text, id))
        /\ Len(AppendElement(StartFrom(texts, id), text).items) = Len(texts.items) + 1
    BY <1>2, <1>4, Added
  <2>3. IndexState(cur_id', texts', words', trie') /\ Len(texts'.items) = Len(texts.items) + 1
    BY <2>1, <2>2
  <2>4. Len(texts'.items) + Len(file') <= MaxResults
    BY <1>1, <2>3
  <2>5. QED
    BY <2>1, <2>3, <2>4 DEF ReadInv, Pcs
<1>5. QED
  BY <1>3, <1>4

LEMMA ReadStep ==
  ASSUME ReadInv, ReadDocument
  PROVE  ReadInv' /\ pc' \in {"read", "exit"}
<1> DEFINE line == Head(file)
           following == Tail(file)
<1>1. /\ pc = "read" /\ file \in Seq(Line) /\ file # <<>>
      /\ line \in Line /\ following \in Seq(Line)
      /\ Len(following) \in Nat /\ Len(following) = Len(file) - 1 /\ Len(file) \in Nat
  BY HeadTailProperties, LenProperties DEF ReadInv, ReadDocument
<1> HIDE DEF line, following
<1>2. line.id \in Int /\ line.text \in Seq(Word)
  BY <1>1 DEF Line
<1>3. CASE line.text # <<>>
  <2>1. AddDocument(line.id, line.text) /\ file' = following
    BY <1>3 DEF ReadDocument, line, following
  <2>2. Len(file') < Len(file)
    BY <1>1, <2>1
  <2>3. QED
    BY <1>1, <1>2, <2>1, <2>2, AddDocumentStep
<1>4. CASE line.text = <<>> /\ following # <<>>
  <2> DEFINE text == <<ToString(following[1].id)>> \o following[1].text
  <2>1. AddDocument(line.id, text) /\ file' = Tail(following)
    BY <1>4 DEF ReadDocument, line, following
  <2>2. /\ following[1] \in Line /\ Tail(following) \in Seq(Line)
        /\ Len(Tail(following)) = Len(following) - 1
    BY <1>1, <1>4, HeadTailProperties
  <2>3. ToString(following[1].id) \in Word /\ following[1].text \in Seq(Word)
    BY <2>2 DEF Line
  <2>4. <<ToString(following[1].id)>> \in Seq(Word)
    BY <2>3
  <2>5. text \in Seq(Word)
    BY <2>3, <2>4, ConcatProperties
  <2> HIDE DEF text
  <2>6. file' \in Seq(Line) /\ Len(file') < Len(file)
    BY <1>1, <2>1, <2>2
  <2>7. QED
    BY <1>1, <1>2, <2>1, <2>5, <2>6, AddDocumentStep
<1>5. CASE line.text = <<>> /\ following = <<>>
  <2>1. pc' = "exit" /\ UNCHANGED reader
    BY <1>5 DEF ReadDocument, line, following
  <2>2. QED
    BY <2>1 DEF ReadInv, reader, Pcs, IndexState
<1>6. QED
  BY <1>3, <1>4, <1>5

\* No other step changes the index.
LEMMA OthersKeepIndex ==
  ASSUME ReadInv, UNCHANGED reader, pc' \in Pcs
  PROVE  ReadInv'
BY DEF ReadInv, reader, IndexState

-----------------------------------------------------------------------------
(* The index is exact.                                                     *)

LEMMA TextsAre ==
  ASSUME ReadInv
  PROVE  /\ trie \in Tries(Int) /\ texts \in ListOf(Seq(Word)) /\ Len(texts.items) \in Nat
         /\ \A d \in Int : InRange(texts, d) <=> d \in Document
         /\ Document \subseteq Int
         /\ \A d \in Document : /\ Value(texts, d) \in Seq(Word)
                                /\ DOMAIN Value(texts, d) = 1..Len(Value(texts, d))
                                /\ \A w : OccurrencesIn(d, w)
                                            = CountIn(Value(texts, d), Len(Value(texts, d)), w)
         /\ ~PastMinusOne => Counted(trie, texts)
<1>1. /\ trie \in Tries(Int) /\ texts \in ListOf(Seq(Word))
      /\ texts.items \in Seq(Seq(Word)) /\ texts.start_from \in Int
  BY DEF ReadInv, IndexState, ListOf
<1>2. Len(texts.items) \in Nat
  BY <1>1, LenProperties
<1>3. \A d \in Int : InRange(texts, d) <=> d \in Document
  BY <1>1, <1>2 DEF InRange, Document
<1>4. Document \subseteq Int
  BY <1>1, <1>2 DEF Document
<1>5. ASSUME NEW d \in Document
      PROVE  /\ Value(texts, d) \in Seq(Word)
             /\ DOMAIN Value(texts, d) = 1..Len(Value(texts, d))
             /\ \A w : OccurrencesIn(d, w) = CountIn(Value(texts, d), Len(Value(texts, d)), w)
  <2>1. d - texts.start_from + 1 \in 1..Len(texts.items)
    BY <1>1, <1>2 DEF Document
  <2>2. Value(texts, d) \in Seq(Word)
    BY <1>1, <2>1, ElementOfSeq DEF Value
  <2>3. DOMAIN Value(texts, d) = 1..Len(Value(texts, d))
    BY <2>2, LenProperties
  <2>4. QED
    BY <2>2, <2>3 DEF OccurrencesIn, Positions, CountIn
<1>6. ~PastMinusOne => Counted(trie, texts)
  BY DEF ReadInv, IndexState, PastMinusOne, Past
<1>7. QED
  BY <1>1, <1>2, <1>3, <1>4, <1>5, <1>6

LEMMA FinitePositions ==
  ASSUME ReadInv, NEW d \in Document, NEW word
  PROVE  IsFiniteSet(Positions(d, word))
<1> DEFINE text == Value(texts, d)
<1>1. text \in Seq(Word) /\ DOMAIN text = 1..Len(text)
  BY TextsAre
<1>2. Len(text) \in Nat
  BY <1>1, LenProperties
<1>3. Positions(d, word) \in SUBSET (1..Len(text))
  BY <1>1 DEF Positions
<1>4. IsFiniteSet(1..Len(text))
  BY <1>2, FS_Interval
<1> HIDE DEF text
<1>5. QED
  BY <1>3, <1>4, FS_Subset

\* What is in the index is a document, and counted right.
LEMMA TimesAreRight ==
  ASSUME ReadInv, ~PastMinusOne, NEW w \in Word
  PROVE  /\ \A d \in Document : Times(trie[w], d) = OccurrencesIn(d, w)
         /\ \A d : Times(trie[w], d) # 0 => d \in Document
<1>1. trie[w] \in PostingList(Int) /\ Counted(trie, texts)
  BY TextsAre DEF Tries
<1>2. ASSUME NEW d \in Document PROVE Times(trie[w], d) = OccurrencesIn(d, w)
  BY <1>1, TextsAre DEF Counted
<1>3. ASSUME NEW d, Times(trie[w], d) # 0 PROVE d \in Document
  <2>1. PICK j \in 1..Len(trie[w].items) : trie[w].items[j].place = d
    BY <1>1, <1>3, TimesType
  <2>2. trie[w].items \in Seq(Posting(Int))
    BY <1>1 DEF PostingList, ListOf
  <2>3. d \in Int
    <3>1. trie[w].items[j] \in Posting(Int)
      BY <2>2, ElementOfSeq
    <3>2. QED
      BY <2>1, <3>1 DEF Posting
  <2>4. QED
    BY <1>1, <1>3, <2>3, TextsAre DEF Counted
<1>4. QED
  BY <1>2, <1>3

\* /df: the sum over the postings is one for each occurrence in a document.
LEMMA DfCountsOccurrences ==
  ASSUME ReadInv, ~PastMinusOne, NEW word \in Word
  PROVE  AppearanceTimes(word, -1) = Cardinality(Occurrences(word))
<1> DEFINE l == trie[word]
           s == l.items
           n == Len(s)
           tag == [j \in 1..n |-> s[j].place]
           D == [j \in 1..n |-> Positions(s[j].place, word)]
<1>1. PICK h : /\ h \in [0..n -> Nat]
              /\ h[0] = 0 /\ h[n] = AppearanceTimes(word, -1)
              /\ \A k \in 0..n-1 : h[k+1] = h[k] + s[k+1].times
  <2>1. PICK h : SumsAlong(h, s, -1) /\ h[n] = AppearanceTimes(word, -1)
    <3>1. trie \in Tries(Int) /\ -1 \in Int
      BY TextsAre
    <3>2. QED
      BY <3>1, AppearanceTimesAdds
  <2>2. -1 < 0
    OBVIOUS
  <2>3. h \in [0..n -> Nat] /\ h[0] = 0 /\ \A k \in 0..n-1 : h[k+1] = h[k] + s[k+1].times
    BY <2>1, <2>2 DEF SumsAlong
  <2>4. QED
    BY <2>1, <2>3
<1>2. l \in PostingList(Int) /\ s \in Seq(Posting(Int)) /\ n \in Nat
  <2>1. l \in PostingList(Int) /\ s \in Seq(Posting(Int))
    BY TextsAre DEF Tries, PostingList, ListOf
  <2>2. QED
    BY <2>1, LenProperties
<1>3. ASSUME NEW j \in 1..n
      PROVE  /\ s[j].place \in Document
             /\ IsFiniteSet(D[j]) /\ Cardinality(D[j]) = s[j].times
  <2>1. s[j] \in Posting(Int)
    BY <1>2, ElementOfSeq
  <2>2. Times(l, s[j].place) = s[j].times /\ s[j].times # 0
    BY <1>2, <2>1, TimesAt DEF Posting
  <2>3. s[j].place \in Document
    BY <2>2, TimesAreRight
  <2>4. Cardinality(D[j]) = s[j].times
    BY <2>2, <2>3, TimesAreRight DEF OccurrencesIn
  <2>5. IsFiniteSet(D[j])
    BY <2>3, FinitePositions
  <2>6. QED
    BY <2>3, <2>4, <2>5
<1>4. Different(tag, n)
  BY <1>2 DEF Different, PostingList
<1>5. AllFinite(D, n)
  BY <1>3 DEF AllFinite
<1>6. Blocks(tag, D, n) = Occurrences(word)
  <2>1. ASSUME NEW e \in Blocks(tag, D, n) PROVE e \in Occurrences(word)
    <3>1. PICK j \in 1..n : e \in {tag[j]} \X D[j]
      BY <2>1 DEF Blocks
    <3>2. e \in {s[j].place} \X Positions(s[j].place, word)
      BY <3>1
    <3>3. s[j].place \in Document
      BY <1>3
    <3>4. QED
      BY <3>2, <3>3 DEF Occurrences
  <2>2. ASSUME NEW e \in Occurrences(word) PROVE e \in Blocks(tag, D, n)
    <3>1. PICK d \in Document : e \in {d} \X Positions(d, word)
      BY <2>2 DEF Occurrences
    <3>2. Positions(d, word) # {}
      BY <3>1
    <3>3. Cardinality(Positions(d, word)) # 0
      BY <3>2, FinitePositions, FS_EmptySet
    <3>4. Times(l, d) # 0
      BY <3>3, TimesAreRight DEF OccurrencesIn
    <3>5. PICK j \in 1..n : s[j].place = d
      BY <1>2, <3>4, TimesType
    <3>6. e \in {tag[j]} \X D[j]
      BY <3>1, <3>5
    <3>7. QED
      BY <3>6 DEF Blocks
  <2>3. QED
    BY <2>1, <2>2
<1>7. /\ Cardinality(Blocks(tag, D, 0)) = 0
      /\ \A k \in 0..n : Cardinality(Blocks(tag, D, k)) \in Nat
      /\ \A k \in 0..n-1 : Cardinality(Blocks(tag, D, k+1))
                             = Cardinality(Blocks(tag, D, k)) + Cardinality(D[k+1])
  <2> HIDE DEF tag, D, n
  <2>1. QED
    BY <1>2, <1>4, <1>5, BlocksAdd DEF Adding
<1>8. ASSUME NEW k \in 0..n-1 PROVE Cardinality(D[k+1]) = s[k+1].times
  <2>1. k+1 \in 1..n
    BY <1>2
  <2> HIDE DEF D, s, n
  <2>2. QED
    BY <1>3, <2>1
<1> HIDE DEF tag, D, s, n
<1> DEFINE Right(k) == h[k] = Cardinality(Blocks(tag, D, k))
           U == {k \in Nat : k <= n => Right(k)}
<1>9. 0 \in U
  BY <1>1, <1>7
<1>10. ASSUME NEW k \in Nat, k \in U PROVE k+1 \in U
  <2>1. CASE k+1 <= n
    <3>1. k \in 0..n-1 /\ Right(k)
      BY <1>2, <1>10, <2>1
    <3>2. h[k+1] = h[k] + s[k+1].times
      BY <1>1, <3>1
    <3>3. QED
      BY <1>7, <1>8, <3>1, <3>2
  <2>2. QED
    BY <2>1
<1>11. n \in U
  <2> HIDE DEF U
  <2>1. QED
    BY <1>2, <1>9, <1>10, Induction
<1>12. h[n] = Cardinality(Blocks(tag, D, n))
  BY <1>2, <1>11
<1>13. QED
  BY <1>1, <1>6, <1>12

LEMMA ExactFollows == ReadInv => IndexIsExact
<1> SUFFICES ASSUME ReadInv, ~PastMinusOne, NEW word \in Word
             PROVE  /\ \A p \in Range(trie[word].items) : p.place \in Document
                    /\ \A d \in Document : d >= 0 =>
                         AppearanceTimes(word, d) = OccurrencesIn(d, word)
                    /\ AppearanceTimes(word, -1) = Cardinality(Occurrences(word))
                    /\ (\A d \in Document : OccurrencesIn(d, word) = 0) <=> word \notin AllWords
  BY DEF IndexIsExact
<1> DEFINE l == trie[word]
<1>1. /\ l \in PostingList(Int) /\ l.items \in Seq(Posting(Int)) /\ Document \subseteq Int
      /\ Len(l.items) \in Nat /\ DOMAIN l.items = 1..Len(l.items)
  <2>1. l \in PostingList(Int) /\ l.items \in Seq(Posting(Int)) /\ Document \subseteq Int
    BY TextsAre DEF Tries, PostingList, ListOf
  <2>2. QED
    BY <2>1, LenProperties
<1>2. ASSUME NEW j \in 1..Len(l.items)
      PROVE  Times(l, l.items[j].place) # 0
  <2>1. l.items[j] \in Posting(Int)
    BY <1>1, ElementOfSeq
  <2>2. Times(l, l.items[j].place) = l.items[j].times
    BY <1>1, TimesAt
  <2>3. QED
    BY <2>1, <2>2 DEF Posting
<1>3. ASSUME NEW p \in Range(l.items) PROVE p.place \in Document
  <2>1. PICK j \in 1..Len(l.items) : p = l.items[j]
    BY <1>1 DEF Range
  <2>2. QED
    BY <1>2, <2>1, TimesAreRight
<1>4. ASSUME NEW d \in Document, d >= 0 PROVE AppearanceTimes(word, d) = OccurrencesIn(d, word)
  <2>1. d \in Nat /\ trie \in Tries(Int)
    BY <1>1, <1>4, TextsAre
  <2>2. QED
    BY <2>1, AppearanceTimesIsTimes, TimesAreRight
<1>5. ASSUME word \notin AllWords, NEW d \in Document PROVE OccurrencesIn(d, word) = 0
  <2>1. l.items = <<>>
    BY <1>5 DEF AllWords
  <2>2. Len(l.items) = 0
    BY <2>1, EmptySeq
  <2>3. Times(l, d) = 0
    BY <1>1, <2>2, TimesType
  <2>4. QED
    BY <2>3, TimesAreRight
<1>6. ASSUME word \in AllWords PROVE \E d \in Document : OccurrencesIn(d, word) # 0
  <2>1. 1 \in 1..Len(l.items)
    BY <1>1, <1>6, EmptySeq DEF AllWords
  <2>2. Times(l, l.items[1].place) # 0
    BY <1>2, <2>1
  <2>3. QED
    BY <2>2, TimesAreRight
<1>7. AppearanceTimes(word, -1) = Cardinality(Occurrences(word))
  BY DfCountsOccurrences
<1>8. QED
  BY <1>3, <1>4, <1>5, <1>6, <1>7

-----------------------------------------------------------------------------
(* The inductive invariant: what is found and sorted.                      *)

InputHas(n, d) == \E k \in 0..n-1 : input[k].doc = d

\* The n documents given to quickSort are in texts, have a word of the query,
\* and no two are the same.
FoundIn(n) ==
  /\ query \in Seq(Word)
  /\ \A k \in 0..n-1 : input[k].doc \in Int /\ InRange(texts, input[k].doc)
  /\ \A j, k \in 0..n-1 : input[j].doc = input[k].doc => j = k
  /\ \A d : InputHas(n, d) <=> HasOneOf(trie, Asked(query), d)

SearchInv ==
  IF pc \in {"sort", "print", "row"}
  THEN \E n \in 0..MaxResults : SortInv(n) /\ FoundIn(n) /\ (pc # "sort" => Sorted)
  ELSE list = <<>> /\ input = <<>>

LEMMA ListLength ==
  ASSUME NEW n \in Nat, IsList(list, n)
  PROVE  Results = n /\ DOMAIN list = 0..n-1
<1>1. DOMAIN list = 0..n-1
  BY DEF IsList
<1>2. Cardinality(0..n-1) = n
  BY FS_Interval
<1>3. QED
  BY <1>1, <1>2 DEF Results

\* Sorting neither loses a result nor makes one up.
LEMMA SortedFromInput ==
  ASSUME NEW n \in Nat, SortInv(n)
  PROVE  /\ \A k \in 0..n-1 : \E j \in 0..n-1 : list[k] = input[j]
         /\ \A j \in 0..n-1 : \E k \in 0..n-1 : list[k] = input[j]
<1>1. /\ DOMAIN list = 0..n-1 /\ DOMAIN input = 0..n-1
      /\ \A r : Copies(list, r) = Copies(input, r)
  BY DEF SortInv, IsList, SameCounts
<1>2. ASSUME NEW f, NEW r, DOMAIN f = 0..n-1
      PROVE  Copies(f, r) # 0 <=> \E k \in 0..n-1 : f[k] = r
  <2> DEFINE A == {k \in DOMAIN f : f[k] = r}
  <2>1. IsFiniteSet(0..n-1) /\ A \in SUBSET (0..n-1)
    BY <1>2, FS_Interval
  <2>2. IsFiniteSet(A)
    BY <2>1, FS_Subset
  <2>3. Cardinality(A) = 0 <=> A = {}
    <3> HIDE DEF A
    <3>1. QED
      BY <2>2, FS_EmptySet
  <2>4. QED
    BY <1>2, <2>3 DEF Copies
<1>3. ASSUME NEW k \in 0..n-1 PROVE \E j \in 0..n-1 : list[k] = input[j]
  <2>1. Copies(list, list[k]) # 0
    BY <1>1, <1>2
  <2>2. Copies(input, list[k]) # 0
    BY <1>1, <2>1
  <2>3. QED
    BY <1>1, <1>2, <2>2
<1>4. ASSUME NEW j \in 0..n-1 PROVE \E k \in 0..n-1 : list[k] = input[j]
  <2>1. Copies(input, input[j]) # 0
    BY <1>1, <1>2
  <2>2. Copies(list, input[j]) # 0
    BY <1>1, <2>1
  <2>3. QED
    BY <1>1, <1>2, <2>2
<1>5. QED
  BY <1>3, <1>4

LEMMA PastDocuments ==
  ASSUME ReadInv, NEW q \in Seq(Word)
  PROVE  /\ Len(DocsToSearch(q)) \in 0..MaxResults
         /\ \A k \in 1..Len(DocsToSearch(q)) : DocsToSearch(q)[k] \in Int
<1> DEFINE docs == DocsToSearch(q)
           n == Len(docs)
<1>1. /\ docs \in Seq(Int) /\ \A i, j \in 1..n : docs[i] = docs[j] => i = j
      /\ \A d : Has(docs, d) <=> HasOneOf(trie, Asked(q), d)
  BY DocsFound DEF ReadInv, IndexState
<1> HIDE DEF docs
<1>2. n \in Nat /\ \A k \in 1..n : docs[k] \in Int
  BY <1>1, LenProperties, ElementOfSeq
<1>3. PICK S \in SUBSET Int : /\ IsFiniteSet(S) /\ Cardinality(S) <= Len(texts.items)
                              /\ Within(trie, S)
  BY DEF ReadInv, IndexState, Spread
<1>4. ASSUME NEW k \in 1..n PROVE docs[k] \in S
  <2>1. HasOneOf(trie, Asked(q), docs[k])
    BY <1>1 DEF Has
  <2>2. PICK i \in 1..Len(Asked(q)) : Times(trie[Asked(q)[i]], docs[k]) # 0
    BY <2>1 DEF HasOneOf
  <2>3. Asked(q) \in Seq(Word)
    BY AskedFacts
  <2>4. Asked(q)[i] \in Word
    BY <2>3, ElementOfSeq
  <2>5. QED
    BY <1>2, <1>3, <2>2, <2>4 DEF Within
<1>5. n <= Cardinality(S)
  <2> DEFINE D == [k \in 1..n |-> docs[k]]
  <2>1. D \in Injection(1..n, S)
    BY <1>1, <1>4 DEF Injection, IsInjective
  <2>2. Cardinality(1..n) <= Cardinality(S)
    BY <1>3, <2>1, FS_Injection
  <2>3. \A m \in Nat : Cardinality(1..m) = m
    BY FS_Interval
  <2>4. QED
    BY <1>2, <2>2, <2>3
<1>6. Cardinality(S) \in Nat /\ Len(texts.items) \in Nat /\ Len(file) \in Nat /\ MaxResults \in Nat
      /\ Len(texts.items) + Len(file) <= MaxResults
  BY <1>3, FS_CardinalityType, LenProperties, TextsAre, RankingAssumption DEF ReadInv
<1>7. n \in 0..MaxResults
  BY <1>2, <1>3, <1>5, <1>6
<1>8. QED
  BY <1>2, <1>7 DEF docs

\* The results that a search hands to quickSort.
LEMMA SortStartsNext ==
  ASSUME NEW n
  PROVE  (Starts(n) => SortInv(n))'
<1>1. Starts(n) => SortInv(n)
  BY SortStarts
<1>2. QED
  BY <1>1, PTL

LEMMA SearchStep ==
  ASSUME ReadInv, SearchInv, NEW q \in Queries, SearchFor(q)
  PROVE  SearchInv' /\ pc' \in {"sort", "assert"} /\ (pc' = "assert" => PastMinusOne)
<1>0. PICK docs, n : docs = DocsToSearch(q) /\ n = Len(docs)
  OBVIOUS
<1>1. q \in Seq(Word) /\ pc = "ready"
  BY SearchEngineAssumption DEF SearchFor
<1>2. /\ \A i, j \in 1..n : docs[i] = docs[j] => i = j
      /\ \A d : Has(docs, d) <=> HasOneOf(trie, Asked(q), d)
  BY <1>0, <1>1, DocsFound DEF ReadInv, IndexState
<1>3. n \in 0..MaxResults /\ \A k \in 1..n : docs[k] \in Int
  BY <1>0, <1>1, PastDocuments
<1>4. CASE \E k \in 1..n : ~InRange(texts, docs[k])
  <2>1. pc' = "assert" /\ list' = list /\ input' = input
    BY <1>0, <1>4 DEF SearchFor, sorting
  <2>2. SearchInv'
    BY <1>1, <2>1 DEF SearchInv
  <2>3. PICK k \in 1..n : ~InRange(texts, docs[k])
    BY <1>4
  <2>4. HasOneOf(trie, Asked(q), docs[k]) /\ Asked(q) \in Seq(Word)
    BY <1>0, <1>1, <1>2, AskedFacts DEF Has
  <2>5. PICK i \in 1..Len(Asked(q)) : Times(trie[Asked(q)[i]], docs[k]) # 0
    BY <2>4 DEF HasOneOf
  <2>6. Asked(q)[i] \in Word
    BY <2>4, ElementOfSeq
  <2>7. ASSUME ~PastMinusOne PROVE FALSE
    <3>1. docs[k] \in Document
      BY <2>5, <2>6, <2>7, TimesAreRight
    <3>2. QED
      BY <1>3, <2>3, <3>1, TextsAre
  <2>8. QED
    BY <2>1, <2>2, <2>7
<1>5. CASE \A k \in 1..n : InRange(texts, docs[k])
  <2>1. PICK score \in [0..n-1 -> Score] :
          /\ list' = [k \in 0..n-1 |-> [doc |-> docs[k+1], score |-> score[k]]]
          /\ input' = list'
    BY <1>0, <1>5 DEF SearchFor
  <2>2. /\ calls' = <<[low |-> 0, high |-> n-1]>> /\ frame' = Idle /\ query' = q /\ pc' = "sort"
        /\ texts' = texts /\ trie' = trie
    BY <1>0, <1>5 DEF SearchFor, reader
  <2> DEFINE f == [k \in 0..n-1 |-> [doc |-> docs[k+1], score |-> score[k]]]
  <2>3. \A k \in 0..n-1 : f[k].doc = docs[k+1] /\ f[k].score \in Int
    <3>1. \A k \in 0..n-1 : score[k] \in Score
      OBVIOUS
    <3>2. Score \subseteq Int
      BY SearchEngineAssumption
    <3>3. QED
      BY <3>1, <3>2
  <2>4. f = [k \in 0..n-1 |-> f[k]]
    OBVIOUS
  <2>5. list' = f /\ input' = f
    BY <2>1
  <2> HIDE DEF f
  <2>6. IsList(list', n)
    BY <2>3, <2>4, <2>5 DEF IsList
  <2>7. Starts(n)'
    BY <1>3, <2>2, <2>5, <2>6 DEF Starts
  <2>8. SortInv(n)'
    BY <2>7, SortStartsNext
  <2>9. FoundIn(n)'
    <3>1. \A k \in 0..n-1 : k+1 \in 1..n
      BY <1>3
    <3>2. \A k \in 0..n-1 : input'[k].doc \in Int /\ InRange(texts, input'[k].doc)
      BY <1>3, <1>5, <2>3, <2>5, <3>1
    <3>3. \A j, k \in 0..n-1 : input'[j].doc = input'[k].doc => j = k
      <4>1. ASSUME NEW j \in 0..n-1, NEW k \in 0..n-1, input'[j].doc = input'[k].doc
            PROVE  j = k
        <5>1. docs[j+1] = docs[k+1]
          BY <2>3, <2>5, <4>1
        <5>2. j+1 = k+1
          BY <1>2, <3>1, <5>1
        <5>3. QED
          BY <5>2
      <4>2. QED
        BY <4>1
    <3>4. ASSUME NEW d PROVE (\E k \in 0..n-1 : input'[k].doc = d) <=> Has(docs, d)
      <4>1. ASSUME NEW k \in 0..n-1, input'[k].doc = d PROVE Has(docs, d)
        BY <1>0, <2>3, <2>5, <3>1, <4>1 DEF Has
      <4>2. ASSUME Has(docs, d) PROVE \E k \in 0..n-1 : input'[k].doc = d
        <5>1. PICK i \in 1..n : docs[i] = d
          BY <1>0, <4>2 DEF Has
        <5>2. i-1 \in 0..n-1 /\ (i-1)+1 = i
          BY <1>3
        <5>3. input'[i-1].doc = d
          BY <2>3, <2>5, <5>1, <5>2
        <5>4. QED
          BY <5>2, <5>3
      <4>3. QED
        BY <4>1, <4>2
    <3>5. QED
      BY <1>1, <1>2, <2>2, <3>2, <3>3, <3>4 DEF FoundIn, InputHas
  <2>10. SearchInv'
    BY <1>3, <2>2, <2>8, <2>9 DEF SearchInv
  <2>11. QED
    BY <2>2, <2>10
<1>6. QED
  BY <1>4, <1>5

LEMMA SortingStep ==
  ASSUME SearchInv, QuickSort \/ QuickSortReturns
  PROVE  SearchInv' /\ pc' \in {"sort", "print"} /\ pc = "sort"
<1>1. pc = "sort" /\ texts' = texts /\ trie' = trie /\ query' = query
  BY DEF QuickSort, QuickSortReturns, reader, printer
<1>2. PICK n \in 0..MaxResults : SortInv(n) /\ FoundIn(n)
  BY <1>1 DEF SearchInv
<1>3. input' = input
  BY DEF QuickSort, QuickSortReturns, sorting, SortStep, Return, CallPartition, Compare, PlacePivot
<1>4. FoundIn(n)'
  BY <1>1, <1>2, <1>3 DEF FoundIn, InputHas
<1>5. CASE QuickSort
  <2>1. SortStep /\ pc' = pc
    BY <1>5 DEF QuickSort
  <2>2. SortInv(n)'
    BY <1>2, <2>1, SortKeeps
  <2>3. QED
    BY <1>1, <1>4, <2>1, <2>2 DEF SearchInv
<1>6. CASE QuickSortReturns
  <2>1. pc' = "print" /\ Sorted /\ UNCHANGED sorting
    BY <1>6 DEF QuickSortReturns
  <2>2. SortInv(n)' /\ Sorted'
    BY <1>2, <2>1 DEF SortInv, IsList, SameCounts, CallsInv, FrameInv, Ordered,
                      InFrame, InCall, sorting, Sorted
  <2>3. QED
    BY <1>1, <1>4, <2>1, <2>2 DEF SearchInv
<1>7. QED
  BY <1>5, <1>6

\* Printing changes neither what was found nor its order.
LEMMA PrintingKeepsFound ==
  ASSUME SearchInv, pc \in {"print", "row"}, pc' \in {"print", "row"},
         UNCHANGED <<reader, sorting, query>>
  PROVE  SearchInv'
<1>1. PICK n \in 0..MaxResults : SortInv(n) /\ FoundIn(n) /\ Sorted
  BY DEF SearchInv
<1>2. SortInv(n)' /\ Sorted'
  BY <1>1 DEF SortInv, IsList, SameCounts, CallsInv, FrameInv, Ordered,
              InFrame, InCall, sorting, Sorted
<1>3. FoundIn(n)'
  BY <1>1 DEF FoundIn, InputHas, reader, sorting
<1>4. QED
  BY <1>1, <1>2, <1>3 DEF SearchInv

-----------------------------------------------------------------------------
(* The inductive invariant: where the printing is.                         *)

\* The code reckons with at most two places more than it has in pointer_line, and
\* the marks are behind the text by what the heading is too wide.
RowInv ==
  /\ cur_width = pos \/ cur_width = pos + 2
  /\ Off \in Nat /\ column = pos + Off
  /\ marks = {c - Off : c \in under}

PrintInv ==
  /\ rest \in Seq(Word) /\ pos \in Nat /\ column \in Nat /\ far \in Int
  /\ cur_width \in 0 .. Max({28, Width})
  /\ marks \subseteq 0 .. pos - 1 /\ under \subseteq 0 .. column - 1
  /\ first \in BOOLEAN
  /\ shown \in Nat /\ (pc \notin {"print", "row"} => shown = 0)
  /\ pc = "print" => shown <= Min({Results, K})
  /\ pc = "row" => shown < Min({Results, K}) /\ RowInv
  /\ Width >= 28 => far <= Width + 1

Blank == /\ rest = <<>> /\ pos = 0 /\ column = 0 /\ far = 0 /\ cur_width = 0
         /\ marks = {} /\ under = {} /\ first \in BOOLEAN /\ shown = 0

LEMMA Widths ==
  /\ Width \in Nat /\ K \in Nat \ {0}
  /\ Max({28, Width}) \in Nat /\ 28 <= Max({28, Width}) /\ Width <= Max({28, Width})
  /\ Width >= 28 => Max({28, Width}) = Width
<1>1. Width \in Nat /\ K \in Nat \ {0}
  BY SearchEngineAssumption
<1>2. Max({28, Width}) = IF 28 >= Width THEN 28 ELSE Width
  BY <1>1, MaxOfTwo
<1>3. QED
  BY <1>1, <1>2

LEMMA BlankPrints ==
  ASSUME Blank, pc \notin {"print", "row"}
  PROVE  PrintInv
<1>1. rest \in Seq(Word) /\ cur_width \in 0 .. Max({28, Width})
  BY Widths DEF Blank
<1>2. QED
  BY <1>1, Widths DEF Blank, PrintInv

LEMMA BlankPrintsNext ==
  (Blank /\ pc \notin {"print", "row"} => PrintInv)'
<1>1. Blank /\ pc \notin {"print", "row"} => PrintInv
  BY BlankPrints
<1>2. QED
  BY <1>1, PTL

\* The result that is printed next is one of the list, and of the texts.
LEMMA NextResult ==
  ASSUME ReadInv, SearchInv, PrintInv, pc \in {"print", "row"}, shown < Min({Results, K})
  PROVE  /\ shown \in DOMAIN list /\ list[shown].score \in Int /\ list[shown].doc \in Int
         /\ Value(texts, list[shown].doc) \in Seq(Word)
         /\ shown + 1 <= Min({Results, K})
<1>1. PICK n \in 0..MaxResults : SortInv(n) /\ FoundIn(n)
  BY DEF SearchInv
<1>2. n \in Nat /\ IsList(list, n)
  BY <1>1 DEF SortInv
<1>3. Results = n /\ DOMAIN list = 0..n-1
  BY <1>2, ListLength
<1>4. Min({Results, K}) = IF n <= K THEN n ELSE K
  BY <1>2, <1>3, Widths, MinOfTwo
<1>5. shown \in 0..n-1 /\ shown + 1 <= Min({Results, K})
  BY <1>2, <1>4, Widths DEF PrintInv
<1>6. PICK j \in 0..n-1 : list[shown] = input[j]
  BY <1>1, <1>2, <1>5, SortedFromInput
<1>7. list[shown].doc \in Int /\ InRange(texts, list[shown].doc)
  BY <1>1, <1>6 DEF FoundIn
<1>8. Value(texts, list[shown].doc) \in Seq(Word)
  BY <1>7, TextsAre
<1>9. list[shown].score \in Int
  BY <1>2, <1>5 DEF IsList
<1>10. QED
  BY <1>3, <1>5, <1>7, <1>8, <1>9

\* The heading is as wide as the code reckons with, or wider.
LEMMA HeadingIsWide ==
  ASSUME NEW i \in Int, NEW r, r.doc \in Int, r.score \in Int
  PROVE  HeadingWidth(i, r) \in Nat /\ HeadingWidth(i, r) >= 26
<1>1. ASSUME NEW n \in Int PROVE Printed(n) \in Nat /\ Printed(n) >= 1
  <2> DEFINE abs == IF n < 0 THEN -n ELSE n
             digits == {e \in 0..9 : abs >= 10^e}
             c == Cardinality(digits)
  <2>1. c \in Nat
    <3>1. IsFiniteSet(0..9)
      <4>1. 0 \in Int /\ 9 \in Int
        OBVIOUS
      <4> HIDE DEF digits
      <4>2. QED
        BY <4>1, FS_Interval
    <3>2. digits \in SUBSET (0..9)
      BY Zenon
    <3> HIDE DEF digits
    <3>3. QED
      BY <3>1, <3>2, FS_Subset, FS_CardinalityType
  <2>2. Printed(n) = Max({1, c}) + (IF n < 0 THEN 1 ELSE 0)
    BY DEF Printed
  <2> HIDE DEF c
  <2>3. Max({1, c}) = IF 1 >= c THEN 1 ELSE c
    BY <2>1, MaxOfTwo
  <2> DEFINE m == Max({1, c})
  <2>4. m \in Nat /\ m >= 1
    BY <2>1, <2>3
  <2> HIDE DEF m
  <2>5. Printed(n) = m + (IF n < 0 THEN 1 ELSE 0)
    BY <2>2 DEF m
  <2>6. QED
    BY <2>4, <2>5
<1>2. ASSUME NEW n \in Int PROVE Max({5, Printed(n)}) \in Nat /\ Max({5, Printed(n)}) >= 5
  <2> DEFINE p == Printed(n)
  <2>1. p \in Nat
    BY <1>1
  <2> HIDE DEF p
  <2>2. Max({5, p}) = IF 5 >= p THEN 5 ELSE p
    BY <2>1, MaxOfTwo
  <2>3. Max({5, p}) \in Nat /\ Max({5, p}) >= 5
    BY <2>1, <2>2
  <2>4. QED
    BY <2>3 DEF p
<1> DEFINE a == Max({5, Printed(i)})
           b == Max({5, Printed(r.doc)})
           c == Printed(r.score)
<1>3. a \in Nat /\ a >= 5 /\ b \in Nat /\ b >= 5 /\ c \in Nat /\ c >= 1
  BY <1>1, <1>2
<1>4. HeadingWidth(i, r) = a + b + c + 15
  BY DEF HeadingWidth
<1> HIDE DEF a, b, c
<1>5. QED
  BY <1>3, <1>4

LEMMA StartResultStep ==
  ASSUME ReadInv, SearchInv, PrintInv, StartResult
  PROVE  PrintInv'
<1>1. /\ pc = "print" /\ shown < Min({Results, K}) /\ pc' = "row"
      /\ rest' = Value(texts, list[shown].doc)
      /\ column' = HeadingWidth(shown, list[shown])
      /\ cur_width' = 28 /\ pos' = 26 /\ marks' = {} /\ under' = {} /\ far' = Width - 1
      /\ list' = list /\ shown' = shown /\ first' = TRUE
  BY DEF StartResult, sorting
<1>2. shown \in Nat /\ Results' = Results /\ rest' \in Seq(Word)
  BY <1>1, NextResult DEF PrintInv, Results
<1>3. RowInv' /\ column' \in Nat
  <2>1. list[shown].doc \in Int /\ list[shown].score \in Int
    BY <1>1, NextResult
  <2>2. column' \in Nat /\ column' >= 26
    BY <1>1, <1>2, <2>1, HeadingIsWide
  <2>3. Off' = column' - 26
    BY <1>1 DEF Off
  <2>4. marks' = {c - Off' : c \in under'}
    BY <1>1
  <2>5. QED
    BY <1>1, <2>2, <2>3, <2>4 DEF RowInv
<1>4. cur_width' \in 0 .. Max({28, Width}) /\ far' \in Int /\ (Width >= 28 => far' <= Width + 1)
  BY <1>1, Widths
<1>5. QED
  BY <1>1, <1>2, <1>3, <1>4 DEF PrintInv

\* A word is printed, and marked or not.
LEMMA PrintWordStep ==
  ASSUME PrintInv, PrintWord
  PROVE  PrintInv'
<1> DEFINE word == Head(rest)
           len == Length[word]
           next == pos + len + 1
           asked == \E k \in DOMAIN query : query[k] = word
           under2 == IF asked THEN under \cup Columns(column, word) ELSE under
           marks2 == IF asked THEN marks \cup Columns(pos, word) ELSE marks
<1>1. /\ pc = "row" /\ rest # <<>> /\ cur_width + len + 1 <= Width
      /\ cur_width' = cur_width + len + 1
      /\ marks' = (IF asked THEN marks \cup Columns(pos, word)
                            ELSE marks \ Columns(pos, word)) \ {next + 1}
      /\ pos' = next /\ under' = under2
      /\ column' = column + len + 1 /\ far' = Max({far, next + 1}) /\ rest' = Tail(rest)
      /\ pc' = pc /\ list' = list /\ shown' = shown /\ first' = first
  BY DEF PrintWord, FitsRow, sorting
<1>2. /\ rest \in Seq(Word) /\ pos \in Nat /\ column \in Nat /\ far \in Int
      /\ cur_width \in 0 .. Max({28, Width}) /\ shown \in Nat
      /\ marks \subseteq 0 .. pos - 1 /\ under \subseteq 0 .. column - 1
      /\ shown < Min({Results, K}) /\ RowInv /\ first \in BOOLEAN
      /\ Width >= 28 => far <= Width + 1
  BY <1>1 DEF PrintInv
<1>3. word \in Word /\ Tail(rest) \in Seq(Word)
  BY <1>1, <1>2, HeadTailProperties
<1>4. len \in Nat \ {0}
  BY <1>3, SearchEngineAssumption
<1>5. /\ Columns(pos, word) = pos .. pos + len - 1
      /\ Columns(column, word) = column .. column + len - 1
  BY DEF Columns
<1> HIDE DEF word, len
<1>6. marks' = marks2
  BY <1>1, <1>2, <1>4, <1>5
<1>7. marks2 \subseteq 0 .. next - 1 /\ under2 \subseteq 0 .. (column + len + 1) - 1
  BY <1>2, <1>4, <1>5
<1>8. RowInv'
  <2>1. cur_width' = pos' \/ cur_width' = pos' + 2
    <3>1. cur_width = pos \/ cur_width = pos + 2
      BY <1>2 DEF RowInv
    <3>2. cur_width \in Int
      BY <1>2, Widths
    <3>3. QED
      BY <1>1, <1>2, <1>4, <3>1, <3>2
  <2> DEFINE off == Off
  <2>2. Off' = off
    BY <1>1 DEF Off
  <2>3. off \in Nat /\ column = pos + off /\ marks = {c - off : c \in under}
    BY <1>2 DEF RowInv
  <2> HIDE DEF off
  <2>4. column' = pos' + off
    BY <1>1, <1>2, <1>4, <2>3
  <2>5. {c - off : c \in Columns(column, word)} = Columns(pos, word)
    <3>1. ASSUME NEW x \in Columns(pos, word)
          PROVE  \E c \in Columns(column, word) : x = c - off
      <4>1. x + off \in Columns(column, word) /\ x = (x + off) - off
        BY <1>2, <1>4, <1>5, <2>3, <3>1
      <4>2. QED
        BY <4>1
    <3>2. ASSUME NEW c \in Columns(column, word)
          PROVE  c - off \in Columns(pos, word)
      BY <1>2, <1>4, <1>5, <2>3, <3>2
    <3>3. QED
      BY <3>1, <3>2
  <2>6. {c - off : c \in under \cup Columns(column, word)}
          = {c - off : c \in under} \cup {c - off : c \in Columns(column, word)}
    OBVIOUS
  <2>7. marks' = {c - off : c \in under'}
    <3>1. CASE asked
      <4>1. marks' = marks \cup Columns(pos, word) /\ under' = under \cup Columns(column, word)
        BY <1>1, <1>6, <3>1
      <4>2. QED
        BY <2>3, <2>5, <2>6, <4>1
    <3>2. CASE ~asked
      <4>1. marks' = marks /\ under' = under
        BY <1>1, <1>6, <3>2
      <4>2. QED
        BY <2>3, <4>1
    <3>3. QED
      BY <3>1, <3>2
  <2>8. QED
    BY <2>1, <2>2, <2>3, <2>4, <2>7 DEF RowInv
<1>9. cur_width' \in 0 .. Max({28, Width})
  BY <1>1, <1>2, <1>4, Widths
<1>10. far' \in Int /\ (Width >= 28 => far' <= Width + 1)
  <2>1. far' = IF far >= next + 1 THEN far ELSE next + 1
    BY <1>1, <1>2, <1>4, MaxOfTwo
  <2>2. next + 1 <= Width + 1 /\ next + 1 \in Int
    BY <1>1, <1>2, <1>4, Widths DEF RowInv
  <2>3. QED
    BY <1>2, <2>1, <2>2
<1>11. Results' = Results
  BY <1>1 DEF Results
<1>12. /\ pos' \in Nat /\ column' \in Nat /\ rest' \in Seq(Word) /\ pc' = "row"
       /\ marks' \subseteq 0 .. pos' - 1 /\ under' \subseteq 0 .. column' - 1
       /\ shown' \in Nat /\ shown' < Min({Results', K}) /\ first' \in BOOLEAN
  BY <1>1, <1>2, <1>3, <1>4, <1>6, <1>7, <1>11
<1>13. QED
  BY <1>8, <1>9, <1>10, <1>12 DEF PrintInv

LEMMA BreakLineStep ==
  ASSUME PrintInv, BreakLine
  PROVE  PrintInv'
<1>1. /\ pc = "row" /\ far' = Max({far, pos + 1})
      /\ cur_width' = 0 /\ pos' = 0 /\ marks' = {} /\ column' = 0 /\ under' = {}
      /\ pc' = pc /\ list' = list /\ shown' = shown /\ rest' = rest /\ first' = FALSE
  BY DEF BreakLine, sorting
<1>2. /\ rest \in Seq(Word) /\ pos \in Nat /\ far \in Int /\ shown \in Nat
      /\ cur_width \in 0 .. Max({28, Width})
      /\ shown < Min({Results, K}) /\ (cur_width = pos \/ cur_width = pos + 2)
      /\ Width >= 28 => far <= Width + 1
  BY <1>1 DEF PrintInv, RowInv
<1>3. far' = IF far >= pos + 1 THEN far ELSE pos + 1
  BY <1>1, <1>2, MaxOfTwo
<1>4. Width >= 28 => pos + 1 <= Width + 1
  BY <1>2, Widths
<1>5. far' \in Int /\ (Width >= 28 => far' <= Width + 1)
  BY <1>2, <1>3, <1>4
<1>6. RowInv' /\ Results' = Results
  BY <1>1 DEF RowInv, Off, Results
<1>7. cur_width' \in 0 .. Max({28, Width})
  BY <1>1, Widths
<1>8. QED
  BY <1>1, <1>2, <1>5, <1>6, <1>7 DEF PrintInv

LEMMA EndResultStep ==
  ASSUME ReadInv, SearchInv, PrintInv, EndResult
  PROVE  PrintInv'
<1>1. /\ pc = "row" /\ pc' = "print" /\ shown' = shown + 1 /\ far' = Max({far, Width})
      /\ UNCHANGED <<list, rest, cur_width, pos, marks, column, under, first>>
  BY DEF EndResult, sorting
<1>2. /\ far \in Int /\ shown \in Nat /\ shown < Min({Results, K})
      /\ Width >= 28 => far <= Width + 1
  BY <1>1 DEF PrintInv
<1>3. far' = IF far >= Width THEN far ELSE Width
  BY <1>1, <1>2, Widths, MaxOfTwo
<1>4. far' \in Int /\ (Width >= 28 => far' <= Width + 1)
  BY <1>2, <1>3, Widths
<1>5. Results' = Results
  BY <1>1 DEF Results
<1>6. shown' <= Min({Results', K}) /\ shown' \in Nat
  BY <1>1, <1>2, <1>5, NextResult
<1>7. QED
  BY <1>1, <1>4, <1>6 DEF PrintInv

-----------------------------------------------------------------------------
(* Every step keeps the invariant.                                         *)

Lookups == pc = "assert" => PastMinusOne

EngineInv == ReadInv /\ SearchInv /\ PrintInv /\ Lookups

LEMMA EngineStarts == EngineInit => EngineInv
<1> SUFFICES ASSUME EngineInit PROVE EngineInv
  OBVIOUS
<1>1. ReadInv
  BY ReadInit
<1>2. pc = "read" /\ list = <<>> /\ input = <<>> /\ Blank
  BY DEF EngineInit, Blank
<1>3. SearchInv
  BY <1>2 DEF SearchInv
<1>4. PrintInv
  BY <1>2, BlankPrints
<1>5. QED
  BY <1>1, <1>2, <1>3, <1>4 DEF EngineInv, Lookups

\* A step that neither sorts nor prints.
LEMMA OthersKeepPrinting ==
  ASSUME PrintInv, UNCHANGED <<shown, rest, cur_width, pos, marks, column, under, first, far>>,
         pc \notin {"print", "row"}, pc' \notin {"print", "row"}
  PROVE  PrintInv'
BY DEF PrintInv

LEMMA ResultsInNat ==
  ASSUME SearchInv
  PROVE  Results \in 0..MaxResults /\ DOMAIN list = DOMAIN input
<1>1. CASE pc \in {"sort", "print", "row"}
  <2>1. PICK n \in 0..MaxResults : SortInv(n)
    BY <1>1 DEF SearchInv
  <2>2. n \in Nat /\ IsList(list, n) /\ DOMAIN input = 0..n-1
    BY <2>1 DEF SortInv, IsList
  <2>3. QED
    BY <2>1, <2>2, ListLength
<1>2. CASE pc \notin {"sort", "print", "row"}
  <2>1. list = <<>> /\ input = <<>>
    BY <1>2 DEF SearchInv
  <2>2. DOMAIN list = {}
    BY <2>1
  <2>3. Results = 0
    BY <2>2, FS_EmptySet DEF Results
  <2>4. QED
    BY <2>1, <2>3, RankingAssumption
<1>3. QED
  BY <1>1, <1>2

LEMMA ResultsInNatNext == (SearchInv => Results \in 0..MaxResults)'
<1>1. SearchInv => Results \in 0..MaxResults
  BY ResultsInNat
<1>2. QED
  BY <1>1, PTL

LEMMA EngineKeeps ==
  ASSUME EngineInv, [EngineNext]_vars
  PROVE  EngineInv'
<1>0. ReadInv /\ SearchInv /\ PrintInv /\ Lookups
  BY DEF EngineInv
<1>1. CASE ReadDocument
  <2>1. ReadInv' /\ pc' \in {"read", "exit"}
    BY <1>0, <1>1, ReadStep
  <2>2. pc = "read" /\ UNCHANGED <<sorting, printer>>
    BY <1>1 DEF ReadDocument
  <2>3. SearchInv'
    BY <1>0, <2>1, <2>2 DEF SearchInv, sorting
  <2>4. PrintInv'
    BY <1>0, <2>1, <2>2, OthersKeepPrinting DEF printer
  <2>5. QED
    BY <2>1, <2>3, <2>4 DEF EngineInv, Lookups
<1>2. CASE EndOfFile \/ Exit \/ TfWithoutNumber
  <2>1. /\ pc \in {"read", "ready"} /\ pc' \in {"ready", "exit", "crash"}
        /\ UNCHANGED <<reader, sorting, printer>>
    BY <1>2 DEF EndOfFile, Exit, TfWithoutNumber
  <2>2. ReadInv'
    BY <1>0, <2>1, OthersKeepIndex DEF Pcs
  <2>3. SearchInv'
    BY <1>0, <2>1 DEF SearchInv, sorting
  <2>4. PrintInv'
    BY <1>0, <2>1, OthersKeepPrinting DEF printer
  <2>5. QED
    BY <2>1, <2>2, <2>3, <2>4 DEF EngineInv, Lookups
<1>3. ASSUME NEW q \in Queries, SearchFor(q) PROVE EngineInv'
  <2>1. SearchInv' /\ pc' \in {"sort", "assert"} /\ (pc' = "assert" => PastMinusOne)
    BY <1>0, <1>3, SearchStep
  <2>2. /\ pc = "ready"
        /\ UNCHANGED <<reader, shown, rest, cur_width, pos, marks, column, under, first, far>>
    BY <1>3 DEF SearchFor
  <2>3. ReadInv'
    BY <1>0, <2>1, <2>2, OthersKeepIndex DEF Pcs
  <2>4. PrintInv'
    BY <1>0, <2>1, <2>2, OthersKeepPrinting
  <2>5. PastMinusOne' = PastMinusOne
    BY <2>2 DEF PastMinusOne, reader
  <2>6. QED
    BY <2>1, <2>3, <2>4, <2>5 DEF EngineInv, Lookups
<1>4. CASE QuickSort \/ QuickSortReturns
  <2>1. SearchInv' /\ pc' \in {"sort", "print"} /\ pc = "sort"
    BY <1>0, <1>4, SortingStep
  <2>2. UNCHANGED <<reader, printer>>
    BY <1>4 DEF QuickSort, QuickSortReturns
  <2>3. ReadInv'
    BY <1>0, <2>1, <2>2, OthersKeepIndex DEF Pcs
  <2>4. PrintInv'
    <3>1. CASE pc' = "sort"
      BY <1>0, <2>1, <2>2, <3>1, OthersKeepPrinting DEF printer
    <3>2. CASE pc' = "print"
      <4>1. Results' \in Nat /\ shown' = 0
        BY <1>0, <2>1, <2>2, ResultsInNatNext DEF PrintInv, printer
      <4>2. Min({Results', K}) = IF Results' <= K THEN Results' ELSE K
        BY <4>1, Widths, MinOfTwo
      <4>3. shown' <= Min({Results', K})
        BY <4>1, <4>2, Widths
      <4>4. QED
        BY <1>0, <2>1, <2>2, <3>2, <4>3 DEF PrintInv, printer
    <3>3. QED
      BY <2>1, <3>1, <3>2
  <2>5. QED
    BY <2>1, <2>3, <2>4 DEF EngineInv, Lookups
<1>5. CASE StartResult \/ PrintWord \/ BreakLine \/ EndResult
  <2>1. pc \in {"print", "row"} /\ pc' \in {"print", "row"} /\ UNCHANGED <<reader, sorting, query>>
    BY <1>5 DEF StartResult, PrintWord, BreakLine, EndResult
  <2>2. ReadInv'
    BY <1>0, <2>1, OthersKeepIndex DEF Pcs
  <2>3. SearchInv'
    BY <1>0, <2>1, PrintingKeepsFound
  <2>4. PrintInv'
    BY <1>0, <1>5, StartResultStep, PrintWordStep, BreakLineStep, EndResultStep
  <2>5. QED
    BY <2>1, <2>2, <2>3, <2>4 DEF EngineInv, Lookups
<1>6. CASE EndSearch
  <2>1. pc' = "ready" /\ NoSorting /\ NoPrinter /\ UNCHANGED reader
    BY <1>6 DEF EndSearch
  <2>2. ReadInv'
    BY <1>0, <2>1, OthersKeepIndex DEF Pcs
  <2>3. SearchInv'
    BY <2>1 DEF SearchInv, NoSorting
  <2>4. PrintInv'
    BY <2>1, BlankPrintsNext DEF NoPrinter, Blank
  <2>5. QED
    BY <2>1, <2>2, <2>3, <2>4 DEF EngineInv, Lookups
<1>7. CASE UNCHANGED vars
  <2>1. pc' = pc /\ UNCHANGED <<reader, sorting, printer>>
    BY <1>7 DEF vars
  <2>2. ReadInv'
    BY <1>0, <2>1, OthersKeepIndex DEF ReadInv
  <2>3. SearchInv'
    <3>1. CASE pc = "sort"
      <4>1. PICK n \in 0..MaxResults : SortInv(n) /\ FoundIn(n)
        BY <1>0, <3>1 DEF SearchInv
      <4>2. SortInv(n)'
        BY <2>1, <4>1 DEF SortInv, IsList, SameCounts, CallsInv, FrameInv, Ordered,
                          InFrame, InCall, sorting
      <4>3. FoundIn(n)'
        BY <2>1, <4>1 DEF FoundIn, InputHas, reader, sorting, printer
      <4>4. QED
        BY <2>1, <3>1, <4>2, <4>3 DEF SearchInv
    <3>2. CASE pc \in {"print", "row"}
      BY <1>0, <2>1, <3>2, PrintingKeepsFound DEF printer
    <3>3. CASE pc \notin {"sort", "print", "row"}
      BY <1>0, <2>1, <3>3 DEF SearchInv, sorting
    <3>4. QED
      BY <3>1, <3>2, <3>3
  <2>4. PrintInv'
    BY <1>0, <2>1 DEF PrintInv, RowInv, Off, printer, sorting, Results
  <2>5. QED
    BY <1>0, <2>1, <2>2, <2>3, <2>4 DEF EngineInv, Lookups, PastMinusOne, reader
<1>8. QED
  BY <1>1, <1>2, <1>3, <1>4, <1>5, <1>6, <1>7 DEF EngineNext, Step

\* What the theorems below rest on: the index, what was found, and where the
\* printing is, as described above.
THEOREM EngineInvariant == EngineSpec => []EngineInv
BY EngineStarts, EngineKeeps, PTL DEF EngineSpec

-----------------------------------------------------------------------------
(* The theorems.                                                           *)

\* Whatever the file and the queries, no list of the index or of texts is
\* written past the end of its array, and no more results are shown than there
\* are.
THEOREM EngineTypes == EngineSpec => []TypeOK
<1>1. ASSUME EngineInv PROVE TypeOK
  <2>0. ReadInv /\ SearchInv /\ PrintInv
    BY <1>1 DEF EngineInv
  <2>1. /\ pc \in Pcs /\ cur_id \in Int
        /\ Len(texts.items) = Len(words.items) /\ texts.start_from = words.start_from
        /\ Fits(texts) /\ Fits(words)
    BY <2>0 DEF ReadInv, IndexState, ListOf, Fits
  <2>2. \A w \in Word : Fits(trie[w])
    BY <2>0 DEF ReadInv, IndexState, Tries, PostingList, ListOf, Fits
  <2>3. DOMAIN list = DOMAIN input /\ Results \in 0..MaxResults
    BY <2>0, ResultsInNat
  <2>4. Results \in Nat /\ Results <= MaxResults
    BY <2>3, RankingAssumption
  <2>5. Min({Results, K}) = IF Results <= K THEN Results ELSE K
    BY <2>4, Widths, MinOfTwo
  <2>6. shown \in 0 .. Min({Results, K})
    <3>1. Min({Results, K}) \in Nat /\ shown \in Nat
      BY <2>0, <2>4, <2>5, Widths DEF PrintInv
    <3>2. shown <= Min({Results, K})
      BY <2>0, <3>1 DEF PrintInv
    <3>3. QED
      BY <3>1, <3>2
  <2>7. /\ cur_width \in 0 .. Max({28, Width}) /\ pos \in Nat /\ column \in Nat
        /\ marks \subseteq Nat /\ under \subseteq Nat /\ first \in BOOLEAN /\ far \in Int
    BY <2>0 DEF PrintInv
  <2>8. QED
    BY <2>1, <2>2, <2>3, <2>4, <2>6, <2>7 DEF TypeOK, Pcs
<1>2. QED
  BY <1>1, EngineInvariant, PTL

\* The index counts each word in each document exactly, in files in which the
\* identifiers do not pass -1: for every such file /tf prints how often the word
\* is in the document, and /df how often it is in all of them together.
THEOREM IndexExact == EngineSpec => []IndexIsExact
<1>1. EngineInv => IndexIsExact
  BY ExactFollows DEF EngineInv
<1>2. QED
  BY <1>1, EngineInvariant, PTL

\* The lookup of a document that a search has found only fails its assertion
\* in a file in which -1 was an identifier.
THEOREM LookupsWork == EngineSpec => []LookupsSucceed
<1>1. EngineInv => LookupsSucceed
  BY DEF EngineInv, Lookups, LookupsSucceed
<1>2. QED
  BY <1>1, EngineInvariant, PTL

AskedWords == Range(SubSeq(query, 1, Min({Len(query), MaxWords})))

FoundDocs == {d \in Document : Range(Value(texts, d)) \cap AskedWords # {}}

\* The n results of quickSort are the documents with a word that is asked for.
LEMMA FoundRight ==
  ASSUME ReadInv, ~PastMinusOne, NEW n \in Nat, SortInv(n), FoundIn(n)
  PROVE  {list[k].doc : k \in DOMAIN list} = FoundDocs /\ Results = Cardinality(FoundDocs)
<1> DEFINE a == Asked(query)
           asked == AskedWords
           found == FoundDocs
<1>0. found = {d \in Document : Range(Value(texts, d)) \cap asked # {}}
  BY DEF FoundDocs
<1>1. query \in Seq(Word) /\ IsList(list, n)
  BY DEF FoundIn, SortInv
<1>2. a \in Seq(Word) /\ asked = Range(a)
  BY <1>1, AskedFacts DEF Asked, AskedWords
<1> HIDE DEF a, asked, found
<1>3. DOMAIN a = 1..Len(a) /\ \A i \in 1..Len(a) : a[i] \in Word
  BY <1>2, LenProperties, ElementOfSeq
<1>4. \A d : HasOneOf(trie, a, d) <=> d \in found
  <2>1. ASSUME NEW d, NEW i \in 1..Len(a), Times(trie[a[i]], d) # 0
        PROVE  d \in found
    <3>1. a[i] \in Word
      BY <1>3
    <3>2. d \in Document /\ OccurrencesIn(d, a[i]) # 0
      BY <2>1, <3>1, TimesAreRight
    <3>3. a[i] \in Range(Value(texts, d))
      <4> DEFINE text == Value(texts, d)
                 at == {k \in DOMAIN text : text[k] = a[i]}
      <4>1. OccurrencesIn(d, a[i]) = Cardinality(at)
        BY DEF OccurrencesIn, Positions
      <4>2. at # {}
        <5> HIDE DEF at
        <5>1. QED
          BY <3>2, <4>1, FS_EmptySet
      <4>3. QED
        BY <4>2 DEF Range
    <3>4. a[i] \in asked
      BY <1>2, <1>3 DEF Range
    <3>5. QED
      BY <1>0, <3>2, <3>3, <3>4
  <2>2. ASSUME NEW d \in found PROVE \E i \in 1..Len(a) : Times(trie[a[i]], d) # 0
    <3>1. d \in Document /\ Range(Value(texts, d)) \cap asked # {}
      BY <1>0
    <3>2. PICK w : w \in Range(Value(texts, d)) /\ w \in asked
      BY <3>1
    <3>3. PICK i \in 1..Len(a) : w = a[i]
      BY <1>2, <1>3, <3>2 DEF Range
    <3>4. w \in Word
      BY <1>3, <3>3
    <3> DEFINE text == Value(texts, d)
               at == {k \in DOMAIN text : text[k] = w}
    <3>5. OccurrencesIn(d, w) = Cardinality(at) /\ at # {}
      BY <3>2 DEF OccurrencesIn, Positions, Range
    <3>6. text \in Seq(Word) /\ DOMAIN text = 1..Len(text) /\ Len(text) \in Nat
      BY <3>1, TextsAre, LenProperties
    <3>7. IsFiniteSet(at)
      <4>1. IsFiniteSet(1..Len(text)) /\ at \in SUBSET (1..Len(text))
        BY <3>6, FS_Interval
      <4>2. QED
        BY <4>1, FS_Subset
    <3> HIDE DEF at, text
    <3>8. Cardinality(at) # 0
      BY <3>5, <3>7, FS_EmptySet
    <3>9. Times(trie[w], d) # 0
      BY <3>1, <3>4, <3>5, <3>8, TimesAreRight
    <3>10. QED
      BY <3>3, <3>9
  <2>3. QED
    BY <2>1, <2>2 DEF HasOneOf
<1>5. \A d : InputHas(n, d) <=> d \in found
  BY <1>4 DEF FoundIn, a
<1>6. Results = n /\ DOMAIN list = 0..n-1
  BY <1>1, ListLength
<1>7. {list[k].doc : k \in DOMAIN list} = found
  <2>1. ASSUME NEW k \in 0..n-1 PROVE list[k].doc \in found
    <3>1. PICK j \in 0..n-1 : list[k] = input[j]
      BY SortedFromInput
    <3>2. QED
      BY <1>5, <3>1 DEF InputHas
  <2>2. ASSUME NEW d \in found PROVE \E k \in 0..n-1 : list[k].doc = d
    <3>1. PICK j \in 0..n-1 : input[j].doc = d
      BY <1>5 DEF InputHas
    <3>2. PICK k \in 0..n-1 : list[k] = input[j]
      BY SortedFromInput
    <3>3. QED
      BY <3>1, <3>2
  <2>3. QED
    BY <1>6, <2>1, <2>2
<1>8. Cardinality(found) = n
  <2> DEFINE D == [k \in 0..n-1 |-> input[k].doc]
  <2>1. D \in Bijection(0..n-1, found)
    <3>1. D \in [0..n-1 -> found]
      BY <1>5 DEF InputHas
    <3>2. IsInjective(D)
      BY DEF IsInjective, FoundIn
    <3>3. \A d \in found : \E k \in 0..n-1 : D[k] = d
      BY <1>5 DEF InputHas
    <3> HIDE DEF D
    <3>4. QED
      BY <3>1, <3>2, <3>3 DEF Bijection, Injection, Surjection
  <2> HIDE DEF D
  <2>2. IsFiniteSet(0..n-1)
    BY FS_Interval
  <2>3. Cardinality(0..n-1) = n
    BY <1>1, ListLength, <1>6 DEF Results
  <2>4. Cardinality(0..n-1) = Cardinality(found)
    BY <2>1, <2>2, FS_Bijection DEF ExistsBijection
  <2>5. QED
    BY <2>3, <2>4
<1>9. QED
  BY <1>6, <1>7, <1>8 DEF found

\* For every file, query and scores /search prints from the best documents with
\* one of the words, each of them once and the best first.
THEOREM BestAreShown == EngineSpec => []ShownAreBest
<1>1. ASSUME EngineInv, pc \in {"print", "row"}, ~PastMinusOne
      PROVE  /\ {list[k].doc : k \in DOMAIN list} = FoundDocs
             /\ Results = Cardinality(FoundDocs)
             /\ SameResults(list, input)
             /\ Descending(list)
  <2>1. PICK n \in 0..MaxResults : SortInv(n) /\ FoundIn(n) /\ Sorted
    BY <1>1 DEF EngineInv, SearchInv
  <2>2. n \in Nat /\ ReadInv
    BY <1>1 DEF EngineInv
  <2>3. Descending(list) /\ SameResults(list, input)
    BY <2>1, SortEnds
  <2>4. QED
    BY <1>1, <2>1, <2>2, <2>3, FoundRight
<1>2. EngineInv => ShownAreBest
  BY <1>1 DEF ShownAreBest, FoundDocs, AskedWords
<1>3. QED
  BY <1>2, EngineInvariant, PTL

\* On every line of a result the marks are under the words of the query, on the
\* first one as far to their left as the heading is wider than 26 columns,
\* whatever the texts, the identifiers and the scores.
THEOREM MarksAreUnderWords == EngineSpec => []MarksUnderWords
<1>1. EngineInv => MarksUnderWords
  BY DEF EngineInv, PrintInv, RowInv, MarksUnderWords
<1>2. QED
  BY <1>1, EngineInvariant, PTL

\* Nothing is written further than one place behind pointer_line, whatever the
\* lengths of the words, on a console with at least 28 columns.
THEOREM OverrunIsOne == EngineSpec => []OverrunByOne
<1>1. EngineInv => OverrunByOne
  BY DEF EngineInv, PrintInv, OverrunByOne
<1>2. QED
  BY <1>1, EngineInvariant, PTL
=============================================================================
