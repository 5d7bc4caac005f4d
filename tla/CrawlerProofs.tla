---------------------------- MODULE CrawlerProofs ----------------------------
(***************************************************************************)
(* Properties of Crawler for every number of threads and every site.       *)
(***************************************************************************)
EXTENDS Crawler, Lemmas

-----------------------------------------------------------------------------
(* The elements of a sequence under the operations of List.                *)

LEMMA ElementsEmpty == Elements(<<>>) = {}
BY DEF Elements

LEMMA ElementsAppend ==
  ASSUME NEW S, NEW s \in Seq(S), NEW e \in S
  PROVE  /\ Append(s, e) \in Seq(S) /\ Append(s, e) # <<>>
         /\ Elements(Append(s, e)) = Elements(s) \cup {e}
<1>1. /\ Append(s, e) \in Seq(S) /\ Append(s, e) # <<>>
      /\ Len(s) \in Nat
      /\ Len(Append(s, e)) = Len(s)+1
      /\ \A i \in 1..Len(s) : Append(s, e)[i] = s[i]
      /\ Append(s, e)[Len(s)+1] = e
  BY AppendProperties
<1>2. \A i \in 1..Len(s)+1 : i \in 1..Len(s) \/ i = Len(s)+1
  BY <1>1
<1>3. 1..Len(s) \subseteq 1..Len(s)+1 /\ Len(s)+1 \in 1..Len(s)+1
  BY <1>1
<1>4. QED
  BY <1>1, <1>2, <1>3 DEF Elements

LEMMA ElementsTail ==
  ASSUME NEW S, NEW s \in Seq(S), s # <<>>
  PROVE  /\ Tail(s) \in Seq(S) /\ Head(s) \in S
         /\ Elements(s) = {Head(s)} \cup Elements(Tail(s))
         /\ Len(s) = 1 <=> Tail(s) = <<>>
<1>1. /\ Len(s) \in Nat \ {0}
      /\ Tail(s) \in Seq(S) /\ Len(Tail(s)) = Len(s)-1
      /\ \A i \in 1..Len(s)-1 : Tail(s)[i] = s[i+1]
      /\ Head(s) = s[1] /\ Head(s) \in S
  BY EmptySeq, HeadTailProperties
<1>2. \A i \in 1..Len(s) : i = 1 \/ (i-1 \in 1..Len(s)-1 /\ i = (i-1)+1)
  BY <1>1
<1>3. \A i \in 1..Len(s)-1 : i+1 \in 1..Len(s)
  BY <1>1
<1>4. Elements(s) = {Head(s)} \cup Elements(Tail(s))
  <2>1. ASSUME NEW e \in Elements(s) PROVE e \in {Head(s)} \cup Elements(Tail(s))
    <3>1. PICK i \in 1..Len(s) : e = s[i]
      BY DEF Elements
    <3>2. CASE i = 1
      BY <1>1, <3>1, <3>2
    <3>3. CASE i-1 \in 1..Len(s)-1 /\ i = (i-1)+1
      <4>1. e = Tail(s)[i-1] /\ i-1 \in 1..Len(Tail(s))
        BY <1>1, <3>1, <3>3
      <4>2. QED
        BY <4>1 DEF Elements
    <3>4. QED
      BY <1>2, <3>1, <3>2, <3>3
  <2>2. ASSUME NEW e \in Elements(Tail(s)) PROVE e \in Elements(s)
    <3>1. PICK i \in 1..Len(s)-1 : e = Tail(s)[i]
      BY <1>1 DEF Elements
    <3>2. e = s[i+1] /\ i+1 \in 1..Len(s)
      BY <1>1, <1>3, <3>1
    <3>3. QED
      BY <3>2 DEF Elements
  <2>3. Head(s) \in Elements(s)
    <3>1. 1 \in 1..Len(s)
      BY <1>1
    <3>2. QED
      BY <1>1, <3>1 DEF Elements
  <2>4. QED
    BY <2>1, <2>2, <2>3
<1>5. Len(s) = 1 <=> Tail(s) = <<>>
  <2>1. Tail(s) # <<>> => Len(Tail(s)) \in Nat \ {0}
    BY <1>1, EmptySeq
  <2>2. Tail(s) = <<>> => Len(Tail(s)) = 0
    BY EmptySeq
  <2>3. QED
    BY <1>1, <2>1, <2>2
<1>6. QED
  BY <1>1, <1>4, <1>5

LEMMA ElementsRemove ==
  ASSUME NEW S, NEW s \in Seq(S), s # <<>>
  PROVE  /\ SubSeq(s, 1, Len(s)-1) \in Seq(S) /\ s[Len(s)] \in Elements(s)
         /\ s[Len(s)] \in S
         /\ Elements(s) = Elements(SubSeq(s, 1, Len(s)-1)) \cup {s[Len(s)]}
<1> DEFINE f == SubSeq(s, 1, Len(s)-1)
<1>1. Len(s) \in Nat \ {0} /\ \A i \in 1..Len(s) : s[i] \in S
  BY EmptySeq, ElementOfSeq
<1>2. /\ f \in Seq(S) /\ Len(f) = Len(s)-1
      /\ \A i \in 1..Len(s)-1 : f[i] = s[i]
  BY FrontOf
<1>3. \A i \in 1..Len(s) : i \in 1..Len(s)-1 \/ i = Len(s)
  BY <1>1
<1>4. 1..Len(s)-1 \subseteq 1..Len(s) /\ Len(s) \in 1..Len(s)
  BY <1>1
<1>5. QED
  BY <1>1, <1>2, <1>3, <1>4 DEF Elements

LEMMA ElementsSubSeq ==
  ASSUME NEW S, NEW s \in Seq(S), NEW m \in 1..Len(s)+1, NEW n \in 0..Len(s)
  PROVE  /\ SubSeq(s, m, n) \in Seq(S)
         /\ Elements(SubSeq(s, m, n)) \subseteq Elements(s)
<1>1. Len(s) \in Nat
  OBVIOUS
<1>2. m \in Int /\ n \in Int /\ \A i \in m..n : i \in 1..Len(s)
  BY <1>1
<1>3. \A i \in m..n : s[i] \in S
  BY <1>2, ElementOfSeq
<1>4. /\ SubSeq(s, m, n) \in Seq(S)
      /\ Len(SubSeq(s, m, n)) = IF m <= n THEN n-m+1 ELSE 0
      /\ \A i \in 1..n-m+1 : SubSeq(s, m, n)[i] = s[m+i-1]
  BY <1>2, <1>3, SubSeqProperties
<1>5. \A i \in 1..Len(SubSeq(s, m, n)) : i \in 1..n-m+1 /\ m+i-1 \in m..n
  BY <1>2, <1>4
<1>6. QED
  BY <1>2, <1>4, <1>5 DEF Elements

LEMMA ElementsConcat ==
  ASSUME NEW S, NEW s \in Seq(S), NEW r \in Seq(S)
  PROVE  /\ s \o r \in Seq(S)
         /\ Elements(s \o r) = Elements(s) \cup Elements(r)
<1>1. /\ Len(s) \in Nat /\ Len(r) \in Nat
      /\ s \o r \in Seq(S)
      /\ Len(s \o r) = Len(s) + Len(r)
      /\ \A i \in 1..Len(s)+Len(r) :
           (s \o r)[i] = IF i <= Len(s) THEN s[i] ELSE r[i-Len(s)]
  BY ConcatProperties
<1>2. ASSUME NEW i \in 1..Len(s)+Len(r)
      PROVE  (s \o r)[i] \in Elements(s) \cup Elements(r)
  <2>1. CASE i <= Len(s)
    BY <1>1, <2>1 DEF Elements
  <2>2. CASE ~(i <= Len(s))
    <3>1. i-Len(s) \in 1..Len(r)
      BY <1>1, <2>2
    <3>2. QED
      BY <1>1, <2>2, <3>1 DEF Elements
  <2>3. QED
    BY <2>1, <2>2
<1>3. ASSUME NEW i \in 1..Len(s) PROVE s[i] \in Elements(s \o r)
  <2>1. i \in 1..Len(s)+Len(r) /\ i <= Len(s)
    BY <1>1
  <2>2. QED
    BY <1>1, <2>1 DEF Elements
<1>4. ASSUME NEW i \in 1..Len(r) PROVE r[i] \in Elements(s \o r)
  <2>1. /\ Len(s)+i \in 1..Len(s)+Len(r) /\ ~(Len(s)+i <= Len(s))
        /\ (Len(s)+i) - Len(s) = i
    BY <1>1
  <2>2. QED
    BY <1>1, <2>1 DEF Elements
<1>5. QED
  BY <1>1, <1>2, <1>3, <1>4 DEF Elements

Distinct(s) == \A i, j \in 1..Len(s) : s[i] = s[j] => i = j

LEMMA DistinctAppend ==
  ASSUME NEW S, NEW s \in Seq(S), NEW e \in S, Distinct(s), e \notin Elements(s)
  PROVE  Distinct(Append(s, e))
<1>1. /\ Len(s) \in Nat
      /\ Len(Append(s, e)) = Len(s)+1
      /\ \A i \in 1..Len(s) : Append(s, e)[i] = s[i]
      /\ Append(s, e)[Len(s)+1] = e
  BY AppendProperties
<1>2. \A i \in 1..Len(s)+1 : i \in 1..Len(s) \/ i = Len(s)+1
  BY <1>1
<1>3. QED
  BY <1>1, <1>2 DEF Distinct, Elements

LEMMA DistinctRemove ==
  ASSUME NEW S, NEW s \in Seq(S), s # <<>>, Distinct(s)
  PROVE  /\ Distinct(SubSeq(s, 1, Len(s)-1))
         /\ s[Len(s)] \notin Elements(SubSeq(s, 1, Len(s)-1))
<1> DEFINE f == SubSeq(s, 1, Len(s)-1)
<1>1. Len(s) \in Nat \ {0} /\ \A i \in 1..Len(s) : s[i] \in S
  BY EmptySeq, ElementOfSeq
<1>2. /\ Len(f) = Len(s)-1
      /\ \A i \in 1..Len(s)-1 : f[i] = s[i]
  BY FrontOf
<1>3. 1..Len(s)-1 \subseteq 1..Len(s) /\ \A i \in 1..Len(s)-1 : i # Len(s)
  BY <1>1
<1>4. QED
  BY <1>1, <1>2, <1>3 DEF Distinct, Elements

-----------------------------------------------------------------------------
(* The lists under the lock.                                               *)

\* Who is between lock and unlock holds mtx ...
Held == \A a \in Actor : pc[a] \in {"exists", "append", "check"} => mtx = a

\* ... so what the test of place found stays true until the insertion.
StillNew == \A a \in Actor : pc[a] = "append" => Head(todo[a]) \notin UrlVisited

ToPlace == \A a \in Actor : pc[a] \in {"place", "exists", "append"} <=> todo[a] # <<>>

Roles == /\ pc[Main] \in {"place", "exists", "append", "signal", "join"}
         /\ \A t \in Thread : pc[t] # "join"

ListInv == TypeOK /\ Held /\ StillNew /\ ToPlace /\ Roles /\ EachUrlOnce

LEMMA ListInit == Init => ListInv
<1> SUFFICES ASSUME Init PROVE ListInv
  OBVIOUS
<1>1. TypeOK
  BY CrawlerAssumption DEF Init, TypeOK, Actor, ThreadPc, CrawlerAssumption
<1>2. Held /\ StillNew /\ EachUrlOnce
  BY ElementsEmpty DEF Init, Held, StillNew, EachUrlOnce
<1>3. ToPlace /\ Roles
  BY CrawlerAssumption DEF Init, ToPlace, Roles, Actor, CrawlerAssumption
<1>4. QED
  BY <1>1, <1>2, <1>3 DEF ListInv

\* What place has to know of the address it is about to place, and of the rest.
LEMMA Next1 ==
  ASSUME ListInv, NEW a \in Actor, pc[a] \in {"exists", "append"}
  PROVE  /\ todo[a] \in Seq(Url) /\ todo[a] # <<>>
         /\ Head(todo[a]) \in Url /\ Tail(todo[a]) \in Seq(Url)
         /\ Elements(todo[a]) = {Head(todo[a])} \cup Elements(Tail(todo[a]))
         /\ AfterPlace(a) = IF Tail(todo[a]) = <<>> THEN "signal" ELSE "place"
         /\ mtx = a
         /\ \A b \in Actor \ {a} : pc[b] \notin {"exists", "append", "check"}
<1>1. todo[a] \in Seq(Url) /\ todo[a] # <<>>
  BY DEF ListInv, TypeOK, ToPlace
<1>2. /\ Head(todo[a]) \in Url /\ Tail(todo[a]) \in Seq(Url)
      /\ Elements(todo[a]) = {Head(todo[a])} \cup Elements(Tail(todo[a]))
      /\ Len(todo[a]) = 1 <=> Tail(todo[a]) = <<>>
  BY <1>1, ElementsTail
<1>3. QED
  BY <1>1, <1>2 DEF AfterPlace, ListInv, Held

Cut == IF WholeReads THEN {} ELSE Torn

LinksOf(S) == UNION {Elements(Links[u]) : u \in S}

LEMMA ResponseType ==
  ASSUME TypeOK, NEW t \in Thread, NEW r \in Response(t)
  PROVE  /\ r \in Seq(Url)
         /\ Elements(r) \subseteq LinksOf(before[t] \cup {url[t]}) \cup Cut
         /\ WholeReads => Elements(Links[url[t]]) \subseteq Elements(r)
<1>1. PICK first \in Shown(url[t]), cut \in CutOff, rest \in Leftover(t) :
        r = first \o cut \o rest
  BY DEF Response
<1>2. url[t] \in Url /\ before[t] \in SUBSET Url
  BY DEF TypeOK
<1>3. \A u \in Url : Links[u] \in Seq(Url) /\ Len(Links[u]) \in Nat
  BY CrawlerAssumption DEF CrawlerAssumption
<1>4. /\ first \in Seq(Url) /\ Elements(first) \subseteq Elements(Links[url[t]])
      /\ WholeReads => first = Links[url[t]]
  <2>1. CASE WholeReads
    BY <1>2, <1>3, <2>1 DEF Shown
  <2>2. CASE ~WholeReads
    <3>1. PICK n \in 0..Len(Links[url[t]]) : first = SubSeq(Links[url[t]], 1, n)
      BY <2>2 DEF Shown
    <3>2. 1 \in 1..Len(Links[url[t]])+1
      BY <1>2, <1>3
    <3>3. QED
      BY <1>2, <1>3, <2>2, <3>1, <3>2, ElementsSubSeq
  <2>3. QED
    BY <2>1, <2>2
<1>5. cut \in Seq(Url) /\ Elements(cut) \subseteq Cut
  <2>1. Cut \subseteq Url
    BY CrawlerAssumption DEF CrawlerAssumption, Cut
  <2>2. CASE cut = <<>>
    BY <2>2, ElementsEmpty
  <2>3. CASE cut # <<>>
    <3>1. PICK v \in Cut : cut = <<v>>
      BY <2>3 DEF CutOff, Cut
    <3>2. v \in Url /\ <<v>> \in Seq(Url)
      BY <2>1
    <3>3. Elements(<<v>>) = {v}
      BY DEF Elements
    <3>4. QED
      BY <3>1, <3>2, <3>3
  <2>4. QED
    BY <2>2, <2>3
<1>6. rest \in Seq(Url) /\ Elements(rest) \subseteq LinksOf(before[t])
  <2>1. CASE rest = <<>>
    BY <2>1, ElementsEmpty
  <2>2. CASE rest # <<>>
    <3>1. PICK v \in before[t] : \E n \in 1..Len(Links[v]) :
            rest = SubSeq(Links[v], n, Len(Links[v]))
      BY <2>2 DEF Leftover
    <3>2. PICK n \in 1..Len(Links[v]) : rest = SubSeq(Links[v], n, Len(Links[v]))
      BY <3>1
    <3>3. v \in Url /\ n \in 1..Len(Links[v])+1 /\ Len(Links[v]) \in 0..Len(Links[v])
      BY <1>2, <1>3, <3>2
    <3>4. rest \in Seq(Url) /\ Elements(rest) \subseteq Elements(Links[v])
      BY <1>3, <3>2, <3>3, ElementsSubSeq
    <3>5. QED
      BY <3>4 DEF LinksOf
  <2>3. QED
    BY <2>1, <2>2
<1>7. /\ r \in Seq(Url)
      /\ Elements(r) = Elements(first) \cup Elements(cut) \cup Elements(rest)
  <2>1. /\ first \o cut \in Seq(Url)
        /\ Elements(first \o cut) = Elements(first) \cup Elements(cut)
    BY <1>4, <1>5, ElementsConcat
  <2>2. \A q \in Seq(Url) : /\ q \o rest \in Seq(Url)
                           /\ Elements(q \o rest) = Elements(q) \cup Elements(rest)
    BY <1>6, ElementsConcat
  <2>3. QED
    BY <1>1, <2>1, <2>2
<1>8. QED
  BY <1>4, <1>5, <1>6, <1>7 DEF LinksOf

LEMMA ListPlace ==
  ASSUME ListInv, NEW a \in Actor, Place(a)
  PROVE  ListInv'
<1> USE DEF ListInv, TypeOK, Held, StillNew, ToPlace, Roles, ThreadPc
<1>0. Main \notin Thread /\ NoOne \notin Actor /\ Main \in Actor /\ Thread \subseteq Actor
  BY CrawlerAssumption DEF Actor, CrawlerAssumption
<1>1. CASE PlaceLock(a)
  BY <1>0, <1>1 DEF PlaceLock, At, EachUrlOnce
<1>2. CASE PlaceKnown(a)
  <2>1. /\ todo' = [todo EXCEPT ![a] = Tail(@)] /\ mtx' = NoOne
        /\ pc[a] = "exists" /\ pc' = [pc EXCEPT ![a] = AfterPlace(a)]
        /\ UNCHANGED <<UrlBuffer, UrlVisited, url, before, pages, loaded, up>>
    BY <1>2 DEF PlaceKnown, At
  <2>2. QED
    BY <1>0, <2>1, Next1 DEF EachUrlOnce
<1>3. CASE PlaceNew(a)
  <2>1. /\ Head(todo[a]) \notin UrlVisited
        /\ pc[a] = "exists" /\ pc' = [pc EXCEPT ![a] = "append"]
        /\ UNCHANGED <<mtx, UrlBuffer, UrlVisited, todo, url, before, pages, loaded, up>>
    BY <1>3 DEF PlaceNew, At, shared
  <2>2. QED
    BY <1>0, <2>1 DEF EachUrlOnce
<1>4. CASE PlaceAppend(a)
  <2> DEFINE u == Head(todo[a])
  <2>1. /\ todo' = [todo EXCEPT ![a] = Tail(@)] /\ mtx' = NoOne
        /\ pc[a] = "append" /\ pc' = [pc EXCEPT ![a] = AfterPlace(a)]
        /\ UrlBuffer' = Append(UrlBuffer, u)
        /\ UrlVisited' = UrlVisited \cup {u}
        /\ UNCHANGED <<url, before, pages, loaded, up>>
    BY <1>4 DEF PlaceAppend, At
  <2>2. u \in Url /\ u \notin UrlVisited
    BY <2>1, Next1
  <2>3. /\ UrlBuffer' \in Seq(Url)
        /\ Elements(UrlBuffer') = Elements(UrlBuffer) \cup {u}
    BY <2>1, <2>2, ElementsAppend
  <2>4. EachUrlOnce'
    <3>1. Distinct(UrlBuffer) /\ u \notin Elements(UrlBuffer) /\ UrlBuffer \in Seq(Url)
      BY <2>2 DEF Distinct, EachUrlOnce
    <3>2. Distinct(UrlBuffer')
      BY <2>1, <2>2, <3>1, DistinctAppend
    <3>3. Elements(UrlBuffer') \subseteq UrlVisited'
      BY <2>1, <2>3 DEF EachUrlOnce
    <3>4. QED
      BY <3>2, <3>3 DEF EachUrlOnce, Distinct
  <2>5. \A b \in Actor \ {a} : pc'[b] \notin {"exists", "append", "check"}
    BY <2>1, Next1
  <2>6. TypeOK'
    BY <2>1, <2>2, <2>3, Next1
  <2>7. Held' /\ StillNew' /\ ToPlace' /\ Roles'
    BY <1>0, <2>1, <2>5, Next1
  <2>8. QED
    BY <2>4, <2>6, <2>7
<1>5. CASE Signal(a)
  <2>1. /\ pc[a] = "signal"
        /\ \A b \in Actor : \/ pc'[b] = pc[b] /\ b # a
                            \/ b = a /\ pc'[b] = IF a = Main THEN "join" ELSE "obtain"
                            \/ b # a /\ b \in Thread /\ pc[b] = "wait" /\ pc'[b] = "obtain"
        /\ pc' \in [Actor -> ThreadPc]
        /\ UNCHANGED <<mtx, UrlBuffer, UrlVisited, todo, url, before, pages, loaded, up>>
    BY <1>0, <1>5 DEF Signal, shared
  <2>2. TypeOK' /\ EachUrlOnce'
    BY <2>1 DEF EachUrlOnce
  <2>3. Held' /\ StillNew' /\ ToPlace' /\ Roles'
    BY <1>0, <2>1
  <2>4. QED
    BY <2>2, <2>3
<1>6. QED
  BY <1>1, <1>2, <1>3, <1>4, <1>5 DEF Place

LEMMA ListFetch ==
  ASSUME ListInv, NEW t \in Thread, Fetch(t) \/ SpuriousWake(t)
  PROVE  ListInv'
<1> USE DEF ListInv, TypeOK, Held, StillNew, ToPlace, Roles, ThreadPc
<1>0. /\ Main \notin Thread /\ NoOne \notin Actor /\ Main \in Actor
      /\ Thread \subseteq Actor /\ t \in Actor
  BY CrawlerAssumption DEF Actor, CrawlerAssumption
<1>1. CASE ObtainLock(t)
  BY <1>0, <1>1 DEF ObtainLock, At, EachUrlOnce
<1>2. CASE ObtainWait(t)
  BY <1>0, <1>2 DEF ObtainWait, At, EachUrlOnce
<1>3. CASE ObtainTake(t)
  <2> DEFINE u == UrlBuffer[Len(UrlBuffer)]
  <2>1. /\ UrlBuffer # <<>> /\ mtx' = NoOne
        /\ pc[t] = "check" /\ pc' = [pc EXCEPT ![t] = "load"]
        /\ url' = [url EXCEPT ![t] = u]
        /\ UrlBuffer' = SubSeq(UrlBuffer, 1, Len(UrlBuffer)-1)
        /\ UNCHANGED <<UrlVisited, todo, before, pages, loaded, up>>
    BY <1>3 DEF ObtainTake, At
  <2>2. /\ UrlBuffer' \in Seq(Url) /\ u \in Url
        /\ Elements(UrlBuffer) = Elements(UrlBuffer') \cup {u}
    BY <2>1, ElementsRemove
  <2>3. EachUrlOnce'
    <3>1. Distinct(UrlBuffer)
      BY DEF Distinct, EachUrlOnce
    <3>2. Distinct(UrlBuffer')
      BY <2>1, <3>1, DistinctRemove
    <3>3. QED
      BY <2>1, <2>2, <3>2 DEF EachUrlOnce, Distinct
  <2>4. \A b \in Actor \ {t} : pc'[b] \notin {"exists", "append", "check"}
    BY <1>0, <2>1
  <2>5. TypeOK'
    BY <1>0, <2>1, <2>2
  <2>6. Held' /\ StillNew' /\ ToPlace' /\ Roles'
    BY <1>0, <2>1, <2>4
  <2>7. QED
    BY <2>3, <2>5, <2>6
<1>4. CASE SpuriousWake(t)
  BY <1>0, <1>4 DEF SpuriousWake, At, shared, EachUrlOnce
<1>5. CASE LoadPages(t)
  BY <1>0, <1>5 DEF LoadPages, At, shared, EachUrlOnce
<1>6. CASE StorePages(t)
  BY <1>0, <1>6 DEF StorePages, At, shared, EachUrlOnce
<1>7. CASE ReadResponse(t)
  <2>1. PICK r \in Response(t) : todo' = [todo EXCEPT ![t] = r]
    BY <1>7 DEF ReadResponse
  <2>2. r \in Seq(Url)
    BY <2>1, ResponseType
  <2>3. /\ pc[t] = "read"
        /\ pc' = [pc EXCEPT ![t] = IF r = <<>> THEN "signal" ELSE "place"]
        /\ before' = [before EXCEPT ![t] = @ \cup {url[t]}]
        /\ UNCHANGED <<mtx, UrlBuffer, UrlVisited, url, pages, loaded, up>>
    BY <1>0, <1>7, <2>1 DEF ReadResponse, shared
  <2>4. QED
    BY <1>0, <2>1, <2>2, <2>3 DEF EachUrlOnce
<1>8. QED
  BY <1>1, <1>2, <1>3, <1>4, <1>5, <1>6, <1>7 DEF Fetch

LEMMA ListStep == ListInv /\ [Next]_vars => ListInv'
<1> SUFFICES ASSUME ListInv, [Next]_vars PROVE ListInv'
  OBVIOUS
<1> USE DEF ListInv, TypeOK, Held, StillNew, ToPlace, Roles, EachUrlOnce
<1>1. CASE Stop
  BY <1>1 DEF Stop, shared
<1>2. CASE UNCHANGED vars
  BY <1>2 DEF vars, shared
<1>3. QED
  BY <1>1, <1>2, ListPlace, ListFetch DEF Next

LEMMA ListInvariance == Spec => []ListInv
BY ListInit, ListStep, PTL DEF Spec

\* The variables keep their types; place and signal never run out of
\* addresses and remove is never called on an empty list.
THEOREM TypeCorrect == Spec => []TypeOK
<1>1. ListInv => TypeOK
  BY DEF ListInv
<1>2. QED
  BY <1>1, ListInvariance, PTL

\* However the threads interleave, UrlBuffer holds no address twice and none
\* that is unknown to UrlVisited.
THEOREM BufferIsASet == Spec => []EachUrlOnce
<1>1. ListInv => EachUrlOnce
  BY DEF ListInv
<1>2. QED
  BY <1>1, ListInvariance, PTL

-----------------------------------------------------------------------------
(* What a step does to the crawl.                                          *)

Finds(a) == /\ PlaceAppend(a)
            /\ Head(todo[a]) \in Url \ UrlVisited
            /\ UrlVisited' = UrlVisited \cup {Head(todo[a])}
            /\ Taken' = Taken

Takes(t) == /\ ObtainTake(t)
            /\ url'[t] \in UrlVisited \ Taken
            /\ UrlVisited' = UrlVisited
            /\ Taken' = Taken \cup {url'[t]}

LEMMA CrawlTakes ==
  ASSUME ListInv, NEW t \in Thread, ObtainTake(t)
  PROVE  Takes(t)
<1> DEFINE u == UrlBuffer[Len(UrlBuffer)]
<1>1. /\ UrlBuffer # <<>>
      /\ url' = [url EXCEPT ![t] = u]
      /\ UrlBuffer' = SubSeq(UrlBuffer, 1, Len(UrlBuffer)-1)
      /\ UrlVisited' = UrlVisited
  BY DEF ObtainTake
<1>2. UrlBuffer \in Seq(Url) /\ Distinct(UrlBuffer) /\ url \in [Thread -> Url]
  BY DEF ListInv, TypeOK, EachUrlOnce, Distinct
<1>3. /\ u \in Elements(UrlBuffer)
      /\ Elements(UrlBuffer) = Elements(UrlBuffer') \cup {u}
      /\ u \notin Elements(UrlBuffer')
  BY <1>1, <1>2, ElementsRemove, DistinctRemove
<1>4. url'[t] = u /\ u \in UrlVisited
  BY <1>1, <1>2, <1>3 DEF ListInv, EachUrlOnce
<1>5. QED
  BY <1>1, <1>3, <1>4 DEF Takes, Taken

\* Every step finds one address, takes one, or leaves the lists alone.
LEMMA CrawlStep ==
  ASSUME ListInv, [Next]_vars
  PROVE  \/ \E a \in Actor : Finds(a)
         \/ \E t \in Thread : Takes(t)
         \/ UrlVisited' = UrlVisited /\ Taken' = Taken
<1>1. ASSUME NEW a \in Actor, PlaceAppend(a) PROVE Finds(a)
  <2> DEFINE u == Head(todo[a])
  <2>1. /\ pc[a] = "append"
        /\ UrlBuffer' = Append(UrlBuffer, u)
        /\ UrlVisited' = UrlVisited \cup {u}
    BY <1>1 DEF PlaceAppend, At
  <2>2. u \in Url \ UrlVisited
    BY <2>1, Next1 DEF ListInv, StillNew
  <2>3. Elements(UrlBuffer') = Elements(UrlBuffer) \cup {u}
    BY <2>1, <2>2, ElementsAppend DEF ListInv, TypeOK
  <2>4. QED
    BY <1>1, <2>1, <2>2, <2>3 DEF Finds, Taken
<1>2. ASSUME NEW t \in Thread, ObtainTake(t) PROVE Takes(t)
  BY <1>2, CrawlTakes
<1>3. CASE UNCHANGED <<UrlBuffer, UrlVisited>>
  BY <1>3 DEF Taken
<1>4. ASSUME NEW a \in Actor, Place(a), ~PlaceAppend(a)
      PROVE  UNCHANGED <<UrlBuffer, UrlVisited>>
  BY <1>4 DEF Place, PlaceLock, PlaceKnown, PlaceNew, Signal, shared
<1>5. ASSUME NEW t \in Thread, Fetch(t) \/ SpuriousWake(t), ~ObtainTake(t)
      PROVE  UNCHANGED <<UrlBuffer, UrlVisited>>
  BY <1>5 DEF Fetch, ObtainLock, ObtainWait, LoadPages, StorePages,
              ReadResponse, SpuriousWake, shared
<1>6. CASE Stop \/ UNCHANGED vars
  BY <1>3, <1>6 DEF Stop, vars, shared
<1>7. QED
  BY <1>1, <1>2, <1>3, <1>4, <1>5, <1>6 DEF Next

\* What has left the buffer stays out of it: no page is fetched twice.
THEOREM NoPageAgain == Spec => NeverAgain
<1>1. ListInv /\ [Next]_vars => [Taken \subseteq Taken']_vars
  BY CrawlStep DEF Finds, Takes
<1>2. QED
  BY <1>1, ListInvariance, PTL DEF Spec, NeverAgain

-----------------------------------------------------------------------------
(* Signals.                                                                *)

MainPlacesOne == todo[Main] \in {<<>>, <<Start>>}

WakeInv == NoLostWakeup /\ MainPlacesOne

LEMMA WakeInit == Init => WakeInv
BY CrawlerAssumption
   DEF Init, WakeInv, NoLostWakeup, MainPlacesOne, Actor, CrawlerAssumption

LEMMA WakeStep == ListInv /\ WakeInv /\ [Next]_vars => WakeInv'
<1> SUFFICES ASSUME ListInv, WakeInv, [Next]_vars PROVE WakeInv'
  OBVIOUS
<1>0. /\ Main \notin Thread /\ Thread # {} /\ Actor = Thread \cup {Main}
      /\ pc \in [Actor -> ThreadPc] /\ todo \in [Actor -> Seq(Url)]
  BY CrawlerAssumption DEF Actor, CrawlerAssumption, ListInv, TypeOK
<1>1. ASSUME NEW a \in Actor, PlaceLock(a) \/ PlaceNew(a) PROVE WakeInv'
  <2>1. /\ pc[a] \in {"place", "exists"} /\ pc'[a] \in {"exists", "append"}
        /\ \A b \in Actor \ {a} : pc'[b] = pc[b]
        /\ UNCHANGED <<UrlBuffer, todo>>
    BY <1>0, <1>1 DEF PlaceLock, PlaceNew, At, shared
  <2>2. QED
    BY <1>0, <2>1 DEF WakeInv, NoLostWakeup, MainPlacesOne
<1>2. ASSUME NEW a \in Actor, PlaceKnown(a) \/ PlaceAppend(a) PROVE WakeInv'
  <2>1. /\ pc[a] \in {"exists", "append"} /\ pc'[a] = AfterPlace(a)
        /\ \A b \in Actor \ {a} : pc'[b] = pc[b] /\ todo'[b] = todo[b]
        /\ todo'[a] = Tail(todo[a])
    BY <1>0, <1>2 DEF PlaceKnown, PlaceAppend, At
  <2>2. CASE a = Main
    <3>1. todo[a] = <<Start>>
      BY <2>1, <2>2, Next1 DEF WakeInv, MainPlacesOne
    <3>2. Tail(todo[a]) = <<>>
      BY <3>1
    <3>3. pc'[a] = "signal" /\ todo'[a] = <<>>
      BY <2>1, <3>2, Next1
    <3>4. QED
      BY <2>2, <3>3 DEF WakeInv, NoLostWakeup, MainPlacesOne
  <2>3. CASE a # Main
    <3>1. pc'[a] \in {"signal", "place"} /\ a \in Thread
      BY <1>0, <2>1, <2>3 DEF AfterPlace
    <3>2. QED
      BY <1>0, <2>1, <2>3, <3>1 DEF WakeInv, NoLostWakeup, MainPlacesOne
  <2>4. QED
    BY <2>2, <2>3
<1>3. ASSUME NEW a \in Actor, Signal(a) PROVE WakeInv'
  <2>1. UNCHANGED <<UrlBuffer, todo>>
    BY <1>3 DEF Signal, shared
  <2>2. \E t \in Thread : pc'[t] # "wait"
    BY <1>0, <1>3 DEF Signal
  <2>3. QED
    BY <2>1, <2>2 DEF WakeInv, NoLostWakeup, MainPlacesOne
<1>4. ASSUME NEW t \in Thread, ObtainWait(t) PROVE WakeInv'
  BY <1>4 DEF ObtainWait, WakeInv, NoLostWakeup, MainPlacesOne
<1>5. ASSUME NEW t \in Thread, Fetch(t) \/ SpuriousWake(t), ~ObtainWait(t)
      PROVE  WakeInv'
  <2>1. pc'[t] # "wait"
    BY <1>0, <1>5
       DEF Fetch, ObtainLock, ObtainTake, LoadPages, StorePages, ReadResponse,
           SpuriousWake, At
  <2>2. todo'[Main] = todo[Main]
    BY <1>0, <1>5
       DEF Fetch, ObtainLock, ObtainTake, LoadPages, StorePages, ReadResponse,
           SpuriousWake
  <2>3. QED
    BY <2>1, <2>2 DEF WakeInv, NoLostWakeup, MainPlacesOne
<1>6. CASE Stop \/ UNCHANGED vars
  BY <1>6 DEF Stop, vars, shared, WakeInv, NoLostWakeup, MainPlacesOne
<1>7. QED
  BY <1>1, <1>2, <1>3, <1>4, <1>5, <1>6 DEF Next, Place

\* One pthread_cond_signal per page, given after all its links were placed and
\* without the lock, is enough: the threads never all sleep over work.
THEOREM NoWakeupIsLost == Spec => []NoLostWakeup
<1>1. Init => ListInv /\ WakeInv
  BY ListInit, WakeInit
<1>2. (ListInv /\ WakeInv) /\ [Next]_vars => (ListInv /\ WakeInv)'
  BY ListStep, WakeStep
<1>3. WakeInv => NoLostWakeup
  BY DEF WakeInv
<1>4. QED
  BY <1>1, <1>2, <1>3, PTL DEF Spec

-----------------------------------------------------------------------------
(* Where addresses come from.                                              *)

Busy == {"load", "store", "read", "place", "exists", "append"}

\* A thread works on a page it has taken, and places what pages it has read show.
OriginInv ==
  /\ MainPlacesOne
  /\ \A t \in Thread :
       /\ pc[t] \in Busy => url[t] \in Taken
       /\ before[t] \subseteq Taken
       /\ Elements(todo[t]) \subseteq LinksOf(before[t]) \cup Cut

LEMMA OriginInit == Init => OriginInv
<1> SUFFICES ASSUME Init PROVE OriginInv
  OBVIOUS
<1>1. /\ todo[Main] = <<Start>>
      /\ \A t \in Thread : todo[t] = <<>> /\ pc[t] = "obtain" /\ before[t] = {}
  BY CrawlerAssumption DEF Init, Actor, CrawlerAssumption
<1>2. QED
  BY <1>1, ElementsEmpty DEF OriginInv, MainPlacesOne, Busy

LEMMA OriginStep == ListInv /\ WakeInv /\ OriginInv /\ [Next]_vars => OriginInv'
<1> SUFFICES ASSUME ListInv, WakeInv, OriginInv, [Next]_vars PROVE OriginInv'
  OBVIOUS
<1>0. /\ Main \notin Thread /\ Actor = Thread \cup {Main}
      /\ pc \in [Actor -> ThreadPc] /\ todo \in [Actor -> Seq(Url)]
      /\ url \in [Thread -> Url] /\ before \in [Thread -> SUBSET Url]
  BY CrawlerAssumption DEF Actor, CrawlerAssumption, ListInv, TypeOK
<1>1. MainPlacesOne'
  BY WakeStep DEF WakeInv
<1>2. Taken \subseteq Taken'
  BY CrawlStep DEF Finds, Takes
<1>3. ASSUME NEW t \in Thread,
             pc'[t] \in Busy => pc[t] \in Busy,
             Elements(todo'[t]) \subseteq Elements(todo[t]),
             url'[t] = url[t], before'[t] = before[t]
      PROVE  /\ pc'[t] \in Busy => url'[t] \in Taken'
             /\ before'[t] \subseteq Taken'
             /\ Elements(todo'[t]) \subseteq LinksOf(before'[t]) \cup Cut
  BY <1>2, <1>3 DEF OriginInv
<1>4. ASSUME NEW a \in Actor, Place(a) PROVE OriginInv'
  <2>1. UNCHANGED <<url, before>>
    BY <1>4 DEF Place, PlaceLock, PlaceKnown, PlaceNew, PlaceAppend, Signal
  <2>2. ASSUME NEW t \in Thread PROVE pc'[t] \in Busy => pc[t] \in Busy
    BY <1>0, <1>4
       DEF Place, PlaceLock, PlaceKnown, PlaceNew, PlaceAppend, Signal, At,
           AfterPlace, Busy
  <2>3. ASSUME NEW t \in Thread
        PROVE  Elements(todo'[t]) \subseteq Elements(todo[t])
    <3>1. CASE PlaceLock(a) \/ PlaceNew(a) \/ Signal(a)
      BY <3>1 DEF PlaceLock, PlaceNew, Signal
    <3>2. CASE PlaceKnown(a) \/ PlaceAppend(a)
      <4>1. /\ pc[a] \in {"exists", "append"}
            /\ todo' = [todo EXCEPT ![a] = Tail(@)]
        BY <3>2 DEF PlaceKnown, PlaceAppend, At
      <4>2. Elements(todo[a]) = {Head(todo[a])} \cup Elements(Tail(todo[a]))
        BY <4>1, Next1
      <4>3. QED
        BY <1>0, <4>1, <4>2
    <3>3. QED
      BY <1>4, <3>1, <3>2 DEF Place
  <2>4. QED
    BY <1>1, <1>3, <2>1, <2>2, <2>3 DEF OriginInv
<1>5. ASSUME NEW t \in Thread, ObtainTake(t) PROVE OriginInv'
  <2>1. Takes(t)
    BY <1>5, CrawlTakes
  <2>2. pc[t] = "check" /\ UNCHANGED <<todo, before>>
        /\ \A s \in Thread \ {t} : pc'[s] = pc[s] /\ url'[s] = url[s]
    BY <1>0, <1>5 DEF ObtainTake, At
  <2>3. todo[t] = <<>>
    BY <1>0, <2>2 DEF ListInv, ToPlace
  <2>4. QED
    BY <1>1, <1>3, <2>1, <2>2, <2>3, ElementsEmpty DEF OriginInv, Takes
<1>6. ASSUME NEW t \in Thread, ReadResponse(t) PROVE OriginInv'
  <2>1. PICK r \in Response(t) : todo' = [todo EXCEPT ![t] = r]
    BY <1>6 DEF ReadResponse
  <2>2. /\ pc[t] = "read" /\ UNCHANGED url
        /\ before' = [before EXCEPT ![t] = @ \cup {url[t]}]
        /\ \A s \in Thread \ {t} : pc'[s] = pc[s]
    BY <1>0, <1>6 DEF ReadResponse
  <2>3. Elements(r) \subseteq LinksOf(before'[t]) \cup Cut
    BY <1>0, <2>1, <2>2, ResponseType DEF ListInv
  <2>4. url'[t] \in Taken' /\ before'[t] \subseteq Taken'
    BY <1>0, <1>2, <2>2 DEF OriginInv, Busy
  <2>5. QED
    BY <1>0, <1>1, <1>3, <2>1, <2>2, <2>3, <2>4 DEF OriginInv
<1>7. ASSUME NEW t \in Thread,
             \/ ObtainLock(t) \/ ObtainWait(t) \/ SpuriousWake(t)
             \/ LoadPages(t) \/ StorePages(t)
      PROVE  OriginInv'
  <2>1. UNCHANGED <<todo, url, before>>
    BY <1>7 DEF ObtainLock, ObtainWait, SpuriousWake, LoadPages, StorePages
  <2>2. ASSUME NEW s \in Thread PROVE pc'[s] \in Busy => pc[s] \in Busy
    BY <1>0, <1>7
       DEF ObtainLock, ObtainWait, SpuriousWake, LoadPages, StorePages, At, Busy
  <2>3. QED
    BY <1>1, <1>3, <2>1, <2>2 DEF OriginInv
<1>8. CASE Stop \/ UNCHANGED vars
  BY <1>1, <1>3, <1>8 DEF Stop, vars, OriginInv
<1>9. QED
  BY <1>4, <1>5, <1>6, <1>7, <1>8 DEF Next, Fetch

-----------------------------------------------------------------------------
(* The crawler implements the work list.                                   *)

\* Every step of the program is a step of Frontier or changes nothing there.
THEOREM CrawlerImplementsFrontier == Spec => Pages!SafeSpec
<1>1. Init => Pages!Init
  BY ElementsEmpty DEF Init, Pages!Init, Taken
<1>2. ASSUME ListInv, OriginInv, [Next]_vars PROVE [Pages!Next]_(Pages!vars)
  <2>1. ASSUME NEW a \in Actor, Finds(a) PROVE Pages!Next
    <3> DEFINE u == Head(todo[a])
    <3>1. /\ u \in Url \ UrlVisited
          /\ UrlVisited' = UrlVisited \cup {u}
          /\ Taken' = Taken
      BY <2>1 DEF Finds
    <3>2. pc[a] = "append"
      BY <2>1 DEF Finds, PlaceAppend, At
    <3>3. u \in Elements(todo[a]) /\ todo[a] # <<>>
      BY <1>2, <3>2, Next1
    <3>4. CASE a = Main
      <4>1. todo[a] = <<Start>>
        BY <1>2, <3>3, <3>4 DEF OriginInv, MainPlacesOne
      <4>2. u = Start
        BY <4>1
      <4>3. Pages!Find(Start)
        BY <3>1, <4>2 DEF Pages!Find
      <4>4. QED
        BY <4>3, CrawlerAssumption DEF Pages!Next, CrawlerAssumption
    <3>5. CASE a # Main
      <4>1. a \in Thread
        BY <3>5 DEF Actor
      <4>2. /\ url[a] \in Taken /\ before[a] \subseteq Taken /\ Taken \subseteq Url
            /\ u \in LinksOf(before[a]) \cup Cut
        BY <1>2, <3>2, <3>3, <4>1 DEF OriginInv, Busy, ListInv, TypeOK, Taken
      <4>3. \E v \in Taken : <<v, u>> \in MayShow
        BY <3>1, <4>2 DEF Cut, MayShow, LinksOf
      <4>4. Pages!Find(u)
        BY <3>1, <4>2, <4>3 DEF Pages!Find
      <4>5. QED
        BY <3>1, <4>4 DEF Pages!Next
    <3>6. QED
      BY <3>4, <3>5
  <2>2. ASSUME NEW t \in Thread, Takes(t) PROVE Pages!Next
    <3>1. PICK u \in UrlVisited \ Taken :
            Taken' = Taken \cup {u} /\ UrlVisited' = UrlVisited
      BY <2>2 DEF Takes
    <3>2. u \in Url
      BY <1>2 DEF ListInv, TypeOK
    <3>3. Pages!Take(u)
      BY <3>1 DEF Pages!Take
    <3>4. QED
      BY <3>2, <3>3 DEF Pages!Next
  <2>3. CASE UrlVisited' = UrlVisited /\ Taken' = Taken
    BY <2>3 DEF Pages!vars
  <2>4. QED
    BY <1>2, <2>1, <2>2, <2>3, CrawlStep
<1>3. Spec => [](ListInv /\ WakeInv /\ OriginInv)
  <2>1. Init => ListInv /\ WakeInv /\ OriginInv
    BY ListInit, OriginInit, WakeInit
  <2>2. (ListInv /\ WakeInv /\ OriginInv) /\ [Next]_vars
          => (ListInv /\ WakeInv /\ OriginInv)'
    BY ListStep, WakeStep, OriginStep
  <2>3. QED
    BY <2>1, <2>2, PTL DEF Spec
<1>4. QED
  BY <1>1, <1>2, <1>3, PTL DEF Spec, Pages!SafeSpec

-----------------------------------------------------------------------------
(* Where the crawl ends.                                                   *)

LEMMA ReachableClosed ==
  /\ Start \in Reachable
  /\ \A u \in Reachable \cup Cut :
       Elements(Links[u]) \cap Url \subseteq Reachable
<1>1. Start \in Reachable
  BY CrawlerAssumption DEF CrawlerAssumption, Reachable, Closed
<1>2. ASSUME NEW u \in Reachable, NEW v \in Elements(Links[u]) \cap Url
      PROVE  v \in Reachable
  <2>1. ASSUME NEW S \in SUBSET Url, Closed(S) PROVE v \in S
    BY <1>2, <2>1 DEF Reachable, Closed
  <2>2. QED
    BY <1>2, <2>1 DEF Reachable
<1>3. ASSUME NEW u \in Cut PROVE Elements(Links[u]) = {}
  BY <1>3, CrawlerAssumption, ElementsEmpty DEF CrawlerAssumption, Cut
<1>4. QED
  BY <1>1, <1>2, <1>3

ReachInv == UrlVisited \subseteq Reachable \cup Cut

LEMMA ReachStep ==
  ASSUME ListInv, OriginInv, ReachInv, [Next]_vars
  PROVE  ReachInv'
<1>1. ASSUME NEW a \in Actor, Finds(a)
      PROVE  Head(todo[a]) \in Reachable \cup Cut
  <2> DEFINE u == Head(todo[a])
  <2>1. pc[a] = "append" /\ u \in Url
    BY <1>1 DEF Finds, PlaceAppend, At
  <2>2. u \in Elements(todo[a]) /\ todo[a] # <<>>
    BY <2>1, Next1
  <2>3. CASE a = Main
    <3>1. todo[a] = <<Start>>
      BY <2>2, <2>3 DEF OriginInv, MainPlacesOne
    <3>2. QED
      BY <3>1, ReachableClosed
  <2>4. CASE a # Main
    <3>1. a \in Thread
      BY <2>4 DEF Actor
    <3>2. before[a] \subseteq UrlVisited /\ u \in LinksOf(before[a]) \cup Cut
      BY <2>1, <2>2, <3>1 DEF OriginInv, Taken
    <3>3. QED
      BY <2>1, <3>2, ReachableClosed DEF ReachInv, LinksOf
  <2>5. QED
    BY <2>3, <2>4
<1>2. QED
  BY <1>1, CrawlStep DEF Finds, Takes, ReachInv

\* A link of a page that was taken has been visited, or a thread still has it
\* to read or to place.
Pending(t, u, v) ==
  url[t] = u /\ (pc[t] \in {"load", "store", "read"} \/ v \in Elements(todo[t]))

CoverInv ==
  /\ Start \in UrlVisited \cup Elements(todo[Main])
  /\ WholeReads =>
       \A u \in Taken : \A v \in Elements(Links[u]) :
         v \in UrlVisited \/ \E t \in Thread : Pending(t, u, v)

LEMMA CoverInit == Init => CoverInv
<1> SUFFICES ASSUME Init PROVE CoverInv
  OBVIOUS
<1>1. todo[Main] = <<Start>> /\ UrlVisited = {}
  BY DEF Init, Actor
<1>2. Start \in Elements(<<Start>>)
  BY DEF Elements
<1>3. QED
  BY <1>1, <1>2 DEF CoverInv, Taken

\* Pending, after the step.
Still(t, u, v) ==
  url'[t] = u /\ (pc'[t] \in {"load", "store", "read"} \/ v \in Elements(todo'[t]))

StartKept == \/ Start \in UrlVisited' \cup Elements(todo'[Main])
             \/ Start \notin UrlVisited \cup Elements(todo[Main])

LinksKept == \A t \in Thread : \A u, v :
               WholeReads /\ v \in Elements(Links[u]) /\ Pending(t, u, v)
                 => v \in UrlVisited' \/ Still(t, u, v)

TakenKept == \A u \in Taken' : u \in Taken \/ \E t \in Thread : \A v : Still(t, u, v)

\* What is pending stays so or gets visited, and what is taken has its links
\* pending.
LEMMA CoverKept ==
  ASSUME CoverInv, UrlVisited \subseteq UrlVisited',
         StartKept, LinksKept, TakenKept
  PROVE  CoverInv'
<1>1. Start \in UrlVisited' \cup Elements(todo'[Main])
  BY DEF CoverInv, StartKept
<1>2. ASSUME WholeReads, NEW u \in Taken', NEW v \in Elements(Links[u]),
             v \notin UrlVisited'
      PROVE  \E t \in Thread : Still(t, u, v)
  <2>1. CASE u \in Taken
    <3>1. PICK t \in Thread : Pending(t, u, v)
      BY <1>2, <2>1 DEF CoverInv
    <3>2. QED
      BY <1>2, <3>1 DEF LinksKept
  <2>2. CASE u \notin Taken
    BY <2>2 DEF TakenKept
  <2>3. QED
    BY <2>1, <2>2
<1>3. QED
  BY <1>1, <1>2 DEF CoverInv, Pending, Still

LEMMA CoverStep ==
  ASSUME ListInv, OriginInv, CoverInv, [Next]_vars
  PROVE  CoverInv'
<1>0. /\ Main \notin Thread /\ Actor = Thread \cup {Main}
      /\ pc \in [Actor -> ThreadPc] /\ todo \in [Actor -> Seq(Url)]
      /\ url \in [Thread -> Url]
  BY CrawlerAssumption DEF Actor, CrawlerAssumption, ListInv, TypeOK
<1>1. UrlVisited \subseteq UrlVisited'
  BY CrawlStep DEF Finds, Takes
<1>2. ASSUME NEW a \in Actor, PlaceKnown(a) \/ PlaceAppend(a) PROVE CoverInv'
  <2> DEFINE u == Head(todo[a])
  <2>1. /\ pc[a] \in {"exists", "append"} /\ pc'[a] \in {"signal", "place"}
        /\ \A t \in Actor \ {a} : pc'[t] = pc[t]
        /\ todo' = [todo EXCEPT ![a] = Tail(@)]
        /\ u \in UrlVisited'
        /\ UNCHANGED url
    BY <1>0, <1>2 DEF PlaceKnown, PlaceAppend, At, AfterPlace
  <2>2. Elements(todo[a]) = {u} \cup Elements(todo'[a])
    BY <1>0, <2>1, Next1
  <2>3. \A b \in Actor \ {a} : todo'[b] = todo[b]
    BY <1>0, <2>1
  <2>4. Taken' = Taken
    BY <1>0, <1>2, <2>1, CrawlStep
       DEF Finds, Takes, ObtainTake, At, PlaceKnown, PlaceAppend
  <2>5. LinksKept
    <3>1. SUFFICES ASSUME NEW t \in Thread, NEW w, NEW v, Pending(t, w, v)
                   PROVE  v \in UrlVisited' \/ Still(t, w, v)
      BY DEF LinksKept
    <3>2. CASE t = a
      BY <2>1, <2>2, <3>1, <3>2 DEF Pending, Still
    <3>3. CASE t # a
      BY <1>0, <2>1, <2>3, <3>1, <3>3 DEF Pending, Still
    <3>4. QED
      BY <3>2, <3>3
  <2>6. StartKept
    BY <1>0, <1>1, <2>1, <2>2, <2>3 DEF StartKept
  <2>7. QED
    BY <1>1, <2>4, <2>5, <2>6, CoverKept DEF TakenKept
<1>3. ASSUME NEW t \in Thread, ObtainTake(t) PROVE CoverInv'
  <2>1. Takes(t)
    BY <1>3, CrawlTakes
  <2>2. /\ pc[t] = "check" /\ pc'[t] = "load" /\ UNCHANGED todo
        /\ \A s \in Thread \ {t} : pc'[s] = pc[s] /\ url'[s] = url[s]
    BY <1>0, <1>3 DEF ObtainTake, At
  <2>3. todo[t] = <<>>
    BY <1>0, <2>2 DEF ListInv, ToPlace
  <2>4. LinksKept
    <3>1. SUFFICES ASSUME NEW s \in Thread, NEW u, NEW v, Pending(s, u, v),
                          v \in Elements(Links[u])
                   PROVE  Still(s, u, v)
      BY DEF LinksKept
    <3>2. s # t
      BY <2>2, <2>3, <3>1, ElementsEmpty DEF Pending
    <3>3. QED
      BY <2>2, <3>1, <3>2 DEF Pending, Still
  <2>5. TakenKept
    <3>1. \A v : Still(t, url'[t], v)
      BY <2>2 DEF Still
    <3>2. QED
      BY <2>1, <3>1 DEF TakenKept, Takes
  <2>6. QED
    BY <1>1, <2>2, <2>4, <2>5, CoverKept DEF StartKept
<1>4. ASSUME NEW t \in Thread, ReadResponse(t) PROVE CoverInv'
  <2>1. PICK r \in Response(t) : todo' = [todo EXCEPT ![t] = r]
    BY <1>4 DEF ReadResponse
  <2>2. /\ UNCHANGED url
        /\ \A s \in Thread \ {t} : pc'[s] = pc[s] /\ todo'[s] = todo[s]
        /\ todo'[t] = r /\ todo'[Main] = todo[Main]
    BY <1>0, <1>4, <2>1 DEF ReadResponse
  <2>3. Taken' = Taken
    BY <1>4 DEF ReadResponse, Taken, shared
  <2>4. WholeReads => Elements(Links[url[t]]) \subseteq Elements(r)
    BY <2>1, ResponseType DEF ListInv
  <2>5. LinksKept
    BY <2>2, <2>4 DEF LinksKept, Pending, Still
  <2>6. QED
    BY <1>1, <2>2, <2>3, <2>5, CoverKept DEF StartKept, TakenKept
<1>5. ASSUME UNCHANGED <<UrlBuffer, UrlVisited, todo, url>>,
             \A t \in Thread : pc[t] \in {"load", "store", "read"}
                                 => pc'[t] \in {"load", "store", "read"}
      PROVE  CoverInv'
  BY <1>5, CoverKept DEF StartKept, LinksKept, TakenKept, Pending, Still, Taken
<1>6. ASSUME NEW a \in Actor, PlaceLock(a) \/ PlaceNew(a) \/ Signal(a)
      PROVE  CoverInv'
  <2>1. UNCHANGED <<UrlBuffer, UrlVisited, todo, url>>
    BY <1>6 DEF PlaceLock, PlaceNew, Signal, shared
  <2>2. \A t \in Thread : pc[t] \in {"load", "store", "read"} => pc'[t] = pc[t]
    BY <1>0, <1>6 DEF PlaceLock, PlaceNew, Signal, At
  <2>3. QED
    BY <1>5, <2>1, <2>2
<1>7. ASSUME NEW t \in Thread,
             \/ ObtainLock(t) \/ ObtainWait(t) \/ SpuriousWake(t)
             \/ LoadPages(t) \/ StorePages(t)
      PROVE  CoverInv'
  <2>1. UNCHANGED <<UrlBuffer, UrlVisited, todo, url>>
    BY <1>7 DEF ObtainLock, ObtainWait, SpuriousWake, LoadPages, StorePages,
                shared
  <2>2. \A s \in Thread : pc[s] \in {"load", "store", "read"}
                            => pc'[s] \in {"load", "store", "read"}
    BY <1>0, <1>7
       DEF ObtainLock, ObtainWait, SpuriousWake, LoadPages, StorePages, At
  <2>3. QED
    BY <1>5, <2>1, <2>2
<1>8. CASE Stop \/ UNCHANGED vars
  BY <1>5, <1>8 DEF Stop, vars, shared
<1>9. QED
  BY <1>2, <1>3, <1>4, <1>6, <1>7, <1>8 DEF Next, Place, Fetch

LEMMA CrawlInvariance ==
  Spec => [](ListInv /\ WakeInv /\ OriginInv /\ ReachInv /\ CoverInv)
<1> DEFINE I == ListInv /\ WakeInv /\ OriginInv /\ ReachInv /\ CoverInv
<1>1. Init => I
  BY ListInit, OriginInit, WakeInit, CoverInit DEF Init, ReachInv
<1>2. I /\ [Next]_vars => I'
  BY ListStep, WakeStep, OriginStep, ReachStep, CoverStep
<1>3. QED
  BY <1>1, <1>2, PTL DEF Spec

\* Whatever read() cuts off, only what links lead to is ever visited, and cut
\* links.
THEOREM VisitsOnlyReachable == Spec => []OnlyReachable
<1>1. ReachInv => OnlyReachable
  BY DEF ReachInv, OnlyReachable, Cut
<1>2. QED
  BY <1>1, CrawlInvariance, PTL

\* When every thread waits and responses were read whole, the whole site has
\* been visited: for every site, every number of threads, every interleaving.
THEOREM CrawlsEverything == Spec => []CrawlComplete
<1>1. ASSUME ListInv, WakeInv, ReachInv, CoverInv, Quiet, WholeReads
      PROVE  UrlVisited = Reachable
  <2>1. \A a \in Actor : todo[a] = <<>>
    BY <1>1, CrawlerAssumption DEF ListInv, ToPlace, Quiet, Actor
  <2>2. UrlBuffer = <<>>
    BY <1>1 DEF WakeInv, NoLostWakeup, Quiet
  <2>3. Taken = UrlVisited /\ UrlVisited \subseteq Url
    BY <1>1, <2>2, ElementsEmpty DEF Taken, ListInv, TypeOK
  <2>4. Start \in UrlVisited
    BY <1>1, <2>1, ElementsEmpty DEF CoverInv, Actor
  <2>5. ASSUME NEW u \in UrlVisited, NEW v \in Elements(Links[u])
        PROVE  v \in UrlVisited
    <3>1. \A t \in Thread : ~Pending(t, u, v)
      BY <1>1, <2>1, ElementsEmpty DEF Pending, Quiet, Actor
    <3>2. QED
      BY <1>1, <2>3, <3>1 DEF CoverInv
  <2>6. Closed(UrlVisited)
    BY <2>4, <2>5 DEF Closed
  <2>7. Reachable \subseteq UrlVisited
    BY <2>3, <2>6 DEF Reachable
  <2>8. QED
    BY <1>1, <2>7 DEF ReachInv, Cut
<1>2. ListInv /\ WakeInv /\ ReachInv /\ CoverInv => CrawlComplete
  BY <1>1 DEF CrawlComplete
<1>3. QED
  BY <1>2, CrawlInvariance, PTL

-----------------------------------------------------------------------------
(* The counter of pages.                                                   *)

\* The threads that have taken a page and not counted it.
Uncounted == {t \in Thread : pc[t] \in {"load", "store"}}

\* Neither the counter nor a value that is to be stored in it can be ahead of
\* what was taken, with what is not counted yet set aside.
PagesInv ==
  /\ IsFiniteSet(UrlVisited)
  /\ pages + Cardinality(Uncounted) <= Cardinality(Taken)
  /\ \A t \in Thread :
       pc[t] = "store" => loaded[t] + Cardinality(Uncounted) <= Cardinality(Taken)

LEMMA UncountedFinite == IsFiniteSet(Uncounted) /\ Cardinality(Uncounted) \in Nat
<1>1. Uncounted \in SUBSET Thread
  BY DEF Uncounted
<1>2. QED
  BY <1>1, CrawlerAssumption, FS_Subset, FS_CardinalityType

LEMMA TakenFinite ==
  IsFiniteSet(UrlVisited) => IsFiniteSet(Taken) /\ Cardinality(Taken) \in Nat
<1>1. Taken \in SUBSET UrlVisited
  BY DEF Taken
<1>2. QED
  BY <1>1, FS_Subset, FS_CardinalityType

LEMMA PagesStep ==
  ASSUME ListInv, PagesInv, [Next]_vars
  PROVE  PagesInv'
<1>0. /\ Main \notin Thread /\ Actor = Thread \cup {Main}
      /\ pc \in [Actor -> ThreadPc] /\ loaded \in [Thread -> Nat] /\ pages \in Nat
  BY CrawlerAssumption DEF Actor, ListInv, TypeOK
<1>c. /\ IsFiniteSet(Uncounted) /\ Cardinality(Uncounted) \in Nat
      /\ IsFiniteSet(Taken) /\ Cardinality(Taken) \in Nat
  BY UncountedFinite, TakenFinite DEF PagesInv
<1>1. IsFiniteSet(UrlVisited') /\ (Taken' = Taken \/ \E t \in Thread : Takes(t))
  <2>1. ASSUME NEW a \in Actor, Finds(a)
        PROVE  IsFiniteSet(UrlVisited') /\ Taken' = Taken
    BY <2>1, FS_AddElement DEF Finds, PagesInv
  <2>2. ASSUME NEW t \in Thread, Takes(t) PROVE IsFiniteSet(UrlVisited')
    BY <2>2 DEF Takes, PagesInv
  <2>3. QED
    BY <2>1, <2>2, CrawlStep DEF PagesInv
<1>2. ASSUME NEW t \in Thread, ObtainTake(t) PROVE PagesInv'
  <2>1. /\ UNCHANGED <<pages, loaded>>
        /\ pc[t] = "check" /\ pc' = [pc EXCEPT ![t] = "load"]
    BY <1>2 DEF ObtainTake, At
  <2>2. Uncounted' = Uncounted \cup {t} /\ t \notin Uncounted
    BY <1>0, <2>1 DEF Uncounted
  <2>3. Cardinality(Uncounted') = Cardinality(Uncounted) + 1
    BY <1>c, <2>2, FS_AddElement
  <2>4. Takes(t)
    BY <1>2, CrawlTakes
  <2>5. Cardinality(Taken') = Cardinality(Taken) + 1
    BY <1>c, <2>4, FS_AddElement DEF Takes
  <2>6. \A u \in Thread : pc'[u] = "store" => pc[u] = "store"
    BY <1>0, <2>1
  <2>7. QED
    BY <1>0, <1>c, <1>1, <2>1, <2>3, <2>5, <2>6 DEF PagesInv
<1>3. ASSUME NEW t \in Thread, LoadPages(t) PROVE PagesInv'
  <2>1. /\ UNCHANGED pages /\ Taken' = Taken
        /\ loaded' = [loaded EXCEPT ![t] = pages]
        /\ pc[t] = "load" /\ pc' = [pc EXCEPT ![t] = "store"]
    BY <1>3 DEF LoadPages, At, shared, Taken
  <2>2. Uncounted' = Uncounted
    BY <1>0, <2>1 DEF Uncounted
  <2>3. \A u \in Thread : pc'[u] = "store" =>
          loaded'[u] = pages \/ (pc[u] = "store" /\ loaded'[u] = loaded[u])
    BY <1>0, <2>1
  <2>4. QED
    BY <1>0, <1>1, <2>1, <2>2, <2>3 DEF PagesInv
<1>4. ASSUME NEW t \in Thread, StorePages(t) PROVE PagesInv'
  <2>1. /\ pages' = loaded[t]+1 /\ UNCHANGED loaded /\ Taken' = Taken
        /\ pc[t] = "store" /\ pc' = [pc EXCEPT ![t] = "read"]
    BY <1>4 DEF StorePages, At, shared, Taken
  <2>2. Uncounted' = Uncounted \ {t} /\ t \in Uncounted
    BY <1>0, <2>1 DEF Uncounted
  <2>3. Cardinality(Uncounted') = Cardinality(Uncounted) - 1
    BY <1>c, <2>2, FS_RemoveElement
  <2>4. \A u \in Thread : pc'[u] = "store" => pc[u] = "store"
    BY <1>0, <2>1
  <2>5. QED
    BY <1>0, <1>c, <1>1, <2>1, <2>3, <2>4 DEF PagesInv
<1>5. ASSUME UNCHANGED <<pages, loaded>>, \A t \in Thread : ~ObtainTake(t),
             \A t \in Thread : \/ pc'[t] = pc[t]
                               \/ {pc[t], pc'[t]} \cap {"load", "store"} = {}
      PROVE  PagesInv'
  <2>1. Uncounted' = Uncounted
    BY <1>5 DEF Uncounted
  <2>2. Taken' = Taken
    BY <1>1, <1>5 DEF Takes
  <2>3. \A u \in Thread : pc'[u] = "store" => pc[u] = "store"
    BY <1>5
  <2>4. QED
    BY <1>1, <1>5, <2>1, <2>2, <2>3 DEF PagesInv
<1>6. ASSUME NEW a \in Actor, Place(a) PROVE PagesInv'
  <2>1. \A t \in Thread : \/ pc'[t] = pc[t]
                          \/ {pc[t], pc'[t]} \cap {"load", "store"} = {}
    <3>1. CASE Signal(a)
      BY <1>0, <3>1 DEF Signal
    <3>2. CASE PlaceLock(a) \/ PlaceKnown(a) \/ PlaceNew(a) \/ PlaceAppend(a)
      BY <1>0, <3>2 DEF PlaceLock, PlaceKnown, PlaceNew, PlaceAppend, At, AfterPlace
    <3>3. QED
      BY <1>6, <3>1, <3>2 DEF Place
  <2>2. UNCHANGED <<pages, loaded>>
    BY <1>6 DEF Place, PlaceLock, PlaceKnown, PlaceNew, PlaceAppend, Signal
  <2>3. \A u \in Thread : ~ObtainTake(u)
    <3>1. ASSUME NEW u \in Thread, ObtainTake(u) PROVE FALSE
      BY <1>0, <2>1, <3>1 DEF ObtainTake, At
    <3>2. QED
      BY <3>1
  <2>4. QED
    BY <1>5, <2>1, <2>2, <2>3
<1>7. ASSUME NEW t \in Thread, \/ ObtainLock(t) \/ ObtainWait(t)
                               \/ ReadResponse(t) \/ SpuriousWake(t)
      PROVE  PagesInv'
  <2>1. UNCHANGED <<pages, loaded>>
    BY <1>7 DEF ObtainLock, ObtainWait, ReadResponse, SpuriousWake
  <2>2. \A u \in Thread : \/ pc'[u] = pc[u]
                          \/ {pc[u], pc'[u]} \cap {"load", "store"} = {}
    BY <1>0, <1>7 DEF ObtainLock, ObtainWait, ReadResponse, SpuriousWake, At
  <2>3. \A u \in Thread : ~ObtainTake(u)
    <3>1. ASSUME NEW u \in Thread, ObtainTake(u) PROVE FALSE
      BY <1>0, <2>2, <3>1 DEF ObtainTake, At
    <3>2. QED
      BY <3>1
  <2>4. QED
    BY <1>5, <2>1, <2>2, <2>3
<1>8. CASE Stop \/ UNCHANGED vars
  <2>1. UNCHANGED <<pages, loaded, pc, UrlVisited, UrlBuffer>>
    BY <1>8 DEF Stop, vars, shared
  <2>2. QED
    BY <2>1 DEF PagesInv, Uncounted, Taken
<1>9. QED
  BY <1>2, <1>3, <1>4, <1>6, <1>7, <1>8 DEF Next, Fetch

\* A thread that stores a stale count only takes others' pages off it: the
\* number of pages printed is never above that of the pages taken.
THEOREM CountsNoPageTwice == Spec => []PagesNotInflated
<1>1. Init => PagesInv
  <2>1. ASSUME Init PROVE PagesInv
    <3>1. /\ UrlVisited = {} /\ Taken = {} /\ pages = 0 /\ Uncounted = {}
          /\ \A t \in Thread : pc[t] # "store"
      BY <2>1, CrawlerAssumption DEF Init, Taken, Uncounted, Actor
    <3>2. QED
      BY <3>1, FS_EmptySet DEF PagesInv
  <2>2. QED
    BY <2>1
<1>2. ListInv /\ PagesInv /\ [Next]_vars => PagesInv'
  BY PagesStep
<1>3. ListInv /\ PagesInv => PagesNotInflated
  <2>1. ASSUME ListInv, PagesInv PROVE PagesNotInflated
    <3>1. pages \in Nat
      BY <2>1 DEF ListInv, TypeOK
    <3>2. Cardinality(Uncounted) \in Nat /\ Cardinality(Taken) \in Nat
      BY <2>1, UncountedFinite, TakenFinite DEF PagesInv
    <3>3. QED
      BY <2>1, <3>1, <3>2 DEF PagesInv, PagesNotInflated
  <2>2. QED
    BY <2>1
<1>4. QED
  BY <1>1, <1>2, <1>3, ListInvariance, PTL DEF Spec
=============================================================================
