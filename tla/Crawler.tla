------------------------------- MODULE Crawler -------------------------------
(***************************************************************************)
(* ./mycrawler (MyCrawler.cpp): the threads that fetch pages and the two   *)
(* lists they share.                                                       *)
(*                                                                         *)
(* UrlBuffer holds the addresses still to be fetched; remove() takes the   *)
(* last one.  UrlVisited holds every address ever placed and is only asked *)
(* whether it holds one, so it is a set here.  Both are protected by mtx.  *)
(* cond_nonempty is signalled once for all the links of a page, after the  *)
(* last of them was placed.  The counter `pages' is not protected.         *)
(*                                                                         *)
(* main places the starting address and then only joins.  A thread's pc    *)
(* names what it does next; "wait" is pthread_cond_wait.  A page is the    *)
(* sequence of the links in it.  A thread reads every response into the    *)
(* same array and may look beyond its end, at what earlier ones left there.*)
(* Not modelled: the files written, the counter `bytes' (as `pages'),      *)
(* STATS (it changes nothing).                                             *)
(***************************************************************************)
EXTENDS Integers, Sequences, FiniteSets

CONSTANTS
  Thread,      \* the crawler threads
  Main,        \* the main thread
  NoOne,       \* not a thread: mtx is free
  Url,         \* addresses
  Start,       \* starting_url
  Links,       \* the links of each page, as in its text
  Missing,     \* addresses the server answers with 403 or 404
  Torn,        \* those that exist only as a link that was cut off
  WholeReads,  \* whether read() always returns a whole response
  MayStop      \* whether the process may exit (SHUTDOWN, or any error)

ASSUME CrawlerAssumption ==
  /\ Thread # {}                           \* or main refuses to start
  /\ IsFiniteSet(Thread)
  /\ Main \notin Thread
  /\ NoOne \notin Thread \cup {Main}
  /\ Start \in Url
  /\ Links \in [Url -> Seq(Url)]
  /\ Torn \subseteq Missing /\ Missing \subseteq Url
  /\ \A u \in Missing : Links[u] = <<>>
  /\ WholeReads \in BOOLEAN
  /\ MayStop \in BOOLEAN

Actor == Thread \cup {Main}

VARIABLES
  mtx,         \* the holder of mtx, or NoOne
  UrlBuffer,
  UrlVisited,
  pc,
  todo,        \* per actor, the addresses it is about to place, in order
  url,         \* per thread, the page it took last
  before,      \* per thread, the pages whose text its array has held
  pages,
  loaded,      \* per thread, the value of pages it is incrementing
  up           \* FALSE once exit() was called

shared == <<mtx, UrlBuffer, UrlVisited>>
vars == <<shared, pc, todo, url, before, pages, loaded, up>>

Elements(s) == {s[i] : i \in 1..Len(s)}

ThreadPc == {"obtain", "check", "wait", "load", "store", "read",
             "place", "exists", "append", "signal", "join"}

TypeOK ==
  /\ mtx \in Actor \cup {NoOne}
  /\ UrlBuffer \in Seq(Url)
  /\ UrlVisited \in SUBSET Url
  /\ pc \in [Actor -> ThreadPc]
  /\ todo \in [Actor -> Seq(Url)]
  /\ url \in [Thread -> Url]
  /\ before \in [Thread -> SUBSET Url]
  /\ pages \in Nat
  /\ loaded \in [Thread -> Nat]
  /\ up \in BOOLEAN

\* The threads have been created, main is about to place starting_url.
Init ==
  /\ mtx = NoOne
  /\ UrlBuffer = <<>>
  /\ UrlVisited = {}
  /\ pc = [a \in Actor |-> IF a = Main THEN "place" ELSE "obtain"]
  /\ todo = [a \in Actor |-> IF a = Main THEN <<Start>> ELSE <<>>]
  /\ url = [t \in Thread |-> Start]
  /\ before = [t \in Thread |-> {}]
  /\ pages = 0
  /\ loaded = [t \in Thread |-> 0]
  /\ up = TRUE

At(a, here, there) == /\ up
                      /\ pc[a] = here
                      /\ pc' = [pc EXCEPT ![a] = there]

-----------------------------------------------------------------------------
(* place(UrlBuffer, data) for each address in todo[a].                      *)

PlaceLock(a) ==
  /\ At(a, "place", "exists")
  /\ mtx = NoOne
  /\ mtx' = a
  /\ UNCHANGED <<UrlBuffer, UrlVisited, todo, url, before, pages, loaded, up>>

\* Mutant: only the first link of a page is placed.
AfterFirstPlace(a) == "signal"

\* What follows the unlock: the next address, or pthread_cond_signal.
AfterPlace(a) == IF Len(todo[a]) = 1 THEN "signal" ELSE "place"

\* UrlVisited->exists(data): the address is freed.
PlaceKnown(a) ==
  /\ At(a, "exists", AfterPlace(a))
  /\ Head(todo[a]) \in UrlVisited
  /\ mtx' = NoOne
  /\ todo' = [todo EXCEPT ![a] = Tail(@)]
  /\ UNCHANGED <<UrlBuffer, UrlVisited, url, before, pages, loaded, up>>

\* Mutant: the address is appended without looking.
PlaceAnyway(a) ==
  /\ At(a, "exists", "append")
  /\ UNCHANGED <<shared, todo, url, before, pages, loaded, up>>

PlaceNew(a) ==
  /\ At(a, "exists", "append")
  /\ Head(todo[a]) \notin UrlVisited
  /\ UNCHANGED <<shared, todo, url, before, pages, loaded, up>>

\* Both appendElement calls, and the unlock.
PlaceAppend(a) ==
  /\ At(a, "append", AfterPlace(a))
  /\ UrlBuffer' = Append(UrlBuffer, Head(todo[a]))
  /\ UrlVisited' = UrlVisited \cup {Head(todo[a])}
  /\ mtx' = NoOne
  /\ todo' = [todo EXCEPT ![a] = Tail(@)]
  /\ UNCHANGED <<url, before, pages, loaded, up>>

\* Mutant: the signal is forgotten.
SignalNobody(a) ==
  /\ At(a, "signal", IF a = Main THEN "join" ELSE "obtain")
  /\ UNCHANGED <<shared, todo, url, before, pages, loaded, up>>

\* pthread_cond_signal wakes one waiting thread if there is one; it leaves the
\* wait in obtain, where it has to get mtx back and looks again.
Signal(a) ==
  /\ up
  /\ pc[a] = "signal"
  /\ LET done == [pc EXCEPT ![a] = IF a = Main THEN "join" ELSE "obtain"]
     IN  IF \E t \in Thread : pc[t] = "wait"
         THEN \E t \in Thread : /\ pc[t] = "wait"
                                /\ pc' = [done EXCEPT ![t] = "obtain"]
         ELSE pc' = done
  /\ UNCHANGED <<shared, todo, url, before, pages, loaded, up>>

-----------------------------------------------------------------------------
(* obtain(UrlBuffer).                                                       *)

ObtainLock(t) ==
  /\ At(t, "obtain", "check")
  /\ mtx = NoOne
  /\ mtx' = t
  /\ UNCHANGED <<UrlBuffer, UrlVisited, todo, url, before, pages, loaded, up>>

ObtainWait(t) ==
  /\ At(t, "check", "wait")
  /\ UrlBuffer = <<>>
  /\ mtx' = NoOne
  /\ UNCHANGED <<UrlBuffer, UrlVisited, todo, url, before, pages, loaded, up>>

\* Mutant: the last element is read, not removed.
ObtainPeek(t) ==
  /\ At(t, "check", "load")
  /\ UrlBuffer # <<>>
  /\ url' = [url EXCEPT ![t] = UrlBuffer[Len(UrlBuffer)]]
  /\ mtx' = NoOne
  /\ UNCHANGED <<UrlBuffer, UrlVisited, todo, before, pages, loaded, up>>

\* buffer->remove() takes the last element.
ObtainTake(t) ==
  /\ At(t, "check", "load")
  /\ UrlBuffer # <<>>
  /\ url' = [url EXCEPT ![t] = UrlBuffer[Len(UrlBuffer)]]
  /\ UrlBuffer' = SubSeq(UrlBuffer, 1, Len(UrlBuffer)-1)
  /\ mtx' = NoOne
  /\ UNCHANGED <<UrlVisited, todo, before, pages, loaded, up>>

\* pthread_cond_wait may return without a signal.
SpuriousWake(t) ==
  /\ At(t, "wait", "obtain")
  /\ UNCHANGED <<shared, todo, url, before, pages, loaded, up>>

-----------------------------------------------------------------------------
(* The rest of crawler_thread's loop.                                       *)

\* pages+=1, a load and a store.
LoadPages(t) ==
  /\ At(t, "load", "store")
  /\ loaded' = [loaded EXCEPT ![t] = pages]
  /\ UNCHANGED <<shared, todo, url, before, pages, up>>

StorePages(t) ==
  /\ At(t, "store", "read")
  /\ pages' = loaded[t] + 1
  /\ UNCHANGED <<shared, todo, url, before, loaded, up>>

\* What a read() that may return only part of the response shows of it: the
\* first links, and perhaps one that is cut off or runs into older text.
Shown(u) == IF WholeReads THEN {Links[u]}
            ELSE {SubSeq(Links[u], 1, n) : n \in 0..Len(Links[u])}
CutOff   == IF WholeReads THEN {<<>>} ELSE {<<>>} \cup {<<v>> : v \in Torn}

\* The last links of an earlier page, found behind the end of the response: it
\* came in part, or it is a 403 or 404, which has fewer lines than the parser
\* steps over before it looks for links.
Leftover(t) ==
  {<<>>} \cup IF WholeReads /\ url[t] \notin Missing THEN {}
              ELSE UNION {{SubSeq(Links[v], n, Len(Links[v])) : n \in 1..Len(Links[v])}
                            : v \in before[t]}

\* Mutants: the terminator is taken for a link; the array was never filled.
ResponseAndEnd(t) == {Append(Links[url[t]], NoOne)}
ResponseUnfilled(t) == {<<v>> : v \in Url}

\* The links that thread t finds in its array.
Response(t) == {first \o cut \o rest : first \in Shown(url[t]), cut \in CutOff,
                                       rest \in Leftover(t)}

ReadResponse(t) ==
  /\ up
  /\ pc[t] = "read"
  /\ todo' \in {[todo EXCEPT ![t] = links] : links \in Response(t)}
  /\ pc' = [pc EXCEPT ![t] = IF todo'[t] = <<>> THEN "signal" ELSE "place"]
  /\ before' = [before EXCEPT ![t] = @ \cup {url[t]}]
  /\ UNCHANGED <<shared, url, pages, loaded, up>>

\* terminate() on SHUTDOWN or SIGINT, and perror_exit of a thread whose
\* connection, read, write or file failed: each ends the process.
Stop ==
  /\ up
  /\ MayStop
  /\ up' = FALSE
  /\ UNCHANGED <<shared, pc, todo, url, before, pages, loaded>>

-----------------------------------------------------------------------------
Place(a) == \/ PlaceLock(a) \/ PlaceKnown(a) \/ PlaceNew(a) \/ PlaceAppend(a)
            \/ Signal(a)

Fetch(t) == \/ ObtainLock(t) \/ ObtainWait(t) \/ ObtainTake(t)
            \/ LoadPages(t) \/ StorePages(t) \/ ReadResponse(t)

Next == \/ \E a \in Actor : Place(a)
        \/ \E t \in Thread : Fetch(t) \/ SpuriousWake(t)
        \/ Stop

Spec == Init /\ [][Next]_vars

\* Every thread keeps running, the server a thread asks answers or closes the
\* connection in the end, and a thread does not for ever wake up for nothing,
\* which could keep the others from mtx.
FairSpec == /\ Spec
            /\ \A a \in Actor : WF_vars(Place(a))
            /\ \A t \in Thread : WF_vars(Fetch(t))
            /\ <>[][\A t \in Thread : ~SpuriousWake(t)]_vars

-----------------------------------------------------------------------------
(***************************************************************************)
(* Properties.                                                             *)
(***************************************************************************)

\* Addresses that were placed and have left the buffer.
Taken == UrlVisited \ Elements(UrlBuffer)

\* No address is fetched twice: the buffer never holds one twice, nor one
\* that is not among the visited.  The test and the two insertions of place
\* are three steps of which the threads interleave other calls.
EachUrlOnce ==
  /\ \A i, j \in 1..Len(UrlBuffer) : UrlBuffer[i] = UrlBuffer[j] => i = j
  /\ Elements(UrlBuffer) \subseteq UrlVisited

\* What has been taken is never placed again.
NeverAgain == [][Taken \subseteq Taken']_vars

\* One signal is enough for all the links of a page: no address lies in the
\* buffer while every thread waits and none is about to be woken.
NoLostWakeup ==
  (\A t \in Thread : pc[t] = "wait") /\ UrlBuffer # <<>> => pc[Main] = "signal"

Closed(S) == Start \in S /\ \A u \in S : Elements(Links[u]) \subseteq S

\* The addresses that are in every set closed under links.
Reachable == {u \in Url : \A S \in SUBSET Url : Closed(S) => u \in S}

Quiet == pc[Main] = "join" /\ \A t \in Thread : pc[t] = "wait"

\* When all threads wait for work, the whole site has been crawled, if read()
\* returned whole pages.  (Nothing in the program detects that moment.)
CrawlComplete == Quiet /\ WholeReads => UrlVisited = Reachable

\* Nothing is visited but what links lead to, or what a cut-off read makes of
\* them, although threads also follow links that earlier pages left behind.
OnlyReachable == UrlVisited \subseteq Reachable \cup Torn

\* The links a page at u may be seen to have.
MayShow == {e \in Url \X Url : \/ e[2] \in Elements(Links[e[1]])
                               \/ ~WholeReads /\ e[2] \in Torn}

Pages == INSTANCE Frontier WITH
           found <- UrlVisited, taken <- Taken, LinksTo <- MayShow

\* The crawl is the work-list algorithm: an address is only placed when a page
\* that has been taken shows it, and every address placed is some day taken.
CrawlsFrontier == Pages!Spec

\* "downloaded %lu pages" may be too few, as threads that increment the counter
\* at the same time count once, but a stale store never makes it too many.
PagesNotInflated == pages <= Cardinality(Taken)
=============================================================================
