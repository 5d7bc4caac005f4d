------------------------------ MODULE Frontier ------------------------------
(***************************************************************************)
(* What a crawl is, without threads, locks or a buffer: pages are found,   *)
(* the first because it was given and the others because a fetched page    *)
(* links to them, and each page that was found is fetched once.            *)
(***************************************************************************)
CONSTANTS
  Url,        \* addresses
  Start,      \* the one given on the command line
  LinksTo     \* set of pairs <<u, v>>: the page at u may show a link to v

VARIABLES
  found,
  taken

vars == <<found, taken>>

Init == found = {} /\ taken = {}

Find(u) == /\ u \notin found
           /\ u = Start \/ \E v \in taken : <<v, u>> \in LinksTo
           /\ found' = found \cup {u}
           /\ UNCHANGED taken

Take(u) == /\ u \in found \ taken
           /\ taken' = taken \cup {u}
           /\ UNCHANGED found

Next == \E u \in Url : Find(u) \/ Take(u)

SafeSpec == Init /\ [][Next]_vars

\* Start is found, and what is found is fetched.
Spec == SafeSpec /\ WF_vars(Find(Start)) /\ \A u \in Url : WF_vars(Take(u))
=============================================================================
