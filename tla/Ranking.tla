------------------------------- MODULE Ranking -------------------------------
(***************************************************************************)
(* quickSort and partition of the search engine (util.cpp), step by step:  *)
(* the best score first.  A result is a document and its score; the score  *)
(* is a number (a double in the code; only the order of scores matters     *)
(* here).  The recursion is a stack of calls still to be made: quickSort   *)
(* calls itself for the part before the pivot first.                       *)
(***************************************************************************)
EXTENDS Integers, Sequences, FiniteSets

CONSTANTS
  Result,      \* records with a field score
  MaxResults   \* bound on the length of a list

ASSUME RankingAssumption ==
  /\ \A r \in Result : r.score \in Int
  /\ MaxResults \in Nat

VARIABLES
  list,   \* the results, numbered from 0
  input,  \* history: the list as it was given to quickSort
  calls,  \* the calls of quickSort to be made, each a record [low, high]
  frame   \* the loop of partition: [low, high, i, j, pivot], or Idle

sorting == <<list, input, calls, frame>>

Idle == [low |-> 0, high |-> -1, i |-> -1, j |-> 0, pivot |-> 0]

\* quickSort(results, 0, results->getLen()-1)
Init == \E n \in 0 .. MaxResults : \E results \in [0 .. n-1 -> Result] :
  /\ list = results /\ input = results
  /\ calls = <<[low |-> 0, high |-> n-1]>>
  /\ frame = Idle

-----------------------------------------------------------------------------
Swap(f, a, b) == [f EXCEPT ![a] = f[b], ![b] = f[a]]

\* A list of one element or none is sorted.
Return ==
  /\ frame = Idle /\ calls # <<>>
  /\ Head(calls).low >= Head(calls).high
  /\ calls' = Tail(calls)
  /\ UNCHANGED <<list, input, frame>>

\* partition: the last element is the pivot, i is the last place before which
\* everything is greater.
CallPartition ==
  /\ frame = Idle /\ calls # <<>>
  /\ LET c == Head(calls)
     IN /\ c.low < c.high
        /\ frame' = [low |-> c.low, high |-> c.high, i |-> c.low - 1, j |-> c.low,
                     pivot |-> list[c.high].score]
  /\ calls' = Tail(calls)
  /\ UNCHANGED <<list, input>>

\* One round of the loop of partition.
Compare ==
  /\ frame # Idle /\ frame.j <= frame.high - 1
  /\ IF list[frame.j].score > frame.pivot
     THEN /\ list' = Swap(list, frame.i + 1, frame.j)
          /\ frame' = [frame EXCEPT !.i = @ + 1, !.j = @ + 1]
     ELSE /\ frame' = [frame EXCEPT !.j = @ + 1]
          /\ UNCHANGED list
  /\ UNCHANGED <<input, calls>>

\* Mutant: the part behind the pivot starts one too late.
PlacePivotSkip ==
  /\ frame # Idle /\ frame.j > frame.high - 1
  /\ list' = Swap(list, frame.i + 1, frame.high)
  /\ calls' = <<[low |-> frame.low, high |-> frame.i],
                [low |-> frame.i + 3, high |-> frame.high]>> \o calls
  /\ frame' = Idle
  /\ UNCHANGED input

\* The pivot goes behind the greater ones, and both sides are still to be
\* sorted.
PlacePivot ==
  /\ frame # Idle /\ frame.j > frame.high - 1
  /\ list' = Swap(list, frame.i + 1, frame.high)
  /\ calls' = <<[low |-> frame.low, high |-> frame.i],
                [low |-> frame.i + 2, high |-> frame.high]>> \o calls
  /\ frame' = Idle
  /\ UNCHANGED input

SortStep == Return \/ CallPartition \/ Compare \/ PlacePivot

Sorted == calls = <<>> /\ frame = Idle

Spec == Init /\ [][SortStep]_sorting /\ WF_sorting(SortStep)

-----------------------------------------------------------------------------
\* The best first.
Descending(f) == \A a, b \in DOMAIN f : a <= b => f[a].score >= f[b].score

\* Nothing is lost and nothing doubled.
SameResults(f, g) ==
  /\ DOMAIN f = DOMAIN g
  /\ \A r \in Result : Cardinality({k \in DOMAIN f : f[k] = r})
                         = Cardinality({k \in DOMAIN g : g[k] = r})
=============================================================================
