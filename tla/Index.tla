-------------------------------- MODULE Index --------------------------------
(***************************************************************************)
(* The inverted index of the workers and of the search engine (Trie.cpp).  *)
(* A trie is a function from words to the list of their postings: the      *)
(* nodes between the root and the end of a word, and the letters on them,  *)
(* are left out; a word that was never added has no posting.  A posting    *)
(* names a place, which is a line of a file, <<file_id, line_id>>, in the  *)
(* workers and a document in the search engine, and how many times the     *)
(* word occurs there.                                                      *)
(***************************************************************************)
EXTENDS Lists, SequencesExt

CONSTANTS
  Word,        \* the words of texts and queries
  NodeList,    \* places of a new posting list (10 in the code)
  ResultList,  \* places of a new list of results (20 in the code)
  IntMax       \* the largest int

ASSUME IndexAssumption ==
  /\ NodeList \in Nat /\ NodeList > 1
  /\ ResultList \in Nat /\ ResultList > 1
  /\ IntMax \in Nat \ {0}

NewTrie == [w \in Word |-> NewList(NodeList)]

\* Mutant: a word counts once per place.
AddWordOnce(trie, word, place) ==
  IF \E j \in DOMAIN trie[word].items : trie[word].items[j].place = place
  THEN trie
  ELSE [trie EXCEPT ![word] = AppendElement(@, [place |-> place, times |-> 1])]

\* The posting of this place gets one more time, or a posting is appended.
AddWord(trie, word, place) ==
  LET nodes == trie[word].items
      at    == {j \in DOMAIN nodes : nodes[j].place = place}
  IN IF at = {}
     THEN [trie EXCEPT ![word] = AppendElement(@, [place |-> place, times |-> 1])]
     ELSE [trie EXCEPT ![word].items[Min(at)].times = @ + 1]

AddWords(trie, text, place) ==
  FoldLeft(LAMBDA t, word : AddWord(t, word, place), trie, text)

\* The postings of the words of a query, in the order in which search meets
\* them.
Appearances(trie, query) ==
  FlattenSeq([k \in DOMAIN query |-> trie[query[k]].items])

-----------------------------------------------------------------------------
(* search of the workers.                                                   *)

\* 0.5*(file+line)*(file+line+1) + line, which double computes exactly for
\* every line that fits into memory.
Cantor(file_id, line_id) ==
  ((file_id + line_id) * (file_id + line_id + 1)) \div 2 + line_id

\* Conversion of a double to int: outside of the range of int the standard
\* leaves it undefined, and the x86 instruction gives the smallest int.
ToInt(x) == IF x <= IntMax THEN x ELSE - IntMax - 1

\* Mutant: the sum alone, without the line.
SumOnly(file_id, line_id) == ToInt(file_id + line_id)

UniqueCantorPair(file_id, line_id) == ToInt(Cantor(file_id, line_id))

\* One result per number that stands for a (file, line) in pairsInResult.
Visit(found, posting) ==
  LET pair == UniqueCantorPair(posting.place[1], posting.place[2])
  IN IF Exists(found.pairs, pair)
     THEN found
     ELSE [pairs   |-> AppendElement(found.pairs, pair),
           results |-> AppendElement(found.results, posting)]

Search(trie, query) ==
  FoldLeft(Visit, [pairs |-> NewList(ResultList), results |-> NewList(ResultList)],
           Appearances(trie, query)).results
=============================================================================
