--------------------------- MODULE MCSearchEngine ---------------------------
(***************************************************************************)
(* Instances of SearchEngine for TLC: all files of up to three lines whose *)
(* numbers are -1 to 2 and whose texts are a few, also none, and files of  *)
(* two lines from -3 and from 99999, the last number of five digits.  "b"  *)
(* fills a line of the console exactly, and "d" is longer than one.        *)
(***************************************************************************)
EXTENDS SearchEngine

MCScore == {-10, 0, 9}

MCId == -1 .. 2

MCFar == {-3, 99999}

MCWord == {"a", "b", "c", "d"} \cup {ToString(n) : n \in MCId \cup UNION {{n, n+1} : n \in MCFar}}

MCLength == [w \in MCWord |-> CASE w = "a" -> 2
                                [] w = "b" -> Width - 1
                                [] w = "d" -> Width
                                [] OTHER -> 1]

MCText == {<<>>, <<"a">>, <<"a", "b", "a">>, <<"c", "d">>}

MCLine == [id : MCId, text : MCText]

MCFiles == UNION {[1..n -> MCLine] : n \in 0..3}
  \cup {<<[id |-> n, text |-> s], [id |-> n+1, text |-> t]>> : n \in MCFar, s, t \in MCText}

MCQueries == {<<"a">>, <<"b", "c", "a">>, <<"c", "1">>}

MCResult == [doc : MCId \cup {3} \cup UNION {{n, n+1} : n \in MCFar}, score : Score]
=============================================================================
