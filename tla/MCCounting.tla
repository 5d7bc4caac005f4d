----------------------------- MODULE MCCounting -----------------------------
(***************************************************************************)
(* Instances of Counting for TLC: the first worker has up to two files of  *)
(* up to two lines, the second one of a few.                               *)
(***************************************************************************)
EXTENDS Counting

MCLine == {<<>>, <<"a">>, <<"b", "a", "a">>}

MCFile == {<<>>} \cup {<<l>> : l \in MCLine} \cup {<<l, m>> : l, m \in MCLine}

MCFiles == {<<>>} \cup {<<f>> : f \in MCFile} \cup {<<f, g>> : f, g \in MCFile}

OtherFiles == {<<>>, << <<>> >>, << << <<"a", "c">> >>, << <<"b">>, <<"a-c">> >> >>}

MCCorpora == {<<first, second>> : first \in MCFiles, second \in OtherFiles}

MCArguments == {<<"a">>, <<"b", "a">>, <<"c", "c", "d">>,
                <<"c", "a-c", "b">>, <<"-d", "a">>}

MCFront == [h \in Hyphenated |-> IF h = "a-c" THEN <<"a">> ELSE <<>>]
=============================================================================
