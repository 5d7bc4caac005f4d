---------------------------- MODULE SearchEngine ----------------------------
(***************************************************************************)
(* ./search (search engine/main.cpp, Trie.cpp): a sequential program that  *)
(* reads a file of numbered documents into an inverted index and then      *)
(* answers /df, /tf and /search.  /search ranks the documents that have    *)
(* one of the words with quickSort (module Ranking) and prints the best    *)
(* k, with a second line under each line of text that marks the words of   *)
(* the query, wrapped at the width of the console.                         *)
(*                                                                         *)
(* docScore is floating-point arithmetic: here a search gives each         *)
(* document any score, a number of which only the order, the sign and the  *)
(* digits before the point matter.  Words are strings with a length; a     *)
(* line of the file is a number and the words behind it.  A column is      *)
(* counted from the start of the output line: a console that is narrower   *)
(* wraps it, which is left out.                                            *)
(***************************************************************************)
EXTENDS Index, Ranking, TLC

CONSTANTS
  Files,       \* the files the program may be given
  Queries,     \* what may be typed behind /search
  Score,       \* the scores docScore may compute
  K,           \* max_num_of_results
  MaxWords,    \* words of a query that are looked up (10 in the code)
  Width,       \* console_width
  Length       \* the number of letters of a word

\* A number and the words behind it; the number may come to be a word.
Line == [id : {n \in Int : ToString(n) \in Word}, text : Seq(Word)]

ASSUME SearchEngineAssumption ==
  /\ Files \subseteq Seq(Line) /\ \A f \in Files : Len(f) <= MaxResults
  /\ Queries \subseteq Seq(Word)
  /\ K \in Nat \ {0} /\ MaxWords \in Nat
  /\ Width \in Nat /\ Score \subseteq Int
  /\ Length \in [Word -> Nat \ {0}]

VARIABLES
  pc,          \* read, ready, sort, print, row; exit, assert, crash at the end
  file,        \* the lines still to be read
  cur_id, texts, words, trie,   \* the index (words: stringsWordsCounter)
  query,       \* the words of the query
  shown,       \* the number of results printed, i of the loop
  rest,        \* the words of the document still to be printed
  cur_width, pos, \* cur_width and pointer_line_pos
  marks,       \* where pointer_line has a ^
  column, under, \* history: where the next word is printed, and the
                 \* columns of the words of the query on this line
  first,       \* history: this is the first line of the result
  far          \* history: the last place written of pointer_line

reader  == <<file, cur_id, texts, words, trie>>
printer == <<query, shown, rest, cur_width, pos, marks, column, under, first, far>>
vars    == <<pc, reader, sorting, printer>>

NoPrinter ==
  /\ query' = <<>> /\ shown' = 0 /\ rest' = <<>>
  /\ cur_width' = 0 /\ pos' = 0 /\ marks' = {} /\ column' = 0 /\ under' = {}
  /\ first' = FALSE /\ far' = 0

NoSorting == list' = <<>> /\ input' = <<>> /\ calls' = <<>> /\ frame' = Idle

EngineInit ==
  /\ pc = "read"
  /\ file \in Files
  /\ cur_id = 0 /\ texts = NewList(ResultList) /\ words = NewList(ResultList)
  /\ trie = NewTrie
  /\ list = <<>> /\ input = <<>> /\ calls = <<>> /\ frame = Idle
  /\ query = <<>> /\ shown = 0 /\ rest = <<>>
  /\ cur_width = 0 /\ pos = 0 /\ marks = {} /\ column = 0 /\ under = {}
  /\ first = FALSE /\ far = 0

-----------------------------------------------------------------------------
(* Reading.                                                                 *)

\* Mutant: the first document is counted from 0.
StartFromZero(l, inputId) == l

\* stringMap and stringsWordsCounter are numbered from the first identifier.
StartFrom(l, inputId) == IF l.items = <<>> THEN [l EXCEPT !.start_from = inputId] ELSE l

\* One round of the loop: exit(1) if the identifier is not the next one (0
\* stands for "none yet").
AddDocument(inputId, text) ==
  IF cur_id # 0 /\ cur_id # inputId
  THEN /\ pc' = "exit"
       /\ UNCHANGED <<cur_id, texts, words, trie>>
  ELSE /\ cur_id' = inputId + 1
       /\ texts' = AppendElement(StartFrom(texts, inputId), text)
       /\ words' = AppendElement(StartFrom(words, inputId), Len(text))
       /\ trie' = AddWords(trie, text, inputId)
       /\ pc' = pc

\* "%d %m[^\n]": the blank also skips the end of a line, so that the text of a
\* number without one is all of the next line, or missing at the end of file.
ReadDocument ==
  /\ pc = "read" /\ file # <<>>
  /\ LET line == Head(file)
         following == Tail(file)
     IN IF line.text # <<>>
        THEN /\ AddDocument(line.id, line.text)
             /\ file' = following
        ELSE IF following # <<>>
        THEN /\ AddDocument(line.id, <<ToString(following[1].id)>> \o following[1].text)
             /\ file' = Tail(following)
        ELSE /\ pc' = "exit"
             /\ UNCHANGED reader
  /\ UNCHANGED <<sorting, printer>>

EndOfFile ==
  /\ pc = "read" /\ file = <<>>
  /\ pc' = "ready"
  /\ UNCHANGED <<reader, sorting, printer>>

-----------------------------------------------------------------------------
(* Commands.                                                                *)

\* appearance_times, for /tf; for /df the identifier is -1, which means all.
AppearanceTimes(word, id) ==
  FoldLeft(LAMBDA count, p : IF id < 0 \/ p.place = id THEN count + p.times ELSE count,
           0, trie[word].items)

\* all_words_appearances: the words that /df without a word prints, each with
\* the same sum over its whole list.
AllWords == {w \in Word : trie[w].items # <<>>}

\* /tf frees the word it has not read if its first argument is no number: what
\* was on the stack, which may be anything.
TfWithoutNumber ==
  /\ pc = "ready"
  /\ pc' = "crash"
  /\ UNCHANGED <<reader, sorting, printer>>

\* The documents with one of the first MaxWords words, each once.
DocsToSearch(q) ==
  FoldLeft(LAMBDA docs, p : IF Exists(docs, p.place) THEN docs ELSE AppendElement(docs, p.place),
           NewList(ResultList), Appearances(trie, SubSeq(q, 1, Min({Len(q), MaxWords})))).items

\* A document that is not in stringMap fails the assertion of value.
SearchFor(q) ==
  /\ pc = "ready"
  /\ LET docs == DocsToSearch(q)
         n == Len(docs)
     IN IF \E k \in 1..n : ~InRange(texts, docs[k])
        THEN /\ pc' = "assert"
             /\ UNCHANGED <<sorting, query>>
        ELSE /\ \E score \in [0 .. n-1 -> Score] :
                  /\ list' = [k \in 0 .. n-1 |-> [doc |-> docs[k+1], score |-> score[k]]]
                  /\ input' = list'
             /\ calls' = <<[low |-> 0, high |-> n-1]>>
             /\ frame' = Idle
             /\ query' = q
             /\ pc' = "sort"
  /\ UNCHANGED <<reader, shown, rest, cur_width, pos, marks, column, under, first, far>>

QuickSort ==
  /\ pc = "sort"
  /\ SortStep
  /\ UNCHANGED <<pc, reader, printer>>

QuickSortReturns ==
  /\ pc = "sort" /\ Sorted
  /\ pc' = "print"
  /\ UNCHANGED <<reader, sorting, printer>>

-----------------------------------------------------------------------------
(* Printing the results.                                                    *)

Results == Cardinality(DOMAIN list)

\* The columns of an int, and those before the point of a score.
Printed(n) == LET abs == IF n < 0 THEN -n ELSE n
              IN Max({1, Cardinality({e \in 0..9 : abs >= 10^e})}) + (IF n < 0 THEN 1 ELSE 0)

\* "%5d. (%5d) [%5f] ": 26 columns, and more for a number of the result or of
\* the document of six digits, or for a score below 0 or from 10.
HeadingWidth(i, r) == Max({5, Printed(i)}) + Max({5, Printed(r.doc)}) + Printed(r.score) + 15

\* The code reckons with 28 columns for the text and 26 for pointer_line, which
\* is blank.
StartResult ==
  /\ pc = "print" /\ shown < Min({Results, K})
  /\ LET r == list[shown]
     IN /\ rest' = Value(texts, r.doc)
        /\ column' = HeadingWidth(shown, r)
  /\ cur_width' = 28 /\ pos' = 26 /\ marks' = {} /\ under' = {}
  /\ first' = TRUE
  /\ far' = Width - 1
  /\ pc' = "row"
  /\ UNCHANGED <<reader, sorting, query, shown>>

Columns(from, word) == from .. from + Length[word] - 1

\* Mutant: the blank behind a word does not count.
FitsWithoutBlank(word) == cur_width + Length[word] <= Width

FitsRow(word) == cur_width + Length[word] + 1 <= Width

\* The word and a blank, ^ or blanks under it, and a blank one place further.
PrintWord ==
  /\ pc = "row" /\ rest # <<>> /\ FitsRow(Head(rest))
  /\ LET word  == Head(rest)
         asked == \E k \in DOMAIN query : query[k] = word
         next  == pos + Length[word] + 1
     IN /\ cur_width' = cur_width + Length[word] + 1
        /\ marks' = (IF asked THEN marks \cup Columns(pos, word)
                              ELSE marks \ Columns(pos, word)) \ {next + 1}
        /\ pos' = next
        /\ under' = IF asked THEN under \cup Columns(column, word) ELSE under
        /\ column' = column + Length[word] + 1
        /\ far' = Max({far, next + 1})
        /\ rest' = Tail(rest)
  /\ UNCHANGED <<pc, reader, sorting, query, shown, first>>

\* Mutant: the width is not reset.
BreakLineOnly ==
  /\ pc = "row" /\ rest # <<>> /\ ~FitsRow(Head(rest))
  /\ far' = Max({far, pos + 1})
  /\ pos' = 0 /\ marks' = {} /\ column' = 0 /\ under' = {} /\ first' = FALSE
  /\ UNCHANGED <<pc, reader, sorting, query, shown, rest, cur_width>>

\* Mutant: the marks go on where they were.
BreakLineHere ==
  /\ pc = "row" /\ rest # <<>> /\ ~FitsRow(Head(rest))
  /\ far' = Max({far, pos + 1})
  /\ cur_width' = 0 /\ marks' = {} /\ column' = 0 /\ under' = {} /\ first' = FALSE
  /\ UNCHANGED <<pc, reader, sorting, query, shown, rest, pos>>

\* The end of pointer_line is marked, both lines are ended, and the same word
\* is tried again on the next line, which starts blank.
BreakLine ==
  /\ pc = "row" /\ rest # <<>> /\ ~FitsRow(Head(rest))
  /\ far' = Max({far, pos + 1})
  /\ cur_width' = 0 /\ pos' = 0 /\ marks' = {} /\ column' = 0 /\ under' = {} /\ first' = FALSE
  /\ UNCHANGED <<pc, reader, sorting, query, shown, rest>>

EndResult ==
  /\ pc = "row" /\ rest = <<>>
  /\ far' = Max({far, Width})
  /\ shown' = shown + 1
  /\ pc' = "print"
  /\ UNCHANGED <<reader, sorting, query, rest, cur_width, pos, marks, column, under, first>>

\* The lists of this search are deleted.
EndSearch ==
  /\ pc = "print" /\ shown = Min({Results, K})
  /\ pc' = "ready"
  /\ NoSorting /\ NoPrinter
  /\ UNCHANGED reader

Exit ==
  /\ pc = "ready"
  /\ pc' = "exit"
  /\ UNCHANGED <<reader, sorting, printer>>

-----------------------------------------------------------------------------
Step == \/ ReadDocument \/ EndOfFile
        \/ QuickSort \/ QuickSortReturns
        \/ StartResult \/ PrintWord \/ BreakLine \/ EndResult \/ EndSearch

EngineNext == Step \/ Exit \/ TfWithoutNumber \/ \E q \in Queries : SearchFor(q)

\* The program runs on; nobody has to type.
EngineSpec == EngineInit /\ [][EngineNext]_vars /\ WF_vars(Step)

-----------------------------------------------------------------------------
(***************************************************************************)
(* Properties.                                                             *)
(***************************************************************************)

\* Types, and that no list of the index or of texts outgrows its array.
TypeOK ==
  /\ pc \in {"read", "ready", "sort", "print", "row", "exit", "assert", "crash"}
  /\ cur_id \in Int
  /\ Len(texts.items) = Len(words.items) /\ texts.start_from = words.start_from
  /\ Fits(texts) /\ Fits(words) /\ \A word \in Word : Fits(trie[word])
  /\ DOMAIN list = DOMAIN input /\ Results <= MaxResults
  /\ shown \in 0 .. Min({Results, K})
  /\ cur_width \in 0 .. Max({28, Width}) /\ pos \in Nat /\ column \in Nat
  /\ marks \subseteq Nat /\ under \subseteq Nat /\ first \in BOOLEAN /\ far \in Int

\* The identifiers of the documents read so far have come to -1, after which
\* the next is expected to be 0, which stands for "none yet".
PastMinusOne == /\ texts.items # <<>>
                /\ texts.start_from <= -1
                /\ texts.start_from + Len(texts.items) > -1

Document == texts.start_from .. texts.start_from + Len(texts.items) - 1

Positions(d, word) == {k \in DOMAIN Value(texts, d) : Value(texts, d)[k] = word}

OccurrencesIn(d, word) == Cardinality(Positions(d, word))

\* Every place of every document where the word stands.
Occurrences(word) == UNION {{d} \X Positions(d, word) : d \in Document}

\* The index says of each word in which documents it is and how often, whatever
\* the first identifier, and although the text of one document may have become
\* part of another.  /tf prints how often the word is in the document.  /df
\* prints how often it is in all documents together, also those with an
\* identifier below 0, and not in how many, as README.md:4 has it.
IndexIsExact ==
  ~PastMinusOne =>
    \A word \in Word :
      /\ \A p \in Range(trie[word].items) : p.place \in Document
      /\ \A d \in Document : d >= 0 =>
           AppearanceTimes(word, d) = OccurrencesIn(d, word)
      /\ AppearanceTimes(word, -1) = Cardinality(Occurrences(word))
      /\ (\A d \in Document : OccurrencesIn(d, word) = 0) <=> word \notin AllWords

\* The assertion of value never fails on a document that search has found, but
\* for the file in which -1 was an identifier, and any may have followed.
LookupsSucceed == pc = "assert" => PastMinusOne

\* What /search prints are the best k of the documents that have one of the
\* first MaxWords words of the query, each of them once and the best first.
ShownAreBest ==
  pc \in {"print", "row"} /\ ~PastMinusOne =>
    LET asked == Range(SubSeq(query, 1, Min({Len(query), MaxWords})))
        found == {d \in Document : Range(Value(texts, d)) \cap asked # {}}
    IN /\ {list[k].doc : k \in DOMAIN list} = found
       /\ Results = Cardinality(found)
       /\ SameResults(list, input)
       /\ Descending(list)

\* The search comes to its end and the prompt returns, if the line is wide
\* enough for each word of the texts; otherwise a word that is too long for a
\* line is tried on one line after the other without end.
WordsFit == \A k \in DOMAIN texts.items : \A word \in Range(texts.items[k]) :
              Length[word] + 1 <= Width

SearchEnds == pc = "sort" /\ WordsFit ~> pc = "ready"

\* On the first line of a result, as many columns as its heading is wider than
\* the 26 that pointer_line_pos starts from.
Off == IF first THEN HeadingWidth(shown, list[shown]) - 26 ELSE 0

\* The marks are under the words of the query, on every line of a result, but
\* to the left of them by what is Off.
MarksUnderWords == pc = "row" => marks = {c - Off : c \in under}

\* pointer_line has places for 0 to Width.  A line of text that is exactly full
\* writes one more, and nothing writes further, on a console on which the
\* heading leaves room for two characters.
OverrunByOne == Width >= 28 => far <= Width + 1
=============================================================================
