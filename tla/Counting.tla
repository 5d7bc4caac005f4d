------------------------------ MODULE Counting ------------------------------
(***************************************************************************)
(* What the commands of ./jobExecutor compute: the workers index the files *)
(* of their directories (worker_main.cpp: main) and answer /search,        *)
(* /maxcount, /mincount and /wc from the index and their totals, and the   *)
(* master combines their answers (jobExecutor_main.cpp: wc, minCount,      *)
(* maxCount and the end of read_queries).                                  *)
(*                                                                         *)
(* The exchange itself is that of QueryService: each worker gives one      *)
(* answer per command and the master has them all, in the order of the     *)
(* workers; how it can fail is the subject of QueryExchange.  A file is a  *)
(* sequence of lines, a line one of words.  Of the spelling of a word only *)
(* this is kept: that it has one letter, for the characters which wc adds  *)
(* up, and whether it has a hyphen, at which the master cuts a /search.    *)
(***************************************************************************)
EXTENDS Index

CONSTANTS
  N,         \* no_of_workers
  Corpora,   \* the documents: per worker the sequence of its files
  Arguments, \* what the user may type behind a command
  Hyphenated, \* the words with a hyphen in them
  InFront     \* what is in front of the first hyphen of each: a word or nothing

Worker == 1 .. N

ASSUME CountingAssumption ==
  /\ N \in Nat \ {0}
  /\ Corpora \subseteq [Worker -> Seq(Seq(Seq(Word)))]
  /\ Arguments \subseteq Seq(Word) \ {<<>>}
  /\ Hyphenated \subseteq Word
  /\ InFront \in [Hyphenated -> {<<>>} \cup {<<w>> : w \in Word \ Hyphenated}]

VARIABLES
  corpus,
  trie,      \* per worker: files_trie,
  lines,     \* the lines it has read, each with its file
  totals,    \* total_chars, total_words, total_lines
  up,        \* whether it is still there
  command, buffer,  \* the master's, read from the user,
  query,     \* and what it sends to all workers behind the command
  answers,   \* per worker, its answer, or <<>> before it is given
  shown      \* what the master printed last

worker == <<trie, lines, totals, up>>
master == <<command, buffer, query, shown>>
vars   == <<corpus, worker, master, answers>>

\* All lines of a worker, with the number of the file each is in.
Lines(i) ==
  FlattenSeq([f \in DOMAIN corpus[i] |->
                [n \in DOMAIN corpus[i][f] |-> [file |-> f-1, words |-> corpus[i][f][n]]]])

Loaded(i) == Len(lines[i]) = Len(Lines(i))

None == "none"

\* What a worker writes as "empty".
Empty == <<>>

Init ==
  /\ corpus \in Corpora
  /\ trie = [i \in Worker |-> NewTrie]
  /\ lines = [i \in Worker |-> <<>>]
  /\ totals = [i \in Worker |-> [chars |-> 0, words |-> 0, lines |-> 0]]
  /\ up = [i \in Worker |-> TRUE]
  /\ command = None
  /\ buffer \in Arguments
  /\ query = <<>>
  /\ answers = [i \in Worker |-> <<>>]
  /\ shown = [command |-> None]

-----------------------------------------------------------------------------
(* A worker.                                                                *)

Chars(words) == IF words = <<>> THEN 1 ELSE 2 * Len(words)

\* getline, and all words of the line into the trie under the number of the
\* file and that of the line, which runs on over the files.
ReadLine(i) ==
  /\ up[i] /\ ~Loaded(i)
  /\ LET line == Lines(i)[Len(lines[i]) + 1]
     IN /\ trie' = [trie EXCEPT ![i] = AddWords(@, line.words, <<line.file, totals[i].lines>>)]
        /\ lines' = [lines EXCEPT ![i] = Append(@, line)]
        /\ totals' = [totals EXCEPT ![i] =
             [chars |-> @.chars + Chars(line.words),
              words |-> @.words + Len(line.words),
              lines |-> @.lines + 1]]
  /\ UNCHANGED <<corpus, up, master, answers>>

Results(i, keywords) == Search(trie[i], keywords).items

\* fileCounter: a place per file, filled from the results.
FileCounter(i, keyword) ==
  LET files == Len(corpus[i])
      empty == FoldLeft(LAMBDA l, k : AppendElement(l, 0), NewList(files), corpus[i])
  IN FoldLeft(LAMBDA l, r : Update(l, r.place[1], Value(l, r.place[1]) + r.times),
              empty, Results(i, <<keyword>>))

FirstGreatest(counts) ==
  FoldLeft(LAMBDA best, k : IF counts[k] > best.count
                            THEN [count |-> counts[k], file |-> k-1] ELSE best,
           [count |-> 0, file |-> 0], [k \in DOMAIN counts |-> k])

\* What mincount starts from: more than it expects in any file.
WorkerMin == 999999

FirstLeast(counts) ==
  FoldLeft(LAMBDA best, k : IF counts[k] < best.count
                            THEN [count |-> counts[k], file |-> k-1] ELSE best,
           [count |-> WorkerMin, file |-> 0], [k \in DOMAIN counts |-> k])

\* "empty 0" if there is no result.
Count(i, keyword, best) ==
  IF Results(i, <<keyword>>) = <<>>
  THEN [path |-> Empty, count |-> 0]
  ELSE [path |-> <<i, best.file>>, count |-> best.count]

MaxCount(i, keyword) == Count(i, keyword, FirstGreatest(FileCounter(i, keyword).items))
MinCount(i, keyword) == Count(i, keyword, FirstLeast(FileCounter(i, keyword).items))

\* One line of text per result, or "empty".
SearchLines(i, keywords) ==
  LET results == Results(i, keywords)
  IN IF results = <<>> THEN <<Empty>>
     ELSE [k \in DOMAIN results |-> <<i, results[k].place[1], results[k].place[2]>>]

\* signal_handler.  maxcount and mincount take the first word of the arguments,
\* and create a list with a place per file, which asserts if there is none.
Handle(i) ==
  /\ up[i] /\ command # None /\ answers[i] = <<>>
  /\ IF command \in {"maxcount", "mincount"} /\ ~CanCreate(Len(corpus[i]))
     THEN up' = [up EXCEPT ![i] = FALSE] /\ UNCHANGED answers
     ELSE /\ answers' = [answers EXCEPT ![i] =
               CASE command = "search"   -> SearchLines(i, query)
                 [] command = "maxcount" -> <<MaxCount(i, Head(query))>>
                 [] command = "mincount" -> <<MinCount(i, Head(query))>>
                 [] command = "wc"       -> <<totals[i]>>]
          /\ UNCHANGED up
  /\ UNCHANGED <<corpus, trie, lines, totals, master>>

-----------------------------------------------------------------------------
(* The master.                                                              *)

\* Of a /search what is in front of the first hyphen: behind it the option -d is
\* expected, wherever the hyphen is.
UpToHyphen(typed) ==
  LET cuts == {k \in DOMAIN typed : typed[k] \in Hyphenated}
  IN IF cuts = {} THEN typed
     ELSE SubSeq(typed, 1, Min(cuts)-1) \o InFront[typed[Min(cuts)]]

Sent(com, typed) == IF com = "search" THEN UpToHyphen(typed) ELSE typed

\* A command, once all workers have opened their FIFOs.  What is typed behind
\* it goes into buffer; if nothing is, buffer keeps what the last command left
\* there, or at first whatever was on the stack.
Send ==
  /\ command = None
  /\ \A i \in Worker : up[i] /\ Loaded(i)
  /\ command' \in {"search", "maxcount", "mincount", "wc"}
  /\ buffer' \in Arguments
  /\ query' = Sent(command', buffer')
  /\ UNCHANGED <<corpus, worker, answers, shown>>

\* What minCount starts from.
MasterMin == 99999

\* Mutant: the empty answers are not skipped.
LeastOfAll(results) ==
  results[FoldLeft(LAMBDA best, k : IF results[k].count < best.count
                                    THEN [count |-> results[k].count, index |-> k] ELSE best,
                   [count |-> MasterMin, index |-> 1], [k \in DOMAIN results |-> k]).index]

\* minCount: the first of the least answers that are not "empty", or else the
\* first answer.
Least(results) ==
  results[FoldLeft(LAMBDA best, k : IF /\ results[k].path # Empty
                                       /\ results[k].count < best.count
                                    THEN [count |-> results[k].count, index |-> k] ELSE best,
                   [count |-> MasterMin, index |-> 1], [k \in DOMAIN results |-> k]).index]

\* maxCount: the first of the greatest answers, or else the first answer.
Greatest(results) ==
  results[FoldLeft(LAMBDA best, k : IF results[k].count > best.count
                                    THEN [count |-> results[k].count, index |-> k] ELSE best,
                   [count |-> 0, index |-> 1], [k \in DOMAIN results |-> k]).index]

\* wc
Sums(results) ==
  FoldLeft(LAMBDA s, r : [chars |-> s.chars + r.chars,
                          words |-> s.words + r.words,
                          lines |-> s.lines + r.lines],
           [chars |-> 0, words |-> 0, lines |-> 0], results)

PrintAnswers ==
  /\ command # None
  /\ \A i \in Worker : answers[i] # <<>>
  /\ LET results == FlattenSeq([i \in Worker |-> answers[i]])
     IN shown' = [command |-> command,
                  typed   |-> buffer,
                  text    |-> CASE command = "search"   -> results
                                [] command = "maxcount" -> Greatest(results)
                                [] command = "mincount" -> Least(results)
                                [] command = "wc"       -> Sums(results)]
  /\ command' = None
  /\ answers' = [i \in Worker |-> <<>>]
  /\ UNCHANGED <<corpus, worker, buffer, query>>

Next == Send \/ PrintAnswers \/ \E i \in Worker : ReadLine(i) \/ Handle(i)

Spec == Init /\ [][Next]_vars

-----------------------------------------------------------------------------
(***************************************************************************)
(* Properties.  They compare what is printed with the texts themselves.    *)
(***************************************************************************)

\* Types, and that no list is written beyond its end: those of the trie and of
\* the results, which start with room for some elements and grow by half, nor
\* fileCounter, which starts with room for exactly the files (a list for one
\* would not grow: int(1 * 1.5) is 1).
TypeOK ==
  /\ corpus \in Corpora
  /\ totals \in [Worker -> [chars : Nat, words : Nat, lines : Nat]]
  /\ command \in {None, "search", "maxcount", "mincount", "wc"}
  /\ buffer \in Arguments /\ query \in Seq(Word)
  /\ \A i \in Worker, word \in Word :
       /\ Fits(trie[i][word])
       /\ Fits(Search(trie[i], <<word>>))
       /\ corpus[i] # <<>> => Fits(FileCounter(i, word))

\* The documents, and how often a word occurs in each.
Document == UNION {{<<i, f-1>> : f \in DOMAIN corpus[i]} : i \in Worker}

Occurrences(d, word) ==
  LET file == corpus[d[1]][d[2]+1]
  IN Cardinality({p \in UNION {{<<n, k>> : k \in DOMAIN file[n]} : n \in DOMAIN file} :
                    file[p[1]][p[2]] = word})

Holders(word) == {d[1] : d \in {e \in Document : Occurrences(e, word) > 0}}

\* The lines whose (file, line) number is one that int can hold.
FitsInt(place) == Cantor(place[2], place[3]) <= IntMax

AllFit == \A i \in Worker : \A n \in DOMAIN Lines(i) : FitsInt(<<i, Lines(i)[n].file, n-1>>)

Matching(i, keywords) ==
  {<<i, Lines(i)[n].file, n-1>> : n \in
     {m \in DOMAIN Lines(i) : Range(Lines(i)[m].words) \cap keywords # {}}}

\* The words typed that have no hyphen in or before them, and what is in front
\* of the first hyphen.
Searched(typed) ==
  LET whole == {k \in DOMAIN typed : \A j \in 1..k : typed[j] \notin Hyphenated}
      cut   == {k \in DOMAIN typed : /\ typed[k] \in Hyphenated
                                    /\ \A j \in 1..k-1 : typed[j] \notin Hyphenated}
  IN {typed[k] : k \in whole} \cup UNION {Range(InFront[typed[k]]) : k \in cut}

\* /search prints every line of the corpus that has one of the words searched,
\* once, although the lines are told apart by a number only; of the lines of a
\* worker whose number is too large for int it prints one.  The words searched
\* are those up to the first hyphen: a keyword with a hyphen, which the workers
\* do index, is never searched, nor is any behind it (README.md:7 of the
\* program promises all keywords).
SearchFindsLines ==
  shown.command = "search" =>
    LET printed == {n \in DOMAIN shown.text : shown.text[n] # Empty}
    IN /\ \A m, n \in printed : shown.text[m] = shown.text[n] => m = n
       /\ \A i \in Worker :
            LET mine == {l \in {shown.text[n] : n \in printed} : l[1] = i}
                all  == Matching(i, Searched(shown.typed))
            IN /\ mine \subseteq all
               /\ {l \in all : FitsInt(l)} \subseteq mine
               /\ all # {l \in all : FitsInt(l)} =>
                    Cardinality({l \in mine : ~FitsInt(l)}) = 1

\* /maxcount prints a document of the whole corpus in which the word is most
\* frequent and how often it is, across files, workers and the ways in which
\* each of them breaks ties.
MaxCountIsMax ==
  shown.command = "maxcount" /\ AllFit =>
    LET word == Head(shown.typed)
    IN IF Holders(word) = {}
       THEN shown.text = [path |-> Empty, count |-> 0]
       ELSE /\ shown.text.path \in Document
            /\ shown.text.count = Occurrences(shown.text.path, word)
            /\ \A d \in Document : Occurrences(d, word) <= shown.text.count

\* /mincount prints a document in which the word is least frequent of all
\* documents, those without it included, of the workers that have it at all:
\* which documents count depends on which worker they were given to.  This is
\* not what README.md:8-9 of the program promise, the least of the documents
\* across all processes (the two lines are swapped there): the documents of a
\* worker without the word are left out, though its count of 0 is the least of
\* all.  The two agree if every worker has the word in some document.
MinCountOfHolders ==
  shown.command = "mincount" /\ AllFit =>
    LET word == Head(shown.typed)
        counted == {d \in Document : d[1] \in Holders(word)}
    IN IF counted = {}
       THEN shown.text = [path |-> Empty, count |-> 0]
       ELSE /\ shown.text.path \in counted
            /\ shown.text.count = Occurrences(shown.text.path, word)
            /\ \A d \in counted : Occurrences(d, word) >= shown.text.count

\* /wc prints the lines and words of the whole corpus and its characters, the
\* letter and the blank or end of the line of each word and the end of each line
\* without one.
TotalsAreSums ==
  shown.command = "wc" =>
    LET all   == FlattenSeq([i \in Worker |-> Lines(i)])
        empty == {n \in DOMAIN all : all[n].words = <<>>}
    IN /\ shown.text.lines = Len(all)
       /\ shown.text.words = Len(FlattenSeq([n \in DOMAIN all |-> all[n].words]))
       /\ shown.text.chars = 2 * shown.text.words + Cardinality(empty)

\* What /maxcount, /mincount and /wc print.
CountsAreRight == MaxCountIsMax /\ MinCountOfHolders /\ TotalsAreSums

=============================================================================
