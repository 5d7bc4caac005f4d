# Specifications of the three assignments

TLA+ models, TLC runs and TLAPS proofs for the programs of this repository: a
search engine spread over worker processes, a web server with a crawler, and a
single-process search engine. All paths below are relative to `src/`; the
directory `multy process search engine` is called **mp**, `webserver & crawler`
**wc**, `search engine` **se**.

1. [Inventory](#1-inventory) – the parts, their state, what is hard
2. [Modules](#2-modules) – how they correspond to the code
3. [Runs](#3-runs) – what is checked, bounds, fairness
4. [Proofs](#4-proofs)
5. [What the code does against its own texts](#5-findings)
6. [Not modelled](#6-not-modelled)
7. [Plan](#7-plan)

## 1. Inventory

### mp: `./jobExecutor` and `./worker`

| part | state | operations | correct when |
|---|---|---|---|
| master, `read_queries` (`jobExecutor_main.cpp:137-240`) | `command`, `buffer`, `timeoutTime`, `Results`, `workersOnTime` | read a command; write it to each FIFO and `kill(SIGUSR1)`; poll each answer FIFO, drain it; print | every command is answered by each worker once, by the answer to *it*, and finishes |
| worker, `signal_handler` (`worker_main.cpp:150-186`) | `readfd`, `writefd`, a local `buffer` | read the FIFO, run the first command in it, write lines | one answer per request |
| life cycle (`jobExecutor_main.cpp:28-93,243-320`, `worker_main.cpp:188-292`) | `workers_pids`, `writeFIFO`, `readFIFO`, `terminateNow`; processes, zombies, signal masks, pending signals | fork, open FIFOs from both ends, SIGCHLD → `regenerate_child`, `terminate` | all come up; a worker that dies is replaced in its place; termination ends and leaves nothing |
| index (`Trie.cpp`), counting (`worker_main.cpp:62-148`, `jobExecutor_main.cpp:94-135`) | trie with posting lists | `add_word`, `search`, `maxcount`, `mincount`, `wc` | result equals that of a direct scan of the documents, and of all documents once the master has combined them |

Master and workers share nothing but two FIFOs per slot (`..._master` for
requests, `..._slave` for answers), SIGUSR1 and SIGTERM to the worker and SIGCHLD
to the master. What is hard: signals do not queue; answers carry neither number
nor end mark, so a late or slow answer cannot be told from the next one; the
handlers interrupt the other code at any point, also during start-up; the
collecting loop has no exit but an answer.

### wc: `./myhttpd`, `./mycrawler`

| part | state | operations | correct when |
|---|---|---|---|
| crawler (`MyCrawler.cpp`) | `UrlBuffer`, `UrlVisited` under `mtx`, condition `cond_nonempty`, counter `pages`, one text array per thread | `place`, `obtain`, fetch and parse a page, `terminate` | every page reachable by links is fetched, once, nothing else, and no thread sleeps over work |
| server (`Server.cpp`) | `Buffer` under `mtx`, `cond_nonempty`, the global `newsock`, `pages` | accept and `place`, `obtain`, answer, close; STATS and SHUTDOWN on the command port; `terminate` in the command thread, or in main on SIGINT | every accepted connection is answered and closed once, and `terminate` ends the process |
| `web_creator.sh` | – | writes pages | – |

The crawler talks to the server by one request per connection; each is modelled
with the other as environment (a `read` that may return part of a response, a
client that connects at any time, or connects and keeps silent). What is hard: two
lists that must agree although threads interleave; one signal for several items; a
global that two threads assign; descriptors that are closed while others hold them and
given out again; reads that are partial while the array keeps old text; an end that
takes mutex, condition and lists away from threads that were only asked to stop.

### se: `./search`

Sequential: read numbered documents, check the numbers (`main.cpp:66`), build the
trie, answer `/search` (score, quicksort, lines of text with marks under the words),
`/df`, `/tf`. Correct when the index answers as a scan would, the k results printed
are the best, in order, and the marks are under the words. Hard are the boundaries:
identifiers, growth of `List`, equal scores, the last column of a line.

`List` (three copies) is a growing array used by all of them.

## 2. Modules

| module | models | abstract specification it implements |
|---|---|---|
| `QueryExchange` | master and worker during commands | `QueryService` |
| `Lifecycle` | the processes' birth, replacement, end | – |
| `Crawler` | crawler threads | `Frontier` |
| `Server` | accepting, serving and command threads, `terminate` | `Desk` |
| `Lists` | `List`: the growing array (operators) | – |
| `Index` | both tries and the workers' `search` (operators over `Lists`) | – |
| `Counting` | workers that index their files, commands, the master's totals; over `Index` | – |
| `Ranking` | `quickSort` and `partition`, step by step | – |
| `SearchEngine` | `./search`, over `Index` and `Ranking` | – |
| `MC...` | instances for TLC | |
| `QueryExchangeProofs`, `CrawlerProofs`, `ServerProofs` | theorems, and that the abstract specification is implemented | |
| `LifecycleProofs`, `SearchEngineProofs` (with `Ranking`), `CountingProofs` | theorems | |
| `Lemmas`, `IndexProofs` | what the proofs need of sequences, finite sets, folds, the index | |

**`QueryService`** – a command is put to all workers, each replies once, then it is
finished. **`Frontier`** – the work-list algorithm: a page is found by a link in a
fetched page, every found page is fetched once. **`Desk`** – an accepted connection is
answered at most once (`answers` counts them), and those it has promised to (`Sure`) are
answered, unless the desk closes first.

**`QueryExchange`.** The master is a sequential program: `mpc` is its place in
`read_queries`, `k` its loop index; one action per system call (`WriteRequest`,
`SignalWorker`, `PollAnswer`/`PollNothing`, `DrainChunk`/`DrainEnd`, `Report`).
A worker sleeps, or is in the handler before its `read` (`read`) or after it
(`run`). FIFOs are sequences; a request is the number and word of its command, an
answer line the worker and the command it answers. `usr1[w]` is one bit: a second
signal is lost. A handler that finds its FIFO empty (`ReadNothing`, the read fails
with EAGAIN) parses a local array that it did not fill; by `Run` it may repeat the
request it ran last or do nothing. `timeoutTime` keeps its value from one command
to the next, as in the code. `write` blocks at `PipeMax` lines.
Both `/maxcount` and `/mincount` are `"count"`: the exchange treats them alike.

**`Lifecycle`.** Processes are numbered as they are forked. `mpc`, `k` are main's
place and loop index; `handler` says whether SIGCHLD has interrupted it. `st[p]`
is what p does; `deaf` are the processes forked inside `regenerate_child`, which
inherit its full signal mask through fork and exec. `EnterHandler` is possible
between any two steps of main, as the signal is. The `open` of a FIFO for writing
is enabled when there is a reader, which is how it waits; a handler that runs during such an open may make it fail (EINTR, no SA_RESTART) and main exit. `Fail`
is any death of a worker: `exit(1)`, an assertion, a kill from outside. `StopOrContinue`
is SIGSTOP or SIGCONT for a worker, which raises SIGCHLD as well, since the handler is
installed without SA_NOCLDSTOP: the `wait` in it then finds no ended child and blocks.
A worker opens its FIFOs in three steps: `OpenRequests` is the `open` in the kernel, with
which main's own open returns, `AssignReadfd` the assignment after it, `OpenAnswers` the
second open. A SIGUSR1 before the first assignment makes `signal_handler` read from
descriptor 0 (`TakeFromStdin`; `ReadStdin` is that the user types or the input ends),
before the second one write to it (`TakeRequestEarly`). A command
is reduced to a request in the FIFO, a signal and an answer. An interrupt before
the lists are complete ends the master in an assertion (`"failed"`).

**`Crawler`.** One action per step between which another thread can run: lock,
test, insert into `UrlVisited`, append to `UrlBuffer`, signal; lock, wait, take;
load and store `pages`; read the response. `todo[a]` is the list of links an actor
has still to place. `before[t]` are the pages whose text t's array has held: after
a partial read, or a 403/404 page whose body is shorter than the nine lines the parser
skips, it may find links that an earlier page left there (`Leftover`), and a link may be cut
(`Torn`). `MayShow` collects what a page may be seen to link to. Waiting on the
condition is `pc = "wait"`; `Signal` wakes one waiter if there is one; wake-ups
without a signal are possible.

**`Server`.** As above for `mtx`, `Buffer` and the condition. Each use of the global
`newsock` by main and by the command thread is a step of its own, since both
threads `accept` into it. What these variables hold are descriptors: `fd[d]` is the
connection behind number d, and `AcceptFrom` gives out any number that is free (the
lowest one in the code; which it is makes no difference), so that a number somebody
still holds may come to stand for a later connection. A `read` of a closed descriptor
fails and leaves the array `request` as it was (`File` with `heard` false); a `write` to
it ends the server (`perror_exit`), and so does an `accept` without a free number
(`NoDescriptor`). A client need not send anything: `Read` waits for the request or for
the client to hang up, and only those who are not `Silent` will do either.

`terminate` can run in the command thread and in main (SIGINT goes to the first
thread), also in both at once: `stop[p]` is p's place in it. `Cancel` asks one thread
after the other; a canceled thread dies in `read`, `write` or `close` (`Die`), or in
`pthread_cond_wait`, where it first stops being a waiter (`LeaveWait`) and then takes
the mutex that nobody releases any more (`DieLocking`). `DestroyCond` waits until there
is no waiter, as glibc does since 2.25; `DestroyMutex` is refused (EBUSY) while somebody
owns the mutex or will come back to it from waiting, a thread that has been woken
(`woken`) included. A thread that uses `Buffer` after
that may get away with it, be lost, or end the process (`ObtainAstray`, `PlaceAstray`).
`exit` in a command thread that has canceled itself is a cancellation point when it
flushes stdout and then aborts; either way the process ends.

**`Lists`, `Index`.** A list is a record of its elements, the number of places and
`start_from`; `AppendElement` grows it by half first. A trie is a function from words
to posting lists: nodes and letters are left out, since a word leads to the same node
each time. In the workers a posting's place is ⟨file, line⟩, in the search engine a
document. `Search` keeps the numbers of `Trie.cpp:110` in a list, computed exactly
and then converted as x86 does (the least int for what does not fit).

**`Counting`.** `ReadLine` adds one line of a worker's files to its trie and totals.
`Sent` is what the master sends of what was typed: a `/search` is cut at its first hyphen
(`UpToHyphen`; `jobExecutor_main.cpp:165` looks for `-d` behind it), wherever in a word that is.
`Send`, `Handle`, `PrintAnswers` are a command from the prompt to what is printed; the
exchange in between is that of `QueryService`, since how it fails is the subject of
`QueryExchange`. `shown` keeps what was printed and is compared with the texts, for
`/search` by position, so that a line printed twice is seen.

**`Ranking`, `SearchEngine`.** The recursion of `quickSort` is a stack of calls; a step is
a call that returns, a call of `partition`, a round of its loop, or its end. The engine
reads any file, line by line, as `fscanf` does (an empty text swallows the next line);
`SearchFor` gives the documents found any scores; `StartResult`, `PrintWord`,
`BreakLine`, `EndResult` print them with `cur_width` and `pointer_line_pos` as in the
code, next to a history of where the text really is. `HeadingWidth` is what
`"%5d. (%5d) [%5f] "` takes for the numbers at hand: 26 columns, more for a number of six
digits, a score below 0 or one from 10.

## 3. Runs

Every property has a mutant: a small change of a mapped definition (a dropped
guard, a signal not sent, a wrong index) that TLC must refute it with.

| run | instance | shows |
|---|---|---|
| `exchange_exact` | 3 workers, 3 commands, no timeout, one-line answers | the exchange implements `QueryService`, liveness included, and prints exactly one answer of each worker (`ImplementsService`) |
| `exchange_late` | 2 workers, 3 commands with and without timeout, answer pipes of two lines | `AnswerOnTheWay`, `EveryWorkerHeard`, `AnswersInOrder`, `EveryCommandFinishes` |
| `lifecycle_deaths` | 2 workers, 3 deaths, 2 stops or continuations, a command, interrupts | `OneWorkerPerSlot`, `AllListed`, `HandlerFindsChild`, `CleanExit`, `HandlersAreReady`, `GoesDown`; up to the second death or the first stop `ComesUp` (the opens do not deadlock) and `IsRepaired` |
| `crawler_whole` | 3 threads, 6 addresses (cycle, missing page, page without links to it), whole reads | `CrawlComplete`; implements `Frontier`, liveness included |
| `crawler_partial` | 2 threads, 5 addresses, partial reads, the process may stop | `EachUrlOnce`, `PagesNotInflated`, `NoLostWakeup`, `OnlyReachable` |
| `server_pages` | 2 threads, 2 browsers, one silent, 2 descriptors, SIGINT or a failing call | `HandledByOne`, `ShutdownEnds`; implements `Desk`, liveness included (`KeepsPromise`) |
| `server_commands` | 2 threads, 3 browsers and SHUTDOWN on 2 descriptors, SIGINT or a failing call | `NoIdleWithWork`, `StaleBounded`, `LeaksBounded` |
| `counting` | 2 workers, 732 corpora of up to 3 files, 5 arguments, two of them with a hyphen, `IntMax` 7 | `SearchFindsLines`, `CountsAreRight` |
| `engine` | all files of up to 3 of 16 lines, 32 files with identifiers from −3 and from 99999, 3 queries, any of 3 scores | `IndexIsExact`, `LookupsSucceed`, `ShownAreBest`, `MarksUnderWords`, `OverrunByOne`, `SearchEnds` |

One run per component also has its `TypeOK`; those of `Counting` and `SearchEngine`
also say that no `List` is written past its end (`Fits`). The remaining runs are the
violations of section 5.

**Why these bounds.** *Exchange:* confusion needs an answer that is late by one
command and, with a lost or repeated request, by two; three commands let both
happen, and leave several late lines in a pipe to be drained. Two workers are
enough for one being polled while another still writes; three for the order of
the loops. With two late answers a pipe of two lines is full and blocks its writer; they
are the least that can be out of order and that one `read` may take together or not.
Answers of several lines that are read in parts are in `exchange_mixup` and, together
with any pipe size, in the theorems. *Life cycle:* two deaths are the least that
coalesce, and a third one may hit the replacement, or come while a fork has not
been entered in the list; two stops are the least of which one may be lost in the other.
Two workers have all the orders of first and last in the loops. *Crawler:* three
threads: one that signals, one woken, one that gets in before it; the site has a
cycle, a page linked twice, a missing one and one that is unreachable. *Server:* two
threads, one of which a silent client may keep. On the command port there is one
SHUTDOWN, which does what a STATS does and runs `terminate`, once in each thread together
with SIGINT. Three browsers and the operator on two descriptors are the least for a
number that was closed under its holder to be given out, closed and given out again.
*Counting:* a worker with none, one
and two files, of up to two lines, next to one with up to one file; arguments with a
hyphen inside a word, one that is a mere `-d`, and without any; with
`IntMax` 7 the second file's later lines have numbers that do not fit, and lists of two
places have to grow. *Search engine:* three documents let `partition` have two equal
scores and a third on either side, and `K` = 2 leaves one out; identifiers from −1 to 2
pass through 0, those from 99999 to six digits, those at −3 stay below 0; scores are of
one, two and three places; the words are one that fits twice on a line, one that fills it exactly,
one that is too long for it. The theorems
of section 4 hold without any of the bounds on sizes.

**Fairness.** Weak fairness of each process or thread as a whole: the scheduler runs
every runnable thread. Of the environment there are three assumptions, each stated with the
specification that makes it: a client of the server that is not one of `Silent` sends a
request or hangs up (`ReadSure`; a silent one keeps its thread for ever, so `KeepsPromise`
promises nothing when there are as many of them as threads); the server that the crawler
asks answers or closes the connection, or there would be no crawl to complete; and a
stopped worker is continued. Nothing else: the user need not type, nobody
need connect or use the command port, no worker need die, nothing need stop. Weak fairness is enough
because whatever waits in the code is woken by something that stays (a byte in a
FIFO, a pending signal, a mutex whose contention
ends, since finitely many pages or connections are placed); for the condition variables the specifications also say that
a thread is not woken without reason for ever, which POSIX permits in principle
but which alone could keep the others from the mutex. `RunOrSilence` and similar
mutants show that the liveness properties depend on what the code does.

**Deadlock** is not checked where the system may legitimately stop: the user types
no more commands, all threads wait for work, the process has exited. What must not
stop is stated as liveness instead.

**What the liveness properties do not say.** `EveryCommandFinishes` is without
deaths of workers and without a timeout in force says nothing of which answers are printed.
`ComesUp` and `IsRepaired` end at the second death and at the first stop, after which main
may be in `wait` for ever; they and `GoesDown` except a worker that reads from
descriptor 0. `GoesDown` excludes replaced workers, for which it is false
(section 5), and no property says that the command survives a worker that dies between
its request and its answer, since it does not. `KeepsPromise` is for finitely many connections: `Buffer` is last in,
first out, so with connections arriving without end the first may never be served.

## 4. Proofs

Every invariant that a passing run of section 3 checks is also a theorem, and so is the
safety part of the three refinements. The proofs assume only the named assumptions on the
constants, which TLC evaluates in the runs: `ConstantsAssumption` (exchange),
`CrawlerAssumption`, `ServerAssumption`, `LifecycleAssumption`, `IndexAssumption`,
`CountingAssumption`, `RankingAssumption`, `SearchEngineAssumption`. They say that numbers
are numbers, that sets of threads are finite and that names of different things differ; the
inputs (`Links`, `Corpora`, `Files`, `Queries`) are any sequences, scores any numbers, but
files are not longer than the lists they need. Three
theorems have a hypothesis of their own, named with them below.

`Lemmas` has what several proofs need about sequences and counts in finite sets.

### `QueryExchangeProofs`: all numbers of workers, commands and lines, pipe sizes, timeouts

* `TypeCorrect` (`TypeOK`). The inductive invariant is `TypeInv`: the types, that
  only the master of a command in progress has a positive number (`Numbered`), and
  that a worker in its handler has a real request and something left to write
  (`Answering`).
* `AwaitedOwesAnswer` (`AnswerOnTheWay`). Inductive together with: while the master
  signals worker k its request has been written, taken or run (`WayInv`). The point
  is that a signal is sent *after* the request is written, so whoever reads an empty
  FIFO has read that request already.
* `ReportsEveryWorker`, `AbortNeedsTimeout` (`EveryWorkerHeard`,
  `AbortsOnlyWithTimeout`). `HeardInv`: every chunk in `Results` is of one worker and
  not empty, and without a timeout there is one of each worker that the collecting loop has passed.
* `AnswersStayInOrder` (`AnswersInOrder`). `OrderInv`: per worker, results, answer
  pipe, the answer being written, the requests and the present command are ordered by number.
* `PrintsOneAnswerEach`, `ExchangeImplementsService`: one answer of each worker is printed,
  to this command, and each step is one of `QueryService` or none. Hypothesis `Exact`: no
  timeouts and answers of one line; without it both are false (`exchange_mixup`).
  `ExactInv`: each worker is idle, has a request before it, or owes one answer that is
  signalled, run or written (`WorkersInv`), and the results are one of each worker polled
  so far (`ResultsInv`).

### `CrawlerProofs`: all sites, any finite number of threads

* `TypeCorrect`, `BufferIsASet`, `NoPageAgain`. `ListInv`: who is inside `place` or
  `obtain` holds `mtx`, an address between test and append is still new to the
  buffer, and `todo` has what the actor's `pc` needs.
* `NoWakeupIsLost`. `WakeInv`: `NoLostWakeup` itself and that main places one address.
  A thread that has placed something is not waiting and will call `obtain` before it
  can wait, so the one signal per page matters only for main's.
* `CrawlerImplementsFrontier`: initial states map to initial states and each step to
  a step of `Frontier` or none. `OriginInv`: what a thread is about to place comes
  from pages it has fetched, or is a cut link.
* `VisitsOnlyReachable` (`ReachInv`) and `CrawlsEverything` (`CoverInv`: each link of
  a taken page is visited or about to be placed by the thread that took it). The
  latter is partial correctness of the crawl: *if* all threads wait, it is complete.
* `CountsNoPageTwice` (`PagesNotInflated`). `PagesInv`: `pages` and the fetched pages that
  are still to be counted are together at most the pages taken, and the same is true of
  every value that a thread has loaded and is about to store.

### `ServerProofs`: any finite number of threads, any connections

* `TypeCorrect` (`TypeOK`), inductive itself.
* `NobodySleepsOverWork` (`NoIdleWithWork`), inductive together with `EndInv`, that nothing is
  destroyed before all threads have been told to go: while some
  thread waits and none is canceled, `Buffer` has no more connections than threads are on their
  way to take one (`Coming`), the signal that main is about to send counted too.
* `HandledExactlyOnce` (`HandledByOne`). `FdInv`: distinct descriptors stand for distinct
  connections. `HeldInv`: without commands a number is in one place if it is of an open
  connection, and in none otherwise, so that what `accept` gives out nobody still has.
* `OneStalePerCommand`, `OneLeakPerCommand` (`StaleBounded`, `LeaksBounded`). All numbers in
  circulation are counted (`Hands`) against the open connections that somebody holds
  (`Held`): no step of main or of a server thread makes the difference larger, a
  command's accept, which may put its number into main's hand, or its close, under a holder,
  by one. For one command both cannot happen with effect: `StaleInv` keeps one in
  reserve while it still has its close before it. For the connections that nobody holds
  (`Left`) the count is the same.
* `ServerImplementsDesk`: `Spec => Promise!SafeSpec`, each step is one of `Desk` or none. The first
  connection to the command port is the desk's `Leave`, after which nothing is promised
  (`server_newsock` shows why). Up to there `OnceInv`: a connection that may still be
  written to (`Pending`) has no answer yet, and `NumberInv`: what is held is a descriptor.

### `LifecycleProofs`: all numbers of workers, deaths and commands

* `TypeCorrect`, with `InStep`: the lists are as long as main's place in the start says.
* `SlotsAreNotShared`, `EveryChildIsListed` (`OneWorkerPerSlot`, `AllListed`). `Listed`:
  each child, zombies included, stands in `workers_pids` at the place of its slot, but for
  the one just forked, whose slot is the next.
* `SignalsFindHandlers` (`HandlersAreReady`). `Ready`: a worker whose
  FIFOs main has opened has opened them too, which it does after it installed its handlers.
* `WaitInHandlerReturns` (`HandlerFindsChild`). `Reported`: a pending SIGCHLD stands for
  a zombie other than the one the running handler is waiting for, or for a stop or a
  continuation, of which each accounts for one at most.
* `NothingIsLeftBehind` (`CleanExit`). `WaitsLeft`: while `terminate` waits there are no
  more children than waits to come.

### `SearchEngineProofs`: any file, queries, scores, word lengths and width of the console

* `QuickSortSorts` (`SortedRight` of `Ranking`). `SortInv`: the calls on the stack are of ranges that do
  not overlap, and what is in different ranges, or in none, is already in order (`CallsInv`,
  `Ordered`); in `partition`, what lies before `i` is greater than the pivot and what lies
  from there to `j` is not (`FrameInv`); the list has each result as often as `input` (`SameCounts`).
* `EngineInvariant`: `EngineInv` joins what reading (`ReadInv`: the index counts the words of
  the documents read, and no others), searching (`SearchInv`) and printing (`PrintInv`:
  `cur_width` is at most two columns ahead of `pointer_line_pos`, the text at most one)
  establish, and `Lookups`. From it
  `EngineTypes`, `IndexExact`, `LookupsWork`, `BestAreShown`, `MarksAreUnderWords`,
  `OverrunIsOne`. `MarksAreUnderWords` needs that a heading is at least 26 columns wide
  (`HeadingIsWide`), `IndexExact` that the sum over a posting list is the number of places
  where the word stands, in all documents together (`DfCountsOccurrences`).

### `IndexProofs`, `CountingProofs`: any documents, however distributed

* Loops over lists are folds in the model. What they compute was proved for lists of any
  length by induction, made from the theorem of the library that a well-founded relation has minimal
  elements (`LeastElement`, `Induction`), and by `FoldExists`, `FoldSteps`, which turn a fold into
  the function of its intermediate results. So `AddWordsCounts`: after any `AddWords` a
  posting list counts each place once, with the occurrences of the word there. `BlocksAdd`: the size of a union of
  sets of pairs with different first members is the sum of theirs.
* `CountingInvariant`. `LoadInv`: the trie of a worker has the lines it has read, each under
  its file and number; `AskInv`: every answer given is the one to the command in force.
* `LinesAreFound` (`SearchFindsLines`): what is sent are the words typed up to the first
  hyphen, and the numbers of `Trie.cpp:110` are different for
  different (file, line) as long as they fit into int (Cantor's pairing is injective), and
  all the same beyond.
* `CountsMatchTexts` (`CountsAreRight`): `fileCounter` has the occurrences of the word in each
  file, and the master takes the greatest or least, or adds up the totals (`TotalInv`), whose
  characters are two for each word and one for each line without words. Hypothesis
  `FewOccurrences`: no word is in one document 99999 times, where `minCount` starts (section 5).
* `CountTypes` (`TypeOK`).

**Only model-checked:** the liveness parts of `ImplementsService`, `CrawlsFrontier` and
`KeepsPromise`, and `EveryCommandFinishes`, `ComesUp`, `GoesDown`, `IsRepaired`,
`ShutdownEnds`, `SearchEnds`: the prover handles neither fairness nor ENABLED.

## 5. Findings

Each is a run in which TLC finds a behaviour of the code that contradicts a text
of the repository.

| run | property | what happens |
|---|---|---|
| `exchange_mixup` | `AnswersThisCommand` | a pipe empty for a moment ends the collection; the rest is printed with the next command |
| `lifecycle_subset` | `EverySubsetServed` | a replacement inherits the handler's signal mask and never takes SIGUSR1 (nor SIGTERM: `terminate` then waits for ever) |
| `server_newsock` | `NewsockIsMine` | main's accept overwrites the connection the command thread has just accepted |

Further behaviours that the models have, and that the conditions in the properties
are there for:

* "%d out of %d workers responded": every worker is put into `workersOnTime`, whether or
  not it answered (`jobExecutor_main.cpp:197`), and the loop over late ones never runs.
* A count after a timed `/search` may print element 0 of an empty list and abort in
  `List::value` (`AbortsOnlyWithTimeout` says when).
* A worker that dies while main still forks makes `regenerate_child` read past the end
  of `workers_pids` (the second case of `RegenerateChild`, `mpc = "failed"`).
* Of two workers that die together one is not replaced, as there is one `wait` per
  SIGCHLD: `IsRepaired` is about the time up to the second death.
* A worker that is stopped or continued raises SIGCHLD, and the master, with all signals
  blocked, waits until some worker ends (`HandlerFindsChild` counts how often).
* SIGUSR1 before `readfd` is assigned makes the worker read the request from descriptor 0, that
  is, take what the user types next (`TakeFromStdin`); before `writefd` is assigned it sends the answer
  there (`TakeRequestEarly`). The master polls for ever in both cases.
* A keyword with a hyphen is cut there by the master, and neither it nor a word behind it is
  searched (`SearchFindsLines`, `Searched`), although the workers index such words and mp's `README.md:7`
  promises all keywords.
* A client that connects and sends nothing keeps a server thread for ever; as many of them as
  there are threads keep all others waiting (`Silent`, `KeepsPromise`).
* The command thread closes what `newsock` holds, which may be the connection of a browser
  that main has placed. Its number is given out again by the next `accept`, and two threads may
  then serve one connection, and the first close the next one under the second
  (`StaleBounded`, `LeaksBounded`: it does not multiply).
* `/df` prints how often a word occurs in all documents together; se's `README.md:4` has it print
  the document frequency (`IndexIsExact` has the sum). Documents with the word three times
  count three times.
* `/mincount` takes documents without the word into account if their worker has the word
  elsewhere, and not otherwise (`MinCountOfHolders`, a part of `CountsAreRight`): the answer depends on how the
  directories were distributed, and is not the least over all processes, which mp's
  `README.md:8-9` promises (for `/maxcount`, as it has the two exchanged). If the word is in each of the counted documents 99999 times
  or more, `minCount`, which starts from that number, prints the first answer instead of the
  least (`MasterMin`).
* A worker without a file dies of the assertion of `List`'s constructor on the first
  `/maxcount` or `/mincount` (`Handle` of `Counting`).
* Lines whose number in `Trie.cpp:110` does not fit into int are all one line to `search`
  (`FitsInt`); it takes some 65000 lines in one worker.
* After a document −1 the engine accepts any number and then fails an assertion in a
  search (`PastMinusOne`); a document without text takes the next line for its text; a
  word longer than the line is tried for ever (`WordsFit`); a line that is exactly full
  writes one byte past `pointer_line` (`OverrunByOne`); the marks on the first line are
  too far to the left by one column for each digit of an identifier beyond the fifth (the
  repository's `dataset.txt` has identifiers up to 114839), and for each place of the score beyond the
  first, its sign included (`Off` of `MarksUnderWords`); `/tf` without a
  number frees a pointer it never set (`TfWithoutNumber`).
* `pages+=1` without the lock loses counts (`PagesNotInflated` is what remains true).

## 6. Not modelled

* Bytes. A read returns whole lines; that a chunk may end inside a line, and the
  write one past `result` when exactly 4000 bytes arrive, are left out. The request
  FIFO is unbounded (it would take thousands of pending commands to fill it).
* `/search` without words, whose `buffer` still holds the arguments of an earlier
  command: the exchange is the same.
* Failing system calls (fork, exec, open of an existing FIFO), and library calls
  (malloc, printf) that a handler interrupts.
* Functions declared `bool` that end without `return` (`write_to_pipe`) are taken to
  return, as they do in builds that do not exploit it.
* `terminate` of the crawler is one step that ends the process. It is the server's
  without `pthread_cond_destroy`, so nothing in it waits, and main, which only joins, does
  not go on: the thread it joins first is the command thread.
* The crawler's command port, which changes nothing before that.
* The descriptors of the page files that server threads open and close: a stale `close` of the
  command thread may hit one of them as well.
* In the server, a `terminate` that interrupts main inside malloc, whose lock `delete`
  then waits for: library calls are single steps.
* Scores: `docScore` is floating-point arithmetic, which TLC does not have; a score is any
  number, of which the places before the point and the sign are printed.
* Letters: the nodes of the tries, the splitting of texts into words (of their spelling
  only the length and, for `/search`, the hyphens count), and the length
  limits on lines (3900 and 200 characters).
* Typing nothing behind a command. In the master it leaves the last arguments in `buffer`,
  the same as typing them again. In `./search`, where `args` is no array but a pointer that
  `scanf("%19s%m[^\n]", ...)` (`main.cpp:105`) sets, glibc (2.36) stores NULL there when nothing
  matches, at the first command and at later ones: `/df` then prints all words and `/search` an error
  message, and neither changes anything. (The `%ms` of `/tf` stays unset when the conversion before
  it fails, which is `TfWithoutNumber`.)
* Scripts and logging: input and output only.

## 7. Plan

Done: all components that run code of the repository are modelled, every invariant of a
passing run is proved, and the three abstract specifications are shown to be implemented.

Next:

1. Refinements under weaker hypotheses: the exchange with answers of several lines, for what
   `QueryService` would have to promise then.
2. Action properties that follow from the invariants proved: what a handler may never change
   in what it interrupts, that a slot changes hands only through a death.
3. Shorter proofs of the conditions on lists.
