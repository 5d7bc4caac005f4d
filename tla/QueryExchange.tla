--------------------------- MODULE QueryExchange ---------------------------
(***************************************************************************)
(* How ./jobExecutor (jobExecutor_main.cpp, read_queries) puts a command   *)
(* to the ./worker processes and collects what they print                  *)
(* (worker_main.cpp, signal_handler), once all of them are up.             *)
(*                                                                         *)
(* Every worker has two FIFOs.  The master writes the text of the command  *)
(* into the "_master" one and sends SIGUSR1; the worker's handler reads    *)
(* whatever that FIFO holds, runs the FIRST command in it, and writes the  *)
(* answer line by line into the "_slave" FIFO.  Answers carry neither a    *)
(* command number nor an end mark: the master takes what the pipe holds at *)
(* the moment it looks.  SIGUSR1 does not queue, and is blocked while the  *)
(* handler runs (sigfillset).                                              *)
(*                                                                         *)
(* The master is a sequential program with a program counter mpc; a worker *)
(* is either in sleep(1) or in its handler.  Texts are abstracted to the   *)
(* number of the command that caused them.  Deaths of workers, SIGCHLD and *)
(* /exit are not part of this module.                                      *)
(***************************************************************************)
EXTENDS Integers, Sequences, FiniteSets

CONSTANTS
  N,            \* no_of_workers
  MaxQueries,   \* bound: commands the user types
  Timeouts,     \* the "-d" values a /search may carry, 0 for none
  MaxLines,     \* bound: lines in one worker's answer to a /search
  ReadMax,      \* lines one read() of MAXBUFF bytes can return
  PipeMax       \* lines an answer FIFO holds before write() blocks

ASSUME ConstantsAssumption ==
  /\ N \in Nat \ {0}
  /\ MaxQueries \in Nat
  /\ Timeouts \subseteq Nat /\ Timeouts # {}
  /\ MaxLines \in Nat \ {0}
  /\ ReadMax \in Nat \ {0}
  /\ PipeMax \in Nat \ {0}

Worker == 0 .. N-1

\* "count" stands for /maxcount and /mincount, which the exchange treats alike.
Command == {"search", "wc", "count"}

Request == [id : 1..MaxQueries, cmd : Command]
NoRequest == [id |-> 0, cmd |-> "none"]

Line == [from : Worker, id : 1..MaxQueries]

VARIABLES
  mpc,            \* where the master is in read_queries
  k,              \* its loop index over the workers
  cur,            \* number of the present command (of the last one when idle)
  cmd,            \* its command word
  timeoutTime,    \* outlives the command: only /search assigns it
  Results,        \* chunks read so far, each the lines of one read()
  workersOnTime,  \* the list printed as "... workers responded"
  heard,          \* history: workers from which this command read something
  reqFifo,        \* per worker, the requests in its _master FIFO
  usr1,           \* per worker, whether SIGUSR1 is pending
  wpc,            \* per worker, "sleep", "read" or "run"
  buffer,         \* per worker, the request its handler last read
  left,           \* per worker, lines of the answer still to be written
  ansFifo         \* per worker, the lines in its _slave FIFO

master == <<mpc, k, cur, cmd, timeoutTime, Results, workersOnTime, heard>>
worker == <<usr1, wpc, buffer, left>>
vars   == <<master, worker, reqFifo, ansFifo>>

MasterPc == {"idle", "write", "signal", "sleep", "poll", "drain", "report",
             "aborted"}

TypeOK ==
  /\ mpc \in MasterPc
  /\ k \in Worker
  /\ cur \in 0..MaxQueries
  /\ cmd \in Command
  /\ timeoutTime \in Timeouts \cup {0}
  /\ Results \in Seq(Seq(Line))
  /\ workersOnTime \in SUBSET Worker
  /\ heard \in SUBSET Worker
  /\ reqFifo \in [Worker -> Seq(Request)]
  /\ usr1 \in [Worker -> BOOLEAN]
  /\ wpc \in [Worker -> {"sleep", "read", "run"}]
  /\ buffer \in [Worker -> Request \cup {NoRequest}]
  /\ left \in [Worker -> 0..MaxLines]
  /\ ansFifo \in [Worker -> Seq(Line)]

Init ==
  /\ mpc = "idle" /\ k = 0 /\ cur = 0 /\ cmd = "wc" /\ timeoutTime = 0
  /\ Results = <<>> /\ workersOnTime = {} /\ heard = {}
  /\ reqFifo = [w \in Worker |-> <<>>]
  /\ usr1 = [w \in Worker |-> FALSE]
  /\ wpc = [w \in Worker |-> "sleep"]
  /\ buffer = [w \in Worker |-> NoRequest]
  /\ left = [w \in Worker |-> 0]
  /\ ansFifo = [w \in Worker |-> <<>>]

-----------------------------------------------------------------------------
(***************************************************************************)
(* The master.                                                             *)
(***************************************************************************)

\* Mutant: the loop runs one worker too far.
NextWorkerTooFar(again, after) ==
  IF k < N THEN k' = k+1 /\ mpc' = again ELSE k' = 0 /\ mpc' = after

\* The next pass of a "for k in 0 .. no_of_workers-1" loop whose body starts
\* at `again', or what comes after the loop.
NextWorker(again, after) ==
  IF k < N-1 THEN k' = k+1 /\ mpc' = again
             ELSE k' = 0 /\ mpc' = after

\* fgets returns a known command.  A /search assigns timeoutTime; the other
\* commands keep the value the last /search left.
ReadCommand ==
  /\ mpc = "idle"
  /\ cur < MaxQueries
  /\ cur' = cur + 1
  /\ cmd' \in Command
  /\ IF cmd' = "search" THEN timeoutTime' \in Timeouts
                        ELSE UNCHANGED timeoutTime
  /\ mpc' = "write"
  /\ UNCHANGED <<k, Results, workersOnTime, heard, worker, reqFifo, ansFifo>>

\* write_to_pipe(writeFIFO->value(k), query)
WriteRequest ==
  /\ mpc = "write"
  /\ reqFifo' = [reqFifo EXCEPT ![k] = Append(@, [id |-> cur, cmd |-> cmd])]
  /\ mpc' = "signal"
  /\ UNCHANGED <<k, cur, cmd, timeoutTime, Results, workersOnTime, heard,
                 worker, ansFifo>>

\* Mutant: the kill has slipped out of the loop, only the last is signalled.
SignalLastWorker ==
  /\ mpc = "signal"
  /\ usr1' = IF k = N-1 THEN [usr1 EXCEPT ![k] = TRUE] ELSE usr1
  /\ NextWorker("write", IF timeoutTime # 0 THEN "sleep" ELSE "poll")
  /\ UNCHANGED <<cur, cmd, timeoutTime, Results, workersOnTime, heard,
                 wpc, buffer, left, reqFifo, ansFifo>>

\* kill(workers_pids->value(k), SIGUSR1), and on to the next worker or to the
\* collection of the answers, which a timeout delays by a sleep.
SignalWorker ==
  /\ mpc = "signal"
  /\ usr1' = [usr1 EXCEPT ![k] = TRUE]
  /\ NextWorker("write", IF timeoutTime # 0 THEN "sleep" ELSE "poll")
  /\ UNCHANGED <<cur, cmd, timeoutTime, Results, workersOnTime, heard,
                 wpc, buffer, left, reqFifo, ansFifo>>

\* sleep(timeoutTime) returns; how much the workers did meanwhile is open.
WakeUp ==
  /\ mpc = "sleep"
  /\ mpc' = "poll"
  /\ UNCHANGED <<k, cur, cmd, timeoutTime, Results, workersOnTime, heard,
                 worker, reqFifo, ansFifo>>

\* read_from_pipe(readFIFO->value(k), result) finds something: a chunk of at
\* most MAXBUFF bytes is taken out of the pipe.
Chunk == SubSeq(ansFifo[k], 1,
                IF Len(ansFifo[k]) < ReadMax THEN Len(ansFifo[k]) ELSE ReadMax)

TakeChunk ==
  /\ ansFifo[k] # <<>>
  /\ ansFifo' = [ansFifo EXCEPT ![k] = SubSeq(@, Len(Chunk)+1, Len(@))]
  /\ heard' = heard \cup {k}

\* The do-while of the collection succeeds.  What it read is kept only if the
\* command has no timeout.  Either way the worker is put on the list.
PollAnswer ==
  /\ mpc = "poll"
  /\ TakeChunk
  /\ Results' = IF timeoutTime = 0 THEN Append(Results, Chunk) ELSE Results
  /\ workersOnTime' = workersOnTime \cup {k}
  /\ mpc' = "drain"
  /\ UNCHANGED <<k, cur, cmd, timeoutTime, worker, reqFifo>>

\* Mutant: the loop does not wait for an answer.
PollOnce ==
  /\ mpc = "poll"
  /\ ansFifo[k] = <<>>
  /\ workersOnTime' = workersOnTime \cup {k}
  /\ mpc' = "drain"
  /\ UNCHANGED <<k, cur, cmd, timeoutTime, Results, heard, worker, reqFifo,
                 ansFifo>>

\* The read finds nothing; only a command with a timeout goes on regardless.
PollNothing ==
  /\ mpc = "poll"
  /\ ansFifo[k] = <<>>
  /\ timeoutTime # 0
  /\ workersOnTime' = workersOnTime \cup {k}
  /\ mpc' = "drain"
  /\ UNCHANGED <<k, cur, cmd, timeoutTime, Results, heard, worker, reqFifo,
                 ansFifo>>

\* while (read_from_pipe(...) > 0): further chunks are always kept ...
DrainChunk ==
  /\ mpc = "drain"
  /\ TakeChunk
  /\ Results' = Append(Results, Chunk)
  /\ UNCHANGED <<mpc, k, cur, cmd, timeoutTime, workersOnTime, worker,
                 reqFifo>>

\* ... until the pipe is empty, whether or not the worker has finished.
DrainEnd ==
  /\ mpc = "drain"
  /\ ansFifo[k] = <<>>
  /\ NextWorker("poll", "report")
  /\ UNCHANGED <<cur, cmd, timeoutTime, Results, workersOnTime, heard,
                 worker, reqFifo, ansFifo>>

\* maxCount and minCount print Results->value(0) of an empty list after
\* "No results!", which fails the assertion in List::value.
CountOfNothing == cmd = "count" /\ Results = <<>>

\* Print, and forget the answers.
\* The loop over workers that were late (lines 223-234) is entered for no
\* worker: workersOnTime holds all of them by now.
Report ==
  /\ mpc = "report"
  /\ mpc' = IF CountOfNothing THEN "aborted" ELSE "idle"
  /\ Results' = <<>> /\ workersOnTime' = {} /\ heard' = {}
  /\ UNCHANGED <<k, cur, cmd, timeoutTime, worker, reqFifo, ansFifo>>

-----------------------------------------------------------------------------
(***************************************************************************)
(* A worker.                                                               *)
(***************************************************************************)

\* SIGUSR1 interrupts sleep(1): signal_handler is entered.
Deliver(w) ==
  /\ wpc[w] = "sleep"
  /\ usr1[w]
  /\ usr1' = [usr1 EXCEPT ![w] = FALSE]
  /\ wpc' = [wpc EXCEPT ![w] = "read"]
  /\ UNCHANGED <<master, buffer, left, reqFifo, ansFifo>>

\* The lines search, maxcount, mincount or wc will write: at least one, as a
\* search without results writes "empty".
AnswerLines(r) == IF r.cmd = "search" THEN 1..MaxLines ELSE {1}

\* Mutant: a search without results writes nothing.
RunOrSilence(w, r) ==
  /\ buffer' = [buffer EXCEPT ![w] = r]
  /\ \E n \in AnswerLines(r) \cup {0} :
       /\ left' = [left EXCEPT ![w] = n]
       /\ wpc' = [wpc EXCEPT ![w] = IF n = 0 THEN "sleep" ELSE "run"]

\* The handler starts to answer request r.
Run(w, r) ==
  /\ buffer' = [buffer EXCEPT ![w] = r]
  /\ \E n \in AnswerLines(r) : left' = [left EXCEPT ![w] = n]
  /\ wpc' = [wpc EXCEPT ![w] = "run"]

\* Mutant: the newest request is served first, the others stay.
ReadNewest(w) ==
  /\ wpc[w] = "read"
  /\ reqFifo[w] # <<>>
  /\ Run(w, reqFifo[w][Len(reqFifo[w])])
  /\ reqFifo' = [reqFifo EXCEPT ![w] = SubSeq(@, 1, Len(@)-1)]
  /\ UNCHANGED <<master, usr1, ansFifo>>

\* The handler reads all that is in the FIFO; sscanf sees the first line only,
\* so a second request in the same read is lost.  (A /search with a timeout is
\* sent without its newline: a second request then ends up among its words.)
ReadRequest(w) ==
  /\ wpc[w] = "read"
  /\ reqFifo[w] # <<>>
  /\ Run(w, Head(reqFifo[w]))
  /\ reqFifo' = [reqFifo EXCEPT ![w] = <<>>]
  /\ UNCHANGED <<master, usr1, ansFifo>>

\* The read fails (EAGAIN) and the handler parses a buffer it never filled:
\* an uninitialised local.  Either nothing in it is a command, or it still
\* holds the text of the handler's previous run, which is run again.
ReadNothing(w) ==
  /\ wpc[w] = "read"
  /\ reqFifo[w] = <<>>
  /\ \/ /\ wpc' = [wpc EXCEPT ![w] = "sleep"]
        /\ UNCHANGED <<buffer, left>>
     \/ /\ buffer[w] # NoRequest
        /\ Run(w, buffer[w])
  /\ UNCHANGED <<master, usr1, reqFifo, ansFifo>>

\* write_to_pipe(writefd, result_string); blocks while the pipe is full.
\* After the last line the handler returns.
WriteLine(w) ==
  /\ wpc[w] = "run"
  /\ Len(ansFifo[w]) < PipeMax
  /\ ansFifo' = [ansFifo EXCEPT ![w] =
                   Append(@, [from |-> w, id |-> buffer[w].id])]
  /\ left' = [left EXCEPT ![w] = @ - 1]
  /\ wpc' = [wpc EXCEPT ![w] = IF left[w] = 1 THEN "sleep" ELSE "run"]
  /\ UNCHANGED <<master, usr1, buffer, reqFifo>>

-----------------------------------------------------------------------------
MasterStep ==
  \/ WriteRequest \/ SignalWorker \/ WakeUp
  \/ PollAnswer \/ PollNothing \/ DrainChunk \/ DrainEnd \/ Report

WorkerStep(w) ==
  Deliver(w) \/ ReadRequest(w) \/ ReadNothing(w) \/ WriteLine(w)

Next == ReadCommand \/ MasterStep \/ \E w \in Worker : WorkerStep(w)

Spec == Init /\ [][Next]_vars

\* Each process keeps running; nobody obliges the user to type.
FairSpec == Spec /\ WF_vars(MasterStep) /\ \A w \in Worker : WF_vars(WorkerStep(w))

-----------------------------------------------------------------------------
(***************************************************************************)
(* Properties of every exchange, with timeouts, long answers, lost and     *)
(* repeated commands included.                                             *)
(***************************************************************************)

\* The workers that have been sent the present command and signalled, and
\* that the collecting loop has still to poll.
Awaited(w) == \/ mpc \in {"write", "signal"} /\ w < k
              \/ mpc = "sleep"
              \/ mpc = "poll" /\ w >= k
              \/ mpc = "drain" /\ w > k

\* The collecting loop without a timeout polls until something comes.  It
\* never polls a worker that owes it nothing: there is a line in the pipe, or
\* the worker is writing one, or a request lies in its FIFO with the signal
\* that makes it read still to come or already taken.  This although SIGUSR1
\* may coalesce, requests may be dropped and old answers may be taken for new.
AnswerOnTheWay ==
  \A w \in Worker : Awaited(w) =>
    \/ ansFifo[w] # <<>>
    \/ wpc[w] = "run"
    \/ reqFifo[w] # <<>> /\ (usr1[w] \/ wpc[w] = "read")

\* A command without a timeout is reported only after something was read from
\* every worker (the do-while of read_queries), so that printing finds at
\* least one result per worker.
EveryWorkerHeard ==
  mpc = "report" /\ timeoutTime = 0 =>
    \A w \in Worker : \E c \in 1..Len(Results) : Results[c][1].from = w

\* The master dies of the assertion in List::value only when a timeout is in
\* force, its own or the one an earlier /search left behind.
AbortsOnlyWithTimeout == mpc = "aborted" => timeoutTime # 0

InOrder(lines) ==
  \A i, j \in 1..Len(lines) : i <= j => lines[i].id <= lines[j].id

\* The only thing that ties an answer to a command is its place in the pipe.
\* For each worker, what the master has read, what is in the pipe, what is
\* being written, what is requested and what is being asked come in the order
\* of the commands.  A late answer is older than all that follow it.
AnswersInOrder ==
  \A w \in Worker :
    /\ InOrder(ansFifo[w])
    /\ InOrder(reqFifo[w])
    /\ \A i \in 1..Len(ansFifo[w]) : ansFifo[w][i].id <= buffer[w].id
    /\ \A i \in 1..Len(reqFifo[w]) : buffer[w].id <= reqFifo[w][i].id
    /\ \A c \in 1..Len(Results) : \A i \in 1..Len(Results[c]) :
         Results[c][i].from = w =>
           /\ InOrder(Results[c])
           /\ \A j \in 1..Len(ansFifo[w]) : Results[c][i].id <= ansFifo[w][j].id

\* Every command is finished (or kills the master): nobody waits for ever,
\* although master and workers have nothing but polling and one signal.
EveryCommandFinishes == mpc # "idle" ~> mpc \in {"idle", "aborted"}

-----------------------------------------------------------------------------
(***************************************************************************)
(* Properties of exchanges without timeouts whose answers have one line.   *)
(***************************************************************************)

\* The workers whose answer to the present command has been read.
Replied == {w \in Worker : \E c \in 1..Len(Results) :
                             \E i \in 1..Len(Results[c]) :
                               Results[c][i] = [from |-> w, id |-> cur]}

Service == INSTANCE QueryService WITH asked   <- cur,
                                      serving <- mpc # "idle",
                                      replied <- Replied

\* What is printed is exactly one line of each worker, in the order of the
\* workers, each answering the present command.
OneAnswerEach ==
  mpc = "report" =>
    Results = [c \in 1..N |-> <<[from |-> c-1, id |-> cur]>>]

\* The exchange is the service the user expects, and its replies are printed.
ImplementsService == Service!Spec /\ []OneAnswerEach

-----------------------------------------------------------------------------
(***************************************************************************)
(* What the texts of the repository say and the code does not do.          *)
(***************************************************************************)

\* /search, /maxcount and /mincount report on the words they were given.
AnswersThisCommand ==
  mpc = "report" => \A c \in 1..Len(Results) : \A i \in 1..Len(Results[c]) :
                      Results[c][i].id = cur
=============================================================================
