------------------------------ MODULE Lifecycle ------------------------------
(***************************************************************************)
(* How the processes of ./jobExecutor come up, are replaced and go down    *)
(* (jobExecutor_main.cpp: main, generate_worker, regenerate_child,         *)
(* terminate; worker_main.cpp: main, terminate).                           *)
(*                                                                         *)
(* The master forks one worker per slot, opens the "_master" FIFOs for     *)
(* writing (each open waits for the worker's), then the "_slave" FIFOs for *)
(* reading, and reads commands.  A worker that dies becomes a zombie and   *)
(* raises SIGCHLD, as does one that is stopped or continued.  The signal   *)
(* does not queue and interrupts the master wherever it is;                *)
(* regenerate_child reaps one child and forks its replacement.  It does so *)
(* with all signals blocked (sa_mask), which the replacement inherits      *)
(* through fork and exec: it never takes a signal.                         *)
(*                                                                         *)
(* Processes are numbered as they are forked.  The exchange of one command *)
(* is reduced to what its course owes to the state of the processes;       *)
(* QueryExchange has it in detail, once all are up.  Commands have no      *)
(* timeout here.  Not modelled: a fork or exec that fails, an interrupt    *)
(* during the terminate of /exit, and library calls from signal handlers.  *)
(***************************************************************************)
EXTENDS Integers, Sequences, FiniteSets

CONSTANTS
  N,            \* no_of_workers
  MaxDeaths,    \* bound: workers that die of themselves
  MaxStops,     \* bound: workers that are stopped, or continued
  MaxCommands,  \* bound: commands the user types
  MayInterrupt  \* whether the master may get SIGINT or SIGTERM

ASSUME LifecycleAssumption ==
  /\ N \in Nat \ {0}
  /\ MaxDeaths \in Nat /\ MaxStops \in Nat /\ MaxCommands \in Nat
  /\ MayInterrupt \in BOOLEAN

Slot == 0 .. N-1

\* Enough processes: one per slot, and one for each that dies.
Proc == 1 .. N + MaxDeaths

VARIABLES
  mpc, k,       \* where main is, and its loop index
  forked,       \* a worker that is not in workers_pids yet, or 0
  pids,         \* workers_pids
  readable,     \* readFIFO->getLen()
  chld,         \* whether SIGCHLD is pending
  handler,      \* "wait" inside regenerate_child
  slot,         \* per process, the slot it was forked for (i of generate_worker)
  st,           \* per process, its state
  deaf,         \* the processes that run with all signals blocked
  usr1, term,   \* the processes with SIGUSR1, SIGTERM pending
  req,          \* per slot, whether its _master FIFO holds requests
  ans,          \* per slot, whether its _slave FIFO holds an answer
  deaths, stops, commands

main  == <<mpc, k>>
lists == <<forked, pids, readable>>
sigchld == <<chld, handler>>
procs == <<slot, st, deaf>>
sent  == <<usr1, term>>
fifos == <<req, ans>>
bounds == <<deaths, stops, commands>>
vars  == <<main, lists, sigchld, procs, sent, fifos, bounds>>

\* "load" is forked, then reads files; "opened" has opened the FIFO it reads, and
\* "open" also has the descriptor in readfd, and opens the one it writes; "up"
\* sleeps.  "serve" is in signal_handler with a request, "stdin" reads one there
\* from descriptor 0.
Living == {"load", "opened", "open", "up", "serve", "stdin"}
Startup == {"fork", "append", "openw", "openr"}
Working == {"idle", "write", "signal", "poll"}
Over == {"gone", "failed"}

TypeOK ==
  /\ mpc \in Startup \cup Working \cup {"term", "wait"} \cup Over
  /\ k \in Slot
  /\ forked \in Proc \cup {0}
  /\ pids \in Seq(Proc) /\ Len(pids) <= N
  /\ readable \in 0..N
  /\ chld \in BOOLEAN /\ handler \in {"none", "wait"}
  /\ slot \in [Proc -> Slot]
  /\ st \in [Proc -> Living \cup {"none", "zombie", "reaped"}]
  /\ deaf \subseteq Proc /\ usr1 \subseteq Proc /\ term \subseteq Proc
  /\ req \in [Slot -> BOOLEAN] /\ ans \in [Slot -> BOOLEAN]
  /\ deaths \in 0..MaxDeaths /\ stops \in 0..MaxStops /\ commands \in 0..MaxCommands

Init ==
  /\ mpc = "fork" /\ k = 0
  /\ forked = 0 /\ pids = <<>> /\ readable = 0
  /\ chld = FALSE /\ handler = "none"
  /\ slot = [p \in Proc |-> 0] /\ st = [p \in Proc |-> "none"]
  /\ deaf = {} /\ usr1 = {} /\ term = {}
  /\ req = [i \in Slot |-> FALSE] /\ ans = [i \in Slot |-> FALSE]
  /\ deaths = 0 /\ stops = 0 /\ commands = 0

-----------------------------------------------------------------------------
(* Processes and FIFOs.                                                     *)

Alive(p) == st[p] \in Living
Hears(p) == Alive(p) /\ p \notin deaf
Zombies == {p \in Proc : st[p] = "zombie"}

\* generate_worker(i) as process p.
Forks(p, i) ==
  /\ p \in Proc /\ st[p] = "none" /\ \A q \in Proc : q < p => st[q] # "none"
  /\ slot' = [slot EXCEPT ![p] = i]

\* The end of process p; nobody is told when the master is gone.
Dies(p) == IF mpc \in Over
           THEN st' = [st EXCEPT ![p] = "reaped"] /\ UNCHANGED chld
           ELSE st' = [st EXCEPT ![p] = "zombie"] /\ chld' = TRUE

\* Mutant: the worker opens that FIFO before anything else.
HasProcess(i) == \E p \in Proc : slot[p] = i /\ Alive(p)

\* Somebody has the _master FIFO of slot i open for reading ...
HasReader(i) == \E p \in Proc : slot[p] = i /\ Alive(p) /\ st[p] # "load"

\* ... and the master its _slave FIFO.
MasterReads(i) == /\ i < readable /\ mpc \notin Over
                  /\ mpc \in {"term", "wait"} => i > k \/ (i = k /\ mpc = "term")

-----------------------------------------------------------------------------
(* The master outside its handlers.                                         *)

MainRuns(here) == handler = "none" /\ mpc = here

\* The next pass of a loop over the slots that starts at `again', or `after' it.
NextSlot(again, after) ==
  IF k < N-1 THEN k' = k+1 /\ mpc' = again ELSE k' = 0 /\ mpc' = after

\* create_fifos(k) and generate_worker(k).
ForkWorker ==
  /\ MainRuns("fork")
  /\ \E p \in Proc : Forks(p, k) /\ forked' = p /\ st' = [st EXCEPT ![p] = "load"]
  /\ mpc' = "append"
  /\ UNCHANGED <<k, pids, readable, sigchld, deaf, sent, fifos, bounds>>

\* workers_pids->appendElement(...)
AppendPid ==
  /\ MainRuns("append")
  /\ pids' = Append(pids, forked)
  /\ forked' = 0
  /\ NextSlot("fork", "openw")
  /\ UNCHANGED <<readable, sigchld, procs, sent, fifos, bounds>>

\* open_for_write(k) returns as soon as the worker reads.
OpenForWrite ==
  /\ MainRuns("openw")
  /\ HasReader(k)
  /\ NextSlot("openw", "openr")
  /\ UNCHANGED <<lists, sigchld, procs, sent, fifos, bounds>>

\* open_for_read(l) does not wait (O_NONBLOCK).
OpenForRead ==
  /\ MainRuns("openr")
  /\ readable' = readable + 1
  /\ NextSlot("openr", "idle")
  /\ UNCHANGED <<forked, pids, sigchld, procs, sent, fifos, bounds>>

ReadCommand ==
  /\ MainRuns("idle")
  /\ commands < MaxCommands
  /\ commands' = commands + 1
  /\ mpc' = "write"
  /\ UNCHANGED <<k, lists, sigchld, procs, sent, fifos, deaths, stops>>

\* write_to_pipe; without a reader SIGPIPE ends the master.
WriteRequest ==
  /\ MainRuns("write")
  /\ req' = [req EXCEPT ![k] = HasReader(k)]
  /\ mpc' = IF HasReader(k) THEN "signal" ELSE "failed"
  /\ UNCHANGED <<k, lists, sigchld, procs, sent, ans, bounds>>

\* kill(workers_pids->value(k), SIGUSR1).
SignalWorker ==
  /\ MainRuns("signal")
  /\ usr1' = IF Alive(pids[k+1]) THEN usr1 \cup {pids[k+1]} ELSE usr1
  /\ NextSlot("write", "poll")
  /\ UNCHANGED <<lists, sigchld, procs, term, fifos, bounds>>

\* The collecting loop gets something from worker k.
PollAnswer ==
  /\ MainRuns("poll")
  /\ ans[k]
  /\ ans' = [ans EXCEPT ![k] = FALSE]
  /\ NextSlot("poll", "idle")
  /\ UNCHANGED <<lists, sigchld, procs, sent, req, bounds>>

\* terminate: by /exit ...
Exit ==
  /\ MainRuns("idle")
  /\ mpc' = "term"
  /\ UNCHANGED <<k, lists, sigchld, procs, sent, fifos, bounds>>

\* ... or by SIGINT or SIGTERM, which regenerate_child blocks.  A SIGINT from
\* the terminal goes to the workers as well.
Interrupt ==
  /\ handler = "none" /\ mpc \in Startup \cup Working
  /\ MayInterrupt
  /\ mpc' = "term" /\ k' = 0
  /\ term' \in {term, term \cup {p \in Proc : Alive(p)}}
  /\ UNCHANGED <<lists, sigchld, procs, usr1, fifos, bounds>>

\* Mutant: SIGTERM is not sent.
TerminateUntold ==
  /\ mpc = "term"
  /\ mpc' = IF k < readable THEN "wait" ELSE "failed"
  /\ UNCHANGED <<k, lists, sigchld, procs, sent, fifos, bounds>>

\* The body of its loop: the FIFOs are closed, SIGTERM is sent.  Too early an
\* interrupt finds no element k in readFIFO (or no list): the master aborts.
TerminateWorker ==
  /\ mpc = "term"
  /\ IF k < readable
     THEN /\ mpc' = "wait"
          /\ term' = IF Alive(pids[k+1]) THEN term \cup {pids[k+1]} ELSE term
     ELSE mpc' = "failed" /\ UNCHANGED term
  /\ UNCHANGED <<k, lists, sigchld, procs, usr1, fifos, bounds>>

\* Mutant: a wait that does not block (WNOHANG).
WaitOrNot ==
  /\ mpc = "wait"
  /\ st' \in {st} \cup {[st EXCEPT ![z] = "reaped"] : z \in Zombies}
  /\ NextSlot("term", "gone")
  /\ UNCHANGED <<lists, sigchld, slot, deaf, sent, fifos, bounds>>

\* wait(&exit_status), for any child.
WaitChild ==
  /\ mpc = "wait"
  /\ \E z \in Zombies : st' = [st EXCEPT ![z] = "reaped"]
  /\ NextSlot("term", "gone")
  /\ UNCHANGED <<lists, sigchld, slot, deaf, sent, fifos, bounds>>

-----------------------------------------------------------------------------
(* SIGCHLD.  Once terminate runs, regenerate_child returns at once.         *)

\* Mutant: also while terminate runs (no look at terminateNow).
EnterHandlerAlways ==
  /\ chld /\ handler = "none" /\ mpc \notin Over
  /\ chld' = FALSE /\ handler' = "wait"
  /\ UNCHANGED <<main, lists, procs, sent, fifos, bounds>>

EnterHandler ==
  /\ chld /\ handler = "none" /\ mpc \in Startup \cup Working
  /\ chld' = FALSE /\ handler' = "wait"
  /\ UNCHANGED <<main, lists, procs, sent, fifos, bounds>>

\* Mutant: the pid is not compared.
FoundAny(z, i) == i = 1

\* The first place that holds child z.
Found(z, i) == pids[i] = z /\ \A j \in 1..i-1 : pids[j] # z

\* Mutants: the new pid is appended, is not stored; there is no new worker.
ReplaceAtEnd(z, i, p) ==
  /\ Forks(p, i-1)
  /\ st' = [st EXCEPT ![z] = "reaped", ![p] = "load"]
  /\ deaf' = deaf \cup {p}
  /\ pids' = Append(pids, p)
ReplaceUnlisted(z, i, p) ==
  /\ Forks(p, i-1)
  /\ st' = [st EXCEPT ![z] = "reaped", ![p] = "load"]
  /\ deaf' = deaf \cup {p}
  /\ UNCHANGED pids
ReplaceNothing(z, i, p) ==
  /\ Forks(p, i-1)
  /\ st' = [st EXCEPT ![z] = "reaped", ![p] = "reaped"]
  /\ UNCHANGED <<deaf, pids>>

\* workers_pids->update(i, generate_worker(i)), in the handler.
Replace(z, i, p) ==
  /\ Forks(p, i-1)
  /\ st' = [st EXCEPT ![z] = "reaped", ![p] = "load"]
  /\ deaf' = deaf \cup {p}
  /\ pids' = [pids EXCEPT ![i] = p]

\* regenerate_child: one child is reaped and, if it is in workers_pids, has its
\* place taken by a new one.  The search for it ends in an assertion when the
\* list is not yet complete.  An open that was waiting meanwhile fails.
RegenerateChild ==
  /\ handler = "wait"
  /\ \E z \in Zombies :
       \/ \E i \in 1..Len(pids), p \in Proc :
            /\ Found(z, i)
            /\ Replace(z, i, p)
            /\ mpc' \in IF mpc = "openw" THEN {mpc, "failed"} ELSE {mpc}
       \/ /\ ~ \E i \in 1..Len(pids) : Found(z, i)
          /\ st' = [st EXCEPT ![z] = "reaped"]
          /\ mpc' = IF Len(pids) < N THEN "failed" ELSE mpc
          /\ UNCHANGED <<slot, deaf, pids>>
  /\ handler' = "none"
  /\ UNCHANGED <<k, forked, readable, chld, sent, fifos, bounds>>

-----------------------------------------------------------------------------
(* A worker.                                                                *)

WorkerGoes(p, here, there) == st[p] = here /\ st' = [st EXCEPT ![p] = there]

\* Mutant: the FIFO that is written is opened first.
OpenRequestsLast(p) ==
  /\ MasterReads(slot[p])
  /\ WorkerGoes(p, "load", "opened")
  /\ UNCHANGED <<main, lists, sigchld, slot, deaf, sent, fifos, bounds>>

\* The files have been read, open_for_read does not wait; main's open for writing
\* returns now ...
OpenRequests(p) ==
  /\ WorkerGoes(p, "load", "opened")
  /\ UNCHANGED <<main, lists, sigchld, slot, deaf, sent, fifos, bounds>>

\* ... and readfd is assigned after that.
AssignReadfd(p) ==
  /\ WorkerGoes(p, "opened", "open")
  /\ UNCHANGED <<main, lists, sigchld, slot, deaf, sent, fifos, bounds>>

\* open_for_write waits for the master, and writefd is assigned.
OpenAnswers(p) ==
  /\ MasterReads(slot[p])
  /\ WorkerGoes(p, "open", "up")
  /\ UNCHANGED <<main, lists, sigchld, slot, deaf, sent, fifos, bounds>>

\* SIGUSR1: signal_handler reads the FIFO.
TakeRequest(p) ==
  /\ p \in usr1 \ deaf
  /\ st[p] = "up"
  /\ usr1' = usr1 \ {p}
  /\ st' = [st EXCEPT ![p] = IF req[slot[p]] THEN "serve" ELSE "up"]
  /\ req' = [req EXCEPT ![slot[p]] = FALSE]
  /\ UNCHANGED <<main, lists, sigchld, slot, deaf, term, ans, bounds>>

\* SIGUSR1 before readfd is assigned: signal_handler, with all signals blocked,
\* reads what the user types next.
TakeFromStdin(p) ==
  /\ p \in usr1 \ deaf
  /\ WorkerGoes(p, "opened", "stdin")
  /\ usr1' = usr1 \ {p}
  /\ UNCHANGED <<main, lists, sigchld, slot, deaf, term, fifos, bounds>>

ReadStdin(p) ==
  /\ WorkerGoes(p, "stdin", "opened")
  /\ UNCHANGED <<main, lists, sigchld, slot, deaf, sent, fifos, bounds>>

\* SIGUSR1 before writefd is assigned: the answer goes to descriptor 0.
TakeRequestEarly(p) ==
  /\ p \in usr1 \ deaf
  /\ st[p] = "open"
  /\ usr1' = usr1 \ {p}
  /\ req' = [req EXCEPT ![slot[p]] = FALSE]
  /\ UNCHANGED <<main, lists, sigchld, procs, term, ans, bounds>>

\* The answer is written; if nobody reads it, SIGPIPE ends the worker.
Answer(p) ==
  /\ st[p] = "serve"
  /\ IF MasterReads(slot[p])
     THEN /\ st' = [st EXCEPT ![p] = "up"]
          /\ ans' = [ans EXCEPT ![slot[p]] = TRUE]
          /\ UNCHANGED chld
     ELSE Dies(p) /\ UNCHANGED ans
  /\ UNCHANGED <<main, lists, handler, slot, deaf, sent, req, bounds>>

\* SIGTERM or SIGINT, unless signal_handler runs.
Terminate(p) ==
  /\ p \in term \ deaf
  /\ st[p] \in {"load", "opened", "open", "up"}
  /\ Dies(p)
  /\ term' = term \ {p}
  /\ UNCHANGED <<main, lists, handler, slot, deaf, usr1, fifos, bounds>>

\* exit(1) on a file that cannot be opened or a /search without words, a failed
\* assertion, or a kill from outside.
Fail(p) ==
  /\ Alive(p)
  /\ deaths < MaxDeaths
  /\ deaths' = deaths + 1
  /\ Dies(p)
  /\ UNCHANGED <<main, lists, handler, slot, deaf, sent, fifos, stops, commands>>

\* A worker is stopped, or goes on after that: SIGCHLD too, for want of
\* SA_NOCLDSTOP, but no child has ended.  While it is stopped it takes no step.
StopOrContinue(p) ==
  /\ Alive(p) /\ mpc \notin Over
  /\ stops < MaxStops
  /\ stops' = stops + 1
  /\ chld' = TRUE
  /\ UNCHANGED <<main, lists, handler, procs, sent, fifos, deaths, commands>>

-----------------------------------------------------------------------------
MasterStep ==
  \/ ForkWorker \/ AppendPid \/ OpenForWrite \/ OpenForRead
  \/ WriteRequest \/ SignalWorker \/ PollAnswer
  \/ TerminateWorker \/ WaitChild
  \/ EnterHandler \/ RegenerateChild

WorkerStep(p) ==
  \/ OpenRequests(p) \/ AssignReadfd(p) \/ OpenAnswers(p)
  \/ TakeRequest(p) \/ TakeFromStdin(p) \/ TakeRequestEarly(p)
  \/ Answer(p) \/ Terminate(p)

Next ==
  \/ MasterStep \/ ReadCommand \/ Exit \/ Interrupt
  \/ \E p \in Proc : WorkerStep(p) \/ ReadStdin(p) \/ Fail(p) \/ StopOrContinue(p)

Spec == Init /\ [][Next]_vars

\* Every process keeps running, one that is stopped is continued; the user need
\* not type, and no worker need die.
FairSpec == Spec /\ WF_vars(MasterStep) /\ \A p \in Proc : WF_vars(WorkerStep(p))

-----------------------------------------------------------------------------
(***************************************************************************)
(* Properties.                                                             *)
(***************************************************************************)

\* A slot's FIFOs never have two readers, which would share its requests: a
\* worker is only replaced after it was reaped.
OneWorkerPerSlot ==
  \A p, q \in Proc : Alive(p) /\ Alive(q) /\ slot[p] = slot[q] => p = q

\* Every worker is within reach of a signal from the master, at its own place
\* in workers_pids, but for the one that main is about to append.
AllListed ==
  mpc \notin Over =>
    \A p \in Proc : Alive(p) \/ st[p] = "zombie" =>
      \/ p = forked
      \/ slot[p] < Len(pids) /\ pids[slot[p]+1] = p

\* While workers are neither stopped nor continued, wait in regenerate_child never
\* stops the master: with all signals blocked nothing could end it but the death
\* of one more worker.  For each time a worker is stopped or continued it may find
\* no child that has ended, but no more often than that, although terminate also
\* waits and SIGCHLD does not queue.
HandlerFindsChild ==
  handler = "wait" /\ mpc \notin Over =>
    Cardinality(Zombies) + stops >= IF chld THEN 2 ELSE 1

\* terminate leaves nothing behind, whatever died and was or was not replaced
\* before: N signals and N waits are right for any mixture of the two.
CleanExit == mpc = "gone" => \A p \in Proc : st[p] \in {"none", "reaped"}

\* kill never finds a worker that would die of SIGUSR1, because it has not yet
\* installed its handler: main gets through the opens only when each has, and has
\* opened its FIFO.  (It may not yet have the descriptor in readfd.)
HandlersAreReady == \A p \in usr1 : Hears(p) => st[p] # "load"

\* Opening the FIFOs from both sides leads to a running system (or, if a worker
\* dies meanwhile, to the end of the master): the orders in which master and
\* workers open them never wait for one another.  Two deaths may be one SIGCHLD
\* and leave a slot empty, and main in an open for ever; when a worker is stopped,
\* main may be in wait for ever.
ComesUp == <>(mpc \notin Startup \/ deaths > 1 \/ stops > 0)

\* terminate ends, whatever has died before or dies meanwhile; but it waits for
\* ever for a replacement, which does not hear SIGTERM, and until the user types
\* for a worker that reads from descriptor 0.
AtStdin == \E p \in Proc : st[p] = "stdin"
GoesDown ==
  mpc \in {"term", "wait"} /\ (\A p \in Proc : Alive(p) => Hears(p)) /\ ~AtStdin
    ~> mpc \in Over \/ AtStdin

\* The place of a worker that died is taken by one that opens its FIFOs (while
\* nobody does, a command would end the master by SIGPIPE), or the master dies;
\* unless another one dies as well, which the same SIGCHLD may announce, one is
\* stopped, or one reads from descriptor 0.
Served(i) == \E p \in Proc : slot[p] = i /\ st[p] \in {"up", "serve"}
IsRepaired ==
  mpc \in Working ~> \/ \A i \in Slot : Served(i)
                     \/ mpc \notin Working \/ deaths > 1 \/ stops > 0 \/ AtStdin

-----------------------------------------------------------------------------
\* "each process is in charge of a subset of documents": in the end there is
\* for each subset, while the master works, a process that answers for it.
EverySubsetServed ==
  \A i \in Slot :
    mpc \in Working ~> \/ mpc \notin Working
                       \/ \E p \in Proc : slot[p] = i /\ Hears(p) /\ st[p] \in {"up", "serve"}
=============================================================================
