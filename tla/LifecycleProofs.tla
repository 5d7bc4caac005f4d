--------------------------- MODULE LifecycleProofs ---------------------------
(***************************************************************************)
(* Properties of Lifecycle for every number of workers, deaths and         *)
(* commands.                                                               *)
(***************************************************************************)
EXTENDS Lifecycle, Lemmas

-----------------------------------------------------------------------------
(* The inductive invariants.                                               *)

\* The lists of the master are as long as main's place in its loops says;
\* wait of regenerate_child only stops main outside terminate.
InStep ==
  /\ mpc \in {"fork", "append"} => Len(pids) = k
  /\ mpc \in {"openw", "openr"} \cup Working => Len(pids) = N
  /\ mpc \in {"fork", "append", "openw"} => readable = 0
  /\ mpc = "openr" => readable = k
  /\ readable > 0 => Len(pids) = N
  /\ mpc = "idle" => k = 0
  /\ mpc = "append" => forked # 0
  /\ mpc \in (Startup \ {"append"}) \cup Working => forked = 0
  /\ handler = "wait" => mpc \in Startup \cup Working

\* What wait may still be told of.
Children == {p \in Proc : Alive(p) \/ st[p] = "zombie"}

\* Where a child is listed; the one to be appended is for the next place.
AtItsPlace(p) == p = forked \/ (slot[p] < Len(pids) /\ pids[slot[p]+1] = p)

Listed ==
  /\ \A p \in Children : AtItsPlace(p)
  /\ forked # 0 => slot[forked] = Len(pids) /\ st[forked] # "none"

\* Main is through the opens of slot i.
Opened(i) ==
  mpc \in {"openr"} \cup Working \/ (mpc = "openw" /\ i < k)

\* Those whose FIFOs main has opened, deaf ones apart, have opened theirs.
Ready ==
  /\ \A p \in usr1 : st[p] # "none"
  /\ \A p \in Proc : Hears(p) /\ Opened(slot[p]) => st[p] # "load"
  /\ HandlersAreReady

\* A SIGCHLD, pending or handled, stands for a zombie or a stop of its own.
One(b) == IF b THEN 1 ELSE 0

Reported ==
  mpc \in Startup \cup Working =>
    One(chld) + One(handler = "wait") <= Cardinality(Zombies) + stops

\* Terminate has at least as many waits before it as there are children.
WaitsLeft ==
  /\ mpc \in {"term", "wait"} => Cardinality(Children) <= N - k
  /\ CleanExit

-----------------------------------------------------------------------------
(* The kinds of steps.                                                     *)

LEMMA Values ==
  /\ N \in Nat /\ N > 0 /\ 0 \in Slot /\ 0 \notin Proc
  /\ Slot \subseteq Nat /\ \A i \in Slot : i < N /\ i+1 \in 1..N
  /\ MaxDeaths \in Nat /\ MaxStops \in Nat /\ MaxCommands \in Nat
BY LifecycleAssumption DEF Slot, Proc

\* A step of a worker, or its death.
WorkerMoves(p) ==
  /\ p \in Proc
  /\ UNCHANGED <<main, lists, handler, slot, deaf, stops, commands>>
  /\ st' = [st EXCEPT ![p] = st'[p]]
  /\ usr1' \subseteq usr1 /\ term' \subseteq term
  /\ req' \in [Slot -> BOOLEAN] /\ ans' \in [Slot -> BOOLEAN]
  /\ deaths' \in 0..MaxDeaths
  /\ Alive(p)
  /\ \/ st'[p] \in Living /\ (st'[p] = "load" => st[p] = "load") /\ UNCHANGED chld
     \/ st'[p] = "reaped" /\ mpc \in Over /\ UNCHANGED chld
     \/ st'[p] = "zombie" /\ mpc \notin Over /\ chld' = TRUE

LEMMA Die ==
  ASSUME TypeOK, NEW p \in Proc, Dies(p)
  PROVE  /\ st' = [st EXCEPT ![p] = st'[p]]
         /\ \/ st'[p] = "reaped" /\ mpc \in Over /\ UNCHANGED chld
            \/ st'[p] = "zombie" /\ mpc \notin Over /\ chld' = TRUE
<1>1. st \in [Proc -> Living \cup {"none", "zombie", "reaped"}]
  BY DEF TypeOK
<1>2. CASE mpc \in Over
  BY <1>1, <1>2 DEF Dies
<1>3. CASE mpc \notin Over
  BY <1>1, <1>3 DEF Dies
<1>4. QED
  BY <1>2, <1>3

LEMMA Worker ==
  ASSUME TypeOK, NEW p \in Proc, WorkerStep(p) \/ ReadStdin(p) \/ Fail(p)
  PROVE  WorkerMoves(p)
<1>1. /\ st \in [Proc -> Living \cup {"none", "zombie", "reaped"}]
      /\ slot[p] \in Slot
      /\ req \in [Slot -> BOOLEAN] /\ ans \in [Slot -> BOOLEAN]
      /\ deaths \in 0..MaxDeaths /\ MaxDeaths \in Nat
  BY LifecycleAssumption DEF TypeOK
<1>2. CASE OpenRequests(p)
  <2>1. st[p] = "load" /\ st'[p] = "opened" /\ st' = [st EXCEPT ![p] = st'[p]]
    BY <1>1, <1>2 DEF OpenRequests, WorkerGoes
  <2>2. Alive(p) /\ st'[p] \in Living
    BY <2>1 DEF Alive, Living
  <2>3. QED
    BY <1>1, <1>2, <2>1, <2>2 DEF OpenRequests, WorkerMoves, sigchld, sent,
       fifos, bounds
<1>3. CASE OpenAnswers(p)
  <2>1. st[p] = "open" /\ st'[p] = "up" /\ st' = [st EXCEPT ![p] = st'[p]]
    BY <1>1, <1>3 DEF OpenAnswers, WorkerGoes
  <2>2. Alive(p) /\ st'[p] \in Living
    BY <2>1 DEF Alive, Living
  <2>3. QED
    BY <1>1, <1>3, <2>1, <2>2 DEF OpenAnswers, WorkerMoves, sigchld, sent,
       fifos, bounds
<1>4. CASE TakeRequest(p)
  <2>1. st'[p] \in {"serve", "up"}
    BY <1>1, <1>4 DEF TakeRequest
  <2>2. req' \in [Slot -> BOOLEAN] /\ usr1' \subseteq usr1
    BY <1>1, <1>4 DEF TakeRequest
  <2>3. st' = [st EXCEPT ![p] = st'[p]]
    BY <1>1, <1>4 DEF TakeRequest
  <2>4. QED
    BY <1>1, <1>4, <2>1, <2>2, <2>3 DEF TakeRequest, WorkerMoves, Alive, Living,
       sigchld, bounds
<1>5. CASE TakeRequestEarly(p)
  <2>1. req' \in [Slot -> BOOLEAN] /\ usr1' \subseteq usr1
    BY <1>1, <1>5 DEF TakeRequestEarly
  <2>2. st' = [st EXCEPT ![p] = st'[p]]
    BY <1>1, <1>5 DEF TakeRequestEarly, procs
  <2>3. QED
    BY <1>1, <1>5, <2>1, <2>2 DEF TakeRequestEarly, WorkerMoves, Alive, Living,
       sigchld, bounds, procs
<1>6. CASE Answer(p)
  <2>1. CASE MasterReads(slot[p])
    BY <1>1, <1>6, <2>1 DEF Answer, WorkerMoves, Alive, Living, sent, bounds
  <2>2. CASE ~MasterReads(slot[p])
    BY <1>1, <1>6, <2>2, Die DEF Answer, WorkerMoves, Alive, Living, sent, bounds
  <2>3. QED
    BY <2>1, <2>2
<1>7. CASE Terminate(p)
  BY <1>1, <1>7, Die DEF Terminate, WorkerMoves, Alive, Living, fifos, bounds
<1>8. CASE Fail(p)
  <2>1. deaths' \in 0..MaxDeaths
    BY <1>1, <1>8 DEF Fail
  <2>2. QED
    BY <1>1, <1>8, <2>1, Die DEF Fail, WorkerMoves, sent, fifos
<1>9. CASE AssignReadfd(p) \/ TakeFromStdin(p) \/ ReadStdin(p)
  <2>1. /\ st[p] \in {"opened", "stdin"} /\ st'[p] \in {"opened", "open", "stdin"}
        /\ st' = [st EXCEPT ![p] = st'[p]]
    BY <1>1, <1>9 DEF AssignReadfd, TakeFromStdin, ReadStdin, WorkerGoes
  <2>2. Alive(p) /\ st'[p] \in Living /\ st'[p] # "load"
    BY <2>1 DEF Alive, Living
  <2>3. usr1' \subseteq usr1 /\ UNCHANGED <<term, fifos, chld, handler, bounds>>
    BY <1>9 DEF AssignReadfd, TakeFromStdin, ReadStdin, sent, sigchld
  <2>4. QED
    BY <1>1, <1>9, <2>1, <2>2, <2>3 DEF AssignReadfd, TakeFromStdin, ReadStdin,
       WorkerMoves, fifos, bounds
<1>10. QED
  BY <1>2, <1>3, <1>4, <1>5, <1>6, <1>7, <1>8, <1>9 DEF WorkerStep

\* A step of main, outside wait, that forks nothing.
MainMoves ==
  \/ OpenForWrite \/ OpenForRead \/ WriteRequest \/ SignalWorker \/ PollAnswer
  \/ TerminateWorker \/ ReadCommand \/ Exit \/ Interrupt

LEMMA MainKeeps == MainMoves => UNCHANGED <<forked, pids, sigchld, procs>>
BY DEF MainMoves, OpenForWrite, OpenForRead, WriteRequest, SignalWorker,
   PollAnswer, TerminateWorker, ReadCommand, Exit, Interrupt, lists

\* A worker is stopped or continued.
Stops == \E p \in Proc : StopOrContinue(p)

LEMMA StopsKeep ==
  ASSUME TypeOK, Stops
  PROVE  /\ UNCHANGED <<main, mpc, k, lists, forked, pids, handler, procs, slot, st, deaf,
                        sent, usr1, fifos, deaths, commands>>
         /\ chld' = TRUE /\ stops' = stops + 1 /\ stops \in Nat /\ stops' \in 0..MaxStops
<1>1. PICK p \in Proc : StopOrContinue(p)
  BY DEF Stops
<1>2. stops' \in 0..MaxStops /\ stops \in Nat
  BY <1>1, LifecycleAssumption DEF StopOrContinue, TypeOK
<1>3. QED
  BY <1>1, <1>2 DEF StopOrContinue, main, lists, procs, sent

LEMMA Steps ==
  ASSUME TypeOK, [Next]_vars
  PROVE  \/ MainMoves \/ ForkWorker \/ AppendPid \/ WaitChild
         \/ EnterHandler \/ RegenerateChild
         \/ \E p \in Proc : WorkerMoves(p)
         \/ Stops
         \/ UNCHANGED vars
BY Worker DEF Next, MasterStep, MainMoves, Stops

-----------------------------------------------------------------------------
(* Types, and how far main is.                                             *)

LEMMA NextPlace ==
  ASSUME TypeOK, NEW again, NEW after, NextSlot(again, after)
  PROVE  /\ k' \in Slot
         /\ \/ k < N-1 /\ k' = k+1 /\ mpc' = again
            \/ k = N-1 /\ k' = 0 /\ mpc' = after
BY LifecycleAssumption DEF NextSlot, TypeOK, Slot

\* The facts about main, which handlers and workers leave alone.
LEMMA TypeStep ==
  ASSUME TypeOK, InStep, [Next]_vars
  PROVE  TypeOK' /\ InStep'
<1> USE Values
<1> USE DEF TypeOK, InStep, Startup, Working, Over
<1>1. CASE MainMoves
  <2> USE DEF main, lists, sigchld, procs, sent, fifos, bounds
  <2>1. CASE OpenForWrite
    <3>1. NextSlot("openw", "openr") /\ mpc = "openw" /\ handler = "none"
      BY <2>1 DEF OpenForWrite, MainRuns
    <3>2. k' \in Slot /\ mpc' \in {"openw", "openr"} /\ (mpc' = "openr" => k' = 0)
      BY <3>1, NextPlace
    <3>3. QED
      BY <2>1, <3>1, <3>2 DEF OpenForWrite
  <2>2. CASE OpenForRead
    <3>1. /\ NextSlot("openr", "idle") /\ mpc = "openr" /\ handler = "none"
          /\ readable' = k+1 /\ k < N
      BY <2>2 DEF OpenForRead, MainRuns
    <3>2. /\ k' \in Slot /\ mpc' \in {"openr", "idle"}
          /\ mpc' = "openr" => k' = k+1
          /\ mpc' = "idle" => k' = 0
      BY <3>1, NextPlace
    <3>3. readable' \in 0..N
      BY <3>1
    <3>4. QED
      BY <2>2, <3>1, <3>2, <3>3 DEF OpenForRead
  <2>3. CASE WriteRequest
    <3>1. req' \in [Slot -> BOOLEAN]
      BY <2>3 DEF WriteRequest, HasReader
    <3>2. QED
      BY <2>3, <3>1 DEF WriteRequest, MainRuns
  <2>4. CASE SignalWorker
    <3>1. Len(pids) = N /\ pids[k+1] \in Proc
      BY <2>4, ElementOfSeq DEF SignalWorker, MainRuns
    <3>2. usr1' \subseteq Proc
      BY <2>4, <3>1 DEF SignalWorker
    <3>3. QED
      BY <2>4, <3>2, NextPlace DEF SignalWorker, MainRuns
  <2>5. CASE PollAnswer
    <3>1. ans' \in [Slot -> BOOLEAN]
      BY <2>5 DEF PollAnswer
    <3>2. QED
      BY <2>5, <3>1, NextPlace DEF PollAnswer, MainRuns
  <2>6. CASE TerminateWorker
    <3>1. k < readable => pids[k+1] \in Proc
      BY <2>6, ElementOfSeq
    <3>2. term' \subseteq Proc
      BY <2>6, <3>1 DEF TerminateWorker
    <3>3. QED
      BY <2>6, <3>2 DEF TerminateWorker, MainRuns
  <2>7. CASE ReadCommand
    <3>1. commands' \in 0..MaxCommands
      BY <2>7 DEF ReadCommand
    <3>2. QED
      BY <2>7, <3>1 DEF ReadCommand, MainRuns
  <2>8. CASE Exit
    BY <2>8 DEF Exit, MainRuns
  <2>9. CASE Interrupt
    <3>1. term' \subseteq Proc
      BY <2>9 DEF Interrupt
    <3>2. QED
      BY <2>9, <3>1 DEF Interrupt
  <2>10. QED
    BY <1>1, <2>1, <2>2, <2>3, <2>4, <2>5, <2>6, <2>7, <2>8, <2>9 DEF MainMoves
<1>2. CASE ForkWorker
  <2>1. PICK p \in Proc : /\ Forks(p, k) /\ forked' = p
                          /\ st' = [st EXCEPT ![p] = "load"]
    BY <1>2 DEF ForkWorker
  <2>2. slot' \in [Proc -> Slot]
    BY <2>1 DEF Forks
  <2>3. st' \in [Proc -> Living \cup {"none", "zombie", "reaped"}]
    BY <2>1 DEF Living
  <2>4. QED
    BY <1>2, <2>1, <2>2, <2>3 DEF ForkWorker, MainRuns, sigchld, sent, fifos,
       bounds
<1>3. CASE AppendPid
  <2>1. forked \in Proc /\ Len(pids) = k /\ k < N
    BY <1>3 DEF AppendPid, MainRuns
  <2>2. pids' \in Seq(Proc) /\ Len(pids') = k+1
    BY <1>3, <2>1, AppendProperties DEF AppendPid
  <2>3. NextSlot("fork", "openw")
    BY <1>3 DEF AppendPid
  <2>4. QED
    BY <1>3, <2>1, <2>2, <2>3, NextPlace DEF AppendPid, MainRuns, sigchld, procs,
       sent, fifos, bounds
<1>4. CASE WaitChild
  <2>1. st' \in [Proc -> Living \cup {"none", "zombie", "reaped"}]
    BY <1>4 DEF WaitChild
  <2>2. NextSlot("term", "gone")
    BY <1>4 DEF WaitChild
  <2>3. QED
    BY <1>4, <2>1, <2>2, NextPlace DEF WaitChild, lists, sigchld, sent, fifos,
       bounds
<1>5. CASE EnterHandler
  BY <1>5 DEF EnterHandler, main, lists, procs, sent, fifos, bounds
<1>6. CASE RegenerateChild
  <2> USE DEF sent, fifos, bounds
  <2>1. PICK z \in Zombies :
          \/ \E i \in 1..Len(pids), p \in Proc :
               /\ Replace(z, i, p)
               /\ mpc' \in IF mpc = "openw" THEN {mpc, "failed"} ELSE {mpc}
          \/ /\ st' = [st EXCEPT ![z] = "reaped"]
             /\ mpc' = IF Len(pids) < N THEN "failed" ELSE mpc
             /\ UNCHANGED <<slot, deaf, pids>>
    BY <1>6 DEF RegenerateChild
  <2>2. /\ handler' = "none" /\ UNCHANGED <<k, forked, readable, chld, sent>>
        /\ UNCHANGED <<fifos, bounds>> /\ mpc' \in {mpc, "failed"}
    BY <1>6, <2>1 DEF RegenerateChild
  <2>3. CASE \E i \in 1..Len(pids), p \in Proc : Replace(z, i, p)
    <3>1. PICK i \in 1..Len(pids), p \in Proc : Replace(z, i, p)
      BY <2>3
    <3>2. i-1 \in Slot /\ Len(pids) \in Nat
      BY DEF Slot
    <3>3. slot' \in [Proc -> Slot]
      BY <3>1, <3>2 DEF Replace, Forks
    <3>4. st' \in [Proc -> Living \cup {"none", "zombie", "reaped"}]
      BY <3>1 DEF Replace, Living
    <3>5. pids' \in Seq(Proc) /\ Len(pids') = Len(pids)
      BY <3>1, ExceptSeq DEF Replace
    <3>6. deaf' \subseteq Proc
      BY <3>1 DEF Replace
    <3>7. QED
      BY <2>2, <3>3, <3>4, <3>5, <3>6
  <2>4. CASE st' = [st EXCEPT ![z] = "reaped"] /\ UNCHANGED <<slot, deaf, pids>>
    <3>1. st' \in [Proc -> Living \cup {"none", "zombie", "reaped"}]
      BY <2>4
    <3>2. QED
      BY <2>2, <2>4, <3>1
  <2>5. QED
    BY <2>1, <2>3, <2>4
<1>7. ASSUME NEW p \in Proc, WorkerMoves(p) PROVE TypeOK' /\ InStep'
  <2>1. st' \in [Proc -> Living \cup {"none", "zombie", "reaped"}]
    BY <1>7 DEF WorkerMoves
  <2>2. chld' \in BOOLEAN
    BY <1>7 DEF WorkerMoves
  <2>3. QED
    BY <1>7, <2>1, <2>2 DEF WorkerMoves, main, lists
<1>8. CASE UNCHANGED vars
  BY <1>8 DEF vars, main, lists, sigchld, procs, sent, fifos, bounds
<1>9. CASE Stops
  BY <1>9, StopsKeep DEF main, lists, procs, sent, fifos
<1>10. QED
  BY <1>1, <1>2, <1>3, <1>4, <1>5, <1>6, <1>7, <1>8, <1>9, Steps

LEMMA TypeInit == Init => TypeOK /\ InStep
<1> SUFFICES ASSUME Init PROVE TypeOK /\ InStep
  OBVIOUS
<1>1. Len(pids) = 0 /\ pids \in Seq(Proc)
  BY EmptySeq DEF Init
<1>2. QED
  BY <1>1, Values DEF Init, TypeOK, InStep, Startup, Working, Over

\* Every variable has the values the code can give it: the master asks for no
\* element of workers_pids that is not there.
THEOREM TypeCorrect == Spec => []TypeOK
<1>1. Init => TypeOK /\ InStep
  BY TypeInit
<1>2. TypeOK /\ InStep /\ [Next]_vars => TypeOK' /\ InStep'
  BY TypeStep
<1>3. QED
  BY <1>1, <1>2, PTL DEF Spec

-----------------------------------------------------------------------------
(* Who is listed where.                                                    *)

LEMMA FinalMain == TypeOK => (mpc \in Over => mpc \notin Startup \cup Working)
BY DEF TypeOK, Startup, Working, Over

\* The end of a child is not the beginning of one.
LEMMA WorkerChildren ==
  ASSUME TypeOK, NEW p \in Proc, WorkerMoves(p)
  PROVE  /\ Children' \subseteq Children
         /\ mpc \notin Over => Children' = Children
         /\ \A q \in Proc : st[q] = "none" <=> st'[q] = "none"
         /\ \A q \in Proc : Alive(q)' => Alive(q)
<1>1. \A q \in Proc : q # p => st'[q] = st[q]
  BY DEF WorkerMoves, TypeOK
<1>2. Alive(p) /\ st[p] # "none" /\ st'[p] # "none"
  BY DEF WorkerMoves, Alive, Living
<1>3. mpc \notin Over => Alive(p)' \/ st'[p] = "zombie"
  BY DEF WorkerMoves, Alive
<1>4. QED
  BY <1>1, <1>2, <1>3 DEF Children, Alive

LEMMA ListedStep ==
  ASSUME TypeOK, InStep, Listed, [Next]_vars
  PROVE  Listed'
<1> USE Values
<1>t. /\ slot \in [Proc -> Slot] /\ pids \in Seq(Proc) /\ Len(pids) \in Nat
      /\ st \in [Proc -> Living \cup {"none", "zombie", "reaped"}]
      /\ forked \in Proc \cup {0}
  BY DEF TypeOK
<1>1. CASE UNCHANGED <<forked, pids, slot, st>>
  BY <1>1 DEF Listed, Children, AtItsPlace, Alive
<1>2. CASE ForkWorker
  <2>1. PICK p \in Proc : Forks(p, k) /\ forked' = p /\ st' = [st EXCEPT ![p] = "load"]
    BY <1>2 DEF ForkWorker
  <2>2. forked = 0 /\ Len(pids) = k /\ UNCHANGED pids
    BY <1>2 DEF ForkWorker, InStep, MainRuns, Startup
  <2>3. slot'[forked'] = Len(pids') /\ st'[forked'] # "none"
    BY <1>t, <2>1, <2>2 DEF Forks
  <2>4. ASSUME NEW q \in Children', q # p PROVE AtItsPlace(q)'
    <3>1. q \in Proc /\ st'[q] = st[q] /\ slot'[q] = slot[q]
      BY <1>t, <2>1, <2>4 DEF Children, Forks
    <3>2. q \in Children
      BY <2>4, <3>1 DEF Children, Alive
    <3>3. q # forked
      BY <2>2, <3>1
    <3>4. QED
      BY <2>2, <3>1, <3>2, <3>3 DEF Listed, AtItsPlace
  <2>5. QED
    BY <2>1, <2>3, <2>4 DEF Listed, AtItsPlace
<1>3. CASE AppendPid
  <2>1. /\ forked \in Proc /\ forked' = 0 /\ UNCHANGED <<slot, st>>
        /\ slot[forked] = Len(pids)
    BY <1>t, <1>3 DEF AppendPid, MainRuns, InStep, Listed, procs
  <2>2. /\ Len(pids') = Len(pids)+1 /\ pids'[Len(pids)+1] = forked
        /\ \A i \in 1..Len(pids) : pids'[i] = pids[i]
    BY <1>t, <1>3, <2>1, AppendProperties DEF AppendPid
  <2>3. ASSUME NEW q \in Children' PROVE AtItsPlace(q)'
    <3>1. q \in Children /\ q \in Proc /\ slot[q] \in Nat
      BY <1>t, <2>1, <2>3 DEF Children, Alive
    <3>2. CASE q = forked
      BY <1>t, <2>1, <2>2, <3>2 DEF AtItsPlace
    <3>3. CASE slot[q] < Len(pids) /\ pids[slot[q]+1] = q
      <4>1. slot[q]+1 \in 1..Len(pids)
        BY <1>t, <3>1, <3>3
      <4>2. QED
        BY <1>t, <2>1, <2>2, <3>1, <3>3, <4>1 DEF AtItsPlace
    <3>4. QED
      BY <3>1, <3>2, <3>3 DEF Listed, AtItsPlace
  <2>4. QED
    BY <2>1, <2>3 DEF Listed
<1>4. CASE WaitChild
  <2>1. PICK z \in Zombies : st' = [st EXCEPT ![z] = "reaped"]
    BY <1>4 DEF WaitChild
  <2>2. UNCHANGED <<forked, pids, slot>>
    BY <1>4 DEF WaitChild, lists
  <2>3. \A q \in Proc : st'[q] = st[q] \/ st'[q] = "reaped"
    BY <1>t, <2>1
  <2>4. Children' \subseteq Children
    BY <2>3 DEF Children, Alive, Living
  <2>5. forked # 0 => st'[forked] # "none"
    BY <1>t, <2>3 DEF Listed
  <2>6. QED
    BY <2>2, <2>4, <2>5 DEF Listed, AtItsPlace
<1>5. CASE RegenerateChild
  <2>1. PICK z \in Zombies :
          \/ \E i \in 1..Len(pids), p \in Proc : Found(z, i) /\ Replace(z, i, p)
          \/ st' = [st EXCEPT ![z] = "reaped"] /\ UNCHANGED <<slot, pids>>
    BY <1>5 DEF RegenerateChild
  <2>2. UNCHANGED forked /\ st[z] = "zombie" /\ z \in Proc
    BY <1>5 DEF RegenerateChild, Zombies
  <2>3. CASE \E i \in 1..Len(pids), p \in Proc : Found(z, i) /\ Replace(z, i, p)
    <3>1. PICK i \in 1..Len(pids), p \in Proc : Found(z, i) /\ Replace(z, i, p)
      BY <2>3
    <3>2. /\ st[p] = "none" /\ p # z /\ p # forked
          /\ slot' = [slot EXCEPT ![p] = i-1]
          /\ st' = [st EXCEPT ![z] = "reaped", ![p] = "load"]
          /\ pids[i] = z
      BY <2>2, <3>1 DEF Replace, Forks, Found, Listed
    <3>3. /\ pids' = [pids EXCEPT ![i] = p]
          /\ Len(pids') = Len(pids) /\ pids'[i] = p
          /\ \A j \in 1..Len(pids) : j # i => pids'[j] = pids[j]
      BY <1>t, <3>1, ExceptSeq DEF Replace
    <3>4. ASSUME NEW q \in Children' PROVE AtItsPlace(q)'
      <4>1. CASE q = p
        <5>1. slot'[q] = i-1
          BY <1>t, <3>2, <4>1
        <5>2. QED
          BY <1>t, <3>3, <4>1, <5>1 DEF AtItsPlace
      <4>2. CASE q # p
        <5>1. q \in Proc /\ q # z
          BY <1>t, <2>2, <3>2, <3>4 DEF Children, Alive, Living
        <5>2. slot'[q] = slot[q] /\ st'[q] = st[q]
          BY <1>t, <3>2, <4>2, <5>1
        <5>3. q \in Children /\ slot[q] \in Nat
          BY <1>t, <3>4, <5>1, <5>2 DEF Children, Alive
        <5>4. CASE q = forked
          BY <2>2, <5>4 DEF AtItsPlace
        <5>5. CASE slot[q] < Len(pids) /\ pids[slot[q]+1] = q
          <6>1. slot[q]+1 \in 1..Len(pids) /\ slot[q]+1 # i
            BY <1>t, <3>2, <5>1, <5>3, <5>5
          <6>2. QED
            BY <3>3, <5>2, <5>5, <6>1 DEF AtItsPlace
        <5>6. QED
          BY <5>3, <5>4, <5>5 DEF Listed, AtItsPlace
      <4>3. QED
        BY <4>1, <4>2
    <3>5. forked # 0 => slot'[forked] = Len(pids') /\ st'[forked] # "none"
      BY <1>t, <2>2, <3>2, <3>3 DEF Listed
    <3>6. QED
      BY <2>2, <3>4, <3>5 DEF Listed
  <2>4. CASE st' = [st EXCEPT ![z] = "reaped"] /\ UNCHANGED <<slot, pids>>
    <3>1. \A q \in Proc : st'[q] = st[q] \/ st'[q] = "reaped"
      BY <1>t, <2>4
    <3>2. Children' \subseteq Children
      BY <3>1 DEF Children, Alive, Living
    <3>3. forked # 0 => st'[forked] # "none"
      BY <1>t, <3>1 DEF Listed
    <3>4. QED
      BY <2>2, <2>4, <3>2, <3>3 DEF Listed, AtItsPlace
  <2>5. QED
    BY <2>1, <2>3, <2>4
<1>6. ASSUME NEW p \in Proc, WorkerMoves(p) PROVE Listed'
  <2>1. UNCHANGED <<forked, pids, slot>>
    BY <1>6 DEF WorkerMoves, lists
  <2>2. Children' \subseteq Children /\ \A q \in Proc : st[q] = "none" <=> st'[q] = "none"
    BY <1>6, WorkerChildren
  <2>3. QED
    BY <1>t, <2>1, <2>2 DEF Listed, AtItsPlace
<1>7. QED
  <2>1. EnterHandler \/ UNCHANGED vars => UNCHANGED <<forked, pids, slot, st>>
    BY DEF EnterHandler, vars, lists, procs
  <2>2. MainMoves => UNCHANGED <<forked, pids, slot, st>>
    BY MainKeeps DEF procs
  <2>3. Stops => UNCHANGED <<forked, pids, slot, st>>
    BY StopsKeep
  <2>4. QED
    BY <1>1, <1>2, <1>3, <1>4, <1>5, <1>6, <2>1, <2>2, <2>3, Steps

\* Who is at the same place is the same.
LEMMA SlotsDiffer ==
  ASSUME TypeOK, Listed, NEW p \in Children, NEW q \in Children, slot[p] = slot[q]
  PROVE  p = q
<1>1. /\ Len(pids) \in Nat /\ forked \in Proc \cup {0}
      /\ p \in Proc /\ q \in Proc
      /\ slot[p] \in Nat /\ slot[q] \in Nat
  <2>1. p \in Proc /\ q \in Proc
    BY DEF Children
  <2>2. slot[p] \in Slot /\ slot[q] \in Slot
    BY <2>1 DEF TypeOK
  <2>3. QED
    BY <2>1, <2>2, Values DEF TypeOK
<1>2. AtItsPlace(p) /\ AtItsPlace(q)
  BY DEF Listed
<1>3. QED
  BY <1>1, <1>2, Values DEF Listed, AtItsPlace

LEMMA Placed == Spec => [](TypeOK /\ InStep /\ Listed)
<1>1. Init => TypeOK /\ InStep /\ Listed
  <2>1. ASSUME Init PROVE Listed
    <3>1. forked = 0 /\ \A p \in Proc : st[p] = "none"
      BY <2>1 DEF Init
    <3>2. QED
      BY <3>1 DEF Listed, Children, Alive, Living
  <2>2. QED
    BY <2>1, TypeInit
<1>2. TypeOK /\ InStep /\ Listed /\ [Next]_vars => (TypeOK /\ InStep /\ Listed)'
  BY TypeStep, ListedStep
<1>3. QED
  BY <1>1, <1>2, PTL DEF Spec

\* A worker that dies keeps its place until it is replaced, and the replacement
\* gets that place: a slot never has two living workers.
THEOREM SlotsAreNotShared == Spec => []OneWorkerPerSlot
<1>1. TypeOK /\ Listed => OneWorkerPerSlot
  BY SlotsDiffer DEF OneWorkerPerSlot, Children
<1>2. QED
  BY <1>1, Placed, PTL

\* The master can signal every worker it has not yet waited for, at the place
\* of workers_pids that the worker was forked for.
THEOREM EveryChildIsListed == Spec => []AllListed
<1>1. Listed => AllListed
  BY DEF Listed, AllListed, AtItsPlace, Children
<1>2. QED
  BY <1>1, Placed, PTL

-----------------------------------------------------------------------------
(* Who is ready for SIGUSR1.                                               *)

LEMMA ReadyStep ==
  ASSUME TypeOK, InStep, Listed, Ready, [Next]_vars
  PROVE  Ready'
<1> USE Values
<1>t. /\ slot \in [Proc -> Slot] /\ pids \in Seq(Proc) /\ Len(pids) \in Nat
      /\ st \in [Proc -> Living \cup {"none", "zombie", "reaped"}]
      /\ k \in Slot /\ usr1 \subseteq Proc
  BY DEF TypeOK
<1>1. CASE MainMoves
  <2>1. UNCHANGED <<pids, slot, st, deaf>>
    BY <1>1, MainKeeps DEF procs
  <2>2. CASE OpenForWrite
    <3>1. /\ HasReader(k) /\ mpc = "openw" /\ NextSlot("openw", "openr")
          /\ UNCHANGED usr1
      BY <2>2 DEF OpenForWrite, MainRuns, sent
    <3>2. PICK q \in Proc : slot[q] = k /\ Alive(q) /\ st[q] # "load"
      BY <3>1 DEF HasReader
    <3>3. ASSUME NEW p \in Proc, Hears(p), slot[p] <= k PROVE st[p] # "load"
      <4>1. p \in Children /\ q \in Children
        BY <3>2, <3>3 DEF Hears, Children, Alive, Living
      <4>2. CASE slot[p] = k
        BY <3>2, <4>1, <4>2, SlotsDiffer
      <4>3. CASE slot[p] < k
        BY <3>1, <3>3, <4>3 DEF Ready, Opened
      <4>4. slot[p] \in Nat /\ k \in Nat
        BY <1>t
      <4>5. QED
        BY <3>3, <4>2, <4>3, <4>4
    <3>4. ASSUME NEW p \in Proc, Opened(slot[p])' PROVE slot[p] <= k
      <4>1. slot[p] \in Slot
        BY <1>t
      <4>2. \/ k' = k+1 /\ mpc' = "openw"
            \/ k = N-1 /\ k' = 0 /\ mpc' = "openr"
        BY <3>1, NextPlace
      <4>3. slot'[p] = slot[p] /\ slot[p] \in Nat /\ k \in Nat /\ slot[p] < N
        BY <1>t, <2>1, <4>1
      <4>4. CASE k' = k+1 /\ mpc' = "openw"
        BY <3>4, <4>3, <4>4 DEF Opened, Working
      <4>5. CASE k = N-1
        BY <4>3, <4>5
      <4>6. QED
        BY <4>2, <4>4, <4>5
    <3>5. QED
      BY <2>1, <3>1, <3>3, <3>4 DEF Ready, Hears, Alive, HandlersAreReady
  <2>3. CASE SignalWorker
    <3>1. /\ mpc \in Working /\ mpc' \in Working /\ Len(pids) = N
          /\ usr1' = IF Alive(pids[k+1]) THEN usr1 \cup {pids[k+1]} ELSE usr1
      BY <2>3, NextPlace DEF SignalWorker, MainRuns, InStep, Working
    <3>2. pids[k+1] \in Proc
      BY <1>t, <3>1, ElementOfSeq
    <3>3. \A p \in Proc : Hears(p) => st[p] # "load"
      BY <3>1 DEF Ready, Opened
    <3>4. usr1' \subseteq Proc /\ \A p \in usr1' : st[p] # "none"
      BY <1>t, <3>1, <3>2 DEF Ready, Alive, Living
    <3>5. QED
      BY <2>1, <3>3, <3>4 DEF Ready, Hears, Alive, HandlersAreReady
  <2>4. ASSUME ~OpenForWrite, ~SignalWorker PROVE Ready'
    <3>1. UNCHANGED usr1
      BY <1>1, <2>4 DEF MainMoves, OpenForRead, WriteRequest, PollAnswer,
         TerminateWorker, ReadCommand, Exit, Interrupt, sent
    <3>2. mpc' \in {"openr"} \cup Working => mpc \in {"openr"} \cup Working
      BY <1>1, <2>4, NextPlace DEF MainMoves, OpenForRead, WriteRequest, PollAnswer,
         TerminateWorker, ReadCommand, Exit, Interrupt, MainRuns, Working
    <3>3. mpc' # "openw"
      BY <1>1, <2>4, NextPlace DEF MainMoves, OpenForRead, WriteRequest, PollAnswer,
         TerminateWorker, ReadCommand, Exit, Interrupt, MainRuns, Working
    <3>4. QED
      BY <2>1, <3>1, <3>2, <3>3 DEF Ready, Hears, Alive, HandlersAreReady, Opened
  <2>5. QED
    BY <2>2, <2>3, <2>4
<1>2. CASE ForkWorker
  <2>1. PICK p \in Proc : Forks(p, k) /\ st' = [st EXCEPT ![p] = "load"]
    BY <1>2 DEF ForkWorker
  <2>2. mpc' = "append" /\ UNCHANGED <<usr1, deaf>>
    BY <1>2 DEF ForkWorker, sent
  <2>3. \A q \in usr1 : q # p /\ st'[q] = st[q]
    BY <1>t, <2>1 DEF Forks, Ready
  <2>4. \A i : ~Opened(i)'
    BY <2>2 DEF Opened, Working
  <2>5. QED
    BY <2>2, <2>3, <2>4 DEF Ready, HandlersAreReady, Hears, Alive
<1>3. CASE AppendPid
  <2>1. /\ mpc' \in {"fork", "openw"} /\ (mpc' = "openw" => k' = 0)
        /\ UNCHANGED <<slot, st, deaf, usr1>>
    BY <1>3, NextPlace DEF AppendPid, procs, sent
  <2>2. \A i \in Nat : ~Opened(i)'
    BY <2>1 DEF Opened, Working
  <2>3. QED
    <3>1. \A p \in Proc : slot'[p] \in Nat
      BY <1>t, <2>1
    <3>2. QED
      BY <2>1, <2>2, <3>1 DEF Ready, HandlersAreReady, Hears, Alive
<1>4. CASE WaitChild
  <2>1. PICK z \in Zombies : st' = [st EXCEPT ![z] = "reaped"]
    BY <1>4 DEF WaitChild
  <2>2. mpc' \in {"term", "gone"} /\ UNCHANGED <<slot, deaf, usr1>>
    BY <1>4, NextPlace DEF WaitChild, sent
  <2>3. \A q \in Proc : st'[q] = st[q] \/ st'[q] = "reaped"
    BY <1>t, <2>1
  <2>4. \A i : ~Opened(i)'
    BY <2>2 DEF Opened, Working
  <2>5. QED
    BY <1>t, <2>2, <2>3, <2>4 DEF Ready, HandlersAreReady, Hears, Alive, Living
<1>5. CASE RegenerateChild
  <2>1. PICK z \in Zombies :
          \/ \E i \in 1..Len(pids), p \in Proc : Replace(z, i, p)
          \/ st' = [st EXCEPT ![z] = "reaped"] /\ UNCHANGED <<slot, deaf>>
    BY <1>5 DEF RegenerateChild
  <2>2. UNCHANGED <<k, usr1>> /\ mpc' \in {mpc, "failed"}
    BY <1>5 DEF RegenerateChild, sent
  <2>3. \A i : Opened(i)' => Opened(i)
    BY <2>2 DEF Opened, Working
  <2>4. ASSUME NEW q \in Proc, st'[q] # "reaped", q \notin deaf'
        PROVE  st'[q] = st[q] /\ slot'[q] = slot[q] /\ q \notin deaf
    <3>1. CASE \E i \in 1..Len(pids), p \in Proc : Replace(z, i, p)
      <4>1. PICK i \in 1..Len(pids), p \in Proc : Replace(z, i, p)
        BY <3>1
      <4>2. q # p /\ q \notin deaf
        BY <2>4, <4>1 DEF Replace
      <4>3. q # z
        BY <1>t, <2>4, <4>1, <4>2 DEF Replace, Zombies
      <4>4. QED
        BY <1>t, <4>1, <4>2, <4>3 DEF Replace, Forks
    <3>2. CASE st' = [st EXCEPT ![z] = "reaped"] /\ UNCHANGED <<slot, deaf>>
      BY <1>t, <2>4, <3>2
    <3>3. QED
      BY <2>1, <3>1, <3>2
  <2>5. \A q \in usr1 : st'[q] # "none"
    BY <1>t, <2>1 DEF Replace, Ready
  <2>6. QED
    BY <1>t, <2>2, <2>3, <2>4, <2>5 DEF Ready, HandlersAreReady, Hears, Alive, Living
<1>6. ASSUME NEW p \in Proc, WorkerMoves(p) PROVE Ready'
  <2>1. UNCHANGED <<mpc, k, slot, deaf>> /\ usr1' \subseteq usr1
    BY <1>6 DEF WorkerMoves, main
  <2>2. \A q \in Proc : q # p => st'[q] = st[q]
    BY <1>t, <1>6 DEF WorkerMoves
  <2>3. Alive(p) /\ (st'[p] = "load" => st[p] = "load") /\ st'[p] # "none"
    BY <1>6 DEF WorkerMoves, Living
  <2>4. QED
    BY <1>t, <2>1, <2>2, <2>3 DEF Ready, HandlersAreReady, Hears, Alive, Opened
<1>7. QED
  <2>1. ASSUME EnterHandler \/ Stops \/ UNCHANGED vars PROVE Ready'
    <3>1. UNCHANGED <<mpc, k, slot, st, deaf, usr1>>
      BY <2>1, StopsKeep DEF EnterHandler, vars, main, procs, sent
    <3>2. QED
      BY <3>1 DEF Ready, HandlersAreReady, Hears, Alive, Opened
  <2>2. QED
    BY <1>1, <1>2, <1>3, <1>4, <1>5, <1>6, <2>1, Steps

\* The opens that main waits in are what makes SIGUSR1 safe: no worker gets it
\* that has not opened the FIFO it is to read, nor installed its handler.
THEOREM SignalsFindHandlers == Spec => []HandlersAreReady
<1>1. Init => Ready
  <2>1. ASSUME Init PROVE usr1 = {} /\ \A p \in Proc : st[p] = "none"
    BY <2>1 DEF Init
  <2>2. QED
    BY <2>1 DEF Ready, HandlersAreReady, Hears, Alive, Living
<1>2. TypeOK /\ InStep /\ Listed /\ Ready /\ [Next]_vars => Ready'
  BY ReadyStep
<1>3. Ready => HandlersAreReady
  BY DEF Ready
<1>4. QED
  BY <1>1, <1>2, <1>3, Placed, PTL DEF Spec

-----------------------------------------------------------------------------
(* What the waits find.                                                    *)

LEMMA ProcFinite == \A S \in SUBSET Proc : IsFiniteSet(S) /\ Cardinality(S) \in Nat
<1>1. IsFiniteSet(Proc)
  BY Values, FS_Interval DEF Proc
<1>2. QED
  BY <1>1, FS_Subset, FS_CardinalityType

\* Zombies come and go one at a time.
LEMMA ZombieCount ==
  ASSUME NEW z
  PROVE  /\ Cardinality(Zombies) \in Nat
         /\ Cardinality(Zombies') \in Nat
         /\ Zombies' = Zombies \cup {z} /\ z \notin Zombies =>
              Cardinality(Zombies') = Cardinality(Zombies) + 1
         /\ Zombies \ {z} \subseteq Zombies' =>
              Cardinality(Zombies') >= Cardinality(Zombies) - 1
<1>1. Zombies \in SUBSET Proc /\ Zombies' \in SUBSET Proc
  BY DEF Zombies
<1>2. /\ IsFiniteSet(Zombies) /\ IsFiniteSet(Zombies')
      /\ Cardinality(Zombies) \in Nat /\ Cardinality(Zombies') \in Nat
  BY <1>1, ProcFinite
<1>3. Zombies' = Zombies \cup {z} /\ z \notin Zombies =>
        Cardinality(Zombies') = Cardinality(Zombies) + 1
  BY <1>2, FS_AddElement
<1>4. ASSUME Zombies \ {z} \subseteq Zombies'
      PROVE  Cardinality(Zombies') >= Cardinality(Zombies) - 1
  <2>1. /\ IsFiniteSet(Zombies \ {z})
        /\ Cardinality(Zombies \ {z}) \in {Cardinality(Zombies), Cardinality(Zombies) - 1}
    BY <1>2, FS_RemoveElement
  <2>2. Cardinality(Zombies \ {z}) <= Cardinality(Zombies')
    BY <1>2, <1>4, FS_Subset
  <2>3. QED
    BY <1>2, <2>1, <2>2
<1>5. QED
  BY <1>2, <1>3, <1>4

LEMMA ReportedStep ==
  ASSUME TypeOK, InStep, Reported, [Next]_vars
  PROVE  Reported'
<1> DEFINE n == Cardinality(Zombies)
<1>t. /\ st \in [Proc -> Living \cup {"none", "zombie", "reaped"}]
      /\ handler \in {"none", "wait"} /\ chld \in BOOLEAN /\ stops \in Nat
  BY Values DEF TypeOK
<1>n. n \in Nat /\ n' \in Nat
  BY ZombieCount
<1>1. CASE MainMoves \/ ForkWorker \/ AppendPid
  <2>1. UNCHANGED <<chld, handler, stops>>
    BY <1>1, MainKeeps DEF MainMoves, OpenForWrite, OpenForRead, WriteRequest,
       SignalWorker, PollAnswer, TerminateWorker, ReadCommand, Exit, Interrupt,
       ForkWorker, AppendPid, sigchld, bounds
  <2>2. mpc \in Startup \cup Working \/ mpc' \notin Startup \cup Working
    BY <1>1 DEF MainMoves, OpenForWrite, OpenForRead, WriteRequest, SignalWorker,
       PollAnswer, TerminateWorker, ReadCommand, Exit, Interrupt, MainRuns,
       ForkWorker, AppendPid, Startup, Working
  <2>3. Zombies' = Zombies
    <3>1. CASE ForkWorker
      <4>1. PICK p \in Proc : st[p] = "none" /\ st' = [st EXCEPT ![p] = "load"]
        BY <3>1 DEF ForkWorker, Forks
      <4>2. QED
        BY <1>t, <4>1 DEF Zombies
    <3>2. CASE MainMoves \/ AppendPid
      BY <3>2, MainKeeps DEF AppendPid, procs, Zombies
    <3>3. QED
      BY <1>1, <3>1, <3>2
  <2>4. QED
    BY <2>1, <2>2, <2>3 DEF Reported
<1>2. CASE WaitChild
  <2>1. mpc' \in {"term", "gone"}
    BY <1>2, NextPlace DEF WaitChild
  <2>2. QED
    BY <2>1 DEF Reported, Startup, Working
<1>3. CASE EnterHandler
  <2>1. /\ chld /\ handler = "none" /\ chld' = FALSE /\ handler' = "wait"
        /\ UNCHANGED <<mpc, st, stops>>
    BY <1>3 DEF EnterHandler, main, procs, bounds
  <2>2. QED
    BY <1>n, <1>t, <2>1 DEF Reported, Zombies, One
<1>4. CASE RegenerateChild
  <2>1. PICK z \in Zombies :
          \/ \E i \in 1..Len(pids), p \in Proc : Replace(z, i, p)
          \/ st' = [st EXCEPT ![z] = "reaped"]
    BY <1>4 DEF RegenerateChild
  <2>2. /\ handler = "wait" /\ handler' = "none" /\ UNCHANGED <<chld, stops>>
        /\ mpc \in Startup \cup Working
    BY <1>4 DEF RegenerateChild, InStep, bounds
  <2>3. Zombies \ {z} \subseteq Zombies'
    <3>1. ASSUME NEW y \in Zombies, y # z PROVE st'[y] = "zombie" /\ y \in Proc
      BY <1>t, <2>1, <3>1 DEF Replace, Forks, Zombies
    <3>2. QED
      BY <3>1 DEF Zombies
  <2>4. n' >= n - 1
    BY <2>3, ZombieCount
  <2>5. One(chld) + 1 <= n + stops /\ One(chld) \in {0, 1}
    BY <2>2 DEF Reported, One
  <2>6. One(chld') + One(handler' = "wait") <= n' + stops'
    BY <1>n, <1>t, <2>2, <2>4, <2>5 DEF One
  <2>7. QED
    BY <2>6 DEF Reported
<1>5. ASSUME NEW p \in Proc, WorkerMoves(p) PROVE Reported'
  <2>1. UNCHANGED <<mpc, handler, stops>> /\ p \notin Zombies
    BY <1>5 DEF WorkerMoves, main, Zombies, Alive, Living
  <2>2. st' = [st EXCEPT ![p] = st'[p]]
    BY <1>5 DEF WorkerMoves
  <2>3. CASE st'[p] = "zombie" /\ mpc \notin Over /\ chld' = TRUE
    <3>1. Zombies' = Zombies \cup {p}
      BY <1>t, <2>2, <2>3 DEF Zombies
    <3>2. n' = n + 1
      BY <2>1, <3>1, ZombieCount
    <3>3. /\ One(chld) \in {0, 1} /\ One(chld') = 1
          /\ One(handler = "wait") \in {0, 1} /\ One(handler' = "wait") = One(handler = "wait")
      BY <2>1, <2>3 DEF One
    <3>4. QED
      BY <1>n, <1>t, <2>1, <3>2, <3>3 DEF Reported
  <2>4. CASE st'[p] # "zombie" /\ UNCHANGED chld
    <3>1. Zombies' = Zombies
      BY <1>t, <2>1, <2>2, <2>4 DEF Zombies
    <3>2. QED
      BY <2>1, <2>4, <3>1 DEF Reported
  <2>5. QED
    BY <1>5, <2>3, <2>4 DEF WorkerMoves, Living
<1>6. CASE Stops
  <2>1. /\ UNCHANGED <<mpc, handler, st>> /\ chld' = TRUE /\ stops' = stops + 1
    BY <1>6, StopsKeep
  <2>2. Zombies' = Zombies
    BY <2>1 DEF Zombies
  <2>3. /\ One(chld) \in {0, 1} /\ One(chld') = 1
        /\ One(handler = "wait") \in {0, 1} /\ One(handler' = "wait") = One(handler = "wait")
    BY <2>1 DEF One
  <2>4. QED
    BY <1>n, <1>t, <2>1, <2>2, <2>3 DEF Reported
<1>7. CASE UNCHANGED vars
  BY <1>7 DEF vars, main, procs, sigchld, bounds, Reported, Zombies
<1>8. QED
  BY <1>1, <1>2, <1>3, <1>4, <1>5, <1>6, <1>7, Steps

\* A SIGCHLD stands for a zombie of its own, or for a stop: the wait of
\* regenerate_child returns at once but for as many times as workers were stopped
\* or continued.
THEOREM WaitInHandlerReturns == Spec => []HandlerFindsChild
<1>1. Init => Reported
  <2>1. ASSUME Init PROVE One(chld) = 0 /\ One(handler = "wait") = 0 /\ stops = 0
    BY <2>1 DEF Init, One
  <2>2. QED
    BY <2>1, ZombieCount DEF Reported
<1>2. TypeOK /\ InStep /\ Reported /\ [Next]_vars => Reported'
  BY ReportedStep
<1>3. TypeOK /\ InStep /\ Reported => HandlerFindsChild
  <2>1. ASSUME TypeOK, InStep, Reported, handler = "wait"
        PROVE  Cardinality(Zombies) + stops >= IF chld THEN 2 ELSE 1
    <3>1. mpc \in Startup \cup Working
      BY <2>1 DEF InStep
    <3>2. One(chld) + 1 <= Cardinality(Zombies) + stops
      BY <2>1, <3>1 DEF Reported, One
    <3>3. stops \in Nat /\ Cardinality(Zombies) \in Nat
      BY <2>1, ZombieCount, Values DEF TypeOK
    <3>4. QED
      BY <3>2, <3>3 DEF One
  <2>2. QED
    BY <2>1 DEF HandlerFindsChild
<1>4. QED
  BY <1>1, <1>2, <1>3, Placed, PTL DEF Spec

\* No more children than slots.
LEMMA FewChildren ==
  ASSUME TypeOK, Listed
  PROVE  Cardinality(Children) <= N
<1> USE Values
<1>1. Children \in SUBSET Proc
  BY DEF Children
<1>2. IsFiniteSet(Children) /\ Cardinality(Children) \in Nat
  BY <1>1, ProcFinite
<1>3. IsFiniteSet(Slot) /\ Cardinality(Slot) = N
  <2>1. 0 \in Int /\ N-1 \in Int /\ ~(0 > N-1)
    OBVIOUS
  <2>2. IsFiniteSet(0..N-1) /\ Cardinality(0..N-1) = N-1-0+1
    BY <2>1, FS_Interval
  <2>3. QED
    BY <2>2 DEF Slot
<1>4. SUFFICES ASSUME N < Cardinality(Children) PROVE FALSE
  BY <1>2
<1> DEFINE f == [p \in Children |-> slot[p]]
<1>5. f \in [Children -> Slot]
  BY <1>1 DEF TypeOK
<1>6. \E p, q \in Children : p # q /\ f[p] = f[q]
  <2> HIDE DEF f
  <2>1. Cardinality(Slot) < Cardinality(Children)
    BY <1>3, <1>4
  <2>2. QED
    BY <1>2, <1>3, <1>5, <2>1, FS_PigeonHole
<1>7. PICK p \in Children, q \in Children : p # q /\ slot[p] = slot[q]
  BY <1>6
<1>8. QED
  BY <1>7, SlotsDiffer

\* As many as there were, or fewer.
LEMMA FewerChildren ==
  ASSUME Children' \subseteq Children
  PROVE  /\ Cardinality(Children) \in Nat /\ Cardinality(Children') \in Nat
         /\ Cardinality(Children') <= Cardinality(Children)
<1>1. Children \in SUBSET Proc /\ Children' \in SUBSET Children
  BY DEF Children
<1>2. IsFiniteSet(Children) /\ Cardinality(Children) \in Nat
  BY <1>1, ProcFinite
<1>3. Children' \in SUBSET Proc
  BY <1>1
<1>4. QED
  BY <1>1, <1>2, <1>3, FS_Subset, ProcFinite

LEMMA WaitsStep ==
  ASSUME TypeOK, InStep, Listed, WaitsLeft, [Next]_vars
  PROVE  WaitsLeft'
<1> USE Values
<1>t. /\ st \in [Proc -> Living \cup {"none", "zombie", "reaped"}]
      /\ k \in Slot /\ k \in Nat /\ handler \in {"none", "wait"}
  BY DEF TypeOK
<1>1. CASE MainMoves
  <2>1. UNCHANGED st /\ Children' = Children
    BY <1>1, MainKeeps DEF procs, Children, Alive
  <2>2. mpc' # "gone"
    BY <1>1, NextPlace DEF MainMoves, OpenForWrite, OpenForRead, WriteRequest,
       SignalWorker, PollAnswer, TerminateWorker, ReadCommand, Exit, Interrupt
  <2>3. CASE TerminateWorker
    BY <2>1, <2>2, <2>3 DEF TerminateWorker, WaitsLeft, CleanExit
  <2>4. CASE mpc' \in {"term", "wait"} /\ ~TerminateWorker
    <3>1. k' = 0
      BY <1>1, <2>4, NextPlace DEF MainMoves, OpenForWrite, OpenForRead,
         WriteRequest, SignalWorker, PollAnswer, ReadCommand, Exit, Interrupt,
         MainRuns, InStep
    <3>2. QED
      BY <2>1, <2>2, <3>1, FewChildren DEF WaitsLeft, CleanExit
  <2>5. QED
    BY <2>2, <2>3, <2>4 DEF WaitsLeft, CleanExit
<1>2. CASE ForkWorker \/ AppendPid
  <2>1. mpc' \in {"append", "fork", "openw"}
    BY <1>2, NextPlace DEF ForkWorker, AppendPid
  <2>2. QED
    BY <2>1 DEF WaitsLeft, CleanExit
<1>3. CASE WaitChild
  <2>1. PICK z \in Zombies : st' = [st EXCEPT ![z] = "reaped"]
    BY <1>3 DEF WaitChild
  <2>2. Children' = Children \ {z} /\ z \in Children
    BY <1>t, <2>1 DEF Children, Zombies, Alive, Living
  <2>3. Cardinality(Children) \in Nat /\ Cardinality(Children) <= N - k
    BY <1>3, <2>2, FewerChildren DEF WaitsLeft, WaitChild
  <2>4. Cardinality(Children') = Cardinality(Children) - 1
    <3>1. Children \in SUBSET Proc
      BY DEF Children
    <3>2. QED
      BY <2>2, <3>1, ProcFinite, FS_RemoveElement
  <2>5. \/ k < N-1 /\ k' = k+1 /\ mpc' = "term"
        \/ k = N-1 /\ k' = 0 /\ mpc' = "gone"
    BY <1>3, NextPlace DEF WaitChild
  <2>6. CASE k' = k+1 /\ mpc' = "term"
    BY <1>t, <2>3, <2>4, <2>6 DEF WaitsLeft, CleanExit
  <2>7. CASE k = N-1 /\ mpc' = "gone"
    <3>1. Children' \in SUBSET Proc /\ Cardinality(Children') = 0
      <4>1. Children \in SUBSET Proc /\ Children' \in SUBSET Proc
        BY <2>2 DEF Children
      <4>2. Cardinality(Children') \in Nat
        BY <4>1, ProcFinite
      <4>3. QED
        BY <2>3, <2>4, <2>7, <4>1, <4>2
    <3>2. Children' = {}
      BY <3>1, ProcFinite, FS_EmptySet
    <3>3. \A p \in Proc : st'[p] \in Living \cup {"none", "zombie", "reaped"}
      BY <1>t, <2>1
    <3>4. QED
      BY <2>7, <3>2, <3>3 DEF WaitsLeft, CleanExit, Children, Alive
  <2>8. QED
    BY <2>5, <2>6, <2>7
<1>4. CASE EnterHandler \/ Stops \/ UNCHANGED vars
  <2>1. UNCHANGED <<mpc, k, st>>
    BY <1>4, StopsKeep DEF EnterHandler, vars, main, procs
  <2>2. QED
    BY <2>1 DEF WaitsLeft, CleanExit, Children, Alive
<1>5. CASE RegenerateChild
  <2>1. mpc \in Startup \cup Working /\ mpc' \in {mpc, "failed"}
    BY <1>5 DEF RegenerateChild, InStep
  <2>2. QED
    BY <2>1 DEF WaitsLeft, CleanExit, Startup, Working
<1>6. ASSUME NEW p \in Proc, WorkerMoves(p) PROVE WaitsLeft'
  <2>1. UNCHANGED <<mpc, k>>
    BY <1>6 DEF WorkerMoves, main
  <2>2. Children' \subseteq Children /\ Alive(p)
    BY <1>6, WorkerChildren DEF WorkerMoves
  <2>3. CASE mpc = "gone"
    BY <1>6, <2>2, <2>3 DEF WaitsLeft, CleanExit, Alive, Living
  <2>4. CASE mpc \in {"term", "wait"}
    <3>1. Cardinality(Children') <= N - k'
      BY <1>t, <2>1, <2>2, <2>4, FewerChildren DEF WaitsLeft
    <3>2. QED
      BY <2>1, <2>4, <3>1 DEF WaitsLeft, CleanExit
  <2>5. QED
    BY <2>1, <2>3, <2>4 DEF WaitsLeft, CleanExit
<1>7. QED
  BY <1>1, <1>2, <1>3, <1>4, <1>5, <1>6, Steps

\* When terminate starts there are at most N children, listed or about to be,
\* and each of its N waits reaps one: the last one leaves none behind.
THEOREM NothingIsLeftBehind == Spec => []CleanExit
<1>1. Init => WaitsLeft
  BY DEF Init, WaitsLeft, CleanExit
<1>2. TypeOK /\ InStep /\ Listed /\ WaitsLeft /\ [Next]_vars => WaitsLeft'
  BY WaitsStep
<1>3. WaitsLeft => CleanExit
  BY DEF WaitsLeft
<1>4. QED
  BY <1>1, <1>2, <1>3, Placed, PTL DEF Spec

=============================================================================
