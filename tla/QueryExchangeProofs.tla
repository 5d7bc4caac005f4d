------------------------ MODULE QueryExchangeProofs ------------------------
(***************************************************************************)
(* Properties of QueryExchange for every number of workers, commands,      *)
(* timeouts, lines and pipe sizes.                                         *)
(***************************************************************************)
EXTENDS QueryExchange, SequenceTheorems, TLAPS

-----------------------------------------------------------------------------
(* Types.                                                                  *)

\* TypeOK is not inductive by itself: that a written line carries the number
\* of a command, and that the handler's loop ends at zero lines, depends on
\* where the processes are.
Numbered == mpc # "idle" => cur # 0

Answering == \A w \in Worker :
  wpc[w] = "run" => left[w] # 0 /\ buffer[w] \in Request

TypeInv == TypeOK /\ Numbered /\ Answering

LEMMA AppendNotEmpty ==
  ASSUME NEW S, NEW s \in Seq(S), NEW e \in S
  PROVE  Append(s, e) # <<>>
BY AppendProperties

\* What one read() returns is lines, is not empty, and leaves lines.
LEMMA ChunkType ==
  ASSUME TypeOK, ansFifo[k] # <<>>
  PROVE  /\ Chunk \in Seq(Line)
         /\ Chunk # <<>>
         /\ Len(Chunk) \in 1..Len(ansFifo[k])
         /\ \A i \in 1..Len(Chunk) : Chunk[i] = ansFifo[k][i]
         /\ SubSeq(ansFifo[k], Len(Chunk)+1, Len(ansFifo[k])) \in Seq(Line)
<1> DEFINE a == ansFifo[k]
           n == IF Len(a) < ReadMax THEN Len(a) ELSE ReadMax
<1>1. a \in Seq(Line) /\ Len(a) \in Nat \ {0} /\ n \in 1..Len(a)
  BY ConstantsAssumption, EmptySeq DEF TypeOK, ConstantsAssumption
<1>2. \A i \in 1..Len(a) : a[i] \in Line
  BY <1>1, ElementOfSeq
<1>3. Chunk \in Seq(Line) /\ Len(Chunk) = n /\ \A i \in 1..n : Chunk[i] = a[i]
  BY <1>1, <1>2, SubSeqProperties DEF Chunk
<1>4. SubSeq(a, n+1, Len(a)) \in Seq(Line)
  BY <1>1, <1>2, SubSeqProperties
<1>5. QED
  BY <1>1, <1>3, <1>4

\* The loop index stays on the workers, and the loop goes round or ends.
LEMMA NextWorkerType ==
  ASSUME k \in Worker, NEW a, NEW b, NextWorker(a, b)
  PROVE  k' \in Worker /\ mpc' \in {a, b}
BY ConstantsAssumption DEF Worker, NextWorker, ConstantsAssumption

LEMMA NextWorkerCases ==
  ASSUME k \in Worker, NEW a, NEW b, NextWorker(a, b)
  PROVE  /\ \A w \in Worker : w \in Nat
         /\ \/ k' = k+1 /\ mpc' = a
            \/ k' = 0 /\ mpc' = b /\ \A w \in Worker : w <= k
BY ConstantsAssumption DEF Worker, NextWorker, ConstantsAssumption

LEMMA TypeInit == Init => TypeInv
BY ConstantsAssumption
   DEF Init, TypeInv, TypeOK, Numbered, Answering, Worker, Command, MasterPc,
       ConstantsAssumption

LEMMA RunType ==
  ASSUME TypeOK, Answering, NEW w \in Worker, NEW r \in Request, Run(w, r)
  PROVE  /\ buffer' \in [Worker -> Request \cup {NoRequest}]
         /\ left' \in [Worker -> 0..MaxLines]
         /\ wpc' \in [Worker -> {"sleep", "read", "run"}]
         /\ Answering'
<1>1. AnswerLines(r) \subseteq 1..MaxLines
  BY ConstantsAssumption DEF AnswerLines, ConstantsAssumption
<1>2. PICK n \in 1..MaxLines : left' = [left EXCEPT ![w] = n]
  BY <1>1 DEF Run
<1>3. QED
  BY ConstantsAssumption, <1>2 DEF TypeOK, Answering, Run, ConstantsAssumption

LEMMA TypeStep == TypeInv /\ [Next]_vars => TypeInv'
<1> SUFFICES ASSUME TypeInv, [Next]_vars PROVE TypeInv'
  OBVIOUS
<1> USE DEF TypeInv
<1>1. CASE ReadCommand
  <2>1. cur' \in 1..MaxQueries
    BY ConstantsAssumption, <1>1 DEF TypeOK, ReadCommand, ConstantsAssumption
  <2>2. timeoutTime' \in Timeouts \cup {0}
    BY <1>1 DEF TypeOK, ReadCommand
  <2>3. QED
    BY ConstantsAssumption, <1>1, <2>1, <2>2
       DEF TypeOK, Numbered, Answering, ReadCommand, MasterPc, worker,
           ConstantsAssumption
<1>2. CASE WriteRequest
  <2>1. [id |-> cur, cmd |-> cmd] \in Request
    BY ConstantsAssumption, <1>2
       DEF TypeOK, Numbered, WriteRequest, Request, ConstantsAssumption
  <2>2. reqFifo' \in [Worker -> Seq(Request)]
    BY <1>2, <2>1 DEF TypeOK, WriteRequest
  <2>3. QED
    BY <1>2, <2>2
       DEF TypeOK, Numbered, Answering, WriteRequest, MasterPc, worker
<1>3. CASE SignalWorker
  <2>1. k' \in Worker /\ mpc' \in {"write", "sleep", "poll"}
    BY <1>3, NextWorkerType DEF TypeOK, SignalWorker
  <2>2. QED
    BY <1>3, <2>1 DEF TypeOK, Numbered, Answering, SignalWorker, MasterPc
<1>4. CASE WakeUp
  BY <1>4 DEF TypeOK, Numbered, Answering, WakeUp, MasterPc, worker
<1>5. CASE PollAnswer
  BY <1>5, ChunkType
     DEF TypeOK, Numbered, Answering, PollAnswer, TakeChunk, MasterPc, worker
<1>6. CASE PollNothing
  BY <1>6 DEF TypeOK, Numbered, Answering, PollNothing, MasterPc, worker
<1>7. CASE DrainChunk
  BY <1>7, ChunkType
     DEF TypeOK, Numbered, Answering, DrainChunk, TakeChunk, MasterPc, worker
<1>8. CASE DrainEnd
  <2>1. k' \in Worker /\ mpc' \in {"poll", "report"}
    BY <1>8, NextWorkerType DEF TypeOK, DrainEnd
  <2>2. QED
    BY <1>8, <2>1 DEF TypeOK, Numbered, Answering, DrainEnd, MasterPc, worker
<1>9. CASE Report
  BY <1>9 DEF TypeOK, Numbered, Answering, Report, CountOfNothing, MasterPc, worker
<1>10. ASSUME NEW w \in Worker, Deliver(w) PROVE TypeInv'
  BY <1>10 DEF TypeOK, Numbered, Answering, Deliver, master
<1>11. ASSUME NEW w \in Worker, ReadRequest(w) PROVE TypeInv'
  <2>1. Head(reqFifo[w]) \in Request
    BY <1>11 DEF TypeOK, ReadRequest
  <2>2. QED
    BY <1>11, <2>1, RunType DEF TypeOK, Numbered, ReadRequest, master
<1>12. ASSUME NEW w \in Worker, ReadNothing(w) PROVE TypeInv'
  <2>1. CASE wpc' = [wpc EXCEPT ![w] = "sleep"] /\ UNCHANGED <<buffer, left>>
    BY <1>12, <2>1 DEF TypeOK, Numbered, Answering, ReadNothing, master
  <2>2. CASE buffer[w] # NoRequest /\ Run(w, buffer[w])
    BY <1>12, <2>2, RunType DEF TypeOK, Numbered, ReadNothing, master
  <2>3. QED
    BY <1>12, <2>1, <2>2 DEF ReadNothing
<1>13. ASSUME NEW w \in Worker, WriteLine(w) PROVE TypeInv'
  <2>1. left[w] \in 1..MaxLines /\ [from |-> w, id |-> buffer[w].id] \in Line
    BY ConstantsAssumption, <1>13
       DEF TypeOK, Answering, WriteLine, Line, Request, ConstantsAssumption
  <2>2. ansFifo' \in [Worker -> Seq(Line)]
    BY <1>13, <2>1 DEF TypeOK, WriteLine
  <2>3. /\ left' \in [Worker -> 0..MaxLines]
        /\ wpc' \in [Worker -> {"sleep", "read", "run"}]
    BY ConstantsAssumption, <1>13, <2>1 DEF TypeOK, WriteLine, ConstantsAssumption
  <2>4. Answering'
    BY ConstantsAssumption, <1>13, <2>1
       DEF TypeOK, Answering, WriteLine, ConstantsAssumption
  <2>5. QED
    BY <1>13, <2>2, <2>3, <2>4 DEF TypeOK, Numbered, WriteLine, master
<1>14. CASE UNCHANGED vars
  BY <1>14 DEF TypeOK, Numbered, Answering, vars, master, worker
<1>15. QED
  BY <1>1, <1>2, <1>3, <1>4, <1>5, <1>6, <1>7, <1>8, <1>9, <1>10, <1>11,
     <1>12, <1>13, <1>14 DEF Next, MasterStep, WorkerStep

LEMMA TypeInvariance == Spec => []TypeInv
BY TypeInit, TypeStep, PTL DEF Spec

\* The variables keep their types: no loop of the master leaves the workers,
\* and what travels in the FIFOs is requests and lines of actual commands.
THEOREM TypeCorrect == Spec => []TypeOK
<1>1. TypeInv => TypeOK
  BY DEF TypeInv
<1>2. QED
  BY <1>1, TypeInvariance, PTL

-----------------------------------------------------------------------------
(* An awaited worker owes an answer.                                       *)

\* Between the write of a request and the signal the request may already be
\* gone: a signal left over from the previous command made the worker read.
Sent(w) == \/ ansFifo[w] # <<>>
           \/ wpc[w] = "run"
           \/ reqFifo[w] # <<>>

WayInv == /\ AnswerOnTheWay
          /\ mpc = "signal" => Sent(k)
          /\ mpc \in {"idle", "report"} => k = 0

LEMMA WayInit == Init => WayInv
BY DEF Init, WayInv, AnswerOnTheWay, Awaited

\* After the loop's step the awaited workers are those below the new index
\* while sending, all of them before the collection, those above while
\* collecting.
LEMMA WaySend ==
  ASSUME TypeInv, WayInv, SignalWorker
  PROVE  WayInv'
<1> DEFINE after == IF timeoutTime # 0 THEN "sleep" ELSE "poll"
<1>1. /\ mpc = "signal"
      /\ NextWorker("write", after)
      /\ usr1' = [usr1 EXCEPT ![k] = TRUE]
      /\ UNCHANGED <<wpc, reqFifo, ansFifo>>
  BY DEF SignalWorker
<1>2. k \in Worker /\ \A w \in Worker : w \in Nat
  BY <1>1, NextWorkerCases DEF TypeInv, TypeOK
<1>3. \/ k' = k+1 /\ mpc' = "write"
      \/ k' = 0 /\ mpc' = after /\ \A w \in Worker : w <= k
  BY <1>1, NextWorkerCases DEF TypeInv, TypeOK
<1>4. \A w \in Worker : Awaited(w)' => Awaited(w) \/ w = k
  BY <1>1, <1>2, <1>3 DEF Awaited
<1>5. mpc' \notin {"signal", "idle", "report"}
  BY <1>3
<1>6. AnswerOnTheWay
  BY DEF WayInv
<1>7. Sent(k)
  BY <1>1 DEF WayInv
<1>8. usr1 \in [Worker -> BOOLEAN]
  BY DEF TypeInv, TypeOK
<1>9. AnswerOnTheWay'
  BY <1>1, <1>2, <1>4, <1>6, <1>7, <1>8 DEF AnswerOnTheWay, Sent
<1>10. QED
  BY <1>5, <1>9 DEF WayInv

LEMMA WayCollect ==
  ASSUME TypeInv, WayInv, PollAnswer \/ PollNothing \/ DrainChunk \/ DrainEnd
  PROVE  WayInv'
<1>1. k \in Worker /\ ansFifo \in [Worker -> Seq(Line)]
  BY DEF TypeInv, TypeOK
<1>2. CASE DrainEnd
  <2>1. /\ mpc = "drain"
        /\ NextWorker("poll", "report")
        /\ UNCHANGED <<usr1, wpc, reqFifo, ansFifo>>
    BY <1>2 DEF DrainEnd, worker
  <2>2. \A w \in Worker : w \in Nat
    BY <1>1, <2>1, NextWorkerCases
  <2>3. \/ k' = k+1 /\ mpc' = "poll"
        \/ k' = 0 /\ mpc' = "report"
    BY <1>1, <2>1, NextWorkerCases
  <2>4. \A w \in Worker : Awaited(w)' => Awaited(w)
    BY <1>1, <2>1, <2>2, <2>3 DEF Awaited
  <2>5. QED
    BY <2>1, <2>3, <2>4 DEF WayInv, AnswerOnTheWay
<1>3. CASE PollAnswer \/ PollNothing \/ DrainChunk
  <2>1. /\ mpc \in {"poll", "drain"} /\ mpc' = "drain" /\ k' = k
        /\ UNCHANGED <<usr1, wpc, reqFifo>>
        /\ \A w \in Worker \ {k} : ansFifo'[w] = ansFifo[w]
    BY <1>1, <1>3 DEF PollAnswer, PollNothing, DrainChunk, TakeChunk, worker
  <2>2. \A w \in Worker : Awaited(w)' => Awaited(w) /\ w # k
    BY <1>1, <2>1, ConstantsAssumption
       DEF Awaited, Worker, ConstantsAssumption
  <2>3. QED
    BY <2>1, <2>2 DEF WayInv, AnswerOnTheWay
<1>4. QED
  BY <1>2, <1>3

LEMMA WayWorker ==
  ASSUME TypeInv, WayInv, NEW w \in Worker, WorkerStep(w)
  PROVE  WayInv'
<1> USE DEF TypeInv, TypeOK, WayInv, AnswerOnTheWay, Awaited, Sent, master
<1>1. CASE Deliver(w)
  BY <1>1 DEF Deliver
<1>2. CASE ReadRequest(w)
  BY <1>2 DEF ReadRequest, Run
<1>3. CASE ReadNothing(w)
  BY <1>3 DEF ReadNothing, Run
<1>4. CASE WriteLine(w)
  <2>1. ansFifo'[w] # <<>> /\ \A v \in Worker \ {w} : ansFifo'[v] = ansFifo[v]
    <3>1. ansFifo'[w] = Append(ansFifo[w], [from |-> w, id |-> buffer[w].id])
      BY <1>4 DEF WriteLine
    <3>2. /\ ansFifo[w] \in Seq(Line)
          /\ [from |-> w, id |-> buffer[w].id] \in Line
      BY <1>4 DEF WriteLine, Answering, Line, Request
    <3>3. Append(ansFifo[w], [from |-> w, id |-> buffer[w].id]) # <<>>
      BY <3>2, AppendNotEmpty
    <3>4. QED
      BY <1>4, <3>1, <3>3 DEF WriteLine
  <2>2. \A v \in Worker \ {w} : wpc'[v] = wpc[v]
    BY <1>4 DEF WriteLine
  <2>3. UNCHANGED <<mpc, k, usr1, reqFifo>>
    BY <1>4 DEF WriteLine
  <2>4. QED
    BY <2>1, <2>2, <2>3
<1>5. QED
  BY <1>1, <1>2, <1>3, <1>4 DEF WorkerStep

LEMMA WayStep == TypeInv /\ WayInv /\ [Next]_vars => WayInv'
<1> SUFFICES ASSUME TypeInv, WayInv, [Next]_vars PROVE WayInv'
  OBVIOUS
<1> USE DEF WayInv, AnswerOnTheWay, Awaited, Sent
<1>1. CASE ReadCommand
  <2>1. k = 0
    BY <1>1 DEF ReadCommand
  <2>2. QED
    BY <1>1, <2>1, ConstantsAssumption
       DEF ReadCommand, worker, Worker, ConstantsAssumption
<1>2. CASE WriteRequest
  <2>1. reqFifo'[k] # <<>> /\ \A w \in Worker \ {k} : reqFifo'[w] = reqFifo[w]
    BY <1>2 DEF WriteRequest, TypeInv, TypeOK
  <2>2. QED
    BY <1>2, <2>1 DEF WriteRequest, worker, TypeInv, TypeOK, Worker
<1>3. CASE SignalWorker
  BY <1>3, WaySend
<1>4. CASE WakeUp
  BY <1>4 DEF WakeUp, worker
<1>5. CASE PollAnswer \/ PollNothing \/ DrainChunk \/ DrainEnd
  BY <1>5, WayCollect
<1>6. CASE Report
  BY <1>6 DEF Report, worker
<1>7. ASSUME NEW w \in Worker, WorkerStep(w) PROVE WayInv'
  BY <1>7, WayWorker
<1>8. CASE UNCHANGED vars
  BY <1>8 DEF vars, master, worker
<1>9. QED
  BY <1>1, <1>2, <1>3, <1>4, <1>5, <1>6, <1>7, <1>8 DEF Next, MasterStep

\* The master never polls a worker that has nothing to say: whatever signals
\* coalesced and whatever requests were dropped, an awaited worker has a line
\* in its pipe, is writing one, or has both a request and a way to notice it.
THEOREM AwaitedOwesAnswer == Spec => []AnswerOnTheWay
<1>1. Init => TypeInv /\ WayInv
  BY TypeInit, WayInit
<1>2. (TypeInv /\ WayInv) /\ [Next]_vars => (TypeInv /\ WayInv)'
  BY TypeStep, WayStep
<1>3. WayInv => AnswerOnTheWay
  BY DEF WayInv
<1>4. QED
  BY <1>1, <1>2, <1>3, PTL DEF Spec

-----------------------------------------------------------------------------
(* Without a timeout something is read from every worker.                  *)

OwnLines == \A w \in Worker : \A i \in 1..Len(ansFifo[w]) : ansFifo[w][i].from = w

HeardFrom(w) == \E c \in 1..Len(Results) : Results[c][1].from = w

\* The collecting loop has passed the do-while for worker w.
Collected(w) == \/ mpc = "poll" /\ w < k
                \/ mpc = "drain" /\ w <= k
                \/ mpc = "report"

HeardInv == /\ OwnLines
            /\ timeoutTime = 0 => \A w \in Worker : Collected(w) => HeardFrom(w)
            /\ AbortsOnlyWithTimeout
            /\ mpc \in {"idle", "sleep", "report"} => k = 0

LEMMA HeardInit == Init => HeardInv
BY DEF Init, HeardInv, OwnLines, Collected, AbortsOnlyWithTimeout

\* Taking a chunk from the head of a pipe leaves lines of the same worker,
\* and a chunk kept makes that worker heard without unhearing another.
LEMMA HeardChunk ==
  ASSUME TypeInv, OwnLines, TakeChunk
  PROVE  /\ OwnLines'
         /\ Results' = Append(Results, Chunk) =>
              \A w \in Worker : HeardFrom(w) \/ w = k => HeardFrom(w)'
<1>1. /\ Chunk \in Seq(Line) /\ Len(Chunk) \in 1..Len(ansFifo[k])
      /\ \A i \in 1..Len(Chunk) : Chunk[i] = ansFifo[k][i]
  BY ChunkType DEF TakeChunk, TypeInv
<1>2. ansFifo \in [Worker -> Seq(Line)] /\ k \in Worker /\ Results \in Seq(Seq(Line))
  BY DEF TypeInv, TypeOK
<1>3. OwnLines'
  <2> DEFINE a == ansFifo[k]
             rest == SubSeq(a, Len(Chunk)+1, Len(a))
  <2>1. a \in Seq(Line) /\ Len(a) \in Nat /\ Len(Chunk)+1 \in Nat
    BY <1>1, <1>2
  <2>2. \A i \in 1..Len(rest) : rest[i].from = k
    BY <1>1, <1>2, <2>1, SubSeqProperties DEF OwnLines
  <2>3. ansFifo' = [ansFifo EXCEPT ![k] = rest]
    BY DEF TakeChunk
  <2>4. QED
    BY <1>2, <2>2, <2>3 DEF OwnLines
<1>4. ASSUME Results' = Append(Results, Chunk), NEW w \in Worker,
             HeardFrom(w) \/ w = k
      PROVE  HeardFrom(w)'
  <2>1. /\ Len(Results) \in Nat
        /\ Len(Results') = Len(Results)+1
        /\ \A i \in 1..Len(Results) : Results'[i] = Results[i]
        /\ Results'[Len(Results)+1] = Chunk
    BY <1>1, <1>2, <1>4, AppendProperties
  <2>2. Chunk[1].from = k
    BY <1>1, <1>2 DEF OwnLines
  <2>3. QED
    BY <1>4, <2>1, <2>2 DEF HeardFrom
<1>5. QED
  BY <1>3, <1>4

LEMMA HeardCollect ==
  ASSUME TypeInv, HeardInv, PollAnswer \/ PollNothing \/ DrainChunk \/ DrainEnd
  PROVE  HeardInv'
<1> USE DEF HeardInv, AbortsOnlyWithTimeout
<1>1. k \in Worker /\ \A w \in Worker : w \in Nat
  BY DEF TypeInv, TypeOK, Worker
<1>2. CASE PollAnswer
  <2>1. /\ mpc = "poll" /\ mpc' = "drain" /\ k' = k /\ TakeChunk
        /\ timeoutTime' = timeoutTime
        /\ timeoutTime = 0 => Results' = Append(Results, Chunk)
    BY <1>2 DEF PollAnswer
  <2>2. \A w \in Worker : Collected(w)' => Collected(w) \/ w = k
    BY <1>1, <2>1 DEF Collected
  <2>3. QED
    BY <1>1, <2>1, <2>2, HeardChunk
<1>3. CASE PollNothing
  BY <1>3 DEF PollNothing, OwnLines
<1>4. CASE DrainChunk
  <2>1. /\ mpc = "drain" /\ mpc' = "drain" /\ k' = k /\ TakeChunk
        /\ timeoutTime' = timeoutTime
        /\ Results' = Append(Results, Chunk)
    BY <1>4 DEF DrainChunk
  <2>2. \A w \in Worker : Collected(w)' => Collected(w)
    BY <1>1, <2>1 DEF Collected
  <2>3. QED
    BY <1>1, <2>1, <2>2, HeardChunk
<1>5. CASE DrainEnd
  <2>1. /\ mpc = "drain"
        /\ NextWorker("poll", "report")
        /\ UNCHANGED <<timeoutTime, Results, ansFifo>>
    BY <1>5 DEF DrainEnd, worker
  <2>2. \/ k' = k+1 /\ mpc' = "poll"
        \/ k' = 0 /\ mpc' = "report" /\ \A w \in Worker : w <= k
    BY <1>1, <2>1, NextWorkerCases
  <2>3. \A w \in Worker : Collected(w)' => Collected(w)
    BY <1>1, <2>1, <2>2 DEF Collected
  <2>4. QED
    BY <2>1, <2>2, <2>3 DEF OwnLines, HeardFrom
<1>6. QED
  BY <1>2, <1>3, <1>4, <1>5

LEMMA HeardWorker ==
  ASSUME TypeInv, HeardInv, NEW w \in Worker, WorkerStep(w)
  PROVE  HeardInv'
<1>1. UNCHANGED <<mpc, k, timeoutTime, Results>>
  BY DEF WorkerStep, Deliver, ReadRequest, ReadNothing, WriteLine, master
<1>2. CASE UNCHANGED ansFifo
  BY <1>1, <1>2
     DEF HeardInv, OwnLines, HeardFrom, Collected, AbortsOnlyWithTimeout
<1>3. CASE WriteLine(w)
  <2> DEFINE e == [from |-> w, id |-> buffer[w].id]
  <2>1. ansFifo \in [Worker -> Seq(Line)] /\ e \in Line
    BY <1>3 DEF WriteLine, TypeInv, TypeOK, Answering, Line, Request
  <2>2. \A i \in 1..Len(Append(ansFifo[w], e)) : Append(ansFifo[w], e)[i].from = w
    <3>1. Len(ansFifo[w]) \in Nat
      BY <2>1
    <3>2. QED
      BY <2>1, <3>1, AppendProperties DEF HeardInv, OwnLines
  <2>3. ansFifo' = [ansFifo EXCEPT ![w] = Append(@, e)]
    BY <1>3 DEF WriteLine
  <2>4. OwnLines'
    BY <2>1, <2>2, <2>3 DEF HeardInv, OwnLines
  <2>5. QED
    BY <1>1, <2>4 DEF HeardInv, HeardFrom, Collected, AbortsOnlyWithTimeout
<1>4. QED
  BY <1>2, <1>3 DEF WorkerStep, Deliver, ReadRequest, ReadNothing

LEMMA HeardStep == TypeInv /\ HeardInv /\ [Next]_vars => HeardInv'
<1> SUFFICES ASSUME TypeInv, HeardInv, [Next]_vars PROVE HeardInv'
  OBVIOUS
<1> USE DEF HeardInv, OwnLines, HeardFrom, Collected, AbortsOnlyWithTimeout
<1>1. k \in Worker /\ \A w \in Worker : w \in Nat
  BY DEF TypeInv, TypeOK, Worker
<1>2. CASE ReadCommand
  BY <1>2 DEF ReadCommand
<1>3. CASE WriteRequest
  BY <1>3 DEF WriteRequest
<1>4. CASE SignalWorker
  <2>1. NextWorker("write", IF timeoutTime # 0 THEN "sleep" ELSE "poll")
    BY <1>4 DEF SignalWorker
  <2>2. \/ mpc' = "write"
        \/ mpc' \in {"sleep", "poll"} /\ k' = 0
    BY <1>1, <2>1, NextWorkerCases
  <2>3. UNCHANGED <<timeoutTime, ansFifo>>
    BY <1>4 DEF SignalWorker
  <2>4. \A w \in Worker : ~Collected(w)'
    BY <1>1, <2>2
  <2>5. QED
    BY <2>2, <2>3, <2>4
<1>5. CASE WakeUp
  BY <1>1, <1>5 DEF WakeUp
<1>6. CASE PollAnswer \/ PollNothing \/ DrainChunk \/ DrainEnd
  BY <1>6, HeardCollect
<1>7. CASE Report
  <2>1. mpc = "report" /\ timeoutTime = 0 => Results # <<>>
    <3>1. 0 \in Worker
      BY ConstantsAssumption DEF Worker, ConstantsAssumption
    <3>2. mpc = "report" /\ timeoutTime = 0 => Len(Results) # 0
      BY <3>1 DEF TypeInv, TypeOK
    <3>3. QED
      BY <3>2
  <2>2. QED
    BY <1>7, <2>1 DEF Report, CountOfNothing
<1>8. ASSUME NEW w \in Worker, WorkerStep(w) PROVE HeardInv'
  BY <1>8, HeardWorker
<1>9. CASE UNCHANGED vars
  BY <1>9 DEF vars, master
<1>10. QED
  BY <1>2, <1>3, <1>4, <1>5, <1>6, <1>7, <1>8, <1>9 DEF Next, MasterStep

LEMMA HeardInvariance == Spec => []HeardInv
<1>1. Init => TypeInv /\ HeardInv
  BY TypeInit, HeardInit
<1>2. (TypeInv /\ HeardInv) /\ [Next]_vars => (TypeInv /\ HeardInv)'
  BY TypeStep, HeardStep
<1>3. QED
  BY <1>1, <1>2, PTL DEF Spec

\* The do-while of the collection is worth its wait: without a timeout what is
\* printed holds something from each of the workers.
THEOREM ReportsEveryWorker == Spec => []EveryWorkerHeard
<1>1. HeardInv => EveryWorkerHeard
  BY DEF HeardInv, EveryWorkerHeard, Collected, HeardFrom
<1>2. QED
  BY <1>1, HeardInvariance, PTL

\* The assertion in List::value cannot stop a master that has not been given
\* a "-d" timeout.
THEOREM AbortNeedsTimeout == Spec => []AbortsOnlyWithTimeout
<1>1. HeardInv => AbortsOnlyWithTimeout
  BY DEF HeardInv
<1>2. QED
  BY <1>1, HeardInvariance, PTL

-----------------------------------------------------------------------------
(* Answers keep the order of the commands.                                 *)

\* AnswersInOrder per worker, with the command the handler last read as the
\* link between both FIFOs, and the present command as the bound of all.
OrderAt(w) ==
  /\ InOrder(ansFifo[w]) /\ InOrder(reqFifo[w])
  /\ \A i \in 1..Len(ansFifo[w]) : ansFifo[w][i].id <= buffer[w].id
  /\ \A i \in 1..Len(reqFifo[w]) : /\ buffer[w].id <= reqFifo[w][i].id
                                   /\ reqFifo[w][i].id <= cur
  /\ buffer[w].id <= cur

KeptAt(w) ==
  \A c \in 1..Len(Results) : \A i \in 1..Len(Results[c]) :
    Results[c][i].from = w =>
      /\ Results[c][i].id <= buffer[w].id
      /\ \A j \in 1..Len(ansFifo[w]) : Results[c][i].id <= ansFifo[w][j].id

OrderInv == /\ \A w \in Worker : OrderAt(w) /\ KeptAt(w)
            /\ \A c \in 1..Len(Results) : InOrder(Results[c])

LEMMA OrderInit == Init => OrderInv
BY ConstantsAssumption
   DEF Init, OrderInv, OrderAt, KeptAt, InOrder, NoRequest, ConstantsAssumption

\* The ids the comparisons are about are numbers.
LEMMA Ids ==
  ASSUME TypeInv
  PROVE  /\ \A w \in Worker : buffer[w].id \in Nat
         /\ cur \in Nat
         /\ \A e \in Line : e.id \in Nat /\ e.from \in Worker
         /\ \A r \in Request : r.id \in Nat
BY ConstantsAssumption
   DEF TypeInv, TypeOK, Request, NoRequest, Line, ConstantsAssumption

\* Appending something that is not older keeps a sequence in order.
LEMMA InOrderAppend ==
  ASSUME NEW S, NEW s \in Seq(S), NEW e \in S,
         \A x \in S : x.id \in Nat,
         InOrder(s), \A i \in 1..Len(s) : s[i].id <= e.id
  PROVE  InOrder(Append(s, e))
<1>1. /\ Len(s) \in Nat
      /\ Len(Append(s, e)) = Len(s)+1
      /\ \A i \in 1..Len(s) : Append(s, e)[i] = s[i]
      /\ Append(s, e)[Len(s)+1] = e
  BY AppendProperties
<1>2. SUFFICES ASSUME NEW i \in 1..Len(s)+1, NEW j \in 1..Len(s)+1, i <= j
               PROVE  Append(s, e)[i].id <= Append(s, e)[j].id
  BY <1>1 DEF InOrder
<1>3. CASE j \in 1..Len(s)
  BY <1>1, <1>2, <1>3 DEF InOrder
<1>4. CASE j = Len(s)+1 /\ i \in 1..Len(s)
  BY <1>1, <1>4
<1>5. CASE j = Len(s)+1 /\ i = j
  BY <1>1, <1>5
<1>6. QED
  BY <1>1, <1>2, <1>3, <1>4, <1>5

\* Splitting a pipe in two keeps both parts in order, the first before the
\* second.
LEMMA ChunkInOrder ==
  ASSUME TypeInv, OrderInv, TakeChunk
  PROVE  /\ InOrder(Chunk)
         /\ \A i \in 1..Len(Chunk) : Chunk[i].id <= buffer[k].id
         /\ \A w \in Worker : InOrder(ansFifo'[w])
         /\ \A w \in Worker : \A j \in 1..Len(ansFifo'[w]) :
              \E m \in 1..Len(ansFifo[w]) :
                /\ ansFifo'[w][j] = ansFifo[w][m]
                /\ w = k => \A i \in 1..Len(Chunk) : i <= m
<1> DEFINE a == ansFifo[k]
           n == Len(Chunk)
           rest == SubSeq(a, n+1, Len(a))
<1>1. /\ Chunk \in Seq(Line) /\ n \in 1..Len(a)
      /\ \A i \in 1..n : Chunk[i] = a[i]
  BY ChunkType DEF TakeChunk, TypeInv
<1>2. /\ ansFifo \in [Worker -> Seq(Line)] /\ k \in Worker
      /\ a \in Seq(Line) /\ Len(a) \in Nat /\ n \in Nat
  BY <1>1 DEF TypeInv, TypeOK
<1>3. /\ Len(rest) = Len(a) - n
      /\ \A i \in 1..Len(rest) : rest[i] = a[n+i]
  BY <1>1, <1>2, SubSeqProperties
<1>4. ansFifo' = [ansFifo EXCEPT ![k] = rest]
  BY DEF TakeChunk
<1>5. InOrder(Chunk) /\ \A i \in 1..n : Chunk[i].id <= buffer[k].id
  <2>1. OrderAt(k)
    BY <1>2 DEF OrderInv
  <2>2. InOrder(a) /\ \A i \in 1..Len(a) : a[i].id <= buffer[k].id
    BY <2>1 DEF OrderAt
  <2>3. 1..n \subseteq 1..Len(a)
    BY <1>1, <1>2
  <2>4. \A i \in 1..n : Chunk[i].id <= buffer[k].id
    BY <1>1, <2>2, <2>3
  <2>5. \A i, j \in 1..n : i <= j => Chunk[i].id <= Chunk[j].id
    BY <1>1, <2>2, <2>3 DEF InOrder
  <2>6. QED
    BY <2>4, <2>5 DEF InOrder
<1>6. InOrder(rest)
  <2>1. SUFFICES ASSUME NEW i \in 1..Len(rest), NEW j \in 1..Len(rest), i <= j
                 PROVE  rest[i].id <= rest[j].id
    BY DEF InOrder
  <2>2. n+i \in 1..Len(a) /\ n+j \in 1..Len(a) /\ n+i <= n+j
    BY <1>1, <1>2, <1>3, <2>1
  <2>3. QED
    BY <1>2, <1>3, <2>1, <2>2 DEF OrderInv, OrderAt, InOrder
<1>7. \A w \in Worker : InOrder(ansFifo'[w])
  BY <1>2, <1>4, <1>6 DEF OrderInv, OrderAt
<1>8. ASSUME NEW w \in Worker, NEW j \in 1..Len(ansFifo'[w])
      PROVE  \E m \in 1..Len(ansFifo[w]) :
               /\ ansFifo'[w][j] = ansFifo[w][m]
               /\ w = k => \A i \in 1..Len(Chunk) : i <= m
  <2>1. CASE w # k
    BY <1>2, <1>4, <1>8, <2>1
  <2>2. CASE w = k
    <3>1. j \in 1..Len(rest) /\ ansFifo'[w] = rest
      BY <1>2, <1>4, <1>8, <2>2
    <3>2. n+j \in 1..Len(a) /\ \A i \in 1..n : i <= n+j
      BY <1>1, <1>2, <1>3, <3>1
    <3>3. QED
      BY <1>3, <2>2, <3>1, <3>2
  <2>3. QED
    BY <2>1, <2>2
<1>9. QED
  BY <1>5, <1>7, <1>8

LEMMA OrderTake ==
  ASSUME TypeInv, OwnLines, OrderInv, PollAnswer \/ DrainChunk
  PROVE  OrderInv'
<1>1. /\ TakeChunk
      /\ UNCHANGED <<cur, reqFifo, buffer>>
      /\ Results' = Results \/ Results' = Append(Results, Chunk)
  BY DEF PollAnswer, DrainChunk, worker
<1>2. /\ ansFifo \in [Worker -> Seq(Line)] /\ k \in Worker
      /\ Results \in Seq(Seq(Line)) /\ Chunk \in Seq(Line)
      /\ Len(Chunk) \in 1..Len(ansFifo[k])
      /\ \A i \in 1..Len(Chunk) : Chunk[i] = ansFifo[k][i]
  BY <1>1, ChunkType DEF TakeChunk, TypeInv, TypeOK
<1>3. ASSUME NEW w \in Worker PROVE OrderAt(w)'
  BY <1>1, <1>2, <1>3, ChunkInOrder DEF OrderInv, OrderAt
<1>4. ASSUME NEW w \in Worker,
             NEW c \in 1..Len(Results), NEW i \in 1..Len(Results[c]),
             Results[c][i].from = w
      PROVE  /\ Results[c][i].id <= buffer'[w].id
             /\ \A j \in 1..Len(ansFifo'[w]) :
                  Results[c][i].id <= ansFifo'[w][j].id
  BY <1>1, <1>4, ChunkInOrder DEF OrderInv, KeptAt
<1>5. CASE Results' = Results
  BY <1>3, <1>4, <1>5 DEF OrderInv, KeptAt
<1>6. CASE Results' = Append(Results, Chunk)
  <2>1. /\ Len(Results) \in Nat
        /\ Len(Results') = Len(Results)+1
        /\ \A c \in 1..Len(Results) : Results'[c] = Results[c]
        /\ Results'[Len(Results)+1] = Chunk
    BY <1>2, <1>6, AppendProperties
  <2>2. ASSUME NEW w \in Worker PROVE KeptAt(w)'
    <3>1. ASSUME NEW i \in 1..Len(Chunk), Chunk[i].from = w
          PROVE  /\ Chunk[i].id <= buffer'[w].id
                 /\ \A j \in 1..Len(ansFifo'[w]) :
                      Chunk[i].id <= ansFifo'[w][j].id
      <4>1. w = k
        <5>1. i \in 1..Len(ansFifo[k])
          BY <1>2
        <5>2. Chunk[i].from = k
          BY <1>2, <5>1 DEF OwnLines
        <5>3. QED
          BY <3>1, <5>2
      <4>2. Chunk[i].id <= buffer'[w].id
        BY <1>1, <4>1, ChunkInOrder
      <4>3. ASSUME NEW j \in 1..Len(ansFifo'[w])
            PROVE  Chunk[i].id <= ansFifo'[w][j].id
        <5>1. PICK m \in 1..Len(ansFifo[k]) :
                /\ ansFifo'[k][j] = ansFifo[k][m]
                /\ i <= m
          BY <1>1, <4>1, <4>3, ChunkInOrder
        <5>2. InOrder(ansFifo[k]) /\ i \in 1..Len(ansFifo[k])
          BY <1>2 DEF OrderInv, OrderAt
        <5>3. QED
          BY <1>2, <4>1, <5>1, <5>2 DEF InOrder
      <4>4. QED
        BY <4>2, <4>3
    <3>2. \A c \in 1..Len(Results') :
            c \in 1..Len(Results) \/ c = Len(Results)+1
      BY <2>1
    <3>3. QED
      BY <1>4, <2>1, <3>1, <3>2 DEF KeptAt
  <2>3. \A c \in 1..Len(Results') : InOrder(Results'[c])
    <3>1. \A c \in 1..Len(Results') :
            c \in 1..Len(Results) \/ c = Len(Results)+1
      BY <2>1
    <3>2. QED
      BY <1>1, <2>1, <3>1, ChunkInOrder DEF OrderInv
  <2>4. QED
    BY <1>3, <2>2, <2>3 DEF OrderInv
<1>7. QED
  BY <1>1, <1>5, <1>6

LEMMA OrderWrite ==
  ASSUME TypeInv, OrderInv, NEW w \in Worker, WriteLine(w)
  PROVE  OrderInv'
<1> DEFINE e == [from |-> w, id |-> buffer[w].id]
<1>1. /\ ansFifo \in [Worker -> Seq(Line)] /\ e \in Line
      /\ buffer[w].id \in Nat
  BY Ids DEF WriteLine, TypeInv, TypeOK, Answering, Line, Request
<1>2. /\ ansFifo' = [ansFifo EXCEPT ![w] = Append(@, e)]
      /\ UNCHANGED <<cur, buffer, reqFifo, Results>>
  BY DEF WriteLine, master
<1>3. /\ Len(ansFifo[w]) \in Nat
      /\ Len(Append(ansFifo[w], e)) = Len(ansFifo[w])+1
      /\ \A i \in 1..Len(ansFifo[w]) : Append(ansFifo[w], e)[i] = ansFifo[w][i]
      /\ Append(ansFifo[w], e)[Len(ansFifo[w])+1] = e
  BY <1>1, AppendProperties
<1>4. InOrder(Append(ansFifo[w], e))
  BY <1>1, Ids, InOrderAppend DEF OrderInv, OrderAt
<1>5. ASSUME NEW j \in 1..Len(Append(ansFifo[w], e))
      PROVE  j \in 1..Len(ansFifo[w]) \/ Append(ansFifo[w], e)[j].id = buffer[w].id
  BY <1>3
<1>6. \A j \in 1..Len(Append(ansFifo[w], e)) :
        Append(ansFifo[w], e)[j].id <= buffer[w].id
  BY <1>1, <1>3, <1>5 DEF OrderInv, OrderAt
<1>7. ASSUME NEW v \in Worker PROVE OrderAt(v)'
  BY <1>1, <1>2, <1>4, <1>6 DEF OrderInv, OrderAt
<1>8. ASSUME NEW v \in Worker PROVE KeptAt(v)'
  <2>1. CASE v = w
    <3>1. ASSUME NEW c \in 1..Len(Results), NEW i \in 1..Len(Results[c]),
                 Results[c][i].from = w,
                 NEW j \in 1..Len(Append(ansFifo[w], e))
          PROVE  Results[c][i].id <= Append(ansFifo[w], e)[j].id
      BY <1>3, <1>5, <3>1 DEF OrderInv, KeptAt
    <3>2. QED
      BY <1>1, <1>2, <2>1, <3>1 DEF OrderInv, KeptAt
  <2>2. CASE v # w
    BY <1>1, <1>2, <1>8, <2>2 DEF OrderInv, KeptAt
  <2>3. QED
    BY <2>1, <2>2
<1>9. QED
  BY <1>2, <1>7, <1>8 DEF OrderInv

LEMMA OrderStep == TypeInv /\ OwnLines /\ OrderInv /\ [Next]_vars => OrderInv'
<1> SUFFICES ASSUME TypeInv, OwnLines, OrderInv, [Next]_vars PROVE OrderInv'
  OBVIOUS
<1> USE DEF OrderInv
<1>1. CASE ReadCommand
  <2>1. cur' = cur+1 /\ UNCHANGED <<ansFifo, reqFifo, buffer, Results>>
    BY <1>1 DEF ReadCommand, worker
  <2>2. ASSUME NEW w \in Worker PROVE OrderAt(w)'
    <3>1. /\ cur \in Nat /\ buffer[w].id \in Nat
          /\ \A i \in 1..Len(reqFifo[w]) : reqFifo[w][i].id \in Nat
      BY Ids DEF TypeInv, TypeOK
    <3>2. QED
      BY <2>1, <3>1 DEF OrderAt
  <2>3. QED
    BY <2>1, <2>2 DEF KeptAt
<1>2. CASE WriteRequest
  <2> DEFINE e == [id |-> cur, cmd |-> cmd]
  <2>1. /\ reqFifo' = [reqFifo EXCEPT ![k] = Append(@, e)]
        /\ UNCHANGED <<ansFifo, cur, buffer, Results>>
    BY <1>2 DEF WriteRequest, worker
  <2>2. /\ reqFifo \in [Worker -> Seq(Request)] /\ k \in Worker
        /\ e \in Request
    <3>1. cur \in 1..MaxQueries /\ cmd \in Command
      BY <1>2, ConstantsAssumption
         DEF WriteRequest, TypeInv, TypeOK, Numbered, ConstantsAssumption
    <3>2. QED
      BY <3>1 DEF TypeInv, TypeOK, Request
  <2>3. /\ Len(reqFifo[k]) \in Nat
        /\ Len(Append(reqFifo[k], e)) = Len(reqFifo[k])+1
        /\ \A i \in 1..Len(reqFifo[k]) : Append(reqFifo[k], e)[i] = reqFifo[k][i]
        /\ Append(reqFifo[k], e)[Len(reqFifo[k])+1] = e
    BY <2>2, AppendProperties
  <2>4. InOrder(Append(reqFifo[k], e))
    BY <2>2, Ids, InOrderAppend DEF OrderAt
  <2>5. ASSUME NEW i \in 1..Len(Append(reqFifo[k], e))
        PROVE  /\ buffer[k].id <= Append(reqFifo[k], e)[i].id
               /\ Append(reqFifo[k], e)[i].id <= cur
    BY <2>2, <2>3, Ids DEF OrderAt
  <2>6. ASSUME NEW w \in Worker PROVE OrderAt(w)'
    BY <2>1, <2>2, <2>4, <2>5 DEF OrderAt
  <2>7. QED
    BY <2>1, <2>6 DEF KeptAt
<1>3. CASE SignalWorker \/ WakeUp \/ PollNothing \/ DrainEnd
  <2>1. UNCHANGED <<ansFifo, reqFifo, cur, buffer, Results>>
    BY <1>3 DEF SignalWorker, WakeUp, PollNothing, DrainEnd, worker
  <2>2. QED
    BY <2>1 DEF OrderAt, KeptAt
<1>4. CASE PollAnswer \/ DrainChunk
  BY <1>4, OrderTake
<1>5. CASE Report
  BY <1>5 DEF Report, worker, OrderAt, KeptAt
<1>6. ASSUME NEW w \in Worker, Deliver(w) PROVE OrderInv'
  BY <1>6 DEF Deliver, master, OrderAt, KeptAt
<1>7. ASSUME NEW w \in Worker, ReadRequest(w) PROVE OrderInv'
  <2> DEFINE r == Head(reqFifo[w])
  <2>1. /\ reqFifo' = [reqFifo EXCEPT ![w] = <<>>]
        /\ buffer' = [buffer EXCEPT ![w] = r]
        /\ UNCHANGED <<ansFifo, cur, Results>>
    BY <1>7 DEF ReadRequest, Run, master
  <2>2. /\ reqFifo[w] \in Seq(Request) /\ 1 \in 1..Len(reqFifo[w])
        /\ r = reqFifo[w][1]
    BY <1>7 DEF ReadRequest, TypeInv, TypeOK
  <2>3. buffer[w].id <= r.id /\ r.id <= cur
    BY <2>2 DEF OrderAt
  <2>4. /\ buffer \in [Worker -> Request \cup {NoRequest}]
        /\ r \in Request
        /\ reqFifo \in [Worker -> Seq(Request)]
    BY <2>2 DEF TypeInv, TypeOK
  <2>5. buffer[w].id \in Nat /\ r.id \in Nat
    BY <2>4, Ids
  <2>6. ASSUME NEW v \in Worker PROVE OrderAt(v)'
    <3>1. \A i \in 1..Len(ansFifo[v]) : ansFifo[v][i].id \in Nat
      BY Ids DEF TypeInv, TypeOK
    <3>2. CASE v = w
      <4>1. reqFifo'[w] = <<>> /\ buffer'[w] = r /\ ansFifo'[w] = ansFifo[w]
        BY <2>1, <2>4
      <4>2. InOrder(reqFifo'[w]) /\ \A i \in 1..Len(reqFifo'[w]) : FALSE
        BY <4>1 DEF InOrder
      <4>3. \A i \in 1..Len(ansFifo[w]) : ansFifo[w][i].id <= r.id
        BY <2>3, <2>5, <3>1, <3>2 DEF OrderAt
      <4>4. QED
        BY <2>1, <2>3, <3>2, <4>1, <4>2, <4>3 DEF OrderAt
    <3>3. CASE v # w
      BY <2>1, <2>4, <3>3 DEF OrderAt
    <3>4. QED
      BY <3>2, <3>3
  <2>7. ASSUME NEW v \in Worker PROVE KeptAt(v)'
    <3>1. \A c \in 1..Len(Results) : \A i \in 1..Len(Results[c]) :
            Results[c][i].id \in Nat
      <4>1. \A c \in 1..Len(Results) : Results[c] \in Seq(Line)
        BY DEF TypeInv, TypeOK
      <4>2. \A c \in 1..Len(Results) : \A i \in 1..Len(Results[c]) :
              Results[c][i] \in Line
        BY <4>1
      <4>3. QED
        BY <4>2, Ids
    <3>2. KeptAt(v) /\ Results' = Results /\ ansFifo' = ansFifo
      BY <2>1
    <3>3. CASE v = w
      <4>1. ASSUME NEW c \in 1..Len(Results), NEW i \in 1..Len(Results[c]),
                   Results[c][i].from = w
            PROVE  /\ Results[c][i].id <= r.id
                   /\ \A j \in 1..Len(ansFifo[w]) :
                        Results[c][i].id <= ansFifo[w][j].id
        <5>1. /\ Results[c][i].id <= buffer[w].id
              /\ \A j \in 1..Len(ansFifo[w]) :
                   Results[c][i].id <= ansFifo[w][j].id
          BY <3>2, <3>3, <4>1 DEF KeptAt
        <5>2. QED
          BY <2>3, <2>5, <3>1, <5>1
      <4>2. buffer'[w] = r
        BY <2>1, <2>4
      <4>3. QED
        BY <3>2, <3>3, <4>1, <4>2 DEF KeptAt
    <3>4. CASE v # w
      <4>1. buffer'[v] = buffer[v]
        BY <2>1, <2>4, <3>4
      <4>2. QED
        BY <3>2, <4>1 DEF KeptAt
    <3>5. QED
      BY <3>3, <3>4
  <2>8. QED
    BY <2>1, <2>6, <2>7
<1>8. ASSUME NEW w \in Worker, ReadNothing(w) PROVE OrderInv'
  <2>1. UNCHANGED <<ansFifo, reqFifo, cur, buffer, Results>>
    BY <1>8 DEF ReadNothing, Run, master, TypeInv, TypeOK
  <2>2. QED
    BY <2>1 DEF OrderAt, KeptAt
<1>9. ASSUME NEW w \in Worker, WriteLine(w) PROVE OrderInv'
  BY <1>9, OrderWrite
<1>10. CASE UNCHANGED vars
  BY <1>10 DEF vars, master, worker, OrderAt, KeptAt
<1>11. QED
  BY <1>1, <1>2, <1>3, <1>4, <1>5, <1>6, <1>7, <1>8, <1>9, <1>10
     DEF Next, MasterStep, WorkerStep

\* Nothing overtakes anything between a worker and the master: every line that
\* was read, that waits in the pipe or that is being written is at most as new
\* as what follows it, so an answer in the wrong place is a late one.
THEOREM AnswersStayInOrder == Spec => []AnswersInOrder
<1>1. Init => TypeInv /\ HeardInv /\ OrderInv
  BY TypeInit, HeardInit, OrderInit
<1>2. (TypeInv /\ HeardInv /\ OrderInv) /\ [Next]_vars
        => (TypeInv /\ HeardInv /\ OrderInv)'
  BY TypeStep, HeardStep, OrderStep DEF HeardInv
<1>3. OrderInv => AnswersInOrder
  BY DEF OrderInv, OrderAt, KeptAt, AnswersInOrder
<1>4. QED
  BY <1>1, <1>2, <1>3, PTL DEF Spec

-----------------------------------------------------------------------------
(***************************************************************************)
(* Without timeouts and with answers of one line QueryExchange implements  *)
(* QueryService, for every number of workers, commands and pipe sizes.     *)
(***************************************************************************)

(* The inductive invariant: how far each worker is with the command.       *)

Present == [id |-> cur, cmd |-> cmd]

AnswerOf(w) == [from |-> w, id |-> cur]

\* Nothing is asked of worker w, nor has it said anything.
Idle(w) == /\ wpc[w] = "sleep" /\ ~usr1[w]
           /\ reqFifo[w] = <<>> /\ ansFifo[w] = <<>>

\* The request is there, SIGUSR1 is still to be sent.
Written(w) == /\ wpc[w] = "sleep" /\ ~usr1[w]
              /\ reqFifo[w] = <<Present>> /\ ansFifo[w] = <<>>

\* The worker has got the signal, or is going to; it runs the present command,
\* or its answer lies in the pipe.
Told(w)  == /\ \/ wpc[w] = "sleep" /\ usr1[w]
               \/ wpc[w] = "read" /\ ~usr1[w]
            /\ reqFifo[w] = <<Present>> /\ ansFifo[w] = <<>>
Runs(w)  == /\ wpc[w] = "run" /\ ~usr1[w] /\ left[w] = 1 /\ buffer[w].id = cur
            /\ reqFifo[w] = <<>> /\ ansFifo[w] = <<>>
Spoke(w) == /\ wpc[w] = "sleep" /\ ~usr1[w]
            /\ reqFifo[w] = <<>> /\ ansFifo[w] = <<AnswerOf(w)>>

Owes(w) == Told(w) \/ Runs(w) \/ Spoke(w)

\* The number of workers whose answers have been read.
Got == IF mpc = "poll" THEN k ELSE IF mpc = "drain" THEN k+1
       ELSE IF mpc = "report" THEN N ELSE 0

InHand(w) == mpc = "signal" /\ w = k

WorkersInv == \A w \in Worker :
  /\ Awaited(w) => Owes(w)
  /\ InHand(w) => Written(w)
  /\ ~Awaited(w) /\ ~InHand(w) => Idle(w)

ResultsInv ==
  /\ Len(Results) = Got
  /\ \A c \in 1..Got : Results[c] = <<AnswerOf(c-1)>>

ExactInv ==
  /\ TypeInv
  /\ timeoutTime = 0 /\ mpc \notin {"sleep", "aborted"}
  /\ mpc \in {"idle", "report"} => k = 0
  /\ WorkersInv /\ ResultsInv

\* The circumstances.
Exact == Timeouts = {0} /\ MaxLines = 1

-----------------------------------------------------------------------------
(* Sequences of one element.                                               *)

LEMMA OneElement ==
  ASSUME NEW S, NEW x \in S
  PROVE  /\ <<x>> \in Seq(S) /\ Len(<<x>>) = 1 /\ <<x>>[1] = x /\ Head(<<x>>) = x
         /\ Append(<<>>, x) = <<x>>
         /\ <<x>> # <<>>
OBVIOUS

\* A read of the only line takes it and leaves nothing.
LEMMA ChunkOfOne ==
  ASSUME NEW x \in Line, ansFifo[k] = <<x>>
  PROVE  /\ Chunk = <<x>>
         /\ SubSeq(ansFifo[k], Len(Chunk)+1, Len(ansFifo[k])) = <<>>
<1>1. Len(ansFifo[k]) = 1 /\ <<x>> \in Seq(Line)
  BY OneElement
<1>2. (IF Len(ansFifo[k]) < ReadMax THEN Len(ansFifo[k]) ELSE ReadMax) = Len(<<x>>)
  BY <1>1, ConstantsAssumption
<1>3. Chunk = SubSeq(<<x>>, 1, Len(<<x>>))
  BY <1>2 DEF Chunk
<1>4. Chunk = <<x>>
  BY <1>1, <1>3, SubSeqFull
<1>5. SubSeq(ansFifo[k], 2, 1) = <<>>
  BY SubSeqEmpty
<1>6. QED
  BY <1>1, <1>4, <1>5

-----------------------------------------------------------------------------
(* The workers.                                                            *)

LEMMA WorkerBounds ==
  /\ N \in Nat /\ N > 0 /\ 0 \in Worker
  /\ \A w \in Worker : w \in Nat /\ w < N
BY ConstantsAssumption DEF Worker

\* Nobody touches worker v.
Same(v) == UNCHANGED <<usr1[v], wpc[v], buffer[v], left[v], reqFifo[v], ansFifo[v]>>

\* A step of w is one of a worker that owes an answer, which it goes on owing.
LEMMA OwingStep ==
  ASSUME Exact, ExactInv, NEW w \in Worker, WorkerStep(w)
  PROVE  /\ Owes(w) /\ Owes(w)'
         /\ UNCHANGED master
         /\ \A v \in Worker : v # w => Same(v)
<1> USE DEF Same
<1>1. /\ usr1 \in [Worker -> BOOLEAN] /\ wpc \in [Worker -> {"sleep", "read", "run"}]
      /\ buffer \in [Worker -> Request \cup {NoRequest}]
      /\ left \in [Worker -> 0..MaxLines]
      /\ reqFifo \in [Worker -> Seq(Request)] /\ ansFifo \in [Worker -> Seq(Line)]
  BY DEF ExactInv, TypeInv, TypeOK
<1>2. Owes(w) \/ Written(w) \/ Idle(w)
  BY DEF ExactInv, WorkersInv
<1>3. CASE Deliver(w)
  <2>1. Told(w)
    BY <1>2, <1>3 DEF Deliver, Owes, Told, Runs, Spoke, Written, Idle
  <2>2. /\ UNCHANGED <<master, reqFifo, ansFifo, buffer, left>>
        /\ usr1' = [usr1 EXCEPT ![w] = FALSE] /\ wpc' = [wpc EXCEPT ![w] = "read"]
    BY <1>3 DEF Deliver
  <2>3. Told(w)'
    BY <1>1, <2>1, <2>2 DEF Told, Present, master
  <2>4. QED
    BY <1>1, <2>1, <2>2, <2>3 DEF Owes
<1>4. CASE ReadRequest(w)
  <2>1. Told(w) /\ ~usr1[w]
    BY <1>2, <1>4 DEF ReadRequest, Owes, Told, Runs, Spoke, Written, Idle
  <2>2. Head(reqFifo[w]) = Present
    BY <2>1 DEF Told
  <2>3. /\ UNCHANGED <<master, usr1, ansFifo>>
        /\ reqFifo' = [reqFifo EXCEPT ![w] = <<>>]
        /\ Run(w, Present)
    BY <1>4, <2>2 DEF ReadRequest
  <2>4. AnswerLines(Present) = {1}
    BY DEF AnswerLines, Exact
  <2>5. /\ left' = [left EXCEPT ![w] = 1]
        /\ buffer' = [buffer EXCEPT ![w] = Present]
        /\ wpc' = [wpc EXCEPT ![w] = "run"]
    BY <2>3, <2>4 DEF Run
  <2>6. Runs(w)'
    BY <1>1, <2>1, <2>3, <2>5 DEF Runs, Told, Present, master
  <2>7. QED
    BY <1>1, <2>1, <2>3, <2>5, <2>6 DEF Owes
<1>5. CASE ReadNothing(w)
  BY <1>2, <1>5 DEF ReadNothing, Owes, Told, Runs, Spoke, Written, Idle
<1>6. CASE WriteLine(w)
  <2>1. Runs(w)
    BY <1>2, <1>6 DEF WriteLine, Owes, Told, Runs, Spoke, Written, Idle
  <2>2. [from |-> w, id |-> buffer[w].id] = AnswerOf(w) /\ AnswerOf(w) \in Line
    BY <2>1, ConstantsAssumption
       DEF Runs, AnswerOf, Line, ExactInv, TypeInv, TypeOK, Answering, Request
  <2>3. /\ UNCHANGED <<master, usr1, buffer, reqFifo>>
        /\ ansFifo' = [ansFifo EXCEPT ![w] = <<AnswerOf(w)>>]
        /\ left' = [left EXCEPT ![w] = left[w]-1]
        /\ wpc' = [wpc EXCEPT ![w] = "sleep"]
    BY <1>6, <2>1, <2>2, OneElement DEF WriteLine, Runs
  <2>4. Spoke(w)'
    BY <1>1, <2>1, <2>3 DEF Runs, Spoke, AnswerOf, master
  <2>5. QED
    BY <1>1, <2>1, <2>3, <2>4 DEF Owes
<1>7. QED
  BY <1>3, <1>4, <1>5, <1>6 DEF WorkerStep

\* What a worker is at does not change while nobody touches it.
LEMMA Untouched ==
  ASSUME NEW v, Same(v), UNCHANGED <<cur, cmd>>
  PROVE  /\ Idle(v) => Idle(v)'
         /\ Owes(v) => Owes(v)'
         /\ Written(v) => Written(v)'
BY DEF Same, Idle, Owes, Written, Told, Runs, Spoke, Present, AnswerOf

LEMMA WorkersStay ==
  ASSUME Exact, ExactInv, NEW w \in Worker, WorkerStep(w)
  PROVE  WorkersInv' /\ ResultsInv' /\ UNCHANGED <<timeoutTime, mpc, k>>
<1>1. /\ Owes(w) /\ Owes(w)'
      /\ UNCHANGED <<mpc, k, cur, cmd, timeoutTime, Results>>
      /\ \A v \in Worker : v # w => Same(v)
  BY OwingStep DEF master
<1>2. /\ \A v \in Worker : Awaited(v)' <=> Awaited(v)
      /\ \A v \in Worker : InHand(v)' <=> InHand(v)
  BY <1>1 DEF Awaited, InHand
<1>3. Awaited(w)
  <2>1. <<Present>> # <<>> /\ <<AnswerOf(w)>> # <<>>
    OBVIOUS
  <2>2. ~Idle(w)
    BY <1>1, <2>1 DEF Owes, Told, Runs, Spoke, Idle
  <2>3. ~Written(w)
    BY <1>1, <2>1 DEF Owes, Told, Runs, Spoke, Written
  <2>4. QED
    BY <2>2, <2>3 DEF ExactInv, WorkersInv
<1>4. ~InHand(w)
  BY <1>3, WorkerBounds DEF InHand, Awaited
<1>5. ASSUME NEW v \in Worker
      PROVE  /\ Awaited(v)' => Owes(v)'
             /\ InHand(v)' => Written(v)'
             /\ ~Awaited(v)' /\ ~InHand(v)' => Idle(v)'
  <2>1. CASE v = w
    BY <1>1, <1>2, <1>3, <1>4, <2>1
  <2>2. CASE v # w
    BY <1>1, <1>2, <2>2, Untouched DEF ExactInv, WorkersInv
  <2>3. QED
    BY <2>1, <2>2
<1>6. ResultsInv'
  BY <1>1 DEF ExactInv, ResultsInv, Got, AnswerOf
<1>7. QED
  BY <1>1, <1>5, <1>6 DEF WorkersInv

-----------------------------------------------------------------------------
(* The master.                                                             *)

\* The master touches nobody but worker k.
LEMMA MasterStays ==
  ASSUME ExactInv, UNCHANGED <<cur, cmd>>, NEW w \in Worker, w = k,
         \A v \in Worker : v # w => Same(v),
         \A v \in Worker : v # w => (Awaited(v)' <=> Awaited(v)) /\ ~InHand(v)',
         /\ Awaited(w)' => Owes(w)'
         /\ InHand(w)' => Written(w)'
         /\ ~Awaited(w)' /\ ~InHand(w)' => Idle(w)'
  PROVE  WorkersInv'
<1>1. ASSUME NEW v \in Worker, v # w
      PROVE  /\ Awaited(v)' => Owes(v)'
             /\ InHand(v)' => Written(v)'
             /\ ~Awaited(v)' /\ ~InHand(v)' => Idle(v)'
  <2>1. ~InHand(v)
    BY <1>1 DEF InHand
  <2>2. QED
    BY <1>1, <2>1, Untouched DEF ExactInv, WorkersInv
<1>2. QED
  BY <1>1 DEF WorkersInv

LEMMA ReadStays == ASSUME ExactInv, ReadCommand PROVE WorkersInv' /\ ResultsInv'
<1>1. /\ mpc = "idle" /\ mpc' = "write" /\ k = 0 /\ k' = 0 /\ Results' = Results
      /\ UNCHANGED <<worker, reqFifo, ansFifo>>
  BY DEF ReadCommand, ExactInv
<1>2. \A v \in Worker : /\ ~Awaited(v) /\ ~InHand(v)
                        /\ ~Awaited(v)' /\ ~InHand(v)'
  BY <1>1, WorkerBounds DEF Awaited, InHand
<1>3. \A v \in Worker : Idle(v)'
  BY <1>1, <1>2 DEF ExactInv, WorkersInv, Idle, worker
<1>4. Got = 0 /\ Got' = 0
  BY <1>1 DEF Got
<1>5. QED
  BY <1>1, <1>2, <1>3, <1>4 DEF WorkersInv, ExactInv, ResultsInv

LEMMA AskStays ==
  ASSUME ExactInv, NEW w \in Worker, w = k, WriteRequest \/ SignalWorker
  PROVE  WorkersInv' /\ ResultsInv' /\ mpc' \in {"write", "signal", "poll"}
<1>0. /\ k \in Worker /\ k \in Nat
      /\ usr1 \in [Worker -> BOOLEAN] /\ reqFifo \in [Worker -> Seq(Request)]
      /\ UNCHANGED <<cur, cmd, Results>>
  BY WorkerBounds DEF ExactInv, TypeInv, TypeOK, WriteRequest, SignalWorker
<1>1. CASE WriteRequest
  <2>1. /\ mpc = "write" /\ mpc' = "signal" /\ k' = k
        /\ UNCHANGED <<usr1, wpc, buffer, left, ansFifo>>
        /\ reqFifo' = [reqFifo EXCEPT ![w] = Append(reqFifo[w], Present)]
    BY <1>1 DEF WriteRequest, worker, Present
  <2>2. Idle(w) /\ \A v \in Worker : (Awaited(v)' <=> Awaited(v)) /\ (InHand(v)' <=> v = w)
    BY <1>0, <2>1 DEF ExactInv, WorkersInv, Awaited, InHand
  <2>3. reqFifo'[w] = <<Present>> /\ ~Awaited(w)'
    BY <1>0, <2>1, <2>2 DEF Idle, Awaited
  <2>4. Written(w)'
    BY <1>0, <2>1, <2>2, <2>3 DEF Written, Idle, Present
  <2>5. WorkersInv'
    BY <1>0, <2>1, <2>2, <2>3, <2>4, MasterStays DEF Same
  <2>6. ResultsInv'
    BY <1>0, <2>1 DEF ExactInv, ResultsInv, Got
  <2>7. QED
    BY <2>1, <2>5, <2>6
<1>2. CASE SignalWorker
  <2>1. /\ mpc = "signal" /\ UNCHANGED <<wpc, buffer, left, reqFifo, ansFifo>>
        /\ usr1' = [usr1 EXCEPT ![w] = TRUE]
        /\ NextWorker("write", "poll")
    BY <1>2 DEF SignalWorker, ExactInv
  <2>2. \/ k' = k+1 /\ mpc' = "write"
        \/ k' = 0 /\ mpc' = "poll" /\ \A v \in Worker : v <= k
    BY <1>0, <2>1, NextWorkerCases
  <2>3. \A v \in Worker : ~InHand(v)' /\ (Awaited(v)' <=> Awaited(v) \/ v = w)
    BY <1>0, <2>1, <2>2, WorkerBounds DEF Awaited, InHand
  <2>4. Written(w) /\ Told(w)'
    BY <1>0, <2>1 DEF ExactInv, WorkersInv, InHand, Awaited, Written, Told, Present
  <2>5. WorkersInv'
    BY <1>0, <2>1, <2>3, <2>4, MasterStays DEF Owes, Same
  <2>6. Got = 0 /\ Got' = 0
    BY <2>1, <2>2 DEF Got
  <2>7. QED
    BY <1>0, <2>2, <2>5, <2>6 DEF ExactInv, ResultsInv
<1>3. QED
  BY <1>1, <1>2

LEMMA CollectStays ==
  ASSUME ExactInv, NEW w \in Worker, w = k, PollAnswer \/ DrainChunk \/ DrainEnd
  PROVE  /\ WorkersInv' /\ ResultsInv'
         /\ \/ PollAnswer /\ mpc = "poll" /\ mpc' = "drain" /\ Got' = k+1 /\ Got = k
            \/ /\ DrainEnd /\ mpc = "drain" /\ mpc' \in {"poll", "report"}
               /\ Got' = Got /\ (mpc' = "report" => k' = 0)
<1>0. /\ k \in Worker /\ k \in Nat /\ N \in Nat
      /\ ansFifo \in [Worker -> Seq(Line)] /\ Results \in Seq(Seq(Line))
      /\ cur # 0 /\ cur \in 0..MaxQueries
      /\ UNCHANGED <<cur, cmd>>
  BY WorkerBounds DEF ExactInv, TypeInv, TypeOK, Numbered, PollAnswer, DrainChunk, DrainEnd
<1>1. CASE PollAnswer
  <2>1. /\ mpc = "poll" /\ mpc' = "drain" /\ k' = k
        /\ UNCHANGED <<usr1, wpc, buffer, left, reqFifo>>
        /\ ansFifo[w] # <<>>
        /\ ansFifo' = [ansFifo EXCEPT ![w] = SubSeq(ansFifo[w], Len(Chunk)+1, Len(ansFifo[w]))]
        /\ Results' = Append(Results, Chunk)
    BY <1>1 DEF PollAnswer, TakeChunk, ExactInv, worker
  <2>2. Spoke(w)
    <3>1. Awaited(w)
      BY <1>0, <2>1 DEF Awaited
    <3>2. QED
      BY <2>1, <3>1 DEF ExactInv, WorkersInv, Owes, Told, Runs
  <2>3. AnswerOf(w) \in Line
    BY <1>0, ConstantsAssumption DEF AnswerOf, Line
  <2>4. Chunk = <<AnswerOf(w)>> /\ ansFifo'[w] = <<>>
    BY <1>0, <2>1, <2>2, <2>3, ChunkOfOne DEF Spoke
  <2>5. /\ \A v \in Worker \ {w} : (Awaited(v)' <=> Awaited(v)) /\ ~InHand(v)'
        /\ ~Awaited(w)' /\ ~InHand(w)'
    BY <1>0, <2>1, WorkerBounds DEF Awaited, InHand
  <2>6. Idle(w)'
    BY <2>1, <2>2, <2>4 DEF Spoke, Idle
  <2>7. WorkersInv'
    BY <1>0, <2>1, <2>5, <2>6, MasterStays DEF Same
  <2>8. Got = k /\ Got' = k+1
    BY <2>1 DEF Got
  <2>9. <<AnswerOf(w)>> \in Seq(Line)
    BY <2>3
  <2>10. /\ Len(Results') = k+1 /\ Results'[k+1] = <<AnswerOf(w)>>
         /\ \A c \in 1..k : Results'[c] = Results[c]
    BY <1>0, <2>1, <2>4, <2>8, <2>9, AppendProperties DEF ExactInv, ResultsInv
  <2>11. \A c \in 1..k+1 : Results'[c] = <<AnswerOf(c-1)>>
    <3>1. ASSUME NEW c \in 1..k+1 PROVE Results'[c] = <<AnswerOf(c-1)>>
      <4>1. c \in 1..k \/ c = k+1
        BY <1>0
      <4>2. CASE c = k+1
        BY <1>0, <2>10, <4>2
      <4>3. CASE c \in 1..k
        BY <2>8, <2>10, <4>3 DEF ExactInv, ResultsInv
      <4>4. QED
        BY <4>1, <4>2, <4>3
    <3>2. QED
      BY <3>1
  <2>12. ResultsInv'
    BY <1>0, <2>8, <2>10, <2>11 DEF ResultsInv, AnswerOf
  <2>13. QED
    BY <1>1, <2>1, <2>7, <2>8, <2>12
<1>2. CASE DrainChunk
  BY <1>0, <1>2 DEF DrainChunk, TakeChunk, ExactInv, WorkersInv, Awaited, InHand, Idle
<1>3. CASE DrainEnd
  <2>1. /\ mpc = "drain" /\ Results' = Results
        /\ UNCHANGED <<usr1, wpc, buffer, left, reqFifo, ansFifo>>
        /\ NextWorker("poll", "report")
    BY <1>3 DEF DrainEnd, worker
  <2>2. \/ k' = k+1 /\ mpc' = "poll"
        \/ k' = 0 /\ mpc' = "report" /\ \A v \in Worker : v <= k
    BY <1>0, <2>1, NextWorkerCases
  <2>3. \A v \in Worker : ~InHand(v)' /\ (Awaited(v)' <=> Awaited(v))
    BY <1>0, <2>1, <2>2, WorkerBounds DEF Awaited, InHand
  <2>4. Idle(w) /\ Idle(w)' /\ ~Awaited(w)
    BY <1>0, <2>1 DEF ExactInv, WorkersInv, Awaited, InHand, Idle
  <2>5. WorkersInv'
    BY <1>0, <2>1, <2>3, <2>4, MasterStays DEF Same
  <2>6. Got' = Got
    <3>1. CASE k' = k+1 /\ mpc' = "poll"
      BY <2>1, <3>1 DEF Got
    <3>2. CASE mpc' = "report" /\ \A v \in Worker : v <= k
      <4>1. N-1 \in Worker
        BY ConstantsAssumption DEF Worker
      <4>2. k+1 = N
        BY <1>0, <3>2, <4>1, WorkerBounds
      <4>3. QED
        BY <2>1, <3>2, <4>2 DEF Got
    <3>3. QED
      BY <2>2, <3>1, <3>2
  <2>7. QED
    BY <1>0, <1>3, <2>1, <2>2, <2>5, <2>6 DEF ExactInv, ResultsInv, AnswerOf
<1>4. QED
  BY <1>1, <1>2, <1>3

LEMMA ReportStays ==
  ASSUME ExactInv, Report
  PROVE  WorkersInv' /\ ResultsInv' /\ mpc = "report" /\ mpc' = "idle" /\ k' = 0
<1>1. /\ mpc = "report" /\ k = 0 /\ k' = 0 /\ Results' = <<>>
      /\ UNCHANGED <<worker, reqFifo, ansFifo>>
  BY DEF Report, ExactInv
<1>2. Len(Results) = N /\ N > 0
  BY <1>1, WorkerBounds DEF ExactInv, ResultsInv, Got
<1>3. mpc' = "idle"
  BY <1>2 DEF Report, CountOfNothing
<1>4. \A v \in Worker : /\ ~Awaited(v) /\ ~InHand(v)
                        /\ ~Awaited(v)' /\ ~InHand(v)'
  BY <1>1, <1>3 DEF Awaited, InHand
<1>5. \A v \in Worker : Idle(v)'
  BY <1>1, <1>4 DEF ExactInv, WorkersInv, Idle, worker
<1>6. Len(Results') = 0 /\ Got' = 0
  BY <1>1, <1>3 DEF Got
<1>7. QED
  BY <1>1, <1>3, <1>4, <1>5, <1>6 DEF WorkersInv, ResultsInv

-----------------------------------------------------------------------------
(* The exchange is exact.                                                  *)

LEMMA ExactInit == Init => ExactInv
<1> SUFFICES ASSUME Init PROVE ExactInv
  OBVIOUS
<1>1. TypeInv
  BY TypeInit
<1>2. \A w \in Worker : Idle(w) /\ ~Awaited(w) /\ ~InHand(w)
  BY DEF Init, Idle, Awaited, InHand
<1>3. Got = 0 /\ Len(Results) = 0
  BY DEF Init, Got
<1>4. QED
  BY <1>1, <1>2, <1>3 DEF Init, ExactInv, WorkersInv, ResultsInv

LEMMA ExactStep ==
  ASSUME Exact, ExactInv, [Next]_vars
  PROVE  ExactInv'
<1>1. TypeInv' /\ k \in Worker
  BY TypeStep DEF ExactInv, TypeInv, TypeOK
<1>2. CASE ReadCommand
  <2>1. timeoutTime' = 0 /\ mpc' = "write"
    BY <1>2 DEF ReadCommand, Exact, ExactInv
  <2>2. QED
    BY <1>1, <1>2, <2>1, ReadStays DEF ExactInv
<1>3. CASE WriteRequest \/ SignalWorker
  <2>1. timeoutTime' = 0
    BY <1>3 DEF WriteRequest, SignalWorker, ExactInv
  <2>2. QED
    BY <1>1, <1>3, <2>1, AskStays DEF ExactInv
<1>4. CASE PollAnswer \/ DrainChunk \/ DrainEnd
  <2>1. timeoutTime' = 0
    BY <1>4 DEF PollAnswer, DrainChunk, DrainEnd, ExactInv
  <2>2. QED
    BY <1>1, <1>4, <2>1, CollectStays DEF ExactInv
<1>5. CASE Report
  <2>1. timeoutTime' = 0
    BY <1>5 DEF Report, ExactInv
  <2>2. QED
    BY <1>1, <1>5, <2>1, ReportStays DEF ExactInv
<1>6. ASSUME NEW w \in Worker, WorkerStep(w) PROVE ExactInv'
  BY <1>1, <1>6, WorkersStay DEF ExactInv
<1>7. CASE UNCHANGED vars
  <2>1. UNCHANGED <<mpc, k, cur, cmd, timeoutTime, Results>> /\ \A v : Same(v)
    BY <1>7 DEF vars, master, worker, Same
  <2>2. \A v \in Worker : (Awaited(v)' <=> Awaited(v)) /\ (InHand(v)' <=> InHand(v))
    BY <2>1 DEF Awaited, InHand
  <2>3. WorkersInv'
    BY <2>1, <2>2, Untouched DEF ExactInv, WorkersInv
  <2>4. ResultsInv'
    BY <2>1 DEF ExactInv, ResultsInv, Got, AnswerOf
  <2>5. QED
    BY <1>1, <2>1, <2>3, <2>4 DEF ExactInv
<1>8. CASE WakeUp \/ PollNothing
  BY <1>8 DEF WakeUp, PollNothing, ExactInv
<1>9. QED
  BY <1>2, <1>3, <1>4, <1>5, <1>6, <1>7, <1>8 DEF Next, MasterStep

\* The workers whose reply has been read are the first ones.
RepliedInv == Replied = {w \in Worker : w < Got}

LEMMA RepliedAre == ExactInv => RepliedInv
<1> SUFFICES ASSUME ExactInv PROVE RepliedInv
  OBVIOUS
<1>1. Got \in Nat /\ \A w \in Worker : w \in Nat
  BY WorkerBounds DEF Got, ExactInv, TypeInv, TypeOK
<1>2. ASSUME NEW w \in Worker, w \in Replied PROVE w < Got
  <2>0. PICK c \in 1..Len(Results) :
          \E i \in 1..Len(Results[c]) : Results[c][i] = AnswerOf(w)
    BY <1>2 DEF Replied, AnswerOf
  <2>1. PICK i \in 1..Len(Results[c]) : Results[c][i] = AnswerOf(w)
    BY <2>0
  <2>2. c \in 1..Got /\ Results[c] = <<AnswerOf(c-1)>>
    BY DEF ExactInv, ResultsInv
  <2>3. i = 1
    BY <2>2
  <2>4. AnswerOf(c-1) = AnswerOf(w)
    BY <2>1, <2>2, <2>3
  <2>5. AnswerOf(c-1).from = c-1 /\ AnswerOf(w).from = w
    BY DEF AnswerOf
  <2>6. QED
    BY <1>1, <2>2, <2>4, <2>5
<1>3. ASSUME NEW w \in Worker, w < Got PROVE w \in Replied
  <2>1. w+1 \in 1..Got /\ (w+1)-1 = w /\ Len(Results) = Got
    BY <1>1, <1>3 DEF ExactInv, ResultsInv
  <2>2. Results[w+1] = <<AnswerOf(w)>>
    BY <2>1 DEF ExactInv, ResultsInv
  <2>3. 1 \in 1..Len(Results[w+1]) /\ Results[w+1][1] = AnswerOf(w)
    BY <2>2
  <2>4. QED
    BY <2>1, <2>3 DEF Replied, AnswerOf
<1>4. QED
  BY <1>2, <1>3 DEF Replied, RepliedInv

LEMMA ServiceStep ==
  ASSUME Exact, ExactInv, [Next]_vars
  PROVE  [Service!Next]_(Service!vars)
<1>0. /\ ExactInv' /\ k \in Worker /\ k \in Nat
      /\ RepliedInv
      /\ \A w \in Worker : w \in Nat /\ w < N
  BY ExactStep, RepliedAre, WorkerBounds DEF ExactInv, TypeInv, TypeOK
<1>1. RepliedInv'
  BY <1>0, RepliedAre, PTL
<1>2. ASSUME Got' = Got, UNCHANGED cur, mpc # "idle" <=> mpc' # "idle"
      PROVE  UNCHANGED Service!vars
  BY <1>0, <1>1, <1>2 DEF Service!vars, RepliedInv
<1>3. CASE ReadCommand
  <2>1. mpc = "idle" /\ mpc' = "write" /\ cur' = cur+1
    BY <1>3 DEF ReadCommand
  <2>2. Got' = Got
    BY <2>1 DEF Got
  <2>3. Service!Ask
    BY <1>0, <1>1, <2>1, <2>2 DEF Service!Ask, RepliedInv
  <2>4. QED
    BY <2>3 DEF Service!Next
<1>4. CASE WriteRequest \/ SignalWorker
  <2>1. mpc \in {"write", "signal"} /\ UNCHANGED cur
    BY <1>4 DEF WriteRequest, SignalWorker
  <2>2. mpc' \in {"write", "signal", "poll"}
    BY <1>0, <1>4, AskStays
  <2>3. Got = 0 /\ Got' = 0
    <3>1. mpc' = "poll" => k' = 0
      BY <1>0, <1>4, <2>1, NextWorkerCases DEF WriteRequest, SignalWorker, ExactInv
    <3>2. QED
      BY <2>1, <2>2, <3>1 DEF Got
  <2>4. QED
    BY <1>2, <2>1, <2>2, <2>3
<1>5. CASE PollAnswer \/ DrainChunk \/ DrainEnd
  <2>1. UNCHANGED cur
    BY <1>5 DEF PollAnswer, DrainChunk, DrainEnd
  <2>2. \/ mpc = "poll" /\ mpc' = "drain" /\ Got' = k+1 /\ Got = k
        \/ mpc = "drain" /\ mpc' \in {"poll", "report"} /\ Got' = Got
    BY <1>0, <1>5, CollectStays
  <2>3. CASE mpc = "poll" /\ mpc' = "drain" /\ Got' = k+1 /\ Got = k
    <3>1. k \notin Replied /\ Replied' = Replied \cup {k}
      <4>1. \A w \in Worker : w < k+1 <=> w < k \/ w = k
        BY <1>0
      <4>2. /\ Replied = {w \in Worker : w < k}
            /\ Replied' = {w \in Worker : w < k \/ w = k}
        BY <1>0, <1>1, <2>3, <4>1 DEF RepliedInv
      <4>3. QED
        BY <1>0, <4>2
    <3>2. Service!Reply(k)
      BY <2>1, <2>3, <3>1 DEF Service!Reply
    <3>3. QED
      BY <1>0, <3>2 DEF Service!Next
  <2>4. CASE mpc = "drain" /\ mpc' \in {"poll", "report"} /\ Got' = Got
    BY <1>2, <2>1, <2>4
  <2>5. QED
    BY <2>2, <2>3, <2>4
<1>6. CASE Report
  <2>1. mpc = "report" /\ mpc' = "idle" /\ UNCHANGED cur
    BY <1>6, ReportStays DEF Report
  <2>2. Got = N /\ Got' = 0
    BY <2>1 DEF Got
  <2>3. Replied = Worker /\ Replied' = {}
    <3>1. Replied = {w \in Worker : w < N} /\ Replied' = {w \in Worker : w < 0}
      BY <1>0, <1>1, <2>2 DEF RepliedInv
    <3>2. \A w \in Worker : w < N /\ ~(w < 0)
      BY WorkerBounds
    <3>3. QED
      BY <3>1, <3>2
  <2>4. Service!Finish
    BY <2>1, <2>3 DEF Service!Finish
  <2>5. QED
    BY <2>4 DEF Service!Next
<1>7. CASE (\E w \in Worker : WorkerStep(w)) \/ UNCHANGED vars
  <2>1. UNCHANGED <<mpc, k, cur>>
    BY <1>7, OwingStep DEF vars, master
  <2>2. QED
    BY <1>2, <2>1 DEF Got
<1>8. CASE WakeUp \/ PollNothing
  BY <1>8 DEF WakeUp, PollNothing, ExactInv
<1>9. QED
  BY <1>3, <1>4, <1>5, <1>6, <1>7, <1>8 DEF Next, MasterStep

LEMMA ExactInvariance == ASSUME Exact PROVE Spec => []ExactInv
<1>1. ExactInv /\ [Next]_vars => ExactInv'
  BY ExactStep
<1>2. QED
  BY <1>1, ExactInit, PTL DEF Spec

\* Without timeouts and with answers of one line, what the master prints of a
\* command is one answer of each worker, in their order, to this command.
THEOREM PrintsOneAnswerEach ==
  ASSUME Exact
  PROVE  Spec => []OneAnswerEach
<1>1. ExactInv => OneAnswerEach
  <2>1. ASSUME ExactInv, mpc = "report"
        PROVE  Results = [c \in 1..N |-> <<[from |-> c-1, id |-> cur]>>]
    <3>1. Len(Results) = N /\ \A c \in 1..N : Results[c] = <<[from |-> c-1, id |-> cur]>>
      BY <2>1 DEF ExactInv, ResultsInv, Got, AnswerOf
    <3>2. Results \in [1..N -> Seq(Line)]
      BY <2>1, <3>1, LenProperties DEF ExactInv, TypeInv, TypeOK
    <3>3. QED
      BY <3>1, <3>2
  <2>2. QED
    BY <2>1 DEF OneAnswerEach
<1>2. QED
  BY <1>1, ExactInvariance, PTL

\* In these circumstances every step of the exchange is one of the service or
\* none: no command is finished before every worker has replied to it, and the
\* reply to one command is never counted for another.
THEOREM ExchangeImplementsService ==
  ASSUME Exact
  PROVE  Spec => Service!SafeSpec
<1>1. Init => Service!Init
  <2>1. ASSUME Init PROVE Replied = {} /\ cur = 0 /\ mpc = "idle"
    BY <2>1 DEF Init, Replied
  <2>2. QED
    BY <2>1 DEF Service!Init
<1>2. ExactInv /\ [Next]_vars => [Service!Next]_(Service!vars)
  BY ServiceStep
<1>3. QED
  BY <1>1, <1>2, ExactInvariance, PTL DEF Spec, Service!SafeSpec

=============================================================================
