------------------------------- MODULE Server -------------------------------
(***************************************************************************)
(* ./myhttpd (Server.cpp): main accepts the connections of browsers and    *)
(* crawlers and puts them into Buffer, the server threads take them out    *)
(* (the last one first) and answer, and a further thread accepts and       *)
(* answers commands on the other port.                                     *)
(*                                                                         *)
(* Buffer is protected by mtx.  `newsock', into which main and the command *)
(* thread both accept, is a global without protection: every use of it is  *)
(* a step of its own.  What these variables hold are descriptors, numbers  *)
(* that accept() gives out again once they are closed, whoever still has   *)
(* them.  A local variable is None or 0 when it is not in use.  Clients may *)
(* keep silent or hang up.                                                 *)
(* Not modelled: contents of requests and pages, bytes (as pages), and the *)
(* descriptors of the page files, which a stale close may hit as well.     *)
(*                                                                         *)
(* terminate runs in the command thread after SHUTDOWN, or in main, which  *)
(* is the thread that gets SIGINT.  It asks all threads to cancel, which   *)
(* each does at its next cancellation point (a system call that may wait), *)
(* and goes on at once.  glibc's pthread_cond_destroy waits for waiters to *)
(* leave, pthread_mutex_destroy refuses a mutex in use, and calls on a     *)
(* destroyed mutex fail at once.  A thread that uses Buffer after that may *)
(* get away with it, be lost, or end the process.                          *)
(***************************************************************************)
EXTENDS Integers, Sequences, FiniteSets

CONSTANTS
  Thread,      \* server threads
  Client,      \* connections to the page port
  Found,       \* those whose request is for a file that exists
  Silent,      \* those that need never send it
  Stats, Shutdown,  \* connections to the command port, by what they send
  Fd,          \* the descriptors there are for connections
  NoOne, None, \* no thread, no connection or descriptor
  MayStop      \* whether SIGINT or a failing call may end the process

Operator == Stats \cup Shutdown
Conn == Client \cup Operator

ASSUME ServerAssumption ==
  /\ IsFiniteSet(Thread)
  /\ NoOne \notin Thread \cup {"main"}
  /\ "main" \notin Thread
  /\ IsFiniteSet(Fd)
  /\ None \notin Conn \cup Fd
  /\ Client \cap Operator = {} /\ Stats \cap Shutdown = {}
  /\ Found \subseteq Client /\ Silent \subseteq Client
  /\ MayStop \in BOOLEAN

VARIABLES
  mtx,
  Buffer,
  newsock,     \* the global both accepting threads assign
  mainPc, item,          \* main, and the argument of its call of place
  cmdPc, terminateNow,   \* the command thread
  pc, socket,            \* the server threads, and the connection each serves
  pages, loaded,
  accepted,    \* connections accepted so far
  unread,      \* those whose request no thread has read
  fd,          \* the connection behind each descriptor
  answers,     \* history: per connection, how often a response was written
  stop,        \* how far main and the command thread are in terminate
  canceled,    \* the threads that have been asked to cancel
  freed,       \* what terminate has destroyed: the mutex, the lists
  up

mainVars == <<mainPc, item>>
cmdVars  == <<cmdPc, terminateNow>>
counters == <<pages, loaded>>
ending   == <<stop, canceled, freed>>
network  == <<accepted, unread, fd, answers>>
vars == <<mtx, Buffer, newsock, mainVars, cmdVars, pc, socket, counters,
          network, ending, up>>

TypeOK ==
  /\ mtx \in Thread \cup {"main", NoOne}
  /\ Buffer \in Seq(Fd \cup {None})
  /\ newsock \in Fd \cup {None}
  /\ mainPc \in {"accept", "call", "lock", "append", "signal", "lost"}
  /\ item \in Fd \cup {None}
  /\ cmdPc \in {"accept", "read", "write", "close", "dead"}
  /\ terminateNow \in BOOLEAN
  /\ pc \in [Thread -> {"obtain", "check", "wait", "woken", "read", "load",
                        "store", "write", "close", "leave", "dead"}]
  /\ socket \in [Thread -> Fd \cup {None}]
  /\ pages \in Nat /\ loaded \in [Thread -> Nat]
  /\ accepted \subseteq Conn
  /\ unread \subseteq accepted
  /\ fd \in [Fd -> Conn \cup {None}]
  /\ answers \in [Conn -> Nat]
  /\ stop \in [{"main", "command"} ->
                 {"no", "cancel", "cond", "mutex", "lists", "exit"}]
  /\ canceled \subseteq Thread \cup {"command"}
  /\ freed \subseteq {"mutex", "lists"}
  /\ up \in BOOLEAN

\* The threads have been created.
Init ==
  /\ mtx = NoOne /\ Buffer = <<>> /\ newsock = None
  /\ mainPc = "accept" /\ item = None
  /\ cmdPc = "accept" /\ terminateNow = FALSE
  /\ pc = [t \in Thread |-> "obtain"] /\ socket = [t \in Thread |-> None]
  /\ pages = 0 /\ loaded = [t \in Thread |-> 0]
  /\ accepted = {} /\ unread = {}
  /\ fd = [d \in Fd |-> None]
  /\ answers = [c \in Conn |-> 0]
  /\ stop = [p \in {"main", "command"} |-> "no"]
  /\ canceled = {} /\ freed = {}
  /\ up = TRUE

-----------------------------------------------------------------------------
(* Connections and the system calls on them.                               *)

Free == {d \in Fd : fd[d] = None}

\* accept() returns a descriptor that is free.
AcceptFrom(S) == \E c \in S \ accepted, d \in Free :
  /\ newsock' = d
  /\ accepted' = accepted \cup {c}
  /\ unread' = unread \cup {c}
  /\ fd' = [fd EXCEPT ![d] = c]
  /\ UNCHANGED answers

\* read() waits until the request comes or the client hangs up, which neither
\* need do, and fails at once on a closed descriptor.
Read(d, heard) == /\ heard => fd[d] \in unread
                  /\ unread' = unread \ {fd[d]}
                  /\ UNCHANGED <<accepted, fd, answers>>

\* write() on a closed descriptor fails, and perror_exit ends the process.
Write(d) == /\ IF fd[d] # None
               THEN answers' = [answers EXCEPT ![fd[d]] = @ + 1] /\ up' = up
               ELSE answers' = answers /\ up' = FALSE
            /\ UNCHANGED <<accepted, unread, fd>>

\* close() of a closed descriptor does nothing.
Close(d) == /\ fd' = [fd EXCEPT ![d] = None]
            /\ UNCHANGED <<accepted, unread, answers>>

-----------------------------------------------------------------------------
(* main                                                                    *)

\* pthread_mutex_lock
Lock(p) == /\ mtx = NoOne
           /\ mtx' = IF "mutex" \in freed THEN NoOne ELSE p

MainGoes(here, there) ==
  up /\ stop["main"] = "no" /\ mainPc = here /\ mainPc' = there

Accept ==
  /\ MainGoes("accept", "call")
  /\ AcceptFrom(Client)
  /\ UNCHANGED <<mtx, Buffer, item, cmdVars, pc, socket, counters, ending, up>>

\* place(Buffer, newsock): the argument is what newsock holds by now.
CallPlace ==
  /\ MainGoes("call", "lock")
  /\ item' = newsock
  /\ UNCHANGED <<mtx, Buffer, newsock, cmdVars, pc, socket, counters, ending, network, up>>

PlaceLock ==
  /\ MainGoes("lock", "append")
  /\ Lock("main")
  /\ UNCHANGED <<Buffer, newsock, item, cmdVars, pc, socket, counters, ending, network, up>>

\* Mutant: the buffer has one place only.
PlaceOver ==
  /\ MainGoes("append", "signal")
  /\ Buffer' = <<item>>
  /\ mtx' = NoOne /\ item' = None
  /\ UNCHANGED <<newsock, cmdVars, pc, socket, counters, ending, network, up>>

PlaceAppend ==
  /\ MainGoes("append", "signal")
  /\ Buffer' = Append(Buffer, item)
  /\ mtx' = NoOne /\ item' = None
  /\ UNCHANGED <<newsock, cmdVars, pc, socket, counters, ending, network, up>>

\* ... into a Buffer that is deleted or no longer protected.
PlaceAstray ==
  /\ freed # {}
  /\ \/ MainGoes("append", "lost") /\ up' = up
     \/ MainGoes("append", "append") /\ up' = FALSE
  /\ UNCHANGED <<mtx, Buffer, newsock, item, cmdVars, pc, socket, counters, ending, network>>

Waiting == {t \in Thread : pc[t] = "wait"}

\* Mutant: only the first connection in an empty buffer is signalled.
SignalFirst ==
  /\ MainGoes("signal", "accept")
  /\ IF Waiting = {} \/ Len(Buffer) # 1 THEN UNCHANGED pc
     ELSE \E t \in Waiting : pc' = [pc EXCEPT ![t] = "woken"]
  /\ UNCHANGED <<mtx, Buffer, newsock, item, cmdVars, socket, counters, ending, network, up>>

\* pthread_cond_signal
Signal ==
  /\ MainGoes("signal", "accept")
  /\ IF Waiting = {} THEN UNCHANGED pc
     ELSE \E t \in Waiting : pc' = [pc EXCEPT ![t] = "woken"]
  /\ UNCHANGED <<mtx, Buffer, newsock, item, cmdVars, socket, counters, ending, network, up>>

-----------------------------------------------------------------------------
(* A server thread: obtain, then one request.                               *)

Goes(t, here, there) == up /\ pc[t] = here /\ pc' = [pc EXCEPT ![t] = there]

\* At first, or on the way out of pthread_cond_wait.
ObtainLock(t) ==
  /\ \E here \in {"obtain", "woken"} : Goes(t, here, "check")
  /\ Lock(t)
  /\ UNCHANGED <<Buffer, newsock, mainVars, cmdVars, socket, counters, ending, network, up>>

\* Without a mutex pthread_cond_wait fails, and the thread asks over and over.
ObtainWait(t) ==
  /\ Goes(t, "check", "wait")
  /\ Buffer = <<>> /\ "mutex" \notin freed
  /\ mtx' = NoOne
  /\ UNCHANGED <<Buffer, newsock, mainVars, cmdVars, socket, counters, ending, network, up>>

\* Mutant: the connection is looked at but stays in the buffer.
ObtainPeek(t) ==
  /\ Goes(t, "check", "read")
  /\ Buffer # <<>>
  /\ socket' = [socket EXCEPT ![t] = Buffer[Len(Buffer)]]
  /\ mtx' = NoOne
  /\ UNCHANGED <<Buffer, newsock, mainVars, cmdVars, counters, ending, network, up>>

\* buffer->remove() takes the last connection.
ObtainTake(t) ==
  /\ Goes(t, "check", "read")
  /\ Buffer # <<>>
  /\ socket' = [socket EXCEPT ![t] = Buffer[Len(Buffer)]]
  /\ Buffer' = SubSeq(Buffer, 1, Len(Buffer)-1)
  /\ mtx' = NoOne
  /\ UNCHANGED <<newsock, mainVars, cmdVars, counters, ending, network, up>>

\* ... from a Buffer that is deleted or no longer protected.
ObtainAstray(t) ==
  /\ freed # {}
  /\ \/ Goes(t, "check", "dead") /\ up' = up
     \/ Goes(t, "check", "check") /\ up' = FALSE
  /\ UNCHANGED <<mtx, Buffer, newsock, mainVars, cmdVars, socket, counters, ending, network>>

SpuriousWake(t) ==
  /\ Goes(t, "wait", "woken")
  /\ UNCHANGED <<mtx, Buffer, newsock, mainVars, cmdVars, socket, counters, ending, network, up>>

\* Whether the file is found that the array `request' names, which is as it was
\* before when nothing or no GET has come.
File(d, heard) == IF heard /\ fd[d] \in Client THEN {fd[d] \in Found} ELSE BOOLEAN

\* Mutant: nothing is written for a file that is not there.
ReadOrHangUp(t) == \E heard, found \in BOOLEAN :
  /\ t \notin canceled
  /\ Goes(t, "read", IF found THEN "load" ELSE "close")
  /\ Read(socket[t], heard) /\ found \in File(socket[t], heard)
  /\ UNCHANGED <<mtx, Buffer, newsock, mainVars, cmdVars, socket, counters, ending, up>>

\* A file that is found will be counted; for others there is a 403 or a 404.
ReadRequest(t) == \E heard, found \in BOOLEAN :
  /\ t \notin canceled
  /\ Goes(t, "read", IF found THEN "load" ELSE "write")
  /\ Read(socket[t], heard) /\ found \in File(socket[t], heard)
  /\ UNCHANGED <<mtx, Buffer, newsock, mainVars, cmdVars, socket, counters, ending, up>>

\* pages++, a load and a store.
LoadPages(t) ==
  /\ Goes(t, "load", "store")
  /\ loaded' = [loaded EXCEPT ![t] = pages]
  /\ UNCHANGED <<mtx, Buffer, newsock, mainVars, cmdVars, socket, pages, ending, network, up>>

\* Mutant: the wrong sign.
StoreLess(t) ==
  /\ Goes(t, "store", "write")
  /\ pages' = loaded[t] - 1
  /\ loaded' = [loaded EXCEPT ![t] = 0]
  /\ UNCHANGED <<mtx, Buffer, newsock, mainVars, cmdVars, socket, ending, network, up>>

StorePages(t) ==
  /\ Goes(t, "store", "write")
  /\ pages' = loaded[t] + 1
  /\ loaded' = [loaded EXCEPT ![t] = 0]
  /\ UNCHANGED <<mtx, Buffer, newsock, mainVars, cmdVars, socket, ending, network, up>>

WriteResponse(t) ==
  /\ t \notin canceled /\ Goes(t, "write", "close")
  /\ Write(socket[t])
  /\ UNCHANGED <<mtx, Buffer, newsock, mainVars, cmdVars, socket, counters, ending>>

CloseSocket(t) ==
  /\ t \notin canceled /\ Goes(t, "close", "obtain")
  /\ Close(socket[t])
  /\ socket' = [socket EXCEPT ![t] = None]
  /\ UNCHANGED <<mtx, Buffer, newsock, mainVars, cmdVars, counters, ending, up>>

-----------------------------------------------------------------------------
(* The command thread.  Each call reads newsock anew.                       *)

\* All its steps are cancellation points.
CommandGoes(here, there) ==
  /\ up /\ stop["command"] = "no" /\ "command" \notin canceled
  /\ cmdPc = here /\ cmdPc' = there

others == <<mtx, Buffer, mainVars, pc, socket, counters>>

CommandAccept ==
  /\ CommandGoes("accept", "read")
  /\ AcceptFrom(Operator)
  /\ UNCHANGED <<others, ending, terminateNow, up>>

CommandRead == \E heard \in BOOLEAN :
  /\ CommandGoes("read", "write")
  /\ Read(newsock, heard)
  /\ terminateNow' = (heard /\ fd[newsock] \in Shutdown)
  /\ UNCHANGED <<others, ending, newsock, up>>

CommandWrite ==
  /\ CommandGoes("write", "close")
  /\ Write(newsock)
  /\ UNCHANGED <<others, ending, newsock, terminateNow>>

\* close(newsock), and terminate(0) after SHUTDOWN.
CommandClose ==
  /\ CommandGoes("close", "accept")
  /\ Close(newsock)
  /\ stop' = IF terminateNow THEN [stop EXCEPT !["command"] = "cancel"] ELSE stop
  /\ UNCHANGED <<others, newsock, terminateNow, canceled, freed, up>>

\* accept() finds no free descriptor, and perror_exit ends the process.
NoDescriptor ==
  /\ Free = {}
  /\ MainGoes("accept", "accept") \/ CommandGoes("accept", "accept")
  /\ up' = FALSE
  /\ UNCHANGED <<others, newsock, cmdVars, network, ending>>

\* Another system call fails, with the same end.
Stop ==
  /\ up /\ MayStop
  /\ up' = FALSE
  /\ UNCHANGED <<others, newsock, cmdVars, network, ending>>

-----------------------------------------------------------------------------
(* Cancellation                                                             *)

\* A server thread acts on it in read, write and close, and may do so in the
\* calls that read the file.
Die(t) ==
  /\ t \in canceled
  /\ \E here \in {"read", "load", "write", "close"} : Goes(t, here, "dead")
  /\ socket' = [socket EXCEPT ![t] = None]
  /\ UNCHANGED <<mtx, Buffer, newsock, mainVars, cmdVars, counters, ending, network, up>>

\* In pthread_cond_wait it stops being a waiter ...
LeaveWait(t) ==
  /\ t \in canceled /\ Goes(t, "wait", "leave")
  /\ UNCHANGED <<mtx, Buffer, newsock, mainVars, cmdVars, socket, counters, ending, network, up>>

\* ... and takes the mutex, which nobody releases.
DieLocking(t) ==
  /\ Goes(t, "leave", "dead")
  /\ Lock(t)
  /\ UNCHANGED <<Buffer, newsock, mainVars, cmdVars, socket, counters, ending, network, up>>

\* The command thread, which can reach its own terminate, but not beyond the
\* message there, when main is in terminate too.
CommandDies ==
  /\ up /\ "command" \in canceled /\ cmdPc # "dead"
  /\ \/ stop["command"] = "no"
     \/ stop["command"] = "cancel" /\ stop["main"] # "no"
  /\ cmdPc' = "dead"
  /\ stop' = [stop EXCEPT !["command"] = "no"]
  /\ UNCHANGED <<others, newsock, terminateNow, network, canceled, freed, up>>

-----------------------------------------------------------------------------
(* terminate, in main or in the command thread                              *)

Terminates(p, here, there) ==
  /\ up /\ stop[p] = here /\ stop' = [stop EXCEPT ![p] = there]
  /\ UNCHANGED <<others, newsock, cmdVars, network>>

\* main gets SIGINT.
Interrupt == /\ MayStop /\ mainPc # "lost"
             /\ Terminates("main", "no", "cancel")
             /\ UNCHANGED <<canceled, freed, up>>

\* Mutant: the list's first entry, the command thread, is thought to be enough.
CancelFirst(p) ==
  /\ canceled' = canceled \cup {"command"}
  /\ Terminates(p, "cancel", "cond")
  /\ up' = ("lists" \notin freed)
  /\ UNCHANGED freed

\* pthread_cancel for each of `threads', while there is that list: the command
\* thread is its first entry.
Cancel(p) == \E t \in Thread \cup {"command"} :
  /\ t = "command" \/ "command" \in canceled
  /\ canceled' = canceled \cup {t}
  /\ Terminates(p, "cancel", IF Thread \cup {"command"} \subseteq canceled'
                             THEN "cond" ELSE "cancel")
  /\ up' = ("lists" \notin freed)
  /\ UNCHANGED freed

DestroyCond(p) ==
  /\ Terminates(p, "cond", "mutex")
  /\ Waiting = {}
  /\ UNCHANGED <<canceled, freed, up>>

\* EBUSY for a mutex that somebody owns or comes back to after waiting.
DestroyMutex(p) ==
  /\ Terminates(p, "mutex", "lists")
  /\ freed' = IF mtx = NoOne /\ \A t \in Thread : pc[t] \notin {"wait", "woken", "leave"}
              THEN freed \cup {"mutex"} ELSE freed
  /\ UNCHANGED <<canceled, up>>

\* A second delete ends the process.
DeleteLists(p) ==
  /\ Terminates(p, "lists", "exit")
  /\ freed' = freed \cup {"lists"}
  /\ up' = ("lists" \notin freed)
  /\ UNCHANGED canceled

\* exit(0), or the abort of a canceled thread that flushes stdout in it.
ExitProcess(p) ==
  /\ Terminates(p, "exit", "exit")
  /\ up' = FALSE
  /\ UNCHANGED <<canceled, freed>>

-----------------------------------------------------------------------------
MainStep == CallPlace \/ PlaceLock \/ PlaceAppend \/ PlaceAstray \/ Signal

\* What a server thread and the command thread do without anybody outside.
Runs(t) ==
  \/ ObtainLock(t) \/ ObtainWait(t) \/ ObtainTake(t) \/ ObtainAstray(t)
  \/ LoadPages(t) \/ StorePages(t) \/ WriteResponse(t) \/ CloseSocket(t)
  \/ Die(t) \/ LeaveWait(t) \/ DieLocking(t)

CommandRuns == CommandWrite \/ CommandClose \/ CommandDies

ThreadStep(t) == Runs(t) \/ ReadRequest(t) \/ SpuriousWake(t)

CommandStep == CommandRuns \/ CommandAccept \/ CommandRead

TerminateStep(p) ==
  \/ Cancel(p) \/ DestroyCond(p) \/ DestroyMutex(p) \/ DeleteLists(p)
  \/ ExitProcess(p)

Next == \/ Accept \/ MainStep
        \/ \E t \in Thread : ThreadStep(t)
        \/ CommandStep
        \/ NoDescriptor \/ Stop \/ Interrupt
        \/ \E p \in {"main", "command"} : TerminateStep(p)

Spec == Init /\ [][Next]_vars

\* A read that comes back: from a connection whose client is not a silent one, or
\* with an error.
ReadSure(t) == ReadRequest(t) /\ fd[socket[t]] \in {None} \cup (unread \ Silent)

\* Every thread keeps running, and who is not silent sends a request or hangs up.
\* Nobody has to connect, the others need neither send nor hang up, and nobody has
\* to use the command port.  A thread does not for ever wake up for nothing.
FairSpec == /\ Spec
            /\ WF_vars(MainStep) /\ WF_vars(CommandRuns)
            /\ \A t \in Thread : WF_vars(Runs(t)) /\ WF_vars(ReadSure(t))
            /\ \A p \in {"main", "command"} : WF_vars(TerminateStep(p))
            /\ <>[][\A t \in Thread : ~SpuriousWake(t)]_vars

-----------------------------------------------------------------------------
\* No connection is kept waiting by a sleeping thread: while a thread waits on
\* cond_nonempty, for every connection in Buffer there is another thread on
\* its way to take one, or the signal of the last is still to be given.  One
\* signal per connection is enough, although signals without a waiter are lost
\* and a woken thread may find that a busy one was faster.
NoIdleWithWork ==
  Waiting # {} /\ canceled = {} =>
    Len(Buffer) <= Cardinality({t \in Thread : pc[t] \in {"obtain", "woken", "check"}})
                   + (IF mainPc = "signal" THEN 1 ELSE 0)

\* The places where a descriptor can be between accept and close: in main's
\* hands, in Buffer, or with the server threads that work on it.
Holders(d) ==
  Cardinality({i \in 1..Len(Buffer) : Buffer[i] = d})
  + Cardinality({t \in Thread : socket[t] = d
                   /\ pc[t] \in {"read", "load", "store", "write", "close"}})
  + (IF \/ mainPc = "call" /\ newsock = d
        \/ mainPc \in {"lock", "append"} /\ item = d THEN 1 ELSE 0)

Commands == accepted \cap Operator

\* Until somebody uses the command port or stops the server, each open connection
\* is in exactly one of those places, and no number of a closed one is in any: it
\* is neither forgotten nor answered by two threads, nor is its number used after
\* the close, when it may already stand for the next connection.
HandledByOne ==
  Commands = {} /\ canceled = {} =>
    \A d \in Fd : Holders(d) = IF fd[d] # None THEN 1 ELSE 0

\* Commands, whose thread accepts into the same global and closes what it finds
\* there, make a difference to that.  A number that is left behind may come to
\* stand for a later connection, which two threads then serve and of which the
\* first closes what the second has, and so on.  But this never multiplies: all
\* in all there is at most one number too many for each command, also while
\* terminate cancels threads and destroys the mutex ...
Hands == Len(Buffer)
         + Cardinality({t \in Thread :
                          pc[t] \in {"read", "load", "store", "write", "close"}})
         + (IF mainPc \in {"call", "lock", "append"} THEN 1 ELSE 0)

StaleBounded ==
  Hands <= Cardinality({d \in Fd : fd[d] # None /\ Holders(d) > 0})
           + Cardinality(Commands)

\* ... and each command leaves at most one connection behind, its own or one that
\* main was about to place, that stays open although no server thread will ever
\* serve and close it.
LeaksBounded ==
  canceled = {} =>
    Cardinality({d \in Fd : fd[d] # None /\ Holders(d) = 0}) <= Cardinality(Commands)

\* Whose request will come can count on an answer as long as there are fewer
\* silent clients than threads.
Promise == INSTANCE Desk WITH
  Sure    <- IF Cardinality(Silent) < Cardinality(Thread) THEN Client \ Silent ELSE {},
  answers <- [c \in Client |-> answers[c]],
  desk    <- IF Commands # {} THEN "gone"
             ELSE IF canceled # {} \/ ~up THEN "closed" ELSE "open"

\* Who connects is answered at most once, and who also sends a request is answered,
\* unless terminate or a failing call comes first, and until somebody uses the
\* command port.
KeepsPromise == Promise!Spec

\* SIGINT ends the process, whatever the threads are doing: pthread_cond_destroy
\* waits for waiters, but all have been told to go by then; a thread that dies
\* with the mutex keeps only others from ending, and nobody waits for these.
ShutdownEnds == stop["main"] # "no" ~> ~up

\* "Accepted command connection %s.": the connection that the command thread
\* has just accepted and is about to read is one to the command port.
NewsockIsMine == cmdPc = "read" => fd[newsock] \in Operator
=============================================================================
