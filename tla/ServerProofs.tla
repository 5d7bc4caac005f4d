---------------------------- MODULE ServerProofs ----------------------------
(***************************************************************************)
(* Properties of Server for every number of threads and connections.       *)
(***************************************************************************)
EXTENDS Server, Lemmas

-----------------------------------------------------------------------------
(* Types.                                                                  *)

LEMMA TypeInit == Init => TypeOK
<1> SUFFICES ASSUME Init PROVE TypeOK
  OBVIOUS
<1>1. Buffer \in Seq(Fd \cup {None})
  BY EmptySeq DEF Init
<1>2. QED
  BY <1>1 DEF Init, TypeOK, Conn

LEMMA AcceptType ==
  ASSUME TypeOK, NEW S \in SUBSET Conn, AcceptFrom(S)
  PROVE  /\ newsock' \in Fd /\ accepted' \subseteq Conn /\ unread' \subseteq accepted'
         /\ fd' \in [Fd -> Conn \cup {None}] /\ answers' \in [Conn -> Nat]
<1>1. PICK c \in S \ accepted, d \in Free :
        /\ newsock' = d /\ accepted' = accepted \cup {c} /\ unread' = unread \cup {c}
        /\ fd' = [fd EXCEPT ![d] = c] /\ UNCHANGED answers
  BY DEF AcceptFrom
<1>2. c \in Conn /\ d \in Fd
  BY DEF Free
<1>3. QED
  BY <1>1, <1>2 DEF TypeOK

LEMMA WriteType ==
  ASSUME TypeOK, NEW d, Write(d)
  PROVE  /\ answers' \in [Conn -> Nat] /\ up' \in BOOLEAN
         /\ UNCHANGED <<accepted, unread, fd>>
<1>1. UNCHANGED <<accepted, unread, fd>> /\ up' \in {up, FALSE}
  BY DEF Write
<1>2. CASE answers' = answers
  BY <1>1, <1>2 DEF TypeOK
<1>3. CASE answers' = [answers EXCEPT ![fd[d]] = @ + 1]
  <2> DEFINE c == fd[d]
  <2>1. answers' = [x \in Conn |-> IF x = c THEN answers[x] + 1 ELSE answers[x]]
    BY <1>3 DEF TypeOK
  <2>2. \A x \in Conn : answers[x] + 1 \in Nat /\ answers[x] \in Nat
    BY DEF TypeOK
  <2>3. QED
    BY <1>1, <2>1, <2>2 DEF TypeOK
<1>4. QED
  BY <1>2, <1>3 DEF Write

LEMMA TypeMain ==
  ASSUME TypeOK, Accept \/ MainStep
  PROVE  TypeOK'
<1> USE DEF TypeOK, MainGoes, cmdVars, counters, ending, network
<1>1. CASE Accept
  BY <1>1, AcceptType DEF Accept, Conn
<1>2. CASE CallPlace
  BY <1>2 DEF CallPlace
<1>3. CASE PlaceLock
  BY <1>3 DEF PlaceLock, Lock
<1>4. CASE PlaceAppend
  <2>1. Append(Buffer, item) \in Seq(Fd \cup {None})
    BY AppendProperties
  <2>2. QED
    BY <1>4, <2>1 DEF PlaceAppend
<1>5. CASE PlaceAstray
  BY <1>5 DEF PlaceAstray
<1>6. CASE Signal
  BY <1>6 DEF Signal
<1>7. QED
  BY <1>1, <1>2, <1>3, <1>4, <1>5, <1>6 DEF MainStep

LEMMA TypeThread ==
  ASSUME TypeOK, NEW t \in Thread, ThreadStep(t)
  PROVE  TypeOK'
<1> USE DEF TypeOK, Goes, mainVars, cmdVars, counters, ending, network
<1>1. CASE ObtainLock(t)
  BY <1>1 DEF ObtainLock, Lock
<1>2. CASE ObtainWait(t)
  BY <1>2 DEF ObtainWait
<1>3. CASE ObtainTake(t)
  <2>1. /\ Buffer[Len(Buffer)] \in Fd \cup {None}
        /\ SubSeq(Buffer, 1, Len(Buffer)-1) \in Seq(Fd \cup {None})
    BY <1>3, LastTaken DEF ObtainTake
  <2>2. QED
    BY <1>3, <2>1 DEF ObtainTake
<1>4. CASE ObtainAstray(t)
  <2>1. /\ pc' = [pc EXCEPT ![t] = "dead"] \/ pc' = [pc EXCEPT ![t] = "check"]
        /\ up' \in BOOLEAN
    BY <1>4 DEF ObtainAstray
  <2>2. QED
    BY <1>4, <2>1 DEF ObtainAstray
<1>5. CASE SpuriousWake(t)
  BY <1>5 DEF SpuriousWake
<1>6. CASE ReadRequest(t)
  <2>1. PICK heard, found \in BOOLEAN :
          /\ Goes(t, "read", IF found THEN "load" ELSE "write") /\ Read(socket[t], heard)
          /\ UNCHANGED <<mtx, Buffer, newsock, mainVars, cmdVars, socket, counters, ending, up>>
    BY <1>6 DEF ReadRequest
  <2>2. pc' = [pc EXCEPT ![t] = "load"] \/ pc' = [pc EXCEPT ![t] = "write"]
    BY <2>1
  <2>3. UNCHANGED <<accepted, fd, answers>> /\ unread' \subseteq unread
    BY <2>1 DEF Read
  <2>4. QED
    BY <2>1, <2>2, <2>3
<1>7. CASE LoadPages(t)
  BY <1>7 DEF LoadPages
<1>8. CASE StorePages(t)
  BY <1>8 DEF StorePages
<1>9. CASE WriteResponse(t)
  BY <1>9, WriteType DEF WriteResponse
<1>10. CASE CloseSocket(t)
  BY <1>10 DEF CloseSocket, Close
<1>11. CASE Die(t)
  BY <1>11 DEF Die
<1>12. CASE LeaveWait(t)
  BY <1>12 DEF LeaveWait
<1>13. CASE DieLocking(t)
  BY <1>13 DEF DieLocking, Lock
<1>14. QED
  BY <1>1, <1>2, <1>3, <1>4, <1>5, <1>6, <1>7, <1>8, <1>9, <1>10, <1>11, <1>12,
     <1>13 DEF ThreadStep, Runs

LEMMA TypeCommand ==
  ASSUME TypeOK, CommandStep
  PROVE  TypeOK'
<1> USE DEF TypeOK, CommandGoes, others, mainVars, counters, ending, network
<1>1. CASE CommandAccept
  BY <1>1, AcceptType DEF CommandAccept, Conn
<1>2. CASE CommandRead
  BY <1>2 DEF CommandRead, Read
<1>3. CASE CommandWrite
  BY <1>3, WriteType DEF CommandWrite
<1>4. CASE CommandClose
  BY <1>4 DEF CommandClose, Close
<1>5. CASE CommandDies
  BY <1>5 DEF CommandDies
<1>6. QED
  BY <1>1, <1>2, <1>3, <1>4, <1>5 DEF CommandStep, CommandRuns

LEMMA TypeEnd ==
  ASSUME TypeOK, \/ NoDescriptor \/ Stop \/ Interrupt
                 \/ \E p \in {"main", "command"} : TerminateStep(p)
  PROVE  TypeOK'
<1> USE DEF TypeOK, Terminates, others, mainVars, cmdVars, counters, ending, network
<1>1. CASE NoDescriptor \/ Stop
  BY <1>1 DEF NoDescriptor, Stop, MainGoes, CommandGoes
<1>2. CASE Interrupt
  BY <1>2 DEF Interrupt
<1>3. ASSUME NEW p \in {"main", "command"}, TerminateStep(p) PROVE TypeOK'
  <2>1. CASE Cancel(p)
    BY <2>1 DEF Cancel
  <2>2. CASE DestroyCond(p)
    BY <2>2 DEF DestroyCond
  <2>3. CASE DestroyMutex(p)
    BY <2>3 DEF DestroyMutex
  <2>4. CASE DeleteLists(p)
    BY <2>4 DEF DeleteLists
  <2>5. CASE ExitProcess(p)
    BY <2>5 DEF ExitProcess
  <2>6. QED
    BY <1>3, <2>1, <2>2, <2>3, <2>4, <2>5 DEF TerminateStep
<1>4. QED
  BY <1>1, <1>2, <1>3

LEMMA TypeStep == TypeOK /\ [Next]_vars => TypeOK'
<1> SUFFICES ASSUME TypeOK, [Next]_vars PROVE TypeOK'
  OBVIOUS
<1>1. CASE UNCHANGED vars
  BY <1>1 DEF vars, mainVars, cmdVars, counters, network, ending, TypeOK
<1>2. QED
  BY <1>1, TypeMain, TypeThread, TypeCommand, TypeEnd DEF Next

\* The variables keep their types: nothing but connections and threads is ever
\* handed from one to the other, whatever is canceled and freed meanwhile.
THEOREM TypeCorrect == Spec => []TypeOK
BY TypeInit, TypeStep, PTL DEF Spec

-----------------------------------------------------------------------------
(* How far terminate has come.                                             *)

\* Who has left the loop of pthread_cancel has been through all threads, also
\* if the other thread in terminate has done part of it; and nothing is
\* destroyed before.
AllTold == Thread \cup {"command"} \subseteq canceled

EndInv ==
  freed # {} \/ (\E p \in {"main", "command"} : stop[p] \notin {"no", "cancel"})
    => AllTold

LEMMA EndInit == Init => EndInv
BY DEF Init, EndInv

\* Before terminate, no step tells or destroys anything, and main and the command
\* thread can only enter terminate, or leave it by dying.
LEMMA BeforeEnd ==
  ASSUME TypeOK, \/ Accept \/ MainStep
                 \/ \E t \in Thread : ThreadStep(t)
                 \/ CommandStep
                 \/ NoDescriptor \/ Stop \/ Interrupt \/ UNCHANGED vars
  PROVE  /\ UNCHANGED <<canceled, freed>>
         /\ \A p \in {"main", "command"} :
              stop'[p] \in {stop[p], "no", "cancel"}
<1> USE DEF TypeOK, ending
<1>1. CASE Accept \/ MainStep
  BY <1>1 DEF Accept, MainStep, CallPlace, PlaceLock, PlaceAppend, PlaceAstray, Signal
<1>2. ASSUME NEW t \in Thread, ThreadStep(t)
      PROVE  UNCHANGED <<stop, canceled, freed>>
  BY <1>2 DEF ThreadStep, Runs, ObtainLock, ObtainWait, ObtainTake, ObtainAstray,
     SpuriousWake, ReadRequest, LoadPages, StorePages, WriteResponse, CloseSocket,
     Die, LeaveWait, DieLocking
<1>3. CASE CommandStep
  BY <1>3 DEF CommandAccept, CommandStep, CommandRuns, CommandRead, CommandWrite, CommandClose,
     CommandDies
<1>4. CASE NoDescriptor \/ Stop \/ Interrupt \/ UNCHANGED vars
  BY <1>4 DEF NoDescriptor, Stop, Interrupt, Terminates, vars
<1>5. QED
  BY <1>1, <1>2, <1>3, <1>4

LEMMA EndStep == TypeOK /\ EndInv /\ [Next]_vars => EndInv'
<1> SUFFICES ASSUME TypeOK, EndInv, [Next]_vars PROVE EndInv'
  OBVIOUS
<1> USE DEF EndInv, AllTold, TypeOK
<1>1. ASSUME NEW p \in {"main", "command"}, TerminateStep(p) PROVE EndInv'
  <2>1. CASE Cancel(p)
    BY <1>1, <2>1 DEF Cancel, Terminates
  <2>2. CASE DestroyCond(p)
    BY <1>1, <2>2 DEF DestroyCond, Terminates
  <2>3. CASE DestroyMutex(p)
    BY <1>1, <2>3 DEF DestroyMutex, Terminates
  <2>4. CASE DeleteLists(p)
    BY <1>1, <2>4 DEF DeleteLists, Terminates
  <2>5. CASE ExitProcess(p)
    BY <1>1, <2>5 DEF ExitProcess, Terminates
  <2>6. QED
    BY <1>1, <2>1, <2>2, <2>3, <2>4, <2>5 DEF TerminateStep
<1>2. CASE ~ \E p \in {"main", "command"} : TerminateStep(p)
  <2>1. /\ UNCHANGED <<canceled, freed>>
        /\ \A p \in {"main", "command"} : stop'[p] \in {stop[p], "no", "cancel"}
    BY <1>2, BeforeEnd DEF Next
  <2>2. QED
    BY <2>1
<1>3. QED
  BY <1>1, <1>2

-----------------------------------------------------------------------------
(* Waiting threads and waiting connections.                                *)

\* The threads that are on their way to take a connection.
Coming == {t \in Thread : pc[t] \in {"obtain", "woken", "check"}}

\* The number of these after a step of thread t.
LEMMA ComingChange ==
  ASSUME TypeOK, NEW t \in Thread,
         \A u \in Thread \ {t} : pc'[u] = pc[u]
  PROVE  /\ Cardinality(Coming) \in Nat /\ Cardinality(Coming') \in Nat
         /\ Cardinality(Coming) + (IF t \in Coming' THEN 1 ELSE 0) =
              Cardinality(Coming') + (IF t \in Coming THEN 1 ELSE 0)
<1>1. /\ IsFiniteSet(Thread)
      /\ Coming \in SUBSET Thread /\ Coming' \in SUBSET Thread
  BY ServerAssumption DEF Coming
<1>2. Coming \ {t} = Coming' \ {t}
  BY DEF Coming
<1>3. QED
  BY <1>1, <1>2, CountChange

LEMMA IdleInit == Init => NoIdleWithWork
BY DEF Init, NoIdleWithWork, Waiting

LEMMA IdleThread ==
  ASSUME TypeOK, EndInv, NoIdleWithWork, canceled' = {},
         NEW t \in Thread, ThreadStep(t)
  PROVE  NoIdleWithWork'
<1> USE DEF TypeOK, Goes, mainVars, ending
<1>0. canceled = {} /\ freed = {}
  BY BeforeEnd DEF EndInv, AllTold
<1> DEFINE n == Cardinality(Coming)
           s == IF mainPc = "signal" THEN 1 ELSE 0
<1>1. Waiting # {} => Len(Buffer) <= n + s
  BY <1>0 DEF NoIdleWithWork, Coming
<1>2. /\ \A u \in Thread \ {t} : pc'[u] = pc[u]
      /\ mainPc' = mainPc
  BY DEF ThreadStep, Runs, ObtainLock, ObtainWait, ObtainTake, ObtainAstray,
     SpuriousWake, ReadRequest, LoadPages, StorePages, WriteResponse, CloseSocket,
     Die, LeaveWait, DieLocking
<1>3. /\ n \in Nat /\ n' \in Nat
      /\ n + (IF t \in Coming' THEN 1 ELSE 0) = n' + (IF t \in Coming THEN 1 ELSE 0)
  BY <1>2, ComingChange
<1>4. Len(Buffer) \in Nat /\ Len(Buffer') \in Nat /\ (Len(Buffer))' = Len(Buffer')
  BY TypeThread, LenProperties
<1>5. SUFFICES ASSUME Waiting' # {} PROVE Len(Buffer') <= n' + s
  BY <1>2 DEF NoIdleWithWork, Coming
<1>6. CASE ObtainWait(t)
  BY <1>3, <1>4, <1>6, EmptySeq DEF ObtainWait
<1>7. CASE ObtainTake(t)
  <2>1. /\ Len(Buffer') = Len(Buffer) - 1
        /\ t \in Coming /\ t \notin Coming'
        /\ Waiting = Waiting'
    BY <1>7, LastTaken DEF ObtainTake, Coming, Waiting
  <2>2. QED
    BY <1>1, <1>3, <1>4, <1>5, <2>1
<1>8. CASE ~ObtainWait(t) /\ ~ObtainTake(t)
  <2>1. /\ Buffer' = Buffer
        /\ t \in Coming => t \in Coming'
        /\ Waiting # {}
    BY <1>0, <1>5, <1>8 DEF ThreadStep, Runs, ObtainLock, ObtainAstray,
     SpuriousWake, ReadRequest, LoadPages, StorePages, WriteResponse, CloseSocket,
     Die, LeaveWait, DieLocking, Coming, Waiting
  <2>2. QED
    BY <1>1, <1>3, <1>4, <2>1
<1>9. QED
  BY <1>6, <1>7, <1>8

LEMMA IdleMain ==
  ASSUME TypeOK, EndInv, NoIdleWithWork, canceled' = {}, Accept \/ MainStep
  PROVE  NoIdleWithWork'
<1> USE DEF TypeOK, MainGoes, ending
<1>0. canceled = {} /\ freed = {}
  BY BeforeEnd DEF EndInv, AllTold
<1>1. CASE PlaceAppend
  <2>1. /\ Len(Buffer') = Len(Buffer) + 1 /\ Len(Buffer) \in Nat
        /\ mainPc = "append" /\ mainPc' = "signal" /\ pc' = pc
    BY <1>1, AppendProperties, LenProperties DEF PlaceAppend
  <2>2. Coming' = Coming /\ Waiting' = Waiting /\ Cardinality(Coming) \in Nat
    <3>1. IsFiniteSet(Coming)
      BY ServerAssumption, FS_Subset DEF Coming
    <3>2. QED
      BY <2>1, <3>1, FS_CardinalityType DEF Coming, Waiting
  <2>3. QED
    BY <1>0, <2>1, <2>2 DEF NoIdleWithWork, Coming
<1>2. CASE Signal
  <2>1. CASE Waiting = {}
    BY <1>2, <2>1 DEF Signal, NoIdleWithWork, Waiting
  <2>2. CASE Waiting # {}
    <3>1. PICK t \in Thread : pc[t] = "wait" /\ pc' = [pc EXCEPT ![t] = "woken"]
      BY <1>2, <2>2 DEF Signal, Waiting
    <3>2. t \notin Coming /\ t \in Coming' /\ \A u \in Thread \ {t} : pc'[u] = pc[u]
      BY <3>1 DEF Coming
    <3>3. Cardinality(Coming') = Cardinality(Coming) + 1 /\ Cardinality(Coming) \in Nat
      BY <3>2, ComingChange
    <3>4. /\ Buffer' = Buffer /\ mainPc = "signal" /\ mainPc' = "accept"
          /\ Len(Buffer) \in Nat
      BY <1>2, LenProperties DEF Signal
    <3>5. QED
      BY <1>0, <2>2, <3>3, <3>4 DEF NoIdleWithWork, Coming
  <2>3. QED
    BY <2>1, <2>2
<1>3. CASE Accept \/ CallPlace \/ PlaceLock \/ PlaceAstray
  <2>1. /\ UNCHANGED <<Buffer, pc>> /\ mainPc # "signal" /\ mainPc' # "signal"
    BY <1>0, <1>3 DEF Accept, CallPlace, PlaceLock, PlaceAstray
  <2>2. QED
    BY <1>0, <2>1 DEF NoIdleWithWork, Waiting
<1>4. QED
  BY <1>1, <1>2, <1>3 DEF MainStep

LEMMA IdleStep ==
  TypeOK /\ EndInv /\ NoIdleWithWork /\ [Next]_vars => NoIdleWithWork'
<1> SUFFICES ASSUME TypeOK, EndInv, NoIdleWithWork, [Next]_vars, canceled' = {}
             PROVE  NoIdleWithWork'
  BY DEF NoIdleWithWork
<1>1. CASE UNCHANGED vars
  BY <1>1 DEF vars, mainVars, ending, NoIdleWithWork, Waiting
<1>2. CASE CommandStep \/ NoDescriptor \/ Stop \/ Interrupt
  <2>1. UNCHANGED <<Buffer, mainPc, pc, canceled>>
    BY <1>2 DEF CommandAccept, CommandStep, CommandRuns, CommandRead, CommandWrite, CommandClose,
       CommandDies, NoDescriptor, Stop, Interrupt, Terminates, others, mainVars, ending
  <2>2. QED
    BY <2>1 DEF NoIdleWithWork, Waiting
<1>3. ASSUME NEW p \in {"main", "command"}, TerminateStep(p)
      PROVE  UNCHANGED <<Buffer, mainPc, pc>> /\ canceled \subseteq canceled'
  BY <1>3 DEF TerminateStep, Cancel, DestroyCond, DestroyMutex, DeleteLists,
     ExitProcess, Terminates, others, mainVars
<1>4. ASSUME NEW p \in {"main", "command"}, TerminateStep(p) PROVE NoIdleWithWork'
  BY <1>3, <1>4 DEF NoIdleWithWork, Waiting
<1>5. QED
  BY <1>1, <1>2, <1>4, IdleThread, IdleMain DEF Next

\* One signal per connection is enough for every number of threads and
\* connections: lost signals and late threads are made up for.
THEOREM NobodySleepsOverWork == Spec => []NoIdleWithWork
<1> DEFINE Inv == TypeOK /\ EndInv /\ NoIdleWithWork
<1>1. Init => Inv
  BY TypeInit, EndInit, IdleInit
<1>2. Inv /\ [Next]_vars => Inv'
  BY TypeStep, EndStep, IdleStep
<1>3. QED
  BY <1>1, <1>2, PTL DEF Spec
-----------------------------------------------------------------------------
(* Where a descriptor is.                                                  *)

ServingPc == {"read", "load", "store", "write", "close"}

\* The server threads that work on d, and whether main holds it.
Serving(d) == {t \in Thread : socket[t] = d /\ pc[t] \in ServingPc}

InHand(d) == IF \/ mainPc = "call" /\ newsock = d
                \/ mainPc \in {"lock", "append"} /\ item = d THEN 1 ELSE 0

\* The server threads that work on any, and whether main holds one.
Busy == {t \in Thread : pc[t] \in ServingPc}

MainHas == IF mainPc \in {"call", "lock", "append"} THEN 1 ELSE 0

LEMMA HandsParts ==
  /\ Hands = Len(Buffer) + Cardinality(Busy) + MainHas
  /\ Hands' = Len(Buffer') + Cardinality(Busy') + MainHas'
  /\ MainHas \in {0, 1} /\ MainHas' \in {0, 1}
BY DEF Hands, Busy, ServingPc, MainHas

LEMMA BusyChange ==
  ASSUME TypeOK, NEW t \in Thread, \A u \in Thread \ {t} : pc'[u] = pc[u]
  PROVE  /\ Cardinality(Busy) \in Nat /\ Cardinality(Busy') \in Nat
         /\ Cardinality(Busy) + (IF t \in Busy' THEN 1 ELSE 0) =
              Cardinality(Busy') + (IF t \in Busy THEN 1 ELSE 0)
<1>1. IsFiniteSet(Thread) /\ Busy \in SUBSET Thread /\ Busy' \in SUBSET Thread
  BY ServerAssumption DEF Busy
<1>2. Busy \ {t} = Busy' \ {t}
  BY DEF Busy
<1>3. QED
  BY <1>1, <1>2, CountChange

LEMMA HandsType ==
  ASSUME TypeOK
  PROVE  Cardinality(Busy) \in Nat /\ Len(Buffer) \in Nat /\ Hands \in Nat
<1>1. IsFiniteSet(Busy)
  BY ServerAssumption, FS_Subset DEF Busy
<1>2. Cardinality(Busy) \in Nat /\ Len(Buffer) \in Nat
  BY <1>1, FS_CardinalityType, LenProperties DEF TypeOK
<1>3. QED
  BY <1>2, HandsParts

LEMMA HoldersParts ==
  ASSUME NEW d
  PROVE  /\ Holders(d) = Cardinality(Places(Buffer, d)) + Cardinality(Serving(d))
                           + InHand(d)
         /\ Holders(d)' = Cardinality(Places(Buffer, d)') + Cardinality(Serving(d)')
                           + InHand(d)'
         /\ InHand(d) \in {0, 1} /\ InHand(d)' \in {0, 1}
BY DEF Holders, Places, Serving, ServingPc, InHand

LEMMA HoldersType ==
  ASSUME TypeOK, NEW d
  PROVE  /\ Cardinality(Places(Buffer, d)) \in Nat /\ Cardinality(Serving(d)) \in Nat
         /\ Holders(d) \in Nat
         /\ InHand(d) = 1 => Holders(d) >= 1
<1>1. Cardinality(Places(Buffer, d)) \in Nat
  BY CountAppend DEF TypeOK
<1>2. IsFiniteSet(Serving(d))
  BY ServerAssumption, FS_Subset DEF Serving
<1>3. Cardinality(Serving(d)) \in Nat
  BY <1>2, FS_CardinalityType
<1>4. QED
  BY <1>1, <1>3, HoldersParts

LEMMA HoldersTypeAfter == ASSUME TypeOK' PROVE \A d \in Fd : Holders(d)' \in Nat
<1> SUFFICES ASSUME NEW d \in Fd PROVE Holders(d)' \in Nat
  OBVIOUS
<1>1. Cardinality(Places(Buffer, d)') \in Nat
  BY CountAppend DEF TypeOK
<1>2. IsFiniteSet(Serving(d)')
  BY ServerAssumption, FS_Subset DEF Serving
<1>3. Cardinality(Serving(d)') \in Nat
  BY <1>2, FS_CardinalityType
<1>4. QED
  BY <1>1, <1>3, HoldersParts

LEMMA ServingChange ==
  ASSUME TypeOK, NEW d, NEW t \in Thread,
         \A u \in Thread \ {t} : pc'[u] = pc[u] /\ socket'[u] = socket[u]
  PROVE  /\ Cardinality(Serving(d)) \in Nat /\ Cardinality(Serving(d)') \in Nat
         /\ Cardinality(Serving(d)) + (IF t \in Serving(d)' THEN 1 ELSE 0) =
              Cardinality(Serving(d)') + (IF t \in Serving(d) THEN 1 ELSE 0)
<1>1. /\ IsFiniteSet(Thread)
      /\ Serving(d) \in SUBSET Thread /\ Serving(d)' \in SUBSET Thread
  BY ServerAssumption DEF Serving
<1>2. Serving(d) \ {t} = Serving(d)' \ {t}
  BY DEF Serving
<1>3. QED
  BY <1>1, <1>2, CountChange

\* What a step does to the places of a descriptor, and to the number of hands,
\* without those who leave: a thread that closes its connection or dies, main
\* when it is lost, and the command thread that overwrites what main was about
\* to place.
LEMMA ThreadMoves ==
  ASSUME TypeOK, NEW d \in Fd,
         NEW t \in Thread, ThreadStep(t)
  PROVE  /\ Holders(d) \in Nat /\ Holders(d)' \in Nat
         /\ IF CloseSocket(t) \/ Die(t)
            THEN Holders(d)' = Holders(d) - (IF socket[t] = d THEN 1 ELSE 0)
            ELSE Holders(d)' = Holders(d)
<1> USE DEF TypeOK, Goes, mainVars
<1> DEFINE inBuffer == Cardinality(Places(Buffer, d))
           serving == Cardinality(Serving(d))
<1>1. /\ Holders(d) = inBuffer + serving + InHand(d)
      /\ Holders(d)' = inBuffer' + serving' + InHand(d)'
      /\ InHand(d) \in {0, 1} /\ InHand(d)' \in {0, 1}
  BY HoldersParts
<1>2. /\ \A u \in Thread \ {t} : pc'[u] = pc[u] /\ socket'[u] = socket[u]
      /\ UNCHANGED <<mainPc, item, newsock>>
  BY DEF ThreadStep, Runs, ObtainLock, ObtainWait, ObtainTake, ObtainAstray,
     SpuriousWake, ReadRequest, LoadPages, StorePages, WriteResponse, CloseSocket,
     Die, LeaveWait, DieLocking
<1>3. /\ serving \in Nat /\ serving' \in Nat
      /\ serving + (IF t \in Serving(d)' THEN 1 ELSE 0) =
           serving' + (IF t \in Serving(d) THEN 1 ELSE 0)
  BY <1>2, ServingChange
<1>4. InHand(d)' = InHand(d)
  BY <1>2 DEF InHand
<1>5. inBuffer \in Nat
  BY HoldersType
<1>6. CASE ObtainTake(t)
  <2>1. /\ inBuffer' \in Nat
        /\ inBuffer = inBuffer' + (IF Buffer[Len(Buffer)] = d THEN 1 ELSE 0)
    BY <1>6, CountRemove DEF ObtainTake
  <2>2. /\ t \notin Serving(d)
        /\ t \in Serving(d)' <=> Buffer[Len(Buffer)] = d
        /\ ~(CloseSocket(t) \/ Die(t))
    BY <1>6 DEF ObtainTake, Serving, ServingPc, CloseSocket, Die
  <2>3. QED
    BY <1>1, <1>3, <1>4, <1>5, <2>1, <2>2
<1>7. CASE CloseSocket(t) \/ Die(t)
  <2>1. /\ inBuffer' = inBuffer
        /\ t \in Serving(d) <=> socket[t] = d
        /\ t \notin Serving(d)'
    <3>1. None # d
      BY ServerAssumption
    <3>2. CASE CloseSocket(t)
      BY <3>1, <3>2 DEF CloseSocket, Serving, ServingPc
    <3>3. CASE Die(t)
      BY <3>1, <3>3 DEF Die, Serving, ServingPc
    <3>4. QED
      BY <1>7, <3>2, <3>3
  <2>2. serving' = serving - IF socket[t] = d THEN 1 ELSE 0
    BY <1>3, <2>1
  <2> HIDE DEF inBuffer, serving, TypeOK
  <2>3. Holders(d)' = Holders(d) - IF socket[t] = d THEN 1 ELSE 0
    BY <1>1, <1>3, <1>4, <1>5, <2>1, <2>2
  <2>4. serving' \in Nat /\ inBuffer' \in Nat /\ InHand(d)' \in Nat
    BY <1>1, <1>3, <1>5, <2>1
  <2>5. QED
    BY <1>1, <1>3, <1>5, <1>7, <2>3, <2>4
<1>8. CASE ~(ObtainTake(t) \/ CloseSocket(t) \/ Die(t))
  <2>1. /\ inBuffer' = inBuffer
        /\ t \in Serving(d)' <=> t \in Serving(d)
    BY <1>8 DEF ThreadStep, Runs, ObtainLock, ObtainWait, ObtainAstray,
     SpuriousWake, ReadRequest, LoadPages, StorePages, WriteResponse,
     LeaveWait, DieLocking, Serving, ServingPc
  <2>2. QED
    BY <1>1, <1>3, <1>4, <1>5, <1>8, <2>1
<1>9. QED
  BY <1>6, <1>7, <1>8


LEMMA ThreadHands ==
  ASSUME TypeOK, NEW t \in Thread, ThreadStep(t)
  PROVE  Hands' = Hands - (IF CloseSocket(t) \/ Die(t) THEN 1 ELSE 0)
<1> USE DEF TypeOK, Goes, mainVars
<1> DEFINE n == Cardinality(Busy)
<1>1. /\ Hands = Len(Buffer) + n + MainHas /\ Hands' = Len(Buffer') + n' + MainHas'
      /\ MainHas \in {0, 1} /\ Len(Buffer) \in Nat
  BY HandsParts, HandsType
<1>2. (\A u \in Thread \ {t} : pc'[u] = pc[u]) /\ mainPc' = mainPc
  BY DEF ThreadStep, Runs, ObtainLock, ObtainWait, ObtainTake, ObtainAstray,
     SpuriousWake, ReadRequest, LoadPages, StorePages, WriteResponse, CloseSocket,
     Die, LeaveWait, DieLocking
<1>3. /\ n \in Nat /\ n' \in Nat
      /\ n + (IF t \in Busy' THEN 1 ELSE 0) = n' + (IF t \in Busy THEN 1 ELSE 0)
  BY <1>2, BusyChange
<1>4. MainHas' = MainHas
  BY <1>2 DEF MainHas
<1>5. CASE ObtainTake(t)
  <2>1. /\ Len(Buffer') = Len(Buffer) - 1
        /\ t \notin Busy /\ t \in Busy' /\ ~(CloseSocket(t) \/ Die(t))
    BY <1>5, LastTaken DEF ObtainTake, Busy, ServingPc, CloseSocket, Die
  <2>2. QED
    BY <1>1, <1>3, <1>4, <2>1
<1>6. CASE CloseSocket(t) \/ Die(t)
  <2>1. Buffer' = Buffer /\ t \in Busy /\ t \notin Busy'
    BY <1>6 DEF CloseSocket, Die, Busy, ServingPc
  <2>2. QED
    BY <1>1, <1>3, <1>4, <1>6, <2>1
<1>7. CASE ~(ObtainTake(t) \/ CloseSocket(t) \/ Die(t))
  <2>1. Buffer' = Buffer /\ (t \in Busy' <=> t \in Busy)
    BY <1>7 DEF ThreadStep, Runs, ObtainLock, ObtainWait, ObtainAstray,
     SpuriousWake, ReadRequest, LoadPages, StorePages, WriteResponse,
     LeaveWait, DieLocking, Busy, ServingPc
  <2>2. QED
    BY <1>1, <1>3, <1>4, <1>7, <2>1
<1>8. QED
  BY <1>5, <1>6, <1>7

LEMMA MainMoves ==
  ASSUME TypeOK, NEW d \in Fd, Accept \/ MainStep
  PROVE  /\ Accept => Holders(d)' = Holders(d) + (IF newsock' = d THEN 1 ELSE 0)
         /\ PlaceAstray => Holders(d)' = Holders(d)
                             - (IF mainPc' = "lost" /\ item = d THEN 1 ELSE 0)
         /\ ~Accept /\ ~PlaceAstray => Holders(d)' = Holders(d)
<1> USE DEF TypeOK, MainGoes
<1> DEFINE inBuffer == Cardinality(Places(Buffer, d))
           serving == Cardinality(Serving(d))
<1>1. /\ Holders(d) = inBuffer + serving + InHand(d)
      /\ Holders(d)' = inBuffer' + serving' + InHand(d)'
      /\ InHand(d) \in {0, 1} /\ InHand(d)' \in {0, 1}
      /\ inBuffer \in Nat /\ serving \in Nat
  BY HoldersParts, HoldersType
<1>2. Serving(d)' = Serving(d)
  BY DEF Accept, MainStep, CallPlace, PlaceLock, PlaceAppend, PlaceAstray, Signal,
     Serving, ServingPc, Waiting
<1>3. CASE PlaceAppend
  <2>1. inBuffer' = inBuffer + (IF item = d THEN 1 ELSE 0)
    <3> DEFINE S == Fd \cup {None}
    <3>1. Buffer \in Seq(S) /\ item \in S
      OBVIOUS
    <3> HIDE DEF S, TypeOK
    <3>2. Cardinality(Places(Append(Buffer, item), d)) =
            Cardinality(Places(Buffer, d)) + (IF item = d THEN 1 ELSE 0)
      BY <3>1, CountAppend
    <3>3. QED
      BY <1>3, <3>2 DEF PlaceAppend
  <2>2. /\ InHand(d) = (IF item = d THEN 1 ELSE 0) /\ InHand(d)' = 0
        /\ ~Accept /\ ~PlaceAstray
    BY <1>3 DEF PlaceAppend, InHand, Accept, PlaceAstray
  <2>3. QED
    BY <1>1, <1>2, <2>1, <2>2 DEF serving
<1>4. CASE ~PlaceAppend
  <2>1. /\ inBuffer' = inBuffer
        /\ Accept => InHand(d) = 0 /\ InHand(d)' = IF newsock' = d THEN 1 ELSE 0
        /\ PlaceAstray => /\ ~Accept
                          /\ InHand(d)' = InHand(d) - IF mainPc' = "lost" /\ item = d
                                                      THEN 1 ELSE 0
        /\ ~Accept /\ ~PlaceAstray => InHand(d)' = InHand(d)
    BY <1>4 DEF Accept, MainStep, CallPlace, PlaceLock, PlaceAstray, Signal, InHand
  <2>2. serving' = serving
    BY <1>2
  <2>3. QED
    BY <1>1, <2>1, <2>2
<1>5. QED
  BY <1>3, <1>4

LEMMA MainHands ==
  ASSUME TypeOK, Accept \/ MainStep
  PROVE  /\ Accept => Hands' = Hands + 1
         /\ PlaceAstray => Hands' = Hands - (IF mainPc' = "lost" THEN 1 ELSE 0)
         /\ ~Accept /\ ~PlaceAstray => Hands' = Hands
<1> USE DEF TypeOK, MainGoes
<1>1. /\ Hands = Len(Buffer) + Cardinality(Busy) + MainHas
      /\ Hands' = Len(Buffer') + Cardinality(Busy') + MainHas'
      /\ MainHas \in {0, 1} /\ MainHas' \in {0, 1}
      /\ Len(Buffer) \in Nat /\ Cardinality(Busy) \in Nat
  BY HandsParts, HandsType
<1>2. Busy' = Busy
  BY DEF Accept, MainStep, CallPlace, PlaceLock, PlaceAppend, PlaceAstray, Signal,
     Busy, ServingPc, Waiting
<1>3. CASE PlaceAppend
  <2>1. /\ Len(Buffer') = Len(Buffer) + 1 /\ MainHas = 1 /\ MainHas' = 0
        /\ ~Accept /\ ~PlaceAstray
    BY <1>3, AppendProperties DEF PlaceAppend, MainHas, Accept, PlaceAstray
  <2>2. QED
    BY <1>1, <1>2, <2>1
<1>4. CASE ~PlaceAppend
  <2>1. /\ Buffer' = Buffer
        /\ Accept => MainHas = 0 /\ MainHas' = 1
        /\ PlaceAstray => ~Accept /\ MainHas' = MainHas - IF mainPc' = "lost" THEN 1 ELSE 0
        /\ ~Accept /\ ~PlaceAstray => MainHas' = MainHas
    BY <1>4 DEF Accept, MainStep, CallPlace, PlaceLock, PlaceAstray, Signal, MainHas
  <2>2. QED
    BY <1>1, <1>2, <2>1
<1>5. QED
  BY <1>3, <1>4

\* What neither main's loop nor a server thread does.
Elsewhere == \/ CommandStep \/ NoDescriptor \/ Stop \/ Interrupt \/ UNCHANGED vars
             \/ \E p \in {"main", "command"} : TerminateStep(p)

LEMMA ElsewhereKeeps ==
  ASSUME Elsewhere
  PROVE  /\ UNCHANGED <<Buffer, pc, socket, mainPc, item>>
         /\ ~CommandAccept => newsock' = newsock
BY DEF Elsewhere, CommandStep, CommandRuns, CommandAccept, CommandRead, CommandWrite,
   CommandClose, CommandDies, NoDescriptor, Stop, Interrupt, TerminateStep, Cancel,
   DestroyCond, DestroyMutex, DeleteLists, ExitProcess, Terminates, others, mainVars,
   MainGoes, vars

LEMMA OtherMoves ==
  ASSUME TypeOK, NEW d \in Fd, Elsewhere
  PROVE  /\ IF CommandAccept /\ mainPc = "call"
            THEN Holders(d)' = Holders(d) + (IF newsock' = d THEN 1 ELSE 0)
                                          - (IF newsock = d THEN 1 ELSE 0)
            ELSE Holders(d)' = Holders(d)
         /\ Hands' = Hands
<1> USE DEF TypeOK
<1> DEFINE inBuffer == Cardinality(Places(Buffer, d))
           serving == Cardinality(Serving(d))
<1>1. /\ Holders(d) = inBuffer + serving + InHand(d)
      /\ Holders(d)' = inBuffer' + serving' + InHand(d)'
      /\ InHand(d) \in {0, 1} /\ InHand(d)' \in {0, 1}
      /\ inBuffer \in Nat /\ serving \in Nat
  BY HoldersParts, HoldersType
<1>2. /\ UNCHANGED <<Buffer, pc, socket, mainPc, item>>
      /\ ~CommandAccept => newsock' = newsock
  BY ElsewhereKeeps
<1>3. inBuffer' = inBuffer /\ serving' = serving
  BY <1>2 DEF Serving
<1>4. IF CommandAccept /\ mainPc = "call"
      THEN /\ InHand(d) = IF newsock = d THEN 1 ELSE 0
           /\ InHand(d)' = IF newsock' = d THEN 1 ELSE 0
      ELSE InHand(d)' = InHand(d)
  <2>1. CASE CommandAccept /\ mainPc = "call"
    BY <1>2, <2>1 DEF InHand
  <2>2. CASE ~(CommandAccept /\ mainPc = "call")
    BY <1>2, <2>2 DEF InHand
  <2>3. QED
    BY <2>1, <2>2
<1>5. Hands' = Hands
  BY <1>2 DEF Hands
<1>6. QED
  BY <1>1, <1>3, <1>4, <1>5

One(b) == IF b THEN 1 ELSE 0

\* The six kinds of steps.
Opens(c, d) ==
  /\ c \in Client \ accepted /\ d \in Fd /\ fd[d] = None
  /\ accepted' = accepted \cup {c} /\ fd' = [fd EXCEPT ![d] = c] /\ cmdPc' = cmdPc
  /\ Hands' = Hands + 1
  /\ \A e \in Fd : Holders(e)' = Holders(e) + One(d = e)

OpensCommand(c, d) ==
  /\ c \in Operator \ accepted /\ d \in Fd /\ fd[d] = None
  /\ accepted' = accepted \cup {c} /\ fd' = [fd EXCEPT ![d] = c]
  /\ cmdPc = "accept"
  /\ Hands' = Hands
  /\ \/ \A e \in Fd : Holders(e)' = Holders(e)
     \/ /\ \A e \in Fd : Holders(e)' = Holders(e) + One(d = e) - One(newsock = e)
        /\ Holders(d)' >= 1

Closes(d) == /\ UNCHANGED <<accepted, cmdPc>> /\ fd' = [fd EXCEPT ![d] = None]
             /\ Hands' = Hands - 1
             /\ \A e \in Fd : Holders(e)' = Holders(e) - One(d = e)

ClosesCommand == /\ cmdPc = "close" /\ cmdPc' = "accept"
                 /\ UNCHANGED accepted /\ fd' = [fd EXCEPT ![newsock] = None]
                 /\ Hands' = Hands
                 /\ \A e \in Fd : Holders(e)' = Holders(e)

InCommand == cmdPc \in {"read", "write", "close"}

Proceeds == /\ UNCHANGED <<accepted, fd>> /\ (InCommand' => InCommand)
            /\ Hands' = Hands
            /\ \A e \in Fd : Holders(e)' = Holders(e)

\* ... without a close, because terminate has begun.
Drops(d) == /\ canceled # {}
            /\ UNCHANGED <<accepted, fd, cmdPc>>
            /\ Hands' = Hands - 1
            /\ \A e \in Fd : Holders(e)' = Holders(e) - One(d = e)

LEMMA ThreadKinds ==
  ASSUME TypeOK, NEW t \in Thread, ThreadStep(t)
  PROVE  Closes(socket[t]) \/ Drops(socket[t]) \/ Proceeds
<1>1. /\ \A e \in Fd : IF CloseSocket(t) \/ Die(t)
                       THEN Holders(e)' = Holders(e) - One(socket[t] = e)
                       ELSE Holders(e)' = Holders(e)
      /\ Hands' = Hands - One(CloseSocket(t) \/ Die(t))
      /\ Hands \in Nat
  BY ThreadMoves, ThreadHands, HandsType DEF One
<1>2. cmdPc' = cmdPc
  BY DEF ThreadStep, Runs, ObtainLock, ObtainWait, ObtainTake, ObtainAstray,
     SpuriousWake, ReadRequest, LoadPages, StorePages, WriteResponse, CloseSocket,
     Die, LeaveWait, DieLocking, cmdVars
<1>3. CASE CloseSocket(t)
  <2>1. UNCHANGED accepted /\ fd' = [fd EXCEPT ![socket[t]] = None]
    BY <1>3 DEF CloseSocket, Close
  <2>2. QED
    BY <1>1, <1>2, <1>3, <2>1 DEF Closes, One
<1>4. CASE Die(t) /\ ~CloseSocket(t)
  <2>1. UNCHANGED <<accepted, fd>> /\ canceled # {}
    BY <1>4 DEF Die, network
  <2>2. QED
    BY <1>1, <1>2, <1>4, <2>1 DEF Drops, One
<1>5. CASE ~CloseSocket(t) /\ ~Die(t)
  <2>1. UNCHANGED <<accepted, fd>>
    BY <1>5 DEF ThreadStep, Runs, ObtainLock, ObtainWait, ObtainTake, ObtainAstray,
       SpuriousWake, ReadRequest, Read, LoadPages, StorePages, WriteResponse, Write,
       LeaveWait, DieLocking, network
  <2>2. QED
    BY <1>1, <1>2, <1>5, <2>1 DEF Proceeds, InCommand, One
<1>6. QED
  BY <1>3, <1>4, <1>5

LEMMA MainKinds ==
  ASSUME TypeOK, EndInv, Accept \/ MainStep
  PROVE  (\E c, d : Opens(c, d)) \/ Drops(item) \/ Proceeds
<1>1. /\ \A e \in Fd :
           /\ Accept => Holders(e)' = Holders(e) + One(newsock' = e)
           /\ PlaceAstray => Holders(e)' = Holders(e) - One(mainPc' = "lost" /\ item = e)
           /\ ~Accept /\ ~PlaceAstray => Holders(e)' = Holders(e)
      /\ Accept => Hands' = Hands + 1
      /\ PlaceAstray => Hands' = Hands - One(mainPc' = "lost")
      /\ ~Accept /\ ~PlaceAstray => Hands' = Hands
      /\ \A e \in Fd : Holders(e) \in Nat
      /\ Hands \in Nat
  BY MainMoves, MainHands, HoldersType, HandsType DEF One
<1>2. cmdPc' = cmdPc
  BY DEF Accept, MainStep, CallPlace, PlaceLock, PlaceAppend, PlaceAstray, Signal, cmdVars
<1>3. CASE Accept
  <2>1. PICK c \in Client \ accepted, d \in Free :
          newsock' = d /\ accepted' = accepted \cup {c} /\ fd' = [fd EXCEPT ![d] = c]
    BY <1>3 DEF Accept, AcceptFrom
  <2>2. Opens(c, d)
    BY <1>1, <1>2, <1>3, <2>1 DEF Opens, Free
  <2>3. QED
    BY <2>2
<1>4. CASE ~Accept
  <2>1. UNCHANGED <<accepted, fd>> /\ (PlaceAstray => canceled # {})
    BY <1>4 DEF MainStep, CallPlace, PlaceLock, PlaceAppend, PlaceAstray, Signal,
       network, EndInv, AllTold
  <2>2. CASE PlaceAstray /\ mainPc' = "lost"
    BY <1>1, <1>2, <2>1, <2>2 DEF Drops, One
  <2>3. CASE ~(PlaceAstray /\ mainPc' = "lost")
    BY <1>1, <1>2, <1>4, <2>1, <2>3 DEF Proceeds, InCommand, One
  <2>4. QED
    BY <2>2, <2>3
<1>5. QED
  BY <1>3, <1>4

LEMMA OtherKinds ==
  ASSUME TypeOK, Elsewhere
  PROVE  (\E c, d : OpensCommand(c, d)) \/ ClosesCommand \/ Proceeds
<1>1. /\ \A e \in Fd : IF CommandAccept /\ mainPc = "call"
                       THEN Holders(e)' = Holders(e) + One(newsock' = e) - One(newsock = e)
                       ELSE Holders(e)' = Holders(e)
      /\ \A e \in Fd : Holders(e) \in Nat /\ (InHand(e) = 1 => Holders(e) >= 1)
  BY OtherMoves, HoldersType DEF One
<1>2. CASE CommandAccept
  <2>0. Hands' = Hands
    BY ElsewhereKeeps DEF Hands
  <2>1. PICK c \in Operator \ accepted, d \in Free :
          newsock' = d /\ accepted' = accepted \cup {c} /\ fd' = [fd EXCEPT ![d] = c]
    BY <1>2 DEF CommandAccept, AcceptFrom
  <2>2. d \in Fd /\ fd[d] = None /\ cmdPc = "accept"
    BY <1>2 DEF CommandAccept, CommandGoes, Free
  <2>3. CASE mainPc = "call"
    <3>1. \A e \in Fd : Holders(e)' = Holders(e) + One(d = e) - One(newsock = e)
      BY <1>1, <1>2, <2>1, <2>3
    <3>2. newsock = d => Holders(d) >= 1
      BY <1>1, <2>2, <2>3 DEF InHand
    <3>3. Holders(d)' >= 1
      <4>1. Holders(d)' = Holders(d) + One(d = d) - One(newsock = d) /\ Holders(d) \in Nat
        BY <1>1, <2>2, <3>1
      <4>2. One(d = d) = 1 /\ One(newsock = d) = IF newsock = d THEN 1 ELSE 0
        BY DEF One
      <4>3. QED
        BY <3>2, <4>1, <4>2
    <3>4. OpensCommand(c, d)
      BY <2>0, <2>1, <2>2, <3>1, <3>3 DEF OpensCommand
    <3>5. QED
      BY <3>4
  <2>4. CASE mainPc # "call"
    <3>1. OpensCommand(c, d)
      BY <1>1, <2>0, <2>1, <2>2, <2>4 DEF OpensCommand
    <3>2. QED
      BY <3>1
  <2>5. QED
    BY <2>3, <2>4
<1>3. CASE ~CommandAccept
  <2>1. Hands' = Hands /\ \A e \in Fd : Holders(e)' = Holders(e)
    BY <1>1, <1>3, ElsewhereKeeps DEF Hands
  <2>2. CASE CommandClose
    BY <2>1, <2>2 DEF CommandClose, CommandGoes, Close, ClosesCommand
  <2>3. CASE ~CommandClose
    <3>1. UNCHANGED <<accepted, fd>> /\ (InCommand' => InCommand)
      BY <1>3, <2>3 DEF Elsewhere, CommandStep, CommandRuns, CommandRead, Read, CommandWrite,
         Write, CommandDies, CommandGoes, NoDescriptor, Stop, Interrupt, TerminateStep,
         Cancel, DestroyCond, DestroyMutex, DeleteLists, ExitProcess, Terminates,
         MainGoes, network, cmdVars, vars, InCommand
    <3>2. QED
      BY <2>1, <3>1 DEF Proceeds
  <2>4. QED
    BY <2>2, <2>3
<1>4. QED
  BY <1>2, <1>3

LEMMA StepKinds ==
  ASSUME TypeOK, EndInv, [Next]_vars
  PROVE  \/ \E c, d : Opens(c, d)
         \/ \E c, d : OpensCommand(c, d)
         \/ \E d : Closes(d) \/ Drops(d)
         \/ ClosesCommand \/ Proceeds
BY ThreadKinds, MainKinds, OtherKinds DEF Next, Elsewhere

\* terminate takes no pthread_cancel back.
LEMMA CanceledGrows ==
  ASSUME TypeOK, [Next]_vars
  PROVE  canceled \subseteq canceled'
<1>1. ASSUME NEW p \in {"main", "command"}, TerminateStep(p)
      PROVE  canceled \subseteq canceled'
  BY <1>1 DEF TerminateStep, Cancel, DestroyCond, DestroyMutex, DeleteLists,
     ExitProcess
<1>2. QED
  BY <1>1, BeforeEnd DEF Next

-----------------------------------------------------------------------------
(* Before the first command: a connection is in one place.                 *)

\* Distinct descriptors stand for distinct connections, all accepted.
FdInv == /\ IsFiniteSet(accepted)
         /\ \A d \in Fd : fd[d] # None => /\ fd[d] \in accepted
                                          /\ \A e \in Fd : fd[e] = fd[d] => e = d

\* No number is in two places, and that of a closed connection is in none.
HeldInv == Commands = {} => /\ cmdPc \in {"accept", "dead"}
                            /\ \A d \in Fd : Holders(d) <= One(fd[d] # None)

LEMMA HoldersInit == Init => \A d \in Fd : Holders(d) = 0
<1> SUFFICES ASSUME Init, NEW d \in Fd PROVE Holders(d) = 0
  OBVIOUS
<1>1. None # d
  BY ServerAssumption
<1>2. Places(Buffer, d) = {} /\ Serving(d) = {} /\ InHand(d) = 0
  BY <1>1 DEF Init, Places, Serving, InHand
<1>3. QED
  BY <1>2, HoldersParts, FS_EmptySet

LEMMA HeldInit == Init => FdInv /\ HeldInv /\ HandledByOne
<1> SUFFICES ASSUME Init PROVE FdInv /\ HeldInv /\ HandledByOne
  OBVIOUS
<1>1. \A d \in Fd : Holders(d) = 0 /\ fd[d] = None
  BY HoldersInit DEF Init
<1>2. IsFiniteSet(accepted) /\ cmdPc = "accept"
  BY FS_EmptySet DEF Init
<1>3. QED
  BY <1>1, <1>2 DEF FdInv, HeldInv, HandledByOne, One

LEMMA FdStep ==
  ASSUME TypeOK, EndInv, FdInv, [Next]_vars
  PROVE  FdInv'
<1>0. fd \in [Fd -> Conn \cup {None}] /\ accepted \subseteq Conn /\ None \notin Conn
  BY ServerAssumption DEF TypeOK
<1>1. ASSUME NEW c \in Conn \ accepted, NEW d \in Fd, fd[d] = None,
             accepted' = accepted \cup {c}, fd' = [fd EXCEPT ![d] = c]
      PROVE  FdInv'
  <2>1. IsFiniteSet(accepted')
    BY <1>1, FS_AddElement DEF FdInv
  <2>2. \A e \in Fd : fd'[e] = IF e = d THEN c ELSE fd[e]
    BY <1>0, <1>1
  <2>3. \A e \in Fd : fd[e] # c
    BY <1>0, <1>1 DEF FdInv
  <2>4. QED
    BY <1>0, <1>1, <2>1, <2>2, <2>3 DEF FdInv
<1>2. ASSUME NEW d, accepted' = accepted, fd' = [fd EXCEPT ![d] = None] PROVE FdInv'
  BY <1>0, <1>2 DEF FdInv
<1>3. CASE UNCHANGED <<accepted, fd>>
  BY <1>3 DEF FdInv
<1>4. QED
  BY <1>1, <1>2, <1>3, StepKinds
     DEF Opens, OpensCommand, Closes, Drops, ClosesCommand, Proceeds, Conn

LEMMA CommandsGrow ==
  ASSUME TypeOK, EndInv, [Next]_vars
  PROVE  /\ Commands \subseteq Commands'
         /\ (\E c, d : OpensCommand(c, d)) => Commands' # {}
<1>1. accepted \subseteq accepted'
  BY StepKinds DEF Opens, OpensCommand, Closes, Drops, ClosesCommand, Proceeds
<1>2. QED
  BY <1>1 DEF Commands, OpensCommand

LEMMA HeldStep ==
  ASSUME TypeOK, EndInv, HeldInv, HandledByOne, [Next]_vars
  PROVE  HeldInv' /\ HandledByOne'
<1> SUFFICES ASSUME Commands' = {}
             PROVE  /\ cmdPc' \in {"accept", "dead"}
                    /\ \A e \in Fd :
                         /\ Holders(e)' <= One(fd'[e] # None)
                         /\ canceled' = {} => Holders(e)' = One(fd'[e] # None)
  BY DEF HeldInv, HandledByOne, One
<1>0. /\ Commands = {} /\ ~(\E c, d : OpensCommand(c, d))
      /\ cmdPc \in {"accept", "dead"}
      /\ canceled' = {} => canceled = {}
      /\ fd \in [Fd -> Conn \cup {None}] /\ None \notin Conn /\ Client \subseteq Conn
  BY CommandsGrow, CanceledGrows, ServerAssumption DEF HeldInv, TypeOK, Conn
<1>1. \A e \in Fd : /\ Holders(e) \in Nat
                    /\ Holders(e) <= One(fd[e] # None)
                    /\ canceled = {} => Holders(e) = One(fd[e] # None)
  BY <1>0, HoldersType DEF HeldInv, HandledByOne, One
<1>2. \A e \in Fd : Holders(e)' \in Nat
  BY TypeStep, HoldersTypeAfter
<1>3. ASSUME NEW c, NEW d, Opens(c, d)
      PROVE  /\ cmdPc' = cmdPc
             /\ \A e \in Fd :
                  /\ Holders(e)' <= One(fd'[e] # None)
                  /\ canceled' = {} => Holders(e)' = One(fd'[e] # None)
  <2>1. /\ fd[d] = None /\ d \in Fd /\ c # None /\ cmdPc' = cmdPc
        /\ fd' = [fd EXCEPT ![d] = c]
        /\ \A e \in Fd : Holders(e)' = Holders(e) + One(d = e)
    BY <1>0, <1>3 DEF Opens
  <2>2. ASSUME NEW e \in Fd
        PROVE  /\ Holders(e)' <= One(fd'[e] # None)
               /\ canceled' = {} => Holders(e)' = One(fd'[e] # None)
    <3>1. CASE e = d
      BY <1>0, <1>1, <2>1, <3>1 DEF One
    <3>2. CASE e # d
      BY <1>0, <1>1, <2>1, <3>2 DEF One
    <3>3. QED
      BY <3>1, <3>2
  <2>3. QED
    BY <2>1, <2>2
<1>4. ASSUME NEW d, Closes(d) \/ Drops(d)
      PROVE  /\ cmdPc' = cmdPc
             /\ \A e \in Fd :
                  /\ Holders(e)' <= One(fd'[e] # None)
                  /\ canceled' = {} => Holders(e)' = One(fd'[e] # None)
  <2>1. /\ cmdPc' = cmdPc
        /\ Closes(d) => fd' = [fd EXCEPT ![d] = None]
        /\ ~Closes(d) => fd' = fd /\ canceled # {}
        /\ \A e \in Fd : Holders(e)' = Holders(e) - One(d = e)
    BY <1>4 DEF Closes, Drops
  <2>2. ASSUME NEW e \in Fd
        PROVE  /\ Holders(e)' <= One(fd'[e] # None)
               /\ canceled' = {} => Holders(e)' = One(fd'[e] # None)
    <3>1. CASE e = d
      BY <1>0, <1>1, <1>2, <2>1, <3>1 DEF One
    <3>2. CASE e # d
      BY <1>0, <1>1, <2>1, <3>2 DEF One
    <3>3. QED
      BY <3>1, <3>2
  <2>3. QED
    BY <2>1, <2>2
<1>5. CASE Proceeds
  <2>1. fd' = fd /\ cmdPc' \in {"accept", "dead"}
    BY <1>0, <1>5, TypeStep DEF Proceeds, InCommand, TypeOK
  <2>2. QED
    BY <1>0, <1>1, <1>5, <2>1 DEF Proceeds
<1>6. ~ClosesCommand
  BY <1>0 DEF ClosesCommand
<1>7. QED
  BY <1>0, <1>3, <1>4, <1>5, <1>6, StepKinds

LEMMA HeldInvariance ==
  Spec => [](TypeOK /\ EndInv /\ FdInv /\ HeldInv /\ HandledByOne)
<1> DEFINE Inv == TypeOK /\ EndInv /\ FdInv /\ HeldInv /\ HandledByOne
<1>1. Init => Inv
  BY TypeInit, EndInit, HeldInit
<1>2. Inv /\ [Next]_vars => Inv'
  BY TypeStep, EndStep, FdStep, HeldStep
<1>3. QED
  BY <1>1, <1>2, PTL DEF Spec

\* Until the first command a connection is in one place from accept to close, and
\* its number in none after that, for any number of threads and of descriptors.
THEOREM HandledExactlyOnce == Spec => []HandledByOne
BY HeldInvariance, PTL

-----------------------------------------------------------------------------
(* With commands: numbers that are left behind, and connections.            *)

\* The descriptors of open connections that somebody holds, and that nobody holds.
Held == {d \in Fd : fd[d] # None /\ Holders(d) > 0}
Left == {d \in Fd : fd[d] # None /\ Holders(d) = 0}

\* A command that still has its close before it has one in reserve.
StaleInv == Hands + One(InCommand) <= Cardinality(Held) + Cardinality(Commands)

LEMMA SubsetCount ==
  ASSUME NEW A, IsFiniteSet(A), NEW B, B \subseteq A
  PROVE  Cardinality(B) \in Nat /\ Cardinality(A) \in Nat /\ Cardinality(B) <= Cardinality(A)
BY FS_Subset, FS_CardinalityType

LEMMA OneMore ==
  ASSUME NEW A, IsFiniteSet(A), NEW B, NEW x, B \subseteq A \cup {x}
  PROVE  /\ Cardinality(A) \in Nat /\ Cardinality(B) \in Nat
         /\ Cardinality(B) <= Cardinality(A) + 1
<1>1. /\ IsFiniteSet(A \cup {x})
      /\ Cardinality(A \cup {x}) = IF x \in A THEN Cardinality(A) ELSE Cardinality(A) + 1
  BY FS_AddElement
<1>2. Cardinality(A) \in Nat
  BY FS_CardinalityType
<1>3. Cardinality(B) \in Nat /\ Cardinality(B) <= Cardinality(A \cup {x})
  BY <1>1, SubsetCount
<1>4. QED
  BY <1>1, <1>2, <1>3

LEMMA CountTypes ==
  ASSUME TypeOK, FdInv
  PROVE  /\ IsFiniteSet(Held) /\ IsFiniteSet(Left) /\ IsFiniteSet(Commands)
         /\ Cardinality(Held) \in Nat /\ Cardinality(Left) \in Nat
         /\ Cardinality(Commands) \in Nat
<1>1. Held \in SUBSET Fd /\ Left \in SUBSET Fd /\ IsFiniteSet(Fd)
  BY ServerAssumption DEF Held, Left
<1>2. Commands \in SUBSET accepted /\ IsFiniteSet(accepted)
  BY DEF Commands, FdInv
<1>3. QED
  BY <1>1, <1>2, FS_Subset, FS_CardinalityType

LEMMA CountTypesAfter ==
  ASSUME TypeOK', FdInv'
  PROVE  /\ IsFiniteSet(Held') /\ Cardinality(Held') \in Nat
         /\ Cardinality(Commands') \in Nat
<1>1. Held' \in SUBSET Fd /\ IsFiniteSet(Fd)
  BY ServerAssumption DEF Held
<1>2. Commands' \in SUBSET accepted' /\ IsFiniteSet(accepted')
  BY DEF Commands, FdInv
<1>3. QED
  BY <1>1, <1>2, FS_Subset, FS_CardinalityType

\* What the kinds of steps do to these sets.
LEMMA OpensChanges ==
  ASSUME TypeOK, FdInv, NEW c, NEW d, Opens(c, d)
  PROVE  /\ Held' = Held \cup {d} /\ d \notin Held
         /\ Left' \subseteq Left
         /\ Commands' = Commands
<1>1. /\ fd[d] = None /\ d \in Fd /\ c # None /\ c \notin Operator
      /\ accepted' = accepted \cup {c}
      /\ fd \in [Fd -> Conn \cup {None}] /\ fd' = [fd EXCEPT ![d] = c]
  BY ServerAssumption DEF Opens, TypeOK, Conn
<1>2. \A e \in Fd : Holders(e) \in Nat /\ Holders(e)' = IF e = d THEN Holders(e) + 1 ELSE Holders(e)
  BY HoldersType DEF Opens, One
<1>3. \A e \in Fd : fd'[e] = IF e = d THEN c ELSE fd[e]
  BY <1>1
<1>4. QED
  BY <1>1, <1>2, <1>3 DEF Held, Left, Commands

LEMMA OpensCommandChanges ==
  ASSUME TypeOK, FdInv, NEW c, NEW d, OpensCommand(c, d)
  PROVE  /\ \/ Held \subseteq Held'
            \/ Held \subseteq (Held' \ {d}) \cup {newsock} /\ d \in Held'
         /\ \E x : Left' \subseteq Left \cup {x}
         /\ Commands' = Commands \cup {c} /\ c \notin Commands
<1>1. /\ fd[d] = None /\ d \in Fd /\ c # None
      /\ c \in Operator \ accepted /\ accepted' = accepted \cup {c}
      /\ fd \in [Fd -> Conn \cup {None}] /\ fd' = [fd EXCEPT ![d] = c]
  BY ServerAssumption DEF OpensCommand, TypeOK, Conn
<1>2. /\ \A e \in Fd : Holders(e) \in Nat
      /\ \A e \in Fd : fd'[e] = IF e = d THEN c ELSE fd[e]
  BY <1>1, HoldersType
<1>3. Commands' = Commands \cup {c} /\ c \notin Commands
  BY <1>1 DEF Commands
<1>4. CASE \A e \in Fd : Holders(e)' = Holders(e)
  <2>1. Held \subseteq Held' /\ Left' \subseteq Left \cup {d}
    BY <1>1, <1>2, <1>4 DEF Held, Left
  <2>2. QED
    BY <1>3, <2>1
<1>5. CASE /\ \A e \in Fd : Holders(e)' = Holders(e) + One(d = e) - One(newsock = e)
           /\ Holders(d)' >= 1
  <2>1. \A e \in Fd \ {d, newsock} : Holders(e)' = Holders(e)
    BY <1>2, <1>5 DEF One
  <2>2. /\ Held \subseteq (Held' \ {d}) \cup {newsock} /\ d \in Held'
        /\ Left' \subseteq Left \cup {newsock}
    <3>1. d \notin Held
      BY <1>1 DEF Held
    <3>2. d \in Held' /\ d \notin Left'
      <4>1. Holders(d)' > 0 /\ Holders(d)' # 0
        <5>1. Holders(d)' = Holders(d) + One(d = d) - One(newsock = d) /\ Holders(d) \in Nat
          BY <1>1, <1>2, <1>5
        <5>2. One(d = d) \in Int /\ One(newsock = d) \in Int
          BY DEF One
        <5>3. QED
          BY <1>5, <5>1, <5>2
      <4>2. QED
        BY <1>1, <1>2, <4>1 DEF Held, Left
    <3>3. QED
      BY <1>2, <2>1, <3>1, <3>2 DEF Held, Left
  <2>3. QED
    BY <1>3, <2>2
<1>6. QED
  BY <1>4, <1>5 DEF OpensCommand

LEMMA ClosesChanges ==
  ASSUME TypeOK, NEW d, Closes(d) \/ Drops(d)
  PROVE  /\ Held \subseteq Held' \cup {d}
         /\ Closes(d) => Left' \subseteq Left
         /\ Commands' = Commands
<1>1. \A e \in Fd : Holders(e) \in Nat /\ Holders(e)' = IF d = e THEN Holders(e) - 1 ELSE Holders(e)
  BY HoldersType DEF Closes, Drops, One
<1>2. /\ fd \in [Fd -> Conn \cup {None}] /\ accepted' = accepted
      /\ fd' = fd \/ fd' = [fd EXCEPT ![d] = None]
      /\ Closes(d) => fd' = [fd EXCEPT ![d] = None]
  BY DEF Closes, Drops, TypeOK
<1>3. \A e \in Fd : /\ e # d => fd'[e] = fd[e]
                    /\ Closes(d) /\ e = d => fd'[e] = None
  BY <1>2
<1>4. QED
  BY <1>1, <1>2, <1>3 DEF Held, Left, Commands

LEMMA ClosesCommandChanges ==
  ASSUME TypeOK, ClosesCommand
  PROVE  /\ Held \subseteq Held' \cup {newsock}
         /\ Left' \subseteq Left
         /\ Commands' = Commands
<1>1. \A e \in Fd : Holders(e)' = Holders(e)
  BY DEF ClosesCommand
<1>2. \A e \in Fd : fd'[e] = IF e = newsock THEN None ELSE fd[e]
  BY DEF ClosesCommand, TypeOK
<1>3. QED
  BY <1>1, <1>2 DEF Held, Left, Commands, ClosesCommand

LEMMA ProceedsChanges ==
  ASSUME Proceeds PROVE Held' = Held /\ Left' = Left /\ Commands' = Commands
BY DEF Proceeds, Held, Left, Commands

LEMMA StaleInit == Init => StaleInv /\ LeaksBounded
<1> SUFFICES ASSUME Init PROVE StaleInv /\ LeaksBounded
  OBVIOUS
<1>1. Held = {} /\ Left = {} /\ Commands = {} /\ Busy = {} /\ Buffer = <<>>
  BY DEF Init, Held, Left, Commands, Busy, ServingPc
<1>2. Hands = 0 /\ One(InCommand) = 0
  BY <1>1, HandsParts, FS_EmptySet, EmptySeq DEF Init, MainHas, InCommand, One
<1>3. QED
  BY <1>1, <1>2, FS_EmptySet DEF StaleInv, LeaksBounded, Left

LEMMA StaleStep ==
  ASSUME TypeOK, EndInv, FdInv, StaleInv, [Next]_vars
  PROVE  StaleInv'
<1> DEFINE h == Cardinality(Held)
           k == Cardinality(Commands)
<1>0. /\ IsFiniteSet(Held) /\ IsFiniteSet(Held') /\ IsFiniteSet(Commands)
      /\ h \in Nat /\ h' \in Nat /\ k \in Nat /\ k' \in Nat
      /\ Hands \in Nat
      /\ One(InCommand) \in {0, 1} /\ One(InCommand') \in {0, 1}
      /\ Hands + One(InCommand) <= h + k
  <2>1. TypeOK' /\ FdInv'
    BY TypeStep, FdStep
  <2>2. IsFiniteSet(Held') /\ h' \in Nat /\ k' \in Nat
    BY <2>1, CountTypesAfter
  <2>3. QED
    BY <2>2, CountTypes, HandsType DEF StaleInv, One
<1> SUFFICES Hands' + One(InCommand') <= h' + k'
  BY DEF StaleInv, One
<1>1. ASSUME NEW c, NEW d, Opens(c, d) PROVE Hands' + One(InCommand') <= h' + k'
  <2>1. /\ Held' = Held \cup {d} /\ d \notin Held /\ k' = k
    BY <1>1, OpensChanges
  <2>2. h' = h + 1
    BY <1>0, <2>1, FS_AddElement
  <2>3. One(InCommand') = One(InCommand) /\ Hands' = Hands + 1
    BY <1>1 DEF Opens, InCommand
  <2>4. QED
    BY <1>0, <2>1, <2>2, <2>3
<1>2. ASSUME NEW c, NEW d, OpensCommand(c, d) PROVE Hands' + One(InCommand') <= h' + k'
  <2>1. k' = k + 1
    BY <1>0, <1>2, OpensCommandChanges, FS_AddElement
  <2>2. h <= h'
    <3>1. CASE Held \subseteq Held'
      BY <1>0, <3>1, SubsetCount
    <3>2. CASE Held \subseteq (Held' \ {d}) \cup {newsock} /\ d \in Held'
      <4>1. IsFiniteSet(Held' \ {d}) /\ Cardinality(Held' \ {d}) = h' - 1
        BY <1>0, <3>2, FS_RemoveElement
      <4>2. h <= Cardinality(Held' \ {d}) + 1
        BY <3>2, <4>1, OneMore
      <4>3. QED
        BY <1>0, <4>1, <4>2
    <3>3. QED
      BY <1>2, <3>1, <3>2, OpensCommandChanges
  <2>3. One(InCommand) = 0 /\ Hands' = Hands
    BY <1>2 DEF OpensCommand, InCommand, One
  <2>4. QED
    BY <1>0, <2>1, <2>2, <2>3
<1>3. ASSUME NEW d, Closes(d) \/ Drops(d) PROVE Hands' + One(InCommand') <= h' + k'
  <2>1. Held \subseteq Held' \cup {d} /\ k' = k
    BY <1>3, ClosesChanges
  <2>2. h <= h' + 1
    BY <1>0, <2>1, OneMore
  <2>3. One(InCommand') = One(InCommand) /\ Hands' = Hands - 1
    BY <1>3 DEF Closes, Drops, InCommand
  <2>4. QED
    BY <1>0, <2>1, <2>2, <2>3
<1>4. CASE ClosesCommand
  <2>1. Held \subseteq Held' \cup {newsock} /\ k' = k
    BY <1>4, ClosesCommandChanges
  <2>2. h <= h' + 1
    BY <1>0, <2>1, OneMore
  <2>3. One(InCommand) = 1 /\ One(InCommand') = 0 /\ Hands' = Hands
    BY <1>4 DEF ClosesCommand, InCommand, One
  <2>4. QED
    BY <1>0, <2>1, <2>2, <2>3
<1>5. CASE Proceeds
  <2>1. h' = h /\ k' = k /\ Hands' = Hands
    BY <1>5, ProceedsChanges DEF Proceeds
  <2>2. One(InCommand') <= One(InCommand)
    BY <1>5 DEF Proceeds, One
  <2>3. QED
    BY <1>0, <2>1, <2>2
<1>6. QED
  BY <1>1, <1>2, <1>3, <1>4, <1>5, StepKinds

LEMMA LeaksStep ==
  ASSUME TypeOK, EndInv, FdInv, LeaksBounded, [Next]_vars
  PROVE  LeaksBounded'
<1> SUFFICES ASSUME canceled' = {}
             PROVE  Cardinality(Left') <= Cardinality(Commands')
  BY DEF LeaksBounded, Left
<1>0. /\ canceled = {} /\ Cardinality(Left) <= Cardinality(Commands)
      /\ IsFiniteSet(Left) /\ IsFiniteSet(Commands)
      /\ Cardinality(Left) \in Nat /\ Cardinality(Commands) \in Nat
  BY CanceledGrows, CountTypes DEF LeaksBounded, Left
<1>1. CASE Left' \subseteq Left /\ Commands' = Commands
  <2>1. Cardinality(Left') <= Cardinality(Left) /\ Cardinality(Left') \in Nat
    BY <1>0, <1>1, SubsetCount
  <2>2. QED
    BY <1>0, <1>1, <2>1
<1>2. ASSUME NEW c, NEW d, OpensCommand(c, d)
      PROVE  Cardinality(Left') <= Cardinality(Commands')
  <2>1. PICK x : Left' \subseteq Left \cup {x}
    BY <1>2, OpensCommandChanges
  <2>2. Cardinality(Left') <= Cardinality(Left) + 1 /\ Cardinality(Left') \in Nat
    BY <1>0, <2>1, OneMore
  <2>3. Cardinality(Commands') = Cardinality(Commands) + 1
    BY <1>0, <1>2, OpensCommandChanges, FS_AddElement
  <2>4. QED
    BY <1>0, <2>2, <2>3
<1>3. ASSUME NEW d, Closes(d) \/ Drops(d)
      PROVE  Left' \subseteq Left /\ Commands' = Commands
  BY <1>0, <1>3, ClosesChanges DEF Drops
<1>4. ASSUME NEW c, NEW d, Opens(c, d)
      PROVE  Left' \subseteq Left /\ Commands' = Commands
  BY <1>4, OpensChanges
<1>5. QED
  BY <1>1, <1>2, <1>3, <1>4, ClosesCommandChanges, ProceedsChanges, StepKinds

LEMMA StaleInvariance == Spec => [](TypeOK /\ FdInv /\ StaleInv /\ LeaksBounded)
<1> DEFINE Inv == TypeOK /\ EndInv /\ FdInv /\ StaleInv /\ LeaksBounded
<1>1. Init => Inv
  BY TypeInit, EndInit, HeldInit, StaleInit
<1>2. Inv /\ [Next]_vars => Inv'
  BY TypeStep, EndStep, FdStep, StaleStep, LeaksStep
<1>3. QED
  BY <1>1, <1>2, PTL DEF Spec

\* However often the numbers of closed connections are given out again, commands
\* never put more numbers too many into main, Buffer and the threads than there
\* were commands.
THEOREM OneStalePerCommand == Spec => []StaleBounded
<1>1. TypeOK /\ FdInv /\ StaleInv => StaleBounded
  <2> SUFFICES ASSUME TypeOK, FdInv, StaleInv PROVE StaleBounded
    OBVIOUS
  <2>1. /\ Cardinality(Held) \in Nat /\ Cardinality(Commands) \in Nat /\ Hands \in Nat
        /\ One(InCommand) \in {0, 1}
        /\ Hands + One(InCommand) <= Cardinality(Held) + Cardinality(Commands)
    BY CountTypes, HandsType DEF StaleInv, One
  <2>2. Hands <= Cardinality(Held) + Cardinality(Commands)
    BY <2>1
  <2>3. QED
    BY <2>2 DEF StaleBounded, Held
<1>2. QED
  BY <1>1, StaleInvariance, PTL

\* Each command leaves at most one connection open for ever.
THEOREM OneLeakPerCommand == Spec => []LeaksBounded
BY StaleInvariance, PTL

-----------------------------------------------------------------------------
(* The desk: who connects is answered once.                                *)

\* What main, Buffer and the server threads have are descriptors.
NumberInv == /\ mainPc = "call" => newsock \in Fd
             /\ mainPc \in {"lock", "append"} => item \in Fd
             /\ Buffer \in Seq(Fd)
             /\ \A t \in Thread : pc[t] \in ServingPc => socket[t] \in Fd

LEMMA NumberInit == Init => NumberInv
<1> SUFFICES ASSUME Init PROVE NumberInv
  OBVIOUS
<1>1. Buffer \in Seq(Fd)
  BY EmptySeq DEF Init
<1>2. QED
  BY <1>1 DEF Init, NumberInv, ServingPc

LEMMA NumberStep == TypeOK /\ NumberInv /\ [Next]_vars => NumberInv'
<1> SUFFICES ASSUME TypeOK, NumberInv, [Next]_vars PROVE NumberInv'
  OBVIOUS
<1> USE DEF NumberInv
<1>1. CASE Accept \/ MainStep
  <2> USE DEF MainGoes, TypeOK
  <2>1. \A t \in Thread : pc'[t] \in ServingPc => pc[t] \in ServingPc /\ socket'[t] = socket[t]
    BY <1>1 DEF Accept, MainStep, CallPlace, PlaceLock, PlaceAppend, PlaceAstray, Signal,
       ServingPc, Waiting
  <2>2. Buffer' \in Seq(Fd)
    <3>1. CASE PlaceAppend
      BY <3>1, AppendProperties DEF PlaceAppend
    <3>2. CASE ~PlaceAppend
      BY <1>1, <3>2 DEF Accept, MainStep, CallPlace, PlaceLock, PlaceAstray, Signal
    <3>3. QED
      BY <3>1, <3>2
  <2>3. /\ mainPc' = "call" => newsock' \in Fd
        /\ mainPc' \in {"lock", "append"} => item' \in Fd
    BY <1>1 DEF Accept, AcceptFrom, Free, MainStep, CallPlace, PlaceLock, PlaceAppend,
       PlaceAstray, Signal
  <2>4. QED
    BY <2>1, <2>2, <2>3
<1>2. ASSUME NEW t \in Thread, ThreadStep(t) PROVE NumberInv'
  <2> USE DEF Goes, TypeOK, mainVars
  <2>1. UNCHANGED <<mainPc, item, newsock>>
    BY <1>2 DEF ThreadStep, Runs, ObtainLock, ObtainWait, ObtainTake, ObtainAstray,
       SpuriousWake, ReadRequest, LoadPages, StorePages, WriteResponse, CloseSocket,
       Die, LeaveWait, DieLocking
  <2>2. CASE ObtainTake(t)
    <3>1. Buffer' \in Seq(Fd) /\ Buffer[Len(Buffer)] \in Fd
      BY <2>2, LastTaken DEF ObtainTake
    <3>2. QED
      BY <2>1, <2>2, <3>1 DEF ObtainTake
  <2>3. CASE ~ObtainTake(t)
    <3>1. Buffer' = Buffer
      BY <1>2, <2>3 DEF ThreadStep, Runs, ObtainLock, ObtainWait, ObtainAstray,
       SpuriousWake, ReadRequest, LoadPages, StorePages, WriteResponse, CloseSocket,
       Die, LeaveWait, DieLocking
    <3>2. \A u \in Thread : pc'[u] \in ServingPc =>
                              pc[u] \in ServingPc /\ socket'[u] = socket[u]
      BY <1>2, <2>3 DEF ThreadStep, Runs, ObtainLock, ObtainWait, ObtainAstray,
       SpuriousWake, ReadRequest, LoadPages, StorePages, WriteResponse, CloseSocket,
       Die, LeaveWait, DieLocking, ServingPc
    <3>3. QED
      BY <2>1, <3>1, <3>2
  <2>4. QED
    BY <2>2, <2>3
<1>3. CASE Elsewhere
  <2>1. UNCHANGED <<Buffer, pc, socket, mainPc, item>> /\ (newsock' = newsock \/ newsock' \in Fd)
    BY <1>3, ElsewhereKeeps DEF CommandAccept, AcceptFrom, Free
  <2>2. QED
    BY <2>1
<1>4. QED
  BY <1>1, <1>2, <1>3 DEF Next, Elsewhere

\* Who is to write an answer to d has not done so.
Unanswered(d) == \/ InHand(d) = 1
                 \/ Places(Buffer, d) # {}
                 \/ \E t \in Serving(d) : pc[t] # "close"

\* A connection to which no thread has written.
Pending(c) == c \notin accepted \/ \E d \in Fd : fd[d] = c /\ Unanswered(d)

\* Without commands, only such connections can still be written to.
OnceInv ==
  Commands = {} => \A c \in Conn : /\ answers[c] <= 1
                                   /\ Pending(c) => answers[c] = 0

LEMMA OnceInit == Init => OnceInv
BY DEF Init, OnceInv

LEMMA UnansweredThread ==
  ASSUME TypeOK, NEW d \in Fd,
         NEW t \in Thread, ThreadStep(t), Unanswered(d)'
  PROVE  Unanswered(d)
<1> USE DEF TypeOK, Goes, mainVars
<1>1. /\ UNCHANGED <<mainPc, item, newsock>>
      /\ \A u \in Thread \ {t} : pc'[u] = pc[u] /\ socket'[u] = socket[u]
  BY DEF ThreadStep, Runs, ObtainLock, ObtainWait, ObtainTake, ObtainAstray,
     SpuriousWake, ReadRequest, LoadPages, StorePages, WriteResponse,
     CloseSocket, Die, LeaveWait, DieLocking
<1>2. InHand(d)' = InHand(d)
  BY <1>1 DEF InHand
<1>3. CASE ObtainTake(t)
  <2>1. /\ Len(Buffer) \in 1 .. Len(Buffer)
        /\ \A i \in 1 .. Len(Buffer') : i \in 1 .. Len(Buffer) /\ Buffer'[i] = Buffer[i]
    <3>1. /\ Len(Buffer) \in Nat \ {0} /\ Len(Buffer') = Len(Buffer)-1
          /\ \A i \in 1 .. Len(Buffer)-1 : Buffer'[i] = Buffer[i]
      BY <1>3, LastTaken DEF ObtainTake
    <3>2. QED
      BY <3>1
  <2>2. Places(Buffer', d) \subseteq Places(Buffer, d)
    BY <2>1 DEF Places
  <2>3. t \in Serving(d)' => Places(Buffer, d) # {}
    BY <1>3, <2>1 DEF ObtainTake, Serving, Places
  <2>4. \A u \in Serving(d)' \ {t} : u \in Serving(d) /\ pc'[u] = pc[u]
    BY <1>1 DEF Serving
  <2>5. QED
    BY <1>1, <1>2, <2>2, <2>3, <2>4 DEF Unanswered
<1>4. CASE ~ObtainTake(t)
  <2>1. Buffer' = Buffer
    BY <1>4 DEF ThreadStep, Runs, ObtainLock, ObtainWait, ObtainAstray,
     SpuriousWake, ReadRequest, LoadPages, StorePages, WriteResponse, CloseSocket,
     Die, LeaveWait, DieLocking
  <2>2. t \in Serving(d)' /\ pc'[t] # "close" => t \in Serving(d) /\ pc[t] # "close"
    BY <1>4 DEF ThreadStep, Runs, ObtainLock, ObtainWait, ObtainAstray,
     SpuriousWake, ReadRequest, LoadPages, StorePages, WriteResponse, CloseSocket,
     Die, LeaveWait, DieLocking, Serving, ServingPc
  <2>3. \A u \in Serving(d)' \ {t} : u \in Serving(d) /\ pc'[u] = pc[u]
    BY <1>1 DEF Serving
  <2>4. QED
    BY <1>1, <1>2, <2>1, <2>2, <2>3 DEF Unanswered
<1>5. QED
  BY <1>3, <1>4

LEMMA UnansweredMain ==
  ASSUME TypeOK, NEW d \in Fd, Accept \/ MainStep, Unanswered(d)'
  PROVE  Unanswered(d) \/ (Accept /\ newsock' = d)
<1> USE DEF TypeOK, MainGoes
<1>1. \A t \in Serving(d)' : t \in Serving(d) /\ pc'[t] = pc[t]
  BY DEF Accept, MainStep, CallPlace, PlaceLock, PlaceAppend, PlaceAstray, Signal,
     Serving, ServingPc, Waiting
<1>2. CASE PlaceAppend
  <2>1. /\ Len(Buffer) \in Nat /\ Len(Buffer') = Len(Buffer) + 1
        /\ \A i \in 1 .. Len(Buffer) : Buffer'[i] = Buffer[i]
        /\ Buffer'[Len(Buffer) + 1] = item
    BY <1>2, AppendProperties, LenProperties DEF PlaceAppend
  <2>2. Places(Buffer', d) # {} => item = d \/ Places(Buffer, d) # {}
    <3>1. \A i \in 1 .. Len(Buffer) + 1 : i \in 1 .. Len(Buffer) \/ i = Len(Buffer) + 1
      BY <2>1
    <3>2. QED
      BY <2>1, <3>1 DEF Places
  <2>3. (item = d => InHand(d) = 1) /\ InHand(d)' = 0
    BY <1>2 DEF PlaceAppend, InHand
  <2>4. QED
    BY <1>1, <2>2, <2>3 DEF Unanswered
<1>3. CASE ~PlaceAppend
  <2>1. /\ Buffer' = Buffer
        /\ InHand(d)' = 1 => InHand(d) = 1 \/ (Accept /\ newsock' = d)
    BY <1>3 DEF Accept, MainStep, CallPlace, PlaceLock, PlaceAstray, Signal, InHand
  <2>2. QED
    BY <1>1, <2>1 DEF Unanswered
<1>4. QED
  BY <1>2, <1>3

\* While nobody sends commands the other steps do not even see a connection.
LEMMA OthersIdle ==
  ASSUME TypeOK, HeldInv, Commands = {}, Commands' = {}, Elsewhere
  PROVE  UNCHANGED <<Buffer, pc, socket, mainPc, item, newsock, accepted, fd, answers>>
<1>1. cmdPc \in {"accept", "dead"}
  BY DEF HeldInv
<1>2. ~CommandAccept
  BY DEF CommandAccept, AcceptFrom, Commands
<1>3. UNCHANGED <<accepted, fd, answers>>
  BY <1>1, <1>2 DEF Elsewhere, CommandStep, CommandRuns, CommandRead, CommandWrite,
     CommandClose, CommandDies, CommandGoes, NoDescriptor, Stop, Interrupt, TerminateStep,
     Cancel, DestroyCond, DestroyMutex, DeleteLists, ExitProcess, Terminates, network, vars
<1>4. QED
  BY <1>2, <1>3, ElsewhereKeeps

\* A descriptor that stands for a connection it did not stand for before has been
\* given to a new one by main.
LEMMA GivenOut ==
  ASSUME TypeOK, HeldInv, Commands = {}, Commands' = {}, [Next]_vars,
         NEW d \in Fd, fd'[d] # None, fd'[d] \in accepted
  PROVE  fd'[d] = fd[d] /\ ~(Accept /\ newsock' = d)
<1> USE DEF TypeOK
<1>1. CASE Elsewhere
  <2>1. UNCHANGED <<accepted, fd, mainPc>>
    BY <1>1, OthersIdle
  <2>2. QED
    BY <2>1 DEF Accept, MainGoes
<1>2. CASE Accept
  BY <1>2 DEF Accept, AcceptFrom, Free
<1>3. CASE MainStep
  BY <1>3 DEF Accept, MainGoes, MainStep, CallPlace, PlaceLock, PlaceAppend, PlaceAstray,
     Signal, network
<1>4. ASSUME NEW t \in Thread, ThreadStep(t) PROVE fd'[d] = fd[d] /\ ~Accept
  <2>1. fd' = fd \/ fd' = [fd EXCEPT ![socket[t]] = None]
    BY <1>4 DEF ThreadStep, Runs, ObtainLock, ObtainWait, ObtainTake, ObtainAstray,
     SpuriousWake, ReadRequest, Read, LoadPages, StorePages, WriteResponse, Write,
     CloseSocket, Close, Die, LeaveWait, DieLocking, network
  <2>2. mainPc' = mainPc
    BY <1>4 DEF ThreadStep, Runs, ObtainLock, ObtainWait, ObtainTake, ObtainAstray,
     SpuriousWake, ReadRequest, LoadPages, StorePages, WriteResponse,
     CloseSocket, Die, LeaveWait, DieLocking, mainVars
  <2>3. QED
    BY <2>1, <2>2 DEF Accept, MainGoes
<1>5. QED
  BY <1>1, <1>2, <1>3, <1>4 DEF Next, Elsewhere

LEMMA PendingStep ==
  ASSUME TypeOK, EndInv, HeldInv, Commands = {}, Commands' = {}, [Next]_vars,
         NEW c \in Conn, Pending(c)'
  PROVE  Pending(c)
<1> SUFFICES ASSUME c \in accepted PROVE \E d \in Fd : fd[d] = c /\ Unanswered(d)
  BY DEF Pending
<1>1. accepted \subseteq accepted'
  BY StepKinds DEF Opens, OpensCommand, Closes, Drops, ClosesCommand, Proceeds
<1>2. PICK d \in Fd : fd'[d] = c /\ Unanswered(d)'
  BY <1>1 DEF Pending
<1>3. fd[d] = c /\ ~(Accept /\ newsock' = d)
  BY <1>2, GivenOut, ServerAssumption
<1>4. CASE Elsewhere
  <2>1. UNCHANGED <<Buffer, pc, socket, mainPc, item, newsock>>
    BY <1>4, OthersIdle
  <2>2. Unanswered(d)
    BY <1>2, <2>1 DEF Unanswered, InHand, Serving
  <2>3. QED
    BY <1>3, <2>2
<1>5. CASE ~Elsewhere
  <2>1. Unanswered(d)
    BY <1>2, <1>3, <1>5, UnansweredThread, UnansweredMain DEF Next, Elsewhere
  <2>2. QED
    BY <1>3, <2>1
<1>6. QED
  BY <1>4, <1>5

\* A step that writes an answer writes it to somebody who has none, and who
\* will get no other.
LEMMA AnswerSteps ==
  ASSUME TypeOK, FdInv, HeldInv, NumberInv, OnceInv, Commands = {}, Commands' = {},
         [Next]_vars
  PROVE  \/ answers' = answers
         \/ \E c \in accepted : /\ answers[c] = 0 /\ answers' = [answers EXCEPT ![c] = 1]
                                /\ ~Pending(c)'
                                /\ UNCHANGED <<accepted, canceled, up>>
<1>1. CASE Elsewhere
  BY <1>1, OthersIdle
<1>2. CASE Accept \/ MainStep
  BY <1>2 DEF Accept, AcceptFrom, MainStep, CallPlace, PlaceLock, PlaceAppend,
     PlaceAstray, Signal, network
<1>3. ASSUME NEW t \in Thread, ThreadStep(t), answers' # answers
      PROVE  \E c \in accepted : /\ answers[c] = 0 /\ answers' = [answers EXCEPT ![c] = 1]
                                 /\ ~Pending(c)'
                                 /\ UNCHANGED <<accepted, canceled, up>>
  <2> DEFINE d == socket[t]
             c == fd[d]
  <2>1. WriteResponse(t)
    BY <1>3 DEF ThreadStep, Runs, ObtainLock, ObtainWait, ObtainTake, ObtainAstray,
       SpuriousWake, ReadRequest, Read, LoadPages, StorePages, CloseSocket, Close,
       Die, LeaveWait, DieLocking, network
  <2>2. t \in Serving(d) /\ pc[t] = "write" /\ d \in Fd
    BY <2>1 DEF WriteResponse, Goes, Serving, ServingPc, NumberInv
  <2>3. c # None /\ c \in accepted /\ c \in Conn
    BY <1>3, <2>1, <2>2 DEF WriteResponse, Write, FdInv, TypeOK
  <2>4. answers[c] = 0
    BY <2>2, <2>3 DEF OnceInv, Pending, Unanswered
  <2>5. /\ answers' = [answers EXCEPT ![c] = 1]
        /\ UNCHANGED <<accepted, canceled, up, Buffer, newsock, mainPc, item, socket, fd>>
        /\ pc' = [pc EXCEPT ![t] = "close"]
    BY <2>1, <2>3, <2>4 DEF WriteResponse, Write, Goes, mainVars, ending
  <2>6. InHand(d) = 0 /\ Places(Buffer, d) = {} /\ Serving(d) = {t}
    <3>1. /\ Holders(d) <= 1
          /\ Holders(d) = Cardinality(Places(Buffer, d)) + Cardinality(Serving(d)) + InHand(d)
          /\ Cardinality(Places(Buffer, d)) \in Nat /\ Cardinality(Serving(d)) \in Nat
          /\ InHand(d) \in {0, 1}
      BY <2>2, <2>3, HoldersParts, HoldersType DEF HeldInv, One
    <3>2. IsFiniteSet(Serving(d)) /\ IsFiniteSet(Places(Buffer, d))
      <4>1. IsFiniteSet(1 .. Len(Buffer)) /\ Places(Buffer, d) \in SUBSET (1 .. Len(Buffer))
        BY FS_Interval, LenProperties DEF Places, TypeOK
      <4>2. Serving(d) \in SUBSET Thread /\ IsFiniteSet(Thread)
        BY ServerAssumption DEF Serving
      <4>3. QED
        BY <4>1, <4>2, FS_Subset
    <3>3. Cardinality(Serving(d)) # 0
      BY <2>2, <3>2, FS_EmptySet
    <3>4. Cardinality(Serving(d)) = 1 /\ Cardinality(Places(Buffer, d)) = 0 /\ InHand(d) = 0
      BY <3>1, <3>3
    <3>5. QED
      BY <2>2, <3>2, <3>4, FS_EmptySet, FS_Singleton
  <2>7. ~Pending(c)'
    <3>1. InHand(d)' = InHand(d) /\ Serving(d)' \subseteq Serving(d) /\ d' = d
      BY <2>2, <2>5 DEF InHand, Serving, ServingPc, TypeOK
    <3>2. pc'[t] = "close"
      BY <2>5 DEF TypeOK
    <3>3. ~Unanswered(d)'
      BY <2>5, <2>6, <3>1, <3>2 DEF Unanswered
    <3>4. \A e \in Fd : fd'[e] = c => e = d
      BY <2>2, <2>3, <2>5 DEF FdInv
    <3>5. c \in accepted'
      BY <2>3, <2>5
    <3>6. c' = c
      BY <2>5, <3>1
    <3>7. QED
      BY <3>1, <3>3, <3>4, <3>5, <3>6 DEF Pending
  <2>8. QED
    BY <2>3, <2>4, <2>5, <2>7
<1>4. QED
  BY <1>1, <1>2, <1>3 DEF Next, Elsewhere

LEMMA OnceStep ==
  ASSUME TypeOK, EndInv, FdInv, HeldInv, NumberInv, OnceInv, [Next]_vars
  PROVE  OnceInv'
<1> SUFFICES ASSUME Commands' = {}, NEW c \in Conn
             PROVE  answers'[c] <= 1 /\ (Pending(c)' => answers'[c] = 0)
  BY DEF OnceInv
<1>0. Commands = {}
  BY CommandsGrow
<1>1. /\ answers \in [Conn -> Nat] /\ answers[c] <= 1
      /\ Pending(c)' => answers[c] = 0
  BY <1>0, PendingStep DEF OnceInv, TypeOK
<1>2. CASE answers' = answers
  BY <1>1, <1>2
<1>3. ASSUME NEW x \in accepted, answers' = [answers EXCEPT ![x] = 1], ~Pending(x)'
      PROVE  answers'[c] <= 1 /\ (Pending(c)' => answers'[c] = 0)
  BY <1>1, <1>3
<1>4. QED
  BY <1>0, <1>2, <1>3, AnswerSteps

\* A process that has ended does nothing.
LEMMA Ended == ASSUME ~up, [Next]_vars PROVE UNCHANGED vars
BY DEF Next, Accept, MainStep, CallPlace, PlaceLock, PlaceAppend, PlaceAstray, Signal,
   MainGoes, ThreadStep, Runs, ObtainLock, ObtainWait, ObtainTake, ObtainAstray,
   SpuriousWake, ReadRequest, LoadPages, StorePages, WriteResponse, CloseSocket,
   Die, LeaveWait, DieLocking, Goes, CommandAccept, CommandStep, CommandRuns, CommandRead,
   CommandWrite, CommandClose, CommandDies, CommandGoes, NoDescriptor, Stop, Interrupt,
   TerminateStep, Cancel, DestroyCond, DestroyMutex, DeleteLists, ExitProcess, Terminates

LEMMA DeskStep ==
  ASSUME TypeOK, EndInv, FdInv, HeldInv, NumberInv, OnceInv, [Next]_vars
  PROVE  [Promise!Next]_(Promise!vars)
<1> DEFINE closed == canceled # {} \/ ~up
           given == [c \in Client |-> answers[c]]
<1>1. CASE Commands' # {}
  BY <1>1 DEF Promise!Leave, Promise!Next
<1>2. CASE Commands' = {}
  <2>0. Commands = {}
    BY <1>2, CommandsGrow
  <2>1. closed => closed'
    BY CanceledGrows, Ended DEF vars
  <2>2. CASE \E c \in accepted : /\ answers[c] = 0 /\ answers' = [answers EXCEPT ![c] = 1]
                                 /\ UNCHANGED <<accepted, canceled, up>>
    <3>1. PICK c \in accepted : /\ answers[c] = 0 /\ answers' = [answers EXCEPT ![c] = 1]
                                /\ UNCHANGED <<accepted, canceled, up>>
      BY <2>2
    <3>2. c \in Client
      BY <2>0 DEF TypeOK, Conn, Commands
    <3>3. given[c] = 0 /\ given' = [given EXCEPT ![c] = 1]
      BY <3>1, <3>2 DEF TypeOK, Conn
    <3>4. Promise!Answer(c)
      BY <1>2, <2>0, <3>1, <3>2, <3>3 DEF Promise!Answer
    <3>5. QED
      BY <3>2, <3>4 DEF Promise!Next
  <2>3. CASE answers' = answers
    <3>1. CASE Accept
      <4>1. PICK a \in Client \ accepted : accepted' = accepted \cup {a}
        BY <3>1 DEF Accept, AcceptFrom
      <4>2. UNCHANGED <<canceled, up>>
        BY <3>1 DEF Accept, ending
      <4>3. Promise!Accept(a)
        BY <1>2, <2>0, <2>3, <4>1, <4>2 DEF Promise!Accept
      <4>4. QED
        BY <4>1, <4>3 DEF Promise!Next
    <3>2. CASE accepted' = accepted
      <4>1. CASE closed' = closed
        BY <1>2, <2>0, <2>3, <3>2, <4>1 DEF Promise!vars
      <4>2. CASE closed' /\ ~closed
        BY <1>2, <2>0, <2>3, <3>2, <4>2 DEF Promise!Close, Promise!Next
      <4>3. QED
        BY <2>1, <4>1, <4>2
    <3>3. Accept \/ accepted' = accepted
      <4>1. CASE MainStep \/ \E t \in Thread : ThreadStep(t)
        BY <4>1 DEF MainStep, CallPlace, PlaceLock, PlaceAppend, PlaceAstray, Signal,
           ThreadStep, Runs, ObtainLock, ObtainWait, ObtainTake, ObtainAstray,
           SpuriousWake, ReadRequest, Read, LoadPages, StorePages, WriteResponse, Write,
           CloseSocket, Close, Die, LeaveWait, DieLocking, network
      <4>2. QED
        BY <1>2, <2>0, <4>1, OthersIdle DEF Next, Elsewhere
    <3>4. QED
      BY <3>1, <3>2, <3>3
  <2>4. QED
    BY <1>2, <2>0, <2>2, <2>3, AnswerSteps
<1>3. QED
  BY <1>1, <1>2

\* Every step of the server is one of the desk or none: until somebody uses the
\* command port, who connects is answered at most once, whatever the threads do and
\* which numbers accept gives out, and also after SIGINT, while terminate cancels
\* them.
THEOREM ServerImplementsDesk == Spec => Promise!SafeSpec
<1> DEFINE Inv == /\ TypeOK /\ EndInv /\ FdInv /\ HeldInv /\ HandledByOne
                  /\ NumberInv /\ OnceInv
<1>1. Init => Promise!Init
  BY DEF Init, Promise!Init, Conn, Commands
<1>2. Spec => []Inv
  <2>1. Init => Inv
    BY TypeInit, EndInit, HeldInit, NumberInit, OnceInit
  <2>2. Inv /\ [Next]_vars => Inv'
    BY TypeStep, EndStep, FdStep, HeldStep, NumberStep, OnceStep
  <2>3. QED
    BY <2>1, <2>2, PTL DEF Spec
<1>3. Inv /\ [Next]_vars => [Promise!Next]_(Promise!vars)
  BY DeskStep
<1>4. QED
  BY <1>1, <1>2, <1>3, PTL DEF Spec, Promise!SafeSpec
=============================================================================
