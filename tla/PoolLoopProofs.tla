--------------------------- MODULE PoolLoopProofs ---------------------------
(* Proofs about PoolLoop, for any sets of descriptors, clients and workers. *)
EXTENDS PoolLoop, FiniteSetTheorems, TLAPS

-----------------------------------------------------------------------------
(* Type correctness *)

\* The initial state of PoolLoop is well typed.
LEMMA TypeInit == Init => TypeOK
  <1> SUFFICES ASSUME Init PROVE TypeOK
    OBVIOUS
  <1>1. NoEvent \in Event
    BY DEF NoEvent, Event, Kinds
  <1>2. wev \in [Workers -> Event]
    BY <1>1 DEF Init
  <1>3. workQueue \in Seq(Event) /\ signals \in 0..MaxSignals
    BY SignalsAssumption DEF Init
  <1>4. wpc \in [Workers -> WorkerPcs] /\ wact \in [Workers -> Actions]
    BY DEF Init, WorkerPcs, Actions
  <1>5. mpc \in MainPcs /\ hpc \in HandlerPcs /\ active \in Int
    BY DEF Init, MainPcs, HandlerPcs
  <1>6. /\ sock \in [Fds -> Conns \cup {None}]
        /\ interest \in [Fds -> {"none", "off", "in", "out"}]
        /\ connections \in [Fds -> Conns \cup {None}]
    BY DEF Init
  <1> QED
    BY <1>2, <1>3, <1>4, <1>5, <1>6 DEF Init, TypeOK

\* Every step of the epoll thread (run, acceptLoop, sweepIdleConnections) keeps
\* the variables in their types.
LEMMA TypeMain == TypeOK /\ Main => TypeOK'
  <1> SUFFICES ASSUME TypeOK, Main PROVE TypeOK'
    OBVIOUS
  <1> USE DEF TypeOK, MainPcs, kernelVars, sharedVars, mainVars, workerVars, handlerVars
  <1>1. CASE RunFail
    BY <1>1 DEF RunFail
  <1>2. CASE RunStart
    BY <1>2 DEF RunStart, WorkerPcs
  <1>3. CASE Loop
    BY <1>3 DEF Loop
  <1>4. CASE EpollWait
    BY <1>4 DEF EpollWait, ReadyEvents
  <1>5. CASE EpollError
    BY <1>5 DEF EpollError
  <1>6. CASE DispatchStop
    BY <1>6 DEF DispatchStop
  <1>7. CASE DispatchListen
    BY <1>7 DEF DispatchListen
  <1>8. CASE DispatchClient
    BY <1>8 DEF DispatchClient
  <1>9. CASE NotifyOne
    BY <1>9 DEF NotifyOne, WorkerPcs
  <1>10. CASE DispatchDone
    BY <1>10 DEF DispatchDone
  <1>11. CASE Accept
    BY <1>11 DEF Accept
  <1>12. CASE AcceptNone
    BY <1>12 DEF AcceptNone
  <1>13. CASE InsertLock
    BY <1>13 DEF InsertLock
  <1>14. CASE InsertUnlock
    BY <1>14 DEF InsertUnlock
  <1>15. CASE Opened
    BY <1>15 DEF Opened
  <1>16. CASE EpollAdd
    BY <1>16 DEF EpollAdd
  <1>17. CASE SweepNotDue
    BY <1>17 DEF SweepNotDue
  <1>18. CASE SweepScan
    BY <1>18 DEF SweepScan
  <1>19. CASE SweepUnlock
    BY <1>19 DEF SweepUnlock
  <1>20. CASE SweepErase
    BY <1>20 DEF SweepErase
  <1>21. CASE SweepEraseUnlock
    BY <1>21 DEF SweepEraseUnlock
  <1>22. CASE SweepDel
    BY <1>22 DEF SweepDel
  <1>23. CASE SweepClose
    <2>1. sock' \in [Fds -> Conns \cup {None}]
      BY <1>23 DEF SweepClose
    <2>3. active' \in Int
      BY <1>23 DEF SweepClose
    <2>2. interest' \in [Fds -> {"none", "off", "in", "out"}]
      BY <1>23 DEF SweepClose
    <2> QED
      BY <1>23, <2>1, <2>2, <2>3 DEF SweepClose
  <1>24. CASE SweepDone
    BY <1>24 DEF SweepDone
  <1>25. CASE NotifyWorkers
    BY <1>25 DEF NotifyWorkers, NotifyAll, WorkerPcs
  <1>26. CASE Join
    BY <1>26 DEF Join
  <1>27. CASE SweepClosed
    BY <1>27 DEF SweepClosed
  <1> QED
    BY <1>1, <1>2, <1>3, <1>4, <1>5, <1>6, <1>7, <1>8, <1>9, <1>10, <1>11, <1>12, <1>13, <1>14, <1>15, <1>16, <1>17, <1>18, <1>19, <1>20, <1>21, <1>22, <1>23, <1>24, <1>25, <1>26, <1>27 DEF Main

\* Every step of a worker (workerLoop, handleEvent) keeps the variables in their
\* types.
LEMMA TypeWorker ==
    ASSUME NEW w \in Workers, TypeOK, Worker(w) \/ SpuriousWakeup(w) PROVE TypeOK'
  <1> USE DEF TypeOK, WorkerPcs, kernelVars, sharedVars, mainVars, workerVars, handlerVars
  <1>1. CASE Pop(w)
    BY <1>1 DEF Pop
  <1>2. CASE Exit(w)
    BY <1>2 DEF Exit
  <1>3. CASE WaitPredicateFalse(w)
    BY <1>3 DEF WaitPredicateFalse
  <1>4. CASE Block(w)
    BY <1>4 DEF Block
  <1>5. CASE FindAbsent(w)
    BY <1>5 DEF FindAbsent, Release, LetGo, NoEvent, Event, Actions, Kinds
  <1>6. CASE Find(w)
    BY <1>6 DEF Find, InTable
  <1>7. CASE HandleFailed(w)
    BY <1>7 DEF HandleFailed, Actions
  <1>8. CASE HandleReadable(w)
    BY <1>8 DEF HandleReadable
  <1>9. CASE HandleWritable(w)
    BY <1>9 DEF HandleWritable
  <1>10. CASE Unbusy(w)
    BY <1>10 DEF Unbusy
  <1>11. CASE Rearm(w)
    BY <1>11 DEF Rearm, Release, LetGo, NoEvent, Event, Actions, Kinds
  <1>12. CASE RearmFailed(w)
    BY <1>12 DEF RearmFailed
  <1>13. CASE EraseAbsent(w)
    BY <1>13 DEF EraseAbsent, Release, LetGo, NoEvent, Event, Actions, Kinds
  <1>14. CASE Erase(w)
    BY <1>14 DEF Erase, InTable
  <1>15. CASE Del(w)
    BY <1>15 DEF Del
  <1>16. CASE Close(w)
    <2>1. sock' \in [Fds -> Conns \cup {None}]
      BY <1>16 DEF Close
    <2>4. active' \in Int
      BY <1>16 DEF Close
    <2>2. interest' \in [Fds -> {"none", "off", "in", "out"}]
      BY <1>16 DEF Close
    <2>3. /\ wev' \in [Workers -> Event]
          /\ wact' \in [Workers -> Actions]
      BY <1>16 DEF Close, Release, LetGo, NoEvent, Event, Kinds, Actions
    <2> QED
      BY <1>16, <2>1, <2>2, <2>3, <2>4 DEF Close, Release, LetGo
  <1>17. CASE SpuriousWakeup(w)
    BY <1>17 DEF SpuriousWakeup
  <1>18. CASE Closed(w)
    BY <1>18 DEF Closed
  <1> QED
    BY <1>1, <1>2, <1>3, <1>4, <1>5, <1>6, <1>7, <1>8, <1>9, <1>10, <1>11, <1>12, <1>13, <1>14, <1>15, <1>16, <1>17, <1>18 DEF Worker

\* Every step of stop() in the signal handler keeps the variables in their types.
LEMMA TypeHandler == TypeOK /\ Handler => TypeOK'
  <1> SUFFICES ASSUME TypeOK, Handler PROVE TypeOK'
    OBVIOUS
  <1> USE DEF TypeOK, HandlerPcs, kernelVars, sharedVars, mainVars, workerVars, handlerVars
  <1>1. CASE StopExchange
    BY <1>1 DEF StopExchange
  <1>2. CASE StopIgnored
    BY <1>2 DEF StopIgnored, Resume, MainPcs
  <1>3. CASE StopWake
    BY <1>3 DEF StopWake, NotifyAll, WorkerPcs
  <1>4. CASE StopClear
    BY <1>4 DEF StopClear
  <1>5. CASE StopClose
    BY <1>5 DEF StopClose
  <1>6. CASE StopListen
    BY <1>6 DEF StopListen, Resume, MainPcs
  <1>7. CASE StopClosed
    BY <1>7 DEF StopClosed, MainPcs
  <1> QED
    BY <1>1, <1>2, <1>3, <1>4, <1>5, <1>6, <1>7 DEF Handler

\* Every step, and every stuttering step, keeps the variables in their types.
LEMMA TypeNext == TypeOK /\ [Next]_vars => TypeOK'
  <1> SUFFICES ASSUME TypeOK, [Next]_vars PROVE TypeOK'
    OBVIOUS
  <1>1. CASE Main
    BY <1>1, TypeMain
  <1>2. CASE \E w \in Workers : Worker(w) \/ SpuriousWakeup(w)
    BY <1>2, TypeWorker
  <1>3. CASE Signal
    BY <1>3, SignalsAssumption
    DEF Signal, TypeOK, HandlerPcs, kernelVars, sharedVars, mainVars, workerVars
  <1>4. CASE Handler
    BY <1>4, TypeHandler
  <1>5. CASE \E c \in Expirable : Age(c)
    BY <1>5, ExpirableAssumption
    DEF Age, TypeOK, kernelVars, sharedVars, mainVars, workerVars, handlerVars
  <1>6. CASE UNCHANGED vars
    BY <1>6 DEF TypeOK, vars, kernelVars, sharedVars, mainVars, workerVars, handlerVars
  <1> QED
    BY <1>1, <1>2, <1>3, <1>4, <1>5, <1>6 DEF Next

\* Descriptors, events and program counters keep their types in every reachable
\* state of pool mode, for any number of descriptors, clients and workers.
THEOREM TypeCorrect == Spec => []TypeOK
  BY TypeInit, TypeNext, PTL DEF Spec


-----------------------------------------------------------------------------
(* Custody of the open sockets.  OneCustodian counts the parties that will  *)
(* close a descriptor; Custody says the same with one conjunct per pair of  *)
(* parties, and Control gathers what the program counters imply.            *)

Control ==
    /\ mpc \in {"insert", "inserting", "opened", "add", "erasing", "del", "close"} => mfd \in Fds
    /\ \A w \in Workers : wpc[w] \in {"handle", "unbusy", "act", "erase", "del", "close"}
                            => wev[w].fd \in Fds
    /\ hopen # {} => hpc \in {"close", "closed"}
    /\ mpc = "start" => \A w \in Workers : wpc[w] = "unborn"

Custody ==
    \A fd \in Fds :
        /\ connections[fd] \in {None, sock[fd]}
        /\ sock[fd] = None => ~EpollHolds(fd) /\ fd \notin hopen
        /\ sock[fd] # None => \/ connections[fd] # None \/ EpollHolds(fd) \/ fd \in hopen
                              \/ \E w \in Workers : WorkerHolds(w, fd)
        /\ connections[fd] # None => ~EpollHolds(fd) /\ fd \notin hopen
        /\ EpollHolds(fd) => fd \notin hopen
        /\ \A w \in Workers : WorkerHolds(w, fd) =>
              /\ sock[fd] # None /\ connections[fd] = None
              /\ ~EpollHolds(fd) /\ fd \notin hopen
              /\ \A v \in Workers : WorkerHolds(v, fd) => v = w

\* Control is preserved by every step of the epoll thread.
LEMMA ControlMain ==
    ASSUME TypeOK, Control, Main PROVE Control'
  <1> USE DEF TypeOK, Control, kernelVars, sharedVars, mainVars, workerVars, handlerVars
  <1>1. CASE RunFail
    BY <1>1 DEF RunFail
  <1>2. CASE RunStart
    BY <1>2 DEF RunStart
  <1>3. CASE Loop
    BY <1>3 DEF Loop
  <1>4. CASE EpollWait
    BY <1>4 DEF EpollWait
  <1>5. CASE EpollError
    BY <1>5 DEF EpollError
  <1>6. CASE DispatchStop
    BY <1>6 DEF DispatchStop
  <1>7. CASE DispatchListen
    BY <1>7 DEF DispatchListen
  <1>8. CASE DispatchClient
    BY <1>8 DEF DispatchClient
  <1>9. CASE NotifyOne
    BY <1>9 DEF NotifyOne
  <1>10. CASE DispatchDone
    BY <1>10 DEF DispatchDone
  <1>11. CASE Accept
    BY <1>11 DEF Accept
  <1>12. CASE AcceptNone
    BY <1>12 DEF AcceptNone
  <1>13. CASE InsertLock
    BY <1>13 DEF InsertLock
  <1>14. CASE InsertUnlock
    BY <1>14 DEF InsertUnlock
  <1>15. CASE Opened
    BY <1>15 DEF Opened
  <1>16. CASE EpollAdd
    BY <1>16 DEF EpollAdd
  <1>17. CASE SweepNotDue
    BY <1>17 DEF SweepNotDue
  <1>18. CASE SweepScan
    BY <1>18 DEF SweepScan
  <1>19. CASE SweepUnlock
    BY <1>19 DEF SweepUnlock
  <1>20. CASE SweepErase
    BY <1>20 DEF SweepErase
  <1>21. CASE SweepEraseUnlock
    BY <1>21 DEF SweepEraseUnlock
  <1>22. CASE SweepDel
    BY <1>22 DEF SweepDel
  <1>23. CASE SweepClose
    BY <1>23 DEF SweepClose
  <1>24. CASE SweepDone
    BY <1>24 DEF SweepDone
  <1>25. CASE NotifyWorkers
    BY <1>25 DEF NotifyWorkers, NotifyAll
  <1>26. CASE Join
    BY <1>26 DEF Join
  <1>27. CASE SweepClosed
    BY <1>27 DEF SweepClosed
  <1> QED
    BY <1>1, <1>2, <1>3, <1>4, <1>5, <1>6, <1>7, <1>8, <1>9, <1>10, <1>11, <1>12, <1>13, <1>14, <1>15, <1>16, <1>17, <1>18, <1>19, <1>20, <1>21, <1>22, <1>23, <1>24, <1>25, <1>26, <1>27 DEF Main

\* Control is preserved by every step of a worker.
LEMMA ControlWorker ==
    ASSUME NEW w \in Workers, TypeOK, Control, Worker(w) \/ SpuriousWakeup(w) PROVE Control'
  <1> USE DEF TypeOK, Control, kernelVars, sharedVars, mainVars, workerVars, handlerVars
  <1>1. CASE Pop(w)
    BY <1>1 DEF Pop
  <1>2. CASE Exit(w)
    BY <1>2 DEF Exit
  <1>3. CASE WaitPredicateFalse(w)
    BY <1>3 DEF WaitPredicateFalse
  <1>4. CASE Block(w)
    BY <1>4 DEF Block
  <1>5. CASE FindAbsent(w)
    BY <1>5 DEF FindAbsent, Release, LetGo, InTable
  <1>6. CASE Find(w)
    BY <1>6 DEF Find, InTable
  <1>7. CASE HandleFailed(w)
    BY <1>7 DEF HandleFailed
  <1>8. CASE HandleReadable(w)
    BY <1>8 DEF HandleReadable
  <1>9. CASE HandleWritable(w)
    BY <1>9 DEF HandleWritable
  <1>10. CASE Unbusy(w)
    BY <1>10 DEF Unbusy
  <1>11. CASE Rearm(w)
    BY <1>11 DEF Rearm, Release, LetGo
  <1>12. CASE RearmFailed(w)
    BY <1>12 DEF RearmFailed
  <1>13. CASE EraseAbsent(w)
    BY <1>13 DEF EraseAbsent, Release, LetGo, InTable
  <1>14. CASE Erase(w)
    BY <1>14 DEF Erase, InTable
  <1>15. CASE Del(w)
    BY <1>15 DEF Del
  <1>16. CASE Close(w)
    BY <1>16 DEF Close, Release, LetGo
  <1>17. CASE SpuriousWakeup(w)
    BY <1>17 DEF SpuriousWakeup
  <1>18. CASE Closed(w)
    BY <1>18 DEF Closed
  <1> QED
    BY <1>1, <1>2, <1>3, <1>4, <1>5, <1>6, <1>7, <1>8, <1>9, <1>10, <1>11, <1>12, <1>13, <1>14, <1>15, <1>16, <1>17, <1>18 DEF Worker

\* Control is preserved by every step of stop().
LEMMA ControlHandler ==
    ASSUME TypeOK, Control, Handler PROVE Control'
  <1> USE DEF TypeOK, Control, kernelVars, sharedVars, mainVars, workerVars, handlerVars
  <1>1. CASE StopExchange
    BY <1>1 DEF StopExchange
  <1>2. CASE StopIgnored
    BY <1>2 DEF StopIgnored, Resume
  <1>3. CASE StopWake
    BY <1>3 DEF StopWake, NotifyAll
  <1>4. CASE StopClear
    BY <1>4 DEF StopClear
  <1>5. CASE StopClose
    BY <1>5 DEF StopClose
  <1>6. CASE StopListen
    BY <1>6 DEF StopListen, Resume
  <1>7. CASE StopClosed
    BY <1>7 DEF StopClosed
  <1> QED
    BY <1>1, <1>2, <1>3, <1>4, <1>5, <1>6, <1>7 DEF Handler

\* Control is preserved by every step.
LEMMA ControlNext ==
    ASSUME TypeOK, Control, [Next]_vars PROVE Control'
  <1> USE DEF Control, kernelVars, sharedVars, mainVars, workerVars, handlerVars
  <1>1. CASE Main
    BY <1>1, ControlMain
  <1>2. CASE \E w \in Workers : Worker(w) \/ SpuriousWakeup(w)
    BY <1>2, ControlWorker
  <1>3. CASE Signal
    BY <1>3 DEF Signal
  <1>4. CASE Handler
    BY <1>4, ControlHandler
  <1>5. CASE \E c \in Expirable : Age(c)
    BY <1>5 DEF Age
  <1>6. CASE UNCHANGED vars
    BY <1>6 DEF vars
  <1> QED
    BY <1>1, <1>2, <1>3, <1>4, <1>5, <1>6 DEF Next

\* Custody is preserved by every step of the epoll thread.
LEMMA CustodyMain ==
    ASSUME TypeOK, Control, Custody, Main PROVE Custody'
  <1> USE DEF TypeOK, Control, Custody, EpollHolds, WorkerHolds, kernelVars, sharedVars, mainVars, workerVars, handlerVars
  <1>1. CASE RunFail
    BY <1>1 DEF RunFail
  <1>2. CASE RunStart
    BY <1>2 DEF RunStart
  <1>3. CASE Loop
    BY <1>3 DEF Loop
  <1>4. CASE EpollWait
    BY <1>4 DEF EpollWait
  <1>5. CASE EpollError
    BY <1>5 DEF EpollError
  <1>6. CASE DispatchStop
    BY <1>6 DEF DispatchStop
  <1>7. CASE DispatchListen
    BY <1>7 DEF DispatchListen
  <1>8. CASE DispatchClient
    BY <1>8 DEF DispatchClient
  <1>9. CASE NotifyOne
    BY <1>9 DEF NotifyOne
  <1>10. CASE DispatchDone
    BY <1>10 DEF DispatchDone
  <1>11. CASE Accept
    <2>1. PICK c \in Conns, fd \in Fds :
            sock[fd] = None /\ sock' = [sock EXCEPT ![fd] = c] /\ mfd' = fd
      BY <1>11 DEF Accept
    <2>2. \A f \in Fds : ~EpollHolds(f)
      BY <1>11 DEF Accept
    <2>3. c # None
      BY ConnsAssumption
    <2> QED
      BY <1>11, <2>1, <2>2, <2>3 DEF Accept
  <1>12. CASE AcceptNone
    BY <1>12 DEF AcceptNone
  <1>13. CASE InsertLock
    BY <1>13 DEF InsertLock
  <1>14. CASE InsertUnlock
    BY <1>14 DEF InsertUnlock
  <1>15. CASE Opened
    BY <1>15 DEF Opened
  <1>16. CASE EpollAdd
    BY <1>16 DEF EpollAdd
  <1>17. CASE SweepNotDue
    BY <1>17 DEF SweepNotDue
  <1>18. CASE SweepScan
    BY <1>18 DEF SweepScan
  <1>19. CASE SweepUnlock
    BY <1>19 DEF SweepUnlock
  <1>20. CASE SweepErase
    BY <1>20 DEF SweepErase
  <1>21. CASE SweepEraseUnlock
    BY <1>21 DEF SweepEraseUnlock
  <1>22. CASE SweepDel
    BY <1>22 DEF SweepDel
  <1>23. CASE SweepClose
    BY <1>23 DEF SweepClose
  <1>24. CASE SweepDone
    BY <1>24 DEF SweepDone
  <1>25. CASE NotifyWorkers
    BY <1>25 DEF NotifyWorkers, NotifyAll
  <1>26. CASE Join
    BY <1>26 DEF Join
  <1>27. CASE SweepClosed
    BY <1>27 DEF SweepClosed
  <1> QED
    BY <1>1, <1>2, <1>3, <1>4, <1>5, <1>6, <1>7, <1>8, <1>9, <1>10, <1>11, <1>12, <1>13, <1>14, <1>15, <1>16, <1>17, <1>18, <1>19, <1>20, <1>21, <1>22, <1>23, <1>24, <1>25, <1>26, <1>27 DEF Main

\* Custody is preserved by every step of a worker.
LEMMA CustodyWorker ==
    ASSUME NEW w \in Workers, TypeOK, Control, Custody, Worker(w) \/ SpuriousWakeup(w) PROVE Custody'
  <1> USE DEF TypeOK, Control, Custody, EpollHolds, WorkerHolds, kernelVars, sharedVars, mainVars, workerVars, handlerVars
  <1>1. CASE Pop(w)
    BY <1>1 DEF Pop
  <1>2. CASE Exit(w)
    BY <1>2 DEF Exit
  <1>3. CASE WaitPredicateFalse(w)
    BY <1>3 DEF WaitPredicateFalse
  <1>4. CASE Block(w)
    BY <1>4 DEF Block
  <1>5. CASE FindAbsent(w)
    BY <1>5 DEF FindAbsent, Release, LetGo, InTable
  <1>6. CASE Find(w)
    BY <1>6 DEF Find, InTable
  <1>7. CASE HandleFailed(w)
    BY <1>7 DEF HandleFailed
  <1>8. CASE HandleReadable(w)
    BY <1>8 DEF HandleReadable
  <1>9. CASE HandleWritable(w)
    BY <1>9 DEF HandleWritable
  <1>10. CASE Unbusy(w)
    BY <1>10 DEF Unbusy
  <1>11. CASE Rearm(w)
    BY <1>11 DEF Rearm, Release, LetGo
  <1>12. CASE RearmFailed(w)
    BY <1>12 DEF RearmFailed
  <1>13. CASE EraseAbsent(w)
    BY <1>13 DEF EraseAbsent, Release, LetGo, InTable
  <1>14. CASE Erase(w)
    BY <1>14 DEF Erase, InTable
  <1>15. CASE Del(w)
    BY <1>15 DEF Del
  <1>16. CASE Close(w)
    BY <1>16 DEF Close, Release, LetGo
  <1>17. CASE SpuriousWakeup(w)
    BY <1>17 DEF SpuriousWakeup
  <1>18. CASE Closed(w)
    BY <1>18 DEF Closed
  <1> QED
    BY <1>1, <1>2, <1>3, <1>4, <1>5, <1>6, <1>7, <1>8, <1>9, <1>10, <1>11, <1>12, <1>13, <1>14, <1>15, <1>16, <1>17, <1>18 DEF Worker

\* Custody is preserved by every step of stop().
LEMMA CustodyHandler ==
    ASSUME TypeOK, Control, Custody, Handler PROVE Custody'
  <1> USE DEF TypeOK, Control, Custody, EpollHolds, WorkerHolds, kernelVars, sharedVars, mainVars, workerVars, handlerVars
  <1>1. CASE StopExchange
    BY <1>1 DEF StopExchange
  <1>2. CASE StopIgnored
    BY <1>2 DEF StopIgnored, Resume
  <1>3. CASE StopWake
    BY <1>3 DEF StopWake, NotifyAll
  <1>4. CASE StopClear
    BY <1>4 DEF StopClear
  <1>5. CASE StopClose
    BY <1>5 DEF StopClose
  <1>6. CASE StopListen
    BY <1>6 DEF StopListen, Resume
  <1>7. CASE StopClosed
    BY <1>7 DEF StopClosed
  <1> QED
    BY <1>1, <1>2, <1>3, <1>4, <1>5, <1>6, <1>7 DEF Handler

\* Custody is preserved by every step.
LEMMA CustodyNext ==
    ASSUME TypeOK, Control, Custody, [Next]_vars PROVE Custody'
  <1> USE DEF Custody, EpollHolds, WorkerHolds, kernelVars, sharedVars, mainVars, workerVars, handlerVars
  <1>1. CASE Main
    BY <1>1, CustodyMain
  <1>2. CASE \E w \in Workers : Worker(w) \/ SpuriousWakeup(w)
    BY <1>2, CustodyWorker
  <1>3. CASE Signal
    BY <1>3 DEF Signal
  <1>4. CASE Handler
    BY <1>4, CustodyHandler
  <1>5. CASE \E c \in Expirable : Age(c)
    BY <1>5 DEF Age
  <1>6. CASE UNCHANGED vars
    BY <1>6 DEF vars
  <1> QED
    BY <1>1, <1>2, <1>3, <1>4, <1>5, <1>6 DEF Next

\* One conjunct per pair of parties amounts to exactly one custodian.
LEMMA CustodyIsOneCustodian == TypeOK /\ Custody => OneCustodian
  <1> SUFFICES ASSUME TypeOK, Custody, NEW fd \in Fds
               PROVE /\ connections[fd] \in {None, sock[fd]}
                     /\ IF sock[fd] = None
                        THEN Custodians(fd) = {}
                        ELSE \E p \in Custodians(fd) : Custodians(fd) = {p}
    BY DEF OneCustodian
  <1>1. connections[fd] \in {None, sock[fd]}
    BY DEF Custody
  <1>2. CASE sock[fd] = None
    BY <1>2 DEF Custody, Custodians
  <1>3. CASE connections[fd] # None
    <2>1. Custodians(fd) = {"table"}
      BY <1>3 DEF Custody, Custodians
    <2> QED
      BY <1>1, <1>3, <2>1
  <1>4. CASE EpollHolds(fd)
    <2>1. Custodians(fd) = {"epoll"} /\ sock[fd] # None
      BY <1>4 DEF Custody, Custodians
    <2> QED
      BY <1>1, <2>1
  <1>5. CASE fd \in hopen
    <2>1. Custodians(fd) = {"stop"} /\ sock[fd] # None
      BY <1>5 DEF Custody, Custodians
    <2> QED
      BY <1>1, <2>1
  <1>6. ASSUME NEW w \in Workers, WorkerHolds(w, fd)
        PROVE Custodians(fd) = {w} /\ sock[fd] # None
    BY <1>6 DEF Custody, Custodians
  <1> QED
    BY <1>1, <1>2, <1>3, <1>4, <1>5, <1>6 DEF Custody

\* Every open client socket has exactly one party that will close it and a closed
\* descriptor has none, in every reachable state of pool mode: closeConnection()
\* and stop() neither close a descriptor twice nor lose one.
THEOREM OneCustodianAlways == Spec => []OneCustodian
  <1> DEFINE IInv == TypeOK /\ Control /\ Custody
  <1>1. Init => IInv
    BY TypeInit DEF Init, Control, Custody, EpollHolds, WorkerHolds
  <1>2. IInv /\ [Next]_vars => IInv'
    BY TypeNext, ControlNext, CustodyNext
  <1>3. IInv => OneCustodian
    BY CustodyIsOneCustodian
  <1> QED
    BY <1>1, <1>2, <1>3, PTL DEF Spec


-----------------------------------------------------------------------------
(* Ownership when no client outlives the idle timeout.  A token for a       *)
(* descriptor is its armed registration, its event in the batch or in the   *)
(* queue, or the worker that took the event.  EPOLLONESHOT keeps it unique; *)
(* a descriptor that accept() may hand out again has none.                  *)

\* Facts of the program counters the token argument needs.
Idling ==
    /\ batch # {} => mpc \in {"dispatch", "notify1", "accept", "insert", "inserting",
                              "opened", "add"}
    /\ \A w \in Workers : wpc[w] \in {"unborn", "lockq", "blocking", "waiting", "closed",
                                     "exited"} => wev[w] = NoEvent
    /\ mpc = "start" => workQueue = <<>> /\ \A fd \in Fds : sock[fd] = None

\* Nothing expires, so the sweep closes nothing.
NoSweep ==
    /\ \A c \in Conns : ~idle[c]
    /\ expired = {}
    /\ mpc \notin {"erasing", "del", "close", "closed"}

Armed(fd) == interest[fd] \in {"in", "out"}
InBatch(fd) == \E e \in batch : e.fd = fd
InQueue(fd) == \E i \in 1..Len(workQueue) : workQueue[i].fd = fd
WithWorker(fd) == \E w \in Workers : wev[w].fd = fd

\* At most one token per descriptor.
UniqueToken ==
    \A fd \in Fds :
        /\ Armed(fd) => ~InBatch(fd) /\ ~InQueue(fd) /\ ~WithWorker(fd)
        /\ InBatch(fd) => ~InQueue(fd) /\ ~WithWorker(fd)
        /\ InQueue(fd) => ~WithWorker(fd)
        /\ \A e, f \in batch : e.fd = fd /\ f.fd = fd => e = f
        /\ \A i, j \in 1..Len(workQueue) :
              workQueue[i].fd = fd /\ workQueue[j].fd = fd => i = j
        /\ \A v, w \in Workers : wev[v].fd = fd /\ wev[w].fd = fd => v = w

\* No token is left for a descriptor that accept() may return, nor for the one it
\* has just returned.
FreshDescriptor ==
    \A fd \in Fds :
        /\ sock[fd] = None => interest[fd] = "none"
        /\ (sock[fd] = None /\ listenOpen /\ hpc \notin {"close", "closed"}) =>
              ~InBatch(fd) /\ ~InQueue(fd) /\ ~WithWorker(fd)
        /\ (mpc \in {"insert", "inserting", "opened", "add"} /\ mfd = fd) =>
              /\ ~InBatch(fd) /\ ~InQueue(fd) /\ ~WithWorker(fd)
              /\ interest[fd] = "none"

Owning == {"handle", "unbusy", "act", "erase"}

\* A connection has one descriptor, and a worker the connection behind its own.
OwnConnection ==
    /\ \A fd \in Fds : sock[fd] \in accepted \cup {None}
    /\ \A f, g \in Fds : sock[f] = sock[g] /\ sock[f] # None => f = g
    /\ \A w \in Workers : wpc[w] \in Owning =>
          /\ wconn[w] \in accepted
          /\ sock[wev[w].fd] \in {wconn[w], None}
          /\ \A fd \in Fds : sock[fd] = wconn[w] => fd = wev[w].fd
    /\ \A v, w \in Workers : wpc[v] \in Owning /\ wpc[w] \in Owning /\ wconn[v] = wconn[w]
          => v = w

\* Idling is preserved by every step of the epoll thread.
LEMMA IdlingMain ==
    ASSUME TypeOK, Control, Idling, Main PROVE Idling'
  <1> USE DEF TypeOK, Control, Idling, kernelVars, sharedVars, mainVars, workerVars, handlerVars
  <1>1. CASE RunFail
    BY <1>1 DEF RunFail
  <1>2. CASE RunStart
    BY <1>2 DEF RunStart
  <1>3. CASE Loop
    BY <1>3 DEF Loop
  <1>4. CASE EpollWait
    BY <1>4 DEF EpollWait
  <1>5. CASE EpollError
    BY <1>5 DEF EpollError
  <1>6. CASE DispatchStop
    BY <1>6 DEF DispatchStop
  <1>7. CASE DispatchListen
    BY <1>7 DEF DispatchListen
  <1>8. CASE DispatchClient
    BY <1>8 DEF DispatchClient
  <1>9. CASE NotifyOne
    BY <1>9 DEF NotifyOne
  <1>10. CASE DispatchDone
    BY <1>10 DEF DispatchDone
  <1>11. CASE Accept
    BY <1>11 DEF Accept
  <1>12. CASE AcceptNone
    BY <1>12 DEF AcceptNone
  <1>13. CASE InsertLock
    BY <1>13 DEF InsertLock
  <1>14. CASE InsertUnlock
    BY <1>14 DEF InsertUnlock
  <1>15. CASE Opened
    BY <1>15 DEF Opened
  <1>16. CASE EpollAdd
    BY <1>16 DEF EpollAdd
  <1>17. CASE SweepNotDue
    BY <1>17 DEF SweepNotDue
  <1>18. CASE SweepScan
    BY <1>18 DEF SweepScan
  <1>19. CASE SweepUnlock
    BY <1>19 DEF SweepUnlock
  <1>20. CASE SweepErase
    BY <1>20 DEF SweepErase
  <1>21. CASE SweepEraseUnlock
    BY <1>21 DEF SweepEraseUnlock
  <1>22. CASE SweepDel
    BY <1>22 DEF SweepDel
  <1>23. CASE SweepClose
    BY <1>23 DEF SweepClose
  <1>24. CASE SweepDone
    BY <1>24 DEF SweepDone
  <1>25. CASE NotifyWorkers
    BY <1>25 DEF NotifyWorkers, NotifyAll
  <1>26. CASE Join
    BY <1>26 DEF Join
  <1>27. CASE SweepClosed
    BY <1>27 DEF SweepClosed
  <1> QED
    BY <1>1, <1>2, <1>3, <1>4, <1>5, <1>6, <1>7, <1>8, <1>9, <1>10, <1>11, <1>12, <1>13, <1>14, <1>15, <1>16, <1>17, <1>18, <1>19, <1>20, <1>21, <1>22, <1>23, <1>24, <1>25, <1>26, <1>27 DEF Main

\* Idling is preserved by every step of a worker.
LEMMA IdlingWorker ==
    ASSUME NEW w \in Workers, TypeOK, Control, Idling, Worker(w) \/ SpuriousWakeup(w) PROVE Idling'
  <1> USE DEF TypeOK, Control, Idling, kernelVars, sharedVars, mainVars, workerVars, handlerVars
  <1>1. CASE Pop(w)
    BY <1>1 DEF Pop
  <1>2. CASE Exit(w)
    BY <1>2 DEF Exit
  <1>3. CASE WaitPredicateFalse(w)
    BY <1>3 DEF WaitPredicateFalse
  <1>4. CASE Block(w)
    BY <1>4 DEF Block
  <1>5. CASE FindAbsent(w)
    BY <1>5 DEF FindAbsent, Release, LetGo, InTable
  <1>6. CASE Find(w)
    BY <1>6 DEF Find, InTable
  <1>7. CASE HandleFailed(w)
    BY <1>7 DEF HandleFailed
  <1>8. CASE HandleReadable(w)
    BY <1>8 DEF HandleReadable
  <1>9. CASE HandleWritable(w)
    BY <1>9 DEF HandleWritable
  <1>10. CASE Unbusy(w)
    BY <1>10 DEF Unbusy
  <1>11. CASE Rearm(w)
    BY <1>11 DEF Rearm, Release, LetGo
  <1>12. CASE RearmFailed(w)
    BY <1>12 DEF RearmFailed
  <1>13. CASE EraseAbsent(w)
    BY <1>13 DEF EraseAbsent, Release, LetGo, InTable
  <1>14. CASE Erase(w)
    BY <1>14 DEF Erase, InTable
  <1>15. CASE Del(w)
    BY <1>15 DEF Del
  <1>16. CASE Close(w)
    BY <1>16 DEF Close, Release, LetGo
  <1>17. CASE SpuriousWakeup(w)
    BY <1>17 DEF SpuriousWakeup
  <1>18. CASE Closed(w)
    BY <1>18 DEF Closed
  <1> QED
    BY <1>1, <1>2, <1>3, <1>4, <1>5, <1>6, <1>7, <1>8, <1>9, <1>10, <1>11, <1>12, <1>13, <1>14, <1>15, <1>16, <1>17, <1>18 DEF Worker

\* Idling is preserved by every step of stop().
LEMMA IdlingHandler ==
    ASSUME TypeOK, Control, Idling, Handler PROVE Idling'
  <1> USE DEF TypeOK, Control, Idling, kernelVars, sharedVars, mainVars, workerVars, handlerVars
  <1>1. CASE StopExchange
    BY <1>1 DEF StopExchange
  <1>2. CASE StopIgnored
    BY <1>2 DEF StopIgnored, Resume
  <1>3. CASE StopWake
    BY <1>3 DEF StopWake, NotifyAll
  <1>4. CASE StopClear
    BY <1>4 DEF StopClear
  <1>5. CASE StopClose
    BY <1>5 DEF StopClose
  <1>6. CASE StopListen
    BY <1>6 DEF StopListen, Resume
  <1>7. CASE StopClosed
    BY <1>7 DEF StopClosed
  <1> QED
    BY <1>1, <1>2, <1>3, <1>4, <1>5, <1>6, <1>7 DEF Handler

\* Idling is preserved by every step.
LEMMA IdlingNext ==
    ASSUME TypeOK, Control, Idling, [Next]_vars PROVE Idling'
  <1> USE DEF Idling, kernelVars, sharedVars, mainVars, workerVars, handlerVars
  <1>1. CASE Main
    BY <1>1, IdlingMain
  <1>2. CASE \E w \in Workers : Worker(w) \/ SpuriousWakeup(w)
    BY <1>2, IdlingWorker
  <1>3. CASE Signal
    BY <1>3 DEF Signal
  <1>4. CASE Handler
    BY <1>4, IdlingHandler
  <1>5. CASE \E c \in Expirable : Age(c)
    BY <1>5 DEF Age
  <1>6. CASE UNCHANGED vars
    BY <1>6 DEF vars
  <1> QED
    BY <1>1, <1>2, <1>3, <1>4, <1>5, <1>6 DEF Next

\* NoSweep is preserved by every step of the epoll thread.
LEMMA NoSweepMain ==
    ASSUME Expirable = {}, TypeOK, NoSweep, Main PROVE NoSweep'
  <1> USE DEF TypeOK, NoSweep, kernelVars, sharedVars, mainVars, workerVars, handlerVars
  <1>1. CASE RunFail
    BY <1>1 DEF RunFail
  <1>2. CASE RunStart
    BY <1>2 DEF RunStart
  <1>3. CASE Loop
    BY <1>3 DEF Loop
  <1>4. CASE EpollWait
    BY <1>4 DEF EpollWait
  <1>5. CASE EpollError
    BY <1>5 DEF EpollError
  <1>6. CASE DispatchStop
    BY <1>6 DEF DispatchStop
  <1>7. CASE DispatchListen
    BY <1>7 DEF DispatchListen
  <1>8. CASE DispatchClient
    BY <1>8 DEF DispatchClient
  <1>9. CASE NotifyOne
    BY <1>9 DEF NotifyOne
  <1>10. CASE DispatchDone
    BY <1>10 DEF DispatchDone
  <1>11. CASE Accept
    BY <1>11 DEF Accept
  <1>12. CASE AcceptNone
    BY <1>12 DEF AcceptNone
  <1>13. CASE InsertLock
    BY <1>13 DEF InsertLock
  <1>14. CASE InsertUnlock
    BY <1>14 DEF InsertUnlock
  <1>15. CASE Opened
    BY <1>15 DEF Opened
  <1>16. CASE EpollAdd
    BY <1>16 DEF EpollAdd
  <1>17. CASE SweepNotDue
    BY <1>17 DEF SweepNotDue
  <1>18. CASE SweepScan
    BY <1>18 DEF SweepScan
  <1>19. CASE SweepUnlock
    BY <1>19 DEF SweepUnlock
  <1>20. CASE SweepErase
    BY <1>20 DEF SweepErase
  <1>21. CASE SweepEraseUnlock
    BY <1>21 DEF SweepEraseUnlock
  <1>22. CASE SweepDel
    BY <1>22 DEF SweepDel
  <1>23. CASE SweepClose
    BY <1>23 DEF SweepClose
  <1>24. CASE SweepDone
    BY <1>24 DEF SweepDone
  <1>25. CASE NotifyWorkers
    BY <1>25 DEF NotifyWorkers, NotifyAll
  <1>26. CASE Join
    BY <1>26 DEF Join
  <1>27. CASE SweepClosed
    BY <1>27 DEF SweepClosed
  <1> QED
    BY <1>1, <1>2, <1>3, <1>4, <1>5, <1>6, <1>7, <1>8, <1>9, <1>10, <1>11, <1>12, <1>13, <1>14, <1>15, <1>16, <1>17, <1>18, <1>19, <1>20, <1>21, <1>22, <1>23, <1>24, <1>25, <1>26, <1>27 DEF Main

\* NoSweep is preserved by every step of a worker.
LEMMA NoSweepWorker ==
    ASSUME NEW w \in Workers, Expirable = {}, TypeOK, NoSweep, Worker(w) \/ SpuriousWakeup(w) PROVE NoSweep'
  <1> USE DEF TypeOK, NoSweep, kernelVars, sharedVars, mainVars, workerVars, handlerVars
  <1>1. CASE Pop(w)
    BY <1>1 DEF Pop
  <1>2. CASE Exit(w)
    BY <1>2 DEF Exit
  <1>3. CASE WaitPredicateFalse(w)
    BY <1>3 DEF WaitPredicateFalse
  <1>4. CASE Block(w)
    BY <1>4 DEF Block
  <1>5. CASE FindAbsent(w)
    BY <1>5 DEF FindAbsent, Release, LetGo, InTable
  <1>6. CASE Find(w)
    BY <1>6 DEF Find, InTable
  <1>7. CASE HandleFailed(w)
    BY <1>7 DEF HandleFailed
  <1>8. CASE HandleReadable(w)
    BY <1>8 DEF HandleReadable
  <1>9. CASE HandleWritable(w)
    BY <1>9 DEF HandleWritable
  <1>10. CASE Unbusy(w)
    BY <1>10 DEF Unbusy
  <1>11. CASE Rearm(w)
    BY <1>11 DEF Rearm, Release, LetGo
  <1>12. CASE RearmFailed(w)
    BY <1>12 DEF RearmFailed
  <1>13. CASE EraseAbsent(w)
    BY <1>13 DEF EraseAbsent, Release, LetGo, InTable
  <1>14. CASE Erase(w)
    BY <1>14 DEF Erase, InTable
  <1>15. CASE Del(w)
    BY <1>15 DEF Del
  <1>16. CASE Close(w)
    BY <1>16 DEF Close, Release, LetGo
  <1>17. CASE SpuriousWakeup(w)
    BY <1>17 DEF SpuriousWakeup
  <1>18. CASE Closed(w)
    BY <1>18 DEF Closed
  <1> QED
    BY <1>1, <1>2, <1>3, <1>4, <1>5, <1>6, <1>7, <1>8, <1>9, <1>10, <1>11, <1>12, <1>13, <1>14, <1>15, <1>16, <1>17, <1>18 DEF Worker

\* NoSweep is preserved by every step of stop().
LEMMA NoSweepHandler ==
    ASSUME Expirable = {}, TypeOK, NoSweep, Handler PROVE NoSweep'
  <1> USE DEF TypeOK, NoSweep, kernelVars, sharedVars, mainVars, workerVars, handlerVars
  <1>1. CASE StopExchange
    BY <1>1 DEF StopExchange
  <1>2. CASE StopIgnored
    BY <1>2 DEF StopIgnored, Resume
  <1>3. CASE StopWake
    BY <1>3 DEF StopWake, NotifyAll
  <1>4. CASE StopClear
    BY <1>4 DEF StopClear
  <1>5. CASE StopClose
    BY <1>5 DEF StopClose
  <1>6. CASE StopListen
    BY <1>6 DEF StopListen, Resume
  <1>7. CASE StopClosed
    BY <1>7 DEF StopClosed
  <1> QED
    BY <1>1, <1>2, <1>3, <1>4, <1>5, <1>6, <1>7 DEF Handler

\* NoSweep is preserved by every step.
LEMMA NoSweepNext ==
    ASSUME Expirable = {}, TypeOK, NoSweep, [Next]_vars PROVE NoSweep'
  <1> USE DEF NoSweep, kernelVars, sharedVars, mainVars, workerVars, handlerVars
  <1>1. CASE Main
    BY <1>1, NoSweepMain
  <1>2. CASE \E w \in Workers : Worker(w) \/ SpuriousWakeup(w)
    BY <1>2, NoSweepWorker
  <1>3. CASE Signal
    BY <1>3 DEF Signal
  <1>4. CASE Handler
    BY <1>4, NoSweepHandler
  <1>5. CASE \E c \in Expirable : Age(c)
    BY <1>5 DEF Age
  <1>6. CASE UNCHANGED vars
    BY <1>6 DEF vars
  <1> QED
    BY <1>1, <1>2, <1>3, <1>4, <1>5, <1>6 DEF Next

\* UniqueToken is preserved by every step of the epoll thread.
LEMMA TokenMain ==
    ASSUME TypeOK, Control, Idling, FreshDescriptor, UniqueToken, Main PROVE UniqueToken'
  <1> USE FdsAssumption DEF TypeOK, Control, Idling, FreshDescriptor, UniqueToken, Armed, InBatch, InQueue, WithWorker, kernelVars, sharedVars, mainVars, workerVars, handlerVars
  <1>1. CASE RunFail
    BY <1>1 DEF RunFail
  <1>2. CASE RunStart
    BY <1>2 DEF RunStart
  <1>3. CASE Loop
    BY <1>3 DEF Loop
  <1>4. CASE EpollWait
    BY <1>4 DEF EpollWait, ReadyEvents, Event
  <1>5. CASE EpollError
    BY <1>5 DEF EpollError
  <1>6. CASE DispatchStop
    BY <1>6 DEF DispatchStop
  <1>7. CASE DispatchListen
    BY <1>7 DEF DispatchListen
  <1>8. CASE DispatchClient
    BY <1>8 DEF DispatchClient
  <1>9. CASE NotifyOne
    BY <1>9 DEF NotifyOne
  <1>10. CASE DispatchDone
    BY <1>10 DEF DispatchDone
  <1>11. CASE Accept
    BY <1>11 DEF Accept
  <1>12. CASE AcceptNone
    BY <1>12 DEF AcceptNone
  <1>13. CASE InsertLock
    BY <1>13 DEF InsertLock
  <1>14. CASE InsertUnlock
    BY <1>14 DEF InsertUnlock
  <1>15. CASE Opened
    BY <1>15 DEF Opened
  <1>16. CASE EpollAdd
    BY <1>16 DEF EpollAdd
  <1>17. CASE SweepNotDue
    BY <1>17 DEF SweepNotDue
  <1>18. CASE SweepScan
    BY <1>18 DEF SweepScan
  <1>19. CASE SweepUnlock
    BY <1>19 DEF SweepUnlock
  <1>20. CASE SweepErase
    BY <1>20 DEF SweepErase
  <1>21. CASE SweepEraseUnlock
    BY <1>21 DEF SweepEraseUnlock
  <1>22. CASE SweepDel
    BY <1>22 DEF SweepDel
  <1>23. CASE SweepClose
    BY <1>23 DEF SweepClose
  <1>24. CASE SweepDone
    BY <1>24 DEF SweepDone
  <1>25. CASE NotifyWorkers
    BY <1>25 DEF NotifyWorkers, NotifyAll
  <1>26. CASE Join
    BY <1>26 DEF Join
  <1>27. CASE SweepClosed
    BY <1>27 DEF SweepClosed
  <1> QED
    BY <1>1, <1>2, <1>3, <1>4, <1>5, <1>6, <1>7, <1>8, <1>9, <1>10, <1>11, <1>12, <1>13, <1>14, <1>15, <1>16, <1>17, <1>18, <1>19, <1>20, <1>21, <1>22, <1>23, <1>24, <1>25, <1>26, <1>27 DEF Main

\* UniqueToken is preserved by every step of a worker.
LEMMA TokenWorker ==
    ASSUME NEW w \in Workers, TypeOK, Control, Idling, FreshDescriptor, UniqueToken, Worker(w) \/ SpuriousWakeup(w) PROVE UniqueToken'
  <1> USE FdsAssumption DEF TypeOK, Control, Idling, FreshDescriptor, UniqueToken, Armed, InBatch, InQueue, WithWorker, kernelVars, sharedVars, mainVars, workerVars, handlerVars
  <1>1. CASE Pop(w)
    BY <1>1 DEF Pop
  <1>2. CASE Exit(w)
    BY <1>2 DEF Exit
  <1>3. CASE WaitPredicateFalse(w)
    BY <1>3 DEF WaitPredicateFalse
  <1>4. CASE Block(w)
    BY <1>4 DEF Block
  <1>5. CASE FindAbsent(w)
    BY <1>5 DEF FindAbsent, Release, LetGo, InTable, NoEvent
  <1>6. CASE Find(w)
    BY <1>6 DEF Find, InTable
  <1>7. CASE HandleFailed(w)
    BY <1>7 DEF HandleFailed
  <1>8. CASE HandleReadable(w)
    BY <1>8 DEF HandleReadable
  <1>9. CASE HandleWritable(w)
    BY <1>9 DEF HandleWritable
  <1>10. CASE Unbusy(w)
    BY <1>10 DEF Unbusy
  <1>11. CASE Rearm(w)
    BY <1>11 DEF Rearm, Release, LetGo, NoEvent
  <1>12. CASE RearmFailed(w)
    BY <1>12 DEF RearmFailed
  <1>13. CASE EraseAbsent(w)
    BY <1>13 DEF EraseAbsent, Release, LetGo, InTable, NoEvent
  <1>14. CASE Erase(w)
    BY <1>14 DEF Erase, InTable
  <1>15. CASE Del(w)
    BY <1>15 DEF Del
  <1>16. CASE Close(w)
    BY <1>16 DEF Close, Release, LetGo, NoEvent
  <1>17. CASE SpuriousWakeup(w)
    BY <1>17 DEF SpuriousWakeup
  <1>18. CASE Closed(w)
    BY <1>18 DEF Closed
  <1> QED
    BY <1>1, <1>2, <1>3, <1>4, <1>5, <1>6, <1>7, <1>8, <1>9, <1>10, <1>11, <1>12, <1>13, <1>14, <1>15, <1>16, <1>17, <1>18 DEF Worker

\* UniqueToken is preserved by every step of stop().
LEMMA TokenHandler ==
    ASSUME TypeOK, Control, Idling, FreshDescriptor, UniqueToken, Handler PROVE UniqueToken'
  <1> USE FdsAssumption DEF TypeOK, Control, Idling, FreshDescriptor, UniqueToken, Armed, InBatch, InQueue, WithWorker, kernelVars, sharedVars, mainVars, workerVars, handlerVars
  <1>1. CASE StopExchange
    BY <1>1 DEF StopExchange
  <1>2. CASE StopIgnored
    BY <1>2 DEF StopIgnored, Resume
  <1>3. CASE StopWake
    BY <1>3 DEF StopWake, NotifyAll
  <1>4. CASE StopClear
    BY <1>4 DEF StopClear
  <1>5. CASE StopClose
    BY <1>5 DEF StopClose
  <1>6. CASE StopListen
    BY <1>6 DEF StopListen, Resume
  <1>7. CASE StopClosed
    BY <1>7 DEF StopClosed
  <1> QED
    BY <1>1, <1>2, <1>3, <1>4, <1>5, <1>6, <1>7 DEF Handler

\* UniqueToken is preserved by every step.
LEMMA TokenNext ==
    ASSUME TypeOK, Control, Idling, FreshDescriptor, UniqueToken, [Next]_vars PROVE UniqueToken'
  <1> USE DEF UniqueToken, Armed, InBatch, InQueue, WithWorker, kernelVars, sharedVars, mainVars, workerVars, handlerVars
  <1>1. CASE Main
    BY <1>1, TokenMain
  <1>2. CASE \E w \in Workers : Worker(w) \/ SpuriousWakeup(w)
    BY <1>2, TokenWorker
  <1>3. CASE Signal
    BY <1>3 DEF Signal
  <1>4. CASE Handler
    BY <1>4, TokenHandler
  <1>5. CASE \E c \in Expirable : Age(c)
    BY <1>5 DEF Age
  <1>6. CASE UNCHANGED vars
    BY <1>6 DEF vars
  <1> QED
    BY <1>1, <1>2, <1>3, <1>4, <1>5, <1>6 DEF Next

\* FreshDescriptor is preserved by every step of the epoll thread.
LEMMA FreshMain ==
    ASSUME TypeOK, Control, Idling, NoSweep, UniqueToken, FreshDescriptor, Main PROVE FreshDescriptor'
  <1> USE FdsAssumption DEF TypeOK, Control, Idling, NoSweep, FreshDescriptor, UniqueToken, Armed, InBatch, InQueue, WithWorker, kernelVars, sharedVars, mainVars, workerVars, handlerVars
  <1>1. CASE RunFail
    BY <1>1 DEF RunFail
  <1>2. CASE RunStart
    <2>1. batch = {} /\ workQueue = <<>> /\ \A w \in Workers : wev[w].fd = StopFd
      BY <1>2 DEF RunStart, NoEvent
    <2> QED
      BY <1>2, <2>1 DEF RunStart
  <1>3. CASE Loop
    BY <1>3 DEF Loop
  <1>4. CASE EpollWait
    <2>1. batch = {} /\ hpc = "none" /\ mpc' = "dispatch"
      BY <1>4 DEF EpollWait, MainRuns
    <2>2. ASSUME NEW fd \in Fds, sock[fd] = None PROVE ~InBatch(fd)' /\ interest'[fd] = "none"
      BY <1>4, <2>2, SMTT(30) DEF EpollWait, ReadyEvents
    <2> QED
      BY <1>4, <2>1, <2>2 DEF EpollWait
  <1>5. CASE EpollError
    BY <1>5 DEF EpollError
  <1>6. CASE DispatchStop
    BY <1>6 DEF DispatchStop
  <1>7. CASE DispatchListen
    BY <1>7 DEF DispatchListen
  <1>8. CASE DispatchClient
    BY <1>8 DEF DispatchClient
  <1>9. CASE NotifyOne
    BY <1>9 DEF NotifyOne
  <1>10. CASE DispatchDone
    BY <1>10 DEF DispatchDone
  <1>11. CASE Accept
    <2>1. PICK c \in Conns, fd \in Fds :
            sock[fd] = None /\ sock' = [sock EXCEPT ![fd] = c] /\ mfd' = fd
      BY <1>11 DEF Accept
    <2>2. ~InBatch(fd) /\ ~InQueue(fd) /\ ~WithWorker(fd) /\ interest[fd] = "none"
      BY <1>11, <2>1 DEF Accept, MainRuns
    <2> QED
      BY <1>11, <2>1, <2>2, ConnsAssumption DEF Accept
  <1>12. CASE AcceptNone
    BY <1>12 DEF AcceptNone
  <1>13. CASE InsertLock
    BY <1>13 DEF InsertLock
  <1>14. CASE InsertUnlock
    BY <1>14 DEF InsertUnlock
  <1>15. CASE Opened
    BY <1>15 DEF Opened
  <1>16. CASE EpollAdd
    BY <1>16 DEF EpollAdd
  <1>17. CASE SweepNotDue
    BY <1>17 DEF SweepNotDue
  <1>18. CASE SweepScan
    BY <1>18 DEF SweepScan
  <1>19. CASE SweepUnlock
    BY <1>19 DEF SweepUnlock
  <1>20. CASE SweepErase
    BY <1>20 DEF SweepErase
  <1>21. CASE SweepEraseUnlock
    BY <1>21 DEF SweepEraseUnlock
  <1>22. CASE SweepDel
    BY <1>22 DEF SweepDel
  <1>23. CASE SweepClose
    BY <1>23 DEF SweepClose
  <1>24. CASE SweepDone
    BY <1>24 DEF SweepDone
  <1>25. CASE NotifyWorkers
    BY <1>25 DEF NotifyWorkers, NotifyAll
  <1>26. CASE Join
    BY <1>26 DEF Join
  <1>27. CASE SweepClosed
    BY <1>27 DEF SweepClosed
  <1> QED
    BY <1>1, <1>2, <1>3, <1>4, <1>5, <1>6, <1>7, <1>8, <1>9, <1>10, <1>11, <1>12, <1>13, <1>14, <1>15, <1>16, <1>17, <1>18, <1>19, <1>20, <1>21, <1>22, <1>23, <1>24, <1>25, <1>26, <1>27 DEF Main

\* FreshDescriptor is preserved by every step of a worker.
LEMMA FreshWorker ==
    ASSUME NEW w \in Workers, TypeOK, Control, Idling, NoSweep, UniqueToken, FreshDescriptor, Worker(w) \/ SpuriousWakeup(w) PROVE FreshDescriptor'
  <1> USE FdsAssumption DEF TypeOK, Control, Idling, NoSweep, FreshDescriptor, UniqueToken, Armed, InBatch, InQueue, WithWorker, kernelVars, sharedVars, mainVars, workerVars, handlerVars
  <1>1. CASE Pop(w)
    BY <1>1 DEF Pop
  <1>2. CASE Exit(w)
    BY <1>2 DEF Exit
  <1>3. CASE WaitPredicateFalse(w)
    BY <1>3 DEF WaitPredicateFalse
  <1>4. CASE Block(w)
    BY <1>4 DEF Block
  <1>5. CASE FindAbsent(w)
    BY <1>5 DEF FindAbsent, Release, LetGo, InTable, NoEvent
  <1>6. CASE Find(w)
    BY <1>6 DEF Find, InTable
  <1>7. CASE HandleFailed(w)
    BY <1>7 DEF HandleFailed
  <1>8. CASE HandleReadable(w)
    BY <1>8 DEF HandleReadable
  <1>9. CASE HandleWritable(w)
    BY <1>9 DEF HandleWritable
  <1>10. CASE Unbusy(w)
    BY <1>10 DEF Unbusy
  <1>11. CASE Rearm(w)
    BY <1>11 DEF Rearm, Release, LetGo, NoEvent
  <1>12. CASE RearmFailed(w)
    BY <1>12 DEF RearmFailed
  <1>13. CASE EraseAbsent(w)
    BY <1>13 DEF EraseAbsent, Release, LetGo, InTable, NoEvent
  <1>14. CASE Erase(w)
    BY <1>14 DEF Erase, InTable
  <1>15. CASE Del(w)
    BY <1>15 DEF Del
  <1>16. CASE Close(w)
    BY <1>16 DEF Close, Release, LetGo, NoEvent
  <1>17. CASE SpuriousWakeup(w)
    BY <1>17 DEF SpuriousWakeup
  <1>18. CASE Closed(w)
    BY <1>18 DEF Closed
  <1> QED
    BY <1>1, <1>2, <1>3, <1>4, <1>5, <1>6, <1>7, <1>8, <1>9, <1>10, <1>11, <1>12, <1>13, <1>14, <1>15, <1>16, <1>17, <1>18 DEF Worker

\* FreshDescriptor is preserved by every step of stop().
LEMMA FreshHandler ==
    ASSUME TypeOK, Control, Idling, NoSweep, UniqueToken, FreshDescriptor, Handler PROVE FreshDescriptor'
  <1> USE FdsAssumption DEF TypeOK, Control, Idling, NoSweep, FreshDescriptor, UniqueToken, Armed, InBatch, InQueue, WithWorker, kernelVars, sharedVars, mainVars, workerVars, handlerVars
  <1>1. CASE StopExchange
    BY <1>1 DEF StopExchange
  <1>2. CASE StopIgnored
    BY <1>2 DEF StopIgnored, Resume
  <1>3. CASE StopWake
    BY <1>3 DEF StopWake, NotifyAll
  <1>4. CASE StopClear
    BY <1>4 DEF StopClear
  <1>5. CASE StopClose
    BY <1>5 DEF StopClose
  <1>6. CASE StopListen
    BY <1>6 DEF StopListen, Resume
  <1>7. CASE StopClosed
    BY <1>7 DEF StopClosed
  <1> QED
    BY <1>1, <1>2, <1>3, <1>4, <1>5, <1>6, <1>7 DEF Handler

\* FreshDescriptor is preserved by every step.
LEMMA FreshNext ==
    ASSUME TypeOK, Control, Idling, NoSweep, UniqueToken, FreshDescriptor, [Next]_vars PROVE FreshDescriptor'
  <1> USE DEF FreshDescriptor, InBatch, InQueue, WithWorker, kernelVars, sharedVars, mainVars, workerVars, handlerVars
  <1>1. CASE Main
    BY <1>1, FreshMain
  <1>2. CASE \E w \in Workers : Worker(w) \/ SpuriousWakeup(w)
    BY <1>2, FreshWorker
  <1>3. CASE Signal
    BY <1>3 DEF Signal
  <1>4. CASE Handler
    BY <1>4, FreshHandler
  <1>5. CASE \E c \in Expirable : Age(c)
    BY <1>5 DEF Age
  <1>6. CASE UNCHANGED vars
    BY <1>6 DEF vars
  <1> QED
    BY <1>1, <1>2, <1>3, <1>4, <1>5, <1>6 DEF Next

\* OwnConnection is preserved by every step of the epoll thread.
LEMMA OwnMain ==
    ASSUME TypeOK, Control, Custody, UniqueToken, FreshDescriptor, OwnConnection, Main PROVE OwnConnection'
  <1> USE FdsAssumption, ConnsAssumption DEF TypeOK, Control, Custody, UniqueToken, FreshDescriptor, OwnConnection, Owning, Armed, InBatch, InQueue, WithWorker, kernelVars, sharedVars, mainVars, workerVars, handlerVars
  <1>1. CASE RunFail
    BY <1>1 DEF RunFail
  <1>2. CASE RunStart
    BY <1>2 DEF RunStart
  <1>3. CASE Loop
    BY <1>3 DEF Loop
  <1>4. CASE EpollWait
    BY <1>4 DEF EpollWait, ReadyEvents, Event
  <1>5. CASE EpollError
    BY <1>5 DEF EpollError
  <1>6. CASE DispatchStop
    BY <1>6 DEF DispatchStop
  <1>7. CASE DispatchListen
    BY <1>7 DEF DispatchListen
  <1>8. CASE DispatchClient
    BY <1>8 DEF DispatchClient
  <1>9. CASE NotifyOne
    BY <1>9 DEF NotifyOne
  <1>10. CASE DispatchDone
    BY <1>10 DEF DispatchDone
  <1>11. CASE Accept
    <2>1. PICK c \in Conns \ accepted, fd \in Fds :
            /\ sock[fd] = None /\ sock' = [sock EXCEPT ![fd] = c]
            /\ accepted' = accepted \cup {c}
      BY <1>11 DEF Accept
    <2>2. \A w \in Workers : wev[w].fd # fd
      BY <1>11, <2>1 DEF Accept, MainRuns
    <2>3. \A f \in Fds : sock[f] # c
      BY <2>1
    <2> QED
      BY <1>11, <2>1, <2>2, <2>3 DEF Accept
  <1>12. CASE AcceptNone
    BY <1>12 DEF AcceptNone
  <1>13. CASE InsertLock
    BY <1>13 DEF InsertLock
  <1>14. CASE InsertUnlock
    BY <1>14 DEF InsertUnlock
  <1>15. CASE Opened
    BY <1>15 DEF Opened
  <1>16. CASE EpollAdd
    BY <1>16 DEF EpollAdd
  <1>17. CASE SweepNotDue
    BY <1>17 DEF SweepNotDue
  <1>18. CASE SweepScan
    BY <1>18 DEF SweepScan
  <1>19. CASE SweepUnlock
    BY <1>19 DEF SweepUnlock
  <1>20. CASE SweepErase
    BY <1>20 DEF SweepErase
  <1>21. CASE SweepEraseUnlock
    BY <1>21 DEF SweepEraseUnlock
  <1>22. CASE SweepDel
    BY <1>22 DEF SweepDel
  <1>23. CASE SweepClose
    BY <1>23 DEF SweepClose
  <1>24. CASE SweepDone
    BY <1>24 DEF SweepDone
  <1>25. CASE NotifyWorkers
    BY <1>25 DEF NotifyWorkers, NotifyAll
  <1>26. CASE Join
    BY <1>26 DEF Join
  <1>27. CASE SweepClosed
    BY <1>27 DEF SweepClosed
  <1> QED
    BY <1>1, <1>2, <1>3, <1>4, <1>5, <1>6, <1>7, <1>8, <1>9, <1>10, <1>11, <1>12, <1>13, <1>14, <1>15, <1>16, <1>17, <1>18, <1>19, <1>20, <1>21, <1>22, <1>23, <1>24, <1>25, <1>26, <1>27 DEF Main

\* OwnConnection is preserved by every step of a worker.
LEMMA OwnWorker ==
    ASSUME NEW w \in Workers, TypeOK, Control, Custody, UniqueToken, FreshDescriptor, OwnConnection, Worker(w) \/ SpuriousWakeup(w) PROVE OwnConnection'
  <1> USE FdsAssumption, ConnsAssumption DEF TypeOK, Control, Custody, UniqueToken, FreshDescriptor, OwnConnection, Owning, Armed, InBatch, InQueue, WithWorker, kernelVars, sharedVars, mainVars, workerVars, handlerVars
  <1>1. CASE Pop(w)
    BY <1>1 DEF Pop
  <1>2. CASE Exit(w)
    BY <1>2 DEF Exit
  <1>3. CASE WaitPredicateFalse(w)
    BY <1>3 DEF WaitPredicateFalse
  <1>4. CASE Block(w)
    BY <1>4 DEF Block
  <1>5. CASE FindAbsent(w)
    BY <1>5 DEF FindAbsent, Release, LetGo, InTable, NoEvent
  <1>6. CASE Find(w)
    <2>1. /\ wpc' = [wpc EXCEPT ![w] = "handle"] /\ wev' = wev /\ sock' = sock
          /\ wconn' = [wconn EXCEPT ![w] = connections[wev[w].fd]] /\ accepted' = accepted
      BY <1>6 DEF Find
    <2> DEFINE fd == wev[w].fd
    <2>2. fd \in Fds /\ connections[fd] = sock[fd] /\ sock[fd] # None
      BY <1>6 DEF Find, InTable
    <2>3. \A v \in Workers : v # w => wev[v].fd # fd
      BY <2>2
    <2>4. \A v \in Workers : v # w /\ wpc[v] \in Owning => wconn[v] # sock[fd]
      BY <2>2, <2>3
    <2>5. wpc'[w] = "handle" /\ wconn'[w] = sock[fd] /\ sock[fd] \in accepted
      BY <2>1, <2>2
    <2>6. \A v \in Workers : v # w => wpc'[v] = wpc[v] /\ wconn'[v] = wconn[v]
      BY <2>1
    <2>7. \A v \in Workers : wpc'[v] \in Owning =>
            /\ wconn'[v] \in accepted'
            /\ sock'[wev'[v].fd] \in {wconn'[v], None}
            /\ \A f \in Fds : sock'[f] = wconn'[v] => f = wev'[v].fd
      BY <2>1, <2>2, <2>5, <2>6
    <2>8. \A u, v \in Workers :
            wpc'[u] \in Owning /\ wpc'[v] \in Owning /\ wconn'[u] = wconn'[v] => u = v
      <3> TAKE u, v \in Workers
      <3>1. CASE u = w \/ v = w
        BY <2>4, <2>5, <2>6, <3>1
      <3>2. CASE u # w /\ v # w
        BY <2>6, <3>2
      <3> QED
        BY <3>1, <3>2
    <2> QED
      BY <2>1, <2>7, <2>8
  <1>7. CASE HandleFailed(w)
    BY <1>7 DEF HandleFailed
  <1>8. CASE HandleReadable(w)
    BY <1>8 DEF HandleReadable
  <1>9. CASE HandleWritable(w)
    BY <1>9 DEF HandleWritable
  <1>10. CASE Unbusy(w)
    BY <1>10 DEF Unbusy
  <1>11. CASE Rearm(w)
    BY <1>11 DEF Rearm, Release, LetGo, NoEvent
  <1>12. CASE RearmFailed(w)
    BY <1>12 DEF RearmFailed
  <1>13. CASE EraseAbsent(w)
    BY <1>13 DEF EraseAbsent, Release, LetGo, InTable, NoEvent
  <1>14. CASE Erase(w)
    BY <1>14 DEF Erase, InTable
  <1>15. CASE Del(w)
    BY <1>15 DEF Del
  <1>16. CASE Close(w)
    BY <1>16 DEF Close, Release, LetGo, NoEvent
  <1>17. CASE SpuriousWakeup(w)
    BY <1>17 DEF SpuriousWakeup
  <1>18. CASE Closed(w)
    BY <1>18 DEF Closed
  <1> QED
    BY <1>1, <1>2, <1>3, <1>4, <1>5, <1>6, <1>7, <1>8, <1>9, <1>10, <1>11, <1>12, <1>13, <1>14, <1>15, <1>16, <1>17, <1>18 DEF Worker

\* OwnConnection is preserved by every step of stop().
LEMMA OwnHandler ==
    ASSUME TypeOK, Control, Custody, UniqueToken, FreshDescriptor, OwnConnection, Handler PROVE OwnConnection'
  <1> USE FdsAssumption, ConnsAssumption DEF TypeOK, Control, Custody, UniqueToken, FreshDescriptor, OwnConnection, Owning, Armed, InBatch, InQueue, WithWorker, kernelVars, sharedVars, mainVars, workerVars, handlerVars
  <1>1. CASE StopExchange
    BY <1>1 DEF StopExchange
  <1>2. CASE StopIgnored
    BY <1>2 DEF StopIgnored, Resume
  <1>3. CASE StopWake
    BY <1>3 DEF StopWake, NotifyAll
  <1>4. CASE StopClear
    BY <1>4 DEF StopClear
  <1>5. CASE StopClose
    BY <1>5 DEF StopClose
  <1>6. CASE StopListen
    BY <1>6 DEF StopListen, Resume
  <1>7. CASE StopClosed
    BY <1>7 DEF StopClosed
  <1> QED
    BY <1>1, <1>2, <1>3, <1>4, <1>5, <1>6, <1>7 DEF Handler

\* OwnConnection is preserved by every step.
LEMMA OwnNext ==
    ASSUME TypeOK, Control, Custody, UniqueToken, FreshDescriptor, OwnConnection, [Next]_vars PROVE OwnConnection'
  <1> USE DEF OwnConnection, Owning, kernelVars, sharedVars, mainVars, workerVars, handlerVars
  <1>1. CASE Main
    BY <1>1, OwnMain
  <1>2. CASE \E w \in Workers : Worker(w) \/ SpuriousWakeup(w)
    BY <1>2, OwnWorker
  <1>3. CASE Signal
    BY <1>3 DEF Signal
  <1>4. CASE Handler
    BY <1>4, OwnHandler
  <1>5. CASE \E c \in Expirable : Age(c)
    BY <1>5 DEF Age
  <1>6. CASE UNCHANGED vars
    BY <1>6 DEF vars
  <1> QED
    BY <1>1, <1>2, <1>3, <1>4, <1>5, <1>6 DEF Next

\* The initial state satisfies the whole invariant of the ownership argument.
LEMMA OwnershipInit ==
    Init => Control /\ Custody /\ Idling /\ NoSweep /\ UniqueToken /\ FreshDescriptor /\ OwnConnection
  BY FdsAssumption
  DEF Init, Control, Custody, EpollHolds, WorkerHolds, Idling, NoSweep, UniqueToken,
      FreshDescriptor, OwnConnection, Owning, Armed, InBatch, InQueue, WithWorker, NoEvent

\* When no client outlives the idle timeout, EPOLLONESHOT gives what event_loop.h
\* promises: no two workers ever work on the same Connection, and the descriptor a
\* worker uses by number never denotes another client's socket.
THEOREM SingleOwnerWithoutExpiry ==
    ASSUME Expirable = {} PROVE Spec => [](SingleOwner /\ NoCrossTalk)
  <1> DEFINE IInv == /\ TypeOK /\ Control /\ Custody /\ Idling /\ NoSweep
                     /\ UniqueToken /\ FreshDescriptor /\ OwnConnection
  <1>1. Init => IInv
    BY TypeInit, OwnershipInit
  <1>2. IInv /\ [Next]_vars => IInv'
    <2> SUFFICES ASSUME IInv, [Next]_vars PROVE IInv'
      OBVIOUS
    <2>1. TypeOK' /\ Control' /\ Custody'
      BY TypeNext, ControlNext, CustodyNext
    <2>2. Idling' /\ NoSweep'
      BY IdlingNext, NoSweepNext
    <2>3. UniqueToken' /\ FreshDescriptor' /\ OwnConnection'
      BY TokenNext, FreshNext, OwnNext
    <2> QED
      BY <2>1, <2>2, <2>3
  <1>3. IInv => SingleOwner /\ NoCrossTalk
    BY DEF TypeOK, OwnConnection, Owning, SingleOwner, NoCrossTalk, Owns
  <1> QED
    BY <1>1, <1>2, <1>3, PTL DEF Spec

\* Under the same assumption the descriptor a worker reads, writes, rearms or closes by
\* number never denotes another client's socket.
THEOREM NoCrossTalkWithoutExpiry ==
    ASSUME Expirable = {} PROVE Spec => []NoCrossTalk
  <1>1. SingleOwner /\ NoCrossTalk => NoCrossTalk
    OBVIOUS
  <1> QED
    BY <1>1, SingleOwnerWithoutExpiry, PTL


-----------------------------------------------------------------------------
(* The gauge of open connections *)

\* accept() adds one open socket.
LEMMA OneMoreOpen ==
    ASSUME TypeOK, NEW fd \in Fds, NEW c \in Conns, sock[fd] = None,
           sock' = [sock EXCEPT ![fd] = c]
    PROVE Cardinality(OpenFds') = Cardinality(OpenFds) + 1
  <1>1. IsFiniteSet(OpenFds)
    BY FdsAssumption, FS_Subset DEF OpenFds
  <1>2. OpenFds' = OpenFds \cup {fd} /\ fd \notin OpenFds
    BY ConnsAssumption DEF OpenFds, TypeOK
  <1> QED
    BY <1>1, <1>2, FS_AddElement

\* close() of an open socket removes one.
LEMMA OneLessOpen ==
    ASSUME TypeOK, NEW fd \in Fds, sock[fd] # None, sock' = [sock EXCEPT ![fd] = None]
    PROVE Cardinality(OpenFds') = Cardinality(OpenFds) - 1
  <1>1. IsFiniteSet(OpenFds)
    BY FdsAssumption, FS_Subset DEF OpenFds
  <1>2. OpenFds' = OpenFds \ {fd} /\ fd \in OpenFds
    BY DEF OpenFds, TypeOK
  <1> QED
    BY <1>1, <1>2, FS_RemoveElement

\* The number of open sockets is a natural number.
LEMMA OpenCount == Cardinality(OpenFds) \in Nat
  BY FdsAssumption, FS_Subset, FS_CardinalityType DEF OpenFds


\* A worker enters the gap between close() and connectionClosed(), leaves it, or moves
\* outside it.
LEMMA OneMoreClosed ==
    ASSUME TypeOK, NEW w \in Workers, wpc[w] # "closed", wpc' = [wpc EXCEPT ![w] = "closed"]
    PROVE Cardinality(ClosedWorkers') = Cardinality(ClosedWorkers) + 1
  <1>1. IsFiniteSet(ClosedWorkers)
    BY WorkersAssumption, FS_Subset DEF ClosedWorkers
  <1>2. ClosedWorkers' = ClosedWorkers \cup {w} /\ w \notin ClosedWorkers
    BY DEF ClosedWorkers, TypeOK
  <1> QED
    BY <1>1, <1>2, FS_AddElement

LEMMA OneLessClosed ==
    ASSUME TypeOK, NEW w \in Workers, wpc[w] = "closed", wpc' = [wpc EXCEPT ![w] = "lockq"]
    PROVE Cardinality(ClosedWorkers') = Cardinality(ClosedWorkers) - 1
  <1>1. IsFiniteSet(ClosedWorkers)
    BY WorkersAssumption, FS_Subset DEF ClosedWorkers
  <1>2. ClosedWorkers' = ClosedWorkers \ {w} /\ w \in ClosedWorkers
    BY DEF ClosedWorkers, TypeOK
  <1> QED
    BY <1>1, <1>2, FS_RemoveElement

LEMMA SameClosed ==
    ASSUME TypeOK, NEW w \in Workers, wpc[w] # "closed", NEW pc, pc # "closed",
           wpc' = [wpc EXCEPT ![w] = pc]
    PROVE ClosedWorkers' = ClosedWorkers
  BY DEF ClosedWorkers, TypeOK

\* The number of workers in that gap is a natural number.
LEMMA ClosedCount == Cardinality(ClosedWorkers) \in Nat
  BY WorkersAssumption, FS_Subset, FS_CardinalityType DEF ClosedWorkers

LEMMA StillCountedType == StillCounted \in Nat
  BY ClosedCount DEF StillCounted

\* A step that touches neither a socket nor the gauge, and takes no thread into or out of
\* a gap, keeps the account.
Apart ==
    /\ sock' = sock /\ active' = active /\ ClosedWorkers' = ClosedWorkers
    /\ mpc \in {"insert", "inserting", "opened"} <=> mpc' \in {"insert", "inserting", "opened"}
    /\ mpc = "closed" <=> mpc' = "closed"
    /\ hpc = "closed" <=> hpc' = "closed"

LEMMA ApartKeepsAccount ==
    ASSUME ActiveConnectionsAccounted, Apart PROVE ActiveConnectionsAccounted'
  <1>1. OpenFds' = OpenFds
    BY DEF Apart, OpenFds
  <1>2. Uncounted' = Uncounted
    BY DEF Apart, Uncounted
  <1>3. StillCounted' = StillCounted
    BY DEF Apart, StillCounted
  <1> QED
    BY <1>1, <1>2, <1>3 DEF Apart, ActiveConnectionsAccounted

\* The gauge is accounted for after every step of the epoll thread.
LEMMA GaugeMain ==
    ASSUME TypeOK, Control, Custody, ActiveConnectionsAccounted, Main
    PROVE ActiveConnectionsAccounted'
  <1> USE DEF kernelVars, sharedVars, mainVars, workerVars, handlerVars
  <1>0. wpc' = wpc => ClosedWorkers' = ClosedWorkers
    BY DEF ClosedWorkers
  <1>1. CASE RunFail
    BY <1>0, <1>1, ApartKeepsAccount DEF RunFail, Apart
  <1>2. CASE RunStart
    <2>1. ClosedWorkers' = ClosedWorkers
      BY <1>2 DEF RunStart, ClosedWorkers, Control
    <2> QED
      BY <1>2, <2>1, ApartKeepsAccount DEF RunStart, Apart
  <1>3. CASE Loop
    BY <1>0, <1>3, ApartKeepsAccount DEF Loop, Apart
  <1>4. CASE EpollWait
    BY <1>0, <1>4, ApartKeepsAccount DEF EpollWait, Apart
  <1>5. CASE EpollError
    BY <1>0, <1>5, ApartKeepsAccount DEF EpollError, Apart
  <1>6. CASE DispatchStop
    BY <1>0, <1>6, ApartKeepsAccount DEF DispatchStop, Apart
  <1>7. CASE DispatchListen
    BY <1>0, <1>7, ApartKeepsAccount DEF DispatchListen, Apart
  <1>8. CASE DispatchClient
    BY <1>0, <1>8, ApartKeepsAccount DEF DispatchClient, Apart
  <1>9. CASE NotifyOne
    <2>1. ClosedWorkers' = ClosedWorkers
      BY <1>0, <1>9, SameClosed DEF NotifyOne
    <2> QED
      BY <1>9, <2>1, ApartKeepsAccount DEF NotifyOne, Apart
  <1>10. CASE DispatchDone
    BY <1>0, <1>10, ApartKeepsAccount DEF DispatchDone, Apart
  <1>11. CASE Accept
    <2>1. Cardinality(OpenFds') = Cardinality(OpenFds) + 1
      BY <1>11, OneMoreOpen DEF Accept
    <2>2. Uncounted = 0 /\ Uncounted' = 1
      BY <1>11 DEF Accept, Uncounted
    <2>3. StillCounted' = StillCounted
      BY <1>0, <1>11 DEF Accept, StillCounted
    <2> QED
      BY <1>11, <2>1, <2>2, <2>3, OpenCount, StillCountedType DEF Accept, ActiveConnectionsAccounted, TypeOK
  <1>12. CASE AcceptNone
    BY <1>0, <1>12, ApartKeepsAccount DEF AcceptNone, Apart
  <1>13. CASE InsertLock
    BY <1>0, <1>13, ApartKeepsAccount DEF InsertLock, Apart
  <1>14. CASE InsertUnlock
    BY <1>0, <1>14, ApartKeepsAccount DEF InsertUnlock, Apart
  <1>15. CASE Opened
    <2>1. OpenFds' = OpenFds
      BY <1>15 DEF Opened, OpenFds
    <2>2. Uncounted = 1 /\ Uncounted' = 0
      BY <1>15 DEF Opened, Uncounted
    <2>3. StillCounted' = StillCounted
      BY <1>0, <1>15 DEF Opened, StillCounted
    <2> QED
      BY <1>15, <2>1, <2>2, <2>3, OpenCount, StillCountedType DEF Opened, ActiveConnectionsAccounted, TypeOK
  <1>16. CASE EpollAdd
    BY <1>0, <1>16, ApartKeepsAccount DEF EpollAdd, Apart
  <1>17. CASE SweepNotDue
    BY <1>0, <1>17, ApartKeepsAccount DEF SweepNotDue, Apart
  <1>18. CASE SweepScan
    BY <1>0, <1>18, ApartKeepsAccount DEF SweepScan, Apart
  <1>19. CASE SweepUnlock
    BY <1>0, <1>19, ApartKeepsAccount DEF SweepUnlock, Apart
  <1>20. CASE SweepErase
    BY <1>0, <1>20, ApartKeepsAccount DEF SweepErase, Apart
  <1>21. CASE SweepEraseUnlock
    BY <1>0, <1>21, ApartKeepsAccount DEF SweepEraseUnlock, Apart
  <1>22. CASE SweepDel
    BY <1>0, <1>22, ApartKeepsAccount DEF SweepDel, Apart
  <1>23. CASE SweepClose
    <2>1. mfd \in Fds /\ sock[mfd] # None
      BY <1>23 DEF SweepClose, Control, Custody, EpollHolds, WorkerHolds, TypeOK
    <2>2. Cardinality(OpenFds') = Cardinality(OpenFds) - 1
      BY <1>23, <2>1, OneLessOpen DEF SweepClose
    <2>3. Uncounted = 0 /\ Uncounted' = 0
      BY <1>23 DEF SweepClose, Uncounted
    <2>4. StillCounted' = StillCounted + 1
      BY <1>0, <1>23, ClosedCount DEF SweepClose, StillCounted
    <2> QED
      BY <1>23, <2>2, <2>3, <2>4, OpenCount, StillCountedType DEF SweepClose, ActiveConnectionsAccounted, TypeOK
  <1>24. CASE SweepDone
    BY <1>0, <1>24, ApartKeepsAccount DEF SweepDone, Apart
  <1>25. CASE NotifyWorkers
    <2>1. ClosedWorkers' = ClosedWorkers
      BY <1>25 DEF NotifyWorkers, NotifyAll, ClosedWorkers
    <2> QED
      BY <1>25, <2>1, ApartKeepsAccount DEF NotifyWorkers, Apart
  <1>26. CASE Join
    BY <1>0, <1>26, ApartKeepsAccount DEF Join, Apart
  <1>27. CASE SweepClosed
    <2>1. OpenFds' = OpenFds
      BY <1>27 DEF SweepClosed, OpenFds
    <2>2. Uncounted = 0 /\ Uncounted' = 0
      BY <1>27 DEF SweepClosed, Uncounted
    <2>3. StillCounted' = StillCounted - 1
      BY <1>0, <1>27, ClosedCount DEF SweepClosed, StillCounted
    <2> QED
      BY <1>27, <2>1, <2>2, <2>3, OpenCount, StillCountedType DEF SweepClosed, ActiveConnectionsAccounted, TypeOK
  <1> QED
    BY <1>1, <1>2, <1>3, <1>4, <1>5, <1>6, <1>7, <1>8, <1>9, <1>10, <1>11, <1>12, <1>13, <1>14, <1>15, <1>16, <1>17, <1>18, <1>19, <1>20, <1>21, <1>22, <1>23, <1>24, <1>25, <1>26, <1>27 DEF Main

\* The gauge is accounted for after every step of a worker.
LEMMA GaugeWorker ==
    ASSUME NEW w \in Workers, TypeOK, Control, Custody, ActiveConnectionsAccounted,
           Worker(w) \/ SpuriousWakeup(w)
    PROVE ActiveConnectionsAccounted'
  <1> USE DEF kernelVars, sharedVars, mainVars, workerVars, handlerVars
  <1>0. ASSUME NEW pc, pc # "closed", wpc[w] # "closed", wpc' = [wpc EXCEPT ![w] = pc],
               sock' = sock, active' = active, mpc' = mpc, hpc' = hpc
        PROVE ActiveConnectionsAccounted'
    BY <1>0, SameClosed, ApartKeepsAccount DEF Apart
  <1>1. CASE Pop(w)
    BY <1>0, <1>1 DEF Pop
  <1>2. CASE Exit(w)
    BY <1>0, <1>2 DEF Exit
  <1>3. CASE WaitPredicateFalse(w)
    BY <1>0, <1>3 DEF WaitPredicateFalse
  <1>4. CASE Block(w)
    BY <1>0, <1>4 DEF Block
  <1>5. CASE FindAbsent(w)
    BY <1>0, <1>5 DEF FindAbsent, Release, LetGo
  <1>6. CASE Find(w)
    BY <1>0, <1>6 DEF Find
  <1>7. CASE HandleFailed(w)
    BY <1>0, <1>7 DEF HandleFailed
  <1>8. CASE HandleReadable(w)
    BY <1>0, <1>8 DEF HandleReadable
  <1>9. CASE HandleWritable(w)
    BY <1>0, <1>9 DEF HandleWritable
  <1>10. CASE Unbusy(w)
    BY <1>0, <1>10 DEF Unbusy
  <1>11. CASE Rearm(w)
    BY <1>0, <1>11 DEF Rearm, Release, LetGo
  <1>12. CASE RearmFailed(w)
    BY <1>0, <1>12 DEF RearmFailed
  <1>13. CASE EraseAbsent(w)
    BY <1>0, <1>13 DEF EraseAbsent, Release, LetGo
  <1>14. CASE Erase(w)
    BY <1>0, <1>14 DEF Erase
  <1>15. CASE Del(w)
    BY <1>0, <1>15 DEF Del
  <1>16. CASE Close(w)
    <2>1. wev[w].fd \in Fds /\ sock[wev[w].fd] # None
      BY <1>16 DEF Close, Control, Custody, EpollHolds, WorkerHolds, TypeOK
    <2>2. Cardinality(OpenFds') = Cardinality(OpenFds) - 1
      BY <1>16, <2>1, OneLessOpen DEF Close
    <2>3. Uncounted' = Uncounted
      BY <1>16 DEF Close, Uncounted
    <2>4. Cardinality(ClosedWorkers') = Cardinality(ClosedWorkers) + 1
      BY <1>16, OneMoreClosed DEF Close, LetGo
    <2>5. StillCounted' = StillCounted + 1
      BY <1>16, <2>4, ClosedCount DEF Close, StillCounted
    <2>6. Uncounted \in Nat
      BY DEF Uncounted
    <2> QED
      BY <1>16, <2>2, <2>3, <2>5, <2>6, OpenCount, StillCountedType DEF Close, ActiveConnectionsAccounted, TypeOK
  <1>17. CASE SpuriousWakeup(w)
    BY <1>0, <1>17 DEF SpuriousWakeup
  <1>18. CASE Closed(w)
    <2>1. OpenFds' = OpenFds /\ Uncounted' = Uncounted
      BY <1>18 DEF Closed, OpenFds, Uncounted
    <2>2. Cardinality(ClosedWorkers') = Cardinality(ClosedWorkers) - 1
      BY <1>18, OneLessClosed DEF Closed
    <2>3. StillCounted' = StillCounted - 1
      BY <1>18, <2>2, ClosedCount DEF Closed, StillCounted
    <2>4. Uncounted \in Nat
      BY DEF Uncounted
    <2> QED
      BY <1>18, <2>1, <2>3, <2>4, OpenCount, StillCountedType DEF Closed, ActiveConnectionsAccounted, TypeOK
  <1> QED
    BY <1>1, <1>2, <1>3, <1>4, <1>5, <1>6, <1>7, <1>8, <1>9, <1>10, <1>11, <1>12, <1>13, <1>14, <1>15, <1>16, <1>17, <1>18 DEF Worker

\* The gauge is accounted for after every step of stop().
LEMMA GaugeHandler ==
    ASSUME TypeOK, Control, Custody, ActiveConnectionsAccounted, Handler
    PROVE ActiveConnectionsAccounted'
  <1> USE DEF kernelVars, sharedVars, mainVars, workerVars, handlerVars
  <1>0. wpc' = wpc => ClosedWorkers' = ClosedWorkers
    BY DEF ClosedWorkers
  <1>1. CASE StopExchange
    BY <1>0, <1>1, ApartKeepsAccount DEF StopExchange, Apart
  <1>2. CASE StopIgnored
    BY <1>0, <1>2, ApartKeepsAccount DEF StopIgnored, Resume, Apart
  <1>3. CASE StopWake
    <2>1. ClosedWorkers' = ClosedWorkers
      BY <1>3 DEF StopWake, NotifyAll, ClosedWorkers
    <2> QED
      BY <1>3, <2>1, ApartKeepsAccount DEF StopWake, Apart
  <1>4. CASE StopClear
    BY <1>0, <1>4, ApartKeepsAccount DEF StopClear, Apart
  <1>5. CASE StopClose
    <2>1. PICK fd \in hopen : sock' = [sock EXCEPT ![fd] = None]
      BY <1>5 DEF StopClose
    <2>2. fd \in Fds /\ sock[fd] # None
      BY <2>1 DEF Custody, TypeOK
    <2>3. Cardinality(OpenFds') = Cardinality(OpenFds) - 1
      BY <2>1, <2>2, OneLessOpen
    <2>4. Uncounted' = Uncounted /\ Uncounted \in Nat
      BY <1>5 DEF StopClose, Uncounted
    <2>5. StillCounted' = StillCounted + 1
      BY <1>0, <1>5, ClosedCount DEF StopClose, StillCounted
    <2> QED
      BY <1>5, <2>3, <2>4, <2>5, OpenCount, StillCountedType DEF StopClose, ActiveConnectionsAccounted, TypeOK
  <1>6. CASE StopListen
    BY <1>0, <1>6, ApartKeepsAccount DEF StopListen, Resume, Apart
  <1>7. CASE StopClosed
    <2>1. OpenFds' = OpenFds
      BY <1>7 DEF StopClosed, OpenFds
    <2>2. Uncounted' = Uncounted /\ Uncounted \in Nat
      BY <1>7 DEF StopClosed, Uncounted
    <2>3. StillCounted' = StillCounted - 1
      BY <1>0, <1>7, ClosedCount DEF StopClosed, StillCounted
    <2> QED
      BY <1>7, <2>1, <2>2, <2>3, OpenCount, StillCountedType DEF StopClosed, ActiveConnectionsAccounted, TypeOK
  <1> QED
    BY <1>1, <1>2, <1>3, <1>4, <1>5, <1>6, <1>7 DEF Handler

\* The gauge is accounted for after every step.
LEMMA GaugeNext ==
    ASSUME TypeOK, Control, Custody, ActiveConnectionsAccounted, [Next]_vars
    PROVE ActiveConnectionsAccounted'
  <1> USE DEF kernelVars, sharedVars, mainVars, workerVars, handlerVars
  <1>0. wpc' = wpc => ClosedWorkers' = ClosedWorkers
    BY DEF ClosedWorkers
  <1>1. CASE Main
    BY <1>1, GaugeMain
  <1>2. CASE \E w \in Workers : Worker(w) \/ SpuriousWakeup(w)
    BY <1>2, GaugeWorker
  <1>3. CASE Signal
    BY <1>0, <1>3, ApartKeepsAccount DEF Signal, Apart
  <1>4. CASE Handler
    BY <1>4, GaugeHandler
  <1>5. CASE \E c \in Expirable : Age(c)
    BY <1>0, <1>5, ApartKeepsAccount DEF Age, Apart
  <1>6. CASE UNCHANGED vars
    BY <1>0, <1>6, ApartKeepsAccount DEF vars, Apart
  <1> QED
    BY <1>1, <1>2, <1>3, <1>4, <1>5, <1>6 DEF Next

\* Metrics::activeConnections is off by exactly the threads between a system call and its
\* count, in every reachable state of pool mode: every accept() is counted once and every
\* close(), by a worker, by the sweep or by stop(), is discounted once, and nothing drifts.
THEOREM GaugeAlwaysAccounted == Spec => []ActiveConnectionsAccounted
  <1> DEFINE IInv == TypeOK /\ Control /\ Custody /\ ActiveConnectionsAccounted
  <1>1. Init => IInv
    <2> SUFFICES ASSUME Init PROVE IInv
      OBVIOUS
    <2>1. OpenFds = {} /\ ClosedWorkers = {} /\ Cardinality({}) = 0
      BY FS_EmptySet DEF Init, OpenFds, ClosedWorkers
    <2>2. ActiveConnectionsAccounted
      BY <2>1 DEF Init, ActiveConnectionsAccounted, Uncounted, StillCounted
    <2> QED
      BY <2>2, TypeInit, OwnershipInit
  <1>2. IInv /\ [Next]_vars => IInv'
    BY TypeNext, ControlNext, CustodyNext, GaugeNext
  <1>3. IInv => ActiveConnectionsAccounted
    OBVIOUS
  <1> QED
    BY <1>1, <1>2, <1>3, PTL DEF Spec


-----------------------------------------------------------------------------
(* No connection is stranded *)

\* A closed descriptor and one just accepted are not registered with epoll.
Unregistered ==
    \A fd \in Fds :
        /\ sock[fd] = None => interest[fd] = "none"
        /\ mpc \in {"insert", "inserting", "opened", "add"} /\ mfd = fd => interest[fd] = "none"

\* Unregistered is preserved by every step of the epoll thread.
LEMMA UnregisteredMain ==
    ASSUME TypeOK, Control, Custody, Unregistered, Main PROVE Unregistered'
  <1> USE DEF TypeOK, Control, Custody, EpollHolds, WorkerHolds, Unregistered, kernelVars, sharedVars, mainVars, workerVars, handlerVars
  <1>1. CASE RunFail
    BY <1>1 DEF RunFail
  <1>2. CASE RunStart
    BY <1>2 DEF RunStart
  <1>3. CASE Loop
    BY <1>3 DEF Loop
  <1>4. CASE EpollWait
    <2>1. PICK reported \in SUBSET ReadyEvents :
            interest' = [fd \in Fds |-> IF \E e \in reported : e.fd = fd
                                         THEN "off" ELSE interest[fd]]
      BY <1>4 DEF EpollWait
    <2>2. ASSUME NEW fd \in Fds, interest[fd] = "none" PROVE interest'[fd] = "none"
      <3>1. \A e \in reported : e.fd # fd
        BY <2>1, <2>2, FdsAssumption DEF ReadyEvents
      <3> QED
        BY <2>1, <2>2, <3>1
    <2> QED
      BY <1>4, <2>2 DEF EpollWait
  <1>5. CASE EpollError
    BY <1>5 DEF EpollError
  <1>6. CASE DispatchStop
    BY <1>6 DEF DispatchStop
  <1>7. CASE DispatchListen
    BY <1>7 DEF DispatchListen
  <1>8. CASE DispatchClient
    BY <1>8 DEF DispatchClient
  <1>9. CASE NotifyOne
    BY <1>9 DEF NotifyOne
  <1>10. CASE DispatchDone
    BY <1>10 DEF DispatchDone
  <1>11. CASE Accept
    BY <1>11 DEF Accept
  <1>12. CASE AcceptNone
    BY <1>12 DEF AcceptNone
  <1>13. CASE InsertLock
    BY <1>13 DEF InsertLock
  <1>14. CASE InsertUnlock
    BY <1>14 DEF InsertUnlock
  <1>15. CASE Opened
    BY <1>15 DEF Opened
  <1>16. CASE EpollAdd
    BY <1>16 DEF EpollAdd
  <1>17. CASE SweepNotDue
    BY <1>17 DEF SweepNotDue
  <1>18. CASE SweepScan
    BY <1>18 DEF SweepScan
  <1>19. CASE SweepUnlock
    BY <1>19 DEF SweepUnlock
  <1>20. CASE SweepErase
    BY <1>20 DEF SweepErase
  <1>21. CASE SweepEraseUnlock
    BY <1>21 DEF SweepEraseUnlock
  <1>22. CASE SweepDel
    BY <1>22 DEF SweepDel
  <1>23. CASE SweepClose
    BY <1>23 DEF SweepClose
  <1>24. CASE SweepDone
    BY <1>24 DEF SweepDone
  <1>25. CASE NotifyWorkers
    BY <1>25 DEF NotifyWorkers, NotifyAll
  <1>26. CASE Join
    BY <1>26 DEF Join
  <1>27. CASE SweepClosed
    BY <1>27 DEF SweepClosed
  <1> QED
    BY <1>1, <1>2, <1>3, <1>4, <1>5, <1>6, <1>7, <1>8, <1>9, <1>10, <1>11, <1>12, <1>13, <1>14, <1>15, <1>16, <1>17, <1>18, <1>19, <1>20, <1>21, <1>22, <1>23, <1>24, <1>25, <1>26, <1>27 DEF Main

\* Unregistered is preserved by every step of a worker.
LEMMA UnregisteredWorker ==
    ASSUME NEW w \in Workers, TypeOK, Control, Custody, Unregistered, Worker(w) \/ SpuriousWakeup(w) PROVE Unregistered'
  <1> USE DEF TypeOK, Control, Custody, EpollHolds, WorkerHolds, Unregistered, kernelVars, sharedVars, mainVars, workerVars, handlerVars
  <1>1. CASE Pop(w)
    BY <1>1 DEF Pop
  <1>2. CASE Exit(w)
    BY <1>2 DEF Exit
  <1>3. CASE WaitPredicateFalse(w)
    BY <1>3 DEF WaitPredicateFalse
  <1>4. CASE Block(w)
    BY <1>4 DEF Block
  <1>5. CASE FindAbsent(w)
    BY <1>5 DEF FindAbsent, Release, LetGo, InTable
  <1>6. CASE Find(w)
    BY <1>6 DEF Find, InTable
  <1>7. CASE HandleFailed(w)
    BY <1>7 DEF HandleFailed
  <1>8. CASE HandleReadable(w)
    BY <1>8 DEF HandleReadable
  <1>9. CASE HandleWritable(w)
    BY <1>9 DEF HandleWritable
  <1>10. CASE Unbusy(w)
    BY <1>10 DEF Unbusy
  <1>11. CASE Rearm(w)
    BY <1>11 DEF Rearm, Release, LetGo
  <1>12. CASE RearmFailed(w)
    BY <1>12 DEF RearmFailed
  <1>13. CASE EraseAbsent(w)
    BY <1>13 DEF EraseAbsent, Release, LetGo, InTable
  <1>14. CASE Erase(w)
    BY <1>14 DEF Erase, InTable
  <1>15. CASE Del(w)
    BY <1>15 DEF Del
  <1>16. CASE Close(w)
    BY <1>16 DEF Close, Release, LetGo
  <1>17. CASE SpuriousWakeup(w)
    BY <1>17 DEF SpuriousWakeup
  <1>18. CASE Closed(w)
    BY <1>18 DEF Closed
  <1> QED
    BY <1>1, <1>2, <1>3, <1>4, <1>5, <1>6, <1>7, <1>8, <1>9, <1>10, <1>11, <1>12, <1>13, <1>14, <1>15, <1>16, <1>17, <1>18 DEF Worker

\* Unregistered is preserved by every step of stop().
LEMMA UnregisteredHandler ==
    ASSUME TypeOK, Control, Custody, Unregistered, Handler PROVE Unregistered'
  <1> USE DEF TypeOK, Control, Custody, EpollHolds, WorkerHolds, Unregistered, kernelVars, sharedVars, mainVars, workerVars, handlerVars
  <1>1. CASE StopExchange
    BY <1>1 DEF StopExchange
  <1>2. CASE StopIgnored
    BY <1>2 DEF StopIgnored, Resume
  <1>3. CASE StopWake
    BY <1>3 DEF StopWake, NotifyAll
  <1>4. CASE StopClear
    BY <1>4 DEF StopClear
  <1>5. CASE StopClose
    BY <1>5 DEF StopClose
  <1>6. CASE StopListen
    BY <1>6 DEF StopListen, Resume
  <1>7. CASE StopClosed
    BY <1>7 DEF StopClosed
  <1> QED
    BY <1>1, <1>2, <1>3, <1>4, <1>5, <1>6, <1>7 DEF Handler

\* Unregistered is preserved by every step.
LEMMA UnregisteredNext ==
    ASSUME TypeOK, Control, Custody, Unregistered, [Next]_vars PROVE Unregistered'
  <1> USE DEF Unregistered, kernelVars, sharedVars, mainVars, workerVars, handlerVars
  <1>1. CASE Main
    BY <1>1, UnregisteredMain
  <1>2. CASE \E w \in Workers : Worker(w) \/ SpuriousWakeup(w)
    BY <1>2, UnregisteredWorker
  <1>3. CASE Signal
    BY <1>3 DEF Signal
  <1>4. CASE Handler
    BY <1>4, UnregisteredHandler
  <1>5. CASE \E c \in Expirable : Age(c)
    BY <1>5 DEF Age
  <1>6. CASE UNCHANGED vars
    BY <1>6 DEF vars
  <1> QED
    BY <1>1, <1>2, <1>3, <1>4, <1>5, <1>6 DEF Next

\* NoneStranded is preserved by every step of the epoll thread.
LEMMA StrandedMain ==
    ASSUME TypeOK, Control, Custody, Idling, Unregistered, NoneStranded, Main PROVE NoneStranded'
  <1> USE FdsAssumption DEF TypeOK, Control, Custody, EpollHolds, WorkerHolds, Idling, Unregistered, NoneStranded, HasToken, kernelVars, sharedVars, mainVars, workerVars, handlerVars
  <1>1. CASE RunFail
    BY <1>1 DEF RunFail
  <1>2. CASE RunStart
    <2>1. \A fd \in Fds : connections'[fd] = None
      BY <1>2 DEF RunStart
    <2> QED
      BY <2>1
  <1>3. CASE Loop
    BY <1>3 DEF Loop
  <1>4. CASE EpollWait
    BY <1>4 DEF EpollWait, ReadyEvents, Event
  <1>5. CASE EpollError
    BY <1>5 DEF EpollError
  <1>6. CASE DispatchStop
    BY <1>6 DEF DispatchStop
  <1>7. CASE DispatchListen
    BY <1>7 DEF DispatchListen
  <1>8. CASE DispatchClient
    BY <1>8 DEF DispatchClient
  <1>9. CASE NotifyOne
    BY <1>9 DEF NotifyOne
  <1>10. CASE DispatchDone
    BY <1>10 DEF DispatchDone
  <1>11. CASE Accept
    <2>1. /\ running' = running /\ connections' = connections /\ interest' = interest
          /\ batch' = batch /\ workQueue' = workQueue /\ wev' = wev
      BY <1>11 DEF Accept
    <2> QED
      BY <2>1
  <1>12. CASE AcceptNone
    BY <1>12 DEF AcceptNone
  <1>13. CASE InsertLock
    BY <1>13 DEF InsertLock
  <1>14. CASE InsertUnlock
    BY <1>14 DEF InsertUnlock
  <1>15. CASE Opened
    BY <1>15 DEF Opened
  <1>16. CASE EpollAdd
    BY <1>16 DEF EpollAdd
  <1>17. CASE SweepNotDue
    BY <1>17 DEF SweepNotDue
  <1>18. CASE SweepScan
    BY <1>18 DEF SweepScan
  <1>19. CASE SweepUnlock
    BY <1>19 DEF SweepUnlock
  <1>20. CASE SweepErase
    BY <1>20 DEF SweepErase
  <1>21. CASE SweepEraseUnlock
    BY <1>21 DEF SweepEraseUnlock
  <1>22. CASE SweepDel
    BY <1>22 DEF SweepDel
  <1>23. CASE SweepClose
    BY <1>23 DEF SweepClose
  <1>24. CASE SweepDone
    BY <1>24 DEF SweepDone
  <1>25. CASE NotifyWorkers
    BY <1>25 DEF NotifyWorkers, NotifyAll
  <1>26. CASE Join
    BY <1>26 DEF Join
  <1>27. CASE SweepClosed
    BY <1>27 DEF SweepClosed
  <1> QED
    BY <1>1, <1>2, <1>3, <1>4, <1>5, <1>6, <1>7, <1>8, <1>9, <1>10, <1>11, <1>12, <1>13, <1>14, <1>15, <1>16, <1>17, <1>18, <1>19, <1>20, <1>21, <1>22, <1>23, <1>24, <1>25, <1>26, <1>27 DEF Main

\* NoneStranded is preserved by every step of a worker.
LEMMA StrandedWorker ==
    ASSUME NEW w \in Workers, TypeOK, Control, Custody, Idling, Unregistered, NoneStranded, Worker(w) \/ SpuriousWakeup(w) PROVE NoneStranded'
  <1> USE FdsAssumption DEF TypeOK, Control, Custody, EpollHolds, WorkerHolds, Idling, Unregistered, NoneStranded, HasToken, kernelVars, sharedVars, mainVars, workerVars, handlerVars
  <1>1. CASE Pop(w)
    <2>1. ASSUME NEW fd \in Fds, HasToken(fd) PROVE HasToken(fd)'
      <3>1. CASE \E e \in batch : e.fd = fd
        BY <1>1, <3>1 DEF Pop
      <3>2. CASE \E v \in Workers : wev[v].fd = fd
        BY <1>1, <3>2 DEF Pop, NoEvent
      <3>3. CASE \E i \in 1..Len(workQueue) : workQueue[i].fd = fd
        <4>1. PICK i \in 1..Len(workQueue) : workQueue[i].fd = fd
          BY <3>3
        <4>2. CASE i = 1
          BY <1>1, <4>1, <4>2 DEF Pop
        <4>3. CASE i > 1
          <5>1. i - 1 \in 1..Len(workQueue') /\ workQueue'[i - 1] = workQueue[i]
            BY <1>1, <4>1, <4>3 DEF Pop
          <5> QED
            BY <4>1, <5>1
        <4> QED
          BY <4>1, <4>2, <4>3
      <3> QED
        BY <2>1, <3>1, <3>2, <3>3
    <2> QED
      BY <1>1, <2>1 DEF Pop
  <1>2. CASE Exit(w)
    BY <1>2 DEF Exit
  <1>3. CASE WaitPredicateFalse(w)
    BY <1>3 DEF WaitPredicateFalse
  <1>4. CASE Block(w)
    BY <1>4 DEF Block
  <1>5. CASE FindAbsent(w)
    BY <1>5 DEF FindAbsent, Release, LetGo, InTable, NoEvent
  <1>6. CASE Find(w)
    BY <1>6 DEF Find, InTable
  <1>7. CASE HandleFailed(w)
    BY <1>7, SMTT(30) DEF HandleFailed
  <1>8. CASE HandleReadable(w)
    BY <1>8 DEF HandleReadable
  <1>9. CASE HandleWritable(w)
    BY <1>9 DEF HandleWritable
  <1>10. CASE Unbusy(w)
    BY <1>10 DEF Unbusy
  <1>11. CASE Rearm(w)
    <2>1. /\ running' = running /\ connections' = connections
          /\ batch' = batch /\ workQueue' = workQueue
          /\ \A v \in Workers : v # w => wev'[v] = wev[v]
      BY <1>11 DEF Rearm, Release, LetGo
    <2>2. /\ interest'[wev[w].fd] # "off"
          /\ \A fd \in Fds : fd # wev[w].fd => interest'[fd] = interest[fd]
      BY <1>11 DEF Rearm
    <2>3. ASSUME NEW fd \in Fds, fd # wev[w].fd, HasToken(fd) PROVE HasToken(fd)'
      BY <2>1, <2>3
    <2> QED
      BY <2>1, <2>2, <2>3, SMTT(30)
  <1>12. CASE RearmFailed(w)
    BY <1>12 DEF RearmFailed
  <1>13. CASE EraseAbsent(w)
    BY <1>13 DEF EraseAbsent, Release, LetGo, InTable, NoEvent
  <1>14. CASE Erase(w)
    <2>1. wev' = wev /\ batch' = batch /\ workQueue' = workQueue
      BY <1>14 DEF Erase
    <2>2. interest' = interest /\ running' = running
      BY <1>14 DEF Erase
    <2>3. \A fd \in Fds : connections'[fd] # None => connections[fd] # None
      BY <1>14 DEF Erase, InTable
    <2> QED
      BY <2>1, <2>2, <2>3
  <1>15. CASE Del(w)
    BY <1>15 DEF Del
  <1>16. CASE Close(w)
    BY <1>16 DEF Close, Release, LetGo, NoEvent
  <1>17. CASE SpuriousWakeup(w)
    BY <1>17 DEF SpuriousWakeup
  <1>18. CASE Closed(w)
    BY <1>18 DEF Closed
  <1> QED
    BY <1>1, <1>2, <1>3, <1>4, <1>5, <1>6, <1>7, <1>8, <1>9, <1>10, <1>11, <1>12, <1>13, <1>14, <1>15, <1>16, <1>17, <1>18 DEF Worker

\* NoneStranded is preserved by every step of stop().
LEMMA StrandedHandler ==
    ASSUME TypeOK, Control, Custody, Idling, Unregistered, NoneStranded, Handler PROVE NoneStranded'
  <1> USE FdsAssumption DEF TypeOK, Control, Custody, EpollHolds, WorkerHolds, Idling, Unregistered, NoneStranded, HasToken, kernelVars, sharedVars, mainVars, workerVars, handlerVars
  <1>1. CASE StopExchange
    BY <1>1 DEF StopExchange
  <1>2. CASE StopIgnored
    BY <1>2 DEF StopIgnored, Resume
  <1>3. CASE StopWake
    BY <1>3 DEF StopWake, NotifyAll
  <1>4. CASE StopClear
    BY <1>4 DEF StopClear
  <1>5. CASE StopClose
    BY <1>5 DEF StopClose
  <1>6. CASE StopListen
    BY <1>6 DEF StopListen, Resume
  <1>7. CASE StopClosed
    BY <1>7 DEF StopClosed
  <1> QED
    BY <1>1, <1>2, <1>3, <1>4, <1>5, <1>6, <1>7 DEF Handler

\* NoneStranded is preserved by every step.
LEMMA StrandedNext ==
    ASSUME TypeOK, Control, Custody, Idling, Unregistered, NoneStranded, [Next]_vars PROVE NoneStranded'
  <1> USE DEF NoneStranded, HasToken, kernelVars, sharedVars, mainVars, workerVars, handlerVars
  <1>1. CASE Main
    BY <1>1, StrandedMain
  <1>2. CASE \E w \in Workers : Worker(w) \/ SpuriousWakeup(w)
    BY <1>2, StrandedWorker
  <1>3. CASE Signal
    BY <1>3 DEF Signal
  <1>4. CASE Handler
    BY <1>4, StrandedHandler
  <1>5. CASE \E c \in Expirable : Age(c)
    BY <1>5 DEF Age
  <1>6. CASE UNCHANGED vars
    BY <1>6 DEF vars
  <1> QED
    BY <1>1, <1>2, <1>3, <1>4, <1>5, <1>6 DEF Next

\* No connection of the table is left disarmed without an event or a worker that will
\* rearm or close it, in every reachable state of pool mode, sweeps and reused
\* descriptors included.
THEOREM NeverStranded == Spec => []NoneStranded
  <1> DEFINE IInv == TypeOK /\ Control /\ Custody /\ Idling /\ Unregistered /\ NoneStranded
  <1>1. Init => IInv
    BY TypeInit, OwnershipInit DEF Init, Unregistered, NoneStranded
  <1>2. IInv /\ [Next]_vars => IInv'
    BY TypeNext, ControlNext, CustodyNext, IdlingNext, UnregisteredNext, StrandedNext
  <1>3. IInv => NoneStranded
    OBVIOUS
  <1> QED
    BY <1>1, <1>2, <1>3, PTL DEF Spec


-----------------------------------------------------------------------------
(* PoolLoop implements EventLoop *)

\* A client has at most one descriptor, and only after it has been accepted.
OneSocket ==
    /\ \A fd \in Fds : sock[fd] \in accepted \cup {None}
    /\ \A f, g \in Fds : sock[f] = sock[g] /\ sock[f] # None => f = g

\* Nothing runs any more once run() has returned.
Ended ==
    mpc = "done" => hpc = "none" /\ \A w \in Workers : wpc[w] \in {"unborn", "exited"}

\* OneSocket is preserved by every step of the epoll thread.
LEMMA SocketMain ==
    ASSUME TypeOK, OneSocket, Main PROVE OneSocket'
  <1> USE DEF TypeOK, OneSocket, kernelVars, sharedVars, mainVars, workerVars, handlerVars
  <1>1. CASE RunFail
    BY <1>1 DEF RunFail
  <1>2. CASE RunStart
    BY <1>2 DEF RunStart
  <1>3. CASE Loop
    BY <1>3 DEF Loop
  <1>4. CASE EpollWait
    BY <1>4 DEF EpollWait
  <1>5. CASE EpollError
    BY <1>5 DEF EpollError
  <1>6. CASE DispatchStop
    BY <1>6 DEF DispatchStop
  <1>7. CASE DispatchListen
    BY <1>7 DEF DispatchListen
  <1>8. CASE DispatchClient
    BY <1>8 DEF DispatchClient
  <1>9. CASE NotifyOne
    BY <1>9 DEF NotifyOne
  <1>10. CASE DispatchDone
    BY <1>10 DEF DispatchDone
  <1>11. CASE Accept
    <2>1. PICK c \in Conns \ accepted, fd \in Fds :
            /\ sock[fd] = None /\ sock' = [sock EXCEPT ![fd] = c]
            /\ accepted' = accepted \cup {c}
      BY <1>11 DEF Accept
    <2>2. \A f \in Fds : sock[f] # c
      BY <2>1, ConnsAssumption
    <2> QED
      BY <2>1, <2>2
  <1>12. CASE AcceptNone
    BY <1>12 DEF AcceptNone
  <1>13. CASE InsertLock
    BY <1>13 DEF InsertLock
  <1>14. CASE InsertUnlock
    BY <1>14 DEF InsertUnlock
  <1>15. CASE Opened
    BY <1>15 DEF Opened
  <1>16. CASE EpollAdd
    BY <1>16 DEF EpollAdd
  <1>17. CASE SweepNotDue
    BY <1>17 DEF SweepNotDue
  <1>18. CASE SweepScan
    BY <1>18 DEF SweepScan
  <1>19. CASE SweepUnlock
    BY <1>19 DEF SweepUnlock
  <1>20. CASE SweepErase
    BY <1>20 DEF SweepErase
  <1>21. CASE SweepEraseUnlock
    BY <1>21 DEF SweepEraseUnlock
  <1>22. CASE SweepDel
    BY <1>22 DEF SweepDel
  <1>23. CASE SweepClose
    BY <1>23 DEF SweepClose
  <1>24. CASE SweepDone
    BY <1>24 DEF SweepDone
  <1>25. CASE NotifyWorkers
    BY <1>25 DEF NotifyWorkers, NotifyAll
  <1>26. CASE Join
    BY <1>26 DEF Join
  <1>27. CASE SweepClosed
    BY <1>27 DEF SweepClosed
  <1> QED
    BY <1>1, <1>2, <1>3, <1>4, <1>5, <1>6, <1>7, <1>8, <1>9, <1>10, <1>11, <1>12, <1>13, <1>14, <1>15, <1>16, <1>17, <1>18, <1>19, <1>20, <1>21, <1>22, <1>23, <1>24, <1>25, <1>26, <1>27 DEF Main

\* OneSocket is preserved by every step of a worker.
LEMMA SocketWorker ==
    ASSUME NEW w \in Workers, TypeOK, OneSocket, Worker(w) \/ SpuriousWakeup(w) PROVE OneSocket'
  <1> USE DEF TypeOK, OneSocket, kernelVars, sharedVars, mainVars, workerVars, handlerVars
  <1>1. CASE Pop(w)
    BY <1>1 DEF Pop
  <1>2. CASE Exit(w)
    BY <1>2 DEF Exit
  <1>3. CASE WaitPredicateFalse(w)
    BY <1>3 DEF WaitPredicateFalse
  <1>4. CASE Block(w)
    BY <1>4 DEF Block
  <1>5. CASE FindAbsent(w)
    BY <1>5 DEF FindAbsent, Release, LetGo
  <1>6. CASE Find(w)
    BY <1>6 DEF Find
  <1>7. CASE HandleFailed(w)
    BY <1>7 DEF HandleFailed
  <1>8. CASE HandleReadable(w)
    BY <1>8 DEF HandleReadable
  <1>9. CASE HandleWritable(w)
    BY <1>9 DEF HandleWritable
  <1>10. CASE Unbusy(w)
    BY <1>10 DEF Unbusy
  <1>11. CASE Rearm(w)
    BY <1>11 DEF Rearm, Release, LetGo
  <1>12. CASE RearmFailed(w)
    BY <1>12 DEF RearmFailed
  <1>13. CASE EraseAbsent(w)
    BY <1>13 DEF EraseAbsent, Release, LetGo
  <1>14. CASE Erase(w)
    BY <1>14 DEF Erase
  <1>15. CASE Del(w)
    BY <1>15 DEF Del
  <1>16. CASE Close(w)
    BY <1>16 DEF Close, Release, LetGo
  <1>17. CASE SpuriousWakeup(w)
    BY <1>17 DEF SpuriousWakeup
  <1>18. CASE Closed(w)
    BY <1>18 DEF Closed
  <1> QED
    BY <1>1, <1>2, <1>3, <1>4, <1>5, <1>6, <1>7, <1>8, <1>9, <1>10, <1>11, <1>12, <1>13, <1>14, <1>15, <1>16, <1>17, <1>18 DEF Worker

\* OneSocket is preserved by every step of stop().
LEMMA SocketHandler ==
    ASSUME TypeOK, OneSocket, Handler PROVE OneSocket'
  <1> USE DEF TypeOK, OneSocket, kernelVars, sharedVars, mainVars, workerVars, handlerVars
  <1>1. CASE StopExchange
    BY <1>1 DEF StopExchange
  <1>2. CASE StopIgnored
    BY <1>2 DEF StopIgnored, Resume
  <1>3. CASE StopWake
    BY <1>3 DEF StopWake, NotifyAll
  <1>4. CASE StopClear
    BY <1>4 DEF StopClear
  <1>5. CASE StopClose
    BY <1>5 DEF StopClose
  <1>6. CASE StopListen
    BY <1>6 DEF StopListen, Resume
  <1>7. CASE StopClosed
    BY <1>7 DEF StopClosed
  <1> QED
    BY <1>1, <1>2, <1>3, <1>4, <1>5, <1>6, <1>7 DEF Handler

\* OneSocket is preserved by every step.
LEMMA SocketNext ==
    ASSUME TypeOK, OneSocket, [Next]_vars PROVE OneSocket'
  <1> USE DEF OneSocket, kernelVars, sharedVars, mainVars, workerVars, handlerVars
  <1>1. CASE Main
    BY <1>1, SocketMain
  <1>2. CASE \E w \in Workers : Worker(w) \/ SpuriousWakeup(w)
    BY <1>2, SocketWorker
  <1>3. CASE Signal
    BY <1>3 DEF Signal
  <1>4. CASE Handler
    BY <1>4, SocketHandler
  <1>5. CASE \E c \in Expirable : Age(c)
    BY <1>5 DEF Age
  <1>6. CASE UNCHANGED vars
    BY <1>6 DEF vars
  <1> QED
    BY <1>1, <1>2, <1>3, <1>4, <1>5, <1>6 DEF Next

\* Ended is preserved by every step of the epoll thread.
LEMMA EndedMain ==
    ASSUME TypeOK, Control, Ended, Main PROVE Ended'
  <1> USE DEF TypeOK, Control, Ended, MainRuns, kernelVars, sharedVars, mainVars, workerVars, handlerVars
  <1>1. CASE RunFail
    BY <1>1 DEF RunFail
  <1>2. CASE RunStart
    BY <1>2 DEF RunStart
  <1>3. CASE Loop
    BY <1>3 DEF Loop
  <1>4. CASE EpollWait
    BY <1>4 DEF EpollWait
  <1>5. CASE EpollError
    BY <1>5 DEF EpollError
  <1>6. CASE DispatchStop
    BY <1>6 DEF DispatchStop
  <1>7. CASE DispatchListen
    BY <1>7 DEF DispatchListen
  <1>8. CASE DispatchClient
    BY <1>8 DEF DispatchClient
  <1>9. CASE NotifyOne
    BY <1>9 DEF NotifyOne
  <1>10. CASE DispatchDone
    BY <1>10 DEF DispatchDone
  <1>11. CASE Accept
    BY <1>11 DEF Accept
  <1>12. CASE AcceptNone
    BY <1>12 DEF AcceptNone
  <1>13. CASE InsertLock
    BY <1>13 DEF InsertLock
  <1>14. CASE InsertUnlock
    BY <1>14 DEF InsertUnlock
  <1>15. CASE Opened
    BY <1>15 DEF Opened
  <1>16. CASE EpollAdd
    BY <1>16 DEF EpollAdd
  <1>17. CASE SweepNotDue
    BY <1>17 DEF SweepNotDue
  <1>18. CASE SweepScan
    BY <1>18 DEF SweepScan
  <1>19. CASE SweepUnlock
    BY <1>19 DEF SweepUnlock
  <1>20. CASE SweepErase
    BY <1>20 DEF SweepErase
  <1>21. CASE SweepEraseUnlock
    BY <1>21 DEF SweepEraseUnlock
  <1>22. CASE SweepDel
    BY <1>22 DEF SweepDel
  <1>23. CASE SweepClose
    BY <1>23 DEF SweepClose
  <1>24. CASE SweepDone
    BY <1>24 DEF SweepDone
  <1>25. CASE NotifyWorkers
    BY <1>25 DEF NotifyWorkers, NotifyAll
  <1>26. CASE Join
    BY <1>26 DEF Join
  <1>27. CASE SweepClosed
    BY <1>27 DEF SweepClosed
  <1> QED
    BY <1>1, <1>2, <1>3, <1>4, <1>5, <1>6, <1>7, <1>8, <1>9, <1>10, <1>11, <1>12, <1>13, <1>14, <1>15, <1>16, <1>17, <1>18, <1>19, <1>20, <1>21, <1>22, <1>23, <1>24, <1>25, <1>26, <1>27 DEF Main

\* Ended is preserved by every step of a worker.
LEMMA EndedWorker ==
    ASSUME NEW w \in Workers, TypeOK, Control, Ended, Worker(w) \/ SpuriousWakeup(w) PROVE Ended'
  <1> USE DEF TypeOK, Control, Ended, MainRuns, kernelVars, sharedVars, mainVars, workerVars, handlerVars
  <1>1. CASE Pop(w)
    BY <1>1 DEF Pop
  <1>2. CASE Exit(w)
    BY <1>2 DEF Exit
  <1>3. CASE WaitPredicateFalse(w)
    BY <1>3 DEF WaitPredicateFalse
  <1>4. CASE Block(w)
    BY <1>4 DEF Block
  <1>5. CASE FindAbsent(w)
    BY <1>5 DEF FindAbsent, Release, LetGo, InTable
  <1>6. CASE Find(w)
    BY <1>6 DEF Find, InTable
  <1>7. CASE HandleFailed(w)
    BY <1>7 DEF HandleFailed
  <1>8. CASE HandleReadable(w)
    BY <1>8 DEF HandleReadable
  <1>9. CASE HandleWritable(w)
    BY <1>9 DEF HandleWritable
  <1>10. CASE Unbusy(w)
    BY <1>10 DEF Unbusy
  <1>11. CASE Rearm(w)
    BY <1>11 DEF Rearm, Release, LetGo
  <1>12. CASE RearmFailed(w)
    BY <1>12 DEF RearmFailed
  <1>13. CASE EraseAbsent(w)
    BY <1>13 DEF EraseAbsent, Release, LetGo, InTable
  <1>14. CASE Erase(w)
    BY <1>14 DEF Erase, InTable
  <1>15. CASE Del(w)
    BY <1>15 DEF Del
  <1>16. CASE Close(w)
    BY <1>16 DEF Close, Release, LetGo
  <1>17. CASE SpuriousWakeup(w)
    BY <1>17 DEF SpuriousWakeup
  <1>18. CASE Closed(w)
    BY <1>18 DEF Closed
  <1> QED
    BY <1>1, <1>2, <1>3, <1>4, <1>5, <1>6, <1>7, <1>8, <1>9, <1>10, <1>11, <1>12, <1>13, <1>14, <1>15, <1>16, <1>17, <1>18 DEF Worker

\* Ended is preserved by every step of stop().
LEMMA EndedHandler ==
    ASSUME TypeOK, Control, Ended, Handler PROVE Ended'
  <1> USE DEF TypeOK, Control, Ended, MainRuns, kernelVars, sharedVars, mainVars, workerVars, handlerVars
  <1>1. CASE StopExchange
    BY <1>1 DEF StopExchange
  <1>2. CASE StopIgnored
    BY <1>2 DEF StopIgnored, Resume
  <1>3. CASE StopWake
    BY <1>3 DEF StopWake, NotifyAll
  <1>4. CASE StopClear
    BY <1>4 DEF StopClear
  <1>5. CASE StopClose
    BY <1>5 DEF StopClose
  <1>6. CASE StopListen
    BY <1>6 DEF StopListen, Resume
  <1>7. CASE StopClosed
    BY <1>7 DEF StopClosed
  <1> QED
    BY <1>1, <1>2, <1>3, <1>4, <1>5, <1>6, <1>7 DEF Handler

\* Ended is preserved by every step.
LEMMA EndedNext ==
    ASSUME TypeOK, Control, Ended, [Next]_vars PROVE Ended'
  <1> USE DEF Ended, kernelVars, sharedVars, mainVars, workerVars, handlerVars
  <1>1. CASE Main
    BY <1>1, EndedMain
  <1>2. CASE \E w \in Workers : Worker(w) \/ SpuriousWakeup(w)
    BY <1>2, EndedWorker
  <1>3. CASE Signal
    BY <1>3 DEF Signal
  <1>4. CASE Handler
    BY <1>4, EndedHandler
  <1>5. CASE \E c \in Expirable : Age(c)
    BY <1>5 DEF Age
  <1>6. CASE UNCHANGED vars
    BY <1>6 DEF vars
  <1> QED
    BY <1>1, <1>2, <1>3, <1>4, <1>5, <1>6 DEF Next

\* A step that leaves the sockets and the phase of run() alone is invisible.
LEMMA InvisibleStep ==
    ASSUME sock' = sock, accepted' = accepted, RunPhase' = RunPhase
    PROVE UNCHANGED EL!elVars
  BY DEF ClientStatus, EL!elVars

\* close() of an open socket is the step Shut of the interface.
LEMMA CloseIsShut ==
    ASSUME TypeOK, OneSocket, NEW fd \in Fds, sock[fd] # None,
           sock' = [sock EXCEPT ![fd] = None], accepted' = accepted,
           RunPhase = "running", RunPhase' = "running"
    PROVE EL!ELNext
  <1> DEFINE c == sock[fd]
  <1>1. c \in Conns /\ c \in accepted
    BY DEF TypeOK, OneSocket
  <1>2. ClientStatus[c] = "open" /\ ClientStatus'[c] = "closed"
    <2>1. \A f \in Fds : sock'[f] # c
      BY <1>1, ConnsAssumption DEF TypeOK, OneSocket
    <2> QED
      BY <1>1, <2>1 DEF ClientStatus
  <1>3. \A d \in Conns : d # c => ClientStatus'[d] = ClientStatus[d]
    <2>1. \A f \in Fds, d \in Conns : d # c => (sock'[f] = d <=> sock[f] = d)
      BY ConnsAssumption DEF TypeOK
    <2> QED
      BY <2>1 DEF ClientStatus
  <1>4. ClientStatus' = [ClientStatus EXCEPT ![c] = "closed"]
    BY <1>1, <1>2, <1>3 DEF ClientStatus
  <1>5. EL!Shut(c)
    BY <1>2, <1>4 DEF EL!Shut
  <1> QED
    BY <1>1, <1>5 DEF EL!ELNext


\* Every step of the epoll thread is a step of the interface or invisible.
LEMMA SimMain ==
    ASSUME TypeOK, Control, Custody, Idling, OneSocket, Ended, Main PROVE EL!ELNext \/ UNCHANGED EL!elVars
  <1> USE DEF kernelVars, sharedVars, mainVars, workerVars, handlerVars
  <1>1. CASE RunFail
    <2>1. ClientStatus' = ClientStatus /\ RunPhase = "idle" /\ RunPhase' = "returned"
      BY <1>1 DEF RunFail, ClientStatus, RunPhase
    <2> QED
      BY <2>1 DEF EL!ELNext, EL!Start
  <1>2. CASE RunStart
    <2>1. ClientStatus' = ClientStatus /\ RunPhase = "idle" /\ RunPhase' = "running"
      BY <1>2 DEF RunStart, ClientStatus, RunPhase
    <2> QED
      BY <2>1 DEF EL!ELNext, EL!Start
  <1>3. CASE Loop
    BY <1>3, InvisibleStep DEF Loop, RunPhase
  <1>4. CASE EpollWait
    BY <1>4, InvisibleStep DEF EpollWait, RunPhase
  <1>5. CASE EpollError
    BY <1>5, InvisibleStep DEF EpollError, RunPhase
  <1>6. CASE DispatchStop
    BY <1>6, InvisibleStep DEF DispatchStop, RunPhase
  <1>7. CASE DispatchListen
    BY <1>7, InvisibleStep DEF DispatchListen, RunPhase
  <1>8. CASE DispatchClient
    BY <1>8, InvisibleStep DEF DispatchClient, RunPhase
  <1>9. CASE NotifyOne
    BY <1>9, InvisibleStep DEF NotifyOne, RunPhase
  <1>10. CASE DispatchDone
    BY <1>10, InvisibleStep DEF DispatchDone, RunPhase
  <1>11. CASE Accept
    <2>1. PICK c \in Conns \ accepted, fd \in Fds :
            /\ sock[fd] = None /\ sock' = [sock EXCEPT ![fd] = c]
            /\ accepted' = accepted \cup {c}
      BY <1>11 DEF Accept
    <2>2. RunPhase = "running" /\ RunPhase' = "running"
      BY <1>11 DEF Accept, RunPhase
    <2>3. ClientStatus[c] = "new" /\ ClientStatus'[c] = "open"
      BY <2>1 DEF ClientStatus, TypeOK
    <2>4. \A d \in Conns : d # c => ClientStatus'[d] = ClientStatus[d]
      <3>1. \A f \in Fds, d \in Conns : d # c => (sock'[f] = d <=> sock[f] = d)
        BY <2>1, ConnsAssumption DEF TypeOK
      <3> QED
        BY <2>1, <3>1 DEF ClientStatus
    <2>5. ClientStatus' = [ClientStatus EXCEPT ![c] = "open"]
      BY <2>3, <2>4 DEF ClientStatus
    <2> QED
      BY <2>2, <2>3, <2>5 DEF EL!ELNext, EL!Open
  <1>12. CASE AcceptNone
    BY <1>12, InvisibleStep DEF AcceptNone, RunPhase
  <1>13. CASE InsertLock
    BY <1>13, InvisibleStep DEF InsertLock, RunPhase
  <1>14. CASE InsertUnlock
    BY <1>14, InvisibleStep DEF InsertUnlock, RunPhase
  <1>15. CASE Opened
    BY <1>15, InvisibleStep DEF Opened, RunPhase
  <1>16. CASE EpollAdd
    BY <1>16, InvisibleStep DEF EpollAdd, RunPhase
  <1>17. CASE SweepNotDue
    BY <1>17, InvisibleStep DEF SweepNotDue, RunPhase
  <1>18. CASE SweepScan
    BY <1>18, InvisibleStep DEF SweepScan, RunPhase
  <1>19. CASE SweepUnlock
    BY <1>19, InvisibleStep DEF SweepUnlock, RunPhase
  <1>20. CASE SweepErase
    BY <1>20, InvisibleStep DEF SweepErase, RunPhase
  <1>21. CASE SweepEraseUnlock
    BY <1>21, InvisibleStep DEF SweepEraseUnlock, RunPhase
  <1>22. CASE SweepDel
    BY <1>22, InvisibleStep DEF SweepDel, RunPhase
  <1>23. CASE SweepClose
    <2>1. mfd \in Fds /\ sock[mfd] # None
      BY <1>23 DEF SweepClose, Control, Custody, EpollHolds
    <2>2. RunPhase = "running" /\ RunPhase' = "running"
      BY <1>23 DEF SweepClose, RunPhase
    <2> QED
      BY <1>23, <2>1, <2>2, CloseIsShut DEF SweepClose
  <1>24. CASE SweepDone
    BY <1>24, InvisibleStep DEF SweepDone, RunPhase
  <1>25. CASE NotifyWorkers
    BY <1>25, InvisibleStep DEF NotifyWorkers, NotifyAll, RunPhase
  <1>26. CASE Join
    <2>1. ClientStatus' = ClientStatus /\ RunPhase = "running" /\ RunPhase' = "returned"
      BY <1>26 DEF Join, ClientStatus, RunPhase
    <2> QED
      BY <2>1 DEF EL!ELNext, EL!Return
  <1>27. CASE SweepClosed
    BY <1>27, InvisibleStep DEF SweepClosed, RunPhase
  <1> QED
    BY <1>1, <1>2, <1>3, <1>4, <1>5, <1>6, <1>7, <1>8, <1>9, <1>10, <1>11, <1>12, <1>13, <1>14, <1>15, <1>16, <1>17, <1>18, <1>19, <1>20, <1>21, <1>22, <1>23, <1>24, <1>25, <1>26, <1>27 DEF Main

\* Every step of a worker is a step of the interface or invisible.
LEMMA SimWorker ==
    ASSUME NEW w \in Workers, TypeOK, Control, Custody, Idling, OneSocket, Ended, Worker(w) \/ SpuriousWakeup(w) PROVE EL!ELNext \/ UNCHANGED EL!elVars
  <1> USE DEF kernelVars, sharedVars, mainVars, workerVars, handlerVars
  <1>1. CASE Pop(w)
    BY <1>1, InvisibleStep DEF Pop, RunPhase
  <1>2. CASE Exit(w)
    BY <1>2, InvisibleStep DEF Exit, RunPhase
  <1>3. CASE WaitPredicateFalse(w)
    BY <1>3, InvisibleStep DEF WaitPredicateFalse, RunPhase
  <1>4. CASE Block(w)
    BY <1>4, InvisibleStep DEF Block, RunPhase
  <1>5. CASE FindAbsent(w)
    BY <1>5, InvisibleStep DEF FindAbsent, Release, LetGo, RunPhase
  <1>6. CASE Find(w)
    BY <1>6, InvisibleStep DEF Find, RunPhase
  <1>7. CASE HandleFailed(w)
    BY <1>7, InvisibleStep DEF HandleFailed, RunPhase
  <1>8. CASE HandleReadable(w)
    BY <1>8, InvisibleStep DEF HandleReadable, RunPhase
  <1>9. CASE HandleWritable(w)
    BY <1>9, InvisibleStep DEF HandleWritable, RunPhase
  <1>10. CASE Unbusy(w)
    BY <1>10, InvisibleStep DEF Unbusy, RunPhase
  <1>11. CASE Rearm(w)
    BY <1>11, InvisibleStep DEF Rearm, Release, LetGo, RunPhase
  <1>12. CASE RearmFailed(w)
    BY <1>12, InvisibleStep DEF RearmFailed, RunPhase
  <1>13. CASE EraseAbsent(w)
    BY <1>13, InvisibleStep DEF EraseAbsent, Release, LetGo, RunPhase
  <1>14. CASE Erase(w)
    BY <1>14, InvisibleStep DEF Erase, RunPhase
  <1>15. CASE Del(w)
    BY <1>15, InvisibleStep DEF Del, RunPhase
  <1>16. CASE Close(w)
    <2>1. wev[w].fd \in Fds /\ sock[wev[w].fd] # None
      BY <1>16 DEF Close, Control, Custody, WorkerHolds
    <2>2. mpc \notin {"start", "done"} /\ mpc' = mpc
      BY <1>16 DEF Close, Control, Ended
    <2>3. RunPhase = "running" /\ RunPhase' = "running"
      BY <2>2 DEF RunPhase
    <2> QED
      BY <1>16, <2>1, <2>3, CloseIsShut DEF Close
  <1>17. CASE SpuriousWakeup(w)
    BY <1>17, InvisibleStep DEF SpuriousWakeup, RunPhase
  <1>18. CASE Closed(w)
    BY <1>18, InvisibleStep DEF Closed, RunPhase
  <1> QED
    BY <1>1, <1>2, <1>3, <1>4, <1>5, <1>6, <1>7, <1>8, <1>9, <1>10, <1>11, <1>12, <1>13, <1>14, <1>15, <1>16, <1>17, <1>18 DEF Worker

\* Every step of stop() is a step of the interface or invisible.
LEMMA SimHandler ==
    ASSUME TypeOK, Control, Custody, Idling, OneSocket, Ended, Handler PROVE EL!ELNext \/ UNCHANGED EL!elVars
  <1> USE DEF kernelVars, sharedVars, mainVars, workerVars, handlerVars
  <1>1. CASE StopExchange
    BY <1>1, InvisibleStep DEF StopExchange, RunPhase
  <1>2. CASE StopIgnored
    BY <1>2, InvisibleStep DEF StopIgnored, Resume, RunPhase
  <1>3. CASE StopWake
    BY <1>3, InvisibleStep DEF StopWake, NotifyAll, RunPhase
  <1>4. CASE StopClear
    BY <1>4, InvisibleStep DEF StopClear, RunPhase
  <1>5. CASE StopClose
    <2>1. PICK fd \in hopen : sock' = [sock EXCEPT ![fd] = None]
      BY <1>5 DEF StopClose
    <2>2. fd \in Fds /\ sock[fd] # None
      BY <2>1 DEF Custody, TypeOK
    <2>3. mpc \notin {"start", "done"} /\ mpc' = mpc
      BY <1>5, <2>2 DEF StopClose, Ended, Idling
    <2>4. RunPhase = "running" /\ RunPhase' = "running"
      BY <2>3 DEF RunPhase
    <2> QED
      BY <1>5, <2>1, <2>2, <2>4, CloseIsShut DEF StopClose
  <1>6. CASE StopListen
    BY <1>6, InvisibleStep DEF StopListen, Resume, RunPhase
  <1>7. CASE StopClosed
    BY <1>7, InvisibleStep DEF StopClosed, RunPhase
  <1> QED
    BY <1>1, <1>2, <1>3, <1>4, <1>5, <1>6, <1>7 DEF Handler

\* Pool mode implements the interface EventLoop: its initial states are initial states
\* of the interface and each of its steps is a step of the interface or invisible.
THEOREM PoolImplementsEventLoop == Spec => ImplementsEventLoop
  <1> DEFINE IInv == TypeOK /\ Control /\ Custody /\ Idling /\ OneSocket /\ Ended
  <1>1. Init => IInv
    BY TypeInit, OwnershipInit DEF Init, OneSocket, Ended
  <1>2. IInv /\ [Next]_vars => IInv'
    BY TypeNext, ControlNext, CustodyNext, IdlingNext, SocketNext, EndedNext
  <1>3. Init => EL!ELInit
    BY DEF Init, EL!ELInit, ClientStatus, RunPhase
  <1>4. IInv /\ [Next]_vars => [EL!ELNext]_(EL!elVars)
    <2> SUFFICES ASSUME IInv, [Next]_vars PROVE EL!ELNext \/ UNCHANGED EL!elVars
      OBVIOUS
    <2> USE DEF kernelVars, sharedVars, mainVars, workerVars, handlerVars
    <2>1. CASE Main
      BY <2>1, SimMain
    <2>2. CASE \E w \in Workers : Worker(w) \/ SpuriousWakeup(w)
      BY <2>2, SimWorker
    <2>3. CASE Signal
      BY <2>3, InvisibleStep DEF Signal, RunPhase
    <2>4. CASE Handler
      BY <2>4, SimHandler
    <2>5. CASE \E c \in Expirable : Age(c)
      BY <2>5, InvisibleStep DEF Age, RunPhase
    <2>6. CASE UNCHANGED vars
      BY <2>6, InvisibleStep DEF vars, RunPhase
    <2> QED
      BY <2>1, <2>2, <2>3, <2>4, <2>5, <2>6 DEF Next
  <1> QED
    BY <1>1, <1>2, <1>3, <1>4, PTL DEF Spec, ImplementsEventLoop, EL!ELSpec

-----------------------------------------------------------------------------
(* What stop() leaves open *)

\* In the table, or about to be inserted
Late(fd) == connections[fd] # None \/ (mpc = "insert" /\ mfd = fd)

\* stop() runs through once, nothing is accepted behind it, and the table it has cleared
\* gets at most the client it interrupted between accept() and the insertion.
Stopping ==
    /\ running => mpc # "start"
    /\ stopSignalled \/ hpc \in {"wake", "clear", "close", "closed"} => ~running /\ mpc # "start"
    /\ (\E e \in batch : e.fd = StopFd) => stopSignalled
    /\ hpc \in {"close", "closed"} => \A fd \in Fds : connections[fd] = None
    /\ ~running /\ hpc \in {"none", "exchange"} =>
          ~listenOpen /\ \A f, g \in Fds : Late(f) /\ Late(g) => f = g
    /\ \A w \in Workers : wpc[w] = "exited" => ~running
    /\ mpc = "done" => (\A w \in Workers : wpc[w] = "exited") \/ \A fd \in Fds : sock[fd] = None

\* Stopping is preserved by every step of the epoll thread.
LEMMA StoppingMain ==
    ASSUME TypeOK, Control, Idling, Ended, Stopping, Main PROVE Stopping'
  <1> USE FdsAssumption DEF TypeOK, Control, Idling, Ended, Stopping, Late, MainRuns, kernelVars, sharedVars, mainVars, workerVars, handlerVars
  <1>1. CASE RunFail
    BY <1>1 DEF RunFail
  <1>2. CASE RunStart
    BY <1>2 DEF RunStart
  <1>3. CASE Loop
    BY <1>3 DEF Loop
  <1>4. CASE EpollWait
    BY <1>4 DEF EpollWait, ReadyEvents
  <1>5. CASE EpollError
    BY <1>5 DEF EpollError
  <1>6. CASE DispatchStop
    BY <1>6 DEF DispatchStop
  <1>7. CASE DispatchListen
    BY <1>7 DEF DispatchListen
  <1>8. CASE DispatchClient
    BY <1>8 DEF DispatchClient
  <1>9. CASE NotifyOne
    BY <1>9 DEF NotifyOne
  <1>10. CASE DispatchDone
    BY <1>10 DEF DispatchDone
  <1>11. CASE Accept
    BY <1>11 DEF Accept
  <1>12. CASE AcceptNone
    BY <1>12 DEF AcceptNone
  <1>13. CASE InsertLock
    BY <1>13 DEF InsertLock
  <1>14. CASE InsertUnlock
    BY <1>14 DEF InsertUnlock
  <1>15. CASE Opened
    BY <1>15 DEF Opened
  <1>16. CASE EpollAdd
    BY <1>16 DEF EpollAdd
  <1>17. CASE SweepNotDue
    BY <1>17 DEF SweepNotDue
  <1>18. CASE SweepScan
    BY <1>18 DEF SweepScan
  <1>19. CASE SweepUnlock
    BY <1>19 DEF SweepUnlock
  <1>20. CASE SweepErase
    BY <1>20 DEF SweepErase
  <1>21. CASE SweepEraseUnlock
    BY <1>21 DEF SweepEraseUnlock
  <1>22. CASE SweepDel
    BY <1>22 DEF SweepDel
  <1>23. CASE SweepClose
    BY <1>23 DEF SweepClose
  <1>24. CASE SweepDone
    BY <1>24 DEF SweepDone
  <1>25. CASE NotifyWorkers
    BY <1>25 DEF NotifyWorkers, NotifyAll
  <1>26. CASE Join
    BY <1>26 DEF Join
  <1>27. CASE SweepClosed
    BY <1>27 DEF SweepClosed
  <1> QED
    BY <1>1, <1>2, <1>3, <1>4, <1>5, <1>6, <1>7, <1>8, <1>9, <1>10, <1>11, <1>12, <1>13, <1>14, <1>15, <1>16, <1>17, <1>18, <1>19, <1>20, <1>21, <1>22, <1>23, <1>24, <1>25, <1>26, <1>27 DEF Main

\* Stopping is preserved by every step of a worker.
LEMMA StoppingWorker ==
    ASSUME NEW w \in Workers, TypeOK, Control, Idling, Ended, Stopping, Worker(w) \/ SpuriousWakeup(w) PROVE Stopping'
  <1> USE FdsAssumption DEF TypeOK, Control, Idling, Ended, Stopping, Late, MainRuns, kernelVars, sharedVars, mainVars, workerVars, handlerVars
  <1>1. CASE Pop(w)
    BY <1>1 DEF Pop
  <1>2. CASE Exit(w)
    BY <1>2 DEF Exit
  <1>3. CASE WaitPredicateFalse(w)
    BY <1>3 DEF WaitPredicateFalse
  <1>4. CASE Block(w)
    BY <1>4 DEF Block
  <1>5. CASE FindAbsent(w)
    BY <1>5 DEF FindAbsent, Release, LetGo, InTable
  <1>6. CASE Find(w)
    BY <1>6 DEF Find, InTable
  <1>7. CASE HandleFailed(w)
    BY <1>7 DEF HandleFailed
  <1>8. CASE HandleReadable(w)
    BY <1>8 DEF HandleReadable
  <1>9. CASE HandleWritable(w)
    BY <1>9 DEF HandleWritable
  <1>10. CASE Unbusy(w)
    BY <1>10 DEF Unbusy
  <1>11. CASE Rearm(w)
    BY <1>11 DEF Rearm, Release, LetGo
  <1>12. CASE RearmFailed(w)
    BY <1>12 DEF RearmFailed
  <1>13. CASE EraseAbsent(w)
    BY <1>13 DEF EraseAbsent, Release, LetGo, InTable
  <1>14. CASE Erase(w)
    BY <1>14 DEF Erase, InTable
  <1>15. CASE Del(w)
    BY <1>15 DEF Del
  <1>16. CASE Close(w)
    BY <1>16 DEF Close, Release, LetGo
  <1>17. CASE SpuriousWakeup(w)
    BY <1>17 DEF SpuriousWakeup
  <1>18. CASE Closed(w)
    BY <1>18 DEF Closed
  <1> QED
    BY <1>1, <1>2, <1>3, <1>4, <1>5, <1>6, <1>7, <1>8, <1>9, <1>10, <1>11, <1>12, <1>13, <1>14, <1>15, <1>16, <1>17, <1>18 DEF Worker

\* Stopping is preserved by every step of stop().
LEMMA StoppingHandler ==
    ASSUME TypeOK, Control, Idling, Ended, Stopping, Handler PROVE Stopping'
  <1> USE FdsAssumption DEF TypeOK, Control, Idling, Ended, Stopping, Late, MainRuns, kernelVars, sharedVars, mainVars, workerVars, handlerVars
  <1>1. CASE StopExchange
    BY <1>1 DEF StopExchange
  <1>2. CASE StopIgnored
    BY <1>2 DEF StopIgnored, Resume
  <1>3. CASE StopWake
    BY <1>3 DEF StopWake, NotifyAll
  <1>4. CASE StopClear
    BY <1>4 DEF StopClear
  <1>5. CASE StopClose
    BY <1>5 DEF StopClose
  <1>6. CASE StopListen
    BY <1>6 DEF StopListen, Resume
  <1>7. CASE StopClosed
    BY <1>7 DEF StopClosed
  <1> QED
    BY <1>1, <1>2, <1>3, <1>4, <1>5, <1>6, <1>7 DEF Handler

\* Stopping is preserved by every step.
LEMMA StoppingNext ==
    ASSUME TypeOK, Control, Idling, Ended, Stopping, [Next]_vars PROVE Stopping'
  <1> USE DEF Idling, Ended, Stopping, Late, kernelVars, sharedVars, mainVars, workerVars, handlerVars
  <1>1. CASE Main
    BY <1>1, StoppingMain
  <1>2. CASE \E w \in Workers : Worker(w) \/ SpuriousWakeup(w)
    BY <1>2, StoppingWorker
  <1>3. CASE Signal
    BY <1>3 DEF Signal
  <1>4. CASE Handler
    BY <1>4, StoppingHandler
  <1>5. CASE \E c \in Expirable : Age(c)
    BY <1>5 DEF Age
  <1>6. CASE UNCHANGED vars
    BY <1>6 DEF vars
  <1> QED
    BY <1>1, <1>2, <1>3, <1>4, <1>5, <1>6 DEF Next

\* When run() returns, after stop() and the join of every worker, or because it could not
\* start, at most one client socket is open.
THEOREM AtMostOneLeftOpen == Spec => []AllButOneClosedAtExit
  <1> DEFINE IInv == TypeOK /\ Control /\ Custody /\ Idling /\ Ended /\ Stopping
  <1>1. Init => IInv
    BY TypeInit, OwnershipInit DEF Init, Ended, Stopping, Late
  <1>2. IInv /\ [Next]_vars => IInv'
    BY TypeNext, ControlNext, CustodyNext, IdlingNext, EndedNext, StoppingNext
  <1>3. IInv => AllButOneClosedAtExit
    <2> SUFFICES ASSUME IInv, mpc = "done" PROVE Cardinality(OpenFds) <= 1
      BY DEF AllButOneClosedAtExit
    <2>1. Cardinality({}) = 0 /\ \A fd : Cardinality({fd}) = 1
      BY FS_EmptySet, FS_Singleton
    <2>2. CASE \A fd \in Fds : sock[fd] = None
      <3>1. OpenFds = {}
        BY <2>2 DEF OpenFds
      <3> QED
        BY <2>1, <3>1
    <2>3. CASE \A w \in Workers : wpc[w] = "exited"
      <3>1. ~running /\ hpc = "none"
        BY <2>3, WorkersAssumption DEF Stopping, Ended
      <3>2. \A fd \in OpenFds : fd \in Fds /\ connections[fd] # None
        BY <2>3, <3>1 DEF OpenFds, Custody, Control, EpollHolds, WorkerHolds
      <3>3. \A f, g \in OpenFds : f = g
        BY <3>1, <3>2 DEF Stopping, Late
      <3>4. OpenFds = {} \/ \E fd : OpenFds = {fd}
        BY <3>3
      <3> QED
        BY <2>1, <3>4
    <2> QED
      BY <2>2, <2>3 DEF Stopping
  <1> QED
    BY <1>1, <1>2, <1>3, PTL DEF Spec

=============================================================================
