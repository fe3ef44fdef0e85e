------------------------- MODULE ReactorLoopProofs -------------------------
(* Proofs about ReactorLoop, for any sets of reactors, descriptors and clients. *)
EXTENDS ReactorLoop, FiniteSetTheorems, TLAPS

-----------------------------------------------------------------------------
(* Type correctness *)

\* The initial state of ReactorLoop is well typed.
LEMMA TypeInit == Init => TypeOK
  <1> SUFFICES ASSUME Init PROVE TypeOK
    OBVIOUS
  <1>1. /\ table \in [Reactors -> [Fds -> Conns \cup {None}]]
        /\ interest \in [Reactors -> [Fds -> {"none", "in", "out"}]]
    BY DEF Init
  <1>2. active \in Int /\ signals \in 0..MaxSignals
    BY ReactorSignalsAssumption DEF Init
  <1> QED
    BY <1>1, <1>2 DEF Init, TypeOK

\* Every step of run() keeps the variables in their types.
LEMMA TypeMain == TypeOK /\ Main => TypeOK'
  <1> SUFFICES ASSUME TypeOK, Main PROVE TypeOK'
    OBVIOUS
  <1> USE DEF TypeOK, kernelVars, mainVars, reactorVars, handlerVars
  <1>1. CASE RunStart
    BY <1>1 DEF RunStart
  <1>2. CASE Setup
    BY <1>2 DEF Setup
  <1>3. CASE SetupFail
    BY <1>3 DEF SetupFail
  <1>4. CASE StartThreads
    BY <1>4 DEF StartThreads
  <1>5. CASE Join
    BY <1>5 DEF Join
  <1> QED
    BY <1>1, <1>2, <1>3, <1>4, <1>5 DEF Main

\* closeConnection() keeps the variables it writes in their types.
LEMMA TypeClose ==
    ASSUME TypeOK, NEW r \in Reactors, NEW fd \in Fds, NEW after \in ClosedPhases,
           CloseConnection(r, fd, after)
    PROVE /\ sock' \in [Fds -> Conns \cup {None}]
          /\ table' \in [Reactors -> [Fds -> Conns \cup {None}]]
          /\ interest' \in [Reactors -> [Fds -> {"none", "in", "out"}]]
          /\ rpc' \in [Reactors -> {"unborn", "loop", "wait", "dispatch", "accept", "opened",
                                    "sweep", "exited"} \cup ClosedPhases]
  BY DEF TypeOK, CloseConnection

\* An event of a batch that is neither the listener's nor the stop eventfd's is a
\* client's.
LEMMA ClientEvents ==
    ASSUME TypeOK, NEW r \in Reactors, NEW e \in batch[r] \ {ListenEvent, StopEvent}
    PROVE /\ e \in ClientEvent /\ e.fd \in Fds /\ e.conn \in Conns
          /\ e.kind \in {"in", "out", "hup"}
  <1>1. e \in ClientEvent
    BY DEF TypeOK
  <1> QED
    BY <1>1 DEF ClientEvent

\* Every step of reactorLoop() keeps the variables in their types.
LEMMA TypeReactor ==
    ASSUME NEW r \in Reactors, TypeOK, ReactorStep(r) PROVE TypeOK'
  <1> USE DEF TypeOK, kernelVars, mainVars, reactorVars, handlerVars
  <1>1. CASE Loop(r)
    BY <1>1 DEF Loop
  <1>2. CASE EpollWait(r)
    BY <1>2 DEF EpollWait, ReadyEvents
  <1>3. CASE EpollError(r)
    BY <1>3 DEF EpollError
  <1>4. CASE DispatchStop(r)
    BY <1>4 DEF DispatchStop
  <1>5. CASE DispatchListen(r)
    BY <1>5 DEF DispatchListen
  <1>6. CASE Accept(r)
    <2>1. PICK c \in Conns \ accepted, fd \in Fds :
              /\ sock' = [sock EXCEPT ![fd] = c]
              /\ accepted' = accepted \cup {c}
              /\ table' = [table EXCEPT ![r][fd] = c]
              /\ interest' = [interest EXCEPT ![r][fd] = "in"]
      BY <1>6 DEF Accept
    <2>2. sock' \in [Fds -> Conns \cup {None}] /\ accepted' \subseteq Conns
      BY <2>1
    <2>3. table' \in [Reactors -> [Fds -> Conns \cup {None}]]
      BY <2>1
    <2>4. interest' \in [Reactors -> [Fds -> {"none", "in", "out"}]]
      BY <2>1
    <2> QED
      BY <1>6, <2>2, <2>3, <2>4 DEF Accept
  <1>7. CASE AcceptNone(r)
    BY <1>7 DEF AcceptNone
  <1>8. CASE HandleClose(r)
    <2>1. PICK e \in batch[r] \ {ListenEvent, StopEvent} :
              /\ batch' = [batch EXCEPT ![r] = @ \ {e}]
              /\ CloseConnection(r, e.fd, "handleclosed")
      BY <1>8 DEF HandleClose
    <2>2. e.fd \in Fds
      BY ClientEvents
    <2> QED
      BY <1>8, <2>1, <2>2, TypeClose DEF HandleClose, ClosedPhases
  <1>9. CASE HandleWait(r)
    <2>1. PICK e \in batch[r] \ {ListenEvent, StopEvent}, next \in {"in", "out"} :
              /\ table[r][e.fd] # None
              /\ batch' = [batch EXCEPT ![r] = @ \ {e}]
              /\ interest' = [interest EXCEPT ![r][e.fd] = next]
              /\ idle' = [idle EXCEPT ![table[r][e.fd]] = (e.kind = "out" /\ @)]
      BY <1>9 DEF HandleWait
    <2>2. e.fd \in Fds
      BY ClientEvents
    <2>3. interest' \in [Reactors -> [Fds -> {"none", "in", "out"}]]
      BY <2>1, <2>2
    <2>4. idle' \in [Conns -> BOOLEAN]
      BY <2>1, Zenon
    <2> QED
      BY <1>9, <2>1, <2>3, <2>4 DEF HandleWait
  <1>10. CASE SweepNotDue(r)
    BY <1>10 DEF SweepNotDue
  <1>11. CASE SweepScan(r)
    BY <1>11 DEF SweepScan
  <1>12. CASE SweepClose(r)
    <2>1. PICK fd \in expired[r] : /\ expired' = [expired EXCEPT ![r] = @ \ {fd}]
                                   /\ CloseConnection(r, fd, "sweepclosed")
      BY <1>12 DEF SweepClose
    <2>2. fd \in Fds
      OBVIOUS
    <2> QED
      BY <1>12, <2>1, <2>2, TypeClose DEF SweepClose, ClosedPhases
  <1>13. CASE SweepDone(r)
    BY <1>13 DEF SweepDone
  <1>14. CASE Opened(r)
    BY <1>14 DEF Opened
  <1>15. CASE Closed(r)
    BY <1>15 DEF Closed, ClosedPhases
  <1> QED
    BY <1>1, <1>2, <1>3, <1>4, <1>5, <1>6, <1>7, <1>8, <1>9, <1>10, <1>11, <1>12, <1>13,
       <1>14, <1>15 DEF ReactorStep

\* Every step keeps the variables in their types.
LEMMA TypeNext == TypeOK /\ [Next]_vars => TypeOK'
  <1> SUFFICES ASSUME TypeOK, [Next]_vars PROVE TypeOK'
    OBVIOUS
  <1> USE DEF kernelVars, mainVars, reactorVars, handlerVars
  <1>1. CASE Main
    BY <1>1, TypeMain
  <1>2. CASE \E r \in Reactors : ReactorStep(r)
    BY <1>2, TypeReactor
  <1>3. CASE Signal
    BY <1>3, ReactorSignalsAssumption DEF Signal, TypeOK
  <1>4. CASE Handler
    BY <1>4 DEF Handler, StopExchange, StopIgnored, StopWrite, StopReturn, TypeOK
  <1>5. CASE \E c \in Conns : Age(c)
    BY <1>5 DEF Age, TypeOK
  <1>6. CASE UNCHANGED vars
    BY <1>6 DEF vars, TypeOK
  <1> QED
    BY <1>1, <1>2, <1>3, <1>4, <1>5, <1>6 DEF Next

\* TypeOK is an invariant: whatever the reactors, the clients and the signals do, every
\* variable of reactor mode stays in its type.
THEOREM ReactorTypeCorrect == Spec => []TypeOK
  <1>1. Init => TypeOK
    BY TypeInit
  <1>2. TypeOK /\ [Next]_vars => TypeOK'
    BY TypeNext
  <1> QED
    BY <1>1, <1>2, PTL DEF Spec

-----------------------------------------------------------------------------
(* The parts of the inductive invariant that concern control *)

\* No reactor runs before StartThreads, and run() returns only when none runs any more.
Phases ==
    /\ mpc \in {"start", "setup"} => \A r \in Reactors : rpc[r] = "unborn"
    /\ mpc = "done" => \A r \in Reactors : rpc[r] \in {"unborn", "exited"}

\* A reactor has events left only while it dispatches them, at most one of each client.
Batching ==
    \A r \in Reactors :
        /\ batch[r] # {} => rpc[r] \in {"dispatch", "accept", "opened", "handleclosed"}
        /\ \A e, f \in batch[r] : SameSource(e, f) => e = f

\* What a sweep has still to close is in the table of its reactor.
Sweeping ==
    \A r \in Reactors : \A fd \in expired[r] :
        rpc[r] \in {"sweep", "sweepclosed"} /\ table[r][fd] # None

\* A step of another thread than r leaves the control state, batch and sweep of r alone,
\* and its table as well.
LEMMA OwnStateOnly ==
    ASSUME TypeOK, NEW q \in Reactors, ReactorStep(q), NEW r \in Reactors, r # q
    PROVE /\ rpc'[r] = rpc[r] /\ batch'[r] = batch[r] /\ expired'[r] = expired[r]
          /\ table'[r] = table[r] /\ interest'[r] = interest[r]
  <1> USE DEF TypeOK, kernelVars, mainVars, reactorVars, handlerVars
  <1>1. CASE Loop(q)
    BY <1>1 DEF Loop
  <1>2. CASE EpollWait(q)
    BY <1>2 DEF EpollWait
  <1>3. CASE EpollError(q)
    BY <1>3 DEF EpollError
  <1>4. CASE DispatchStop(q)
    BY <1>4 DEF DispatchStop
  <1>5. CASE DispatchListen(q)
    BY <1>5 DEF DispatchListen
  <1>6. CASE Accept(q)
    BY <1>6 DEF Accept
  <1>7. CASE AcceptNone(q)
    BY <1>7 DEF AcceptNone
  <1>8. CASE HandleClose(q)
    BY <1>8 DEF HandleClose, CloseConnection
  <1>9. CASE HandleWait(q)
    BY <1>9 DEF HandleWait
  <1>10. CASE SweepNotDue(q)
    BY <1>10 DEF SweepNotDue
  <1>11. CASE SweepScan(q)
    BY <1>11 DEF SweepScan
  <1>12. CASE SweepClose(q)
    BY <1>12 DEF SweepClose, CloseConnection
  <1>13. CASE SweepDone(q)
    BY <1>13 DEF SweepDone
  <1>14. CASE Opened(q)
    BY <1>14 DEF Opened
  <1>15. CASE Closed(q)
    BY <1>15 DEF Closed, ClosedPhases
  <1> QED
    BY <1>1, <1>2, <1>3, <1>4, <1>5, <1>6, <1>7, <1>8, <1>9, <1>10, <1>11, <1>12, <1>13,
       <1>14, <1>15 DEF ReactorStep

\* No step of reactorLoop() touches run(): a reactor is alive as long as it takes steps.
LEMMA ReactorIsAlive ==
    ASSUME TypeOK, NEW q \in Reactors, ReactorStep(q)
    PROVE /\ mpc' = mpc /\ rpc[q] \notin {"unborn", "exited"}
          /\ rpc'[q] # "unborn"
  <1> USE DEF TypeOK, kernelVars, mainVars, reactorVars, handlerVars
  <1>1. CASE Loop(q)
    BY <1>1 DEF Loop
  <1>2. CASE EpollWait(q)
    BY <1>2 DEF EpollWait
  <1>3. CASE EpollError(q)
    BY <1>3 DEF EpollError
  <1>4. CASE DispatchStop(q)
    BY <1>4 DEF DispatchStop
  <1>5. CASE DispatchListen(q)
    BY <1>5 DEF DispatchListen
  <1>6. CASE Accept(q)
    BY <1>6 DEF Accept
  <1>7. CASE AcceptNone(q)
    BY <1>7 DEF AcceptNone
  <1>8. CASE HandleClose(q)
    BY <1>8 DEF HandleClose, CloseConnection
  <1>9. CASE HandleWait(q)
    BY <1>9 DEF HandleWait
  <1>10. CASE SweepNotDue(q)
    BY <1>10 DEF SweepNotDue
  <1>11. CASE SweepScan(q)
    BY <1>11 DEF SweepScan
  <1>12. CASE SweepClose(q)
    BY <1>12 DEF SweepClose, CloseConnection
  <1>13. CASE SweepDone(q)
    BY <1>13 DEF SweepDone
  <1>14. CASE Opened(q)
    BY <1>14 DEF Opened
  <1>15. CASE Closed(q)
    BY <1>15 DEF Closed, ClosedPhases
  <1> QED
    BY <1>1, <1>2, <1>3, <1>4, <1>5, <1>6, <1>7, <1>8, <1>9, <1>10, <1>11, <1>12, <1>13,
       <1>14, <1>15 DEF ReactorStep

\* Phases is preserved by every step.
LEMMA PhasesNext == ASSUME TypeOK, Phases, [Next]_vars PROVE Phases'
  <1> USE DEF Phases, TypeOK, kernelVars, mainVars, reactorVars, handlerVars
  <1>1. CASE Main
    BY <1>1 DEF Main, RunStart, Setup, SetupFail, StartThreads, Join
  <1>2. ASSUME NEW q \in Reactors, ReactorStep(q) PROVE Phases'
    <2>1. mpc = "join" /\ mpc' = "join"
      BY <1>2, ReactorIsAlive
    <2> QED
      BY <2>1
  <1>3. CASE Signal
    BY <1>3 DEF Signal
  <1>4. CASE Handler
    BY <1>4 DEF Handler, StopExchange, StopIgnored, StopWrite, StopReturn
  <1>5. CASE \E c \in Conns : Age(c)
    BY <1>5 DEF Age
  <1>6. CASE UNCHANGED vars
    BY <1>6 DEF vars
  <1> QED
    BY <1>1, <1>2, <1>3, <1>4, <1>5, <1>6 DEF Next

\* Outside reactorLoop() nothing of a reactor changes but its start.
LEMMA OthersLeaveReactors ==
    ASSUME TypeOK, Phases, [Next]_vars, ~ \E q \in Reactors : ReactorStep(q)
    PROVE /\ UNCHANGED <<sock, accepted, active, table, interest, batch, expired>>
          /\ \A r \in Reactors : rpc'[r] = rpc[r] \/ (rpc[r] = "unborn" /\ rpc'[r] = "loop")
  <1> USE DEF Phases, TypeOK, kernelVars, mainVars, reactorVars, handlerVars
  <1>1. CASE Main
    BY <1>1 DEF Main, RunStart, Setup, SetupFail, StartThreads, Join
  <1>3. CASE Signal
    BY <1>3 DEF Signal
  <1>4. CASE Handler
    BY <1>4 DEF Handler, StopExchange, StopIgnored, StopWrite, StopReturn
  <1>5. CASE \E c \in Conns : Age(c)
    BY <1>5 DEF Age
  <1>6. CASE UNCHANGED vars
    BY <1>6 DEF vars
  <1> QED
    BY <1>1, <1>3, <1>4, <1>5, <1>6 DEF Next

\* The batch of a reactor only shrinks, except that epoll_wait fills it with at most one
\* event of each client; no event is left when the reactor stops dispatching.
LEMMA BatchingOwn ==
    ASSUME TypeOK, Batching, NEW q \in Reactors, ReactorStep(q)
    PROVE /\ batch'[q] # {} => rpc'[q] \in {"dispatch", "accept", "opened", "handleclosed"}
          /\ \A e, f \in batch'[q] : SameSource(e, f) => e = f
  <1> USE DEF TypeOK, Batching, kernelVars, mainVars, reactorVars, handlerVars
  <1>1. CASE Loop(q)
    BY <1>1 DEF Loop
  <1>2. CASE EpollWait(q)
    BY <1>2 DEF EpollWait
  <1>3. CASE EpollError(q)
    BY <1>3 DEF EpollError
  <1>4. CASE DispatchStop(q)
    BY <1>4 DEF DispatchStop
  <1>5. CASE DispatchListen(q)
    BY <1>5 DEF DispatchListen
  <1>6. CASE Accept(q)
    BY <1>6 DEF Accept
  <1>7. CASE AcceptNone(q)
    BY <1>7 DEF AcceptNone
  <1>8. CASE HandleClose(q)
    BY <1>8 DEF HandleClose, CloseConnection
  <1>9. CASE HandleWait(q)
    BY <1>9 DEF HandleWait
  <1>10. CASE SweepNotDue(q)
    BY <1>10 DEF SweepNotDue
  <1>11. CASE SweepScan(q)
    BY <1>11 DEF SweepScan
  <1>12. CASE SweepClose(q)
    BY <1>12 DEF SweepClose, CloseConnection
  <1>13. CASE SweepDone(q)
    BY <1>13 DEF SweepDone
  <1>14. CASE Opened(q)
    BY <1>14 DEF Opened
  <1>15. CASE Closed(q)
    BY <1>15 DEF Closed, ClosedPhases
  <1> QED
    BY <1>1, <1>2, <1>3, <1>4, <1>5, <1>6, <1>7, <1>8, <1>9, <1>10, <1>11, <1>12, <1>13,
       <1>14, <1>15 DEF ReactorStep

\* Batching is preserved by every step.
LEMMA BatchingNext == ASSUME TypeOK, Phases, Batching, [Next]_vars PROVE Batching'
  <1>1. ASSUME NEW q \in Reactors, ReactorStep(q) PROVE Batching'
    <2> SUFFICES ASSUME NEW r \in Reactors
                 PROVE /\ batch'[r] # {} => rpc'[r] \in {"dispatch", "accept", "opened", "handleclosed"}
                       /\ \A e, f \in batch'[r] : SameSource(e, f) => e = f
      BY DEF Batching, SameSource
    <2>1. CASE r = q
      BY <1>1, <2>1, BatchingOwn
    <2>2. CASE r # q
      BY <1>1, <2>2, OwnStateOnly DEF Batching
    <2> QED
      BY <2>1, <2>2
  <1>2. CASE ~ \E q \in Reactors : ReactorStep(q)
    BY <1>2, OthersLeaveReactors DEF Batching, SameSource
  <1> QED
    BY <1>1, <1>2

\* A sweep closes what is in the table of its reactor and nothing twice.
LEMMA SweepingOwn ==
    ASSUME TypeOK, Sweeping, NEW q \in Reactors, ReactorStep(q)
    PROVE \A fd \in expired'[q] : rpc'[q] \in {"sweep", "sweepclosed"} /\ table'[q][fd] # None
  <1> USE ReactorConnsAssumption
      DEF TypeOK, Sweeping, kernelVars, mainVars, reactorVars, handlerVars
  <1>1. CASE Loop(q)
    BY <1>1 DEF Loop
  <1>2. CASE EpollWait(q)
    BY <1>2 DEF EpollWait
  <1>3. CASE EpollError(q)
    BY <1>3 DEF EpollError
  <1>4. CASE DispatchStop(q)
    BY <1>4 DEF DispatchStop
  <1>5. CASE DispatchListen(q)
    BY <1>5 DEF DispatchListen
  <1>6. CASE Accept(q)
    BY <1>6 DEF Accept
  <1>7. CASE AcceptNone(q)
    BY <1>7 DEF AcceptNone
  <1>8. CASE HandleClose(q)
    BY <1>8 DEF HandleClose, CloseConnection
  <1>9. CASE HandleWait(q)
    BY <1>9 DEF HandleWait
  <1>10. CASE SweepNotDue(q)
    BY <1>10 DEF SweepNotDue
  <1>11. CASE SweepScan(q)
    BY <1>11 DEF SweepScan
  <1>12. CASE SweepClose(q)
    BY <1>12 DEF SweepClose, CloseConnection
  <1>13. CASE SweepDone(q)
    BY <1>13 DEF SweepDone
  <1>14. CASE Opened(q)
    BY <1>14 DEF Opened
  <1>15. CASE Closed(q)
    BY <1>15 DEF Closed, ClosedPhases
  <1> QED
    BY <1>1, <1>2, <1>3, <1>4, <1>5, <1>6, <1>7, <1>8, <1>9, <1>10, <1>11, <1>12, <1>13,
       <1>14, <1>15 DEF ReactorStep

\* Sweeping is preserved by every step.
LEMMA SweepingNext == ASSUME TypeOK, Phases, Sweeping, [Next]_vars PROVE Sweeping'
  <1>1. ASSUME NEW q \in Reactors, ReactorStep(q) PROVE Sweeping'
    <2> SUFFICES ASSUME NEW r \in Reactors
                 PROVE \A fd \in expired'[r] :
                           rpc'[r] \in {"sweep", "sweepclosed"} /\ table'[r][fd] # None
      BY DEF Sweeping
    <2>1. CASE r = q
      BY <1>1, <2>1, SweepingOwn
    <2>2. CASE r # q
      BY <1>1, <2>2, OwnStateOnly DEF Sweeping
    <2> QED
      BY <2>1, <2>2
  <1>2. CASE ~ \E q \in Reactors : ReactorStep(q)
    BY <1>2, OthersLeaveReactors DEF Sweeping
  <1> QED
    BY <1>1, <1>2

-----------------------------------------------------------------------------
(* The sockets and the tables *)

\* accept4() and the bookkeeping of acceptConnections().
Takes(q, c, fd) ==
    /\ c \in Conns \ accepted /\ fd \in Fds /\ sock[fd] = None
    /\ sock' = [sock EXCEPT ![fd] = c]
    /\ accepted' = accepted \cup {c}
    /\ table' = [table EXCEPT ![q][fd] = c]
    /\ interest' = [interest EXCEPT ![q][fd] = "in"]

\* closeConnection() of a descriptor that is in the table.
Closes(q, fd) ==
    /\ fd \in Fds /\ table[q][fd] # None
    /\ \E after \in ClosedPhases : CloseConnection(q, fd, after)
    /\ accepted' = accepted

\* EPOLL_CTL_MOD of a descriptor that is in the table.
Rearms(q, fd) ==
    /\ fd \in Fds /\ table[q][fd] # None
    /\ \E next \in {"in", "out"} : interest' = [interest EXCEPT ![q][fd] = next]
    /\ UNCHANGED <<sock, accepted, table>>

\* Both callers of closeConnection() pass a descriptor that is in the table.
LEMMA CloseCloses ==
    ASSUME TypeOK, Sweeping, NEW q \in Reactors, HandleClose(q) \/ SweepClose(q)
    PROVE \E fd \in Fds : Closes(q, fd)
  <1>1. CASE HandleClose(q)
    <2>1. PICK e \in batch[q] \ {ListenEvent, StopEvent} :
              table[q][e.fd] # None /\ CloseConnection(q, e.fd, "handleclosed")
      BY <1>1 DEF HandleClose
    <2>2. e.fd \in Fds
      BY ClientEvents
    <2> QED
      BY <1>1, <2>1, <2>2 DEF HandleClose, Closes, ClosedPhases
  <1>2. CASE SweepClose(q)
    <2>1. PICK fd \in expired[q] : CloseConnection(q, fd, "sweepclosed")
      BY <1>2 DEF SweepClose
    <2>2. fd \in Fds /\ table[q][fd] # None
      BY DEF TypeOK, Sweeping
    <2> QED
      BY <1>2, <2>1, <2>2 DEF SweepClose, Closes, ClosedPhases
  <1> QED
    BY <1>1, <1>2

\* A step of a reactor takes a client, closes a connection of its table, re-arms one, or
\* touches no socket, table or registration.
LEMMA TableSteps ==
    ASSUME TypeOK, Sweeping, NEW q \in Reactors, ReactorStep(q)
    PROVE \/ \E c \in Conns, fd \in Fds : Takes(q, c, fd) /\ Accept(q)
          \/ \E fd \in Fds : Closes(q, fd) /\ (HandleClose(q) \/ SweepClose(q))
          \/ \E fd \in Fds : Rearms(q, fd) /\ HandleWait(q)
          \/ UNCHANGED <<sock, accepted, table, interest>>
  <1> USE DEF kernelVars, mainVars, reactorVars, handlerVars
  <1>1. CASE Loop(q) \/ EpollWait(q) \/ EpollError(q) \/ DispatchStop(q) \/ DispatchListen(q)
             \/ AcceptNone(q) \/ SweepNotDue(q) \/ SweepScan(q) \/ SweepDone(q)
             \/ Opened(q) \/ Closed(q)
    BY <1>1 DEF Loop, EpollWait, EpollError, DispatchStop, DispatchListen, AcceptNone,
                SweepNotDue, SweepScan, SweepDone, Opened, Closed
  <1>2. CASE Accept(q)
    BY <1>2 DEF Accept, Takes
  <1>3. CASE HandleClose(q) \/ SweepClose(q)
    BY <1>3, CloseCloses
  <1>5. CASE HandleWait(q)
    <2>1. PICK e \in batch[q] \ {ListenEvent, StopEvent}, next \in {"in", "out"} :
              table[q][e.fd] # None /\ interest' = [interest EXCEPT ![q][e.fd] = next]
      BY <1>5 DEF HandleWait
    <2>2. e.fd \in Fds
      BY ClientEvents
    <2> QED
      BY <1>5, <2>1, <2>2 DEF HandleWait, Rearms
  <1> QED
    BY <1>1, <1>2, <1>3, <1>5 DEF ReactorStep

\* OneReactorOwns of one descriptor.
Owned(fd) ==
    /\ \A r \in Reactors : /\ table[r][fd] \in {None, sock[fd]}
                           /\ table[r][fd] = None <=> interest[r][fd] = "none"
    /\ sock[fd] # None => \E r \in Reactors : table[r][fd] # None
    /\ \A q, r \in Reactors : table[q][fd] # None /\ table[r][fd] # None => q = r

\* A step leaves the socket, the tables and the registrations of fd alone.
Untouched(fd) ==
    /\ sock'[fd] = sock[fd]
    /\ \A r \in Reactors : table'[r][fd] = table[r][fd] /\ interest'[r][fd] = interest[r][fd]

\* The owner of a descriptor that a step leaves alone stays its owner.
LEMMA OwnedUntouched == ASSUME NEW fd, Owned(fd), Untouched(fd) PROVE Owned(fd)'
  BY DEF Owned, Untouched

\* A connection found in a table is the one the socket belongs to, and in no other table.
LEMMA OwnershipNext ==
    ASSUME TypeOK, Phases, Sweeping, OneReactorOwns, [Next]_vars PROVE OneReactorOwns'
  <1>1. ASSUME NEW q \in Reactors, ReactorStep(q), NEW c \in Conns, NEW fd \in Fds,
               Takes(q, c, fd)
        PROVE OneReactorOwns'
    <2>1. \A r \in Reactors : table[r][fd] = None
      BY <1>1 DEF Takes, OneReactorOwns
    <2>2. /\ sock'[fd] = c /\ table'[q][fd] = c /\ interest'[q][fd] = "in"
          /\ \A r \in Reactors : r # q => table'[r][fd] = None /\ interest'[r][fd] = "none"
      BY <1>1, <2>1 DEF Takes, TypeOK, OneReactorOwns
    <2>3. ASSUME NEW g \in Fds, g # fd PROVE Untouched(g)
      BY <1>1, <2>3 DEF Takes, TypeOK, Untouched
    <2>4. ASSUME NEW g \in Fds, g # fd PROVE Owned(g)'
      BY <2>3, <2>4, OwnedUntouched DEF OneReactorOwns, Owned
    <2>5. Owned(fd)'
      BY <1>1, <2>2, ReactorConnsAssumption DEF Owned
    <2> QED
      BY <2>4, <2>5 DEF OneReactorOwns, Owned
  <1>2. ASSUME NEW q \in Reactors, ReactorStep(q), NEW fd \in Fds, Closes(q, fd)
        PROVE OneReactorOwns'
    <2>1. \A r \in Reactors : r # q => table[r][fd] = None
      BY <1>2 DEF Closes, OneReactorOwns
    <2>2. /\ sock'[fd] = None
          /\ \A r \in Reactors : table'[r][fd] = None /\ interest'[r][fd] = "none"
      BY <1>2, <2>1 DEF Closes, CloseConnection, TypeOK, OneReactorOwns
    <2>3. ASSUME NEW g \in Fds, g # fd PROVE Untouched(g)
      BY <1>2, <2>3 DEF Closes, CloseConnection, TypeOK, Untouched
    <2>4. ASSUME NEW g \in Fds, g # fd PROVE Owned(g)'
      BY <2>3, <2>4, OwnedUntouched DEF OneReactorOwns, Owned
    <2>5. Owned(fd)'
      BY <2>2 DEF Owned
    <2> QED
      BY <2>4, <2>5 DEF OneReactorOwns, Owned
  <1>3. ASSUME NEW q \in Reactors, ReactorStep(q), NEW fd \in Fds, Rearms(q, fd)
        PROVE OneReactorOwns'
    BY <1>3 DEF Rearms, OneReactorOwns, TypeOK
  <1>4. CASE UNCHANGED <<sock, accepted, table, interest>>
    BY <1>4 DEF OneReactorOwns
  <1> QED
    BY <1>1, <1>2, <1>3, <1>4, TableSteps, OthersLeaveReactors

\* EventIsCurrent is preserved: a client's event leaves the batch before its connection
\* is closed, and a descriptor that is accepted again has no event pending.
LEMMA CurrentNext ==
    ASSUME TypeOK, Phases, Batching, Sweeping, OneReactorOwns, EventIsCurrent, [Next]_vars
    PROVE EventIsCurrent'
  <1> USE ReactorConnsAssumption
  <1>1. ASSUME NEW q \in Reactors, ReactorStep(q),
               NEW e \in batch'[q] \ {ListenEvent, StopEvent}
        PROVE table'[q][e.fd] = e.conn
    <2>1. CASE EpollWait(q)
      <3>1. e \in ReadyEvents(q) /\ UNCHANGED <<sock, table>>
        BY <1>1, <2>1 DEF EpollWait, TypeOK, kernelVars
      <3>2. e \in ClientEvent /\ interest[q][e.fd] # "none" /\ e.conn = sock[e.fd]
        BY <1>1, <3>1 DEF ReadyEvents
      <3>3. e.fd \in Fds
        BY <3>2 DEF ClientEvent
      <3> QED
        BY <3>1, <3>2, <3>3 DEF OneReactorOwns
    <2>2. CASE ~EpollWait(q)
      <3>1. e \in batch[q]
        BY <1>1, <2>2 DEF ReactorStep, Loop, EpollError, DispatchStop, DispatchListen,
              Accept, AcceptNone, HandleClose, HandleWait, SweepNotDue, SweepScan,
              SweepClose, SweepDone, Opened, Closed, TypeOK, reactorVars
      <3>2. e.fd \in Fds /\ e.conn \in Conns /\ table[q][e.fd] = e.conn
        BY <1>1, <3>1, ClientEvents DEF EventIsCurrent
      <3>3. ASSUME NEW c \in Conns, NEW fd \in Fds, Takes(q, c, fd) PROVE fd # e.fd
        BY <3>2, <3>3 DEF Takes, OneReactorOwns
      <3>4. CASE HandleClose(q)
        <4>1. PICK f \in batch[q] \ {ListenEvent, StopEvent} :
                  batch' = [batch EXCEPT ![q] = @ \ {f}] /\ CloseConnection(q, f.fd, "handleclosed")
          BY <3>4 DEF HandleClose
        <4>2. e # f
          BY <1>1, <4>1 DEF TypeOK
        <4>3. e.fd # f.fd /\ f.fd \in Fds
          BY <1>1, <3>1, <4>2, ClientEvents DEF Batching, SameSource
        <4> QED
          BY <3>2, <4>1, <4>3 DEF CloseConnection, TypeOK
      <3>5. CASE SweepClose(q)
        BY <3>1, <3>5 DEF SweepClose, Batching
      <3>6. CASE UNCHANGED table
        BY <3>2, <3>6
      <3>7. ASSUME NEW c \in Conns, NEW fd \in Fds, Takes(q, c, fd)
            PROVE table'[q][e.fd] = e.conn
        <4>1. table'[q] = [table[q] EXCEPT ![fd] = c]
          BY <3>7 DEF Takes, TypeOK
        <4> QED
          BY <3>2, <3>3, <3>7, <4>1
      <3> QED
        BY <1>1, <3>4, <3>5, <3>6, <3>7, TableSteps DEF Rearms
    <2> QED
      BY <2>1, <2>2
  <1>2. ASSUME NEW q \in Reactors, ReactorStep(q), NEW r \in Reactors, r # q,
               NEW e \in batch'[r] \ {ListenEvent, StopEvent}
        PROVE table'[r][e.fd] = e.conn
    BY <1>2, OwnStateOnly DEF EventIsCurrent
  <1>3. CASE ~ \E q \in Reactors : ReactorStep(q)
    BY <1>3, OthersLeaveReactors DEF EventIsCurrent, ListenEvent, StopEvent
  <1>4. ASSUME NEW q \in Reactors, ReactorStep(q) PROVE EventIsCurrent'
    BY <1>1, <1>2, <1>4 DEF EventIsCurrent, ListenEvent, StopEvent
  <1> QED
    BY <1>3, <1>4

\* The inductive invariant of reactor mode.
ReactorInv ==
    TypeOK /\ Phases /\ Batching /\ Sweeping /\ OneReactorOwns /\ EventIsCurrent

\* ReactorInv holds initially.
LEMMA ReactorInvInit == Init => ReactorInv
  <1> SUFFICES ASSUME Init PROVE ReactorInv
    OBVIOUS
  <1>1. Phases /\ Batching /\ Sweeping /\ OneReactorOwns /\ EventIsCurrent
    BY DEF Init, Phases, Batching, Sweeping, OneReactorOwns, EventIsCurrent
  <1> QED
    BY <1>1, TypeInit DEF ReactorInv

\* ReactorInv is preserved by every step.
LEMMA ReactorInvNext == ReactorInv /\ [Next]_vars => ReactorInv'
  BY TypeNext, PhasesNext, BatchingNext, SweepingNext, OwnershipNext, CurrentNext
     DEF ReactorInv

\* ReactorInv is an invariant.
LEMMA ReactorInvAlways == Spec => []ReactorInv
  BY ReactorInvInit, ReactorInvNext, PTL DEF Spec

\* OneReactorOwns is an invariant for any number of reactors, descriptors and clients:
\* sharing descriptor numbers across threads never makes two reactors own one socket.
THEOREM OneReactorAlwaysOwns == Spec => []OneReactorOwns
  BY ReactorInvAlways, PTL DEF ReactorInv

\* EventIsCurrent is an invariant: no reactor applies an event to another connection than
\* the one that became ready, however descriptor numbers are reused meanwhile.
THEOREM EventAlwaysCurrent == Spec => []EventIsCurrent
  BY ReactorInvAlways, PTL DEF ReactorInv

-----------------------------------------------------------------------------
(* The gauge of open connections *)

OpenFds == {fd \in Fds : sock[fd] # None}

\* The number of open sockets is a natural number.
LEMMA OpenCount == IsFiniteSet(OpenFds) /\ Cardinality(OpenFds) \in Nat
  BY ReactorFdsAssumption, FS_Subset, FS_CardinalityType DEF OpenFds

\* accept() adds one open socket.
LEMMA OneMoreOpen ==
    ASSUME TypeOK, NEW q \in Reactors, NEW c \in Conns, NEW fd \in Fds, Takes(q, c, fd)
    PROVE Cardinality(OpenFds') = Cardinality(OpenFds) + 1
  <1>1. OpenFds' = OpenFds \cup {fd} /\ fd \notin OpenFds
    BY ReactorConnsAssumption DEF OpenFds, TypeOK, Takes
  <1> QED
    BY <1>1, OpenCount, FS_AddElement

\* close() of an open socket removes one.
LEMMA OneLessOpen ==
    ASSUME TypeOK, OneReactorOwns, NEW q \in Reactors, NEW fd \in Fds, Closes(q, fd)
    PROVE Cardinality(OpenFds') = Cardinality(OpenFds) - 1
  <1>1. OpenFds' = OpenFds \ {fd} /\ fd \in OpenFds
    BY DEF OpenFds, TypeOK, Closes, CloseConnection, OneReactorOwns
  <1> QED
    BY <1>1, OpenCount, FS_RemoveElement

\* The threads between a system call and its count are finitely many.
LEMMA PendingCounts ==
    /\ IsFiniteSet(Uncounted) /\ Cardinality(Uncounted) \in Nat
    /\ IsFiniteSet(StillCounted) /\ Cardinality(StillCounted) \in Nat
  BY ReactorsAssumption, FS_Subset, FS_CardinalityType DEF Uncounted, StillCounted

\* accept() makes its reactor one that has not counted its client yet.
LEMMA AcceptPending ==
    ASSUME TypeOK, NEW q \in Reactors, Accept(q)
    PROVE /\ Cardinality(Uncounted') = Cardinality(Uncounted) + 1
          /\ StillCounted' = StillCounted /\ active' = active
  <1>1. rpc[q] = "accept" /\ rpc' = [rpc EXCEPT ![q] = "opened"] /\ active' = active
    BY DEF Accept
  <1>2. Uncounted' = Uncounted \cup {q} /\ q \notin Uncounted
    BY <1>1 DEF Uncounted, TypeOK
  <1>3. StillCounted' = StillCounted
    BY <1>1 DEF StillCounted, ClosedPhases, TypeOK
  <1> QED
    BY <1>1, <1>2, <1>3, PendingCounts, FS_AddElement

\* connectionOpened() settles it.
LEMMA OpenedSettles ==
    ASSUME TypeOK, NEW q \in Reactors, Opened(q)
    PROVE /\ Cardinality(Uncounted') = Cardinality(Uncounted) - 1
          /\ StillCounted' = StillCounted /\ sock' = sock /\ active' = active + 1
  <1>1. /\ rpc[q] = "opened" /\ rpc' = [rpc EXCEPT ![q] = "accept"]
        /\ sock' = sock /\ active' = active + 1
    BY DEF Opened, kernelVars
  <1>2. Uncounted' = Uncounted \ {q} /\ q \in Uncounted
    BY <1>1 DEF Uncounted, TypeOK
  <1>3. StillCounted' = StillCounted
    BY <1>1 DEF StillCounted, ClosedPhases, TypeOK
  <1> QED
    BY <1>1, <1>2, <1>3, PendingCounts, FS_RemoveElement

\* close() makes its reactor one whose client is still counted.
LEMMA ClosePending ==
    ASSUME TypeOK, NEW q \in Reactors, HandleClose(q) \/ SweepClose(q)
    PROVE /\ Cardinality(StillCounted') = Cardinality(StillCounted) + 1
          /\ Uncounted' = Uncounted /\ active' = active
  <1>1. PICK after \in ClosedPhases :
            /\ rpc[q] \in {"dispatch", "sweep"} /\ rpc' = [rpc EXCEPT ![q] = after]
            /\ active' = active
    BY DEF HandleClose, SweepClose, CloseConnection, ClosedPhases
  <1>2. StillCounted' = StillCounted \cup {q} /\ q \notin StillCounted
    BY <1>1 DEF StillCounted, ClosedPhases, TypeOK
  <1>3. Uncounted' = Uncounted
    BY <1>1 DEF Uncounted, ClosedPhases, TypeOK
  <1> QED
    BY <1>1, <1>2, <1>3, PendingCounts, FS_AddElement

\* connectionClosed() settles it.
LEMMA ClosedSettles ==
    ASSUME TypeOK, NEW q \in Reactors, Closed(q)
    PROVE /\ Cardinality(StillCounted') = Cardinality(StillCounted) - 1
          /\ Uncounted' = Uncounted /\ sock' = sock /\ active' = active - 1
  <1>1. PICK back \in {"dispatch", "sweep"} :
            /\ rpc[q] \in ClosedPhases /\ rpc' = [rpc EXCEPT ![q] = back]
            /\ sock' = sock /\ active' = active - 1
    BY DEF Closed, kernelVars
  <1>2. StillCounted' = StillCounted \ {q} /\ q \in StillCounted
    BY <1>1 DEF StillCounted, ClosedPhases, TypeOK
  <1>3. Uncounted' = Uncounted
    BY <1>1 DEF Uncounted, ClosedPhases, TypeOK
  <1> QED
    BY <1>1, <1>2, <1>3, PendingCounts, FS_RemoveElement

\* The other steps of a reactor neither open nor close nor count.
LEMMA OtherStepsCountNothing ==
    ASSUME TypeOK, NEW q \in Reactors, ReactorStep(q),
           ~Accept(q), ~Opened(q), ~HandleClose(q), ~SweepClose(q), ~Closed(q)
    PROVE UNCHANGED <<sock, active, Uncounted, StillCounted>>
  <1>1. /\ UNCHANGED <<sock, active>>
        /\ rpc'[q] \notin {"opened"} \cup ClosedPhases
        /\ rpc[q] \notin {"opened"} \cup ClosedPhases
    BY DEF ReactorStep, Loop, EpollWait, EpollError, DispatchStop, DispatchListen,
           AcceptNone, HandleWait, SweepNotDue, SweepScan, SweepDone, kernelVars,
           ClosedPhases, TypeOK
  <1>2. \A r \in Reactors : r # q => rpc'[r] = rpc[r]
    BY OwnStateOnly
  <1>3. Uncounted' = Uncounted /\ StillCounted' = StillCounted
    BY <1>1, <1>2 DEF Uncounted, StillCounted
  <1> QED
    BY <1>1, <1>3

\* The gauge as the counts of this section give it.
Balanced ==
    active = Cardinality(OpenFds) - Cardinality(Uncounted) + Cardinality(StillCounted)

\* Every step changes the gauge by what it changes the open sockets and the threads that
\* are between a call and its count.
LEMMA GaugeNext == ASSUME ReactorInv, Balanced, [Next]_vars PROVE Balanced'
  <1> USE OpenCount, PendingCounts DEF ReactorInv, Balanced
  <1>1. ASSUME NEW q \in Reactors, ReactorStep(q) PROVE Balanced'
    <2>1. CASE Accept(q)
      <3>1. PICK c \in Conns, fd \in Fds : Takes(q, c, fd)
        BY <2>1 DEF Accept, Takes
      <3>2. Cardinality(OpenFds') = Cardinality(OpenFds) + 1
        BY <3>1, OneMoreOpen
      <3> QED
        BY <2>1, <3>2, AcceptPending
    <2>2. CASE Opened(q)
      <3>1. OpenFds' = OpenFds
        BY <2>2, OpenedSettles DEF OpenFds
      <3> QED
        BY <2>2, <3>1, OpenedSettles
    <2>3. CASE HandleClose(q) \/ SweepClose(q)
      <3>1. PICK fd \in Fds : Closes(q, fd)
        BY <2>3, CloseCloses
      <3>2. Cardinality(OpenFds') = Cardinality(OpenFds) - 1
        BY <3>1, OneLessOpen
      <3> QED
        BY <2>3, <3>2, ClosePending
    <2>4. CASE Closed(q)
      <3>1. OpenFds' = OpenFds
        BY <2>4, ClosedSettles DEF OpenFds
      <3> QED
        BY <2>4, <3>1, ClosedSettles
    <2>5. CASE ~Accept(q) /\ ~Opened(q) /\ ~HandleClose(q) /\ ~SweepClose(q) /\ ~Closed(q)
      <3>1. UNCHANGED <<sock, active, Uncounted, StillCounted>>
        BY <1>1, <2>5, OtherStepsCountNothing
      <3>2. OpenFds' = OpenFds
        BY <3>1 DEF OpenFds
      <3> QED
        BY <3>1, <3>2
    <2> QED
      BY <2>1, <2>2, <2>3, <2>4, <2>5
  <1>2. CASE ~ \E q \in Reactors : ReactorStep(q)
    <2>1. /\ UNCHANGED <<sock, active>>
          /\ \A r \in Reactors : rpc'[r] = rpc[r] \/ (rpc[r] = "unborn" /\ rpc'[r] = "loop")
      BY <1>2, OthersLeaveReactors
    <2>2. OpenFds' = OpenFds /\ Uncounted' = Uncounted /\ StillCounted' = StillCounted
      BY <2>1 DEF OpenFds, Uncounted, StillCounted, ClosedPhases
    <2> QED
      BY <2>1, <2>2
  <1> QED
    BY <1>1, <1>2

\* ActiveConnectionsAccounted is an invariant for any number of reactors: the gauge is off
\* by exactly the threads that are between accept() or close() and their count, so the
\* reactors together count every socket up once and down once.
THEOREM ReactorGaugeAccounted == Spec => []ActiveConnectionsAccounted
  <1>1. Init => Balanced
    <2> SUFFICES ASSUME Init PROVE Balanced
      OBVIOUS
    <2>1. OpenFds = {} /\ Uncounted = {} /\ StillCounted = {} /\ active = 0
      BY DEF Init, OpenFds, Uncounted, StillCounted, ClosedPhases
    <2>2. Cardinality({}) = 0
      BY FS_EmptySet
    <2> QED
      BY <2>1, <2>2 DEF Balanced
  <1>2. ReactorInv /\ Balanced /\ [Next]_vars => Balanced'
    BY GaugeNext
  <1>3. Balanced => ActiveConnectionsAccounted
    BY DEF Balanced, ActiveConnectionsAccounted, OpenFds
  <1> QED
    BY <1>1, <1>2, <1>3, ReactorInvAlways, PTL DEF Spec

-----------------------------------------------------------------------------
(* ReactorLoop implements EventLoop *)

\* Every open socket is of a client that was accepted, and no client has two.
OneSocket ==
    /\ \A fd \in Fds : sock[fd] # None => sock[fd] \in accepted
    /\ \A e, f \in Fds : sock[e] = sock[f] /\ sock[e] # None => e = f

\* OneSocket is preserved by every step.
LEMMA OneSocketNext == ASSUME ReactorInv, OneSocket, [Next]_vars PROVE OneSocket'
  <1> USE DEF ReactorInv
  <1>1. ASSUME NEW q \in Reactors, NEW c \in Conns, NEW fd \in Fds, Takes(q, c, fd)
        PROVE OneSocket'
    BY <1>1 DEF Takes, OneSocket, TypeOK
  <1>2. ASSUME NEW q \in Reactors, NEW fd \in Fds, Closes(q, fd) PROVE OneSocket'
    BY <1>2 DEF Closes, CloseConnection, OneSocket, TypeOK
  <1>3. CASE UNCHANGED <<sock, accepted>>
    BY <1>3 DEF OneSocket
  <1> QED
    BY <1>1, <1>2, <1>3, TableSteps, OthersLeaveReactors DEF Rearms

\* A reactor that takes a step does so while run() is in the phase "running".
LEMMA ServesWhileRunning ==
    ASSUME ReactorInv, NEW q \in Reactors, ReactorStep(q)
    PROVE RunPhase = "running" /\ RunPhase' = "running"
  BY ReactorIsAlive DEF ReactorInv, Phases, RunPhase, TypeOK

\* Accepting a client opens it.
LEMMA TakesIsOpen ==
    ASSUME ReactorInv, OneSocket, NEW q \in Reactors, ReactorStep(q),
           NEW c \in Conns, NEW fd \in Fds, Takes(q, c, fd)
    PROVE EL!ELNext
  <1> USE DEF ReactorInv
  <1>1. ClientStatus[c] = "new" /\ ClientStatus'[c] = "open"
    BY DEF ClientStatus, Takes, TypeOK
  <1>2. ASSUME NEW d \in Conns, d # c PROVE ClientStatus'[d] = ClientStatus[d]
    <2>1. (d \in accepted') <=> (d \in accepted)
      BY <1>2 DEF Takes
    <2>2. (\E f \in Fds : sock'[f] = d) <=> (\E f \in Fds : sock[f] = d)
      BY <1>2, ReactorConnsAssumption DEF Takes, TypeOK
    <2> QED
      BY <2>1, <2>2 DEF ClientStatus
  <1>3. ClientStatus' = [ClientStatus EXCEPT ![c] = "open"]
    BY <1>1, <1>2 DEF ClientStatus
  <1> QED
    BY <1>1, <1>3, ServesWhileRunning DEF EL!ELNext, EL!Open

\* Closing a connection shuts the client that had it.
LEMMA ClosesIsShut ==
    ASSUME ReactorInv, OneSocket, NEW q \in Reactors, ReactorStep(q),
           NEW fd \in Fds, Closes(q, fd)
    PROVE EL!ELNext
  <1> USE DEF ReactorInv
  <1> DEFINE c == sock[fd]
  <1>1. c \in Conns /\ c \in accepted
    BY DEF Closes, OneReactorOwns, OneSocket, TypeOK
  <1>2. accepted' = accepted /\ sock' = [sock EXCEPT ![fd] = None]
    BY DEF Closes, CloseConnection
  <1>3. ~ \E f \in Fds : sock'[f] = c
    BY <1>1, <1>2, ReactorConnsAssumption DEF OneSocket, TypeOK
  <1>4. ClientStatus[c] = "open" /\ ClientStatus'[c] = "closed"
    BY <1>1, <1>2, <1>3 DEF ClientStatus
  <1>5. ASSUME NEW d \in Conns, d # c PROVE ClientStatus'[d] = ClientStatus[d]
    <2>1. (\E f \in Fds : sock'[f] = d) <=> (\E f \in Fds : sock[f] = d)
      BY <1>2, <1>5, ReactorConnsAssumption DEF TypeOK
    <2> QED
      BY <1>2, <2>1 DEF ClientStatus
  <1>6. ClientStatus' = [ClientStatus EXCEPT ![c] = "closed"]
    BY <1>1, <1>4, <1>5 DEF ClientStatus
  <1> QED
    BY <1>1, <1>4, <1>6, ServesWhileRunning DEF EL!ELNext, EL!Shut

\* Every step of run() starts it, returns from it or is invisible.
LEMMA MainSimulates ==
    ASSUME Main, UNCHANGED <<sock, accepted>> PROVE EL!ELNext \/ UNCHANGED EL!elVars
  <1>1. ClientStatus' = ClientStatus
    BY DEF ClientStatus
  <1>2. CASE RunStart
    BY <1>1, <1>2 DEF RunStart, RunPhase, EL!ELNext, EL!Start
  <1>3. CASE SetupFail \/ Join
    BY <1>1, <1>3 DEF SetupFail, Join, RunPhase, EL!ELNext, EL!Return
  <1>4. CASE Setup \/ StartThreads
    BY <1>1, <1>4 DEF Setup, StartThreads, RunPhase, EL!elVars
  <1> QED
    BY <1>2, <1>3, <1>4 DEF Main

\* Every step of reactor mode is a step of EventLoop or leaves its state alone.
LEMMA SimulatesNext ==
    ASSUME ReactorInv, OneSocket, [Next]_vars PROVE EL!ELNext \/ UNCHANGED EL!elVars
  <1> USE DEF ReactorInv, kernelVars, mainVars, reactorVars, handlerVars
  <1>1. ASSUME NEW q \in Reactors, ReactorStep(q) PROVE EL!ELNext \/ UNCHANGED EL!elVars
    <2>1. CASE UNCHANGED <<sock, accepted>>
      BY <1>1, <2>1, ServesWhileRunning DEF EL!elVars, ClientStatus
    <2> QED
      BY <1>1, <2>1, TableSteps, TakesIsOpen, ClosesIsShut DEF Rearms
  <1>2. CASE Main
    BY <1>2, MainSimulates DEF Main, RunStart, Setup, SetupFail, StartThreads, Join
  <1>3. CASE Signal \/ Handler \/ \E c \in Conns : Age(c)
    BY <1>3 DEF Signal, Handler, StopExchange, StopIgnored, StopWrite, StopReturn, Age,
                EL!elVars, ClientStatus, RunPhase
  <1>4. CASE UNCHANGED vars
    BY <1>4 DEF vars, EL!elVars, ClientStatus, RunPhase
  <1> QED
    BY <1>1, <1>2, <1>3, <1>4 DEF Next

\* Reactor mode implements EventLoop: across all reactors a client is accepted at most
\* once, closed at most once, and neither before run() is entered nor after it returned.
THEOREM ReactorImplementsEventLoop == Spec => ImplementsEventLoop
  <1>1. Init => OneSocket /\ EL!ELInit
    <2> SUFFICES ASSUME Init PROVE OneSocket /\ EL!ELInit
      OBVIOUS
    <2>1. OneSocket
      BY DEF Init, OneSocket
    <2>2. EL!ELInit
      BY DEF Init, EL!ELInit, ClientStatus, RunPhase
    <2> QED
      BY <2>1, <2>2
  <1>2. ReactorInv /\ OneSocket /\ [Next]_vars => OneSocket'
    BY OneSocketNext
  <1>3. ReactorInv /\ OneSocket /\ [Next]_vars => [EL!ELNext]_(EL!elVars)
    BY SimulatesNext
  <1> QED
    BY <1>1, <1>2, <1>3, ReactorInvAlways, PTL DEF Spec, ImplementsEventLoop, EL!ELSpec

=============================================================================
