---------------------------- MODULE ReactorLoop ----------------------------
(***************************************************************************)
(* Reactor mode (src/reactor_loop.cpp): each thread has its own listener   *)
(* (SO_REUSEPORT), its own level-triggered epoll instance and its own      *)
(* table of connections; descriptor numbers are shared by the process.     *)
(* run() sets the reactors up on the main thread, starts them and joins    *)
(* them; stop() runs in a signal handler on the main thread.               *)
(*                                                                         *)
(* What a reactor does to its own table and epoll instance is seen by no   *)
(* other thread and is one step with the call beside it; accept(), close() *)
(* and the two updates of the gauge, which every thread sees, are a step   *)
(* each.                                                                   *)
(***************************************************************************)
EXTENDS Integers, FiniteSets

CONSTANTS
    Reactors,      \* config.threads reactors
    Fds,           \* descriptor numbers available to client sockets
    Conns,         \* clients that may connect
    None,          \* no connection
    MaxSignals     \* bound on the SIGINT/SIGTERM delivered

ASSUME ReactorsAssumption == IsFiniteSet(Reactors)
ASSUME ReactorFdsAssumption == IsFiniteSet(Fds)
ASSUME ReactorConnsAssumption == None \notin Conns
ASSUME ReactorSignalsAssumption == MaxSignals \in Nat

VARIABLES
    sock, accepted,            \* the kernel: sockets by descriptor, clients taken
    running, active,           \* ReactorLoop::running, Metrics::activeConnections
    idle,                      \* lastActive older than the timeout
    mpc, reactors,             \* run() on the main thread; the reactors set up
    rpc, table, interest,      \* reactorLoop() and the state of each Reactor
    batch, expired,            \* its events not handled yet, what its sweep closes
    stopSignalled,             \* its stopFd is readable
    hpc, hleft, signals        \* stop() in the signal handler

kernelVars == <<sock, accepted>>
mainVars == <<mpc, reactors>>
reactorVars == <<rpc, table, interest, batch, expired>>
handlerVars == <<hpc, hleft, signals>>
vars == <<kernelVars, running, active, idle, mainVars, reactorVars, stopSignalled, handlerVars>>

\* A reported event; conn is the connection that became ready (the code only sees fd).
ClientEvent == [kind : {"in", "out", "hup"}, fd : Fds, conn : Conns]
ListenEvent == [kind |-> "listen"]
StopEvent == [kind |-> "stop"]

Init ==
    /\ sock = [fd \in Fds |-> None]
    /\ accepted = {}
    /\ running = FALSE
    /\ active = 0
    /\ idle = [c \in Conns |-> FALSE]
    /\ mpc = "start"
    /\ reactors = {}
    /\ rpc = [r \in Reactors |-> "unborn"]
    /\ table = [r \in Reactors |-> [fd \in Fds |-> None]]
    /\ interest = [r \in Reactors |-> [fd \in Fds |-> "none"]]
    /\ batch = [r \in Reactors |-> {}]
    /\ expired = [r \in Reactors |-> {}]
    /\ stopSignalled = [r \in Reactors |-> FALSE]
    /\ hpc = "none"
    /\ hleft = {}
    /\ signals = 0

-----------------------------------------------------------------------------
(* run() on the main thread, frozen while it executes the signal handler *)

MainRuns == hpc = "none"

RunStart ==
    /\ MainRuns /\ mpc = "start"
    /\ running' = TRUE
    /\ mpc' = "setup"
    /\ UNCHANGED <<kernelVars, active, idle, reactors, reactorVars, stopSignalled, handlerVars>>

\* setupReactor() succeeds and the reactor joins the vector.
Setup ==
    /\ MainRuns /\ mpc = "setup"
    /\ \E r \in Reactors \ reactors : reactors' = reactors \cup {r}
    /\ UNCHANGED <<kernelVars, running, active, idle, mpc, reactorVars, stopSignalled,
                   handlerVars>>

\* setupReactor() fails: no thread is started.
SetupFail ==
    /\ MainRuns /\ mpc = "setup"
    /\ reactors # Reactors
    /\ running' = FALSE
    /\ mpc' = "done"
    /\ UNCHANGED <<kernelVars, active, idle, reactors, reactorVars, stopSignalled, handlerVars>>

StartThreads ==
    /\ MainRuns /\ mpc = "setup"
    /\ reactors = Reactors
    /\ rpc' = [r \in Reactors |-> "loop"]
    /\ mpc' = "join"
    /\ UNCHANGED <<kernelVars, running, active, idle, reactors, table, interest, batch,
                   expired, stopSignalled, handlerVars>>

\* Seeded fault: run() returns without joining the reactors.
JoinNothing ==
    /\ MainRuns /\ mpc = "join"
    /\ mpc' = "done"
    /\ UNCHANGED <<kernelVars, running, active, idle, reactors, reactorVars, stopSignalled,
                   handlerVars>>

Join ==
    /\ MainRuns /\ mpc = "join"
    /\ \A r \in Reactors : rpc[r] = "exited"
    /\ mpc' = "done"
    /\ UNCHANGED <<kernelVars, running, active, idle, reactors, reactorVars, stopSignalled,
                   handlerVars>>

Main == RunStart \/ Setup \/ SetupFail \/ StartThreads \/ Join

-----------------------------------------------------------------------------
(* reactorLoop() of one reactor *)

\* Seeded fault: the loop does not look at running.
LoopForever(r) ==
    /\ rpc[r] = "loop"
    /\ rpc' = [rpc EXCEPT ![r] = "wait"]
    /\ UNCHANGED <<kernelVars, running, active, idle, mainVars, table, interest, batch,
                   expired, stopSignalled, handlerVars>>

\* while (running)
Loop(r) ==
    /\ rpc[r] = "loop"
    /\ rpc' = [rpc EXCEPT ![r] = IF running THEN "wait" ELSE "exited"]
    /\ UNCHANGED <<kernelVars, running, active, idle, mainVars, table, interest, batch,
                   expired, stopSignalled, handlerVars>>

\* What epoll_wait may report to reactor r: level-triggered, so the registration of
\* a client stays armed.
ReadyEvents(r) ==
    {e \in ClientEvent : /\ interest[r][e.fd] # "none"
                         /\ e.kind \in {interest[r][e.fd], "hup"}
                         /\ e.conn = sock[e.fd]}
    \cup {e \in {ListenEvent} : accepted # Conns}
    \cup {e \in {StopEvent} : stopSignalled[r]}

SameSource(e, f) == e.kind \in {"in", "out", "hup"} /\ f.kind \in {"in", "out", "hup"} /\ e.fd = f.fd

\* At most one event per descriptor; none after a timeout.
EpollWait(r) ==
    /\ rpc[r] = "wait"
    /\ \E reported \in SUBSET ReadyEvents(r) :
        /\ \A e, f \in reported : SameSource(e, f) => e = f
        /\ batch' = [batch EXCEPT ![r] = reported]
    /\ rpc' = [rpc EXCEPT ![r] = "dispatch"]
    /\ UNCHANGED <<kernelVars, running, active, idle, mainVars, table, interest, expired,
                   stopSignalled, handlerVars>>

\* epoll_wait fails with an error other than EINTR: this thread ends.
EpollError(r) ==
    /\ rpc[r] = "wait"
    /\ rpc' = [rpc EXCEPT ![r] = "exited"]
    /\ UNCHANGED <<kernelVars, running, active, idle, mainVars, table, interest, batch,
                   expired, stopSignalled, handlerVars>>

\* fd == reactor.stopFd: return, dropping the rest of the batch.
DispatchStop(r) ==
    /\ rpc[r] = "dispatch"
    /\ StopEvent \in batch[r]
    /\ batch' = [batch EXCEPT ![r] = {}]
    /\ rpc' = [rpc EXCEPT ![r] = "exited"]
    /\ UNCHANGED <<kernelVars, running, active, idle, mainVars, table, interest, expired,
                   stopSignalled, handlerVars>>

\* fd == reactor.listenFd: drain the accept queue.
DispatchListen(r) ==
    /\ rpc[r] = "dispatch"
    /\ ListenEvent \in batch[r]
    /\ batch' = [batch EXCEPT ![r] = @ \ {ListenEvent}]
    /\ rpc' = [rpc EXCEPT ![r] = "accept"]
    /\ UNCHANGED <<kernelVars, running, active, idle, mainVars, table, interest, expired,
                   stopSignalled, handlerVars>>

\* accept() and what the reactor notes of the socket: the Connection in its table, the
\* registration in its epoll instance (EPOLL_CTL_ADD follows connectionOpened(), but
\* only this thread waits on the instance).
Accept(r) ==
    /\ rpc[r] = "accept"
    /\ \E c \in Conns \ accepted, fd \in Fds :
        /\ sock[fd] = None
        /\ sock' = [sock EXCEPT ![fd] = c]
        /\ accepted' = accepted \cup {c}
        /\ table' = [table EXCEPT ![r][fd] = c]
        /\ interest' = [interest EXCEPT ![r][fd] = "in"]
    /\ rpc' = [rpc EXCEPT ![r] = "opened"]
    /\ UNCHANGED <<running, active, idle, mainVars, batch, expired, stopSignalled, handlerVars>>

\* connectionOpened(), and around the accept loop again
Opened(r) ==
    /\ rpc[r] = "opened"
    /\ active' = active + 1
    /\ rpc' = [rpc EXCEPT ![r] = "accept"]
    /\ UNCHANGED <<kernelVars, running, idle, mainVars, table, interest, batch, expired,
                   stopSignalled, handlerVars>>

\* accept() < 0
AcceptNone(r) ==
    /\ rpc[r] = "accept"
    /\ rpc' = [rpc EXCEPT ![r] = "dispatch"]
    /\ UNCHANGED <<kernelVars, running, active, idle, mainVars, table, interest, batch,
                   expired, stopSignalled, handlerVars>>

\* Seeded fault: the Connection stays in the table after its descriptor is closed.
CloseConnectionNoErase(r, fd, after) ==
    /\ interest' = [interest EXCEPT ![r][fd] = "none"]
    /\ sock' = [sock EXCEPT ![fd] = None]
    /\ rpc' = [rpc EXCEPT ![r] = after]
    /\ UNCHANGED table

\* closeConnection() of a descriptor in the table as far as close(): erase,
\* EPOLL_CTL_DEL, close.  after names the caller to return to.
CloseConnection(r, fd, after) ==
    /\ table' = [table EXCEPT ![r][fd] = None]
    /\ interest' = [interest EXCEPT ![r][fd] = "none"]
    /\ sock' = [sock EXCEPT ![fd] = None]
    /\ rpc' = [rpc EXCEPT ![r] = after]

\* Where closeConnection() is once it has closed the descriptor.
ClosedPhases == {"handleclosed", "sweepclosed"}

\* Seeded fault: closeConnection() ends without connectionClosed().
ClosedUncounted(r) ==
    /\ rpc[r] \in ClosedPhases
    /\ rpc' = [rpc EXCEPT ![r] = IF @ = "handleclosed" THEN "dispatch" ELSE "sweep"]
    /\ UNCHANGED <<kernelVars, running, active, idle, mainVars, table, interest, batch,
                   expired, stopSignalled, handlerVars>>

\* connectionClosed(), and back to the batch or the sweep
Closed(r) ==
    /\ rpc[r] \in ClosedPhases
    /\ active' = active - 1
    /\ rpc' = [rpc EXCEPT ![r] = IF @ = "handleclosed" THEN "dispatch" ELSE "sweep"]
    /\ UNCHANGED <<kernelVars, running, idle, mainVars, table, interest, batch, expired,
                   stopSignalled, handlerVars>>

\* The event of a descriptor: EPOLLHUP, EPOLLERR, a failing recv, send or EPOLL_CTL_MOD,
\* or a finished response without keep-alive close the connection.
HandleClose(r) ==
    /\ rpc[r] = "dispatch"
    /\ \E e \in batch[r] \ {ListenEvent, StopEvent} :
        /\ table[r][e.fd] # None
        /\ batch' = [batch EXCEPT ![r] = @ \ {e}]
        /\ CloseConnection(r, e.fd, "handleclosed")
    /\ UNCHANGED <<accepted, running, active, idle, mainVars, expired, stopSignalled,
                   handlerVars>>

\* Seeded fault: the action is used as the event mask, Close included.
HandleWaitActionAsMask(r) ==
    /\ rpc[r] = "dispatch"
    /\ \E e \in batch[r] \ {ListenEvent, StopEvent}, next \in {"in", "out", "close"} :
        /\ e.kind # "hup"
        /\ table[r][e.fd] # None
        /\ batch' = [batch EXCEPT ![r] = @ \ {e}]
        /\ interest' = [interest EXCEPT ![r][e.fd] = next]
        /\ idle' = [idle EXCEPT ![table[r][e.fd]] = (e.kind = "out" /\ @)]
    /\ UNCHANGED <<kernelVars, running, active, mainVars, rpc, table, expired, stopSignalled,
                   handlerVars>>

\* onReadable() or onWritable() ends with WaitRead or WaitWrite: EPOLL_CTL_MOD.  Only
\* onReadable() refreshes lastActive.
HandleWait(r) ==
    /\ rpc[r] = "dispatch"
    /\ \E e \in batch[r] \ {ListenEvent, StopEvent}, next \in {"in", "out"} :
        /\ e.kind # "hup"
        /\ table[r][e.fd] # None
        /\ batch' = [batch EXCEPT ![r] = @ \ {e}]
        /\ interest' = [interest EXCEPT ![r][e.fd] = next]
        /\ idle' = [idle EXCEPT ![table[r][e.fd]] = (e.kind = "out" /\ @)]
    /\ UNCHANGED <<kernelVars, running, active, mainVars, rpc, table, expired, stopSignalled,
                   handlerVars>>

\* The batch is empty; no sweep is due.
SweepNotDue(r) ==
    /\ rpc[r] = "dispatch"
    /\ batch[r] = {}
    /\ rpc' = [rpc EXCEPT ![r] = "loop"]
    /\ UNCHANGED <<kernelVars, running, active, idle, mainVars, table, interest, batch,
                   expired, stopSignalled, handlerVars>>

\* Seeded fault: the sweep comes before the rest of the batch.
SweepMidBatch(r) ==
    /\ rpc[r] = "dispatch"
    /\ expired' = [expired EXCEPT ![r] = {fd \in Fds : table[r][fd] # None
                                                       /\ idle[table[r][fd]]}]
    /\ rpc' = [rpc EXCEPT ![r] = "sweep"]
    /\ UNCHANGED <<kernelVars, running, active, idle, mainVars, table, interest, batch,
                   stopSignalled, handlerVars>>

\* sweepIdleConnections(): collect, then close one by one.
SweepScan(r) ==
    /\ rpc[r] = "dispatch"
    /\ batch[r] = {}
    /\ expired' = [expired EXCEPT ![r] = {fd \in Fds : table[r][fd] # None
                                                       /\ idle[table[r][fd]]}]
    /\ rpc' = [rpc EXCEPT ![r] = "sweep"]
    /\ UNCHANGED <<kernelVars, running, active, idle, mainVars, table, interest, batch,
                   stopSignalled, handlerVars>>

SweepClose(r) ==
    /\ rpc[r] = "sweep"
    /\ \E fd \in expired[r] :
        /\ expired' = [expired EXCEPT ![r] = @ \ {fd}]
        /\ CloseConnection(r, fd, "sweepclosed")
    /\ UNCHANGED <<accepted, running, active, idle, mainVars, batch, stopSignalled,
                   handlerVars>>

SweepDone(r) ==
    /\ rpc[r] = "sweep"
    /\ expired[r] = {}
    /\ rpc' = [rpc EXCEPT ![r] = "loop"]
    /\ UNCHANGED <<kernelVars, running, active, idle, mainVars, table, interest, batch,
                   expired, stopSignalled, handlerVars>>

ReactorStep(r) ==
    \/ Loop(r) \/ EpollWait(r) \/ EpollError(r) \/ DispatchStop(r) \/ DispatchListen(r)
    \/ Accept(r) \/ Opened(r) \/ AcceptNone(r) \/ HandleClose(r) \/ HandleWait(r) \/ Closed(r)
    \/ SweepNotDue(r) \/ SweepScan(r) \/ SweepClose(r) \/ SweepDone(r)

-----------------------------------------------------------------------------
(* The signal handler: stop() on the main thread *)

Signal ==
    /\ hpc = "none"
    /\ mpc # "done"
    /\ signals < MaxSignals
    /\ signals' = signals + 1
    /\ hpc' = "exchange"
    /\ UNCHANGED <<kernelVars, running, active, idle, mainVars, reactorVars, stopSignalled, hleft>>

StopExchange ==
    /\ hpc = "exchange"
    /\ running
    /\ running' = FALSE
    /\ hpc' = "write"
    /\ hleft' = reactors
    /\ UNCHANGED <<kernelVars, active, idle, mainVars, reactorVars, stopSignalled, signals>>

StopIgnored ==
    /\ hpc = "exchange"
    /\ ~running
    /\ hpc' = "none"
    /\ UNCHANGED <<kernelVars, running, active, idle, mainVars, reactorVars, stopSignalled,
                   hleft, signals>>

\* write(reactor->stopFd) for every reactor in the vector
StopWrite ==
    /\ hpc = "write"
    /\ \E r \in hleft :
        /\ hleft' = hleft \ {r}
        /\ stopSignalled' = [stopSignalled EXCEPT ![r] = TRUE]
    /\ UNCHANGED <<kernelVars, running, active, idle, mainVars, reactorVars, hpc, signals>>

StopReturn ==
    /\ hpc = "write"
    /\ hleft = {}
    /\ hpc' = "none"
    /\ UNCHANGED <<kernelVars, running, active, idle, mainVars, reactorVars, stopSignalled,
                   hleft, signals>>

Handler == StopExchange \/ StopIgnored \/ StopWrite \/ StopReturn

\* Time passes: a connection has been silent past the timeout.
Age(c) ==
    /\ ~idle[c]
    /\ \E fd \in Fds : sock[fd] = c
    /\ idle' = [idle EXCEPT ![c] = TRUE]
    /\ UNCHANGED <<kernelVars, running, active, mainVars, reactorVars, stopSignalled, handlerVars>>

Next ==
    \/ Main
    \/ \E r \in Reactors : ReactorStep(r)
    \/ Signal \/ Handler
    \/ \E c \in Conns : Age(c)

Spec == Init /\ [][Next]_vars

\* Every thread is scheduled; epoll_wait returns after a second at the latest.
Fairness ==
    /\ WF_vars(Main)
    /\ WF_vars(Handler)
    /\ \A r \in Reactors : WF_vars(ReactorStep(r))

FairSpec == Spec /\ Fairness

-----------------------------------------------------------------------------
(* Properties *)

\* Every variable has its type.
TypeOK ==
    /\ sock \in [Fds -> Conns \cup {None}] /\ accepted \subseteq Conns
    /\ running \in BOOLEAN /\ active \in Int /\ idle \in [Conns -> BOOLEAN]
    /\ mpc \in {"start", "setup", "join", "done"} /\ reactors \subseteq Reactors
    /\ rpc \in [Reactors -> {"unborn", "loop", "wait", "dispatch", "accept", "opened", "sweep",
                            "exited"} \cup ClosedPhases]
    /\ table \in [Reactors -> [Fds -> Conns \cup {None}]]
    /\ interest \in [Reactors -> [Fds -> {"none", "in", "out"}]]
    /\ batch \in [Reactors -> SUBSET (ClientEvent \cup {ListenEvent, StopEvent})]
    /\ expired \in [Reactors -> SUBSET Fds]
    /\ stopSignalled \in [Reactors -> BOOLEAN]
    /\ hpc \in {"none", "exchange", "write"} /\ hleft \subseteq Reactors
    /\ signals \in 0..MaxSignals

\* Although descriptor numbers are shared and reused across threads, every open socket
\* is in the table and in the epoll instance of exactly one reactor, and a closed one in
\* none: reactors need no lock on the data path (event_loop.h:76-78).
OneReactorOwns ==
    \A fd \in Fds :
        /\ \A r \in Reactors : /\ table[r][fd] \in {None, sock[fd]}
                               /\ table[r][fd] = None <=> interest[r][fd] = "none"
        /\ sock[fd] # None => \E r \in Reactors : table[r][fd] # None
        /\ \A q, r \in Reactors : table[q][fd] # None /\ table[r][fd] # None => q = r

\* An event is applied to the connection that became ready, never to a later one that
\* got the same descriptor while the batch was being handled; the lookup of the event's
\* descriptor never fails.
EventIsCurrent ==
    \A r \in Reactors : \A e \in batch[r] \ {ListenEvent, StopEvent} : table[r][e.fd] = e.conn

\* Reactors between accept() and connectionOpened(), and between close() and
\* connectionClosed().
Uncounted == {r \in Reactors : rpc[r] = "opened"}
StillCounted == {r \in Reactors : rpc[r] \in ClosedPhases}

\* Metrics::activeConnections differs from the number of open sockets of all reactors
\* together by no more than the calls under way explain: a thread that has accepted and
\* not yet called connectionOpened() is one the gauge lacks, one that has closed and not
\* yet called connectionClosed() is one too many, although the number of the closed
\* socket may already be that of another reactor's new client.
ActiveConnectionsAccounted ==
    active = Cardinality({fd \in Fds : sock[fd] # None})
             - Cardinality(Uncounted) + Cardinality(StillCounted)

\* Once stop() has found the loop running, run() returns: every reactor leaves its loop
\* whatever its clients do.
StopTerminates == (hpc = "write") ~> (mpc = "done")

-----------------------------------------------------------------------------
(* ReactorLoop implements EventLoop *)

ClientStatus ==
    [c \in Conns |-> IF c \notin accepted THEN "new"
                     ELSE IF \E fd \in Fds : sock[fd] = c THEN "open" ELSE "closed"]

RunPhase ==
    IF mpc = "start" THEN "idle" ELSE IF mpc = "done" THEN "returned" ELSE "running"

EL == INSTANCE EventLoop WITH status <- ClientStatus, phase <- RunPhase

\* Reactor mode keeps the promise of the interface: each client is accepted and closed
\* at most once by one of the reactors, and none after run() returned.
ImplementsEventLoop == EL!ELSpec

=============================================================================
