------------------------------ MODULE PoolLoop ------------------------------
(***************************************************************************)
(* Pool mode of the server (src/pool_loop.cpp): one epoll thread, the main *)
(* thread of the process, accepts and dispatches readiness events to a     *)
(* fixed pool of workers through a queue; a sweep on the epoll thread      *)
(* closes idle connections; stop() runs in a signal handler that           *)
(* interrupts the epoll thread.                                            *)
(*                                                                         *)
(* A member of Conns stands for one accepted TCP connection and for the    *)
(* Connection object made for it; a member of Fds is a descriptor number,  *)
(* which the kernel reuses as soon as it is closed.  Mutexes are not       *)
(* variables: a critical section of a worker is one step, and the ones in  *)
(* which another thread of control can run (a worker about to block, the   *)
(* epoll thread interrupted by the signal) are program counters.           *)
(***************************************************************************)
EXTENDS Integers, Sequences, FiniteSets

CONSTANTS
    Fds,           \* descriptor numbers available to client sockets
    Conns,         \* clients that may connect during the run
    Workers,       \* config.threads worker threads
    None,          \* no connection
    ListenFd,      \* the listening socket
    StopFd,        \* the eventfd written by stop()
    Expirable,     \* the clients that may stay silent past idleTimeoutSeconds
    MaxSignals,    \* bound on the SIGINT/SIGTERM delivered
    EpollMayFail   \* whether epoll_wait may fail with an error other than EINTR

ASSUME FdsAssumption == IsFiniteSet(Fds) /\ ListenFd \notin Fds
                        /\ StopFd \notin Fds /\ ListenFd # StopFd
ASSUME ConnsAssumption == None \notin Conns
ASSUME WorkersAssumption == /\ Workers # {} /\ IsFiniteSet(Workers)
                            /\ Workers \cap {"table", "epoll", "stop"} = {}
ASSUME ExpirableAssumption == Expirable \subseteq Conns
ASSUME SignalsAssumption == MaxSignals \in Nat
ASSUME EpollAssumption == EpollMayFail \in BOOLEAN

VARIABLES
    \* the kernel
    sock,          \* the connection behind each descriptor
    interest,      \* its epoll registration: none, disarmed ("off"), in or out
    accepted,      \* clients taken from the accept queue so far
    stopSignalled, \* stopFd is readable
    listenOpen,    \* listenFd is open
    \* PoolLoop's members
    running, connections, workQueue,
    busy, idle,    \* Connection::busy; lastActive older than the timeout
    active,        \* Metrics::activeConnections
    \* the epoll thread: run() and acceptLoop()
    mpc, batch, mfd, expired,
    \* the workers: workerLoop() and handleEvent()
    wpc, wev, wconn, wact,
    \* the signal handler: stop()
    hpc, hopen, signals

kernelVars == <<sock, interest, accepted, stopSignalled, listenOpen>>
sharedVars == <<running, connections, workQueue, busy, idle, active>>
mainVars == <<mpc, batch, mfd, expired>>
workerVars == <<wpc, wev, wconn, wact>>
handlerVars == <<hpc, hopen, signals>>
vars == <<kernelVars, sharedVars, mainVars, workerVars, handlerVars>>

Actions == {"WaitRead", "WaitWrite", "Close"}

Kinds == {"in", "out", "hup"}

Event == [fd : Fds \cup {ListenFd, StopFd}, ev : Kinds]

\* Event{-1, 0}: what a worker holds between two events.
NoEvent == [fd |-> StopFd, ev |-> "in"]

MainPcs == {"start", "loop", "wait", "dispatch", "notify1", "accept", "insert",
            "inserting", "opened", "add", "sweepcheck", "scanning", "closing",
            "erasing", "del", "close", "closed", "notify", "join", "done"}

WorkerPcs == {"unborn", "lockq", "blocking", "waiting", "find", "handle",
              "unbusy", "act", "erase", "del", "close", "closed", "exited"}

HandlerPcs == {"none", "exchange", "wake", "clear", "close", "closed"}

-----------------------------------------------------------------------------
(* Locks.  connectionsMutex is held across a step only by the epoll thread *)
(* (so that the signal handler can interrupt it there); queueMutex only by *)
(* a worker that has found its predicate false and has not blocked yet.    *)

ConnectionsMutexFree == mpc \notin {"inserting", "scanning", "erasing"}

QueueMutexFree == \A w \in Workers : wpc[w] # "blocking"

\* The epoll thread does not run while it executes the signal handler.
MainRuns == hpc = "none"

\* queueCondition.notify_all()
NotifyAll == wpc' = [w \in Workers |-> IF wpc[w] = "waiting" THEN "lockq" ELSE wpc[w]]

\* connections.find(fd) != connections.end()
InTable(fd) == fd \in Fds /\ connections[fd] # None

-----------------------------------------------------------------------------
Init ==
    /\ sock = [fd \in Fds |-> None]
    /\ interest = [fd \in Fds |-> "none"]
    /\ accepted = {}
    /\ stopSignalled = FALSE
    /\ listenOpen = FALSE
    /\ running = FALSE
    /\ connections = [fd \in Fds |-> None]
    /\ workQueue = <<>>
    /\ busy = [c \in Conns |-> FALSE]
    /\ idle = [c \in Conns |-> FALSE]
    /\ active = 0
    /\ mpc = "start"
    /\ batch = {}
    /\ mfd = StopFd
    /\ expired = {}
    /\ wpc = [w \in Workers |-> "unborn"]
    /\ wev = [w \in Workers |-> NoEvent]
    /\ wconn = [w \in Workers |-> None]
    /\ wact = [w \in Workers |-> "WaitRead"]
    /\ hpc = "none"
    /\ hopen = {}
    /\ signals = 0

-----------------------------------------------------------------------------
(* The epoll thread *)

\* The listener or an epoll/eventfd descriptor cannot be made: run() returns.
RunFail ==
    /\ MainRuns /\ mpc = "start"
    /\ mpc' = "done"
    /\ UNCHANGED <<kernelVars, sharedVars, batch, mfd, expired, workerVars, handlerVars>>

RunStart ==
    /\ MainRuns /\ mpc = "start"
    /\ listenOpen' = TRUE
    /\ running' = TRUE
    /\ wpc' = [w \in Workers |-> "lockq"]
    /\ mpc' = "loop"
    /\ UNCHANGED <<sock, interest, accepted, stopSignalled, connections, workQueue,
                   busy, idle, active, batch, mfd, expired, wev, wconn, wact, handlerVars>>

\* while (running)
Loop ==
    /\ MainRuns /\ mpc = "loop"
    /\ mpc' = IF running THEN "wait" ELSE "notify"
    /\ UNCHANGED <<kernelVars, sharedVars, batch, mfd, expired, workerVars, handlerVars>>

\* What epoll_wait may report: a peer may send, close or reset at any time.
ReadyEvents ==
    {e \in Event :
        \/ e.fd = StopFd /\ e.ev = "in" /\ stopSignalled
        \/ e.fd = ListenFd /\ e.ev = "in" /\ listenOpen /\ accepted # Conns
        \/ /\ e.fd \in Fds
           /\ interest[e.fd] \in {"in", "out"}
           /\ e.ev \in {interest[e.fd], "hup"}}

\* Seeded fault: the clients are registered without EPOLLONESHOT.
EpollWaitNoOneshot ==
    /\ MainRuns /\ mpc = "wait"
    /\ \E reported \in SUBSET ReadyEvents :
        /\ \A e, f \in reported : e.fd = f.fd => e = f
        /\ batch' = reported
    /\ mpc' = "dispatch"
    /\ UNCHANGED <<kernelVars, sharedVars, mfd, expired, workerVars, handlerVars>>

\* epoll_wait returns up to kMaxEvents events, none after a timeout; EPOLLONESHOT
\* disarms the client descriptors that are reported.
EpollWait ==
    /\ MainRuns /\ mpc = "wait"
    /\ \E reported \in SUBSET ReadyEvents :
        /\ \A e, f \in reported : e.fd = f.fd => e = f
        /\ batch' = reported
        /\ interest' = [fd \in Fds |-> IF \E e \in reported : e.fd = fd
                                       THEN "off" ELSE interest[fd]]
    /\ mpc' = "dispatch"
    /\ UNCHANGED <<sock, accepted, stopSignalled, listenOpen, sharedVars, mfd, expired,
                   workerVars, handlerVars>>

\* epoll_wait fails: leave the loop with running unchanged.
EpollError ==
    /\ EpollMayFail
    /\ MainRuns /\ mpc = "wait"
    /\ mpc' = "notify"
    /\ UNCHANGED <<kernelVars, sharedVars, batch, mfd, expired, workerVars, handlerVars>>

\* fd == stopFd: the rest of the batch is dropped.
DispatchStop ==
    /\ MainRuns /\ mpc = "dispatch"
    /\ \E e \in batch : e.fd = StopFd
    /\ running' = FALSE
    /\ batch' = {}
    /\ mpc' = "sweepcheck"
    /\ UNCHANGED <<kernelVars, connections, workQueue, busy, idle, active, mfd, expired,
                   workerVars, handlerVars>>

\* fd == listenFd (stop() has not set it to -1): drain the accept queue.
DispatchListen ==
    /\ MainRuns /\ mpc = "dispatch"
    /\ listenOpen
    /\ \E e \in batch : e.fd = ListenFd /\ batch' = batch \ {e}
    /\ mpc' = "accept"
    /\ UNCHANGED <<kernelVars, sharedVars, mfd, expired, workerVars, handlerVars>>

\* Seeded fault: the push is not followed by notify_one().
DispatchClientNoNotify ==
    /\ MainRuns /\ mpc = "dispatch"
    /\ QueueMutexFree
    /\ \E e \in batch :
        /\ e.fd \in Fds \/ (e.fd = ListenFd /\ ~listenOpen)
        /\ batch' = batch \ {e}
        /\ workQueue' = Append(workQueue, e)
    /\ mpc' = "dispatch"
    /\ UNCHANGED <<kernelVars, running, connections, busy, idle, active, mfd, expired,
                   workerVars, handlerVars>>

\* Any other descriptor goes to the queue, the listener's too once stop() has
\* overwritten listenFd.
DispatchClient ==
    /\ MainRuns /\ mpc = "dispatch"
    /\ QueueMutexFree
    /\ \E e \in batch :
        /\ e.fd \in Fds \/ (e.fd = ListenFd /\ ~listenOpen)
        /\ batch' = batch \ {e}
        /\ workQueue' = Append(workQueue, e)
    /\ mpc' = "notify1"
    /\ UNCHANGED <<kernelVars, running, connections, busy, idle, active, mfd, expired,
                   workerVars, handlerVars>>

\* queueCondition.notify_one()
NotifyOne ==
    /\ MainRuns /\ mpc = "notify1"
    /\ \/ \E w \in Workers : wpc[w] = "waiting" /\ wpc' = [wpc EXCEPT ![w] = "lockq"]
       \/ (\A w \in Workers : wpc[w] # "waiting") /\ wpc' = wpc
    /\ mpc' = "dispatch"
    /\ UNCHANGED <<kernelVars, sharedVars, batch, mfd, expired, wev, wconn, wact, handlerVars>>

DispatchDone ==
    /\ MainRuns /\ mpc = "dispatch"
    /\ batch = {}
    /\ mpc' = "sweepcheck"
    /\ UNCHANGED <<kernelVars, sharedVars, batch, mfd, expired, workerVars, handlerVars>>

\* accept() gives a client any free descriptor number.
Accept ==
    /\ MainRuns /\ mpc = "accept"
    /\ listenOpen
    /\ \E c \in Conns \ accepted, fd \in Fds :
        /\ sock[fd] = None
        /\ sock' = [sock EXCEPT ![fd] = c]
        /\ accepted' = accepted \cup {c}
        /\ mfd' = fd
    /\ mpc' = "insert"
    /\ UNCHANGED <<interest, stopSignalled, listenOpen, sharedVars, batch, expired,
                   workerVars, handlerVars>>

\* accept() < 0: drained, out of descriptors, aborted by the peer, or listenFd is -1.
AcceptNone ==
    /\ MainRuns /\ mpc = "accept"
    /\ mpc' = "dispatch"
    /\ UNCHANGED <<kernelVars, sharedVars, batch, mfd, expired, workerVars, handlerVars>>

\* The critical section that inserts the Connection: lock and insert, unlock.
InsertLock ==
    /\ MainRuns /\ mpc = "insert"
    /\ connections' = [connections EXCEPT ![mfd] = sock[mfd]]
    /\ mpc' = "inserting"
    /\ UNCHANGED <<kernelVars, running, workQueue, busy, idle, active, batch, mfd, expired,
                   workerVars, handlerVars>>

InsertUnlock ==
    /\ MainRuns /\ mpc = "inserting"
    /\ mpc' = "opened"
    /\ UNCHANGED <<kernelVars, sharedVars, batch, mfd, expired, workerVars, handlerVars>>

\* metrics.connectionOpened()
Opened ==
    /\ MainRuns /\ mpc = "opened"
    /\ active' = active + 1
    /\ mpc' = "add"
    /\ UNCHANGED <<kernelVars, running, connections, workQueue, busy, idle, batch, mfd,
                   expired, workerVars, handlerVars>>

\* EPOLL_CTL_ADD; it fails, unnoticed, on a descriptor that stop() has closed.
EpollAdd ==
    /\ MainRuns /\ mpc = "add"
    /\ interest' = [interest EXCEPT ![mfd] = IF sock[mfd] # None THEN "in" ELSE @]
    /\ mpc' = "accept"
    /\ mfd' = StopFd
    /\ UNCHANGED <<sock, accepted, stopSignalled, listenOpen, sharedVars, batch, expired,
                   workerVars, handlerVars>>

\* A sweep is due when a second has passed since the last one.
SweepNotDue ==
    /\ MainRuns /\ mpc = "sweepcheck"
    /\ mpc' = "loop"
    /\ UNCHANGED <<kernelVars, sharedVars, batch, mfd, expired, workerVars, handlerVars>>

\* sweepIdleConnections(): the scan under connectionsMutex ...
SweepScan ==
    /\ MainRuns /\ mpc = "sweepcheck"
    /\ expired' = {fd \in Fds : /\ connections[fd] # None
                                /\ ~busy[connections[fd]]
                                /\ idle[connections[fd]]}
    /\ mpc' = "scanning"
    /\ UNCHANGED <<kernelVars, sharedVars, batch, mfd, workerVars, handlerVars>>

SweepUnlock ==
    /\ MainRuns /\ mpc = "scanning"
    /\ mpc' = "closing"
    /\ UNCHANGED <<kernelVars, sharedVars, batch, mfd, expired, workerVars, handlerVars>>

\* ... then closeConnection(fd) for each: erase under the lock, return if absent.
SweepErase ==
    /\ MainRuns /\ mpc = "closing"
    /\ \E fd \in expired :
        /\ mfd' = fd
        /\ expired' = expired \ {fd}
        /\ connections' = [connections EXCEPT ![fd] = None]
        /\ mpc' = IF connections[fd] = None THEN "closing" ELSE "erasing"
    /\ UNCHANGED <<kernelVars, running, workQueue, busy, idle, active, batch, workerVars,
                   handlerVars>>

SweepEraseUnlock ==
    /\ MainRuns /\ mpc = "erasing"
    /\ mpc' = "del"
    /\ UNCHANGED <<kernelVars, sharedVars, batch, mfd, expired, workerVars, handlerVars>>

\* EPOLL_CTL_DEL
SweepDel ==
    /\ MainRuns /\ mpc = "del"
    /\ interest' = [interest EXCEPT ![mfd] = "none"]
    /\ mpc' = "close"
    /\ UNCHANGED <<sock, accepted, stopSignalled, listenOpen, sharedVars, batch, mfd,
                   expired, workerVars, handlerVars>>

\* close(fd): the kernel may give the number to the next client at once ...
SweepClose ==
    /\ MainRuns /\ mpc = "close"
    /\ sock' = [sock EXCEPT ![mfd] = None]
    /\ interest' = [interest EXCEPT ![mfd] = "none"]
    /\ mpc' = "closed"
    /\ UNCHANGED <<accepted, stopSignalled, listenOpen, sharedVars, batch, mfd, expired,
                   workerVars, handlerVars>>

\* ... and metrics.connectionClosed() comes after it.
SweepClosed ==
    /\ MainRuns /\ mpc = "closed"
    /\ active' = active - 1
    /\ mpc' = "closing"
    /\ UNCHANGED <<kernelVars, running, connections, workQueue, busy, idle, batch, mfd,
                   expired, workerVars, handlerVars>>

SweepDone ==
    /\ MainRuns /\ mpc = "closing"
    /\ expired = {}
    /\ mfd' = StopFd
    /\ mpc' = "loop"
    /\ UNCHANGED <<kernelVars, sharedVars, batch, expired, workerVars, handlerVars>>

\* run() after acceptLoop(): notify_all, then join every worker.
NotifyWorkers ==
    /\ MainRuns /\ mpc = "notify"
    /\ NotifyAll
    /\ mpc' = "join"
    /\ UNCHANGED <<kernelVars, sharedVars, batch, mfd, expired, wev, wconn, wact, handlerVars>>

\* Seeded fault: the workers are detached instead of joined.
JoinNothing ==
    /\ MainRuns /\ mpc = "join"
    /\ mpc' = "done"
    /\ UNCHANGED <<kernelVars, sharedVars, batch, mfd, expired, workerVars, handlerVars>>

Join ==
    /\ MainRuns /\ mpc = "join"
    /\ \A w \in Workers : wpc[w] = "exited"
    /\ mpc' = "done"
    /\ UNCHANGED <<kernelVars, sharedVars, batch, mfd, expired, workerVars, handlerVars>>

Main ==
    \/ RunFail \/ RunStart \/ Loop \/ EpollWait \/ EpollError
    \/ DispatchStop \/ DispatchListen \/ DispatchClient \/ NotifyOne \/ DispatchDone
    \/ Accept \/ AcceptNone \/ InsertLock \/ InsertUnlock \/ Opened \/ EpollAdd
    \/ SweepNotDue \/ SweepScan \/ SweepUnlock \/ SweepErase \/ SweepEraseUnlock
    \/ SweepDel \/ SweepClose \/ SweepClosed \/ SweepDone \/ NotifyWorkers \/ Join

-----------------------------------------------------------------------------
(* A worker *)

\* The worker is done with its descriptor and goes on at pc.
LetGo(w, pc) ==
    /\ wpc' = [wpc EXCEPT ![w] = pc]
    /\ wev' = [wev EXCEPT ![w] = NoEvent]
    /\ wconn' = [wconn EXCEPT ![w] = None]
    /\ wact' = [wact EXCEPT ![w] = "WaitRead"]

\* It goes back to the queue.
Release(w) == LetGo(w, "lockq")

\* The wait predicate holds and the queue is not empty: pop the front event.
Pop(w) ==
    /\ wpc[w] = "lockq"
    /\ QueueMutexFree
    /\ workQueue # <<>>
    /\ wev' = [wev EXCEPT ![w] = Head(workQueue)]
    /\ workQueue' = Tail(workQueue)
    /\ wpc' = [wpc EXCEPT ![w] = "find"]
    /\ UNCHANGED <<kernelVars, running, connections, busy, idle, active, mainVars, wconn,
                   wact, handlerVars>>

\* It holds because the loop stops: return.
Exit(w) ==
    /\ wpc[w] = "lockq"
    /\ QueueMutexFree
    /\ workQueue = <<>> /\ ~running
    /\ wpc' = [wpc EXCEPT ![w] = "exited"]
    /\ UNCHANGED <<kernelVars, sharedVars, mainVars, wev, wconn, wact, handlerVars>>

\* It does not hold: the worker keeps queueMutex until it blocks.
WaitPredicateFalse(w) ==
    /\ wpc[w] = "lockq"
    /\ QueueMutexFree
    /\ workQueue = <<>> /\ running
    /\ wpc' = [wpc EXCEPT ![w] = "blocking"]
    /\ UNCHANGED <<kernelVars, sharedVars, mainVars, wev, wconn, wact, handlerVars>>

Block(w) ==
    /\ wpc[w] = "blocking"
    /\ wpc' = [wpc EXCEPT ![w] = "waiting"]
    /\ UNCHANGED <<kernelVars, sharedVars, mainVars, wev, wconn, wact, handlerVars>>

\* handleEvent(): the lookup; nothing to do for a descriptor not in the table.
FindAbsent(w) ==
    /\ wpc[w] = "find"
    /\ ConnectionsMutexFree
    /\ ~InTable(wev[w].fd)
    /\ Release(w)
    /\ UNCHANGED <<kernelVars, sharedVars, mainVars, handlerVars>>

\* Seeded fault: the descriptor is rearmed before the event is handled.
FindRearmsFirst(w) ==
    /\ wpc[w] = "find"
    /\ ConnectionsMutexFree
    /\ InTable(wev[w].fd)
    /\ wconn' = [wconn EXCEPT ![w] = connections[wev[w].fd]]
    /\ busy' = [busy EXCEPT ![connections[wev[w].fd]] = TRUE]
    /\ interest' = [interest EXCEPT ![wev[w].fd] = "in"]
    /\ wpc' = [wpc EXCEPT ![w] = "handle"]
    /\ UNCHANGED <<sock, accepted, stopSignalled, listenOpen, running, connections,
                   workQueue, idle, active, mainVars, wev, wact, handlerVars>>

Find(w) ==
    /\ wpc[w] = "find"
    /\ ConnectionsMutexFree
    /\ InTable(wev[w].fd)
    /\ wconn' = [wconn EXCEPT ![w] = connections[wev[w].fd]]
    /\ busy' = [busy EXCEPT ![connections[wev[w].fd]] = TRUE]
    /\ wpc' = [wpc EXCEPT ![w] = "handle"]
    /\ UNCHANGED <<kernelVars, running, connections, workQueue, idle, active, mainVars,
                   wev, wact, handlerVars>>

\* EPOLLHUP or EPOLLERR, or recv fails (always on a closed descriptor): Close.
HandleFailed(w) ==
    /\ wpc[w] = "handle"
    /\ wev[w].ev \in {"hup", "in"}
    /\ wact' = [wact EXCEPT ![w] = "Close"]
    /\ wpc' = [wpc EXCEPT ![w] = "unbusy"]
    /\ UNCHANGED <<kernelVars, sharedVars, mainVars, wev, wconn, handlerVars>>

\* onReadable() drains the socket, refreshes lastActive, answers and flushes;
\* every outcome is possible, see module ConnectionHandler.
HandleReadable(w) ==
    /\ wpc[w] = "handle"
    /\ wev[w].ev = "in"
    /\ sock[wev[w].fd] # None
    /\ idle' = [idle EXCEPT ![wconn[w]] = FALSE]
    /\ \E a \in Actions : wact' = [wact EXCEPT ![w] = a]
    /\ wpc' = [wpc EXCEPT ![w] = "unbusy"]
    /\ UNCHANGED <<kernelVars, running, connections, workQueue, busy, active, mainVars,
                   wev, wconn, handlerVars>>

\* onWritable() flushes and does not touch lastActive.
HandleWritable(w) ==
    /\ wpc[w] = "handle"
    /\ wev[w].ev = "out"
    /\ \E a \in Actions : wact' = [wact EXCEPT ![w] = a]
    /\ wpc' = [wpc EXCEPT ![w] = "unbusy"]
    /\ UNCHANGED <<kernelVars, sharedVars, mainVars, wev, wconn, handlerVars>>

Unbusy(w) ==
    /\ wpc[w] = "unbusy"
    /\ ConnectionsMutexFree
    /\ busy' = [busy EXCEPT ![wconn[w]] = FALSE]
    /\ wpc' = [wpc EXCEPT ![w] = IF wact[w] = "Close" THEN "erase" ELSE "act"]
    /\ UNCHANGED <<kernelVars, running, connections, workQueue, idle, active, mainVars,
                   wev, wconn, wact, handlerVars>>

\* Seeded fault: the Action itself is passed as the event mask.
RearmActionAsMask(w) ==
    /\ wpc[w] = "act"
    /\ interest[wev[w].fd] # "none"
    /\ interest' = [interest EXCEPT ![wev[w].fd] = wact[w]]
    /\ Release(w)
    /\ UNCHANGED <<sock, accepted, stopSignalled, listenOpen, sharedVars, mainVars,
                   handlerVars>>

\* Seeded fault: only WaitRead rearms.
RearmReadOnly(w) ==
    /\ wpc[w] = "act"
    /\ interest[wev[w].fd] # "none"
    /\ interest' = [interest EXCEPT ![wev[w].fd] = IF wact[w] = "WaitRead" THEN "in" ELSE @]
    /\ Release(w)
    /\ UNCHANGED <<sock, accepted, stopSignalled, listenOpen, sharedVars, mainVars,
                   handlerVars>>

\* rearm(): EPOLL_CTL_MOD by descriptor number ...
Rearm(w) ==
    /\ wpc[w] = "act"
    /\ interest[wev[w].fd] # "none"
    /\ interest' = [interest EXCEPT ![wev[w].fd] =
                        IF wact[w] = "WaitWrite" THEN "out" ELSE "in"]
    /\ Release(w)
    /\ UNCHANGED <<sock, accepted, stopSignalled, listenOpen, sharedVars, mainVars,
                   handlerVars>>

\* ... which fails when the descriptor is not registered: closeConnection().
RearmFailed(w) ==
    /\ wpc[w] = "act"
    /\ interest[wev[w].fd] = "none"
    /\ wpc' = [wpc EXCEPT ![w] = "erase"]
    /\ UNCHANGED <<kernelVars, sharedVars, mainVars, wev, wconn, wact, handlerVars>>

\* Seeded fault: the result of erase is ignored, the descriptor is closed anyway.
EraseAbsentCloses(w) ==
    /\ wpc[w] = "erase"
    /\ ConnectionsMutexFree
    /\ ~InTable(wev[w].fd)
    /\ wpc' = [wpc EXCEPT ![w] = "del"]
    /\ UNCHANGED <<kernelVars, sharedVars, mainVars, wev, wconn, wact, handlerVars>>

\* closeConnection(): return when the table has no such descriptor any more.
EraseAbsent(w) ==
    /\ wpc[w] = "erase"
    /\ ConnectionsMutexFree
    /\ ~InTable(wev[w].fd)
    /\ Release(w)
    /\ UNCHANGED <<kernelVars, sharedVars, mainVars, handlerVars>>

Erase(w) ==
    /\ wpc[w] = "erase"
    /\ ConnectionsMutexFree
    /\ InTable(wev[w].fd)
    /\ connections' = [connections EXCEPT ![wev[w].fd] = None]
    /\ wpc' = [wpc EXCEPT ![w] = "del"]
    /\ UNCHANGED <<kernelVars, running, workQueue, busy, idle, active, mainVars, wev,
                   wconn, wact, handlerVars>>

Del(w) ==
    /\ wpc[w] = "del"
    /\ interest' = [interest EXCEPT ![wev[w].fd] = "none"]
    /\ wpc' = [wpc EXCEPT ![w] = "close"]
    /\ UNCHANGED <<sock, accepted, stopSignalled, listenOpen, sharedVars, mainVars, wev,
                   wconn, wact, handlerVars>>

Close(w) ==
    /\ wpc[w] = "close"
    /\ sock' = [sock EXCEPT ![wev[w].fd] = None]
    /\ interest' = [interest EXCEPT ![wev[w].fd] = "none"]
    /\ LetGo(w, "closed")
    /\ UNCHANGED <<accepted, stopSignalled, listenOpen, sharedVars, mainVars, handlerVars>>

Closed(w) ==
    /\ wpc[w] = "closed"
    /\ active' = active - 1
    /\ wpc' = [wpc EXCEPT ![w] = "lockq"]
    /\ UNCHANGED <<kernelVars, running, connections, workQueue, busy, idle, mainVars, wev,
                   wconn, wact, handlerVars>>

Worker(w) ==
    \/ Pop(w) \/ Exit(w) \/ WaitPredicateFalse(w) \/ Block(w)
    \/ FindAbsent(w) \/ Find(w)
    \/ HandleFailed(w) \/ HandleReadable(w) \/ HandleWritable(w) \/ Unbusy(w)
    \/ Rearm(w) \/ RearmFailed(w) \/ EraseAbsent(w) \/ Erase(w) \/ Del(w) \/ Close(w)
    \/ Closed(w)

\* A condition variable may wake a thread without a notification.
SpuriousWakeup(w) ==
    /\ wpc[w] = "waiting"
    /\ wpc' = [wpc EXCEPT ![w] = "lockq"]
    /\ UNCHANGED <<kernelVars, sharedVars, mainVars, wev, wconn, wact, handlerVars>>

-----------------------------------------------------------------------------
(* The signal handler: stop() on the stack of the epoll thread *)

\* Linux delivers a process-directed signal to the main thread.
Signal ==
    /\ hpc = "none"
    /\ mpc # "done"
    /\ signals < MaxSignals
    /\ signals' = signals + 1
    /\ hpc' = "exchange"
    /\ UNCHANGED <<kernelVars, sharedVars, mainVars, workerVars, hopen>>

\* The handler returns; an interrupted epoll_wait returns EINTR.
Resume ==
    /\ hpc' = "none"
    /\ \/ mpc' = mpc
       \/ mpc = "wait" /\ mpc' = "loop"

StopExchange ==
    /\ hpc = "exchange"
    /\ running
    /\ running' = FALSE
    /\ hpc' = "wake"
    /\ UNCHANGED <<kernelVars, connections, workQueue, busy, idle, active, mainVars,
                   workerVars, hopen, signals>>

\* running was already false: stop() returns at once.
StopIgnored ==
    /\ hpc = "exchange"
    /\ ~running
    /\ Resume
    /\ UNCHANGED <<kernelVars, sharedVars, batch, mfd, expired, workerVars, hopen, signals>>

StopWake ==
    /\ hpc = "wake"
    /\ stopSignalled' = TRUE
    /\ NotifyAll
    /\ hpc' = "clear"
    /\ UNCHANGED <<sock, interest, accepted, listenOpen, sharedVars, mainVars, wev, wconn,
                   wact, hopen, signals>>

\* Seeded fault: the table is cleared before the descriptors are collected.
StopClearFirst ==
    /\ hpc = "clear"
    /\ ConnectionsMutexFree
    /\ hopen' = {}
    /\ connections' = [fd \in Fds |-> None]
    /\ hpc' = "close"
    /\ UNCHANGED <<kernelVars, running, workQueue, busy, idle, active, mainVars,
                   workerVars, signals>>

\* Collect the descriptors and clear the table.  connectionsMutex is not
\* recursive: if the interrupted code holds it, this step never happens.
StopClear ==
    /\ hpc = "clear"
    /\ ConnectionsMutexFree
    /\ hopen' = {fd \in Fds : connections[fd] # None}
    /\ connections' = [fd \in Fds |-> None]
    /\ hpc' = "close"
    /\ UNCHANGED <<kernelVars, running, workQueue, busy, idle, active, mainVars,
                   workerVars, signals>>

\* close(fd), which drops the epoll registration ...
StopClose ==
    /\ hpc = "close"
    /\ \E fd \in hopen :
        /\ sock' = [sock EXCEPT ![fd] = None]
        /\ interest' = [interest EXCEPT ![fd] = "none"]
        /\ hopen' = hopen \ {fd}
    /\ hpc' = "closed"
    /\ UNCHANGED <<accepted, stopSignalled, listenOpen, sharedVars, mainVars, workerVars,
                   signals>>

\* Seeded fault: stop() does not call connectionClosed().
StopClosedUncounted ==
    /\ hpc = "closed"
    /\ hpc' = "close"
    /\ UNCHANGED <<kernelVars, sharedVars, mainVars, workerVars, hopen, signals>>

\* ... and connectionClosed(), one descriptor after the other
StopClosed ==
    /\ hpc = "closed"
    /\ active' = active - 1
    /\ hpc' = "close"
    /\ UNCHANGED <<kernelVars, running, connections, workQueue, busy, idle, mainVars,
                   workerVars, hopen, signals>>

\* close(listenFd); listenFd = -1
StopListen ==
    /\ hpc = "close"
    /\ hopen = {}
    /\ listenOpen' = FALSE
    /\ Resume
    /\ UNCHANGED <<sock, interest, accepted, stopSignalled, sharedVars, batch, mfd,
                   expired, workerVars, hopen, signals>>

Handler == StopExchange \/ StopIgnored \/ StopWake \/ StopClear \/ StopClose \/ StopClosed
           \/ StopListen

-----------------------------------------------------------------------------
\* Time passes: a connection in the table has been silent past the timeout.
Age(c) ==
    /\ ~idle[c]
    /\ \E fd \in Fds : connections[fd] = c
    /\ idle' = [idle EXCEPT ![c] = TRUE]
    /\ UNCHANGED <<kernelVars, running, connections, workQueue, busy, active, mainVars,
                   workerVars, handlerVars>>

Next ==
    \/ Main
    \/ \E w \in Workers : Worker(w) \/ SpuriousWakeup(w)
    \/ Signal \/ Handler
    \/ \E c \in Expirable : Age(c)

Spec == Init /\ [][Next]_vars

\* Threads are scheduled fairly and no thread starves on a mutex.
Fairness ==
    /\ SF_vars(Main)
    /\ WF_vars(Handler)
    /\ \A w \in Workers : SF_vars(Worker(w))

FairSpec == Spec /\ Fairness

-----------------------------------------------------------------------------
(* Properties *)

\* Every variable has its type: descriptors, queue entries and program counters
\* stay in their sets whatever the threads of pool_loop.cpp do.
TypeOK ==
    /\ sock \in [Fds -> Conns \cup {None}]
    /\ interest \in [Fds -> {"none", "off", "in", "out"}]
    /\ accepted \subseteq Conns
    /\ stopSignalled \in BOOLEAN /\ listenOpen \in BOOLEAN /\ running \in BOOLEAN
    /\ connections \in [Fds -> Conns \cup {None}]
    /\ workQueue \in Seq(Event)
    /\ busy \in [Conns -> BOOLEAN] /\ idle \in [Conns -> BOOLEAN]
    /\ active \in Int
    /\ mpc \in MainPcs /\ batch \subseteq Event
    /\ mfd \in Fds \cup {StopFd} /\ expired \subseteq Fds
    /\ wpc \in [Workers -> WorkerPcs] /\ wev \in [Workers -> Event]
    /\ wconn \in [Workers -> Conns \cup {None}] /\ wact \in [Workers -> Actions]
    /\ hpc \in HandlerPcs /\ hopen \subseteq Fds /\ signals \in 0..MaxSignals

\* The epoll thread between accept() and the insertion, or between erase and close().
EpollHolds(fd) == mpc \in {"insert", "erasing", "del", "close"} /\ mfd = fd

\* A worker between erase and close().
WorkerHolds(w, fd) == wpc[w] \in {"del", "close"} /\ wev[w].fd = fd

\* Who has the duty to close descriptor fd: the table of connections, the epoll
\* thread, a worker, or stop() between clear() and close().
Custodians(fd) ==
    (IF connections[fd] # None THEN {"table"} ELSE {})
    \cup (IF EpollHolds(fd) THEN {"epoll"} ELSE {})
    \cup (IF fd \in hopen THEN {"stop"} ELSE {})
    \cup {w \in Workers : WorkerHolds(w, fd)}

\* Every open client socket has exactly one party that will close it, and a
\* closed descriptor has none; the table never describes another socket than the
\* one behind the descriptor.  So closeConnection() from a worker, from the sweep
\* and the bulk close in stop() never close a descriptor twice (which would close
\* a stranger's socket after reuse) and never lose one.
OneCustodian ==
    \A fd \in Fds :
        /\ connections[fd] \in {None, sock[fd]}
        /\ IF sock[fd] = None THEN Custodians(fd) = {}
                              ELSE \E p \in Custodians(fd) : Custodians(fd) = {p}

\* The descriptors with an open client socket.
OpenFds == {fd \in Fds : sock[fd] # None}

\* The clients that are accepted and not counted yet: the epoll thread, between accept()
\* and connectionOpened().
Uncounted == IF mpc \in {"insert", "inserting", "opened"} THEN 1 ELSE 0

\* The clients that are still counted although their sockets are closed: one for each
\* party between close() and connectionClosed().
ClosedWorkers == {w \in Workers : wpc[w] = "closed"}
StillCounted ==
    (IF mpc = "closed" THEN 1 ELSE 0) + (IF hpc = "closed" THEN 1 ELSE 0)
    + Cardinality(ClosedWorkers)

\* Metrics::activeConnections is off the number of open sockets by exactly those of the
\* threads that are between a system call and its count, also when stop() interrupts the
\* accept loop or the sweep at such a place: every socket is counted up and down once,
\* whoever closes it, nothing drifts, and the gauge is right whenever no thread is there,
\* as when run() returns.
ActiveConnectionsAccounted ==
    active = Cardinality(OpenFds) - Uncounted + StillCounted

\* Something that will rearm or close the disarmed descriptor fd: an event not yet
\* dispatched, an event in the queue, or a worker.
HasToken(fd) ==
    \/ \E e \in batch : e.fd = fd
    \/ \E i \in 1..Len(workQueue) : workQueue[i].fd = fd
    \/ \E w \in Workers : wev[w].fd = fd

\* No connection of the table is left disarmed in epoll with nobody to rearm it
\* while the loop runs, even when sweeps, reused descriptors and stale events mix
\* (handleEvent() returns early for a descriptor it does not find).
NoneStranded ==
    running => \A fd \in Fds : connections[fd] # None /\ interest[fd] = "off" => HasToken(fd)

\* A worker between the lookup and the end of handleEvent() for a connection.
Owns(w, c) == wpc[w] \in {"handle", "unbusy"} /\ wconn[w] = c

\* EPOLLONESHOT: two workers never work on the same Connection.
SingleOwner ==
    \A v, w \in Workers : \A c \in Conns : Owns(v, c) /\ Owns(w, c) => v = w

\* The descriptor a worker reads, writes, rearms or closes by number still denotes
\* the connection it looked up, or is closed: never another client's socket.
NoCrossTalk ==
    \A w \in Workers : wpc[w] \in {"handle", "unbusy", "act", "erase"} =>
        sock[wev[w].fd] \in {wconn[w], None}

\* README.md:306, stopping "closes connections and joins every thread": when run() returns,
\* every client socket is closed but the one that was accepted and not yet inserted when
\* stop() cleared the table (stop() cannot see it and nobody closes it afterwards).
AllButOneClosedAtExit == mpc = "done" => Cardinality(OpenFds) <= 1

\* A connection whose event epoll has reported is eventually rearmed or removed,
\* unless the loop is stopped: no notification to the pool is lost.
EventServed ==
    \A fd \in Fds, c \in Conns :
        (connections[fd] = c /\ interest[fd] = "off")
            ~> (connections[fd] # c \/ interest[fd] # "off" \/ ~running)

\* README.md:42, "Ctrl-C stops the loop": the signal handler is never waiting for
\* the mutex that the thread it interrupted holds.
HandlerNeverBlocksItself == hpc = "clear" => ConnectionsMutexFree

\* README.md:42, "joins every thread": when run() joins the workers of a stopped
\* loop, none of them is asleep on the condition variable.
NoSleeperAtJoin ==
    mpc = "join" /\ ~running /\ workQueue = <<>> =>
        \A w \in Workers : wpc[w] \notin {"blocking", "waiting"}

-----------------------------------------------------------------------------
(* PoolLoop implements EventLoop *)

\* What has become of each client.
ClientStatus ==
    [c \in Conns |-> IF c \notin accepted THEN "new"
                     ELSE IF \E fd \in Fds : sock[fd] = c THEN "open" ELSE "closed"]

RunPhase ==
    IF mpc = "start" THEN "idle" ELSE IF mpc = "done" THEN "returned" ELSE "running"

EL == INSTANCE EventLoop WITH status <- ClientStatus, phase <- RunPhase

\* Pool mode keeps the promise of the interface: each client is accepted and closed
\* at most once whoever closes it, and no worker touches a socket after run() returned.
ImplementsEventLoop == EL!ELSpec

=============================================================================
