------------------------------- MODULE Logger -------------------------------
(***************************************************************************)
(* The asynchronous logger (src/logger.cpp): request threads push lines    *)
(* onto a queue, one thread drains it into the file, and the destructor,   *)
(* which runs once the threads of the event loop are joined, stops that    *)
(* thread.  A line is identified by its thread and its rank there.         *)
(***************************************************************************)
EXTENDS Integers, Sequences

CONSTANTS
    Producers,     \* the threads that call log()
    MaxLines       \* bound on the lines each of them logs

ASSUME LinesAssumption == MaxLines \in Nat

Lines == Producers \X (1..MaxLines)

VARIABLES
    opened,            \* logFileStream.is_open()
    running,           \* Logger::running
    mutex,             \* logMutex: "free", or held by the drain thread ("drain"); a
                       \* lock_guard that spans one step is not seen held
    logQueue,          \* Logger::logQueue
    dpc, logLine,      \* drainLoop(); logLine holds at most one line
    file,              \* what has been written
    ppc, logged,       \* enqueue() of each producer; the lines it has logged
    mpc,               \* the constructor and the destructor
    pushed             \* history: every line in the order it was pushed

drainVars == <<dpc, logLine, file>>
producerVars == <<ppc, logged>>
vars == <<opened, running, mutex, logQueue, drainVars, producerVars, mpc, pushed>>

Init ==
    /\ opened = FALSE
    /\ running = FALSE
    /\ mutex = "free"
    /\ logQueue = <<>>
    /\ dpc = "unborn" /\ logLine = <<>> /\ file = <<>>
    /\ ppc = [p \in Producers |-> "idle"]
    /\ logged = [p \in Producers |-> 0]
    /\ mpc = "construct"
    /\ pushed = <<>>

-----------------------------------------------------------------------------
(* Logger::Logger *)

Construct ==
    /\ mpc = "construct"
    /\ opened' = TRUE
    /\ running' = TRUE
    /\ dpc' = "lock"
    /\ mpc' = "serve"
    /\ UNCHANGED <<mutex, logQueue, logLine, file, producerVars, pushed>>

\* The file cannot be opened: no thread, and running stays false.
ConstructFailed ==
    /\ mpc = "construct"
    /\ mpc' = "serve"
    /\ UNCHANGED <<opened, running, mutex, logQueue, drainVars, producerVars, pushed>>

-----------------------------------------------------------------------------
(* log() and enqueue() *)

\* A notification moves the drain thread out of wait(); lost when it is not waiting.
Notified == IF dpc = "blocked" THEN "lock" ELSE dpc

\* if (!running) return;
EnqueueDropped(p) ==
    /\ mpc = "serve" /\ ppc[p] = "idle" /\ logged[p] < MaxLines
    /\ ~running
    /\ logged' = [logged EXCEPT ![p] = @ + 1]
    /\ UNCHANGED <<opened, running, mutex, logQueue, drainVars, ppc, mpc, pushed>>

Enqueue(p) ==
    /\ mpc = "serve" /\ ppc[p] = "idle" /\ logged[p] < MaxLines
    /\ running
    /\ logged' = [logged EXCEPT ![p] = @ + 1]
    /\ ppc' = [ppc EXCEPT ![p] = "push"]
    /\ UNCHANGED <<opened, running, mutex, logQueue, drainVars, mpc, pushed>>

\* Seeded fault: enqueue() returns without unlocking.
PushNoUnlock(p) ==
    /\ ppc[p] = "push"
    /\ mutex = "free"
    /\ mutex' = "producer"
    /\ logQueue' = Append(logQueue, <<p, logged[p]>>)
    /\ pushed' = Append(pushed, <<p, logged[p]>>)
    /\ ppc' = [ppc EXCEPT ![p] = "notify"]
    /\ UNCHANGED <<opened, running, drainVars, logged, mpc>>

\* The scope of the lock_guard
Push(p) ==
    /\ ppc[p] = "push"
    /\ mutex = "free"
    /\ logQueue' = Append(logQueue, <<p, logged[p]>>)
    /\ pushed' = Append(pushed, <<p, logged[p]>>)
    /\ ppc' = [ppc EXCEPT ![p] = "notify"]
    /\ UNCHANGED <<opened, running, mutex, drainVars, logged, mpc>>

\* Seeded fault: enqueue() does not notify.
NotifyOneMissing(p) ==
    /\ ppc[p] = "notify"
    /\ ppc' = [ppc EXCEPT ![p] = "idle"]
    /\ UNCHANGED <<opened, running, mutex, logQueue, drainVars, logged, mpc, pushed>>

NotifyOne(p) ==
    /\ ppc[p] = "notify"
    /\ dpc' = Notified
    /\ ppc' = [ppc EXCEPT ![p] = "idle"]
    /\ UNCHANGED <<opened, running, mutex, logQueue, logLine, file, logged, mpc, pushed>>

Producer(p) == EnqueueDropped(p) \/ Enqueue(p) \/ Push(p) \/ NotifyOne(p)

-----------------------------------------------------------------------------
(* drainLoop() *)

DrainLock ==
    /\ dpc = "lock"
    /\ mutex = "free"
    /\ mutex' = "drain"
    /\ dpc' = "test"
    /\ UNCHANGED <<opened, running, logQueue, logLine, file, producerVars, mpc, pushed>>

\* The predicate of wait() is false: the thread will block.
DrainPredicateFalse ==
    /\ dpc = "test"
    /\ logQueue = <<>> /\ running
    /\ dpc' = "block"
    /\ UNCHANGED <<opened, running, mutex, logQueue, logLine, file, producerVars, mpc, pushed>>

\* wait() releases the mutex and blocks in one step.
DrainBlock ==
    /\ dpc = "block"
    /\ dpc' = "blocked"
    /\ mutex' = "free"
    /\ UNCHANGED <<opened, running, logQueue, logLine, file, producerVars, mpc, pushed>>

DrainSpuriousWakeup ==
    /\ dpc = "blocked"
    /\ dpc' = "lock"
    /\ UNCHANGED <<opened, running, mutex, logQueue, logLine, file, producerVars, mpc, pushed>>

\* Seeded fault: the thread ends as soon as it sees that the logger stops.
DrainReturnEarly ==
    /\ dpc = "test"
    /\ ~running
    /\ dpc' = "exited"
    /\ mutex' = "free"
    /\ UNCHANGED <<opened, running, logQueue, logLine, file, producerVars, mpc, pushed>>

\* Stopped and nothing left to flush
DrainReturn ==
    /\ dpc = "test"
    /\ logQueue = <<>> /\ ~running
    /\ dpc' = "exited"
    /\ mutex' = "free"
    /\ UNCHANGED <<opened, running, logQueue, logLine, file, producerVars, mpc, pushed>>

\* Take the front line and unlock.
DrainPop ==
    /\ dpc = "test"
    /\ logQueue # <<>>
    /\ logLine' = <<Head(logQueue)>>
    /\ logQueue' = Tail(logQueue)
    /\ mutex' = "free"
    /\ dpc' = "write"
    /\ UNCHANGED <<opened, running, file, producerVars, mpc, pushed>>

DrainWrite ==
    /\ dpc = "write"
    /\ file' = file \o logLine
    /\ logLine' = <<>>
    /\ dpc' = "lock"
    /\ UNCHANGED <<opened, running, mutex, logQueue, producerVars, mpc, pushed>>

Drain ==
    \/ DrainLock \/ DrainPredicateFalse \/ DrainBlock \/ DrainReturn \/ DrainPop \/ DrainWrite

-----------------------------------------------------------------------------
(* Logger::~Logger, called by main() after run() has joined every thread *)

\* Seeded fault: running is cleared without the mutex.
DestructUnlocked ==
    /\ mpc = "serve"
    /\ \A p \in Producers : ppc[p] = "idle"
    /\ running' = FALSE
    /\ mpc' = "notify"
    /\ UNCHANGED <<opened, mutex, logQueue, drainVars, producerVars, pushed>>

Destruct ==
    /\ mpc = "serve"
    /\ \A p \in Producers : ppc[p] = "idle"
    /\ mutex = "free"
    /\ running' = FALSE
    /\ mpc' = "notify"
    /\ UNCHANGED <<opened, mutex, logQueue, drainVars, producerVars, pushed>>

DestructNotify ==
    /\ mpc = "notify"
    /\ dpc' = Notified
    /\ mpc' = "join"
    /\ UNCHANGED <<opened, running, mutex, logQueue, logLine, file, producerVars, pushed>>

\* join() if the thread was started, then close the file.
DestructJoin ==
    /\ mpc = "join"
    /\ dpc \in {"unborn", "exited"}
    /\ opened' = FALSE
    /\ mpc' = "destroyed"
    /\ UNCHANGED <<running, mutex, logQueue, drainVars, producerVars, pushed>>

Main == Construct \/ ConstructFailed \/ Destruct \/ DestructNotify \/ DestructJoin

Next ==
    \/ Main
    \/ \E p \in Producers : Producer(p)
    \/ Drain \/ DrainSpuriousWakeup

Spec == Init /\ [][Next]_vars

\* Every thread is scheduled; nothing obliges a thread to log, nor main to end, nor
\* wait() to wake up spuriously.
Fairness ==
    /\ WF_vars(Drain)
    /\ WF_vars(DestructNotify) /\ WF_vars(DestructJoin)
    /\ \A p \in Producers : WF_vars(NotifyOne(p))

FairSpec == Spec /\ Fairness

-----------------------------------------------------------------------------
(* Properties *)

\* Every variable has its type.
TypeOK ==
    /\ opened \in BOOLEAN /\ running \in BOOLEAN
    /\ mutex \in {"free", "drain"}
    /\ logQueue \in Seq(Lines) /\ logLine \in Seq(Lines) /\ file \in Seq(Lines)
    /\ pushed \in Seq(Lines)
    /\ dpc \in {"unborn", "lock", "test", "block", "blocked", "write", "exited"}
    /\ ppc \in [Producers -> {"idle", "push", "notify"}]
    /\ logged \in [Producers -> 0..MaxLines]
    /\ mpc \in {"construct", "serve", "notify", "join", "destroyed"}

\* Between them the file, the line in flight and the queue hold exactly the lines pushed,
\* in the order of the pushes: no interleaving loses, repeats or reorders one.
NothingLost == file \o logLine \o logQueue = pushed

\* When the destructor returns, every line that was pushed is in the file, the ones that
\* were still queued when it began included.
FlushedAtClose == mpc = "destroyed" => file = pushed

\* The log is complete at every moment and at the end.
LogComplete == NothingLost /\ FlushedAtClose

\* The drain thread never sleeps over work: when it is blocked, either there is nothing
\* to do or a notification is on its way.
NoSleepOverWork ==
    dpc = "blocked" =>
        /\ logQueue # <<>> => \E p \in Producers : ppc[p] = "notify"
        /\ ~running => mpc = "notify"

\* A line that is pushed reaches the file while the server goes on.
EveryLineWritten ==
    \A l \in Lines : (\E i \in DOMAIN pushed : pushed[i] = l) ~> (\E i \in DOMAIN file : file[i] = l)

\* The destructor returns: main() does not hang on the join of the drain thread.
DestructorReturns == (mpc = "notify") ~> (mpc = "destroyed")

=============================================================================
