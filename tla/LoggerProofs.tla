---------------------------- MODULE LoggerProofs ----------------------------
(* Proofs about Logger, for any number of threads and lines. *)
EXTENDS Logger, SequenceTheorems, TLAPS

-----------------------------------------------------------------------------
(* The inductive invariant *)

\* A thread inside enqueue() has drawn the rank of its line.
Ranked == \A p \in Producers : ppc[p] # "idle" => logged[p] \in 1..MaxLines

\* The drain thread holds logMutex from its lock to the end of the critical section.
Locking == mutex = "drain" <=> dpc \in {"test", "block"}

\* The life of the logger: when running is set, when threads are inside enqueue(), and
\* what the drain thread knows where it stands.
Lifecycle ==
    /\ mpc = "construct" => dpc = "unborn"
    /\ running => mpc = "serve" /\ dpc \notin {"unborn", "exited"}
    /\ dpc # "unborn" /\ mpc = "serve" => running
    /\ \A p \in Producers : ppc[p] # "idle" => running
    /\ dpc = "block" => running
    /\ mpc = "destroyed" => dpc \in {"unborn", "exited"}

\* Where the lines are: nothing is queued when the drain thread is about to block, has
\* ended or was never started, and only a thread about to write has a line in hand.
Queueing ==
    /\ dpc \in {"unborn", "block", "exited"} => logQueue = <<>>
    /\ dpc # "write" => logLine = <<>>

LoggerInv == TypeOK /\ Ranked /\ Locking /\ Lifecycle /\ Queueing

-----------------------------------------------------------------------------
(* Type correctness *)

\* The line a thread inside enqueue() pushes is a line.
LEMMA LineIsLine ==
    ASSUME Ranked, NEW p \in Producers, ppc[p] # "idle" PROVE <<p, logged[p]>> \in Lines
  BY DEF Ranked, Lines

\* LoggerInv holds initially.
LEMMA LoggerInvInit == Init => LoggerInv
  <1> SUFFICES ASSUME Init PROVE LoggerInv
    OBVIOUS
  <1>1. <<>> \in Seq(Lines)
    BY EmptySeq
  <1>2. logged \in [Producers -> 0..MaxLines]
    BY LinesAssumption DEF Init
  <1>3. TypeOK
    BY <1>1, <1>2 DEF Init, TypeOK
  <1> QED
    BY <1>3 DEF Init, LoggerInv, Ranked, Locking, Lifecycle, Queueing

\* LoggerInv is preserved by the constructor and the destructor.
LEMMA LoggerInvMain == ASSUME LoggerInv, Main PROVE LoggerInv'
  <1> USE DEF LoggerInv, TypeOK, Ranked, Locking, Lifecycle, Queueing, drainVars, producerVars
  <1>1. CASE Construct
    BY <1>1 DEF Construct
  <1>2. CASE ConstructFailed
    BY <1>2 DEF ConstructFailed
  <1>3. CASE Destruct
    BY <1>3 DEF Destruct
  <1>4. CASE DestructNotify
    BY <1>4 DEF DestructNotify, Notified
  <1>5. CASE DestructJoin
    BY <1>5 DEF DestructJoin
  <1> QED
    BY <1>1, <1>2, <1>3, <1>4, <1>5 DEF Main

\* LoggerInv is preserved by log() and enqueue().
LEMMA LoggerInvProducer ==
    ASSUME LoggerInv, NEW p \in Producers, Producer(p) PROVE LoggerInv'
  <1> USE LinesAssumption
      DEF LoggerInv, TypeOK, Ranked, Locking, Lifecycle, Queueing, drainVars, producerVars
  <1>1. CASE EnqueueDropped(p)
    BY <1>1 DEF EnqueueDropped
  <1>2. CASE Enqueue(p)
    BY <1>2 DEF Enqueue
  <1>3. CASE Push(p)
    <2>1. <<p, logged[p]>> \in Lines
      BY <1>3, LineIsLine DEF Push
    <2>2. logQueue' \in Seq(Lines) /\ pushed' \in Seq(Lines)
      BY <1>3, <2>1, AppendProperties DEF Push
    <2>3. TypeOK'
      BY <1>3, <2>2 DEF Push
    <2>4. dpc \notin {"unborn", "block", "exited"} /\ dpc' = dpc
      BY <1>3 DEF Push
    <2>5. Ranked' /\ Locking' /\ Lifecycle'
      BY <1>3 DEF Push
    <2> QED
      BY <1>3, <2>3, <2>4, <2>5 DEF Push
  <1>4. CASE NotifyOne(p)
    BY <1>4 DEF NotifyOne, Notified
  <1> QED
    BY <1>1, <1>2, <1>3, <1>4 DEF Producer

\* LoggerInv is preserved by drainLoop().
LEMMA LoggerInvDrain ==
    ASSUME LoggerInv, Drain \/ DrainSpuriousWakeup PROVE LoggerInv'
  <1> USE DEF LoggerInv, TypeOK, Ranked, Locking, Lifecycle, Queueing, drainVars, producerVars
  <1>1. CASE DrainLock
    BY <1>1 DEF DrainLock
  <1>2. CASE DrainPredicateFalse
    BY <1>2 DEF DrainPredicateFalse
  <1>3. CASE DrainBlock
    BY <1>3 DEF DrainBlock
  <1>4. CASE DrainReturn
    BY <1>4 DEF DrainReturn
  <1>5. CASE DrainPop
    <2>1. Head(logQueue) \in Lines /\ Tail(logQueue) \in Seq(Lines)
      BY <1>5, HeadTailProperties DEF DrainPop
    <2> QED
      BY <1>5, <2>1 DEF DrainPop
  <1>6. CASE DrainWrite
    <2>1. file \o logLine \in Seq(Lines)
      BY ConcatProperties
    <2> QED
      BY <1>6, <2>1 DEF DrainWrite
  <1>7. CASE DrainSpuriousWakeup
    BY <1>7 DEF DrainSpuriousWakeup
  <1> QED
    BY <1>1, <1>2, <1>3, <1>4, <1>5, <1>6, <1>7 DEF Drain

\* LoggerInv is preserved by every step.
LEMMA LoggerInvNext == LoggerInv /\ [Next]_vars => LoggerInv'
  <1> SUFFICES ASSUME LoggerInv, [Next]_vars PROVE LoggerInv'
    OBVIOUS
  <1>1. CASE UNCHANGED vars
    BY <1>1 DEF vars, drainVars, producerVars, LoggerInv, TypeOK, Ranked, Locking, Lifecycle,
                Queueing
  <1> QED
    BY <1>1, LoggerInvMain, LoggerInvProducer, LoggerInvDrain DEF Next

\* LoggerInv is an invariant.
LEMMA LoggerInvAlways == Spec => []LoggerInv
  BY LoggerInvInit, LoggerInvNext, PTL DEF Spec

\* TypeOK is an invariant of the logger, for any number of threads and lines.
THEOREM LoggerTypeCorrect == Spec => []TypeOK
  BY LoggerInvAlways, PTL DEF LoggerInv

-----------------------------------------------------------------------------
(* No line is lost *)

\* Appending to the last of three sequences appends to their concatenation.
LEMMA AppendToThird ==
    ASSUME NEW S, NEW s \in Seq(S), NEW t \in Seq(S), NEW u \in Seq(S), NEW e \in S
    PROVE s \o t \o Append(u, e) = Append(s \o t \o u, e)
  <1>1. s \o t \in Seq(S) /\ (s \o t) \o u \in Seq(S)
    BY ConcatProperties
  <1>2. Append(u, e) = u \o <<e>> /\ Append((s \o t) \o u, e) = ((s \o t) \o u) \o <<e>>
    BY <1>1, AppendIsConcat
  <1>3. <<e>> \in Seq(S)
    OBVIOUS
  <1> QED
    BY <1>1, <1>2, <1>3, ConcatAssociative

\* A sequence is its head followed by its tail.
LEMMA HeadThenTail ==
    ASSUME NEW S, NEW s \in Seq(S), s # <<>> PROVE <<Head(s)>> \o Tail(s) = s
  <1>1. Head(s) \in S /\ Tail(s) \in Seq(S) /\ Len(Tail(s)) = Len(s) - 1
    BY HeadTailProperties
  <1>2. <<Head(s)>> \in Seq(S) /\ Len(<<Head(s)>>) = 1
    BY <1>1
  <1>3. Len(<<Head(s)>> \o Tail(s)) = Len(s) /\ <<Head(s)>> \o Tail(s) \in Seq(S)
    BY <1>1, <1>2, ConcatProperties
  <1>4. ASSUME NEW i \in 1..Len(s) PROVE (<<Head(s)>> \o Tail(s))[i] = s[i]
    BY <1>1, <1>2, ConcatProperties, HeadTailProperties
  <1> QED
    BY <1>3, <1>4, SeqEqual

\* NothingLost is preserved: a push appends at the end, a pop and a write move the
\* first line that is not in the file towards it.
LEMMA NothingLostNext == ASSUME LoggerInv, NothingLost, [Next]_vars PROVE NothingLost'
  <1>0. /\ file \in Seq(Lines) /\ logLine \in Seq(Lines) /\ logQueue \in Seq(Lines)
        /\ Ranked /\ Queueing
    BY DEF LoggerInv, TypeOK
  <1>1. ASSUME NEW p \in Producers, Push(p) PROVE NothingLost'
    <2> DEFINE line == <<p, logged[p]>>
    <2>1. line \in Lines
      BY <1>0, <1>1, LineIsLine DEF Push
    <2> HIDE DEF line
    <2>2. file \o logLine \o Append(logQueue, line) = Append(file \o logLine \o logQueue, line)
      BY <1>0, <2>1, AppendToThird
    <2> USE DEF line
    <2> QED
      BY <1>1, <2>2 DEF Push, drainVars, NothingLost
  <1>2. CASE DrainPop
    <2>1. /\ logLine = <<>> /\ file \o <<>> = file
          /\ logLine' \in Seq(Lines) /\ logQueue' \in Seq(Lines)
      BY <1>0, <1>2, ConcatEmptySeq, HeadTailProperties DEF DrainPop, Queueing
    <2>2. logLine' \o logQueue' = logQueue
      BY <1>0, <1>2, HeadThenTail DEF DrainPop
    <2>3. file \o logQueue = pushed
      BY <2>1 DEF NothingLost
    <2>4. (file \o logLine') \o logQueue' = file \o (logLine' \o logQueue')
      BY <1>0, <2>1, ConcatAssociative, SMTT(30)
    <2>5. (file \o logLine') \o logQueue' = pushed
      BY <2>2, <2>3, <2>4
    <2> QED
      BY <1>2, <2>5 DEF DrainPop, NothingLost
  <1>3. CASE DrainWrite
    <2>1. (file \o logLine) \o <<>> = file \o logLine
      BY <1>0, ConcatProperties, ConcatEmptySeq
    <2> QED
      BY <1>3, <2>1 DEF DrainWrite, NothingLost
  <1>4. CASE UNCHANGED <<file, logLine, logQueue, pushed>>
    BY <1>4 DEF NothingLost
  <1>5. CASE Main
    BY <1>4, <1>5 DEF Main, Construct, ConstructFailed, Destruct, DestructNotify,
                      DestructJoin, drainVars
  <1>6. ASSUME NEW p \in Producers, Producer(p) PROVE NothingLost'
    BY <1>1, <1>4, <1>6 DEF Producer, EnqueueDropped, Enqueue, NotifyOne, drainVars
  <1>7. CASE Drain \/ DrainSpuriousWakeup
    BY <1>2, <1>3, <1>4, <1>7 DEF Drain, DrainLock, DrainPredicateFalse, DrainBlock,
                                  DrainReturn, DrainSpuriousWakeup
  <1>8. CASE UNCHANGED vars
    BY <1>4, <1>8 DEF vars, drainVars
  <1> QED
    BY <1>5, <1>6, <1>7, <1>8 DEF Next

\* With the destructor returned, nothing is in flight or queued.
LEMMA FlushedAtEnd == LoggerInv /\ NothingLost => FlushedAtClose
  <1> SUFFICES ASSUME LoggerInv, NothingLost, mpc = "destroyed" PROVE file = pushed
    BY DEF FlushedAtClose
  <1>1. logLine = <<>> /\ logQueue = <<>>
    BY DEF LoggerInv, Lifecycle, Queueing
  <1>2. file \o <<>> = file /\ file \o <<>> \o <<>> = file
    BY ConcatEmptySeq DEF LoggerInv, TypeOK
  <1> QED
    BY <1>1, <1>2 DEF NothingLost

\* LogComplete is an invariant: for any number of threads and lines the file, the line in
\* flight and the queue hold the lines pushed in their order, and the file alone holds
\* them when the destructor has returned.
THEOREM LogAlwaysComplete == Spec => []LogComplete
  <1>1. Init => NothingLost
    <2>1. <<>> \o <<>> = <<>> /\ <<>> \o <<>> \o <<>> = <<>>
      BY EmptySeq, ConcatEmptySeq
    <2> QED
      BY <2>1 DEF Init, NothingLost
  <1>2. LoggerInv /\ NothingLost /\ [Next]_vars => NothingLost'
    BY NothingLostNext
  <1>3. LoggerInv /\ NothingLost => LogComplete
    BY FlushedAtEnd DEF LogComplete
  <1> QED
    BY <1>1, <1>2, <1>3, LoggerInvAlways, PTL DEF Spec

-----------------------------------------------------------------------------
(* No lost wakeup *)

\* NoSleepOverWork is preserved by every step.
LEMMA AwakeNext == ASSUME LoggerInv, NoSleepOverWork, [Next]_vars PROVE NoSleepOverWork'
  <1> USE DEF LoggerInv, TypeOK, Locking, Lifecycle, Queueing, NoSleepOverWork, drainVars,
              producerVars
  <1>1. CASE Main
    BY <1>1 DEF Main, Construct, ConstructFailed, Destruct, DestructNotify, DestructJoin,
                Notified
  <1>2. ASSUME NEW p \in Producers, Producer(p) PROVE NoSleepOverWork'
    BY <1>2 DEF Producer, EnqueueDropped, Enqueue, Push, NotifyOne, Notified
  <1>3. CASE Drain \/ DrainSpuriousWakeup
    BY <1>3 DEF Drain, DrainLock, DrainPredicateFalse, DrainBlock, DrainReturn, DrainPop,
                DrainWrite, DrainSpuriousWakeup
  <1>4. CASE UNCHANGED vars
    BY <1>4 DEF vars
  <1> QED
    BY <1>1, <1>2, <1>3, <1>4 DEF Next

\* NoSleepOverWork is an invariant: the wakeup of the drain thread is never lost, neither
\* for a line nor for the stop.
THEOREM DrainNeverOversleeps == Spec => []NoSleepOverWork
  <1>1. Init => NoSleepOverWork
    BY DEF Init, NoSleepOverWork
  <1>2. LoggerInv /\ NoSleepOverWork /\ [Next]_vars => NoSleepOverWork'
    BY AwakeNext
  <1> QED
    BY <1>1, <1>2, LoggerInvAlways, PTL DEF Spec

=============================================================================
