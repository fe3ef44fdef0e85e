------------------------- MODULE ConnectionHandler -------------------------
(***************************************************************************)
(* One connection as seen by ConnectionHandler (src/connection_handler.cpp)*)
(* and by the loop that calls it: recv until the socket is drained, parse  *)
(* every complete request, append the responses, flush, and tell the loop  *)
(* to wait for reading, for writing, or to close.                          *)
(*                                                                         *)
(* Bytes are counted in units: every request is RequestUnits long, every   *)
(* response ResponseUnits.  The client pipelines the requests of a script; *)
(* a request asks to keep the connection ("keep"), to close it after the   *)
(* response ("last"), or is malformed ("bad").                             *)
(***************************************************************************)
EXTENDS Naturals, Sequences, FiniteSetsExt

CONSTANTS
    Scripts,         \* what a client may send: a set of sequences of request kinds
    RequestUnits, ResponseUnits,
    SndBuf,          \* capacity of the socket's send buffer, in units
    IdleTimeout,     \* config.idleTimeoutSeconds, in ticks
    TimePasses,      \* whether time is modelled
    MayFin,          \* the client may shut its sending side down
    MayReset         \* the client may reset the connection

RequestKinds == {"keep", "last", "bad"}

ASSUME ScriptsAssumption == Scripts \subseteq Seq(RequestKinds)
ASSUME UnitsAssumption == {RequestUnits, ResponseUnits, SndBuf} \subseteq Nat \ {0}
ASSUME TimeoutAssumption == IdleTimeout \in Nat
ASSUME FlagsAssumption == {TimePasses, MayFin, MayReset} \subseteq BOOLEAN

VARIABLES
    script, sent, fin,      \* the client: its requests, units sent, FIN sent
    rcvd,                   \* units recv() has returned
    dropped,                \* readBuffer.clear() has been executed
    answered,               \* requests whose response is in writeBuffer or beyond
    pending,                \* writeBuffer.size() - writeOffset
    inflight, got,          \* units in the send buffer, units read by the client
    closeAfterWrite,        \* Connection::closeAfterWrite
    sinceRead,              \* now - lastActive, capped at IdleTimeout + 1
    interest,               \* the epoll registration: in, out, or closed
    why                     \* why the connection was closed

clientVars == <<script, sent, fin>>
readVars == <<rcvd, dropped, answered>>
writeVars == <<pending, inflight, got>>
vars == <<clientVars, readVars, writeVars, closeAfterWrite, sinceRead, interest, why>>

Init ==
    /\ script \in Scripts
    /\ sent = 0 /\ fin = FALSE
    /\ rcvd = 0 /\ dropped = FALSE /\ answered = 0
    /\ pending = 0 /\ inflight = 0 /\ got = 0
    /\ closeAfterWrite = FALSE
    /\ sinceRead = 0
    /\ interest = "in"
    /\ why = "open"

-----------------------------------------------------------------------------
(* The client and the network *)

Send ==
    /\ ~fin /\ why = "open"
    /\ sent < RequestUnits * Len(script)
    /\ sent' = sent + 1
    /\ UNCHANGED <<script, fin, readVars, writeVars, closeAfterWrite, sinceRead, interest, why>>

Fin ==
    /\ MayFin
    /\ ~fin /\ why = "open"
    /\ fin' = TRUE
    /\ UNCHANGED <<script, sent, readVars, writeVars, closeAfterWrite, sinceRead, interest, why>>

ClientRead ==
    /\ inflight > 0
    /\ inflight' = inflight - 1
    /\ got' = got + 1
    /\ UNCHANGED <<clientVars, readVars, pending, closeAfterWrite, sinceRead, interest, why>>

\* A tick of the clock.
Tick ==
    /\ TimePasses
    /\ why = "open"
    /\ sinceRead' = Min({sinceRead + 1, IdleTimeout + 1})
    /\ UNCHANGED <<clientVars, readVars, writeVars, closeAfterWrite, interest, why>>

-----------------------------------------------------------------------------
(* The server *)

\* RequestParser::parse() returns Complete for request i, or Error: a malformed request
\* is refused as soon as its first unit is there.
Parsed(i, units) ==
    IF script[i] = "bad" THEN units > RequestUnits * (i - 1) ELSE units >= RequestUnits * i

\* Seeded fault: one request per readable event.
AnsweredOnce(units, eof) ==
    IF answered < Len(script) /\ Parsed(answered + 1, units) THEN answered + 1 ELSE answered

\* Seeded fault: the loop goes on after a response that closes the connection.
AnsweredPastClose(units, eof) ==
    Max({answered} \cup {i \in answered + 1..Len(script) :
                            \A j \in answered + 1..i : Parsed(j, units)})

\* The parse loop of onReadable() with `units` received: it answers request after request,
\* and stops after one that sets closeAfterWrite, which a FIN has set before the loop.
Answered(units, eof) ==
    Max({answered} \cup {i \in answered + 1..Len(script) :
                            /\ \A j \in answered + 1..i : Parsed(j, units)
                            /\ \A j \in answered + 1..i - 1 : script[j] = "keep" /\ ~eof})

\* The loop has ended with a response after which the connection closes.
Closing(upto, eof) == upto > answered /\ (eof \/ script[upto] # "keep")

\* Seeded fault: the connection is closed as soon as the last response is queued.
FlushNoDrain(toSend, closing) ==
    LET now == Min({toSend, SndBuf - inflight}) IN
        /\ inflight' = inflight + now
        /\ pending' = toSend - now
        /\ interest' = IF closing THEN "closed" ELSE IF now < toSend THEN "out" ELSE "in"
        /\ why' = IF closing THEN "served" ELSE "open"

\* Seeded fault: send() is taken to accept the whole buffer, whatever room there is.
FlushAll(toSend, closing) ==
    /\ inflight' = inflight + toSend
    /\ pending' = 0
    /\ interest' = IF closing THEN "closed" ELSE "in"
    /\ why' = IF closing THEN "served" ELSE "open"

\* flush(): send until the buffer is empty or the kernel's is full (WaitWrite); then
\* Close or WaitRead.
Flush(toSend, closing) ==
    LET now == Min({toSend, SndBuf - inflight}) IN
        /\ inflight' = inflight + now
        /\ pending' = toSend - now
        /\ interest' = IF now < toSend THEN "out" ELSE IF closing THEN "closed" ELSE "in"
        /\ why' = IF now = toSend /\ closing THEN "served" ELSE "open"

\* onReadable(): recv() drains the socket and sees the FIN behind the data.
OnReadable ==
    /\ interest = "in"
    /\ sent > rcvd \/ fin
    /\ LET upto == Answered(sent, fin) IN
        /\ rcvd' = sent
        /\ answered' = upto
        /\ dropped' = Closing(upto, fin)
        /\ closeAfterWrite' = (fin \/ Closing(upto, fin))
        /\ Flush(pending + ResponseUnits * (upto - answered), closeAfterWrite')
    /\ sinceRead' = 0
    /\ UNCHANGED <<clientVars, got>>

\* onWritable(): flush() only, lastActive stays.
OnWritable ==
    /\ interest = "out"
    /\ inflight < SndBuf
    /\ Flush(pending, closeAfterWrite)
    /\ UNCHANGED <<clientVars, readVars, got, closeAfterWrite, sinceRead>>

\* EPOLLHUP or EPOLLERR, or recv() or send() fails: the peer has reset the connection.
Reset ==
    /\ MayReset
    /\ interest # "closed"
    /\ interest' = "closed"
    /\ why' = "reset"
    /\ UNCHANGED <<clientVars, readVars, writeVars, closeAfterWrite, sinceRead>>

\* sweepIdleConnections() of either loop
Sweep ==
    /\ interest # "closed"
    /\ sinceRead > IdleTimeout
    /\ interest' = "closed"
    /\ why' = "idle"
    /\ UNCHANGED <<clientVars, readVars, writeVars, closeAfterWrite, sinceRead>>

Next == Send \/ Fin \/ ClientRead \/ Tick \/ OnReadable \/ OnWritable \/ Reset \/ Sweep

Spec == Init /\ [][Next]_vars

\* The loop handles what epoll reports; the client sends its script and reads what arrives.
Fairness ==
    /\ WF_vars(Send) /\ WF_vars(ClientRead)
    /\ WF_vars(OnReadable) /\ WF_vars(OnWritable)

FairSpec == Spec /\ Fairness

-----------------------------------------------------------------------------
(* Properties *)

\* Every variable has its type and the send buffer its capacity.
TypeOK ==
    /\ script \in Scripts /\ sent \in 0..RequestUnits * Len(script) /\ fin \in BOOLEAN
    /\ rcvd \in 0..sent /\ dropped \in BOOLEAN /\ answered \in 0..Len(script)
    /\ pending \in 0..ResponseUnits * Len(script) /\ inflight \in 0..SndBuf
    /\ got \in 0..ResponseUnits * Len(script)
    /\ closeAfterWrite \in BOOLEAN
    /\ sinceRead \in 0..IdleTimeout + 1
    /\ interest \in {"in", "out", "closed"}
    /\ why \in {"open", "served", "reset", "idle"}

\* While the loop waits for the socket to become readable, no complete request is left
\* unanswered in readBuffer: its bytes have been received, so epoll would never report
\* them again.
NothingCompleteLeftBehind ==
    interest = "in" => /\ answered = Len(script) \/ ~Parsed(answered + 1, rcvd)
                       /\ pending = 0 /\ ~closeAfterWrite

\* No request behind one that closes the connection is answered.
NothingAfterLast ==
    \A i \in 1..answered : i < answered => script[i] = "keep"

\* A connection that the server closes because it has served it has handed every byte of
\* its responses to the kernel, and nothing more.
ServedCompletely ==
    /\ why = "served" => pending = 0
    /\ got + inflight + pending = ResponseUnits * answered

\* Each request of a client that keeps the connection open and reads its responses,
\* pipelined or not and however its bytes are cut, is answered in the end, unless the
\* client half-closes or resets the connection or the idle sweep takes it.
AllAnswered ==
    \A n \in 1..Max({Len(s) : s \in Scripts}) :
        (sent >= RequestUnits * n /\ \A i \in 1..Min({n, Len(script)}) : script[i] = "keep")
            ~> (got >= ResponseUnits * n \/ fin \/ why \in {"reset", "idle"})

\* connection_handler.cpp:45, "keep parsing until the buffer holds nothing complete": when
\* the server is done with a connection, every complete request it received before one
\* that closes the connection has been answered.
PipelinedAnswered ==
    why = "served" =>
        \A n \in 1..Len(script) :
            (RequestUnits * n <= rcvd /\ \A i \in 1..n : script[i] = "keep") => answered >= n

=============================================================================
