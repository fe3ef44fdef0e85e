----------------------- MODULE ConnectionHandlerProofs -----------------------
(* Proofs about ConnectionHandler, for any scripts, sizes and buffer capacity. *)
EXTENDS ConnectionHandler, NumberLemmas

-----------------------------------------------------------------------------
(* The inductive invariant *)

\* Every byte of every response is read by the client, in the kernel or in writeBuffer.
Conserved == got + inflight + pending = ResponseUnits * answered

\* What the registration says of the rest of the state.
Registered ==
    /\ why = "open" <=> interest # "closed"
    /\ why = "served" => pending = 0
    /\ interest = "in" => pending = 0 /\ ~closeAfterWrite

\* While the connection is to stay open, every request answered asked to keep it, and no
\* complete request waits in readBuffer.
CaughtUp ==
    interest # "closed" /\ ~closeAfterWrite =>
        /\ \A i \in 1..answered : script[i] = "keep"
        /\ answered = Len(script) \/ ~Parsed(answered + 1, rcvd)

HandlerInv == TypeOK /\ Conserved /\ Registered /\ CaughtUp /\ NothingAfterLast

\* The constants as the provers need them.
LEMMA Constants ==
    /\ RequestUnits \in Nat /\ RequestUnits >= 1
    /\ ResponseUnits \in Nat /\ ResponseUnits >= 1
    /\ SndBuf \in Nat /\ SndBuf >= 1
    /\ IdleTimeout \in Nat
  BY UnitsAssumption, TimeoutAssumption

\* The length of a script is a natural number, and so are the bounds on its units.
LEMMA ScriptLength ==
    ASSUME script \in Scripts
    PROVE /\ Len(script) \in Nat
          /\ RequestUnits * Len(script) \in Nat
          /\ ResponseUnits * Len(script) \in Nat
  <1>1. Len(script) \in Nat
    BY ScriptsAssumption
  <1> QED
    BY <1>1, Constants, ProductMonotone

-----------------------------------------------------------------------------
(* The parse loop and flush() *)

\* What the parse loop of onReadable() does: it answers complete requests in their order,
\* each but the last one a "keep", and it stops only where nothing complete is left or
\* the connection is to close.
LEMMA ParseLoop ==
    ASSUME TypeOK, NEW upto, upto = Answered(sent, fin)
    PROVE /\ upto \in answered..Len(script)
          /\ \A j \in answered + 1..upto - 1 : script[j] = "keep"
          /\ ~fin /\ ~Closing(upto, fin) =>
                /\ \A j \in answered + 1..upto : script[j] = "keep"
                /\ upto = Len(script) \/ ~Parsed(upto + 1, sent)
  <1> DEFINE Reach == {i \in answered + 1..Len(script) :
                          /\ \A j \in answered + 1..i : Parsed(j, sent)
                          /\ \A j \in answered + 1..i - 1 : script[j] = "keep" /\ ~fin}
             S == {answered} \cup Reach
  <1>1. answered \in Nat /\ Len(script) \in Nat /\ answered <= Len(script)
    BY ScriptLength DEF TypeOK
  <1>2. S \subseteq Nat /\ S # {} /\ \A x \in S : x <= Len(script)
    BY <1>1
  <1>3. upto = Max(S)
    BY DEF Answered
  <1> HIDE DEF S
  <1>4. upto \in S /\ \A y \in S : y <= upto
    BY <1>1, <1>2, <1>3, MaxOfBounded
  <1> USE DEF S
  <1>5. upto = answered \/ upto \in Reach
    BY <1>4
  <1>6. upto \in answered..Len(script)
    BY <1>1, <1>5
  <1>7. \A j \in answered + 1..upto - 1 : script[j] = "keep"
    BY <1>1, <1>5
  <1>8. ASSUME ~fin, ~Closing(upto, fin)
        PROVE \A j \in answered + 1..upto : script[j] = "keep"
    BY <1>1, <1>6, <1>7, <1>8 DEF Closing
  <1>9. ASSUME ~fin, ~Closing(upto, fin), upto # Len(script), Parsed(upto + 1, sent)
        PROVE FALSE
    <2>1. \A j \in answered + 1..upto : Parsed(j, sent)
      BY <1>1, <1>5
    <2>2. upto + 1 \in Reach
      BY <1>1, <1>6, <1>8, <1>9, <2>1
    <2> QED
      BY <1>1, <1>4, <1>6, <2>2
  <1> QED
    BY <1>6, <1>7, <1>8, <1>9

\* What flush() does with toSend units to send: none is lost, and the registration says
\* whether any is left.
LEMMA FlushEffect ==
    ASSUME inflight \in 0..SndBuf, NEW toSend \in Nat, NEW closing \in BOOLEAN,
           Flush(toSend, closing)
    PROVE /\ inflight' \in 0..SndBuf /\ pending' \in Nat
          /\ inflight' + pending' = inflight + toSend
          /\ interest' \in {"in", "out", "closed"} /\ why' \in {"open", "served"}
          /\ why' = "open" <=> interest' # "closed"
          /\ why' = "served" => pending' = 0
          /\ interest' = "in" => pending' = 0 /\ ~closing
  <1> DEFINE now == Min({toSend, SndBuf - inflight})
  <1>1. inflight \in Nat /\ SndBuf - inflight \in Nat /\ SndBuf \in Nat
    BY Constants
  <1>2. now = IF toSend <= SndBuf - inflight THEN toSend ELSE SndBuf - inflight
    BY <1>1, MinOfTwo
  <1>3. /\ inflight' = inflight + now
        /\ pending' = toSend - now
        /\ interest' = IF now < toSend THEN "out" ELSE IF closing THEN "closed" ELSE "in"
        /\ why' = IF now = toSend /\ closing THEN "served" ELSE "open"
    BY DEF Flush
  <1> HIDE DEF now
  <1>4. now \in Nat /\ now <= toSend /\ now <= SndBuf - inflight
    BY <1>1, <1>2
  <1> QED
    BY <1>1, <1>3, <1>4

-----------------------------------------------------------------------------
(* The invariant is inductive *)

\* HandlerInv holds initially.
LEMMA HandlerInvInit == Init => HandlerInv
  <1> SUFFICES ASSUME Init PROVE HandlerInv
    OBVIOUS
  <1>1. script \in Scripts
    BY DEF Init
  <1>2. /\ 0 \in 0..RequestUnits * Len(script) /\ 0 \in 0..ResponseUnits * Len(script)
        /\ 0 \in 0..Len(script) /\ 0 \in 0..SndBuf /\ 0 \in 0..IdleTimeout + 1
        /\ 0 \in 0..0
    BY <1>1, ScriptLength, Constants
  <1>3. TypeOK
    BY <1>2 DEF Init, TypeOK
  <1>4. Conserved
    BY Constants DEF Init, Conserved
  <1>5. ~Parsed(answered + 1, rcvd)
    <2>1. RequestUnits * (1 - 1) = 0 /\ RequestUnits * 1 = RequestUnits
      BY Constants
    <2> QED
      BY <2>1, Constants DEF Init, Parsed
  <1>6. Registered /\ CaughtUp /\ NothingAfterLast
    BY <1>5 DEF Init, Registered, CaughtUp, NothingAfterLast
  <1> QED
    BY <1>3, <1>4, <1>6 DEF HandlerInv

\* Of the responses, the client has read, and writeBuffer holds, no more than the script
\* asks for.
LEMMA PartsBounded ==
    ASSUME NEW n \in Nat, NEW a \in 0..n, NEW g \in Nat, NEW f \in Nat, NEW p \in Nat,
           g + f + p = ResponseUnits * a
    PROVE p \in 0..ResponseUnits * n /\ g \in 0..ResponseUnits * n
  <1>1. PICK total \in Nat, bound \in Nat :
            total = ResponseUnits * a /\ bound = ResponseUnits * n /\ total <= bound
    BY Constants, ProductMonotone
  <1>2. p \in 0..bound /\ g \in 0..bound
    BY <1>1
  <1> QED
    BY <1>1, <1>2

\* What moves between the send buffer and writeBuffer changes the total by what is added.
LEMMA Regroup ==
    ASSUME NEW g \in Nat, NEW f \in Nat, NEW p \in Nat, NEW ff \in Nat, NEW pp \in Nat,
           NEW d \in Int, ff + pp = f + p + d
    PROVE g + ff + pp = g + f + p + d
  OBVIOUS

\* What only moves between the send buffer and writeBuffer leaves the total alone.
LEMMA SameTotal ==
    ASSUME NEW g \in Nat, NEW f \in Nat, NEW p \in Nat, NEW ff \in Nat, NEW pp \in Nat,
           ff + pp = f + p
    PROVE g + ff + pp = g + f + p
  OBVIOUS

\* HandlerInv is preserved by the steps of the client and the clock.
LEMMA HandlerInvClient ==
    ASSUME HandlerInv, Send \/ Fin \/ ClientRead \/ Tick PROVE HandlerInv'
  <1> USE DEF HandlerInv, clientVars, readVars, writeVars
  <1>1. /\ Len(script) \in Nat /\ RequestUnits * Len(script) \in Nat
        /\ ResponseUnits * Len(script) \in Nat
    BY ScriptLength DEF TypeOK
  <1>2. CASE Send
    <2>1. TypeOK'
      BY <1>1, <1>2 DEF Send, TypeOK
    <2> QED
      BY <1>2, <2>1 DEF Send, Conserved, Registered, CaughtUp, Parsed, NothingAfterLast
  <1>3. CASE Fin
    <2>1. TypeOK'
      BY <1>3 DEF Fin, TypeOK
    <2> QED
      BY <1>3, <2>1 DEF Fin, Conserved, Registered, CaughtUp, Parsed, NothingAfterLast
  <1>4. CASE ClientRead
    <2>1. /\ script' = script /\ answered' = answered /\ pending' = pending
          /\ inflight' \in 0..SndBuf /\ got' \in Nat
      BY <1>4, Constants DEF ClientRead, TypeOK
    <2>2. Conserved'
      BY <1>1, <1>4, Constants DEF ClientRead, Conserved, TypeOK
    <2>3. got' \in 0..ResponseUnits * Len(script)
      <3>1. got' + inflight' + pending' = ResponseUnits * answered
        BY <2>1, <2>2 DEF Conserved
      <3>2. inflight' \in Nat /\ pending' \in Nat /\ answered \in 0..Len(script)
        BY <1>1, <2>1, Constants DEF TypeOK
      <3> QED
        BY <1>1, <2>1, <3>1, <3>2, PartsBounded
    <2>4. TypeOK'
      BY <1>4, <2>1, <2>3 DEF ClientRead, TypeOK
    <2> QED
      BY <1>4, <2>2, <2>4 DEF ClientRead, Registered, CaughtUp, Parsed, NothingAfterLast
  <1>5. CASE Tick
    <2>1. sinceRead' \in 0..IdleTimeout + 1
      BY <1>5, Constants, MinOfTwo DEF Tick, TypeOK
    <2>2. TypeOK'
      BY <1>5, <2>1 DEF Tick, TypeOK
    <2> QED
      BY <1>5, <2>2 DEF Tick, Conserved, Registered, CaughtUp, Parsed, NothingAfterLast
  <1> QED
    BY <1>2, <1>3, <1>4, <1>5

\* HandlerInv is preserved by onReadable().
LEMMA HandlerInvReadable == ASSUME HandlerInv, OnReadable PROVE HandlerInv'
  <1> USE DEF HandlerInv
  <1>1. PICK upto : upto = Answered(sent, fin)
    OBVIOUS
  <1> DEFINE closing == Closing(upto, fin)
             toSend == pending + ResponseUnits * (upto - answered)
  <1>2. /\ rcvd' = sent /\ answered' = upto /\ dropped' = closing
        /\ closeAfterWrite' = (fin \/ closing)
        /\ Flush(toSend, closeAfterWrite')
        /\ sinceRead' = 0 /\ script' = script /\ sent' = sent /\ fin' = fin /\ got' = got
    BY <1>1 DEF OnReadable, clientVars
  <1>3. /\ script \in Scripts /\ Len(script) \in Nat /\ answered \in Nat
        /\ sent \in Nat /\ got \in Nat /\ inflight \in 0..SndBuf /\ fin \in BOOLEAN
        /\ interest = "in" /\ pending = 0 /\ ~closeAfterWrite
    BY ScriptLength DEF TypeOK, OnReadable, Registered
  <1>4. closing \in BOOLEAN /\ closeAfterWrite' \in BOOLEAN
    BY <1>2, <1>3 DEF Closing
  <1>5. /\ upto \in answered..Len(script)
        /\ \A j \in answered + 1..upto - 1 : script[j] = "keep"
        /\ ~fin /\ ~closing =>
                /\ \A j \in answered + 1..upto : script[j] = "keep"
                /\ upto = Len(script) \/ ~Parsed(upto + 1, sent)
    BY <1>1, ParseLoop
  <1>6. upto \in Nat /\ upto <= Len(script) /\ answered <= upto
    BY <1>3, <1>5
  <1> HIDE DEF closing
  <1>7. /\ toSend \in Nat /\ ResponseUnits * upto \in Nat /\ ResponseUnits * answered \in Nat
        /\ toSend = pending + ResponseUnits * upto - ResponseUnits * answered
    <2>1. ResponseUnits * (upto - answered) = ResponseUnits * upto - ResponseUnits * answered
      BY <1>3, <1>6, Constants, ProductOfDifference
    <2>2. ResponseUnits * (upto - answered) \in Nat
      BY <1>3, <1>6, Constants, ProductMonotone
    <2>3. ResponseUnits * upto \in Nat /\ ResponseUnits * answered \in Nat
      BY <1>3, <1>6, Constants, ProductMonotone
    <2> QED
      BY <1>3, <2>1, <2>2, <2>3
  <1> HIDE DEF toSend
  <1>8. /\ inflight' \in 0..SndBuf /\ pending' \in Nat
        /\ inflight' + pending' = inflight + toSend
        /\ interest' \in {"in", "out", "closed"} /\ why' \in {"open", "served"}
        /\ why' = "open" <=> interest' # "closed"
        /\ why' = "served" => pending' = 0
        /\ interest' = "in" => pending' = 0 /\ ~closeAfterWrite'
    BY <1>2, <1>3, <1>4, <1>7, FlushEffect
  <1>9. got' + inflight' + pending' = ResponseUnits * upto
    <2>1. PICK before \in Nat, after \in Nat :
              before = ResponseUnits * answered /\ after = ResponseUnits * upto
      BY <1>7
    <2>2. got + inflight + pending = before
      BY <2>1 DEF Conserved
    <2>3. inflight \in Nat /\ inflight' \in Nat
      BY <1>3, <1>8, Constants
    <2>4. pending \in Nat /\ pending' \in Nat /\ got \in Nat /\ got' = got
      BY <1>2, <1>3, <1>8
    <2>5. inflight' + pending' = inflight + pending + (after - before)
      BY <1>3, <1>7, <1>8, <2>1, <2>3
    <2>6. got + inflight' + pending' = got + inflight + pending + (after - before)
      BY <2>1, <2>3, <2>4, <2>5, Regroup
    <2>7. got' + inflight' + pending' = after
      BY <2>1, <2>2, <2>4, <2>6
    <2> QED
      BY <2>1, <2>7
  <1>10. pending' \in 0..ResponseUnits * Len(script) /\ got' \in 0..ResponseUnits * Len(script)
    <2>1. inflight' \in Nat /\ upto \in 0..Len(script) /\ got' \in Nat /\ pending' \in Nat
      BY <1>2, <1>3, <1>6, <1>8, Constants
    <2> QED
      BY <1>3, <1>9, <2>1, PartsBounded
  <1>11. TypeOK'
    BY <1>2, <1>3, <1>4, <1>6, <1>8, <1>10, Constants DEF TypeOK
  <1>12. Registered'
    BY <1>8 DEF Registered
  <1>13. \A i \in 1..answered : script[i] = "keep"
    BY <1>3 DEF CaughtUp
  <1>14. NothingAfterLast'
    BY <1>2, <1>3, <1>5, <1>6, <1>13 DEF NothingAfterLast
  <1>15. CaughtUp'
    BY <1>2, <1>3, <1>4, <1>5, <1>6, <1>13 DEF CaughtUp, Parsed
  <1>16. Conserved'
    BY <1>2, <1>9 DEF Conserved
  <1> QED
    BY <1>11, <1>12, <1>14, <1>15, <1>16

\* HandlerInv is preserved by onWritable().
LEMMA HandlerInvWritable == ASSUME HandlerInv, OnWritable PROVE HandlerInv'
  <1> USE DEF HandlerInv, clientVars, readVars
  <1>1. /\ script \in Scripts /\ Len(script) \in Nat /\ ResponseUnits * Len(script) \in Nat
        /\ pending \in Nat /\ inflight \in 0..SndBuf /\ closeAfterWrite \in BOOLEAN
    BY ScriptLength DEF TypeOK
  <1>2. /\ inflight' \in 0..SndBuf /\ pending' \in Nat
        /\ inflight' + pending' = inflight + pending
        /\ interest' \in {"in", "out", "closed"} /\ why' \in {"open", "served"}
        /\ why' = "open" <=> interest' # "closed"
        /\ why' = "served" => pending' = 0
        /\ interest' = "in" => pending' = 0 /\ ~closeAfterWrite
    BY <1>1, FlushEffect DEF OnWritable
  <1>3. got' + inflight' + pending' = ResponseUnits * answered /\ got' \in Nat
        /\ inflight' \in Nat
    <2>1. got' = got /\ got \in Nat
      BY <1>1 DEF OnWritable, TypeOK
    <2>2. inflight \in Nat /\ inflight' \in Nat
      BY <1>1, <1>2, Constants
    <2>3. pending \in Nat /\ pending' \in Nat /\ inflight' + pending' = inflight + pending
      BY <1>1, <1>2
    <2>4. PICK g \in Nat, f \in Nat, p \in Nat, ff \in Nat, pp \in Nat :
              g = got /\ f = inflight /\ p = pending /\ ff = inflight' /\ pp = pending'
      BY <2>1, <2>2, <2>3
    <2>5. ff + pp = f + p
      BY <2>3, <2>4
    <2>6. g + ff + pp = g + f + p
      BY <2>5, SameTotal
    <2> QED
      BY <2>1, <2>2, <2>4, <2>6 DEF Conserved
  <1>4. pending' \in 0..ResponseUnits * Len(script) /\ Conserved'
    <2>1. answered \in 0..Len(script) /\ answered' = answered
      BY DEF OnWritable, TypeOK
    <2> QED
      BY <1>1, <1>2, <1>3, <2>1, PartsBounded DEF Conserved
  <1>5. TypeOK'
    BY <1>1, <1>2, <1>4 DEF OnWritable, TypeOK
  <1>6. Registered'
    BY <1>2 DEF Registered, OnWritable
  <1>7. CaughtUp' /\ NothingAfterLast'
    BY <1>2 DEF OnWritable, CaughtUp, Parsed, NothingAfterLast
  <1> QED
    BY <1>4, <1>5, <1>6, <1>7

\* HandlerInv is preserved by every step.
LEMMA HandlerInvNext == HandlerInv /\ [Next]_vars => HandlerInv'
  <1> SUFFICES ASSUME HandlerInv, [Next]_vars PROVE HandlerInv'
    OBVIOUS
  <1>1. CASE Reset \/ Sweep
    BY <1>1 DEF Reset, Sweep, HandlerInv, TypeOK, Conserved, Registered, CaughtUp,
                NothingAfterLast, clientVars, readVars, writeVars
  <1>2. CASE UNCHANGED vars
    BY <1>2 DEF vars, HandlerInv, TypeOK, Conserved, Registered, CaughtUp, Parsed,
                NothingAfterLast, clientVars, readVars, writeVars
  <1> QED
    BY <1>1, <1>2, HandlerInvClient, HandlerInvReadable, HandlerInvWritable DEF Next

\* HandlerInv is an invariant.
LEMMA HandlerInvAlways == Spec => []HandlerInv
  BY HandlerInvInit, HandlerInvNext, PTL DEF Spec

-----------------------------------------------------------------------------
(* The properties *)

\* TypeOK is an invariant: in particular flush() never hands the kernel more than its
\* send buffer holds.
THEOREM HandlerTypeCorrect == Spec => []TypeOK
  BY HandlerInvAlways, PTL DEF HandlerInv

\* NothingCompleteLeftBehind is an invariant: onReadable() never goes back to waiting for
\* input with a complete request in readBuffer, whatever the client pipelines and however
\* its bytes are cut.
THEOREM NeverLeftBehind == Spec => []NothingCompleteLeftBehind
  <1>1. HandlerInv => NothingCompleteLeftBehind
    BY DEF HandlerInv, Registered, CaughtUp, NothingCompleteLeftBehind
  <1> QED
    BY <1>1, HandlerInvAlways, PTL

\* NothingAfterLast is an invariant: no request behind one that closes the connection is
\* answered, in the same onReadable() or in a later one.
THEOREM NeverAfterLast == Spec => []NothingAfterLast
  BY HandlerInvAlways, PTL DEF HandlerInv

\* ServedCompletely is an invariant: every unit of every response is delivered, in the
\* send buffer or still pending, and none is pending when the connection closes served.
THEOREM AlwaysServedCompletely == Spec => []ServedCompletely
  <1>1. HandlerInv => ServedCompletely
    BY DEF HandlerInv, Conserved, Registered, ServedCompletely
  <1> QED
    BY <1>1, HandlerInvAlways, PTL

=============================================================================
