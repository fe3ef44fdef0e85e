----------------------------- MODULE EventLoop -----------------------------
(***************************************************************************)
(* What the interface EventLoop (include/event_loop.h) promises of both    *)
(* concurrency models, seen from the clients: run() starts and returns     *)
(* once; a client is accepted at most once and its socket closed at most   *)
(* once; no socket is opened or closed outside run().                      *)
(***************************************************************************)
CONSTANT Conns

VARIABLES
    status,   \* of each client: not accepted yet, open or closed
    phase     \* of run(): not called, running, returned

elVars == <<status, phase>>

ELInit ==
    /\ status = [c \in Conns |-> "new"]
    /\ phase = "idle"

\* run() is entered, and fails or serves.
Start ==
    /\ phase = "idle"
    /\ phase' \in {"running", "returned"}
    /\ UNCHANGED status

Open(c) ==
    /\ phase = "running"
    /\ status[c] = "new"
    /\ status' = [status EXCEPT ![c] = "open"]
    /\ UNCHANGED phase

Shut(c) ==
    /\ phase = "running"
    /\ status[c] = "open"
    /\ status' = [status EXCEPT ![c] = "closed"]
    /\ UNCHANGED phase

Return ==
    /\ phase = "running"
    /\ phase' = "returned"
    /\ UNCHANGED status

ELNext == Start \/ Return \/ \E c \in Conns : Open(c) \/ Shut(c)

ELSpec == ELInit /\ [][ELNext]_elVars

=============================================================================
