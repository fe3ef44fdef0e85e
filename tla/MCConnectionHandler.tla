------------------------ MODULE MCConnectionHandler ------------------------
(* Instances of ConnectionHandler for TLC. *)
EXTENDS ConnectionHandler

CONSTANT MaxRequests   \* bound on the requests of a script

\* Every sequence of at most MaxRequests requests.
AllScripts == UNION {[1..n -> {"keep", "last", "bad"}] : n \in 1..MaxRequests}

\* Clients that keep the connection open.
KeepScripts == {[i \in 1..n |-> "keep"] : n \in 1..MaxRequests}

=============================================================================
