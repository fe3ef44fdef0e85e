------------------------------ MODULE MCLogger ------------------------------
(* An instance of Logger for TLC. *)
EXTENDS Logger

CONSTANTS p1, p2

TwoProducers == {p1, p2}

=============================================================================
