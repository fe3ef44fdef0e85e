--------------------------- MODULE MCReactorLoop ---------------------------
(* An instance of ReactorLoop for TLC. *)
EXTENDS ReactorLoop

CONSTANTS f1, f2, c1, c2, r1, r2

TwoFds == {f1, f2}
TwoConns == {c1, c2}
TwoReactors == {r1, r2}

=============================================================================
