----------------------------- MODULE MCPoolLoop -----------------------------
(* Instances of PoolLoop for TLC. *)
EXTENDS PoolLoop, TLC

CONSTANTS f1, f2, c1, c2, c3, w1, w2

TwoFds == {f1, f2}
OneFd == {f1}
TwoConns == {c1, c2}
ThreeConns == {c1, c2, c3}
TwoWorkers == {w1, w2}
OneWorker == {w1}

\* Descriptors, clients and workers are interchangeable: no action or invariant
\* tells two of them apart.
PoolSymmetry == Permutations(Fds) \cup Permutations(Conns) \cup Permutations(Workers)

=============================================================================
