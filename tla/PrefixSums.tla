----------------------------- MODULE PrefixSums -----------------------------
(* Sums along a sequence, as a recursive function that proofs can reason about. *)
EXTENDS Integers

\* g[1] + ... + g[n], for a function g on the natural numbers
PrefixSum(g, n) ==
    LET sum[i \in Nat] == IF i = 0 THEN 0 ELSE sum[i - 1] + g[i] IN sum[n]

=============================================================================
