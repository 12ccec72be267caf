------------------------------ MODULE MCDedup ------------------------------
(* Two callers race on two keys of different shards while the sweep runs.  *)
EXTENDS Dedup, TLC

CONSTANTS c1, c2, k1, k2

MCShard == (k1 :> 1) @@ (k2 :> 2)
CallerSymmetry == Permutations({c1, c2})
=============================================================================
