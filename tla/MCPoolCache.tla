----------------------------- MODULE MCPoolCache -----------------------------
(* PoolCache on small instances: two clusters of different limits, one of     *)
(* which sweeps, and calls that interleave with evictions and the shutdown.   *)
EXTENDS PoolCache, TLC

CONSTANTS k1, k2

\* pool.maxDatabases of the clusters.
OneAndTwo == k1 :> 1 @@ k2 :> 2
One == k1 :> 1

Symmetry == Permutations(Callers) \cup Permutations(Databases) \cup Permutations(Entries)
=============================================================================
