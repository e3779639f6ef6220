---------------------------- MODULE MCCacheStore ----------------------------
(***************************************************************************)
(* Two workers of one run, or of two runs that share the store.            *)
(***************************************************************************)
EXTENDS CacheStore, TLC

CONSTANTS k1, k2, run1, run2, v, w

MCKeys == {k1, k2}
MCRuns == {run1, run2}
MCWorkers == {v, w}
MCHomes == [MCWorkers -> MCRuns]
MCLimits == {3}

Symmetry == Permutations(MCKeys) \cup Permutations(MCWorkers) \cup Permutations(MCRuns)

=============================================================================
