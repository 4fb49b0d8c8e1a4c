-------------------------- MODULE MCNestedCompletion --------------------------
(* Model values, limits and symmetry for the runs of NestedCompletion.      *)
EXTENDS NestedCompletion, TLC

CONSTANTS d1, d2, n1, n2, t1, t2

MCDeals == {d1, d2}
MCCreates == {n1, n2}
MCThreads == {t1, t2}

Symm == Permutations(MCDeals) \cup Permutations(MCCreates)
          \cup Permutations(MCThreads)
=============================================================================
