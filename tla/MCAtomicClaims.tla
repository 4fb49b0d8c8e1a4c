--------------------------- MODULE MCAtomicClaims ---------------------------
(* Model values and symmetry for the runs of AtomicClaims.                  *)
EXTENDS AtomicClaimsRefinement, TLC

CONSTANTS c1, c2, c3, k1, k2, a1, a2, a3

MCContract == {c1, c2, c3}
MCKey == {k1, k2}
MCAttempt == {a1, a2, a3}

Symm == Permutations(MCContract) \cup Permutations(MCKey)
          \cup Permutations(MCAttempt)
=============================================================================
