---------------------------- MODULE MCTurnState ----------------------------
(* Model values, event kinds and symmetry for the runs of TurnState.        *)
EXTENDS TurnState, TLC

CONSTANTS c1, c2, o1, o2, o3

MCContract == {c1, c2}
MCOperation == {o1, o2, o3}
MCTwoOperations == {o1, o2}

MCAllKinds == Kind \ {"fallback"}
MCConfirms == {"confirm", "ingress"}

Symm == Permutations(MCContract) \cup Permutations(MCOperation)
=============================================================================
