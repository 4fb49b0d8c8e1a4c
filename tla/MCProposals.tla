----------------------------- MODULE MCProposals -----------------------------
(* Model values and limits for the run of Proposals.                        *)
EXTENDS Proposals, TLC

CONSTANTS c1, c2, c3, p1, p2

MCContract == {c1, c2, c3}
MCProposer == {p1, p2}

MCSources == {"agent", "task", "trusted"}
MCStarts == {"unborn", "rejected", "failed", "completed"}
MCFaults == {"lookup", "save", "restart"}

Symm == Permutations(MCContract) \cup Permutations(MCProposer)
=============================================================================
