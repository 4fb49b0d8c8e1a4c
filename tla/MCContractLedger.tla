-------------------------- MODULE MCContractLedger --------------------------
(* Model values, event kinds and symmetry for the runs of ContractLedger.   *)
EXTENDS ContractLedger, TLC

CONSTANTS c1, c2, e1, e2, e3

MCOneContract == {c1}
MCTwoContracts == {c1, c2}
MCTwoEvents == {e1, e2}
MCThreeEvents == {e1, e2, e3}

MCAllKinds == Kind \ {"fallback"}
MCResolutions == {"approve", "reject", "confirm", "cancel"}

MCNoFaults == {}
MCAllFaults == {"lookup", "reply", "claim", "restart"}
MCStores == {"lookup", "reply"}

Symm == Permutations({c1, c2}) \cup Permutations({e1, e2, e3})
=============================================================================
