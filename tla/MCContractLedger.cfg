SPECIFICATION Spec
CONSTANTS
  c1 = c1  c2 = c2
  e1 = e1  e2 = e2  e3 = e3
  Contract <- MCTwoContracts
  Event <- MCTwoEvents
  None = None
  Kinds <- MCAllKinds
  Persistent = TRUE
  Claims = TRUE
  Faults <- MCAllFaults
SYMMETRY Symm
CHECK_DEADLOCK FALSE
INVARIANTS
  TypeOK
  SuccessWasRun
