SPECIFICATION Spec
CONSTANTS
  c1 = c1  c2 = c2
  o1 = o1  o2 = o2  o3 = o3
  Contract <- MCContract
  Operation <- MCOperation
  None = None
  Kinds <- MCAllKinds
  Resolver = FALSE
  Faults = TRUE
SYMMETRY Symm
CHECK_DEADLOCK FALSE
INVARIANTS
  TypeOK
  OwnerKeepsRow
  GuardedOnce
  TerminalMeansResolved
PROPERTY RowLifecycle
