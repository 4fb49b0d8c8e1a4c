SPECIFICATION FairSpec
CONSTANTS
  c1 = c1  c2 = c2
  o1 = o1  o2 = o2  o3 = o3
  Contract <- MCContract
  Operation <- MCTwoOperations
  None = None
  Kinds <- MCAllKinds
  Resolver = TRUE
  Faults = FALSE

CHECK_DEADLOCK FALSE
PROPERTIES
  OwnershipIsTemporary
  EveryEventIsAnswered
