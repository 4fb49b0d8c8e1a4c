SPECIFICATION Spec
CONSTANTS
  c1 = c1  c2 = c2  c3 = c3
  p1 = p1  p2 = p2
  Contract <- MCContract
  Proposer <- MCProposer
  None = None
  Sources <- MCSources
  MaxTries = 2
  Started <- MCStarts
  Faults <- MCFaults
SYMMETRY Symm
CHECK_DEADLOCK FALSE
INVARIANTS
  TypeOK
  
  ClaimHasHolder
  
