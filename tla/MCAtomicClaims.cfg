SPECIFICATION Spec
CONSTANTS
  c1 = c1  c2 = c2  c3 = c3
  k1 = k1  k2 = k2
  a1 = a1  a2 = a2  a3 = a3
  Contract <- MCContract
  Key <- MCKey
  Attempt <- MCAttempt
  None = None
SYMMETRY Symm
CHECK_DEADLOCK FALSE
INVARIANTS
  TypeOK
  DispatchedOnce
  OneOwnerPerKey
  RetryOnlyAfterFailure
  OneWritePerKey
  ClaimProofIsExact
  ConflictStaysVisible
  LineageComplete
PROPERTIES
  ClaimLifecycle
  ImplementsOwnership
