SPECIFICATION Spec
CONSTANTS
  d1 = d1  d2 = d2  n1 = n1  n2 = n2  t1 = t1  t2 = t2
  Deal <- MCDeals
  Create <- MCCreates
  Thread <- MCThreads
  Nothing = Nothing
  MaxRestarts = 0
SYMMETRY Symm
CHECK_DEADLOCK FALSE
INVARIANT FiresOnce
