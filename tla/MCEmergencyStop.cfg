SPECIFICATION Spec
CONSTANTS
  a = a  b = b
  stop1 = stop1  clear1 = clear1  cost1 = cost1
  x = x  y = y
  Process <- MCProcess
  Serving <- MCServing
  Spending <- MCSpending
  Stopper <- MCStopper
  Clearer <- MCClearer
  Watch <- MCWatch
  Row <- MCRow
  Nobody = Nobody
  MaxFaults = 1
CHECK_DEADLOCK FALSE
INVARIANTS
  TypeOK
  StopHolds
  StopIsSeen
PROPERTIES
  ClearIsInformed
  WatchdogStops
