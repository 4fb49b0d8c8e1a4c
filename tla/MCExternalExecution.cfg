SPECIFICATION Spec
CONSTANTS
  c1 = c1  c2 = c2
  s1 = s1  s2 = s2  s3 = s3
  p1 = p1  p2 = p2
  r1 = r1  r2 = r2
  Job <- MCTwoJobs
  Submission <- MCTwoSubmissions
  Poller <- MCPollers
  Run <- MCRuns
  Nobody = Nobody
  Modes <- MCModes
  MaxActive = 1
  MaxPerDay = 2
  MaxFaults = 1
CHECK_DEADLOCK FALSE
INVARIANTS
  TypeOK
  StartedOnce
  LeaseHeld
  CompletedHasArtifact
PROPERTIES
  ResultIsFinal
  JobsSettle
