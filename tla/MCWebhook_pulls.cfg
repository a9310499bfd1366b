SPECIFICATION Spec
CHECK_DEADLOCK FALSE
CONSTANTS
  p1 = p1
  p2 = p2
  i1 = i1
  i2 = i2
  pr1 = pr1
  pr2 = pr2
  s1 = s1
  s2 = s2
  s3 = s3
  w1 = w1
  o1 = o1
  c1 = c1
  c2 = c2
  None = None
  Processes <- TwoProcesses
  Deliveries <- PullRequests
  Event <- PullRequestEvents
  Changes <- OneChange
  Matching <- OneChange
  MaxReceived = 4
  MaxCalls = 3
  MaxTime = 1
SYMMETRY Symmetry
INVARIANTS
  ProcessedIsComplete
  KnownBeforeUsed
  ProcessingIsOwned
  ConnectedIsVerified
