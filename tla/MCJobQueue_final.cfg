SPECIFICATION Spec
CONSTANTS
  j1 = j1
  j2 = j2
  w1 = w1
  w2 = w2
  a1 = a1
  a2 = a2
  MaxAttempts = 2
  ClaimLimit = 1
  MaxReplays = 0
  Jobs <- OneJob
  Workers <- TwoWorkers
  Admins <- OneAdmin
PROPERTY SucceededIsFinal
