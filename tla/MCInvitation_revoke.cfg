SPECIFICATION Spec
CHECK_DEADLOCK FALSE
CONSTANTS
  i1 = i1
  i2 = i2
  w1 = w1
  r1 = r1
  r2 = r2
  s1 = s1
  s2 = s2
  Invitations <- OneInvitation
  Workers <- OneWorker
  Requests <- TwoRequests
  Secrets <- TwoSecrets
  NoInvitation = NoInvitation
  Random = Random
  MaxStarts = 0
PROPERTY RevokedNeverJoins
