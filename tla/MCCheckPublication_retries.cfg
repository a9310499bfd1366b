SPECIFICATION Spec
CHECK_DEADLOCK FALSE
CONSTANTS
  p1 = p1
  p2 = p2
  Publishers <- TwoPublishers
  MaxLate = 1
  MaxVersion = 2
  MaxStarts = 4
INVARIANTS
  ChecksAreAccountedFor
PROPERTIES
  LonePublicationSettles
