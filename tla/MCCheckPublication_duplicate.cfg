SPECIFICATION Spec
CHECK_DEADLOCK FALSE
CONSTANTS
  p1 = p1
  p2 = p2
  Publishers <- TwoPublishers
  MaxLate = 0
  MaxVersion = 1
  MaxStarts = 2
INVARIANT AtMostOneCheck
