SPECIFICATION PartSpec
CONSTANTS
  l1 = l1
  d1 = d1
  LoopCalls <- OneLoopCall
  DirectCalls <- OneDirectCall
  Checked <- OneLoopCall
  Texts <- AllTexts
  MaxAnswers = 2
  MaxEnds = 1
INVARIANTS
  Consistent
  ExecutedWasApproved
PROPERTIES
  VerdictStands
  NobodyWaitsForEver
CHECK_DEADLOCK FALSE
