SPECIFICATION PartSpec
CONSTANTS
  l1 = l1
  d1 = d1
  LoopCalls <- OneLoopCall
  DirectCalls <- OneDirectCall
  Checked = {}
  Texts <- AllTexts
  MaxAnswers = 1
  MaxEnds = 0
INVARIANTS
  RequireApprovalAsks
CHECK_DEADLOCK FALSE
