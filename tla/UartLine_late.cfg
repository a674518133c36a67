CONSTANTS
  Lines <- LateOnOwnUsart
  Lengths = {1, 2, 4}
  WireMax = 6
  None = None
SPECIFICATION Spec
INVARIANT AnswerIsWhole
