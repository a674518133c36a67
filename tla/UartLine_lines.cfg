CONSTANTS
  Lines <- InTimeOrShared
  Lengths = {1, 2, 4}
  WireMax = 6
  None = None
SPECIFICATION Spec
INVARIANTS SilentTurnsHearTheAnswer AnswerCompletes
