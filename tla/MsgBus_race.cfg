\* A panel answers as the main thread times it out.
CONSTANTS
  Connected = {"Left", "Right"}
  Requests <- LeftAndRight
  QueueMax = 3
  ResponseMax = 1
  TimeoutTicks = 2
  AnswerTicks = 2
  IsrBurst = FALSE
SPECIFICATION Spec
INVARIANT ReceiveNeverUnexpected
