\* Every kind of request on one line, with panels that answer in time or not at all.
CONSTANTS
  Connected = {"Left", "Right"}
  Requests <- EveryKind
  QueueMax = 5
  ResponseMax = 1
  TimeoutTicks = 2
  AnswerTicks = 1
  IsrBurst = FALSE
SPECIFICATION Spec
INVARIANTS AnswerFindsReceiver NoPanic
PROPERTY RequestStable
