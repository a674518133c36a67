\* The main loop goes on for ever.
CONSTANTS
  Connected = {"Left", "Right"}
  Requests <- LeftAndRight
  QueueMax = 3
  ResponseMax = 1
  TimeoutTicks = 2
  AnswerTicks = 1
  IsrBurst = FALSE
SPECIFICATION FairSpec
PROPERTIES EveryPortGetsItsTurn QueuedIsSent
