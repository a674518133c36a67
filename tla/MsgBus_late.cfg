\* Panels may answer at any time, and interrupts may pile up.
CONSTANTS
  Connected = {"Left", "Up", "Right"}
  Requests <- ThreePorts
  QueueMax = 2
  ResponseMax = 1
  TimeoutTicks = 2
  AnswerTicks = 4
  IsrBurst = TRUE
SPECIFICATION Spec
INVARIANTS TypeOK QuietWhenUnselected SendNeverLost SendNeverUnexpected
PROPERTY ImplementsAnsweredBus
