\* Three panels that answer: a response may still wait when its port polls again.
CONSTANTS
  Connected = {"Left", "Up", "Right"}
  Requests <- LoopRequests
  Blank <- NoRequest
  QueueMax = 5
  ResponseMax = 4
  Packets <- TwoOfLeft
  Frames = 2
  Silent = {}
  AnswerPasses = 1
  TimeoutPasses = 2
  PacketPasses = 40
SPECIFICATION Spec
INVARIANT ReadingsAreWhole
