\* Two panels of one pair that answer, a silent one of the other pair.
CONSTANTS
  Connected = {"Left", "Up", "Right"}
  Requests <- LoopRequests
  Blank <- NoRequest
  QueueMax = 5
  ResponseMax = 2
  Packets <- TwoOfLeftOneOfUp
  Frames = 2
  Silent = {"Right"}
  AnswerPasses = 1
  TimeoutPasses = 2
  PacketPasses = 21
SPECIFICATION FairSpec
INVARIANTS TypeOK NeverStops ReadingsAreWhole FramesAreWhole
PROPERTIES ResponsesAreKept SensorsStayFresh FrameIsShown
PROPERTIES PacketsFindPortsSettled FrameIsShownInTime
