------------------------- MODULE MainLoopInvariants -------------------------
(***************************************************************************)
(* The inductive invariant behind the safety properties of MainLoop, and   *)
(* the assumptions on the constants it needs.                              *)
(***************************************************************************)
EXTENDS MainLoop

\* A port's requests, for its sensors, a commit and one per segment, are fewer
\* than its queue has slots.
FewSegments == \A p \in Ports : Cardinality(SegmentsOf(p)) + 2 < QueueMax

\* No more panels answer than a pair has ports: with three, a response may still
\* wait when its port polls the sensors again.
FewAnswer == Cardinality(Answering) <= 2

\* There is room for the responses of a pair.
RoomForAPair == ResponseMax > 1

RequestsOf(p) == {r \in LoopRequests : r.port = p}

NoRepetition(s) == \A i, j \in 1..Len(s) : s[i] = s[j] => i = j

\* Within a stage the loop is at a port, at a half of a copy, or nowhere.
PlaceInv ==
  /\ stage = "copy" <=> copying # "None"
  /\ stage = "copy" => at <= 2
  /\ stage \notin {"begin", "bus", "commit", "sensors", "copy"} => at = 1

\* What a port runs is its own and does not wait for it as well; nothing waits
\* for a free port, or for one that is not connected, and nothing waits twice.
BusOf(p) ==
  /\ p \notin turn => phase[p] = "Idle"
  /\ p \notin Connected => phase[p] = "Idle" /\ queue[p] = <<>>
  /\ phase[p] # "Idle" => current[p] \in RequestsOf(p)
  /\ queue[p] \in Seq(RequestsOf(p)) /\ NoRepetition(queue[p])
  /\ current[p] \notin Queued(p)
  /\ Free(p) => queue[p] = <<>>

BusInv == \A p \in Ports : BusOf(p)

\* A new reading of the panel comes, or may come, into sensor_buffer.
Refilling(p) == phase[p] = "Busy" /\ current[p] = Sensors(p)

Waiting == {responses[i] : i \in 1..Len(responses)}

\* The responses of the pair that has the turn: each port is done with its
\* request for sensors.
Fresh ==
  \A p \in Waiting : p \in turn /\ phase[p] = "Done" /\ current[p] = Sensors(p)

\* Responses of the pair that had the turn before: the ports ran nothing since,
\* and no panel of the pair that has it answers.
LeftBehind ==
  /\ \A p \in Waiting : p \notin turn /\ current[p] = Sensors(p)
  /\ turn \cap Answering = {}

\* What remains of a pair's responses when the loop has taken one.
LeftOver == Len(responses) <= 1 /\ (responses # <<>> => LeftBehind)

\* Responses are those of one pair, and two of them only from the bus to the
\* taking of the first; the ports of those that wait do not poll again.
ResponseInv ==
  /\ NoRepetition(responses)
  /\ Waiting \subseteq Answering
  /\ stage \in {"bus", "switch"} => Fresh \/ LeftOver
  /\ stage = "take" =>
       /\ Len(responses) <= 2
       /\ Len(responses) = 2 => LeftBehind
       /\ \A p \in Waiting : ~Refilling(p)
  /\ stage \notin {"bus", "switch", "take"} => LeftOver

\* Nothing of a transfer with a silent panel is ever over.
SilentInv == \A p \in Silent : moved[p] = 0

IsWhole(x) == x[1] = x[2]

\* A reading that is to be copied is whole, and remains so.
BufferInv ==
  /\ \A p \in Waiting : IsWhole(sensorBuffer[p])
  /\ stage = "copy" => IsWhole(sensorBuffer[copying]) /\ ~Refilling(copying)
  /\ \A p \in Ports : Refilling(p) =>
       /\ moved[p] = 1 => sensorBuffer[p][1] = reading[p]
       /\ moved[p] = 2 => IsWhole(sensorBuffer[p])

\* So is what the host gets of each panel, but for the one being copied.
ReportInv ==
  /\ \A p \in Ports : \/ IsWhole(usbSensors[p])
                      \/ stage = "copy" /\ at = 2 /\ copying = p
  /\ stage = "copy" /\ at = 2 => usbSensors[copying][1] = sensorBuffer[copying][1]

\* The invariant behind NeverStops ...
QueueInv == TypeOK /\ BusInv /\ ~stopped

\* ... and the one behind ReadingsAreWhole and ResponsesAreKept.
LoopInv ==
  /\ TypeOK /\ BusInv /\ PlaceInv /\ SilentInv
  /\ ResponseInv /\ BufferInv /\ ReportInv
=============================================================================
