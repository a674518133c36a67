------------------------------ MODULE MainLoop ------------------------------
(***************************************************************************)
(* The main loop (Src/main.c, run) on the message bus, with the panels and *)
(* the USB host: it polls the sensors of every panel, copies readings into *)
(* the report for the host, and passes frames of LED segments from the     *)
(* host's packets (Src/tusb_hid_impl.c) to the panels.                     *)
(*                                                                         *)
(* Time is counted in passes of the loop.  A panel's bytes move by DMA     *)
(* between any two steps of the loop, in two halves, so that a buffer read *)
(* or written at the same time may end up with a half of each.             *)
(***************************************************************************)
EXTENDS PanelBus, FiniteSets

CONSTANTS
  Packets,        \* the segments of a frame, [port, number], as the host sends
                  \* them; the 16 bits of COMPLETE_FRAME
  Frames,         \* how many frame numbers the header has (4 bits)
  Silent,         \* the connected panels that never answer
  AnswerPasses,   \* passes a request goes on for, at most, with a panel that
                  \* answers,
  TimeoutPasses,  \* and with one that does not
  PacketPasses    \* passes between two packets of the host, at least

VARIABLES
  stage, at,      \* where the main loop is, and at which port or half
  age,            \* per port: the passes its request has been running for
  moved,          \* per port: the halves of its transfer that are over
  reading,        \* per panel: the value of its next reading
  sensorBuffer,   \* sensor_buffer, per port, in halves
  usbSensors,     \* usb_sensor_buffer, per port, in halves
  copying,        \* the response being copied
  packet,         \* usb_buffer: the packet's index and frame
  havePacket,     \* have_packet
  since,          \* passes since the last packet came
  received,       \* segments_received
  previousFrame,  \* previous_frame
  ledBuffer,      \* led_buffer: the frame each segment's bytes are of
  staged, shown,  \* per segment, in halves: what its panel has received, and
                  \* what it shows since the last commit
  processed       \* the packet in usb_buffer has been processed before

loopVars == <<stage, at>>
transferVars == <<age, moved>>
panelVars == <<reading, sensorBuffer, staged, shown>>
ledVars == <<received, previousFrame, ledBuffer>>
usbVars == <<packet, havePacket, since, processed>>
vars == <<busVars, loopVars, transferVars, panelVars, usbSensors, copying,
          ledVars, usbVars>>

Segments == 1..Len(Packets)
NoFrame == Frames
FrameNumbers == 0..Frames-1

ASSUME PanelAssumption == Connected \subseteq Ports /\ Silent \subseteq Connected
ASSUME FrameAssumption ==
  /\ Frames \in Nat \ {0}
  /\ Packets \in Seq([port : Ports, number : Nat]) /\ Len(Packets) > 1
ASSUME PassAssumption == {AnswerPasses, TimeoutPasses, PacketPasses} \subseteq Nat
ASSUME LimitAssumption == {QueueMax, ResponseMax} \subseteq Nat \ {0}

Sensors(p) == [port |-> p, command |-> "Request_Sensors", segment |-> 0,
               response |-> TRUE]
Commit(p) == [port |-> p, command |-> "Commit_LEDs", segment |-> 0,
              response |-> FALSE]
Segment(k) == [port |-> Packets[k].port, command |-> "Process_LED_Segment",
               segment |-> k, response |-> FALSE]

LoopRequests == {Sensors(p) : p \in Ports} \cup {Commit(p) : p \in Ports}
                  \cup {Segment(k) : k \in Segments}

SegmentsOf(p) == {k \in Segments : Packets[k].port = p}

\* The order in which main.c and msgbus.c go through the ports.
Visited == <<"Left", "Down", "Up", "Right">>

Whole(x) == [half \in 1..2 |-> x]

Init ==
  /\ BusInit
  /\ stage = "begin"
  /\ at = 1
  /\ age = [p \in Ports |-> 0]
  /\ moved = [p \in Ports |-> 0]
  /\ reading = [p \in Ports |-> 1]
  /\ sensorBuffer = [p \in Ports |-> Whole(0)]
  /\ usbSensors = [p \in Ports |-> Whole(0)]
  /\ copying = "None"
  /\ packet = [index |-> Len(Packets), frame |-> Frames - 1]
  /\ havePacket = FALSE
  /\ since = 0
  /\ received = {}
  /\ previousFrame = NoFrame
  /\ ledBuffer = [k \in Segments |-> NoFrame]
  /\ staged = [k \in Segments |-> Whole(NoFrame)]
  /\ shown = [k \in Segments |-> Whole(NoFrame)]
  /\ processed = FALSE

-----------------------------------------------------------------------------
(***************************************************************************)
(* The panels and the DMA.                                                 *)
(***************************************************************************)

\* The steps of the loop that see or change what a transfer does; before the
\* others a transfer may as well have happened earlier or happen later.
Exposed == stage \in {"bus", "copy", "packet"}

\* A half of the request's bytes moves: readings into sensor_buffer, a segment
\* out of led_buffer; at the end of a commit the panel shows what it has.
Transfer(p) ==
  LET half == moved[p] + 1
      r == current[p]
  IN
  /\ Exposed
  /\ phase[p] = "Busy"
  /\ p \notin Silent
  /\ moved[p] < 2
  /\ moved' = [moved EXCEPT ![p] = half]
  /\ sensorBuffer' = IF r = Sensors(p)
                       THEN [sensorBuffer EXCEPT ![p][half] = reading[p]]
                       ELSE sensorBuffer
  /\ reading' = IF r = Sensors(p) /\ half = 2
                  THEN [reading EXCEPT ![p] = 1 - @] ELSE reading
  /\ staged' = IF r.segment # 0
                 THEN [staged EXCEPT ![r.segment][half] = ledBuffer[r.segment]]
                 ELSE staged
  /\ shown' = IF r = Commit(p) /\ half = 2
                THEN [k \in Segments |->
                        IF k \in SegmentsOf(p) THEN staged[k] ELSE shown[k]]
                ELSE shown
  /\ UNCHANGED <<busVars, loopVars, age, usbSensors, copying, ledVars, usbVars>>

-----------------------------------------------------------------------------
(***************************************************************************)
(* msgbus_send_request and msgbus_process_flags.                           *)
(***************************************************************************)

\* The transfers of the ports of S start.
StartTransfers(S) ==
  /\ age' = [p \in Ports |-> IF p \in S THEN 0 ELSE age[p]]
  /\ moved' = [p \in Ports |-> IF p \in S THEN 0 ELSE moved[p]]

Send(r) ==
  \/ Start(r) /\ StartTransfers({r.port})
  \/ Enqueue(r) /\ UNCHANGED transferVars
  \/ Ignore(r) /\ UNCHANGED transferVars
  \/ Overflow(r) /\ UNCHANGED transferVars

\* Mutant: one port too many.
NextPortLate(next) ==
  IF at <= Len(Visited) THEN at' = at + 1 /\ UNCHANGED stage
                        ELSE at' = 1 /\ stage' = next

\* Goes on with the next port in this stage, or with the next stage.
NextPort(next) ==
  IF at < Len(Visited) THEN at' = at + 1 /\ UNCHANGED stage
                       ELSE at' = 1 /\ stage' = next

\* Mutant: the acknowledgement is taken for the end of the answer.
OverByAck(p) == moved[p] > 0

Over(p) == moved[p] = 2

Answered(p) ==
  /\ Over(p)
  /\ Respond(p)
  /\ UNCHANGED transferVars

TimedOut(p) ==
  /\ p \in Silent
  /\ age[p] = TimeoutPasses
  /\ TimeOut(p)
  /\ UNCHANGED transferVars

\* How many passes the request of a port goes on for, at most.
Passes(p) == IF p \in Silent THEN TimeoutPasses ELSE AnswerPasses

\* The request goes on.  The loop does not get past a panel that is about to
\* answer within AnswerPasses.
Running(p) ==
  /\ phase[p] = "Busy"
  /\ age[p] < Passes(p)
  /\ age' = [age EXCEPT ![p] = @ + 1]
  /\ UNCHANGED <<busVars, moved>>

Resting(p) == phase[p] # "Busy" /\ UNCHANGED <<busVars, transferVars>>

\* msgbus_process_flags looks at one port.
ProcessPort ==
  /\ ~stopped
  /\ stage = "bus"
  /\ LET p == Visited[at] IN
       Answered(p) \/ TimedOut(p) \/ Running(p) \/ Resting(p)
  /\ NextPort("switch")
  /\ UNCHANGED <<panelVars, usbSensors, copying, ledVars, usbVars>>

\* switch_ports_if_done
SwitchIfDone ==
  /\ ~stopped
  /\ stage = "switch"
  /\ stage' = "take"
  /\ IF \A p \in turn : phase[p] # "Busy"
       THEN Switch /\ StartTransfers({p \in Ports : phase'[p] = "Busy"})
       ELSE UNCHANGED <<busVars, transferVars>>
  /\ UNCHANGED <<at, panelVars, usbSensors, copying, ledVars, usbVars>>

-----------------------------------------------------------------------------
(***************************************************************************)
(* The rest of a pass.                                                     *)
(***************************************************************************)

\* Mutant: > 1 for > 0 in msgbus_have_pending_response.
HaveTwoResponses == Len(responses) > 1

HaveResponse == responses # <<>>

\* One response a pass, if there is one.
TakeResponse ==
  /\ ~stopped
  /\ stage = "take"
  /\ IF HaveResponse
       THEN stage' = "copy" /\ copying' = Head(responses) /\ Take
       ELSE stage' = "report" /\ UNCHANGED <<busVars, copying>>
  /\ UNCHANGED <<at, transferVars, panelVars, usbSensors, ledVars, usbVars>>

\* Mutant: the offset into usb_sensor_buffer is forgotten.
CopiedToFirst == [usbSensors EXCEPT !["Left"][at] = sensorBuffer[copying][at]]

Copied == [usbSensors EXCEPT ![copying][at] = sensorBuffer[copying][at]]

\* process_sensor_data copies byte by byte what the response points to.
CopyHalf ==
  /\ ~stopped
  /\ stage = "copy"
  /\ usbSensors' = Copied
  /\ IF at = 1 THEN at' = 2 /\ UNCHANGED <<stage, copying>>
               ELSE at' = 1 /\ stage' = "report" /\ copying' = "None"
  /\ UNCHANGED <<busVars, transferVars, panelVars, ledVars, usbVars>>

\* Mutant: the last segment is taken for the whole frame.
CompleteWithLast == Len(Packets) \in received

Complete == received = Segments

\* send_sensor_update_usb hands usb_sensor_buffer to the host; then
\* process_led_data looks whether the frame is complete.
ReportSensors ==
  /\ ~stopped
  /\ stage = "report"
  /\ IF Complete THEN stage' = "commit" /\ received' = {}
                 ELSE stage' = "packet" /\ UNCHANGED received
  /\ UNCHANGED <<busVars, at, transferVars, panelVars, usbSensors, copying,
                 previousFrame, ledBuffer, usbVars>>

\* Mutant: a panel is forgotten.
CommitTo(p) == Send(Commit(IF p = "Up" THEN "Left" ELSE p))

SendCommit(p) == Send(Commit(p))

\* send_commit_LEDs
CommitFrame ==
  /\ ~stopped
  /\ stage = "commit"
  /\ SendCommit(Visited[at])
  /\ NextPort("packet")
  /\ UNCHANGED <<panelVars, usbSensors, copying, ledVars, usbVars>>

\* Mutant: segments of an earlier frame are counted.
ReceivedBefore == received

\* A segment of a new frame starts the count anew.
ReceivedOfFrame == IF packet.frame = previousFrame THEN received ELSE {}

\* The rest of process_led_data, which does so again in every pass, since
\* usb_get_packet never clears have_packet.
ProcessPacket ==
  /\ ~stopped
  /\ stage = "packet"
  /\ stage' = "sensors"
  /\ IF havePacket
       THEN /\ ledBuffer' = [ledBuffer EXCEPT ![packet.index] = packet.frame]
            /\ received' = ReceivedOfFrame \cup {packet.index}
            /\ previousFrame' = packet.frame
            /\ Send(Segment(packet.index))
            /\ processed' = TRUE
       ELSE UNCHANGED <<ledVars, busVars, transferVars, processed>>
  /\ UNCHANGED <<at, panelVars, usbSensors, copying, packet, havePacket, since>>

\* send_request_sensors, once before the loop and once a pass.
PollSensors ==
  /\ ~stopped
  /\ stage \in {"begin", "sensors"}
  /\ Send(Sensors(Visited[at]))
  /\ NextPort(IF stage = "begin" THEN "bus" ELSE "usb")
  /\ UNCHANGED <<panelVars, usbSensors, copying, ledVars, usbVars>>

\* The host sends the packets of a frame in order, then those of the next.
NextPacket ==
  IF packet.index < Len(Packets)
    THEN [packet EXCEPT !.index = @ + 1]
    ELSE [index |-> 1, frame |-> (packet.frame + 1) % Frames]

\* tud_task, which calls tud_hid_set_report_cb when a packet has come.
PacketComes ==
  /\ ~stopped
  /\ stage = "usb"
  /\ since >= PacketPasses
  /\ stage' = "bus"
  /\ packet' = NextPacket
  /\ havePacket' = TRUE
  /\ since' = 0
  /\ processed' = FALSE
  /\ UNCHANGED <<busVars, at, transferVars, panelVars, usbSensors, copying, ledVars>>

NoPacketComes ==
  /\ ~stopped
  /\ stage = "usb"
  /\ stage' = "bus"
  /\ since' = IF since < PacketPasses THEN since + 1 ELSE since
  /\ UNCHANGED <<busVars, at, transferVars, panelVars, usbSensors, copying,
                 ledVars, packet, havePacket, processed>>

-----------------------------------------------------------------------------
LoopStep ==
  \/ ProcessPort
  \/ SwitchIfDone
  \/ TakeResponse
  \/ CopyHalf
  \/ ReportSensors
  \/ CommitFrame
  \/ ProcessPacket
  \/ PollSensors
  \/ PacketComes
  \/ NoPacketComes

Next == LoopStep \/ \E p \in Ports : Transfer(p)

Spec == Init /\ [][Next]_vars

\* The loop has no exit and nothing in it waits; a panel that answers goes on
\* until it has.
Fairness == WF_vars(LoopStep) /\ \A p \in Ports : WF_vars(Transfer(p))

FairSpec == Spec /\ Fairness

-----------------------------------------------------------------------------
Stages == {"begin", "bus", "switch", "take", "copy", "report", "commit", "packet",
           "sensors", "usb"}

BusTypes ==
  /\ phase \in [Ports -> {"Idle", "Busy", "Done"}]
  /\ turn \in Pairs
  /\ current \in [Ports -> LoopRequests \cup {Blank[p] : p \in Ports}]
  /\ queue \in [Ports -> Seq(LoopRequests)]
  /\ \A p \in Ports : Len(queue[p]) <= QueueMax
  /\ responses \in Seq(Ports) /\ Len(responses) <= ResponseMax
  /\ stopped \in BOOLEAN

TransferTypes ==
  /\ age \in [Ports -> Nat] /\ \A p \in Ports : age[p] <= Passes(p)
  /\ moved \in [Ports -> 0..2]
  /\ reading \in [Ports -> 0..1]
  /\ sensorBuffer \in [Ports -> [1..2 -> 0..1]]
  /\ staged \in [Segments -> [1..2 -> 0..Frames]]
  /\ shown \in [Segments -> [1..2 -> 0..Frames]]

LoopTypes ==
  /\ stage \in Stages /\ at \in 1..Len(Visited)
  /\ usbSensors \in [Ports -> [1..2 -> 0..1]]
  /\ copying \in Ports \cup {"None"}
  /\ packet \in [index : Segments, frame : FrameNumbers]
  /\ havePacket \in BOOLEAN /\ processed \in BOOLEAN
  /\ since \in 0..PacketPasses
  /\ received \subseteq Segments
  /\ previousFrame \in 0..Frames
  /\ ledBuffer \in [Segments -> 0..Frames]

\* Every variable keeps its type; no queue is longer than it may be, and no
\* request goes on for longer than it may.
TypeOK == BusTypes /\ TransferTypes /\ LoopTypes

Answering == Connected \ Silent

\* No queue overflows although requests are sent in every pass and panels may
\* be silent (main.c:41-60, 81-99; req_queue.c:36-39).
NeverStops == ~stopped

\* The two halves of a reading that goes to the host are of one reading: the
\* DMA does not refill sensor_buffer while a response that points to it waits
\* or is copied (main.c:71-79, msgbus.c:374-384).  So it is with two panels that
\* answer; with three a response may wait for too long.
ReadingsAreWhole ==
  stage = "report" => \A p \in Ports : usbSensors[p][1] = usbSensors[p][2]

\* A reading that came is handed over: the response queue does not drop it
\* (msgbus.c:474-483), although the loop takes only one a pass.  So it is with
\* two panels that answer and room for both.
ResponsesAreKept ==
  [][\A p \in Ports :
       /\ phase[p] = "Busy" /\ phase'[p] = "Done"
       /\ current[p].response /\ p \in Answering
       => responses' = Append(responses, p)]_vars

\* The report for the host follows the readings of every panel that answers,
\* again and again (main.c:205-206, 212-213): readings alternate here, so that
\* the report changes with each new one.
SensorsStayFresh ==
  \A p \in Answering : []<><<usbSensors'[p] # usbSensors[p]>>_usbSensors

\* What a panel shows is always one frame, whole (main.c:101-137): its
\* segments left in full before the commit did, and no later frame's segment
\* came between.
FramesAreWhole ==
  \A p \in Answering : \E f \in FrameNumbers \cup {NoFrame} :
    \A k \in SegmentsOf(p) : shown[k] = Whole(f)

\* The requests that a port knows: the one it ran last, or runs, and those that
\* wait for it.
Known(p) == {current[p]} \cup Queued(p)

Settled ==
  /\ ~Complete
  /\ \A p \in Answering : Known(p) \subseteq {Sensors(p), Segment(packet.index)}

\* When the host's next packet comes, the commit of the frame before it has been
\* sent and has ended, and so has every other request but those that each pass
\* sends again (main.c:81-137, msgbus.c:101-116): it is this, and nothing in
\* process_led_data, that keeps the segments of two frames apart.
PacketsFindPortsSettled == [][packet' # packet => Settled]_vars

\* The panel shows the frame.
Shows(p, f) == \A k \in SegmentsOf(p) : shown[k] = Whole(f)

\* A frame that the main loop has received in full is shown by every panel
\* that answers (main.c:107-111).
FrameIsShown ==
  \A f \in FrameNumbers :
    (Complete /\ previousFrame = f) ~>
      (\A p \in Answering : Shows(p, f))

\* It is shown before the host begins the next frame: no commit is still to come,
\* or was ignored, when the first packet of another frame overwrites led_buffer
\* (main.c:107-135, msgbus.c:101-116).
FrameIsShownInTime ==
  [][packet' # packet /\ havePacket /\ packet.index = Len(Packets)
       => \A p \in Answering : Shows(p, packet.frame)]_vars
=============================================================================
