------------------------------ MODULE MCMsgBus ------------------------------
(***************************************************************************)
(* MsgBus for TLC: the requests of the main loop (main.c), and small sets  *)
(* of them for the runs.                                                   *)
(***************************************************************************)
EXTENDS MsgBusInvariants

\* send_request_sensors, send_process_led_segment, send_commit_LEDs
Sensors(p) == [port |-> p, command |-> "Request_Sensors",
               data |-> FALSE, response |-> TRUE]
Segment(p) == [port |-> p, command |-> "Process_LED_Segment",
               data |-> TRUE, response |-> FALSE]
Commit(p) == [port |-> p, command |-> "Commit_LEDs",
              data |-> FALSE, response |-> FALSE]
\* A request with data and a response, as the double-values test of commtests.c
\* sends; the main loop sends none.
Exchange(p) == [port |-> p, command |-> "Other",
                data |-> TRUE, response |-> TRUE]

EveryKind == {Segment("Left"), Commit("Left"), Exchange("Left"), Sensors("Right")}
LeftAndRight == {Sensors("Left"), Segment("Left"), Sensors("Right")}
ThreePorts == {Sensors("Left"), Segment("Up"), Sensors("Right")}
=============================================================================
