------------------------------- MODULE MsgBus -------------------------------
(***************************************************************************)
(* The message bus (Src/msgbus.c): the main thread runs a state machine    *)
(* per port, two of the four ports at a time, and learns from the UART     *)
(* interrupts through two flag bits per port that a transfer is over.      *)
(*                                                                         *)
(* Grain of atomicity.  Interrupts touch nothing of the bus but the flag   *)
(* bits, and the main thread touches those with a load and a later store   *)
(* (interrupt_flags &= ~mask on a byte that is not volatile), so the main  *)
(* thread is cut into steps at every load and every store of a flags byte  *)
(* and at every port a timeout is checked for.  What runs between two such *)
(* accesses commutes with the interrupts and is part of the step.          *)
(*                                                                         *)
(* The client is any main loop: between two calls of msgbus_process_flags  *)
(* it may send requests and take responses as it likes.                    *)
(***************************************************************************)
EXTENDS Integers, Sequences, FiniteSets

CONSTANTS
  Connected,      \* the ports with PANEL_*_CONNECTED 1 (config.h)
  Requests,       \* the requests clients send: [port, command, data, response]
  QueueMax,       \* MAX_REQ_QUEUE_LENGTH
  ResponseMax,    \* RESPONSE_QUEUE_MAX
  TimeoutTicks,   \* RESPONSE_TIMEOUT_TICKS
  AnswerTicks,    \* a panel that answers does so within this many ticks
  IsrBurst        \* whether a transfer's end and the panel's answer may both
                  \* interrupt between the two flag tests of process_flags

Ports == {"Left", "Down", "Up", "Right"}

Commands == {"None", "Request_Sensors", "Process_LED_Segment", "Commit_LEDs",
             "Other"}

\* A request that has data is followed by a second transfer; one that expects
\* a response ends with bytes from the panel rather than an acknowledgement.
RequestType ==
  [port : Ports, command : Commands, data : BOOLEAN, response : BOOLEAN]

NoRequest(p) ==
  [port |-> p, command |-> "None", data |-> FALSE, response |-> FALSE]

ASSUME ConnectedAssumption == Connected \subseteq Ports
ASSUME RequestsAssumption ==
  Requests \subseteq {r \in RequestType : r.command # "None"}
ASSUME LimitsAssumption ==
  /\ QueueMax \in Nat \ {0}
  /\ ResponseMax \in Nat \ {0}
  /\ TimeoutTicks \in Nat
  /\ AnswerTicks \in Nat
  /\ IsrBurst \in BOOLEAN

VARIABLES
  \* the fields of the four PortStates
  status, selected, request, response, queue, waited, ack, flags,
  \* the static variables of msgbus.c
  selectedPorts, unselectedPorts, responses,
  \* the main thread inside msgbus_process_flags: where it is, which port of
  \* ProcessOrder it is at, the flags byte it loaded, whether SysTick has
  \* fired since it found all flags clear
  pc, at, loaded, ticked,
  \* the error code the firmware stopped with
  panic,
  \* the UARTs and the panels: a send DMA runs, what the receive DMA is armed
  \* for, the panel has been asked and has not answered yet
  tx, rx, owes

portVars == <<status, selected, request, response, queue, waited, ack>>
busVars == <<selectedPorts, unselectedPorts, responses>>
threadVars == <<pc, at, loaded, ticked>>
uartVars == <<tx, rx, owes>>
vars == <<portVars, flags, busVars, threadVars, panic, uartVars>>

Statuses ==
  {"Idle", "Sending_Command", "Awaiting_Command_Ack", "Sending_Data",
   "Awaiting_Data_Ack", "Receiving", "Done"}
SendingStatuses == {"Sending_Command", "Sending_Data"}

\* Mutants: check_timeout() times out a sending port, or forgets a status.
WaitingOrSending ==
  {"Sending_Command", "Awaiting_Command_Ack", "Awaiting_Data_Ack", "Receiving"}
WaitingForAck == {"Awaiting_Command_Ack", "Awaiting_Data_Ack"}

\* The statuses check_timeout() looks at.
WaitingStatuses == {"Awaiting_Command_Ack", "Awaiting_Data_Ack", "Receiving"}

\* The order in which msgbus.c goes through the ports.
ProcessOrder == <<"Left", "Down", "Up", "Right">>
PortAt == ProcessOrder[at]

Init ==
  /\ status = [p \in Ports |-> "Idle"]
  /\ selected = [p \in Ports |-> p \in {"Left", "Up"}]
  /\ request = [p \in Ports |-> NoRequest(p)]
  /\ response = [p \in Ports |-> "None"]
  /\ queue = [p \in Ports |-> <<>>]
  /\ waited = [p \in Ports |-> 0]
  /\ ack = [p \in Ports |-> [byte |-> FALSE, command |-> "None"]]
  /\ flags = [p \in Ports |-> {}]
  /\ selectedPorts = <<"Left", "Up">>
  /\ unselectedPorts = <<"Right", "Down">>
  /\ responses = <<>>
  /\ pc = "client"
  /\ at = 1
  /\ loaded = {}
  /\ ticked = FALSE
  /\ panic = "None"
  /\ tx = [p \in Ports |-> FALSE]
  /\ rx = [p \in Ports |-> "off"]
  /\ owes = [p \in Ports |-> FALSE]

Panic(code) ==
  /\ panic' = code
  /\ pc' = "panic"

-----------------------------------------------------------------------------
(***************************************************************************)
(* Starting requests, and the client's calls.                              *)
(***************************************************************************)

Queued(p) == {queue[p][i] : i \in 1..Len(queue[p])}

\* A panel that only sends data back skips the acknowledgement of its command.
AnswersAtOnce(r) == ~r.data /\ r.response

\* start_request() for the ports of S, each with its request in the function
\* req: the receive is armed before the command byte goes out.  A USART that
\* uart_connect_port() moves away from the ports in cut loses its transfers.
StartRequests(S, req, cut) ==
  /\ ack' = [p \in Ports |->
               IF p \in S THEN [ack[p] EXCEPT !.command = "None"] ELSE ack[p]]
  /\ rx' = [p \in Ports |->
              IF p \in S
                THEN IF AnswersAtOnce(req[p]) THEN "response" ELSE "command_ack"
                ELSE IF p \in cut THEN "off" ELSE rx[p]]
  /\ tx' = [p \in Ports |-> p \in S \/ (p \notin cut /\ tx[p])]

\* Mutants: a port that is busy, or has not its turn, passes for a free one.
FreeIfSelected(p) == selected[p]
FreeIfIdle(p) == status[p] = "Idle"

\* The port starts a request at once.
Free(p) == status[p] = "Idle" /\ selected[p]

\* msgbus_send_request() to a free port ...
SendNow(r) ==
  LET p == r.port IN
  /\ pc = "client"
  /\ p \in Connected
  /\ Free(p)
  /\ request' = [request EXCEPT ![p] = r]
  /\ status' = [status EXCEPT ![p] = "Sending_Command"]
  /\ StartRequests({p}, request', {})
  /\ UNCHANGED <<selected, response, queue, waited, flags, busVars, threadVars,
                 panic, owes>>

\* ... and to another one: req_queue_add() unless the request equals the
\* port's last one.  Only a full queue and a new request change the state.
SendQueued(r) ==
  LET p == r.port IN
  /\ pc = "client"
  /\ p \in Connected
  /\ ~Free(p)
  /\ r # request[p]
  /\ IF Len(queue[p]) = QueueMax
       THEN /\ Panic("QueueFull")
            /\ UNCHANGED queue
       ELSE /\ r \notin Queued(p)
            /\ queue' = [queue EXCEPT ![p] = Append(@, r)]
            /\ UNCHANGED <<pc, panic>>
  /\ UNCHANGED <<status, selected, request, response, waited, ack, flags,
                 busVars, at, loaded, ticked, uartVars>>

\* msgbus_get_pending_response(), after msgbus_have_pending_response().
TakeResponse ==
  /\ pc = "client"
  /\ responses # <<>>
  /\ responses' = Tail(responses)
  /\ UNCHANGED <<portVars, flags, selectedPorts, unselectedPorts, threadVars,
                 panic, uartVars>>

-----------------------------------------------------------------------------
(***************************************************************************)
(* msgbus_process_flags().                                                 *)
(***************************************************************************)

\* any_interrupt_flags() reads the four bytes one after the other; as only
\* interrupts set bits, that is the same as one read of all four.
ProcessFlags ==
  /\ pc = "client"
  /\ pc' = IF \A p \in Ports : flags[p] = {} THEN "timeout" ELSE "test_send"
  /\ UNCHANGED <<portVars, flags, busVars, at, loaded, ticked, panic, uartVars>>

\* Mutant: one port too many.
NextPortTooFar(first) ==
  IF at <= Len(ProcessOrder)
    THEN at' = at + 1 /\ pc' = first
    ELSE at' = 1 /\ pc' = "switch"

\* Goes on with the next port, and with switch_ports_if_done() after the last.
NextPort(first) ==
  IF at < Len(ProcessOrder)
    THEN at' = at + 1 /\ pc' = first
    ELSE at' = 1 /\ pc' = "switch"

TimedOut(p) == status[p] \in WaitingStatuses /\ waited[p] > TimeoutTicks

\* queue_add() drops the pointer to the port's response when it has no room.
AddResponse(p) ==
  IF Len(responses) = ResponseMax THEN responses ELSE Append(responses, p)

\* Mutant: the response is handed over all the same.
RespondAnyway ==
  LET p == PortAt IN
  /\ pc = "timeout"
  /\ IF TimedOut(p)
       THEN /\ rx' = [rx EXCEPT ![p] = "off"]
            /\ status' = [status EXCEPT ![p] = "Done"]
            /\ waited' = [waited EXCEPT ![p] = 0]
            /\ responses' = IF request[p].response THEN AddResponse(p) ELSE responses
       ELSE UNCHANGED <<rx, status, waited, responses>>
  /\ NextPort("timeout")
  /\ ticked' = (ticked /\ pc' = "timeout")
  /\ UNCHANGED <<selected, request, response, queue, ack, flags, selectedPorts,
                 unselectedPorts, loaded, panic, tx, owes>>

\* check_timeout() of one port.
CheckTimeout ==
  LET p == PortAt IN
  /\ pc = "timeout"
  /\ IF TimedOut(p)
       THEN /\ rx' = [rx EXCEPT ![p] = "off"]
            /\ status' = [status EXCEPT ![p] = "Done"]
            /\ waited' = [waited EXCEPT ![p] = 0]
       ELSE UNCHANGED <<rx, status, waited>>
  /\ NextPort("timeout")
  /\ ticked' = (ticked /\ pc' = "timeout")
  /\ UNCHANGED <<selected, request, response, queue, ack, flags, busVars,
                 loaded, panic, tx, owes>>

\* process_flags() of one port: send_complete_is_set() loads the flags ...
TestSend ==
  /\ pc = "test_send"
  /\ IF "send" \in flags[PortAt]
       THEN loaded' = flags[PortAt] /\ pc' = "store_send"
       ELSE loaded' = {} /\ pc' = "test_receive"
  /\ UNCHANGED <<portVars, flags, busVars, at, ticked, panic, uartVars>>

\* ... reset_send_complete() stores what was loaded less the bit, and
\* process_send_complete() follows.
AfterSend(p) ==
  IF request[p].response /\ (request[p].data => status[p] = "Sending_Data")
    THEN "Receiving"
    ELSE IF status[p] = "Sending_Command" THEN "Awaiting_Command_Ack"
                                          ELSE "Awaiting_Data_Ack"

StoreSend ==
  LET p == PortAt IN
  /\ pc = "store_send"
  /\ flags' = [flags EXCEPT ![p] = loaded \ {"send"}]
  /\ loaded' = {}
  /\ IF status[p] \in SendingStatuses
       THEN /\ status' = [status EXCEPT ![p] = AfterSend(p)]
            /\ waited' = [waited EXCEPT ![p] = 0]
            /\ pc' = "test_receive"
            /\ UNCHANGED panic
       ELSE /\ Panic("SendCpltInvalidStatus")
            /\ UNCHANGED <<status, waited>>
  /\ UNCHANGED <<selected, request, response, queue, ack, busVars, at, ticked,
                 uartVars>>

\* receive_complete_is_set() loads the flags again.
TestReceive ==
  /\ pc = "test_receive"
  /\ IF "receive" \in flags[PortAt]
       THEN /\ loaded' = flags[PortAt]
            /\ pc' = "store_receive"
            /\ UNCHANGED at
       ELSE NextPort("test_send") /\ UNCHANGED loaded
  /\ UNCHANGED <<portVars, flags, busVars, ticked, panic, uartVars>>

\* reset_receive_complete() and the cases of process_receive_complete().
StoreReceive(p) ==
  /\ pc = "store_receive"
  /\ p = PortAt
  /\ flags' = [flags EXCEPT ![p] = loaded \ {"receive"}]
  /\ loaded' = {}

Finish(p) ==
  /\ status' = [status EXCEPT ![p] = "Done"]
  /\ waited' = [waited EXCEPT ![p] = 0]

\* check_acknowledge(), which forgets the first byte only.
Acknowledged(p) == ack[p].byte /\ ack[p].command = request[p].command

\* Mutant: both bytes are forgotten.
ForgetBoth(p) == ack' = [ack EXCEPT ![p] = [byte |-> FALSE, command |-> "None"]]

ForgetAck(p) == ack' = [ack EXCEPT ![p].byte = FALSE]

\* Mutant: expect_acknowledge() is forgotten.
ResponseReceive(p) == IF request[p].response THEN "response" ELSE "off"

\* What the receive is armed for before the data is sent.
DataReceive(p) == IF request[p].response THEN "response" ELSE "data_ack"

ReceiveCommandAck(p) ==
  /\ StoreReceive(p)
  /\ status[p] = "Awaiting_Command_Ack"
  /\ ForgetAck(p)
  /\ IF ~Acknowledged(p)
       THEN /\ Panic("RecvCpltNoAck")
            /\ UNCHANGED <<status, waited, rx, tx, at>>
       ELSE /\ NextPort("test_send")
            /\ UNCHANGED panic
            /\ IF ~request[p].data
                 THEN Finish(p) /\ UNCHANGED <<rx, tx>>
                 ELSE /\ status' = [status EXCEPT ![p] = "Sending_Data"]
                      /\ waited' = [waited EXCEPT ![p] = 0]
                      /\ rx' = [rx EXCEPT ![p] = DataReceive(p)]
                      /\ tx' = [tx EXCEPT ![p] = TRUE]
  /\ UNCHANGED <<selected, request, response, queue, busVars, ticked, owes>>

ReceiveDataAck(p) ==
  /\ StoreReceive(p)
  /\ status[p] = "Awaiting_Data_Ack"
  /\ ForgetAck(p)
  /\ IF ~Acknowledged(p)
       THEN Panic("RecvCpltNoAck") /\ UNCHANGED <<status, waited, at>>
       ELSE Finish(p) /\ NextPort("test_send") /\ UNCHANGED panic
  /\ UNCHANGED <<selected, request, response, queue, busVars, ticked, uartVars>>

ReceiveResponse(p) ==
  /\ StoreReceive(p)
  /\ status[p] = "Receiving"
  /\ response' = [response EXCEPT ![p] = request[p].command]
  /\ responses' = AddResponse(p)
  /\ Finish(p)
  /\ NextPort("test_send")
  /\ UNCHANGED <<selected, request, queue, ack, selectedPorts,
                 unselectedPorts, ticked, panic, uartVars>>

ReceiveUnexpected(p) ==
  /\ StoreReceive(p)
  /\ status[p] \notin WaitingStatuses
  /\ Panic("RecvCpltInvalidStatus")
  /\ UNCHANGED <<portVars, busVars, at, ticked, uartVars>>

\* The pair of ports at a turn.
Members(pair) == {pair[1], pair[2]}

\* uart_connect_port() of a newly selected Up or Right takes USART2 away from
\* the other of the two.
Disconnected == {"Up", "Right"} \ Members(unselectedPorts)

\* Mutant: > 1 for > 0.
StartingOfTwo == {p \in Members(unselectedPorts) : Len(queue[p]) > 1}

\* The ports that start a queued request as they get their turn.
Starting == {p \in Members(unselectedPorts) : queue[p] # <<>>}

\* switch_ports_if_done()
StaySelected ==
  /\ pc = "switch"
  /\ \E p \in Members(selectedPorts) : status[p] \notin {"Idle", "Done"}
  /\ pc' = "client"
  /\ UNCHANGED <<portVars, flags, busVars, at, loaded, ticked, panic, uartVars>>

SwitchPorts ==
  LET old == Members(selectedPorts) IN
  /\ pc = "switch"
  /\ \A p \in old : status[p] \in {"Idle", "Done"}
  /\ pc' = "client"
  /\ selectedPorts' = unselectedPorts
  /\ unselectedPorts' = selectedPorts
  /\ selected' = [p \in Ports |-> p \in Members(unselectedPorts)]
  /\ request' = [p \in Ports |->
                   IF p \in Starting THEN Head(queue[p]) ELSE request[p]]
  /\ queue' = [p \in Ports |->
                 IF p \in Starting THEN Tail(queue[p]) ELSE queue[p]]
  /\ status' = [p \in Ports |->
                  CASE p \in Starting -> "Sending_Command"
                    [] p \in old -> "Idle"
                    [] OTHER -> status[p]]
  /\ StartRequests(Starting, request', Disconnected)
  /\ owes' = [p \in Ports |-> p \notin Disconnected /\ owes[p]]
  /\ UNCHANGED <<response, waited, flags, responses, at, loaded, ticked, panic>>

-----------------------------------------------------------------------------
(***************************************************************************)
(* The interrupts and the panels.                                          *)
(***************************************************************************)

\* HAL_UART_TxCpltCallback: the bytes are out; a panel that is there and in
\* its wits will answer, another one will not.
SendComplete(p, answers) ==
  /\ tx[p]
  /\ tx' = [tx EXCEPT ![p] = FALSE]
  /\ flags' = [flags EXCEPT ![p] = @ \cup {"send"}]
  /\ owes' = [owes EXCEPT ![p] = @ \/ answers]
  /\ UNCHANGED <<portVars, busVars, threadVars, panic, rx>>

\* Between the two tests of process_flags: the send has only just completed,
\* and the main thread is about to look for the receive.
BetweenTests(p) == pc = "test_receive" /\ PortAt = p /\ "send" \in flags[p]

\* HAL_UART_RxCpltCallback: the panel's bytes fill the armed buffer.
Answer(p) ==
  /\ owes[p]
  /\ rx[p] # "off"
  /\ IsrBurst \/ ~BetweenTests(p)
  /\ owes' = [owes EXCEPT ![p] = FALSE]
  /\ rx' = [rx EXCEPT ![p] = "off"]
  /\ flags' = [flags EXCEPT ![p] = @ \cup {"receive"}]
  /\ ack' = CASE rx[p] = "command_ack" ->
                   [ack EXCEPT ![p] = [byte |-> TRUE,
                                       command |-> request[p].command]]
              [] rx[p] = "data_ack" -> [ack EXCEPT ![p].byte = TRUE]
              [] OTHER -> ack
  /\ UNCHANGED <<status, selected, request, response, queue, waited, busVars,
                 threadVars, panic, tx>>

\* An answer that finds no receive armed raises no interrupt.
AnswerUnheard(p) ==
  /\ owes[p]
  /\ rx[p] = "off"
  /\ owes' = [owes EXCEPT ![p] = FALSE]
  /\ UNCHANGED <<portVars, flags, busVars, threadVars, panic, tx, rx>>

\* SysTick.  The time since waiting_since saturates just above the timeout.
\* Time does not run past a panel that will still answer within AnswerTicks,
\* and the four timeout checks of one pass take less than a tick.
Tick ==
  /\ \A p \in Ports :
       owes[p] /\ status[p] \in WaitingStatuses => waited[p] < AnswerTicks
  /\ pc = "timeout" => ~ticked
  /\ ticked' = (pc = "timeout")
  /\ waited' = [p \in Ports |->
                  IF status[p] \in WaitingStatuses /\ waited[p] <= TimeoutTicks
                    THEN waited[p] + 1 ELSE waited[p]]
  /\ UNCHANGED <<status, selected, request, response, queue, ack, flags,
                 busVars, pc, at, loaded, panic, uartVars>>

-----------------------------------------------------------------------------
Receive ==
  \E p \in Ports : \/ ReceiveCommandAck(p)
                   \/ ReceiveDataAck(p)
                   \/ ReceiveResponse(p)
                   \/ ReceiveUnexpected(p)

\* The steps of msgbus_process_flags.
BusStep ==
  \/ CheckTimeout
  \/ TestSend
  \/ StoreSend
  \/ TestReceive
  \/ Receive
  \/ StaySelected
  \/ SwitchPorts

Client ==
  \/ ProcessFlags
  \/ \E r \in Requests : SendNow(r)
  \/ \E r \in Requests : SendQueued(r)
  \/ TakeResponse

Environment ==
  \/ \E p \in Ports, answers \in BOOLEAN : SendComplete(p, answers)
  \/ \E p \in Ports : Answer(p)
  \/ \E p \in Ports : AnswerUnheard(p)
  \/ Tick

Next == BusStep \/ Client \/ Environment

Spec == Init /\ [][Next]_vars

\* The main loop calls msgbus_process_flags for ever and returns from it; a
\* send DMA ends; SysTick runs; a panel that owes an answer gives it.
Fairness ==
  /\ WF_vars(ProcessFlags)
  /\ WF_vars(BusStep)
  /\ WF_vars(Tick)
  /\ \A p \in Ports : /\ WF_vars(\E answers \in BOOLEAN : SendComplete(p, answers))
                      /\ WF_vars(Answer(p) \/ AnswerUnheard(p))

FairSpec == Spec /\ Fairness

-----------------------------------------------------------------------------
(***************************************************************************)
(* The bus that the client is promised: what a port is doing is whether a  *)
(* request runs, whatever the transfer it is in, and what was heard of its *)
(* panel is what the receive flag stands for.                              *)
(***************************************************************************)

Phase(p) == IF status[p] \in {"Idle", "Done"} THEN status[p] ELSE "Busy"

\* The data is still to be sent.
DataFollows(p) ==
  request[p].data /\ status[p] \in {"Sending_Command", "Awaiting_Command_Ack"}

Heard(p) ==
  IF "receive" \notin flags[p] THEN "Nothing"
    ELSE IF Phase(p) # "Busy" THEN "Late"
    ELSE IF DataFollows(p) THEN "Ack" ELSE "Answer"

Abstract == INSTANCE AnsweredBus
              WITH Blank <- [p \in Ports |-> NoRequest(p)],
                   phase <- [p \in Ports |-> Phase(p)],
                   turn <- Members(selectedPorts),
                   current <- request,
                   stopped <- panic # "None",
                   heard <- [p \in Ports |-> Heard(p)]

-----------------------------------------------------------------------------
TypeOK ==
  /\ status \in [Ports -> Statuses]
  /\ selected \in [Ports -> BOOLEAN]
  /\ request \in [Ports -> Requests \cup {NoRequest(p) : p \in Ports}]
  /\ response \in [Ports -> Commands]
  /\ queue \in [Ports -> Seq(Requests)]
  /\ waited \in [Ports -> 0..TimeoutTicks+1]
  /\ ack \in [Ports -> [byte : BOOLEAN, command : Commands]]
  /\ flags \in [Ports -> SUBSET {"send", "receive"}]
  /\ selectedPorts \in {<<"Left", "Up">>, <<"Right", "Down">>}
  /\ unselectedPorts \in {<<"Left", "Up">>, <<"Right", "Down">>}
  /\ responses \in Seq(Ports)
  /\ pc \in {"client", "timeout", "test_send", "store_send", "test_receive",
             "store_receive", "switch", "panic"}
  /\ at \in 1..4
  /\ loaded \in SUBSET {"send", "receive"}
  /\ ticked \in BOOLEAN
  /\ panic \in {"None", "QueueFull", "SendCpltInvalidStatus", "RecvCpltNoAck",
                "RecvCpltInvalidStatus"}
  /\ tx \in [Ports -> BOOLEAN]
  /\ rx \in [Ports -> {"off", "command_ack", "data_ack", "response"}]
  /\ owes \in [Ports -> BOOLEAN]

\* A port that is sending has its send DMA running or the completion flag set,
\* never both, never neither: nothing times out a sending port, so a flag lost
\* to the load and store of reset_send_complete or reset_receive_complete
\* (msgbus.c:133-143) would stop both pairs of ports for ever.
SendNeverLost ==
  pc # "panic" =>
    \A p \in Ports :
      /\ status[p] \in SendingStatuses <=> tx[p] \/ "send" \in flags[p]
      /\ ~(tx[p] /\ "send" \in flags[p])

\* A completed send never finds its port in another status (msgbus.c:303-311),
\* however late the panels answer.
SendNeverUnexpected == panic # "SendCpltInvalidStatus"

\* A port that loses its turn has nothing running on its line: taking USART2
\* from Up to Right or back (uart.c:169-231) never cuts a transfer short.
QuietWhenUnselected ==
  \A p \in Ports :
    ~selected[p] => status[p] = "Idle" /\ ~tx[p] /\ rx[p] = "off"

\* The panel's bytes always find the receive armed (msgbus.c:456-471, 339-355:
\* the receive is armed before the send).
AnswerFindsReceiver == \A p \in Ports : owes[p] => rx[p] # "off"

\* None of the assertions of the state machine fails (msgbus.c:303-311,
\* 320-327, 362-369, 386-393, req_queue.c:36-39).
NoPanic == panic = "None"

\* The DMA reads the command byte and the client's buffers through the port's
\* current request: it is replaced only when the line is quiet and nothing is
\* left to process (msgbus.c:231, 436, 442).
RequestStable ==
  [][\A p \in Ports : request'[p] # request[p] =>
       ~tx[p] /\ rx[p] = "off" /\ flags[p] = {}]_vars

\* A request ends once and in its turn, requests of a port run in the order they
\* were sent, and a response reaches the client only for a panel that was heard to
\* answer while its request ran: not for a timeout, not for an acknowledgement,
\* not for what an earlier request left (msgbus.c:195-231, 303-408).
ImplementsAnsweredBus == Abstract!Spec

\* Each pair of ports gets its turn again and again, although a flag set while
\* the main thread is between the load and the store of a flags byte is lost,
\* and although panels may stay silent.
EveryPortGetsItsTurn == \A p \in Ports : []<>selected[p]

\* A queued request is sent some time.
QueuedIsSent ==
  \A r \in Requests :
    r \in Queued(r.port) ~>
      request[r.port] = r /\ status[r.port] = "Sending_Command"

\* "Not in one of the valid states, panic" (msgbus.c:387): a receive that
\* completes finds its port waiting for it.
ReceiveNeverUnexpected == panic # "RecvCpltInvalidStatus"

=============================================================================
