---------------------------- MODULE MsgBus_proofs ----------------------------
(***************************************************************************)
(* Proofs about MsgBus for all panels, requests, limits and timeouts.      *)
(***************************************************************************)
EXTENDS MsgBusInvariants, FiniteSetTheorems, SequenceTheorems, TLAPS

\* Every request the bus meets, and the blank one of a fresh port.
AnyRequest == Requests \cup {NoRequest(p) : p \in Ports}

\* What a request is made of.
LEMMA RequestFields ==
  ASSUME NEW r \in AnyRequest
  PROVE  /\ r.port \in Ports
         /\ r.command \in Commands
         /\ r.data \in BOOLEAN
         /\ r.response \in BOOLEAN
  <1>1. CASE r \in Requests
    <2>1. r \in [port : Ports, command : Commands, data : BOOLEAN, response : BOOLEAN]
      BY <1>1, RequestsAssumption DEF RequestType
    <2>2. QED
      BY <2>1
  <1>2. ASSUME NEW p \in Ports, r = NoRequest(p)
        PROVE  /\ r.port \in Ports
               /\ r.command \in Commands
               /\ r.data \in BOOLEAN
               /\ r.response \in BOOLEAN
    BY <1>2 DEF NoRequest, Commands
  <1>3. QED
    BY <1>1, <1>2 DEF AnyRequest

\* The main thread is at one of the four ports.
LEMMA ProcessOrderPorts ==
  ASSUME TypeOK
  PROVE  /\ PortAt \in Ports
         /\ Len(ProcessOrder) = 4
  BY DEF TypeOK, PortAt, ProcessOrder, Ports

\* The pairs consist of ports.
LEMMA PairsArePorts ==
  ASSUME TypeOK
  PROVE  /\ Members(selectedPorts) \subseteq Ports
         /\ Members(unselectedPorts) \subseteq Ports
  BY DEF TypeOK, Members, Ports

-----------------------------------------------------------------------------
(***************************************************************************)
(* Type correctness.                                                       *)
(***************************************************************************)

\* The types in three groups, as the actions disturb them.
PortType ==
  /\ status \in [Ports -> Statuses]
  /\ selected \in [Ports -> BOOLEAN]
  /\ request \in [Ports -> AnyRequest]
  /\ response \in [Ports -> Commands]
  /\ queue \in [Ports -> Seq(Requests)]
  /\ waited \in [Ports -> 0..TimeoutTicks+1]

LineType ==
  /\ ack \in [Ports -> [byte : BOOLEAN, command : Commands]]
  /\ flags \in [Ports -> SUBSET {"send", "receive"}]
  /\ tx \in [Ports -> BOOLEAN]
  /\ rx \in [Ports -> {"off", "command_ack", "data_ack", "response"}]
  /\ owes \in [Ports -> BOOLEAN]

ThreadType ==
  /\ selectedPorts \in {<<"Left", "Up">>, <<"Right", "Down">>}
  /\ unselectedPorts \in {<<"Left", "Up">>, <<"Right", "Down">>}
  /\ responses \in Seq(Ports)
  /\ pc \in {"client", "timeout", "test_send", "store_send", "test_receive",
             "store_receive", "switch", "panic"}
  /\ at \in 1..4
  /\ loaded \in SUBSET {"send", "receive"}
  /\ ticked \in BOOLEAN
  /\ panic \in {"None", "QueueFull", "SendCpltInvalidStatus", "RecvCpltNoAck",
                "RecvCpltInvalidStatus"}

\* TypeOK in three parts.
LEMMA TypeParts == TypeOK <=> PortType /\ LineType /\ ThreadType
  BY DEF TypeOK, PortType, LineType, ThreadType, AnyRequest

\* Initially every variable has its type.
LEMMA TypeInit == Init => TypeOK
  <1> SUFFICES ASSUME Init PROVE PortType /\ LineType /\ ThreadType
    BY TypeParts
  <1>1. PortType
    <2>1. 0 \in 0..TimeoutTicks+1
      BY LimitsAssumption
    <2>2. QED
      BY <2>1 DEF Init, PortType, AnyRequest, Statuses, Commands
  <1>2. LineType
    BY DEF Init, LineType, Commands
  <1>3. ThreadType
    <2>1. responses \in Seq(Ports) /\ at \in 1..4 /\ loaded \in SUBSET {"send", "receive"}
      BY DEF Init
    <2>2. QED
      BY <2>1 DEF Init, ThreadType
  <1>4. QED
    BY <1>1, <1>2, <1>3

\* What start_request() writes has the right type whatever it starts.
LEMMA StartRequestsType ==
  ASSUME LineType, NEW S, NEW req, NEW cut, StartRequests(S, req, cut)
  PROVE  /\ ack' \in [Ports -> [byte : BOOLEAN, command : Commands]]
         /\ rx' \in [Ports -> {"off", "command_ack", "data_ack", "response"}]
         /\ tx' \in [Ports -> BOOLEAN]
  <1>1. \A p \in Ports : ack[p].byte \in BOOLEAN /\ "None" \in Commands
    BY DEF LineType, Commands
  <1>2. ack' \in [Ports -> [byte : BOOLEAN, command : Commands]]
    BY <1>1 DEF LineType, StartRequests
  <1>3. rx' \in [Ports -> {"off", "command_ack", "data_ack", "response"}]
    BY DEF LineType, StartRequests
  <1>4. tx' \in [Ports -> BOOLEAN]
    BY DEF LineType, StartRequests
  <1>5. QED
    BY <1>2, <1>3, <1>4

\* A cleared acknowledge byte keeps its type.
LEMMA ForgetAckType ==
  ASSUME LineType, NEW p \in Ports, ForgetAck(p)
  PROVE  ack' \in [Ports -> [byte : BOOLEAN, command : Commands]]
  <1>1. ack' = [ack EXCEPT ![p] = [ack[p] EXCEPT !.byte = FALSE]]
    BY DEF ForgetAck
  <1>2. [ack[p] EXCEPT !.byte = FALSE] \in [byte : BOOLEAN, command : Commands]
    BY DEF LineType
  <1>3. QED
    BY <1>1, <1>2 DEF LineType

\* Every step keeps the types.
LEMMA TypeNext == TypeOK /\ [Next]_vars => TypeOK'
  <1> SUFFICES ASSUME TypeOK, [Next]_vars
               PROVE  PortType' /\ LineType' /\ ThreadType'
    BY TypeParts DEF TypeOK, PortType, LineType, ThreadType, AnyRequest
  <1> PortType /\ LineType /\ ThreadType
    BY TypeParts
  <1> PortAt \in Ports /\ Len(ProcessOrder) = 4
    BY ProcessOrderPorts
  <1> loaded \in SUBSET {"send", "receive"} /\ flags[PortAt] \in SUBSET {"send", "receive"}
    BY DEF ThreadType, LineType
  <1> 0 \in 0..TimeoutTicks+1
    BY LimitsAssumption
  <1>1. ASSUME NEW r \in Requests, SendNow(r)
        PROVE  PortType' /\ LineType' /\ ThreadType'
    <2>1. r.port \in Ports /\ r \in AnyRequest
      BY RequestFields DEF AnyRequest
    <2>2. PortType'
      BY <1>1, <2>1 DEF SendNow, PortType, Statuses
    <2>3. LineType'
      BY <1>1, StartRequestsType DEF SendNow, LineType
    <2>4. ThreadType'
      BY <1>1 DEF SendNow, ThreadType, busVars, threadVars
    <2>5. QED
      BY <2>2, <2>3, <2>4
  <1>2. ASSUME NEW r \in Requests, SendQueued(r)
        PROVE  PortType' /\ LineType' /\ ThreadType'
    <2>1. PortType'
      <3>1. queue' = queue \/ queue' = [queue EXCEPT ![r.port] = Append(@, r)]
        BY <1>2 DEF SendQueued
      <3>2. \A p \in Ports : Append(queue[p], r) \in Seq(Requests)
        BY DEF PortType
      <3>3. queue' \in [Ports -> Seq(Requests)]
        <4>1. CASE queue' = queue
          BY <4>1 DEF PortType
        <4>2. CASE queue' = [queue EXCEPT ![r.port] = Append(@, r)]
          <5> HIDE DEF Ports
          <5>1. QED
            BY <3>2, <4>2, Zenon DEF PortType
        <4>3. QED
          BY <3>1, <4>1, <4>2
      <3>4. QED
        BY <1>2, <3>3 DEF SendQueued, PortType
    <2>2. LineType'
      BY <1>2 DEF SendQueued, uartVars, LineType
    <2>3. ThreadType'
      BY <1>2 DEF SendQueued, Panic, busVars, ThreadType
    <2>4. QED
      BY <2>1, <2>2, <2>3
  <1>3. CASE TakeResponse
    BY <1>3 DEF TakeResponse, PortType, LineType, ThreadType, portVars, threadVars, uartVars
  <1>4. CASE ProcessFlags
    BY <1>4 DEF ProcessFlags, PortType, LineType, ThreadType, portVars, busVars, uartVars
  <1>5. CASE CheckTimeout
    <2>1. PortType'
      <3>1. \/ UNCHANGED <<status, waited>>
            \/ /\ status' = [status EXCEPT ![PortAt] = "Done"]
               /\ waited' = [waited EXCEPT ![PortAt] = 0]
        BY <1>5 DEF CheckTimeout
      <3>2. status' \in [Ports -> Statuses] /\ waited' \in [Ports -> 0..TimeoutTicks+1]
        <4>1. status \in [Ports -> Statuses] /\ waited \in [Ports -> 0..TimeoutTicks+1]
          BY DEF PortType
        <4>2. "Done" \in Statuses
          BY DEF Statuses
        <4> HIDE DEF Statuses
        <4>3. QED
          BY <3>1, <4>1, <4>2
      <3>3. QED
        BY <1>5, <3>2 DEF CheckTimeout, PortType
    <2>2. LineType'
      BY <1>5 DEF CheckTimeout, LineType
    <2>3. ThreadType'
      BY <1>5 DEF CheckTimeout, NextPort, busVars, ThreadType
    <2>4. QED
      BY <2>1, <2>2, <2>3
  <1>6. CASE TestSend
    BY <1>6 DEF TestSend, PortType, LineType, ThreadType, portVars, busVars, uartVars
  <1>7. CASE StoreSend
    <2>1. PortType'
      <3>1. AfterSend(PortAt) \in Statuses
        BY DEF AfterSend, Statuses
      <3>2. QED
        BY <1>7, <3>1 DEF StoreSend, PortType
    <2>2. LineType'
      BY <1>7 DEF StoreSend, uartVars, LineType
    <2>3. ThreadType'
      BY <1>7 DEF StoreSend, Panic, busVars, ThreadType
    <2>4. QED
      BY <2>1, <2>2, <2>3
  <1>8. CASE TestReceive
    <2>1. PortType'
      BY <1>8 DEF TestReceive, portVars, PortType
    <2>2. LineType'
      BY <1>8 DEF TestReceive, portVars, uartVars, LineType
    <2>3. ThreadType'
      <3>1. CASE "receive" \in flags[PortAt]
        BY <1>8, <3>1 DEF TestReceive, busVars, ThreadType
      <3>2. CASE "receive" \notin flags[PortAt]
        <4>1. at' \in 1..4 /\ pc' \in {"test_send", "switch"}
          BY <1>8, <3>2 DEF TestReceive, NextPort, ThreadType
        <4>2. UNCHANGED <<loaded, busVars, ticked, panic>>
          BY <1>8, <3>2 DEF TestReceive
        <4>3. QED
          BY <4>1, <4>2 DEF busVars, ThreadType
      <3>3. QED
        BY <3>1, <3>2
    <2>4. QED
      BY <2>1, <2>2, <2>3
  <1>9. ASSUME NEW p \in Ports, ReceiveCommandAck(p)
        PROVE  PortType' /\ LineType' /\ ThreadType'
    <2>1. PortType'
      <3>1. \/ UNCHANGED <<status, waited>>
            \/ /\ \E s \in Statuses : status' = [status EXCEPT ![p] = s]
               /\ waited' = [waited EXCEPT ![p] = 0]
        BY <1>9 DEF ReceiveCommandAck, Finish, Statuses
      <3>2. QED
        <4>1. 0 \in 0..TimeoutTicks+1
          BY LimitsAssumption
        <4>2. status' \in [Ports -> Statuses]
          BY <3>1, Zenon DEF PortType
        <4>3. waited' \in [Ports -> 0..TimeoutTicks+1]
          BY <3>1, <4>1 DEF PortType
        <4>4. UNCHANGED <<selected, request, response, queue>>
          BY <1>9 DEF ReceiveCommandAck
        <4>5. QED
          BY <4>2, <4>3, <4>4 DEF PortType
    <2>2. LineType'
      <3>1. ack' \in [Ports -> [byte : BOOLEAN, command : Commands]]
        BY <1>9, ForgetAckType DEF ReceiveCommandAck
      <3>2. rx' \in [Ports -> {"off", "command_ack", "data_ack", "response"}]
        BY <1>9 DEF ReceiveCommandAck, DataReceive, LineType
      <3>3. QED
        BY <1>9, <3>1, <3>2 DEF ReceiveCommandAck, StoreReceive, LineType
    <2>3. ThreadType'
      BY <1>9 DEF ReceiveCommandAck, StoreReceive, NextPort, Panic, ThreadType, busVars
    <2>4. QED
      BY <2>1, <2>2, <2>3
  <1>10. ASSUME NEW p \in Ports, ReceiveDataAck(p)
         PROVE  PortType' /\ LineType' /\ ThreadType'
    <2>1. PortType'
      BY <1>10 DEF ReceiveDataAck, Finish, PortType, Statuses
    <2>2. LineType'
      <3>1. ack' \in [Ports -> [byte : BOOLEAN, command : Commands]]
        BY <1>10, ForgetAckType DEF ReceiveDataAck
      <3>2. QED
        BY <1>10, <3>1 DEF ReceiveDataAck, StoreReceive, LineType, uartVars
    <2>3. ThreadType'
      BY <1>10 DEF ReceiveDataAck, StoreReceive, NextPort, Panic, ThreadType, busVars
    <2>4. QED
      BY <2>1, <2>2, <2>3
  <1>11. ASSUME NEW p \in Ports, ReceiveResponse(p)
         PROVE  PortType' /\ LineType' /\ ThreadType'
    <2>1. PortType'
      <3>1. request[p].command \in Commands
        BY RequestFields DEF PortType
      <3>2. QED
        BY <1>11, <3>1, LimitsAssumption DEF ReceiveResponse, Finish, PortType, Statuses
    <2>2. LineType'
      BY <1>11 DEF ReceiveResponse, StoreReceive, LineType, uartVars
    <2>3. ThreadType'
      BY <1>11 DEF ReceiveResponse, AddResponse, StoreReceive, NextPort, ThreadType
    <2>4. QED
      BY <2>1, <2>2, <2>3
  <1>12. ASSUME NEW p \in Ports, ReceiveUnexpected(p)
         PROVE  PortType' /\ LineType' /\ ThreadType'
    BY <1>12 DEF ReceiveUnexpected, StoreReceive, Panic, PortType, LineType, ThreadType,
                 portVars, busVars, uartVars
  <1>13. CASE StaySelected
    BY <1>13 DEF StaySelected, PortType, LineType, ThreadType, portVars, busVars, uartVars
  <1>14. CASE SwitchPorts
    <2>1. PortType'
      <3>1. \A p \in Starting : queue[p] \in Seq(Requests) /\ queue[p] # <<>>
        BY PairsArePorts DEF Starting, PortType
      <3>2. \A p \in Starting : Head(queue[p]) \in AnyRequest /\ Tail(queue[p]) \in Seq(Requests)
        BY <3>1 DEF AnyRequest
      <3>3. QED
        BY <1>14, <3>2 DEF SwitchPorts, PortType, Statuses
    <2>2. LineType'
      BY <1>14, StartRequestsType DEF SwitchPorts, LineType
    <2>3. ThreadType'
      BY <1>14 DEF SwitchPorts, ThreadType
    <2>4. QED
      BY <2>1, <2>2, <2>3
  <1>15. ASSUME NEW p \in Ports, NEW answers \in BOOLEAN, SendComplete(p, answers)
         PROVE  PortType' /\ LineType' /\ ThreadType'
    <2>1. /\ flags' = [flags EXCEPT ![p] = @ \cup {"send"}]
          /\ tx' = [tx EXCEPT ![p] = FALSE]
          /\ owes' = [owes EXCEPT ![p] = @ \/ answers]
          /\ UNCHANGED <<portVars, busVars, threadVars, panic, rx>>
      BY <1>15 DEF SendComplete
    <2>2. LineType'
      BY <2>1 DEF LineType, portVars
    <2>3. PortType' /\ ThreadType'
      BY <2>1 DEF PortType, ThreadType, portVars, busVars, threadVars
    <2>4. QED
      BY <2>2, <2>3
  <1>16. ASSUME NEW p \in Ports, Answer(p)
         PROVE  PortType' /\ LineType' /\ ThreadType'
    <2>1. ack' \in [Ports -> [byte : BOOLEAN, command : Commands]]
      <3>1. request[p].command \in Commands
        BY RequestFields DEF PortType
      <3>2. ack' \in {ack, [ack EXCEPT ![p] = [byte |-> TRUE, command |-> request[p].command]],
                     [ack EXCEPT ![p].byte = TRUE]}
        BY <1>16 DEF Answer
      <3>3. /\ ack[p] \in [byte : BOOLEAN, command : Commands]
            /\ [byte |-> TRUE, command |-> request[p].command]
                 \in [byte : BOOLEAN, command : Commands]
        BY <3>1 DEF LineType
      <3>4. [ack[p] EXCEPT !.byte = TRUE] \in [byte : BOOLEAN, command : Commands]
        BY <3>3
      <3>5. \E x \in [byte : BOOLEAN, command : Commands] :
              ack' = ack \/ ack' = [ack EXCEPT ![p] = x]
        BY <3>2, <3>3, <3>4
      <3>6. QED
        BY <3>5 DEF LineType
    <2>2. LineType'
      BY <1>16, <2>1 DEF Answer, LineType
    <2>3. PortType' /\ ThreadType'
      BY <1>16 DEF Answer, PortType, ThreadType, busVars, threadVars
    <2>4. QED
      BY <2>2, <2>3
  <1>17. ASSUME NEW p \in Ports, AnswerUnheard(p)
         PROVE  PortType' /\ LineType' /\ ThreadType'
    BY <1>17 DEF AnswerUnheard, PortType, LineType, ThreadType, portVars, busVars, threadVars
  <1>18. CASE Tick
    BY <1>18, LimitsAssumption
       DEF Tick, PortType, LineType, ThreadType, busVars, uartVars
  <1>19. CASE UNCHANGED vars
    BY <1>19 DEF vars, PortType, LineType, ThreadType, portVars, busVars, threadVars, uartVars
  <1>20. QED
    BY <1>1, <1>2, <1>3, <1>4, <1>5, <1>6, <1>7, <1>8, <1>9, <1>10, <1>11, <1>12, <1>13,
       <1>14, <1>15, <1>16, <1>17, <1>18, <1>19
       DEF Next, BusStep, Client, Environment, Receive

\* Every variable keeps its type, in particular the loop index over the ports
\* and the tick count, which saturates.
THEOREM TypeCorrect == Spec => []TypeOK
  BY TypeInit, TypeNext, PTL DEF Spec

-----------------------------------------------------------------------------
(***************************************************************************)
(* BusInv, which no timing of panels and interrupts can break.             *)
(***************************************************************************)

\* The ports still to visit are the present one and those after it.
LEMMA ToVisitSteps ==
  ASSUME TypeOK
  PROVE  /\ at = 1 => ToVisit = Ports
         /\ ToVisit = {PortAt} \cup {ProcessOrder[i] : i \in at+1..4}
         /\ at = 4 => ToVisit = {PortAt}
  <1> at \in {1, 2, 3, 4}
    BY DEF TypeOK
  <1>1. ASSUME NEW i \in 1..4 PROVE i \in {1, 2, 3, 4}
    OBVIOUS
  <1>2. at = 1 => ToVisit = Ports
    BY <1>1 DEF ToVisit, ProcessOrder, Ports
  <1>3. at..4 = {at} \cup (at+1..4)
    OBVIOUS
  <1>4. ToVisit = {PortAt} \cup {ProcessOrder[i] : i \in at+1..4}
    BY <1>3 DEF ToVisit, PortAt
  <1>5. at = 4 => at+1..4 = {}
    OBVIOUS
  <1>6. QED
    BY <1>2, <1>4, <1>5

\* BusInv holds initially.
LEMMA BusInvInit == Init => BusInv
  <1> SUFFICES ASSUME Init PROVE BusInv
    OBVIOUS
  <1>1. TypeOK
    BY TypeInit
  <1>2. PairInv
    BY DEF Init, PairInv, Members, Ports
  <1>3. LoadInv /\ LineInv /\ LeftoverInv
    BY DEF Init, LoadInv, LineInv, LineOf, LeftoverInv, SendingStatuses
  <1>4. QED
    BY <1>1, <1>2, <1>3 DEF BusInv

\* What BusInv says of a port that is visited, and of a pair at the switch.
LEMMA VisitedPort ==
  ASSUME BusInv
  PROVE  /\ PortAt \in Ports
         /\ LineOf(PortAt)
         /\ pc = "store_send" => status[PortAt] \in SendingStatuses
         /\ pc = "store_receive" => /\ rx[PortAt] = "off"
                                    /\ loaded \ {"receive"} \subseteq {"send"}
         /\ pc = "store_receive" /\ status[PortAt] \in WaitingStatuses =>
              /\ loaded \ {"receive"} = {}
              /\ "send" \notin flags[PortAt]
              /\ ~tx[PortAt]
  <1>1. PortAt \in Ports /\ LineOf(PortAt)
    BY ProcessOrderPorts DEF BusInv, LineInv
  <1>2. loaded \subseteq {"send", "receive"}
    BY DEF BusInv, TypeOK
  <1>3. QED
    BY <1>1, <1>2 DEF BusInv, LoadInv, LineOf, SendingStatuses, WaitingStatuses

\* An unselected port is idle; its flags are clear when timeouts are checked.
LEMMA UnselectedPort ==
  ASSUME BusInv, NEW p \in Ports, ~selected[p]
  PROVE  /\ status[p] = "Idle" /\ ~tx[p] /\ rx[p] = "off"
         /\ "send" \notin flags[p]
         /\ pc \in {"timeout", "switch"} => flags[p] = {}
  BY DEF BusInv, LineInv, LineOf, LeftoverInv, SendingStatuses, WaitingStatuses

\* Steps that touch no line, no flag and no turn.
LEMMA LineUntouched ==
  ASSUME BusInv, UNCHANGED <<status, selected, flags, tx>>,
         \A p \in Ports : rx'[p] \in {rx[p], "off"},
         pc' # "panic" => pc # "panic"
  PROVE  LineInv'
  BY DEF BusInv, LineInv, LineOf

\* The calls of clients keep BusInv.
LEMMA BusInvClient ==
  ASSUME BusInv, TypeOK', Client
  PROVE  BusInv'
  <1>1. ASSUME NEW r \in Requests, SendNow(r)
        PROVE  BusInv'
    <2> DEFINE p == r.port
    <2>1. p \in Ports
      BY RequestFields DEF AnyRequest
    <2>2. status[p] = "Idle" /\ selected[p] /\ flags[p] = {} /\ ~tx[p]
      BY <1>1, <2>1 DEF SendNow, Free, BusInv, LineInv, LineOf, SendingStatuses
    <2>3. /\ status' = [status EXCEPT ![p] = "Sending_Command"]
          /\ rx'[p] \in {"response", "command_ack"}
          /\ tx'[p]
          /\ \A q \in Ports : q # p => rx'[q] = rx[q] /\ tx'[q] = tx[q]
          /\ UNCHANGED <<selected, flags, pc, at, loaded, selectedPorts, unselectedPorts>>
          /\ pc = "client"
      <3>1. /\ status' = [status EXCEPT ![p] = "Sending_Command"]
            /\ UNCHANGED <<selected, flags, pc, at, loaded, selectedPorts, unselectedPorts>>
            /\ pc = "client"
        BY <1>1 DEF SendNow, threadVars, busVars
      <3>2. StartRequests({p}, request', {})
        BY <1>1 DEF SendNow
      <3>3. \A q \in Ports : q # p => rx'[q] = rx[q] /\ tx'[q] = tx[q]
        <4>1. tx \in [Ports -> BOOLEAN]
          BY DEF BusInv, TypeOK
        <4>2. QED
          BY <3>2, <4>1 DEF StartRequests
      <3>4. rx'[p] \in {"response", "command_ack"} /\ tx'[p]
        BY <2>1, <3>2 DEF StartRequests
      <3>5. QED
        BY <3>1, <3>3, <3>4
    <2>4. LineInv'
      <3> SUFFICES ASSUME NEW q \in Ports PROVE LineOf(q)'
        BY DEF LineInv
      <3>1. LineOf(q)
        BY DEF BusInv, LineInv
      <3>2. status \in [Ports -> Statuses]
        BY DEF BusInv, TypeOK
      <3>3. CASE q = p
        BY <2>1, <2>2, <2>3, <3>2, <3>3 DEF LineOf, SendingStatuses
      <3>4. CASE q # p
        BY <2>1, <2>3, <3>1, <3>2, <3>4 DEF LineOf
      <3>5. QED
        BY <3>3, <3>4
    <2>5. PairInv' /\ LoadInv' /\ LeftoverInv'
      BY <2>3 DEF BusInv, PairInv, LoadInv, LeftoverInv, PortAt
    <2>6. QED
      BY <2>4, <2>5 DEF BusInv
  <1>2. ASSUME NEW r \in Requests, SendQueued(r)
        PROVE  BusInv'
    <2>1. /\ UNCHANGED <<status, selected, flags, tx, rx, at, loaded,
                          selectedPorts, unselectedPorts>>
          /\ pc = "client" /\ pc' \in {"client", "panic"}
      BY <1>2 DEF SendQueued, Panic, busVars, uartVars
    <2>2. LineInv'
      BY <2>1, LineUntouched
    <2>3. PairInv' /\ LoadInv' /\ LeftoverInv'
      BY <2>1 DEF BusInv, PairInv, LoadInv, LeftoverInv, PortAt
    <2>4. QED
      BY <2>2, <2>3 DEF BusInv
  <1>3. CASE TakeResponse
    <2>1. UNCHANGED <<status, selected, flags, tx, rx, at, loaded, pc,
                      selectedPorts, unselectedPorts>>
      BY <1>3 DEF TakeResponse, portVars, threadVars, uartVars
    <2>2. LineInv'
      BY <2>1, LineUntouched
    <2>3. PairInv' /\ LoadInv' /\ LeftoverInv'
      BY <2>1 DEF BusInv, PairInv, LoadInv, LeftoverInv, PortAt, ToVisit
    <2>4. QED
      BY <2>2, <2>3 DEF BusInv
  <1>4. CASE ProcessFlags
    <2>1. /\ UNCHANGED <<status, selected, flags, tx, rx, at, loaded,
                          selectedPorts, unselectedPorts>>
          /\ pc = "client" /\ pc' \in {"timeout", "test_send"}
          /\ pc' = "timeout" => \A p \in Ports : flags[p] = {}
      BY <1>4 DEF ProcessFlags, portVars, busVars, uartVars
    <2>2. LineInv'
      BY <2>1, LineUntouched
    <2>3. ToVisit' = Ports
      BY <2>1, ToVisitSteps DEF BusInv, LoadInv, ToVisit
    <2>4. PairInv' /\ LoadInv' /\ LeftoverInv'
      BY <2>1, <2>3 DEF BusInv, PairInv, LoadInv, LeftoverInv, PortAt
    <2>5. QED
      BY <2>2, <2>4 DEF BusInv
  <1>5. QED
    BY <1>1, <1>2, <1>3, <1>4 DEF Client

\* So do interrupts, panels and time.
LEMMA BusInvEnvironment ==
  ASSUME BusInv, TypeOK', Environment
  PROVE  BusInv'
  <1>1. ASSUME NEW p \in Ports, NEW answers \in BOOLEAN, SendComplete(p, answers)
        PROVE  BusInv'
    <2>1. /\ tx[p] /\ tx' = [tx EXCEPT ![p] = FALSE]
          /\ flags' = [flags EXCEPT ![p] = @ \cup {"send"}]
          /\ UNCHANGED <<status, selected, rx, at, loaded, pc, selectedPorts, unselectedPorts>>
      BY <1>1 DEF SendComplete, portVars, busVars, threadVars
    <2>2. tx \in [Ports -> BOOLEAN] /\ flags \in [Ports -> SUBSET {"send", "receive"}]
      BY DEF BusInv, TypeOK
    <2>3. status[p] \in SendingStatuses /\ selected[p]
      BY <2>1 DEF BusInv, LineInv, LineOf, SendingStatuses
    <2>4. LineInv'
      <3> SUFFICES ASSUME NEW q \in Ports PROVE LineOf(q)'
        BY DEF LineInv
      <3>1. LineOf(q)
        BY DEF BusInv, LineInv
      <3>2. CASE q = p
        BY <2>1, <2>2, <2>3, <3>1, <3>2 DEF LineOf, SendingStatuses
      <3>3. CASE q # p
        BY <2>1, <2>2, <3>1, <3>3 DEF LineOf
      <3>4. QED
        BY <3>2, <3>3
    <2>5. \A q \in Ports : flags[q] \subseteq flags'[q] /\ (~selected[q] => flags'[q] = flags[q])
      BY <2>1, <2>2, <2>3
    <2>6. PairInv' /\ LoadInv' /\ LeftoverInv'
      BY <2>1, <2>5, VisitedPort DEF BusInv, PairInv, LoadInv, LeftoverInv, PortAt, ToVisit
    <2>7. QED
      BY <2>4, <2>6 DEF BusInv
  <1>2. ASSUME NEW p \in Ports, Answer(p)
        PROVE  BusInv'
    <2>1. /\ rx[p] # "off" /\ rx' = [rx EXCEPT ![p] = "off"]
          /\ flags' = [flags EXCEPT ![p] = @ \cup {"receive"}]
          /\ UNCHANGED <<status, selected, tx, at, loaded, pc, selectedPorts, unselectedPorts>>
      BY <1>2 DEF Answer, busVars, threadVars
    <2>2. /\ flags \in [Ports -> SUBSET {"send", "receive"}]
          /\ rx \in [Ports -> {"off", "command_ack", "data_ack", "response"}]
      BY DEF BusInv, TypeOK
    <2>3. status[p] # "Idle" /\ selected[p]
      BY <2>1 DEF BusInv, LineInv, LineOf, SendingStatuses, WaitingStatuses
    <2>4. LineInv'
      <3> SUFFICES ASSUME NEW q \in Ports PROVE LineOf(q)'
        BY DEF LineInv
      <3>1. LineOf(q)
        BY DEF BusInv, LineInv
      <3>2. CASE q = p
        BY <2>1, <2>2, <2>3, <3>1, <3>2 DEF LineOf
      <3>3. CASE q # p
        BY <2>1, <2>2, <3>1, <3>3 DEF LineOf
      <3>4. QED
        BY <3>2, <3>3
    <2>5. \A q \in Ports : flags[q] \subseteq flags'[q] /\ (~selected[q] => flags'[q] = flags[q])
      BY <2>1, <2>2, <2>3
    <2>6. PairInv' /\ LoadInv' /\ LeftoverInv'
      BY <2>1, <2>5, VisitedPort DEF BusInv, PairInv, LoadInv, LeftoverInv, PortAt, ToVisit
    <2>7. QED
      BY <2>4, <2>6 DEF BusInv
  <1>3. CASE (\E p \in Ports : AnswerUnheard(p)) \/ Tick
    <2>1. UNCHANGED <<status, selected, flags, tx, rx, at, loaded, pc,
                      selectedPorts, unselectedPorts>>
      BY <1>3 DEF AnswerUnheard, Tick, portVars, busVars, threadVars, uartVars
    <2>2. LineInv'
      BY <2>1, LineUntouched
    <2>3. PairInv' /\ LoadInv' /\ LeftoverInv'
      BY <2>1 DEF BusInv, PairInv, LoadInv, LeftoverInv, PortAt, ToVisit
    <2>4. QED
      BY <2>2, <2>3 DEF BusInv
  <1>4. QED
    BY <1>1, <1>2, <1>3 DEF Environment

\* Going on with the next port leaves out the present one only.
LEMMA NextPortSteps ==
  ASSUME TypeOK, NEW first, NextPort(first)
  PROVE  \/ /\ pc' = first
            /\ ToVisit \ {PortAt} \subseteq ToVisit'
         \/ /\ pc' = "switch" /\ at' = 1
            /\ ToVisit = {PortAt}
  <1>1. at \in 1..4 /\ Len(ProcessOrder) = 4
    BY ProcessOrderPorts DEF TypeOK
  <1>2. CASE at < 4
    <2>1. at' = at + 1 /\ pc' = first
      BY <1>1, <1>2 DEF NextPort
    <2>2. ToVisit' = {ProcessOrder[i] : i \in at+1..4}
      BY <2>1 DEF ToVisit
    <2>3. QED
      BY <2>1, <2>2, ToVisitSteps
  <1>3. CASE at = 4
    BY <1>1, <1>3, ToVisitSteps DEF NextPort
  <1>4. QED
    BY <1>1, <1>2, <1>3

\* A step that changes the line of one port only.
LEMMA LineElsewhere ==
  ASSUME BusInv, NEW p \in Ports, LineOf(p)', selected' = selected,
         \A q \in Ports : q # p =>
           /\ status'[q] = status[q] /\ tx'[q] = tx[q]
           /\ rx'[q] = rx[q] /\ flags'[q] = flags[q],
         pc' # "panic" => pc # "panic"
  PROVE  LineInv'
  <1> SUFFICES ASSUME NEW q \in Ports, q # p PROVE LineOf(q)'
    BY DEF LineInv
  <1>1. LineOf(q)
    BY DEF BusInv, LineInv
  <1>2. QED
    BY <1>1 DEF LineOf

\* The check of a timeout keeps BusInv.
LEMMA BusInvTimeout ==
  ASSUME BusInv, TypeOK', CheckTimeout
  PROVE  BusInv'
  <1>0. PICK p \in Ports : p = PortAt
    BY VisitedPort
  <1>1. /\ UNCHANGED <<selected, flags, selectedPorts, unselectedPorts, tx>>
        /\ pc = "timeout"
        /\ NextPort("timeout")
    BY DEF CheckTimeout, busVars
  <1>2. LineOf(p)
    BY <1>0, VisitedPort
  <1>3. \/ UNCHANGED <<status, rx>>
        \/ /\ status[p] \in WaitingStatuses
           /\ status' = [status EXCEPT ![p] = "Done"]
           /\ rx' = [rx EXCEPT ![p] = "off"]
    BY <1>0 DEF CheckTimeout, TimedOut
  <1>4. pc' \in {"timeout", "switch"} /\ (pc' = "switch" => at' = 1)
    BY <1>1, NextPortSteps DEF BusInv
  <1>5. LineInv'
    <2>1. CASE UNCHANGED <<status, rx>>
      BY <1>1, <1>4, <2>1, LineUntouched
    <2>2. CASE /\ status[p] \in WaitingStatuses
               /\ status' = [status EXCEPT ![p] = "Done"]
               /\ rx' = [rx EXCEPT ![p] = "off"]
      <3>1. status'[p] = "Done" /\ rx'[p] = "off"
        BY <1>2, <2>2 DEF BusInv, TypeOK
      <3>2. \A q \in Ports : q # p => status'[q] = status[q] /\ rx'[q] = rx[q]
        BY <2>2 DEF BusInv, TypeOK
      <3>3. LineOf(p)'
        BY <1>1, <1>2, <2>2, <3>1 DEF LineOf, SendingStatuses, WaitingStatuses
      <3>4. QED
        BY <1>1, <1>2, <3>2, <3>3, LineElsewhere
    <2>3. QED
      BY <1>3, <2>1, <2>2
  <1>6. LoadInv' /\ PairInv'
    BY <1>1, <1>4 DEF BusInv, LoadInv, PairInv
  <1>7. LeftoverInv'
    BY <1>1, UnselectedPort DEF LeftoverInv
  <1>8. QED
    BY <1>5, <1>6, <1>7 DEF BusInv

\* So do the loads of flags bytes,
LEMMA BusInvTests ==
  ASSUME BusInv, TypeOK', TestSend \/ TestReceive
  PROVE  BusInv'
  <1>1. /\ UNCHANGED <<status, selected, flags, selectedPorts, unselectedPorts, tx, rx>>
        /\ pc \in {"test_send", "test_receive"}
    BY DEF TestSend, TestReceive, portVars, busVars, uartVars
  <1>2. PairInv'
    BY <1>1 DEF BusInv, PairInv
  <1>3. LineInv'
    BY <1>1, LineUntouched
  <1>4. CASE \/ TestSend
             \/ TestReceive /\ "receive" \in flags[PortAt]
    <2>1. /\ at' = at
          /\ \/ pc' = "test_receive"
             \/ pc' = "store_send" /\ loaded' = flags[PortAt] /\ "send" \in loaded'
             \/ pc' = "store_receive" /\ loaded' = flags[PortAt] /\ "receive" \in loaded'
      BY <1>4 DEF TestSend, TestReceive
    <2>2. LoadInv' /\ LeftoverInv'
      BY <1>1, <2>1 DEF BusInv, LoadInv, LeftoverInv, PortAt, ToVisit
    <2>3. QED
      BY <1>2, <1>3, <2>2 DEF BusInv
  <1>5. CASE TestReceive /\ "receive" \notin flags[PortAt]
    <2>1. \/ pc' = "test_send" /\ ToVisit \ {PortAt} \subseteq ToVisit'
          \/ pc' = "switch" /\ at' = 1 /\ ToVisit = {PortAt}
      BY <1>5, NextPortSteps DEF TestReceive, BusInv
    <2>2. LoadInv'
      BY <2>1 DEF LoadInv
    <2>3. LeftoverInv'
      <3> SUFFICES ASSUME NEW p \in Ports, ~selected[p], flags[p] # {}
                   PROVE  pc' = "test_send" /\ p \in ToVisit'
        BY <1>1 DEF LeftoverInv
      <3>1. p \in ToVisit
        BY <1>1 DEF BusInv, LeftoverInv
      <3>2. flags[p] \subseteq {"send", "receive"} /\ "send" \notin flags[p]
        BY UnselectedPort DEF BusInv, TypeOK
      <3>3. p # PortAt
        BY <1>5, <3>2
      <3>4. QED
        BY <2>1, <3>1, <3>3
    <2>4. QED
      BY <1>2, <1>3, <2>2, <2>3 DEF BusInv
  <1>6. QED
    BY <1>4, <1>5

\* the end of a send, which finds a status that sends,
LEMMA BusInvStoreSend ==
  ASSUME BusInv, TypeOK', StoreSend
  PROVE  BusInv' /\ panic' = panic
  <1>0. PICK p \in Ports : p = PortAt
    BY VisitedPort
  <1>1. LineOf(p) /\ status[p] \in SendingStatuses
    BY <1>0, VisitedPort DEF StoreSend
  <1>2. /\ UNCHANGED <<selected, selectedPorts, unselectedPorts, tx, rx, at>>
        /\ pc = "store_send" /\ pc' = "test_receive" /\ panic' = panic
        /\ flags' = [flags EXCEPT ![p] = loaded \ {"send"}]
        /\ status' = [status EXCEPT ![p] = AfterSend(p)]
    BY <1>0, <1>1 DEF StoreSend, busVars, uartVars
  <1>3. AfterSend(p) \in WaitingStatuses
    BY DEF AfterSend, WaitingStatuses
  <1>4. /\ status'[p] \in WaitingStatuses
        /\ flags'[p] \subseteq flags[p] \ {"send"}
        /\ \A q \in Ports : q # p => status'[q] = status[q] /\ flags'[q] = flags[q]
    <2>1. status \in [Ports -> Statuses] /\ flags \in [Ports -> SUBSET {"send", "receive"}]
      BY DEF BusInv, TypeOK
    <2>2. loaded \subseteq flags[p]
      BY <1>0, <1>2 DEF BusInv, LoadInv
    <2>3. QED
      BY <1>2, <1>3, <2>1, <2>2
  <1>5. selected[p] /\ "send" \in flags[p]
    BY <1>0, <1>1, <1>2 DEF LineOf, SendingStatuses, BusInv, LoadInv
  <1>6. LineInv'
    <2>1. LineOf(p)'
      BY <1>1, <1>2, <1>4, <1>5 DEF LineOf, SendingStatuses, WaitingStatuses
    <2>2. QED
      BY <1>1, <1>2, <1>4, <2>1, LineElsewhere
  <1>7. PairInv' /\ LoadInv'
    BY <1>2 DEF BusInv, PairInv, LoadInv
  <1>8. LeftoverInv'
    BY <1>2, <1>4, <1>5 DEF BusInv, LeftoverInv, ToVisit
  <1>9. QED
    BY <1>2, <1>6, <1>7, <1>8 DEF BusInv

\* the end of a receive,
LEMMA BusInvReceive ==
  ASSUME BusInv, TypeOK', NEW p \in Ports,
         ReceiveCommandAck(p) \/ ReceiveDataAck(p) \/ ReceiveResponse(p) \/ ReceiveUnexpected(p)
  PROVE  BusInv'
  <1>1. /\ p = PortAt /\ pc = "store_receive"
        /\ flags' = [flags EXCEPT ![p] = loaded \ {"receive"}]
        /\ UNCHANGED <<selected, selectedPorts, unselectedPorts>>
    BY DEF ReceiveCommandAck, ReceiveDataAck, ReceiveResponse, ReceiveUnexpected,
           StoreReceive, portVars, busVars
  <1>2. /\ LineOf(p) /\ rx[p] = "off"
        /\ status[p] \in WaitingStatuses =>
             loaded \ {"receive"} = {} /\ "send" \notin flags[p] /\ ~tx[p]
    BY <1>1, VisitedPort
  <1>3. /\ flags'[p] = loaded \ {"receive"}
        /\ \A q \in Ports : q # p => flags'[q] = flags[q]
    BY <1>1 DEF BusInv, TypeOK
  <1>4. "receive" \in flags[p] /\ loaded \subseteq flags[p]
    BY <1>1 DEF BusInv, LoadInv
  <1>5. PairInv'
    BY <1>1 DEF BusInv, PairInv
  <1>6. CASE ReceiveUnexpected(p)
    <2>1. UNCHANGED <<status, tx, rx>> /\ pc' = "panic"
      BY <1>6 DEF ReceiveUnexpected, Panic, portVars, uartVars
    <2>2. LineOf(p)'
      BY <1>1, <1>2, <1>3, <1>4, <2>1 DEF LineOf
    <2>3. LineInv'
      BY <1>1, <1>3, <2>1, <2>2, LineElsewhere
    <2>4. LoadInv' /\ LeftoverInv'
      BY <2>1 DEF LoadInv, LeftoverInv
    <2>5. QED
      BY <1>5, <2>3, <2>4 DEF BusInv
  <1>7. CASE ~ReceiveUnexpected(p)
    <2>1. status[p] \in WaitingStatuses
      BY <1>7 DEF ReceiveCommandAck, ReceiveDataAck, ReceiveResponse, WaitingStatuses
    <2>2. flags'[p] = {} /\ ~tx[p] /\ selected[p]
      BY <1>2, <1>3, <2>1 DEF LineOf, WaitingStatuses
    <2>3. \/ UNCHANGED <<status, tx, rx>> /\ pc' = "panic"
          \/ /\ status' = [status EXCEPT ![p] = "Done"]
             /\ UNCHANGED <<tx, rx>>
             /\ NextPort("test_send")
          \/ /\ status' = [status EXCEPT ![p] = "Sending_Data"]
             /\ tx' = [tx EXCEPT ![p] = TRUE]
             /\ rx' = [rx EXCEPT ![p] = DataReceive(p)]
             /\ NextPort("test_send")
      BY <1>7 DEF ReceiveCommandAck, ReceiveDataAck, ReceiveResponse, Finish, Panic, uartVars
    <2>4. \/ pc' = "panic"
          \/ /\ NextPort("test_send")
             /\ \/ pc' = "test_send" /\ ToVisit \ {PortAt} \subseteq ToVisit'
                \/ pc' = "switch" /\ at' = 1 /\ ToVisit = {PortAt}
      BY <2>3, NextPortSteps DEF BusInv
    <2>5. /\ \/ status'[p] = status[p] /\ ~tx'[p] /\ rx'[p] = "off"
             \/ status'[p] = "Done" /\ ~tx'[p] /\ rx'[p] = "off"
             \/ status'[p] = "Sending_Data" /\ tx'[p]
          /\ \A q \in Ports : q # p => /\ status'[q] = status[q]
                                       /\ tx'[q] = tx[q] /\ rx'[q] = rx[q]
      <3>1. /\ status \in [Ports -> Statuses] /\ tx \in [Ports -> BOOLEAN]
            /\ rx \in [Ports -> {"off", "command_ack", "data_ack", "response"}]
        BY DEF BusInv, TypeOK
      <3>2. QED
        BY <1>2, <2>2, <2>3, <3>1
    <2>6. LineOf(p)'
      BY <1>1, <2>1, <2>2, <2>5 DEF LineOf, SendingStatuses, WaitingStatuses
    <2>7. LineInv'
      BY <1>1, <1>3, <2>5, <2>6, LineElsewhere
    <2>8. LoadInv'
      BY <2>4 DEF LoadInv
    <2>9. LeftoverInv'
      <3> SUFFICES ASSUME NEW q \in Ports, ~selected[q], flags'[q] # {}, pc' # "panic"
                   PROVE  pc' = "test_send" /\ q \in ToVisit'
        BY <1>1 DEF LeftoverInv
      <3>1. q # p /\ flags[q] # {}
        BY <1>3, <2>2
      <3>2. q \in ToVisit
        BY <1>1, <3>1 DEF BusInv, LeftoverInv
      <3>3. QED
        BY <1>1, <2>4, <3>1, <3>2
    <2>10. QED
      BY <1>5, <2>7, <2>8, <2>9 DEF BusInv
  <1>8. QED
    BY <1>6, <1>7

\* The pairs share no port and hold all of them.
LEMMA PairsPartition ==
  ASSUME TypeOK, PairInv
  PROVE  /\ Members(selectedPorts) \cup Members(unselectedPorts) = Ports
         /\ Members(selectedPorts) \cap Members(unselectedPorts) = {}
  <1> DEFINE one == <<"Left", "Up">>
             two == <<"Right", "Down">>
  <1>1. \/ selectedPorts = one /\ unselectedPorts = two
        \/ selectedPorts = two /\ unselectedPorts = one
    BY DEF TypeOK, PairInv
  <1>2. Members(one) = {"Left", "Up"} /\ Members(two) = {"Right", "Down"}
    BY DEF Members
  <1>3. QED
    BY <1>1, <1>2 DEF Ports

\* and the switch: the ports that get the turn have no flags left.
LEMMA BusInvSwitch ==
  ASSUME BusInv, TypeOK', SwitchPorts
  PROVE  BusInv'
  <1> DEFINE old == Members(selectedPorts)
             new == Members(unselectedPorts)
  <1>1. old \cup new = Ports /\ old \cap new = {} /\ Starting \subseteq new
    BY PairsPartition DEF BusInv, Starting
  <1>2. /\ pc = "switch" /\ pc' = "client" /\ at' = at /\ flags' = flags
        /\ selectedPorts' = unselectedPorts
        /\ unselectedPorts' = selectedPorts
        /\ selected' = [p \in Ports |-> p \in new]
        /\ status' = [p \in Ports |->
                        CASE p \in Starting -> "Sending_Command"
                          [] p \in old -> "Idle"
                          [] OTHER -> status[p]]
        /\ \A p \in old : status[p] \in {"Idle", "Done"}
    BY DEF SwitchPorts
  <1>3. StartRequests(Starting, request', Disconnected)
    BY DEF SwitchPorts
  <1>4. \A p \in Ports : p \in old <=> selected[p]
    BY DEF BusInv, PairInv
  <1>5. PairInv'
    <2>1. \A p \in Ports : selected'[p] <=> p \in Members(selectedPorts)'
      BY <1>2 DEF Members
    <2>2. QED
      BY <1>2, <2>1 DEF BusInv, PairInv
  <1>6. LoadInv' /\ LeftoverInv'
    BY <1>2 DEF BusInv, LoadInv, LeftoverInv
  <1>7. ASSUME NEW p \in old
        PROVE  LineOf(p)'
    <2>1. /\ p \in Ports /\ p \notin new /\ p \notin Starting
          /\ ~selected'[p] /\ status'[p] = "Idle"
      BY <1>1, <1>2
    <2>2. ~tx[p] /\ "send" \notin flags[p] /\ rx[p] = "off"
      BY <1>2, <2>1 DEF BusInv, LineInv, LineOf, SendingStatuses, WaitingStatuses
    <2>3. ~tx'[p] /\ rx'[p] = "off"
      BY <1>3, <2>1, <2>2 DEF StartRequests
    <2>4. QED
      BY <1>2, <2>1, <2>2, <2>3 DEF LineOf, SendingStatuses
  <1>8. ASSUME NEW p \in new
        PROVE  LineOf(p)'
    <2>1. p \in Ports /\ p \notin old /\ ~selected[p] /\ selected'[p]
      BY <1>1, <1>2, <1>4
    <2>2. status[p] = "Idle" /\ ~tx[p] /\ rx[p] = "off" /\ flags[p] = {}
      BY <1>2, <2>1, UnselectedPort
    <2>3. CASE p \in Starting
      <3>1. status'[p] = "Sending_Command" /\ tx'[p]
        BY <1>2, <1>3, <2>1, <2>3 DEF StartRequests
      <3>2. QED
        BY <1>2, <2>1, <2>2, <3>1 DEF LineOf, SendingStatuses
    <2>4. CASE p \notin Starting
      <3>1. status'[p] = "Idle" /\ ~tx'[p] /\ rx'[p] = "off"
        BY <1>2, <1>3, <2>1, <2>2, <2>4 DEF StartRequests
      <3>2. QED
        BY <1>2, <2>1, <2>2, <3>1 DEF LineOf, SendingStatuses
    <2>5. QED
      BY <2>3, <2>4
  <1>9. LineInv'
    BY <1>1, <1>7, <1>8 DEF LineInv
  <1>10. QED
    BY <1>5, <1>6, <1>9 DEF BusInv

\* BusInv is inductive.
LEMMA BusInvNext == BusInv /\ [Next]_vars => BusInv'
  <1> SUFFICES ASSUME BusInv, [Next]_vars PROVE BusInv'
    OBVIOUS
  <1>1. TypeOK'
    BY TypeNext DEF BusInv
  <1>2. CASE StaySelected \/ UNCHANGED vars
    <2>1. /\ UNCHANGED <<status, selected, flags, tx, rx, at, loaded,
                          selectedPorts, unselectedPorts>>
          /\ pc' = pc \/ (pc = "switch" /\ pc' = "client")
      BY <1>2 DEF StaySelected, vars, portVars, busVars, threadVars, uartVars
    <2>2. LineInv'
      BY <2>1, LineUntouched
    <2>3. PairInv' /\ LoadInv'
      BY <2>1 DEF BusInv, PairInv, LoadInv, PortAt
    <2>4. LeftoverInv'
      BY <2>1 DEF BusInv, LeftoverInv, ToVisit
    <2>5. QED
      BY <1>1, <2>2, <2>3, <2>4 DEF BusInv
  <1>3. QED
    BY <1>1, <1>2, BusInvClient, BusInvEnvironment, BusInvTimeout, BusInvTests,
       BusInvStoreSend, BusInvReceive, BusInvSwitch
       DEF Next, BusStep, Receive

\* BusInv holds throughout.
LEMMA BusInvariant == Spec => []BusInv
  BY BusInvInit, BusInvNext, PTL DEF Spec

\* A sending port has its send running or the flag of its end set, whatever
\* flags are lost to the load and store of a flags byte (msgbus.c:133-143).
THEOREM SendsAreNeverLost == Spec => []SendNeverLost
  <1>1. BusInv => SendNeverLost
    BY DEF BusInv, LineInv, LineOf, SendNeverLost, SendingStatuses
  <1>2. QED
    BY <1>1, BusInvariant, PTL

\* process_send_complete() never panics (msgbus.c:303-311), however late the
\* panels answer and however the interrupts fall.
THEOREM SendsAreNeverUnexpected == Spec => []SendNeverUnexpected
  <1>1. Init => SendNeverUnexpected
    BY DEF Init, SendNeverUnexpected
  <1>2. BusInv /\ SendNeverUnexpected /\ [Next]_vars => SendNeverUnexpected'
    <2> SUFFICES ASSUME BusInv, SendNeverUnexpected, [Next]_vars
                 PROVE  SendNeverUnexpected'
      OBVIOUS
    <2>1. CASE StoreSend
      <3>1. TypeOK'
        BY TypeNext DEF BusInv
      <3>2. QED
        BY <2>1, <3>1, BusInvStoreSend DEF SendNeverUnexpected
    <2>2. panic' \in {panic, "QueueFull", "RecvCpltNoAck", "RecvCpltInvalidStatus"} \/ StoreSend
      <3>1. CASE BusStep
        BY <3>1 DEF BusStep, CheckTimeout, TestSend, TestReceive, Receive, ReceiveCommandAck,
           ReceiveDataAck, ReceiveResponse, ReceiveUnexpected, Panic, StaySelected, SwitchPorts
      <3>2. CASE Client
        BY <3>2 DEF Client, ProcessFlags, SendNow, SendQueued, TakeResponse, Panic
      <3>3. CASE Environment \/ UNCHANGED vars
        BY <3>3 DEF Environment, SendComplete, Answer, AnswerUnheard, Tick, vars
      <3>4. QED
        BY <3>1, <3>2, <3>3 DEF Next
    <2>3. QED
      BY <2>1, <2>2 DEF SendNeverUnexpected
  <1>3. QED
    BY <1>1, <1>2, BusInvariant, PTL DEF Spec

\* A port is quiet as long as it has not its turn, so that moving USART2
\* between Up and Right (uart.c:169-231) cuts no transfer short.
THEOREM UnselectedPortsAreQuiet == Spec => []QuietWhenUnselected
  <1>1. BusInv => QuietWhenUnselected
    BY UnselectedPort DEF QuietWhenUnselected
  <1>2. QED
    BY <1>1, BusInvariant, PTL

\* The request whose bytes the DMA reads is replaced only when the port's line
\* is quiet and none of its interrupts is left to process (msgbus.c:231, 442).
THEOREM RequestsAreStable == Spec => RequestStable
  <1>1. ASSUME BusInv, [Next]_vars, NEW p \in Ports, request'[p] # request[p]
        PROVE  ~tx[p] /\ rx[p] = "off" /\ flags[p] = {}
    <2>1. request \in [Ports -> AnyRequest]
      BY <1>1 DEF BusInv, TypeOK, AnyRequest
    <2>2. ASSUME NEW r \in Requests, SendNow(r)
          PROVE  selected[p] /\ status[p] = "Idle"
      BY <1>1, <2>1, <2>2 DEF SendNow, Free
    <2>3. CASE SwitchPorts
      <3>1. p \in Starting
        BY <1>1, <2>1, <2>3 DEF SwitchPorts
      <3>2. p \notin Members(selectedPorts)
        BY <1>1, <3>1, PairsPartition DEF BusInv, Starting
      <3>3. pc = "switch" /\ ~selected[p]
        BY <1>1, <2>3, <3>2 DEF SwitchPorts, BusInv, PairInv
      <3>4. QED
        BY <1>1, <3>3, UnselectedPort
    <2>4. \/ \E r \in Requests : SendNow(r)
          \/ SwitchPorts
      <3>1. CASE BusStep
        BY <1>1, <3>1 DEF BusStep, CheckTimeout, TestSend, TestReceive, StoreSend, Receive,
           ReceiveCommandAck, ReceiveDataAck, ReceiveResponse, ReceiveUnexpected,
           StaySelected, portVars
      <3>2. CASE Client
        BY <1>1, <3>2 DEF Client, ProcessFlags, SendQueued, TakeResponse, portVars
      <3>3. CASE Environment \/ UNCHANGED vars
        BY <1>1, <3>3 DEF Environment, SendComplete, Answer, AnswerUnheard, Tick, vars, portVars
      <3>4. QED
        BY <1>1, <3>1, <3>2, <3>3 DEF Next
    <2>5. selected[p] /\ status[p] = "Idle" => ~tx[p] /\ rx[p] = "off" /\ flags[p] = {}
      BY <1>1 DEF BusInv, LineInv, LineOf, SendingStatuses, WaitingStatuses
    <2>6. QED
      BY <2>2, <2>3, <2>4, <2>5
  <1>2. BusInv /\ [Next]_vars =>
          [\A p \in Ports : request'[p] # request[p] =>
             ~tx[p] /\ rx[p] = "off" /\ flags[p] = {}]_vars
    BY <1>1
  <1>3. QED
    BY <1>2, BusInvariant, PTL DEF Spec, RequestStable

-----------------------------------------------------------------------------
(***************************************************************************)
(* With panels that answer well before the timeout the state machine of    *)
(* MsgBus never panics, and with few requests a port the firmware never    *)
(* stops: PromptInv and QueueInv are inductive.                            *)
(***************************************************************************)

\* The waiting statuses and the sending ones, and the others.
LEMMA StatusesApart ==
  /\ \A s \in SendingStatuses : s \notin WaitingStatuses /\ s \notin {"Idle", "Done"}
  /\ \A s \in WaitingStatuses : s \notin SendingStatuses /\ s \notin {"Idle", "Done"}
  BY DEF SendingStatuses, WaitingStatuses

\* A step that does not touch a port keeps what is said of it.
LEMMA PromptKept ==
  ASSUME NEW p \in Ports, PromptOf(p),
         status'[p] = status[p], request'[p] = request[p], ack'[p] = ack[p],
         rx'[p] = rx[p], tx'[p] = tx[p], flags'[p] = flags[p],
         owes'[p] = owes[p], waited'[p] = waited[p],
         pc' = "timeout" => \/ pc = "timeout" /\ ticked' = ticked
                            \/ flags[p] = {}
  PROVE  PromptOf(p)'
  <1>1. Expected(p)' = Expected(p)
    BY DEF Expected, AnswersAtOnce, DataReceive
  <1>2. ReceiveOf(p)'
    BY <1>1 DEF PromptOf, ReceiveOf
  <1>3. AnswerOf(p)'
    BY <1>1 DEF PromptOf, AnswerOf, Acknowledged
  <1>4. TimeOf(p)'
    BY DEF PromptOf, TimeOf
  <1> QED
    BY <1>2, <1>3, <1>4 DEF PromptOf

\* PromptInv holds initially.
LEMMA PromptInit == ASSUME PromptAnswers, Init PROVE PromptInv
  <1>1. BusInv
    BY BusInvInit
  <1>2. \A p \in Ports : PromptOf(p)
    BY DEF Init, PromptOf, ReceiveOf, AnswerOf, TimeOf, SendingStatuses, WaitingStatuses
  <1>3. OrderInv /\ OnlyOverflow
    BY DEF Init, OrderInv, OnlyOverflow
  <1> QED
    BY <1>1, <1>2, <1>3 DEF PromptInv

\* A port without request: its line is quiet and it owes nothing.
LEMMA RestingPort ==
  ASSUME PromptInv, NEW p \in Ports, status[p] \in {"Idle", "Done"}
  PROVE  ~tx[p] /\ rx[p] = "off" /\ ~owes[p] /\ flags[p] = {}
  <1>1. LineOf(p) /\ PromptOf(p)
    BY DEF PromptInv, BusInv, LineInv
  <1>2. ~tx[p] /\ "send" \notin flags[p] /\ rx[p] = "off"
    BY <1>1 DEF LineOf, SendingStatuses, WaitingStatuses
  <1>3. ~owes[p] /\ "receive" \notin flags[p]
    BY <1>1, <1>2 DEF PromptOf, ReceiveOf, AnswerOf, WaitingStatuses
  <1>4. flags[p] \subseteq {"send", "receive"}
    BY DEF PromptInv, BusInv, TypeOK
  <1> QED
    BY <1>2, <1>3, <1>4

\* A port whose request starts: the receive is armed for the first answer.
LEMMA StartedPort ==
  ASSUME NEW p \in Ports, flags'[p] = {}, ~owes'[p], tx'[p],
         status'[p] = "Sending_Command",
         rx'[p] = IF AnswersAtOnce(request'[p]) THEN "response" ELSE "command_ack"
  PROVE  PromptOf(p)'
  <1>1. rx'[p] = Expected(p)'
    BY DEF Expected, AnswersAtOnce
  <1>2. rx'[p] # "off"
    OBVIOUS
  <1> QED
    BY <1>1, <1>2 DEF PromptOf, ReceiveOf, AnswerOf, TimeOf, SendingStatuses, WaitingStatuses

\* A port that comes to rest.
LEMMA RestedPort ==
  ASSUME NEW p \in Ports, status'[p] \in {"Idle", "Done"}, flags'[p] = {},
         ~owes'[p], ~tx'[p], rx'[p] = "off"
  PROVE  PromptOf(p)'
  BY DEF PromptOf, ReceiveOf, AnswerOf, TimeOf, SendingStatuses, WaitingStatuses

-----------------------------------------------------------------------------
\* A request that starts arms its receive,
LEMMA PromptSendNow ==
  ASSUME PromptInv, NEW r \in Requests, SendNow(r)
  PROVE  (\A q \in Ports : PromptOf(q)') /\ OrderInv' /\ OnlyOverflow'
  <1> DEFINE p == r.port
  <1>1. p \in Ports
    BY RequestFields DEF AnyRequest
  <1>2. /\ pc = "client" /\ status[p] = "Idle"
        /\ request' = [request EXCEPT ![p] = r]
        /\ status' = [status EXCEPT ![p] = "Sending_Command"]
        /\ StartRequests({p}, request', {})
        /\ UNCHANGED <<waited, flags, pc, at, loaded, ticked, panic, owes>>
    BY DEF SendNow, Free, threadVars
  <1>3. ~tx[p] /\ rx[p] = "off" /\ ~owes[p] /\ flags[p] = {}
    BY <1>1, <1>2, RestingPort
  <1>4. PromptOf(p)'
    <2>1. /\ status'[p] = "Sending_Command"
          /\ tx'[p]
          /\ rx'[p] = IF AnswersAtOnce(request'[p]) THEN "response" ELSE "command_ack"
      BY <1>1, <1>2 DEF StartRequests, PromptInv, BusInv, TypeOK
    <2> QED
      BY <1>1, <1>2, <1>3, <2>1, StartedPort
  <1>5. ASSUME NEW q \in Ports, q # p
        PROVE  PromptOf(q)'
    <2>1. /\ status'[q] = status[q] /\ request'[q] = request[q] /\ ack'[q] = ack[q]
          /\ rx'[q] = rx[q] /\ (tx'[q] = tx[q])
      <3>1. tx[q] \in BOOLEAN
        BY DEF PromptInv, BusInv, TypeOK
      <3>2. tx'[q] = tx[q]
        BY <1>2, <1>5, <3>1 DEF StartRequests
      <3>3. rx'[q] = rx[q] /\ ack'[q] = ack[q]
        BY <1>2, <1>5 DEF StartRequests
      <3> QED
        BY <1>2, <1>5, <3>2, <3>3 DEF PromptInv, BusInv, TypeOK
    <2> QED
      BY <1>2, <2>1, PromptKept DEF PromptInv
  <1>6. OrderInv' /\ OnlyOverflow'
    BY <1>2 DEF PromptInv, OrderInv, OnlyOverflow
  <1> QED
    BY <1>4, <1>5, <1>6

\* the other calls of clients change no port,
LEMMA PromptClient ==
  ASSUME PromptInv, Client
  PROVE  (\A q \in Ports : PromptOf(q)') /\ OrderInv' /\ OnlyOverflow'
  <1>1. ASSUME NEW r \in Requests, SendQueued(r)
        PROVE  (\A q \in Ports : PromptOf(q)') /\ OrderInv' /\ OnlyOverflow'
    <2>1. /\ UNCHANGED <<status, request, waited, ack, flags, at, ticked, tx, rx, owes>>
          /\ pc = "client" /\ pc' \in {"client", "panic"}
          /\ panic' \in {panic, "QueueFull"}
      BY <1>1 DEF SendQueued, Panic, uartVars
    <2>2. \A q \in Ports : PromptOf(q)'
      BY <2>1, PromptKept DEF PromptInv
    <2> QED
      BY <2>1, <2>2 DEF PromptInv, OrderInv, OnlyOverflow
  <1>2. CASE TakeResponse
    <2>1. UNCHANGED <<status, request, waited, ack, flags, at, ticked, tx, rx, owes, pc, panic>>
      BY <1>2 DEF TakeResponse, portVars, threadVars, uartVars
    <2>2. \A q \in Ports : PromptOf(q)'
      BY <2>1, PromptKept DEF PromptInv
    <2> QED
      BY <2>1, <2>2 DEF PromptInv, OrderInv, OnlyOverflow, PortAt
  <1>3. CASE ProcessFlags
    <2>1. /\ UNCHANGED <<status, request, waited, ack, flags, at, ticked, tx, rx, owes, panic>>
          /\ pc = "client" /\ pc' \in {"timeout", "test_send"}
          /\ pc' = "timeout" => \A p \in Ports : flags[p] = {}
      BY <1>3 DEF ProcessFlags, portVars, uartVars
    <2>2. \A q \in Ports : PromptOf(q)'
      BY <2>1, PromptKept DEF PromptInv
    <2> QED
      BY <2>1, <2>2 DEF PromptInv, OrderInv, OnlyOverflow
  <1> QED
    BY <1>1, <1>2, <1>3, PromptSendNow DEF Client

\* No answer is due, and none waits to be processed, when a port times out.
LEMMA PromptTimeout ==
  ASSUME PromptAnswers, PromptInv, CheckTimeout
  PROVE  (\A q \in Ports : PromptOf(q)') /\ OrderInv' /\ OnlyOverflow'
  <1>0. PICK p \in Ports : p = PortAt
    BY VisitedPort DEF PromptInv
  <1>1. /\ UNCHANGED <<request, ack, flags, panic, tx, owes>>
        /\ pc = "timeout" /\ pc' \in {"timeout", "switch"}
        /\ ticked' = (ticked /\ pc' = "timeout")
    BY DEF CheckTimeout, NextPort
  <1>2. ticked \in BOOLEAN
    BY DEF PromptInv, BusInv, TypeOK
  <1>3. pc' = "timeout" => ticked' = ticked
    BY <1>1, <1>2
  <1>4. OrderInv' /\ OnlyOverflow'
    BY <1>1 DEF PromptInv, OrderInv, OnlyOverflow
  <1>5. CASE TimedOut(p)
    <2>1. /\ rx' = [rx EXCEPT ![p] = "off"]
          /\ status' = [status EXCEPT ![p] = "Done"]
          /\ waited' = [waited EXCEPT ![p] = 0]
      BY <1>0, <1>5 DEF CheckTimeout
    <2>2. /\ rx'[p] = "off" /\ status'[p] = "Done"
          /\ \A q \in Ports : q # p => /\ rx'[q] = rx[q] /\ status'[q] = status[q]
                                       /\ waited'[q] = waited[q]
      BY <2>1 DEF PromptInv, BusInv, TypeOK
    <2>3. status[p] \in WaitingStatuses /\ waited[p] > TimeoutTicks
      BY <1>5 DEF TimedOut
    <2>4. waited[p] \in Int /\ TimeoutTicks \in Int /\ AnswerTicks \in Int
      BY LimitsAssumption DEF PromptInv, BusInv, TypeOK
    <2>5. LineOf(p) /\ ReceiveOf(p) /\ TimeOf(p)
      BY DEF PromptInv, PromptOf, BusInv, LineInv
    <2>6. ~owes[p] /\ "receive" \notin flags[p]
      <3>1. AnswerTicks < TimeoutTicks
        BY DEF PromptAnswers
      <3>2. ~(waited[p] <= AnswerTicks) /\ ~(waited[p] <= AnswerTicks + 0)
              /\ ~(waited[p] <= AnswerTicks + 1)
        BY <2>3, <2>4, <3>1
      <3> QED
        BY <1>1, <2>3, <2>5, <3>2 DEF TimeOf
    <2>7. ~tx[p] /\ "send" \notin flags[p]
      BY <2>3, <2>5, StatusesApart DEF LineOf
    <2>8. flags[p] = {}
      BY <2>6, <2>7 DEF PromptInv, BusInv, TypeOK
    <2>9. PromptOf(p)'
      BY <1>1, <2>2, <2>6, <2>7, <2>8, RestedPort
    <2>10. \A q \in Ports : q # p => PromptOf(q)'
      BY <1>1, <1>3, <2>2, PromptKept DEF PromptInv
    <2> QED
      BY <1>4, <2>9, <2>10
  <1>6. CASE ~TimedOut(p)
    <2>1. UNCHANGED <<rx, status, waited>>
      BY <1>0, <1>6 DEF CheckTimeout
    <2>2. \A q \in Ports : PromptOf(q)'
      BY <1>1, <1>3, <2>1, PromptKept DEF PromptInv
    <2> QED
      BY <1>4, <2>2
  <1> QED
    BY <1>5, <1>6

\* The main thread looks for the receive when the send has been seen to.
LEMMA PromptTests ==
  ASSUME PromptInv, TestSend \/ TestReceive
  PROVE  (\A q \in Ports : PromptOf(q)') /\ OrderInv' /\ OnlyOverflow'
  <1>0. PICK p \in Ports : p = PortAt
    BY VisitedPort DEF PromptInv
  <1>1. /\ UNCHANGED <<status, request, waited, ack, flags, tx, rx, owes, panic, ticked>>
        /\ pc \in {"test_send", "test_receive"}
        /\ pc' # "timeout"
    BY DEF TestSend, TestReceive, NextPort, portVars, uartVars
  <1>2. \A q \in Ports : PromptOf(q)'
    BY <1>1, PromptKept DEF PromptInv
  <1>3. ~ticked
    BY <1>1 DEF PromptInv, OrderInv
  <1>4. CASE TestSend
    <2>1. at' = at /\ (pc' = "test_receive" => "send" \notin flags[PortAt]) /\ pc' # "store_receive"
      BY <1>4 DEF TestSend
    <2> QED
      BY <1>1, <1>2, <1>3, <2>1 DEF OrderInv, PromptInv, OnlyOverflow, PortAt
  <1>5. CASE TestReceive /\ "receive" \notin flags[PortAt]
    <2>1. pc' \in {"test_send", "switch"}
      BY <1>5 DEF TestReceive, NextPort
    <2> QED
      BY <1>1, <1>2, <1>3, <2>1 DEF OrderInv, PromptInv, OnlyOverflow
  <1>6. CASE TestReceive /\ "receive" \in flags[PortAt]
    <2>1. at' = at /\ pc' = "store_receive" /\ pc = "test_receive"
      BY <1>6 DEF TestReceive
    <2>2. status[p] \in WaitingStatuses
      BY <1>0, <1>6, <2>1 DEF PromptInv, OrderInv, PromptOf, AnswerOf
    <2> QED
      BY <1>0, <1>1, <1>2, <1>3, <2>1, <2>2 DEF OrderInv, PromptInv, OnlyOverflow, PortAt
  <1> QED
    BY <1>4, <1>5, <1>6

-----------------------------------------------------------------------------
\* After a send the receive is armed for what the panel sends next.
LEMMA PromptStoreSend ==
  ASSUME PromptInv, StoreSend
  PROVE  (\A q \in Ports : PromptOf(q)') /\ OrderInv' /\ OnlyOverflow'
  <1>0. PICK p \in Ports : p = PortAt
    BY VisitedPort DEF PromptInv
  <1>1. status[p] \in SendingStatuses
    BY <1>0, VisitedPort DEF StoreSend, PromptInv
  <1>2. /\ pc = "store_send" /\ pc' = "test_receive"
        /\ flags' = [flags EXCEPT ![p] = loaded \ {"send"}]
        /\ status' = [status EXCEPT ![p] = AfterSend(p)]
        /\ waited' = [waited EXCEPT ![p] = 0]
        /\ UNCHANGED <<request, ack, at, ticked, panic, tx, rx, owes>>
    BY <1>0, <1>1 DEF StoreSend, uartVars
  <1>3. /\ status'[p] = AfterSend(p)
        /\ flags'[p] = loaded \ {"send"}
        /\ waited'[p] = 0
        /\ \A q \in Ports : q # p => /\ status'[q] = status[q]
                                     /\ flags'[q] = flags[q]
                                     /\ waited'[q] = waited[q]
    BY <1>2 DEF PromptInv, BusInv, TypeOK
  <1>4. loaded \subseteq flags[p] /\ "send" \in flags[p]
    BY <1>0, <1>2 DEF PromptInv, BusInv, LoadInv
  <1>5. LineOf(p) /\ ReceiveOf(p) /\ AnswerOf(p)
    BY DEF PromptInv, PromptOf, BusInv, LineInv
  <1>6. ~tx[p]
    BY <1>4, <1>5 DEF LineOf
  <1>7. AfterSend(p) \in WaitingStatuses
    BY DEF AfterSend, WaitingStatuses
  <1>8. Expected(p)' = Expected(p)
    <2>1. request[p].response \in BOOLEAN /\ request[p].data \in BOOLEAN
      BY RequestFields DEF PromptInv, BusInv, TypeOK, AnyRequest
    <2>2. CASE status[p] = "Sending_Command"
      BY <1>2, <1>3, <2>1, <2>2 DEF Expected, AfterSend, AnswersAtOnce
    <2>3. CASE status[p] = "Sending_Data"
      BY <1>2, <1>3, <2>1, <2>3 DEF Expected, AfterSend, DataReceive
    <2> QED
      BY <1>1, <2>2, <2>3 DEF SendingStatuses
  <1>9. ReceiveOf(p)'
    <2>1. status'[p] = "Awaiting_Data_Ack" => status[p] = "Sending_Data" /\ ~request[p].response
      BY <1>1, <1>3 DEF AfterSend, SendingStatuses
    <2>2. status'[p] \notin SendingStatuses \cup {"Sending_Data"}
      BY <1>3, <1>7, StatusesApart DEF SendingStatuses
    <2> QED
      BY <1>2, <1>5, <1>6, <1>8, <2>1, <2>2 DEF ReceiveOf
  <1>10. AnswerOf(p)'
    BY <1>2, <1>3, <1>4, <1>5, <1>7, <1>8 DEF AnswerOf, Acknowledged
  <1>11. TimeOf(p)'
    BY <1>2, <1>3, LimitsAssumption DEF TimeOf
  <1>12. \A q \in Ports : q # p => PromptOf(q)'
    BY <1>2, <1>3, PromptKept DEF PromptInv
  <1>13. OrderInv'
    <2>1. PortAt' = p
      BY <1>0, <1>2 DEF PortAt
    <2> QED
      BY <1>2, <1>3, <2>1 DEF PromptInv, OrderInv
  <1> QED
    BY <1>2, <1>9, <1>10, <1>11, <1>12, <1>13 DEF PromptInv, PromptOf, OnlyOverflow

\* A completed receive has the acknowledgement that was asked for; the receive
\* for what follows the data is armed when the data goes out.
LEMMA PromptReceive ==
  ASSUME PromptInv, NEW p \in Ports,
         ReceiveCommandAck(p) \/ ReceiveDataAck(p) \/ ReceiveResponse(p) \/ ReceiveUnexpected(p)
  PROVE  (\A q \in Ports : PromptOf(q)') /\ OrderInv' /\ OnlyOverflow'
  <1>1. /\ p = PortAt /\ pc = "store_receive"
        /\ flags' = [flags EXCEPT ![p] = loaded \ {"receive"}]
        /\ UNCHANGED <<request, ticked, owes>>
    BY DEF ReceiveCommandAck, ReceiveDataAck, ReceiveResponse, ReceiveUnexpected,
           StoreReceive, portVars, uartVars
  <1>2. status[p] \in WaitingStatuses
    BY <1>1 DEF PromptInv, OrderInv
  <1>3. ~ReceiveUnexpected(p)
    BY <1>2 DEF ReceiveUnexpected
  <1>4. /\ loaded \ {"receive"} = {} /\ ~tx[p] /\ rx[p] = "off"
        /\ "receive" \in flags[p]
    BY <1>1, <1>2, VisitedPort DEF PromptInv, BusInv, LoadInv
  <1>5. /\ flags'[p] = {}
        /\ \A q \in Ports : q # p => flags'[q] = flags[q]
    BY <1>1, <1>4 DEF PromptInv, BusInv, TypeOK
  <1>6. ReceiveOf(p) /\ AnswerOf(p)
    BY DEF PromptInv, PromptOf
  <1>7. ~owes[p] /\ ~ticked
    BY <1>1, <1>4, <1>6 DEF ReceiveOf, PromptInv, OrderInv
  <1>8. /\ status[p] \in {"Awaiting_Command_Ack", "Awaiting_Data_Ack"} => Acknowledged(p)
    <2>1. CASE status[p] = "Awaiting_Command_Ack"
      BY <1>4, <1>6, <2>1 DEF AnswerOf, Expected
    <2>2. CASE status[p] = "Awaiting_Data_Ack"
      BY <1>4, <1>6, <2>2 DEF AnswerOf, ReceiveOf, Expected, Acknowledged
    <2> QED
      BY <2>1, <2>2
  <1>9. \/ /\ Finish(p)
           /\ UNCHANGED <<tx, rx>>
           /\ UNCHANGED ack \/ ForgetAck(p)
        \/ /\ status' = [status EXCEPT ![p] = "Sending_Data"]
           /\ waited' = [waited EXCEPT ![p] = 0]
           /\ rx' = [rx EXCEPT ![p] = DataReceive(p)]
           /\ tx' = [tx EXCEPT ![p] = TRUE]
           /\ ForgetAck(p)
           /\ status[p] = "Awaiting_Command_Ack"
           /\ request[p].data
    BY <1>3, <1>8 DEF ReceiveCommandAck, ReceiveDataAck, ReceiveResponse, uartVars
  <1>10. NextPort("test_send") /\ panic' = panic
    BY <1>3, <1>8 DEF ReceiveCommandAck, ReceiveDataAck, ReceiveResponse
  <1>11. pc' \in {"test_send", "switch"}
    BY <1>10 DEF NextPort
  <1>12. \A q \in Ports : q # p => PromptOf(q)'
    <2> SUFFICES ASSUME NEW q \in Ports, q # p PROVE PromptOf(q)'
      OBVIOUS
    <2>1. status'[q] = status[q] /\ waited'[q] = waited[q] /\ rx'[q] = rx[q] /\ tx'[q] = tx[q]
      BY <1>9 DEF Finish, PromptInv, BusInv, TypeOK
    <2>2. ack'[q] = ack[q]
      BY <1>9 DEF ForgetAck, PromptInv, BusInv, TypeOK
    <2> QED
      BY <1>1, <1>5, <1>11, <2>1, <2>2, PromptKept DEF PromptInv
  <1>13. PromptOf(p)'
    <2>1. CASE Finish(p) /\ UNCHANGED <<tx, rx>>
      <3>1. status'[p] = "Done"
        BY <2>1 DEF Finish, PromptInv, BusInv, TypeOK
      <3> QED
        BY <1>1, <1>4, <1>5, <1>7, <2>1, <3>1, RestedPort
    <2>2. CASE /\ status' = [status EXCEPT ![p] = "Sending_Data"]
               /\ rx' = [rx EXCEPT ![p] = DataReceive(p)]
               /\ tx' = [tx EXCEPT ![p] = TRUE]
               /\ ForgetAck(p)
               /\ status[p] = "Awaiting_Command_Ack"
               /\ request[p].data
      <3>1. status'[p] = "Sending_Data" /\ rx'[p] = DataReceive(p) /\ tx'[p]
        BY <2>2 DEF PromptInv, BusInv, TypeOK
      <3>2. rx'[p] = Expected(p)' /\ rx'[p] # "off"
        BY <1>1, <3>1 DEF Expected, DataReceive
      <3>3. ack'[p].command = ack[p].command
        BY <2>2 DEF ForgetAck, PromptInv, BusInv, TypeOK
      <3>4. ack'[p].command = request'[p].command /\ request'[p].data
        BY <1>1, <1>8, <2>2, <3>3 DEF Acknowledged
      <3>5. ReceiveOf(p)'
        BY <1>1, <1>7, <3>1, <3>2, <3>4 DEF ReceiveOf, SendingStatuses
      <3> QED
        BY <1>5, <3>1, <3>5 DEF PromptOf, AnswerOf, TimeOf, WaitingStatuses
    <2> QED
      BY <1>9, <2>1, <2>2
  <1>14. OrderInv' /\ OnlyOverflow'
    BY <1>1, <1>7, <1>10, <1>11 DEF PromptInv, OrderInv, OnlyOverflow
  <1> QED
    BY <1>12, <1>13, <1>14

\* and the switch arms those of the requests it starts.
LEMMA PromptSwitch ==
  ASSUME PromptInv, SwitchPorts
  PROVE  (\A q \in Ports : PromptOf(q)') /\ OrderInv' /\ OnlyOverflow'
  <1> DEFINE old == Members(selectedPorts)
             new == Members(unselectedPorts)
  <1>1. old \cup new = Ports /\ old \cap new = {} /\ Starting \subseteq new
    BY PairsPartition DEF PromptInv, BusInv, Starting
  <1>2. /\ pc = "switch" /\ pc' = "client" /\ flags' = flags
        /\ status' = [p \in Ports |->
                        CASE p \in Starting -> "Sending_Command"
                          [] p \in old -> "Idle"
                          [] OTHER -> status[p]]
        /\ \A p \in old : status[p] \in {"Idle", "Done"}
        /\ StartRequests(Starting, request', Disconnected)
        /\ owes' = [p \in Ports |-> p \notin Disconnected /\ owes[p]]
        /\ UNCHANGED <<ticked, panic>>
    BY DEF SwitchPorts
  <1>3. ASSUME NEW q \in Ports
        PROVE  PromptOf(q)'
    <2>1. status[q] \in {"Idle", "Done"}
      <3>1. CASE q \in old
        BY <1>2, <3>1
      <3>2. CASE q \in new
        <4>1. ~selected[q]
          BY <1>1, <3>2 DEF PromptInv, BusInv, PairInv
        <4> QED
          BY <4>1, UnselectedPort DEF PromptInv
      <3> QED
        BY <1>1, <3>1, <3>2
    <2>2. ~tx[q] /\ rx[q] = "off" /\ ~owes[q] /\ flags[q] = {}
      BY <2>1, RestingPort
    <2>3. ~owes'[q] /\ flags'[q] = {}
      BY <1>2, <2>2
    <2>4. CASE q \in Starting
      <3>1. status'[q] = "Sending_Command" /\ tx'[q]
            /\ rx'[q] = IF AnswersAtOnce(request'[q]) THEN "response" ELSE "command_ack"
        <4>1. q \notin old
          BY <1>1, <2>4
        <4> QED
          BY <1>2, <2>4, <4>1 DEF StartRequests
      <3> QED
        BY <2>3, <3>1, StartedPort
    <2>5. CASE q \notin Starting
      <3>1. status'[q] \in {"Idle", "Done"}
        BY <1>2, <2>1, <2>5
      <3>2. ~tx'[q] /\ rx'[q] = "off"
        BY <1>2, <2>2, <2>5 DEF StartRequests
      <3> QED
        BY <2>3, <3>1, <3>2, RestedPort
    <2> QED
      BY <2>4, <2>5
  <1>4. OrderInv' /\ OnlyOverflow'
    BY <1>2 DEF PromptInv, OrderInv, OnlyOverflow
  <1> QED
    BY <1>3, <1>4

-----------------------------------------------------------------------------
\* The end of a send: the receive is armed, and no answer was due before.
LEMMA PromptSendComplete ==
  ASSUME PromptInv, NEW p \in Ports, NEW answers \in BOOLEAN, SendComplete(p, answers)
  PROVE  (\A q \in Ports : PromptOf(q)') /\ OrderInv' /\ OnlyOverflow'
  <1>1. /\ tx[p]
        /\ tx' = [tx EXCEPT ![p] = FALSE]
        /\ flags' = [flags EXCEPT ![p] = @ \cup {"send"}]
        /\ owes' = [owes EXCEPT ![p] = @ \/ answers]
        /\ UNCHANGED <<status, request, ack, waited, pc, at, ticked, panic, rx>>
    BY DEF SendComplete, portVars, threadVars
  <1>2. /\ ~tx'[p] /\ flags'[p] = flags[p] \cup {"send"}
        /\ \A q \in Ports : q # p => /\ tx'[q] = tx[q] /\ flags'[q] = flags[q]
                                     /\ owes'[q] = owes[q]
    BY <1>1 DEF PromptInv, BusInv, TypeOK
  <1>3. LineOf(p) /\ ReceiveOf(p) /\ AnswerOf(p)
    BY DEF PromptInv, PromptOf, BusInv, LineInv
  <1>4. status[p] \in SendingStatuses /\ rx[p] # "off" /\ "receive" \notin flags[p]
    BY <1>1, <1>3 DEF LineOf, ReceiveOf
  <1>5. Expected(p)' = Expected(p)
    BY <1>1 DEF Expected, AnswersAtOnce, DataReceive
  <1>6. PromptOf(p)'
    <2>1. ReceiveOf(p)'
      BY <1>1, <1>2, <1>3, <1>4, <1>5 DEF ReceiveOf
    <2>2. AnswerOf(p)'
      BY <1>2, <1>4 DEF AnswerOf
    <2>3. TimeOf(p)'
      BY <1>1, <1>4, StatusesApart DEF TimeOf
    <2> QED
      BY <2>1, <2>2, <2>3 DEF PromptOf
  <1>7. \A q \in Ports : q # p => PromptOf(q)'
    BY <1>1, <1>2, PromptKept DEF PromptInv
  <1>8. OrderInv' /\ OnlyOverflow'
    <2>1. PICK v \in Ports : v = PortAt
      BY VisitedPort DEF PromptInv
    <2>2. PortAt' = v
      BY <1>1, <2>1 DEF PortAt
    <2>3. "receive" \in flags'[v] => "send" \in flags[v] \/ v # p
      BY <1>2, <1>4
    <2>4. v # p => flags'[v] = flags[v]
      BY <1>2
    <2>5. v = p => "receive" \notin flags'[v]
      BY <1>2, <1>4
    <2> QED
      BY <1>1, <2>1, <2>2, <2>4, <2>5 DEF PromptInv, OrderInv, OnlyOverflow
  <1> QED
    BY <1>6, <1>7, <1>8

\* A panel's answer fills the armed receive with the bytes expected there.
LEMMA PromptAnswer ==
  ASSUME PromptAnswers, PromptInv, NEW p \in Ports, Answer(p)
  PROVE  (\A q \in Ports : PromptOf(q)') /\ OrderInv' /\ OnlyOverflow'
  <1>1. /\ owes[p] /\ rx[p] # "off" /\ ~BetweenTests(p)
        /\ owes' = [owes EXCEPT ![p] = FALSE]
        /\ rx' = [rx EXCEPT ![p] = "off"]
        /\ flags' = [flags EXCEPT ![p] = @ \cup {"receive"}]
        /\ UNCHANGED <<status, request, waited, pc, at, ticked, panic, tx>>
    BY DEF Answer, PromptAnswers, threadVars
  <1>2. /\ ~owes'[p] /\ rx'[p] = "off" /\ flags'[p] = flags[p] \cup {"receive"}
        /\ \A q \in Ports : q # p => /\ owes'[q] = owes[q] /\ rx'[q] = rx[q]
                                     /\ flags'[q] = flags[q]
    BY <1>1 DEF PromptInv, BusInv, TypeOK
  <1>3. LineOf(p) /\ ReceiveOf(p) /\ AnswerOf(p) /\ TimeOf(p)
    BY DEF PromptInv, PromptOf, BusInv, LineInv
  <1>4. /\ rx[p] = Expected(p) /\ ~tx[p]
        /\ status[p] \in SendingStatuses \cup WaitingStatuses
        /\ status[p] \in SendingStatuses => "send" \in flags[p]
    BY <1>1, <1>3 DEF ReceiveOf, LineOf
  <1>5. Expected(p)' = Expected(p)
    BY <1>1 DEF Expected, AnswersAtOnce, DataReceive
  <1>6. /\ ack' = CASE rx[p] = "command_ack" ->
                        [ack EXCEPT ![p] = [byte |-> TRUE, command |-> request[p].command]]
                   [] rx[p] = "data_ack" -> [ack EXCEPT ![p].byte = TRUE]
                   [] OTHER -> ack
        /\ ack \in [Ports -> [byte : BOOLEAN, command : Commands]]
    BY DEF Answer, PromptInv, BusInv, TypeOK
  <1>7. /\ \A q \in Ports : q # p => ack'[q] = ack[q]
        /\ rx[p] = "command_ack" => ack'[p] = [byte |-> TRUE, command |-> request[p].command]
        /\ rx[p] = "data_ack" => ack'[p].byte = TRUE /\ ack'[p].command = ack[p].command
        /\ rx[p] \notin {"command_ack", "data_ack"} => ack'[p] = ack[p]
    <2>1. CASE rx[p] = "command_ack"
      BY <1>6, <2>1
    <2>2. CASE rx[p] = "data_ack"
      BY <1>6, <2>2
    <2>3. CASE rx[p] \notin {"command_ack", "data_ack"}
      BY <1>6, <2>3
    <2> QED
      BY <2>1, <2>2, <2>3
  <1>8. PromptOf(p)'
    <2>1. ack'[p].command = ack[p].command \/ ack'[p].command = request[p].command
      BY <1>7
    <2>2. ReceiveOf(p)'
      BY <1>1, <1>2, <1>3, <1>4, <1>5, <2>1 DEF ReceiveOf
    <2>3. AnswerOf(p)'
      <3>1. status[p] \in WaitingStatuses \/ "send" \in flags'[p]
        BY <1>2, <1>4
      <3>2. Expected(p) = "command_ack" => Acknowledged(p)'
        BY <1>1, <1>4, <1>7 DEF Acknowledged
      <3>3. Expected(p) = "data_ack" => ack'[p].byte
        BY <1>4, <1>7
      <3> QED
        BY <1>1, <1>5, <3>1, <3>2, <3>3 DEF AnswerOf
    <2>4. TimeOf(p)'
      <3>1. status[p] \in WaitingStatuses => waited[p] <= AnswerTicks
        BY <1>1, <1>3 DEF TimeOf
      <3>2. waited[p] \in Int /\ AnswerTicks \in Int
        BY LimitsAssumption DEF PromptInv, BusInv, TypeOK
      <3>3. status[p] \in WaitingStatuses =>
              waited[p] <= AnswerTicks + (IF ticked THEN 1 ELSE 0)
        BY <3>1, <3>2
      <3> QED
        BY <1>1, <1>2, <3>3 DEF TimeOf
    <2> QED
      BY <2>2, <2>3, <2>4 DEF PromptOf
  <1>9. \A q \in Ports : q # p => PromptOf(q)'
    BY <1>1, <1>2, <1>7, PromptKept DEF PromptInv
  <1>10. OrderInv' /\ OnlyOverflow'
    <2>1. PICK v \in Ports : v = PortAt
      BY VisitedPort DEF PromptInv
    <2>2. PortAt' = v
      BY <1>1, <2>1 DEF PortAt
    <2>3. v # p => flags'[v] = flags[v]
      BY <1>2
    <2>4. pc = "test_receive" /\ v = p => "send" \notin flags'[v]
      BY <1>1, <1>2, <2>1 DEF BetweenTests
    <2> QED
      BY <1>1, <2>1, <2>2, <2>3, <2>4 DEF PromptInv, OrderInv, OnlyOverflow
  <1> QED
    BY <1>8, <1>9, <1>10

\* Time stands still while a panel that is late would still answer.
LEMMA PromptTick ==
  ASSUME PromptInv, Tick
  PROVE  (\A q \in Ports : PromptOf(q)') /\ OrderInv' /\ OnlyOverflow'
  <1>1. /\ pc = "timeout" => ~ticked
        /\ ticked' = (pc = "timeout")
        /\ UNCHANGED <<status, request, ack, flags, pc, at, panic, tx, rx, owes>>
    BY DEF Tick, uartVars
  <1>2. ASSUME NEW q \in Ports PROVE PromptOf(q)'
    <2>1. Expected(q)' = Expected(q)
      BY <1>1 DEF Expected, AnswersAtOnce, DataReceive
    <2>2. ReceiveOf(q)' /\ AnswerOf(q)'
      BY <1>1, <2>1 DEF PromptInv, PromptOf, ReceiveOf, AnswerOf, Acknowledged
    <2>3. TimeOf(q)'
      <3> SUFFICES ASSUME status[q] \in WaitingStatuses
                   PROVE  /\ owes[q] => waited'[q] <= AnswerTicks
                          /\ pc = "timeout" /\ "receive" \in flags[q] =>
                               waited'[q] <= AnswerTicks + 1
        BY <1>1 DEF TimeOf
      <3>1. waited[q] \in Int /\ AnswerTicks \in Int
        BY LimitsAssumption DEF PromptInv, BusInv, TypeOK
      <3>2. waited'[q] \in {waited[q], waited[q] + 1}
        BY DEF Tick
      <3>3. owes[q] => waited[q] < AnswerTicks
        BY DEF Tick
      <3>4. pc = "timeout" /\ "receive" \in flags[q] => waited[q] <= AnswerTicks + 0
        BY <1>1 DEF PromptInv, PromptOf, TimeOf
      <3> QED
        BY <3>1, <3>2, <3>3, <3>4
    <2> QED
      BY <2>2, <2>3 DEF PromptOf
  <1>3. OrderInv' /\ OnlyOverflow'
    BY <1>1 DEF PromptInv, OrderInv, OnlyOverflow, PortAt
  <1> QED
    BY <1>2, <1>3

\* PromptInv is inductive.
LEMMA PromptNext == PromptAnswers /\ PromptInv /\ [Next]_vars => PromptInv'
  <1> SUFFICES ASSUME PromptAnswers, PromptInv, [Next]_vars
               PROVE  (\A q \in Ports : PromptOf(q)') /\ OrderInv' /\ OnlyOverflow'
    BY BusInvNext DEF PromptInv
  <1>1. CASE Environment
    <2>1. \A p \in Ports : ~AnswerUnheard(p)
      BY DEF AnswerUnheard, PromptInv, PromptOf, ReceiveOf
    <2> QED
      BY <1>1, <2>1, PromptSendComplete, PromptAnswer, PromptTick DEF Environment
  <1>2. CASE StaySelected
    <2>1. /\ UNCHANGED <<status, request, waited, ack, flags, at, ticked, tx, rx, owes, panic>>
          /\ pc = "switch" /\ pc' = "client"
      BY <1>2 DEF StaySelected, portVars, uartVars
    <2>2. \A q \in Ports : PromptOf(q)'
      BY <2>1, PromptKept DEF PromptInv
    <2> QED
      BY <2>1, <2>2 DEF PromptInv, OrderInv, OnlyOverflow
  <1>3. CASE UNCHANGED vars
    <2>1. UNCHANGED <<status, request, waited, ack, flags, at, ticked, tx, rx, owes, panic, pc>>
      BY <1>3 DEF vars, portVars, threadVars, uartVars
    <2>2. \A q \in Ports : PromptOf(q)'
      BY <2>1, PromptKept DEF PromptInv
    <2> QED
      BY <2>1, <2>2 DEF PromptInv, OrderInv, OnlyOverflow, PortAt
  <1> QED
    BY <1>1, <1>2, <1>3, PromptClient, PromptTimeout, PromptTests, PromptStoreSend,
       PromptReceive, PromptSwitch DEF Next, BusStep, Receive

\* PromptInv holds throughout.
LEMMA PromptInvariant == ASSUME PromptAnswers PROVE Spec => []PromptInv
  BY PromptInit, PromptNext, PTL DEF Spec

\* Panels that answer in time always find the receive armed: it is armed before
\* the send that asks them (msgbus.c:456-471, 339-355).
THEOREM AnswersFindReceivers == ASSUME PromptAnswers PROVE Spec => []AnswerFindsReceiver
  <1>1. PromptInv => AnswerFindsReceiver
    BY DEF PromptInv, PromptOf, ReceiveOf, AnswerFindsReceiver
  <1> QED
    BY <1>1, PromptInvariant, PTL

-----------------------------------------------------------------------------
(***************************************************************************)
(* The queues.                                                             *)
(***************************************************************************)

\* A sequence without repetition is no longer than its set has elements.
LEMMA NoRepetitionFits ==
  ASSUME NEW S, IsFiniteSet(S), NEW s \in Seq(S), NoRepetition(s),
         NEW n \in Nat, Cardinality(S) < n
  PROVE  Len(s) # n
  <1> SUFFICES ASSUME Len(s) = n PROVE FALSE
    OBVIOUS
  <1>1. Cardinality(S) \in Nat
    BY FS_CardinalityType
  <1>2. IsFiniteSet(1..n) /\ Cardinality(1..n) = n
    <2>1. n >= 1 /\ 1 \in Int /\ n \in Int
      BY <1>1
    <2>2. IsFiniteSet(1..n) /\ Cardinality(1..n) = IF 1 > n THEN 0 ELSE n - 1 + 1
      BY <2>1, FS_Interval
    <2> QED
      BY <2>1, <2>2
  <1>3. PICK f \in [1..n -> S] : \A i \in 1..n : f[i] = s[i]
    <2>1. [i \in 1..n |-> s[i]] \in [1..n -> S]
      OBVIOUS
    <2> QED
      BY <2>1
  <1>4. \E x, y \in 1..n : x # y /\ f[x] = f[y]
    BY <1>1, <1>2, FS_PigeonHole
  <1> QED
    BY <1>3, <1>4 DEF NoRepetition

\* What a sequence without repetition is after a new element, or without its
\* first one.
LEMMA NoRepetitionSteps ==
  ASSUME NEW S, NEW s \in Seq(S), NoRepetition(s)
  PROVE  /\ \A r \in S : r \notin {s[i] : i \in 1..Len(s)} =>
              Append(s, r) \in Seq(S) /\ NoRepetition(Append(s, r))
         /\ s # <<>> => Tail(s) \in Seq(S) /\ NoRepetition(Tail(s))
  <1>1. ASSUME NEW r \in S, r \notin {s[i] : i \in 1..Len(s)}
        PROVE  Append(s, r) \in Seq(S) /\ NoRepetition(Append(s, r))
    <2>1. Append(s, r) \in Seq(S) /\ Len(Append(s, r)) = Len(s) + 1
      OBVIOUS
    <2>2. /\ \A i \in 1..Len(s) : Append(s, r)[i] = s[i]
          /\ Append(s, r)[Len(s) + 1] = r
      OBVIOUS
    <2>3. \A i \in 1..Len(s) + 1 : i \in 1..Len(s) \/ i = Len(s) + 1
      OBVIOUS
    <2> QED
      BY <1>1, <2>1, <2>2, <2>3 DEF NoRepetition
  <1>2. ASSUME s # <<>>
        PROVE  Tail(s) \in Seq(S) /\ NoRepetition(Tail(s))
    <2>1. /\ Tail(s) \in Seq(S) /\ Len(Tail(s)) = Len(s) - 1
          /\ \A i \in 1..Len(Tail(s)) : Tail(s)[i] = s[i + 1]
      BY <1>2
    <2>2. \A i \in 1..Len(Tail(s)) : i \in Int /\ i + 1 \in 1..Len(s)
      BY <2>1
    <2>3. \A i, j \in 1..Len(Tail(s)) : i + 1 = j + 1 => i = j
      OBVIOUS
    <2> QED
      BY <2>1, <2>2, <2>3 DEF NoRepetition
  <1> QED
    BY <1>1, <1>2

\* Initially no queue holds a request.
LEMMA QueueInit == Init => QueueInv
  <1> SUFFICES ASSUME Init, NEW p \in Ports
               PROVE  queue[p] \in Seq(RequestsOf(p)) /\ NoRepetition(queue[p])
    BY DEF QueueInv
  <1>1. queue[p] = <<>>
    BY DEF Init
  <1>2. <<>> \in Seq(RequestsOf(p)) /\ Len(<<>>) = 0
    OBVIOUS
  <1> QED
    BY <1>1, <1>2 DEF NoRepetition

\* A request enters its port's queue when it is not there, and leaves it at
\* the front.
LEMMA QueueNext == TypeOK /\ QueueInv /\ [Next]_vars => QueueInv'
  <1> SUFFICES ASSUME TypeOK, QueueInv, [Next]_vars PROVE QueueInv'
    OBVIOUS
  <1>1. ASSUME NEW r \in Requests, SendQueued(r)
        PROVE  QueueInv'
    <2>1. r.port \in Ports /\ r \in RequestsOf(r.port)
      BY RequestFields DEF AnyRequest, RequestsOf
    <2>2. \/ queue' = queue
          \/ /\ queue' = [queue EXCEPT ![r.port] = Append(@, r)]
             /\ r \notin Queued(r.port)
      BY <1>1 DEF SendQueued
    <2>3. CASE queue' = queue
      BY <2>3 DEF QueueInv
    <2>4. CASE /\ queue' = [queue EXCEPT ![r.port] = Append(@, r)]
               /\ r \notin Queued(r.port)
      <3> DEFINE s == queue[r.port]
      <3>1. s \in Seq(RequestsOf(r.port)) /\ NoRepetition(s) /\ r \notin {s[i] : i \in 1..Len(s)}
        BY <2>1, <2>4 DEF QueueInv, Queued
      <3>2. Append(s, r) \in Seq(RequestsOf(r.port)) /\ NoRepetition(Append(s, r))
        BY <2>1, <3>1, NoRepetitionSteps
      <3>3. /\ queue'[r.port] = Append(s, r)
            /\ \A q \in Ports : q # r.port => queue'[q] = queue[q]
        BY <2>1, <2>4 DEF TypeOK
      <3> HIDE DEF s
      <3> QED
        BY <3>2, <3>3 DEF QueueInv
    <2> QED
      BY <2>2, <2>3, <2>4
  <1>2. CASE SwitchPorts
    <2> SUFFICES ASSUME NEW p \in Ports
                 PROVE  queue'[p] \in Seq(RequestsOf(p)) /\ NoRepetition(queue'[p])
      BY DEF QueueInv
    <2>1. queue'[p] = IF p \in Starting THEN Tail(queue[p]) ELSE queue[p]
      BY <1>2 DEF SwitchPorts
    <2>2. p \in Starting => queue[p] # <<>>
      BY DEF Starting
    <2>3. queue[p] \in Seq(RequestsOf(p)) /\ NoRepetition(queue[p])
      BY DEF QueueInv
    <2> QED
      BY <2>1, <2>2, <2>3, NoRepetitionSteps
  <1>3. CASE queue' = queue
    BY <1>3 DEF QueueInv
  <1>4. SwitchPorts \/ (\E r \in Requests : SendQueued(r)) \/ queue' = queue
    <2>1. CASE BusStep
      BY <2>1 DEF BusStep, CheckTimeout, TestSend, StoreSend, TestReceive, Receive,
                  ReceiveCommandAck, ReceiveDataAck, ReceiveResponse, ReceiveUnexpected,
                  StaySelected, portVars
    <2>2. CASE Client
      BY <2>2 DEF Client, ProcessFlags, SendNow, TakeResponse, portVars
    <2>3. CASE Environment
      BY <2>3 DEF Environment, SendComplete, Answer, AnswerUnheard, Tick, portVars
    <2>4. CASE UNCHANGED vars
      BY <2>4 DEF vars, portVars
    <2> QED
      BY <2>1, <2>2, <2>3, <2>4 DEF Next
  <1> QED
    BY <1>1, <1>2, <1>3, <1>4

\* A queue holds requests of its port, each once.
LEMMA QueueInvariant == Spec => []QueueInv
  <1>1. TypeOK /\ QueueInv /\ [Next]_vars => QueueInv'
    BY QueueNext
  <1> QED
    BY <1>1, QueueInit, TypeCorrect, PTL DEF Spec

\* With panels that answer in time and fewer requests a port than its queue
\* has slots, none of the assertions of the state machine fails (msgbus.c:303-
\* 311, 320-327, 362-369, 386-393, req_queue.c:36-39), however transfers,
\* interrupts, timeouts and the client's calls are interleaved.
THEOREM BusNeverPanics ==
  ASSUME PromptAnswers, FewRequests
  PROVE  Spec => []NoPanic
  <1>1. Init => NoPanic
    BY DEF Init, NoPanic
  <1>2. PromptInv /\ PromptInv' /\ QueueInv /\ NoPanic /\ [Next]_vars => NoPanic'
    <2> SUFFICES ASSUME PromptInv, PromptInv', QueueInv, panic = "None", [Next]_vars
                 PROVE  panic' # "QueueFull"
      BY DEF PromptInv, OnlyOverflow, NoPanic
    <2>1. ASSUME NEW r \in Requests, SendQueued(r)
          PROVE  panic' # "QueueFull"
      <3>1. r.port \in Ports
        BY RequestFields DEF AnyRequest
      <3>2. QueueMax \in Nat
        BY LimitsAssumption
      <3>3. Len(queue[r.port]) # QueueMax
        BY <3>1, <3>2, NoRepetitionFits DEF QueueInv, FewRequests
      <3> QED
        BY <2>1, <3>3 DEF SendQueued
    <2>2. CASE BusStep
      BY <2>2 DEF BusStep, CheckTimeout, TestSend, StoreSend, TestReceive, Receive,
                  ReceiveCommandAck, ReceiveDataAck, ReceiveResponse, ReceiveUnexpected,
                  StaySelected, SwitchPorts, Panic
    <2>3. CASE Client
      BY <2>1, <2>3 DEF Client, ProcessFlags, SendNow, TakeResponse
    <2>4. CASE Environment
      BY <2>4 DEF Environment, SendComplete, Answer, AnswerUnheard, Tick
    <2>5. CASE UNCHANGED vars
      BY <2>5 DEF vars
    <2> QED
      BY <2>2, <2>3, <2>4, <2>5 DEF Next
  <1> QED
    BY <1>1, <1>2, PromptInvariant, QueueInvariant, PTL DEF Spec
=============================================================================
