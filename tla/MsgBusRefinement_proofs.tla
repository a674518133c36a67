---------------------- MODULE MsgBusRefinement_proofs ----------------------
(***************************************************************************)
(* MsgBus implements AnsweredBus, for all panels, requests, limits and     *)
(* timeouts: every step is a step of the abstract bus or leaves it alone.  *)
(***************************************************************************)
EXTENDS MsgBus_proofs

-----------------------------------------------------------------------------
(***************************************************************************)
(* What the refinement needs beside the invariants of the bus.             *)
(***************************************************************************)

\* The firmware stops exactly when an error is raised.
PanicInv == pc = "panic" <=> panic # "None"

\* The queues keep to their limits.
LimitInv ==
  /\ Len(responses) <= ResponseMax
  /\ \A p \in Ports : Len(queue[p]) <= QueueMax

\* Bytes are waited for only if the request asks for them, and an acknowledgement
\* ends only a request that asks for none.
AwaitedOf(p) ==
  /\ status[p] = "Receiving" => request[p].response
  /\ status[p] = "Awaiting_Command_Ack" => request[p].data \/ ~request[p].response
  /\ status[p] = "Awaiting_Data_Ack" => ~request[p].response

AwaitedInv == \A p \in Ports : AwaitedOf(p)

RefineInv == BusInv /\ PanicInv /\ LimitInv /\ AwaitedInv

\* Every step keeps pc and panic in step.
LEMMA PanicInvNext ==
  ASSUME PanicInv, [Next]_vars
  PROVE  PanicInv'
<1>1. CASE BusStep
  BY <1>1 DEF BusStep, CheckTimeout, TestSend, StoreSend, TestReceive, Receive,
     StoreReceive, ReceiveCommandAck, ReceiveDataAck, ReceiveResponse,
     ReceiveUnexpected, StaySelected, SwitchPorts, NextPort, Panic, PanicInv
<1>2. CASE Client
  BY <1>2 DEF Client, ProcessFlags, SendNow, SendQueued, TakeResponse, Panic,
     threadVars, PanicInv
<1>3. CASE Environment \/ UNCHANGED vars
  BY <1>3 DEF Environment, SendComplete, Answer, AnswerUnheard, Tick, vars,
     threadVars, PanicInv
<1> QED
  BY <1>1, <1>2, <1>3 DEF Next

\* Every step keeps the queues to their limits.
LEMMA LimitInvNext ==
  ASSUME BusInv, LimitInv, [Next]_vars
  PROVE  LimitInv'
<1> DEFINE NoLonger == /\ Len(responses') <= Len(responses)
                       /\ \A p \in Ports : Len(queue'[p]) <= Len(queue[p])
<1>1. /\ responses \in Seq(Ports) /\ Len(responses) \in Nat /\ ResponseMax \in Nat
      /\ \A p \in Ports : queue[p] \in Seq(Requests) /\ Len(queue[p]) \in Nat
      /\ QueueMax \in Nat
  BY LimitsAssumption DEF BusInv, TypeOK
<1>2. ASSUME UNCHANGED <<responses, queue>>
      PROVE  LimitInv'
  BY <1>2 DEF LimitInv
<1>3. ASSUME NEW r \in Requests, SendQueued(r)
      PROVE  LimitInv'
  <2>1. /\ responses' = responses /\ r.port \in Ports
        /\ queue' = queue \/ /\ Len(queue[r.port]) # QueueMax
                             /\ queue' = [queue EXCEPT ![r.port] = Append(@, r)]
    BY <1>3, RequestFields DEF SendQueued, busVars, AnyRequest
  <2>2. Len(Append(queue[r.port], r)) = Len(queue[r.port]) + 1
    BY <1>1, <2>1
  <2>3. queue \in [Ports -> Seq(Requests)]
    BY DEF BusInv, TypeOK
  <2>4. ASSUME NEW p \in Ports
        PROVE  Len(queue'[p]) <= QueueMax
    <3>1. Len(queue[p]) \in Nat /\ Len(queue[p]) <= QueueMax /\ QueueMax \in Nat
      BY <1>1 DEF LimitInv
    <3>2. CASE queue'[p] = queue[p]
      BY <3>1, <3>2
    <3>3. CASE queue'[p] # queue[p]
      <4>1. p = r.port /\ Len(queue[p]) # QueueMax /\ queue'[p] = Append(queue[p], r)
        BY <2>1, <2>3, <3>3
      <4>2. Len(queue'[p]) = Len(queue[p]) + 1
        BY <2>2, <4>1
      <4> QED
        BY <3>1, <4>1, <4>2
    <3> QED
      BY <3>2, <3>3
  <2> QED
    BY <2>1, <2>4 DEF LimitInv
<1>4. CASE TakeResponse
  <2>1. /\ responses # <<>> /\ responses' = Tail(responses) /\ queue' = queue
    BY <1>4 DEF TakeResponse, portVars
  <2>2. Len(Tail(responses)) <= Len(responses)
    BY <1>1, <2>1
  <2> QED
    BY <1>1, <2>1, <2>2 DEF LimitInv
<1>5. ASSUME NEW p \in Ports, ReceiveResponse(p)
      PROVE  LimitInv'
  <2>1. /\ queue' = queue
        /\ responses' = IF Len(responses) = ResponseMax THEN responses
                                                        ELSE Append(responses, p)
    BY <1>5 DEF ReceiveResponse, AddResponse
  <2>2. Len(Append(responses, p)) = Len(responses) + 1
    BY <1>1
  <2> QED
    BY <1>1, <2>1, <2>2 DEF LimitInv
<1>6. CASE SwitchPorts
  <2>1. /\ responses' = responses
        /\ queue' = [p \in Ports |-> IF p \in Starting THEN Tail(queue[p]) ELSE queue[p]]
    BY <1>6 DEF SwitchPorts
  <2>2. \A p \in Starting : queue[p] # <<>>
    BY DEF Starting
  <2>3. \A p \in Ports : queue[p] # <<>> => Len(Tail(queue[p])) <= Len(queue[p])
    BY <1>1
  <2>4. \A p \in Ports : Len(queue'[p]) \in Nat /\ Len(queue'[p]) <= Len(queue[p])
    BY <1>1, <2>1, <2>2, <2>3
  <2> QED
    BY <1>1, <2>1, <2>4 DEF LimitInv
<1>7. CASE CheckTimeout \/ TestSend \/ StoreSend \/ TestReceive \/ StaySelected
  BY <1>2, <1>7 DEF CheckTimeout, TestSend, StoreSend, TestReceive, StaySelected,
     portVars, busVars
<1>8. ASSUME NEW p \in Ports,
             ReceiveCommandAck(p) \/ ReceiveDataAck(p) \/ ReceiveUnexpected(p)
      PROVE  LimitInv'
  BY <1>2, <1>8 DEF ReceiveCommandAck, ReceiveDataAck, ReceiveUnexpected,
     portVars, busVars
<1>9. CASE Environment \/ UNCHANGED vars
  BY <1>2, <1>9 DEF Environment, SendComplete, Answer, AnswerUnheard, Tick, vars,
     portVars, busVars
<1>10. ASSUME ProcessFlags \/ \E r \in Requests : SendNow(r)
       PROVE  LimitInv'
  BY <1>2, <1>10 DEF ProcessFlags, SendNow, portVars, busVars
<1> QED
  BY <1>3, <1>4, <1>5, <1>6, <1>7, <1>8, <1>9, <1>10 DEF Next, BusStep, Receive, Client

\* A port waits for what its request asks for.
LEMMA AwaitedInvNext ==
  ASSUME BusInv, AwaitedInv, [Next]_vars
  PROVE  AwaitedInv'
<1>1. status \in [Ports -> Statuses] /\ request \in [Ports -> AnyRequest]
  BY DEF BusInv, TypeOK, AnyRequest
<1> USE DEF AwaitedInv, AwaitedOf
<1>2. ASSUME UNCHANGED <<status, request>>
      PROVE  AwaitedInv'
  BY <1>2
<1>3. ASSUME NEW r \in Requests, SendNow(r)
      PROVE  AwaitedInv'
  BY <1>1, <1>3 DEF SendNow
<1>4. CASE StoreSend
  <2>1. request' = request
    BY <1>4 DEF StoreSend
  <2>2. \/ status' = status
        \/ /\ status' = [status EXCEPT ![PortAt] = AfterSend(PortAt)]
           /\ status[PortAt] \in SendingStatuses
    BY <1>4 DEF StoreSend
  <2>3. /\ AfterSend(PortAt) = "Receiving" => request[PortAt].response
        /\ AfterSend(PortAt) = "Awaiting_Command_Ack" =>
             request[PortAt].data \/ ~request[PortAt].response
        /\ status[PortAt] \in SendingStatuses /\ AfterSend(PortAt) = "Awaiting_Data_Ack"
             => ~request[PortAt].response
    BY DEF AfterSend, SendingStatuses
  <2> QED
    BY <1>1, <2>1, <2>2, <2>3
<1>5. ASSUME CheckTimeout \/ \E p \in Ports : \/ ReceiveCommandAck(p)
                                              \/ ReceiveDataAck(p)
                                              \/ ReceiveResponse(p)
      PROVE  AwaitedInv'
  <2>1. request' = request
    BY <1>5 DEF CheckTimeout, ReceiveCommandAck, ReceiveDataAck, ReceiveResponse
  <2>2. \/ status' = status
        \/ \E p \in Ports, s \in {"Done", "Sending_Data"} :
             status' = [status EXCEPT ![p] = s]
    BY <1>5, ProcessOrderPorts DEF CheckTimeout, ReceiveCommandAck, ReceiveDataAck,
       ReceiveResponse, Finish, BusInv
  <2> QED
    BY <1>1, <2>1, <2>2
<1>6. CASE SwitchPorts
  <2>1. /\ status' = [p \in Ports |->
                        CASE p \in Starting -> "Sending_Command"
                          [] p \in Members(selectedPorts) -> "Idle"
                          [] OTHER -> status[p]]
        /\ request' = [p \in Ports |->
                         IF p \in Starting THEN Head(queue[p]) ELSE request[p]]
    BY <1>6 DEF SwitchPorts
  <2> QED
    BY <1>1, <2>1
<1>7. CASE Environment \/ UNCHANGED vars
  BY <1>2, <1>7 DEF Environment, SendComplete, Answer, AnswerUnheard, Tick, vars, portVars
<1>8. ASSUME \/ TestSend \/ TestReceive \/ StaySelected \/ ProcessFlags \/ TakeResponse
             \/ \E p \in Ports : ReceiveUnexpected(p)
             \/ \E r \in Requests : SendQueued(r)
      PROVE  AwaitedInv'
  BY <1>2, <1>8 DEF TestSend, TestReceive, StaySelected, ProcessFlags, TakeResponse,
     ReceiveUnexpected, SendQueued, portVars
<1> QED
  BY <1>3, <1>4, <1>5, <1>6, <1>7, <1>8 DEF Next, BusStep, Receive, Client

\* What the refinement needs holds in every reachable state.
LEMMA RefineInvariant == Spec => []RefineInv
<1>1. Init => PanicInv /\ AwaitedInv
  BY DEF Init, PanicInv, AwaitedInv, AwaitedOf
<1>2. Init => LimitInv
  BY LimitsAssumption DEF Init, LimitInv
<1>3. BusInv /\ PanicInv /\ LimitInv /\ AwaitedInv /\ [Next]_vars
        => PanicInv' /\ LimitInv' /\ AwaitedInv'
  BY PanicInvNext, LimitInvNext, AwaitedInvNext
<1> QED
  BY <1>1, <1>2, <1>3, BusInvariant, PTL DEF Spec, RefineInv

-----------------------------------------------------------------------------
(***************************************************************************)
(* The abstract bus.                                                       *)
(***************************************************************************)

\* The two modules name the same ports.
LEMMA SamePorts == Abstract!Ports = Ports
BY DEF Abstract!Ports, Abstract!Pairs, Ports

\* What the abstract bus has of this one.
AbstractPhase == [p \in Ports |-> Phase(p)]

\* What was received and is still to be processed.
Received(p) == "receive" \in flags[p]

\* Steps that leave these alone leave the abstract bus alone.
LEMMA AbstractUnchanged ==
  ASSUME UNCHANGED <<status, selectedPorts, request, queue, responses, panic>>,
         \A p \in Ports : Received(p)' <=> Received(p)
  PROVE  UNCHANGED Abstract!answeredVars
<1>1. \A p \in Ports : Phase(p)' = Phase(p) /\ Heard(p)' = Heard(p)
  BY DEF Phase, Heard, DataFollows, Received
<1> QED
  BY <1>1 DEF Abstract!answeredVars, Abstract!busVars, Members

\* A port's part of the abstract bus stays as it is.
Stays(p) == Phase(p)' = Phase(p) /\ Heard(p)' = Heard(p)

\* A port whose status, request and flags stay.
LEMMA PortStays ==
  ASSUME NEW p, status'[p] = status[p], request'[p] = request[p],
         Received(p)' <=> Received(p)
  PROVE  Stays(p)
BY DEF Stays, Phase, Heard, DataFollows, Received

AbstractStep == Abstract!Next \/ UNCHANGED Abstract!answeredVars

\* A step of the abstract bus that nothing is heard in.
LEMMA BusIsAbstract ==
  ASSUME \A p \in Ports : Heard(p)' = Heard(p),
         \/ \E r \in Requests : \/ Abstract!StartQuiet(r)
                                \/ Abstract!Enqueue(r)
                                \/ Abstract!Overflow(r)
         \/ Abstract!SwitchQuiet
         \/ Abstract!Take
  PROVE  AbstractStep
<1>1. [p \in Ports |-> Heard(p)]' = [p \in Ports |-> Heard(p)]
  OBVIOUS
<1> QED
  BY <1>1 DEF AbstractStep, Abstract!Next

\* A request in its transfers stays what it is, or what was heard is processed.
LEMMA BusyStep ==
  ASSUME UNCHANGED <<selectedPorts, request, queue, responses, panic>>, panic = "None",
         NEW p \in Ports, \A q \in Ports \ {p} : Stays(q),
         Phase(p) = "Busy", Phase(p)' = "Busy",
         Heard(p)' = Heard(p) \/ (Heard(p) # "Nothing" /\ Heard(p)' = "Nothing")
  PROVE  AbstractStep
<1>1. \A q \in Ports : Phase(q)' = Phase(q)
  BY DEF Stays
<1>2. UNCHANGED Abstract!busVars
  BY <1>1 DEF Abstract!busVars, Members
<1>3. CASE Heard(p)' = Heard(p)
  <2>1. \A q \in Ports : Heard(q)' = Heard(q)
    BY <1>3 DEF Stays
  <2> QED
    BY <1>2, <2>1 DEF AbstractStep, Abstract!answeredVars
<1>4. CASE Heard(p) # "Nothing" /\ Heard(p)' = "Nothing"
  <2>1. \A q \in Ports : Heard(q)' = IF q = p THEN "Nothing" ELSE Heard(q)
    BY <1>4 DEF Stays
  <2>2. Abstract!Process(p)
    BY <2>1 DEF Abstract!Process
  <2>3. Abstract!GoOn(p)
    BY <1>2, <1>4, <2>2 DEF Abstract!GoOn
  <2> QED
    BY <2>3, SamePorts DEF AbstractStep, Abstract!Next
<1> QED
  BY <1>3, <1>4

\* A request that ends.
LEMMA FinishIsFinish ==
  ASSUME NEW p \in Ports, status \in [Ports -> Statuses], panic = "None",
         Phase(p) = "Busy", status' = [status EXCEPT ![p] = "Done"],
         UNCHANGED <<selectedPorts, request, queue, panic>>
  PROVE  Abstract!Finish(p)
<1>1. \A q \in Ports : Phase(q)' = IF q = p THEN "Done" ELSE Phase(q)
  BY DEF Phase
<1> QED
  BY <1>1 DEF Abstract!Finish, Members

\* A request that the panel's answer ends.
LEMMA EndIsAnswered ==
  ASSUME NEW p \in Ports, status \in [Ports -> Statuses], panic = "None",
         Phase(p) = "Busy", status' = [status EXCEPT ![p] = "Done"],
         UNCHANGED <<selectedPorts, request, queue, panic>>,
         Heard(p) = "Answer", Heard(p)' = "Nothing",
         \A q \in Ports \ {p} : Heard(q)' = Heard(q),
         responses' = IF request[p].response /\ Len(responses) < ResponseMax
                        THEN Append(responses, p) ELSE responses
  PROVE  AbstractStep
<1>1. Abstract!Finish(p)
  BY FinishIsFinish
<1>2. Abstract!Respond(p)
  BY <1>1 DEF Abstract!Respond
<1>3. \A q \in Ports : Heard(q)' = IF q = p THEN "Nothing" ELSE Heard(q)
  OBVIOUS
<1>4. Abstract!Process(p)
  BY <1>3 DEF Abstract!Process
<1>5. Abstract!Answered(p)
  BY <1>2, <1>4 DEF Abstract!Answered
<1> QED
  BY <1>5, SamePorts DEF AbstractStep, Abstract!Next

-----------------------------------------------------------------------------
(***************************************************************************)
(* The client's steps.                                                     *)
(***************************************************************************)

\* Outside error_panic the bus has not stopped.
LEMMA RunningIsNotStopped ==
  ASSUME PanicInv, pc # "panic"
  PROVE  panic = "None"
BY DEF PanicInv

\* A failed assertion stops the abstract bus, as it does this one.
LEMMA StopIsStop ==
  ASSUME panic = "None", panic' # "None",
         UNCHANGED <<status, selectedPorts, request, queue, responses>>
  PROVE  Abstract!Stop
<1>1. \A p : Phase(p)' = Phase(p)
  BY DEF Phase
<1> QED
  BY <1>1 DEF Abstract!Stop, Members

\* The two modules agree on free ports.
LEMMA FreeIsFree ==
  ASSUME BusInv, NEW p \in Ports
  PROVE  Abstract!Free(p) <=> Free(p)
<1>1. Phase(p) = "Idle" <=> status[p] = "Idle"
  BY DEF Phase
<1> QED
  BY <1>1 DEF Abstract!Free, Free, BusInv, PairInv

\* msgbus_send_request to a free port, which has nothing to process.
LEMMA SendNowIsStart ==
  ASSUME RefineInv, NEW r \in Requests, SendNow(r)
  PROVE  AbstractStep
<1>1. r.port \in Ports
  BY RequestFields DEF AnyRequest
<1>2. panic = "None"
  BY RunningIsNotStopped DEF SendNow, RefineInv
<1>3. Abstract!Free(r.port)
  BY <1>1, FreeIsFree DEF SendNow, RefineInv
<1>4. \A p \in Ports : Phase(p)' = IF p = r.port THEN "Busy" ELSE Phase(p)
  BY <1>1 DEF SendNow, Phase, RefineInv, BusInv, TypeOK
<1>5. Abstract!Start(r)
  BY <1>1, <1>2, <1>3, <1>4 DEF SendNow, Abstract!Start, Members, busVars
<1>6. flags[r.port] = {}
  BY <1>1 DEF SendNow, Free, RefineInv, BusInv, LineInv, LineOf
<1>7. Heard(r.port) = "Nothing" /\ Heard(r.port)' = "Nothing"
  BY <1>6 DEF Heard, SendNow
<1>8. \A p \in Ports \ {r.port} : Heard(p)' = Heard(p)
  BY <1>1 DEF SendNow, Heard, Phase, DataFollows, RefineInv, BusInv, TypeOK
<1>9. Abstract!StartQuiet(r)
  BY <1>1, <1>5, <1>7 DEF Abstract!StartQuiet
<1>10. \A p \in Ports : Heard(p)' = Heard(p)
  BY <1>7, <1>8
<1> QED
  BY <1>9, <1>10, BusIsAbstract

\* msgbus_send_request to another one enqueues or stops.
LEMMA SendQueuedIsEnqueue ==
  ASSUME RefineInv, NEW r \in Requests, SendQueued(r)
  PROVE  AbstractStep
<1>1. r.port \in Ports
  BY RequestFields DEF AnyRequest
<1>2. panic = "None"
  BY RunningIsNotStopped DEF SendQueued, RefineInv
<1>3. ~Abstract!Free(r.port)
  BY <1>1, FreeIsFree DEF SendQueued, RefineInv
<1>4. \A p \in Ports : Heard(p)' = Heard(p)
  BY DEF SendQueued, Heard, Phase, DataFollows
<1>5. CASE Len(queue[r.port]) = QueueMax
  <2>1. panic' # "None" /\ UNCHANGED <<status, selectedPorts, request, queue, responses>>
    BY <1>5 DEF SendQueued, Panic, busVars
  <2>2. Abstract!Overflow(r)
    BY <1>2, <1>3, <1>5, <2>1, StopIsStop DEF SendQueued, Abstract!Overflow
  <2> QED
    BY <1>4, <2>2, BusIsAbstract
<1>6. CASE Len(queue[r.port]) # QueueMax
  <2>1. Len(queue[r.port]) < QueueMax
    <3>1. Len(queue[r.port]) \in Nat /\ QueueMax \in Nat
      BY <1>1, LimitsAssumption DEF RefineInv, BusInv, TypeOK
    <3> QED
      BY <1>1, <1>6, <3>1 DEF RefineInv, LimitInv
  <2>2. /\ r \notin Queued(r.port) /\ r # request[r.port] /\ r.port \in Connected
        /\ queue' = [queue EXCEPT ![r.port] = Append(@, r)]
        /\ UNCHANGED <<status, request, selectedPorts, responses, panic>>
    BY <1>6 DEF SendQueued, busVars
  <2>3. Abstract!New(r)
    BY <2>2 DEF Abstract!New, Abstract!Queued, Queued
  <2>4. \A p : Phase(p)' = Phase(p)
    BY <2>2 DEF Phase
  <2>5. Abstract!Enqueue(r)
    BY <1>2, <1>3, <2>1, <2>2, <2>3, <2>4 DEF Abstract!Enqueue, Members
  <2> QED
    BY <1>4, <2>5, BusIsAbstract
<1> QED
  BY <1>5, <1>6

\* The client takes a response.
LEMMA TakeIsTake ==
  ASSUME RefineInv, TakeResponse
  PROVE  AbstractStep
<1>1. panic = "None"
  BY RunningIsNotStopped DEF TakeResponse, RefineInv
<1>2. \A p : Phase(p)' = Phase(p) /\ Heard(p)' = Heard(p)
  BY DEF Phase, Heard, DataFollows, TakeResponse, portVars
<1>3. Abstract!Take
  BY <1>1, <1>2 DEF TakeResponse, Abstract!Take, Members, portVars
<1> QED
  BY <1>2, <1>3, BusIsAbstract

\* The client's steps are abstract ones.
LEMMA ClientStep ==
  ASSUME RefineInv, Client
  PROVE  AbstractStep
<1>1. CASE ProcessFlags
  BY <1>1, AbstractUnchanged DEF ProcessFlags, Received, portVars, busVars, AbstractStep
<1> QED
  BY <1>1, SendNowIsStart, SendQueuedIsEnqueue, TakeIsTake DEF Client

-----------------------------------------------------------------------------
(***************************************************************************)
(* The interrupts and the panels.                                          *)
(***************************************************************************)

\* What is received while a request runs is heard.
LEMMA AnswerIsHear ==
  ASSUME RefineInv, NEW p \in Ports, Answer(p)
  PROVE  AbstractStep
<1>1. /\ UNCHANGED <<status, request, queue, selectedPorts, responses, panic>>
      /\ flags' = [flags EXCEPT ![p] = @ \cup {"receive"}]
      /\ flags \in [Ports -> SUBSET {"send", "receive"}]
  BY DEF Answer, busVars, RefineInv, BusInv, TypeOK
<1>2. status[p] \in SendingStatuses \cup WaitingStatuses /\ ~Received(p)
  BY DEF Answer, RefineInv, BusInv, LineInv, LineOf, Received
<1>3. Phase(p) = "Busy" /\ Phase(p)' = "Busy" /\ Heard(p) = "Nothing"
  BY <1>1, <1>2 DEF Phase, Heard, Received, SendingStatuses, WaitingStatuses
<1>4. Received(p)'
  BY <1>1 DEF Received
<1>5. Heard(p)' = IF DataFollows(p) THEN "Ack" ELSE "Answer"
  BY <1>1, <1>3, <1>4 DEF Heard, DataFollows, Received
<1>6. \A q \in Ports \ {p} : Heard(q)' = Heard(q)
  BY <1>1 DEF Heard, Phase, DataFollows
<1>7. UNCHANGED Abstract!busVars
  BY <1>1 DEF Abstract!busVars, Members, Phase
<1>8. PICK what \in {"Ack", "Answer"} : Heard(p)' = what /\ (what = "Ack" => request[p].data)
  BY <1>5 DEF DataFollows
<1>9. [q \in Ports |-> Heard(q)]' = [[q \in Ports |-> Heard(q)] EXCEPT ![p] = what]
  BY <1>6, <1>8
<1>10. Abstract!Hear(p, what)
  BY <1>3, <1>7, <1>8, <1>9 DEF Abstract!Hear
<1> QED
  BY <1>10, SamePorts DEF AbstractStep, Abstract!Next

\* Other interrupts, panels and the clock leave the abstract bus alone.
LEMMA EnvironmentStep ==
  ASSUME RefineInv, Environment \/ UNCHANGED vars
  PROVE  AbstractStep
<1>1. CASE \E p \in Ports, answers \in BOOLEAN : SendComplete(p, answers)
  <2>1. PICK p \in Ports, answers \in BOOLEAN : SendComplete(p, answers)
    BY <1>1
  <2>2. /\ flags' = [flags EXCEPT ![p] = @ \cup {"send"}]
        /\ flags \in [Ports -> SUBSET {"send", "receive"}]
    BY <2>1 DEF SendComplete, RefineInv, BusInv, TypeOK
  <2>3. \A q \in Ports : Received(q)' <=> Received(q)
    BY <2>2 DEF Received
  <2> QED
    BY <2>1, <2>3, AbstractUnchanged DEF SendComplete, portVars, busVars, AbstractStep
<1>2. CASE \E p \in Ports : Answer(p)
  BY <1>2, AnswerIsHear
<1>3. CASE (\E p \in Ports : AnswerUnheard(p)) \/ Tick \/ UNCHANGED vars
  BY <1>3, AbstractUnchanged DEF AnswerUnheard, Tick, vars, portVars, busVars, Received,
     AbstractStep
<1> QED
  BY <1>1, <1>2, <1>3 DEF Environment

-----------------------------------------------------------------------------
(***************************************************************************)
(* The steps of msgbus_process_flags.                                      *)
(***************************************************************************)

\* A timeout ends the request unanswered, or changes nothing.
LEMMA TimeoutStep ==
  ASSUME RefineInv, NEW p \in Ports, p = PortAt, CheckTimeout
  PROVE  AbstractStep
<1>1. p \in Ports /\ status \in [Ports -> Statuses]
  BY DEF RefineInv, BusInv, TypeOK
<1>2. panic = "None"
  BY RunningIsNotStopped DEF CheckTimeout, RefineInv
<1>3. UNCHANGED <<selectedPorts, request, queue, responses, panic, flags>>
  BY DEF CheckTimeout, busVars
<1>4. CASE TimedOut(p)
  <2>1. status' = [status EXCEPT ![p] = "Done"]
    BY <1>4 DEF CheckTimeout
  <2>2. Phase(p) = "Busy"
    BY <1>4 DEF TimedOut, WaitingStatuses, Phase
  <2>3. Abstract!Finish(p)
    BY <1>1, <1>2, <1>3, <2>1, <2>2, FinishIsFinish
  <2>4. Heard(p)' = IF Heard(p) = "Nothing" THEN "Nothing" ELSE "Late"
    BY <1>1, <1>3, <2>1, <2>2 DEF Heard, Phase
  <2>5. \A q \in Ports \ {p} : Heard(q)' = Heard(q)
    BY <1>1, <1>3, <2>1 DEF Heard, Phase, DataFollows
  <2>6. [q \in Ports |-> Heard(q)]' =
          [[q \in Ports |-> Heard(q)] EXCEPT ![p] = IF @ = "Nothing" THEN @ ELSE "Late"]
    BY <1>1, <2>4, <2>5
  <2>7. Abstract!TimeOut(p)
    BY <1>3, <2>3 DEF Abstract!TimeOut
  <2>8. Abstract!TimedOut(p)
    BY <2>6, <2>7 DEF Abstract!TimedOut
  <2> QED
    BY <1>1, <2>8, SamePorts DEF AbstractStep, Abstract!Next
<1>5. CASE ~TimedOut(p)
  <2>1. status' = status
    BY <1>5 DEF CheckTimeout
  <2> QED
    BY <1>3, <2>1, AbstractUnchanged DEF Received, AbstractStep
<1> QED
  BY <1>4, <1>5

\* The end of a send goes unnoticed; what is received between the load and the
\* store of the flags is lost.
LEMMA StoreSendStep ==
  ASSUME RefineInv, NEW p \in Ports, p = PortAt, StoreSend
  PROVE  AbstractStep
<1>1. /\ p \in Ports /\ status \in [Ports -> Statuses]
      /\ request \in [Ports -> AnyRequest]
      /\ flags \in [Ports -> SUBSET {"send", "receive"}]
  BY DEF RefineInv, BusInv, TypeOK, AnyRequest
<1>2. panic = "None"
  BY RunningIsNotStopped DEF StoreSend, RefineInv
<1>3. /\ UNCHANGED <<selectedPorts, request, queue, responses>>
      /\ flags' = [flags EXCEPT ![p] = loaded \ {"send"}]
  BY DEF StoreSend, busVars
<1>4. loaded \subseteq flags[p] /\ "send" \in flags[p]
  BY DEF StoreSend, RefineInv, BusInv, LoadInv
<1>5. status[p] \in SendingStatuses
  BY <1>1, <1>4 DEF RefineInv, BusInv, LineInv, LineOf
<1>6. status' = [status EXCEPT ![p] = AfterSend(p)] /\ panic' = panic
  BY <1>5 DEF StoreSend
<1>7. /\ AfterSend(p) \in {"Receiving", "Awaiting_Command_Ack", "Awaiting_Data_Ack"}
      /\ DataFollows(p) <=> request[p].data /\ AfterSend(p) = "Awaiting_Command_Ack"
  BY <1>5 DEF AfterSend, DataFollows, SendingStatuses
<1>8. Phase(p) = "Busy" /\ Phase(p)' = "Busy"
  BY <1>1, <1>5, <1>6, <1>7 DEF Phase, SendingStatuses
<1>9. DataFollows(p)' <=> DataFollows(p)
  BY <1>1, <1>3, <1>6, <1>7 DEF DataFollows
<1>10. Received(p)' => Received(p)
  BY <1>1, <1>3, <1>4 DEF Received
<1>11. Heard(p)' = Heard(p) \/ (Heard(p) # "Nothing" /\ Heard(p)' = "Nothing")
  BY <1>8, <1>9, <1>10 DEF Heard, Received
<1>12. \A q \in Ports \ {p} : Stays(q)
  <2>1. \A q \in Ports \ {p} : /\ status'[q] = status[q] /\ request'[q] = request[q]
                               /\ flags'[q] = flags[q]
    BY <1>1, <1>3, <1>6
  <2> QED
    BY <2>1, PortStays DEF Received
<1> QED
  BY <1>1, <1>2, <1>3, <1>6, <1>8, <1>11, <1>12, BusyStep

\* Something was received on the port that is looked at, and is processed.
LEMMA StoreReceiveProcesses ==
  ASSUME RefineInv, NEW p \in Ports, StoreReceive(p)
  PROVE  /\ panic = "None"
         /\ Heard(p) # "Nothing" /\ Heard(p)' = "Nothing"
         /\ \A q \in Ports \ {p} : Received(q)' <=> Received(q)
<1>1. panic = "None"
  BY RunningIsNotStopped DEF StoreReceive, RefineInv
<1>2. "receive" \in flags[p]
  BY DEF StoreReceive, RefineInv, BusInv, LoadInv
<1>3. /\ flags' = [flags EXCEPT ![p] = loaded \ {"receive"}]
      /\ flags \in [Ports -> SUBSET {"send", "receive"}]
  BY DEF StoreReceive, RefineInv, BusInv, TypeOK
<1>4. "receive" \notin flags'[p] /\ \A q \in Ports \ {p} : flags'[q] = flags[q]
  BY <1>3
<1> QED
  BY <1>1, <1>2, <1>4 DEF Heard, Received

\* What is out of place stops the bus.
LEMMA OutOfPlaceStep ==
  ASSUME RefineInv, NEW p \in Ports, StoreReceive(p), panic' # "None",
         UNCHANGED <<status, selectedPorts, request, queue, responses>>
  PROVE  AbstractStep
<1>1. /\ panic = "None"
      /\ Heard(p) # "Nothing" /\ Heard(p)' = "Nothing"
      /\ \A q \in Ports \ {p} : Heard(q)' = Heard(q)
  BY StoreReceiveProcesses, PortStays DEF Stays
<1>2. \A q \in Ports : Heard(q)' = IF q = p THEN "Nothing" ELSE Heard(q)
  BY <1>1
<1>3. Abstract!Process(p)
  BY <1>2 DEF Abstract!Process
<1>4. Abstract!OutOfPlace(p)
  BY <1>1, <1>3, StopIsStop DEF Abstract!OutOfPlace
<1> QED
  BY <1>4, SamePorts DEF AbstractStep, Abstract!Next

\* An acknowledgement ends the request, is followed by the data, or stops the bus.
LEMMA AckStep ==
  ASSUME RefineInv, NEW p \in Ports, ReceiveCommandAck(p) \/ ReceiveDataAck(p)
  PROVE  AbstractStep
<1>1. /\ status \in [Ports -> Statuses] /\ Phase(p) = "Busy"
      /\ status[p] \in {"Awaiting_Command_Ack", "Awaiting_Data_Ack"}
      /\ StoreReceive(p)
  BY DEF RefineInv, BusInv, TypeOK, ReceiveCommandAck, ReceiveDataAck, Phase
<1>2. UNCHANGED <<selectedPorts, request, queue, responses>>
  BY DEF ReceiveCommandAck, ReceiveDataAck, busVars
<1>3. /\ panic = "None" /\ Heard(p) # "Nothing" /\ Heard(p)' = "Nothing"
      /\ \A q \in Ports \ {p} : Received(q)' <=> Received(q)
  BY <1>1, StoreReceiveProcesses
<1>4. CASE ~Acknowledged(p)
  <2>1. panic' # "None" /\ status' = status
    BY <1>4 DEF ReceiveCommandAck, ReceiveDataAck, Panic
  <2> QED
    BY <1>1, <1>2, <2>1, OutOfPlaceStep
<1>5. CASE Acknowledged(p)
  <2>1. /\ panic' = panic
        /\ \/ /\ status' = [status EXCEPT ![p] = "Done"]
              /\ ~request[p].data \/ status[p] = "Awaiting_Data_Ack"
           \/ status' = [status EXCEPT ![p] = "Sending_Data"]
    BY <1>5 DEF ReceiveCommandAck, ReceiveDataAck, Finish
  <2>2. \A q \in Ports \ {p} : Stays(q)
    <3>1. \A q \in Ports \ {p} : status'[q] = status[q] /\ request'[q] = request[q]
      BY <1>1, <1>2, <2>1
    <3> QED
      BY <1>3, <3>1, PortStays
  <2>3. CASE /\ status' = [status EXCEPT ![p] = "Done"]
             /\ ~request[p].data \/ status[p] = "Awaiting_Data_Ack"
    <3>1. Heard(p) = "Answer"
      BY <1>1, <1>3, <2>3 DEF Heard, DataFollows
    <3>2. ~request[p].response
      BY <1>1, <2>3 DEF RefineInv, AwaitedInv, AwaitedOf
    <3> QED
      BY <1>1, <1>2, <1>3, <2>1, <2>2, <2>3, <3>1, <3>2, EndIsAnswered DEF Stays
  <2>4. CASE status' = [status EXCEPT ![p] = "Sending_Data"]
    <3>1. Phase(p)' = "Busy"
      BY <1>1, <2>4 DEF Phase
    <3> QED
      BY <1>1, <1>2, <1>3, <2>1, <2>2, <3>1, BusyStep
  <2> QED
    BY <2>1, <2>3, <2>4
<1> QED
  BY <1>4, <1>5

\* Data ends the request and goes to the client if there is room.
LEMMA ResponseStep ==
  ASSUME RefineInv, NEW p \in Ports, ReceiveResponse(p)
  PROVE  AbstractStep
<1>1. /\ status \in [Ports -> Statuses] /\ Phase(p) = "Busy"
      /\ status[p] = "Receiving" /\ request[p].response = TRUE
  <2>1. status[p] = "Receiving" /\ request[p] \in AnyRequest
    BY DEF ReceiveResponse, RefineInv, BusInv, TypeOK, AnyRequest
  <2>2. request[p].response \in BOOLEAN /\ request[p].response
    BY <2>1, RequestFields DEF RefineInv, AwaitedInv, AwaitedOf
  <2> QED
    BY <2>1, <2>2 DEF Phase, RefineInv, BusInv, TypeOK
<1>2. /\ panic = "None" /\ Heard(p) # "Nothing" /\ Heard(p)' = "Nothing"
      /\ \A q \in Ports \ {p} : Received(q)' <=> Received(q)
  BY StoreReceiveProcesses DEF ReceiveResponse
<1>3. /\ UNCHANGED <<selectedPorts, request, queue, panic>>
      /\ status' = [status EXCEPT ![p] = "Done"]
  BY DEF ReceiveResponse, Finish
<1>4. responses' = IF Len(responses) < ResponseMax THEN Append(responses, p)
                                                   ELSE responses
  <2>1. Len(responses) \in Nat /\ ResponseMax \in Nat /\ Len(responses) <= ResponseMax
    BY LimitsAssumption DEF RefineInv, BusInv, TypeOK, LimitInv
  <2>2. responses' = IF Len(responses) = ResponseMax THEN responses
                                                     ELSE Append(responses, p)
    BY DEF ReceiveResponse, AddResponse
  <2> QED
    BY <2>1, <2>2
<1>5. Heard(p) = "Answer"
  BY <1>1, <1>2 DEF Heard, DataFollows
<1>6. \A q \in Ports \ {p} : Heard(q)' = Heard(q)
  <2>1. \A q \in Ports \ {p} : status'[q] = status[q] /\ request'[q] = request[q]
    BY <1>1, <1>3
  <2> QED
    BY <1>2, <2>1, PortStays DEF Stays
<1> QED
  BY <1>1, <1>2, <1>3, <1>4, <1>5, <1>6, EndIsAnswered

\* A receive nobody waits for stops the bus.
LEMMA UnexpectedStep ==
  ASSUME RefineInv, NEW p \in Ports, ReceiveUnexpected(p)
  PROVE  AbstractStep
BY OutOfPlaceStep DEF ReceiveUnexpected, Panic, portVars, busVars

\* The switch of pairs, when nothing is left to process on the ports that get
\* the turn.
LEMMA SwitchStep ==
  ASSUME RefineInv, SwitchPorts
  PROVE  AbstractStep
<1> DEFINE old == Members(selectedPorts)
           new == Members(unselectedPorts)
<1>1. old \cup new = Ports /\ old \cap new = {}
  BY PairsPartition DEF RefineInv, BusInv
<1>2. new = Ports \ old /\ new \subseteq Ports /\ Starting = {p \in Ports \ old : queue[p] # <<>>}
  BY <1>1 DEF Starting
<1>3. panic = "None"
  BY RunningIsNotStopped DEF SwitchPorts, RefineInv
<1>4. /\ \A p \in old : status[p] \in {"Idle", "Done"}
      /\ selectedPorts' = unselectedPorts
      /\ status' = [p \in Ports |->
                      CASE p \in Starting -> "Sending_Command"
                        [] p \in old -> "Idle"
                        [] OTHER -> status[p]]
      /\ request' = [p \in Ports |->
                       IF p \in Starting THEN Head(queue[p]) ELSE request[p]]
      /\ queue' = [p \in Ports |->
                     IF p \in Starting THEN Tail(queue[p]) ELSE queue[p]]
      /\ UNCHANGED <<responses, panic>>
  BY DEF SwitchPorts
<1>5. \A p \in new : status[p] = "Idle"
  BY <1>1 DEF RefineInv, BusInv, PairInv, LineInv, LineOf
<1>6. \A p \in Ports : status'[p] = IF p \in Starting THEN "Sending_Command" ELSE "Idle"
  <2>1. \A p \in old : p \notin Starting
    BY <1>1, <1>2
  <2> HIDE DEF old, new
  <2>2. \A p \in old : status'[p] = "Idle"
    BY <1>1, <1>4, <2>1 DEF old
  <2>3. \A p \in new : p \notin Starting => status'[p] = "Idle"
    BY <1>1, <1>4, <1>5 DEF old
  <2>4. \A p \in Starting : p \in Ports /\ status'[p] = "Sending_Command"
    BY <1>1, <1>2, <1>4
  <2> QED
    BY <1>1, <2>1, <2>2, <2>3, <2>4
<1>7. \A p \in Ports : Phase(p)' = IF p \in Starting THEN "Busy" ELSE "Idle"
  BY <1>6 DEF Phase
<1>8. \A p \in old : Phase(p) # "Busy"
  BY <1>4 DEF Phase
<1>9. Members(selectedPorts)' = new
  BY <1>4 DEF Members
<1> HIDE DEF old, new
<1>10. Abstract!Switch
  <2>1. Abstract!Ports \ Members(selectedPorts) = new
    BY <1>2, SamePorts DEF old
  <2>2. {p \in new : queue[p] # <<>>} = Starting
    BY <1>2
  <2>3. /\ AbstractPhase' = [p \in Ports |-> IF p \in Starting THEN "Busy" ELSE "Idle"]
        /\ \A p \in Members(selectedPorts) : AbstractPhase[p] # "Busy"
    BY <1>1, <1>7, <1>8 DEF AbstractPhase, old
  <2> QED
    BY <1>3, <1>4, <1>9, <2>1, <2>2, <2>3, SamePorts DEF Abstract!Switch, AbstractPhase
<1>11. \A p \in new : flags[p] = {}
  BY <1>1 DEF SwitchPorts, RefineInv, BusInv, PairInv, LeftoverInv, old
<1>12. flags' = flags
  BY DEF SwitchPorts
<1>13. \A p \in new : Heard(p) = "Nothing" /\ Heard(p)' = "Nothing"
  BY <1>11, <1>12 DEF Heard
<1>14. \A p \in old : Heard(p)' = Heard(p)
  <2>1. \A p \in old : p \in Ports /\ p \notin Starting
    BY <1>1, <1>2 DEF old
  <2>2. \A p \in old : Phase(p)' # "Busy"
    BY <1>7, <2>1
  <2> QED
    BY <1>8, <1>12, <2>2 DEF Heard
<1>15. \A p \in Ports : Heard(p)' = Heard(p)
  BY <1>1, <1>13, <1>14
<1>16. Abstract!SwitchQuiet
  <2>1. Abstract!Ports \ Members(selectedPorts) = new
    BY <1>2, SamePorts DEF old
  <2>2. \A p \in new : p \in Ports /\ [q \in Ports |-> Heard(q)][p] = "Nothing"
    BY <1>1, <1>13
  <2> QED
    BY <1>10, <2>1, <2>2 DEF Abstract!SwitchQuiet
<1> QED
  BY <1>15, <1>16, BusIsAbstract

\* The steps of msgbus_process_flags are abstract ones.
LEMMA BusSteps ==
  ASSUME RefineInv, BusStep
  PROVE  AbstractStep
<1>1. CASE TestSend \/ TestReceive \/ StaySelected
  BY <1>1, AbstractUnchanged DEF TestSend, TestReceive, StaySelected, Received, portVars,
     busVars, AbstractStep
<1>2. CASE CheckTimeout \/ StoreSend
  <2>1. PortAt \in Ports
    BY ProcessOrderPorts DEF RefineInv, BusInv
  <2> QED
    BY <1>2, <2>1, TimeoutStep, StoreSendStep
<1> QED
  BY <1>1, <1>2, AckStep, ResponseStep, UnexpectedStep, SwitchStep
     DEF BusStep, Receive

\* A request ends once and in its turn, the requests of a port run in the order they
\* were sent, and a response reaches the client only for a panel that was heard to
\* answer while its request ran, in their order, as long as there is room: not for a
\* timeout, an acknowledgement or what an earlier request left (msgbus.c:195-231,
\* 303-408), whatever the transfers, the lost flags and the times in between.
THEOREM BusImplementsAnsweredBus == Spec => ImplementsAnsweredBus
<1>1. Init => Abstract!Init
  <2> SUFFICES ASSUME Init PROVE Abstract!Init
    OBVIOUS
  <2>1. \A p \in Ports : Phase(p) = "Idle" /\ Heard(p) = "Nothing"
    BY DEF Init, Phase, Heard
  <2>2. Members(selectedPorts) = {"Left", "Up"}
    BY DEF Init, Members
  <2>3. Abstract!BusInit
    BY <2>1, <2>2, SamePorts DEF Init, Abstract!BusInit
  <2> QED
    BY <2>1, <2>3, SamePorts DEF Abstract!Init
<1>2. RefineInv /\ [Next]_vars => [Abstract!Next]_(Abstract!answeredVars)
  BY BusSteps, ClientStep, EnvironmentStep DEF Next, AbstractStep
<1> QED
  BY <1>1, <1>2, RefineInvariant, PTL DEF Spec, ImplementsAnsweredBus, Abstract!Spec
=============================================================================
