-------------------------- MODULE MsgBusInvariants --------------------------
(***************************************************************************)
(* The inductive invariants behind the safety properties of MsgBus.        *)
(* BusInv holds however the panels and the interrupts are timed; PromptInv *)
(* needs panels that answer in time.                                       *)
(***************************************************************************)
EXTENDS MsgBus

\* The two pairs are different ones, and the ports of the selected pair are
\* the ports marked selected.
PairInv ==
  /\ selectedPorts # unselectedPorts
  /\ \A p \in Ports : selected[p] <=> p \in Members(selectedPorts)

\* Every pass starts at the first port; what the main thread has loaded is
\* still set, because only it clears bits.
LoadInv ==
  /\ pc \in {"client", "switch"} => at = 1
  /\ pc \in {"store_send", "store_receive"} => loaded \subseteq flags[PortAt]
  /\ pc = "store_send" => "send" \in loaded
  /\ pc = "store_receive" => "receive" \in loaded

\* A port's status, its transfers and its flags agree.
LineOf(p) ==
  /\ tx[p] \/ "send" \in flags[p] => status[p] \in SendingStatuses
  /\ ~(tx[p] /\ "send" \in flags[p])
  /\ pc # "panic" /\ status[p] \in SendingStatuses => tx[p] \/ "send" \in flags[p]
  /\ rx[p] # "off" => /\ status[p] \in SendingStatuses \cup WaitingStatuses
                      /\ "receive" \notin flags[p]
  /\ ~selected[p] => status[p] = "Idle"
  /\ selected[p] /\ status[p] = "Idle" => flags[p] = {}

LineInv == \A p \in Ports : LineOf(p)

\* The ports process_flags() has still to look at in this pass.
ToVisit == {ProcessOrder[i] : i \in at..4}

\* An answer that raced with the timeout leaves its flag on a port that has
\* lost its turn; the next pass meets that flag before the port gets its turn
\* back.
LeftoverInv ==
  \A p \in Ports :
    ~selected[p] /\ flags[p] # {} =>
      \/ pc \in {"client", "panic"}
      \/ /\ pc \in {"test_send", "store_send", "test_receive", "store_receive"}
         /\ p \in ToVisit

BusInv == TypeOK /\ PairInv /\ LoadInv /\ LineInv /\ LeftoverInv

-----------------------------------------------------------------------------
\* The assumptions on time under which the state machine never panics, and the
\* one on the client under which no queue overflows.
PromptAnswers == AnswerTicks < TimeoutTicks /\ ~IsrBurst

RequestsOf(p) == {r \in Requests : r.port = p}

FewRequests ==
  \A p \in Ports : IsFiniteSet(RequestsOf(p)) /\ Cardinality(RequestsOf(p)) < QueueMax

\* What a port's receive has to be armed for.
Expected(p) ==
  CASE status[p] = "Sending_Command" ->
         IF AnswersAtOnce(request[p]) THEN "response" ELSE "command_ack"
    [] status[p] = "Awaiting_Command_Ack" -> "command_ack"
    [] status[p] = "Sending_Data" -> DataReceive(p)
    [] status[p] = "Awaiting_Data_Ack" -> "data_ack"
    [] status[p] = "Receiving" -> "response"
    [] OTHER -> "off"

\* The receive is armed for what the panel sends in this status, and an answer
\* is due only while it is armed and the send is over.
ReceiveOf(p) ==
  /\ rx[p] \in {"off", Expected(p)}
  /\ owes[p] => rx[p] # "off"
  /\ tx[p] => rx[p] # "off" /\ ~owes[p]
  /\ status[p] \in SendingStatuses => tx[p] \/ "send" \in flags[p]
  /\ status[p] \in {"Sending_Data", "Awaiting_Data_Ack"} =>
       request[p].data /\ ack[p].command = request[p].command
  /\ status[p] = "Awaiting_Data_Ack" => ~request[p].response

\* A completed receive finds its port waiting, or about to be, and the right
\* bytes in its buffer.
AnswerOf(p) ==
  "receive" \in flags[p] =>
    /\ status[p] \in WaitingStatuses \/ "send" \in flags[p]
    /\ Expected(p) = "command_ack" => Acknowledged(p)
    /\ Expected(p) = "data_ack" => ack[p].byte

\* An answer comes long before the timeout.
TimeOf(p) ==
  status[p] \in WaitingStatuses =>
    /\ owes[p] => waited[p] <= AnswerTicks
    /\ pc = "timeout" /\ "receive" \in flags[p] =>
         waited[p] <= AnswerTicks + (IF ticked THEN 1 ELSE 0)

PromptOf(p) == ReceiveOf(p) /\ AnswerOf(p) /\ TimeOf(p)

\* Where the main thread is in process_flags(), the send has been seen to.
OrderInv ==
  /\ pc = "test_receive" => ~({"send", "receive"} \subseteq flags[PortAt])
  /\ pc = "store_receive" => status[PortAt] \in WaitingStatuses
  /\ ticked => pc = "timeout"

\* With prompt panels nothing but a full queue stops the firmware.
OnlyOverflow == panic \in {"None", "QueueFull"}

PromptInv == BusInv /\ (\A p \in Ports : PromptOf(p)) /\ OrderInv /\ OnlyOverflow

\* A queue holds requests of its port, each once.
NoRepetition(s) == \A i, j \in 1..Len(s) : s[i] = s[j] => i = j

QueueInv ==
  \A p \in Ports : queue[p] \in Seq(RequestsOf(p)) /\ NoRepetition(queue[p])
=============================================================================
