------------------------------ MODULE UartLine ------------------------------
(***************************************************************************)
(* One port of the UART driver (Src/uart.c), byte by byte: the receive     *)
(* register and the overrun flag of the USART, the receive DMA, the HAL's  *)
(* state of it, and a panel whose answer may come late or break off.  The  *)
(* bus asks and waits as in MsgBus, where an answer is a single step.      *)
(*                                                                         *)
(* Left and Down have a USART each.  Up and Right share USART2, which      *)
(* uart_connect_port initializes anew whenever it moves it.                *)
(***************************************************************************)
EXTENDS Naturals, Sequences

CONSTANTS
  Lines,      \* the kinds of line: whether its USART is shared, and whether the
              \* panel's answer may come after the timeout, however late
  Lengths,    \* how many bytes a receive is for
  WireMax,    \* bytes on their way at a time, at most
  None

ASSUME LinesAssumption == Lines \subseteq [shared : BOOLEAN, late : BOOLEAN]
ASSUME LengthsAssumption == Lengths \subseteq Nat \ {0} /\ WireMax \in Nat
ASSUME NoneAssumption == None \notin {0, 1} \X Nat

VARIABLES
  line,       \* which kind of line this one is
  turn,       \* the port has its turn
  silent,     \* nothing was on its way when the turn began
  phase,      \* of the bus: Idle, Sending, Waiting, Received, Done (timed out)
  complete,   \* the receive complete flag
  id, want,   \* the request and how many bytes it is answered with
  answered,   \* the panel answers it in full
  wire,       \* the bytes the panel has still to send
  rdr,        \* the receive register, or None
  ore,        \* the overrun flag
  dmar,       \* the receive DMA runs
  ready,      \* RxState is HAL_UART_STATE_READY
  left,       \* bytes it has still to receive
  buffer      \* bytes it has received

busVars == <<turn, silent, phase>>
requestVars == <<id, want, answered>>
uartVars == <<rdr, ore, dmar, ready, left>>
vars == <<line, busVars, complete, requestVars, wire, uartVars, buffer>>

\* The bytes of an answer; requests are told apart from the one before.
Answer(r, n) == [i \in 1..n |-> <<r, i>>]

Init ==
  /\ line \in Lines
  /\ turn = TRUE
  /\ silent = TRUE
  /\ phase = "Idle"
  /\ complete = FALSE
  /\ id = 0
  /\ want = 0
  /\ answered = FALSE
  /\ wire = <<>>
  /\ rdr = None
  /\ ore = FALSE
  /\ dmar = FALSE
  /\ ready = TRUE
  /\ left = 0
  /\ buffer = <<>>

-----------------------------------------------------------------------------
\* Mutant: a byte for the command although only the data is acknowledged.
ForCommand(n) == n + 1

Counted(n) == n

\* receive_dma.  Overrun is looked for with the DMA request still off, so that
\* HAL_UART_IRQHandler makes RxState ready and the DMA runs all the same.  What
\* is in the receive register stays there.
ReceiveDma(n) ==
  /\ ready' = (ready /\ ore)
  /\ ore' = FALSE
  /\ dmar' = TRUE
  /\ left' = Counted(n)
  /\ buffer' = <<>>
  /\ UNCHANGED rdr

\* uart_receive and uart_send of a request, or of its data after the command was
\* acknowledged.
Ask(n) ==
  /\ turn
  /\ phase \in {"Idle", "Received"}
  /\ phase' = "Sending"
  /\ id' = 1 - id
  /\ want' = n
  /\ answered' = FALSE
  /\ ReceiveDma(n)
  /\ UNCHANGED <<line, turn, silent, complete, wire>>

\* The bytes are out.  The panel answers with the first n of its bytes.
SendComplete(n) ==
  /\ phase = "Sending"
  /\ Len(wire) + n <= WireMax
  /\ phase' = "Waiting"
  /\ wire' = wire \o SubSeq(Answer(id, want), 1, n)
  /\ answered' = (n = want)
  /\ UNCHANGED <<line, turn, silent, complete, id, want, uartVars, buffer>>

\* Up or Right is disconnected while the other has USART2.
Connected == turn \/ ~line.shared

\* A byte arrives, is lost if the line is not connected, and overruns if the
\* register is full.  The DMA empties the register faster than bytes arrive.
ByteArrives ==
  /\ wire # <<>>
  /\ ~(dmar /\ rdr # None)
  /\ wire' = Tail(wire)
  /\ \/ ~Connected /\ UNCHANGED <<rdr, ore>>
     \/ Connected /\ rdr = None /\ rdr' = Head(wire) /\ UNCHANGED ore
     \/ Connected /\ rdr # None /\ ore' = TRUE /\ UNCHANGED rdr
  /\ UNCHANGED <<line, busVars, complete, requestVars, dmar, ready, left, buffer>>

\* The DMA takes the byte in the register; after the last one UART_DMAReceiveCplt
\* and HAL_UART_RxCpltCallback.
TakeByte ==
  /\ dmar
  /\ rdr # None
  /\ rdr' = None
  /\ buffer' = Append(buffer, rdr)
  /\ left' = left - 1
  /\ IF left = 1
       THEN dmar' = FALSE /\ ready' = TRUE /\ ore' = FALSE /\ complete' = TRUE
       ELSE UNCHANGED <<dmar, ready, ore, complete>>
  /\ UNCHANGED <<line, busVars, requestVars, wire>>

\* process_receive_complete
Process ==
  /\ phase = "Waiting"
  /\ complete
  /\ phase' = "Received"
  /\ complete' = FALSE
  /\ UNCHANGED <<line, turn, silent, requestVars, wire, uartVars, buffer>>

\* HAL_UART_AbortReceive, which leaves the receive register as it is.
AbortReceive ==
  /\ dmar' = FALSE
  /\ ready' = TRUE
  /\ ore' = FALSE
  /\ left' = 0
  /\ UNCHANGED rdr

\* uart_abort_receive, after a timeout.
TimedOut ==
  /\ phase = "Waiting"
  /\ ~complete
  /\ ~(dmar /\ rdr # None)
  /\ line.late \/ wire = <<>>
  /\ phase' = "Done"
  /\ AbortReceive
  /\ UNCHANGED <<line, turn, silent, complete, requestVars, wire, buffer>>

LoseTurn ==
  /\ turn
  /\ phase \in {"Idle", "Received", "Done"}
  /\ turn' = FALSE
  /\ phase' = "Idle"
  /\ UNCHANGED <<line, silent, complete, requestVars, wire, uartVars, buffer>>

\* Mutant: the USART is connected without being initialized.
ConnectOnly == UNCHANGED uartVars

\* HAL_UART_DeInit and HAL_UART_Init: disabling the USART clears its register and
\* its flags.
Reinitialize ==
  rdr' = None /\ ore' = FALSE /\ dmar' = FALSE /\ ready' = TRUE /\ left' = 0

\* uart_connect_port, which looks at nothing that is on its way: the turn of the
\* other ports may be over after a pass.
ConnectPort ==
  /\ ~turn
  /\ turn' = TRUE
  /\ silent' = (wire = <<>>)
  /\ IF line.shared THEN Reinitialize ELSE UNCHANGED uartVars
  /\ UNCHANGED <<line, phase, complete, requestVars, wire, buffer>>

Next ==
  \/ \E n \in Lengths : Ask(n)
  \/ \E n \in 0..want : SendComplete(n)
  \/ ByteArrives
  \/ TakeByte
  \/ Process
  \/ TimedOut
  \/ LoseTurn
  \/ ConnectPort

Spec == Init /\ [][Next]_vars

-----------------------------------------------------------------------------
\* "Pointer to data sent in the response" (Inc/msgbus.h:23-24): a receive that is
\* complete has the panel's answer to this request, all of it and nothing else.
\* A late byte of an earlier answer that waits in the receive register would come
\* first.
AnswerIsWhole == complete => buffer = Answer(id, want)

\* A turn that begins with nothing on its way hears whole answers and nothing of an
\* earlier turn, on Up and Right although late bytes came to their receive register
\* before (uart.c:169-231); it does not when a late answer's tail comes later.
SilentTurnsHearTheAnswer == silent => AnswerIsWhole

\* A panel that answers in full is heard (uart.c:84-94): the receive is complete
\* when the last byte of its answer has been taken, whatever came before it.
AnswerCompletes ==
  phase = "Waiting" /\ answered /\ wire = <<>> /\ rdr = None => complete
=============================================================================
