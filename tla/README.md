# Verification of the RE:Flex Dance I/O board firmware

The firmware connects a USB host to four dance panels (Left, Down, Up, Right).
It polls each panel's sensors over RS-485 UARTs, forwards the readings to the
host as HID reports, and passes LED frames from the host on to the panels.
This directory holds TLA+ models of the parts that carry its own logic, the TLC
runs that check them on small instances, and TLAPS proofs for all instances.

Paths are relative to the repository (`src/` here). Run TLC as
`tlc -config MsgBus_kinds.cfg MCMsgBus`, the ring's runs as
`tlc -config ReqQueue_full.cfg ReqQueue`, and `tlapm MsgBus_proofs.tla`.

## The system

| Part | State | Operations | Interacts with |
|---|---|---|---|
| Message bus (`Src/msgbus.c`) | four `PortState`s (status, selected, current request and response, request queue, waiting_since, acknowledge bytes, interrupt flags), the selected and the unselected pair, a queue of response pointers | `msgbus_send_request`, `msgbus_process_flags` (timeouts, flags, switch of pairs), take a response; interrupt callbacks | called by the main loop; starts transfers of the UART driver; the driver's interrupts set its flags |
| Request queue (`Src/req_queue.c`) | a ring of 16 requests per port | init, add (refuses duplicates, panics when full), take | called by the bus, main thread only |
| UART driver (`Src/uart.c`) | three HAL handles, which of Up and Right owns USART2 | send and receive by DMA, abort, connect port | HAL, DMA and USART interrupts |
| Panel boards | outside the repository | answer a command with an acknowledgement or data | over the wire |
| Main loop (`Src/main.c`) | sensor buffers, LED buffer, frame bookkeeping | poll sensors, copy responses, send segments and commits, USB reports, keyboard demo | everything above, TinyUSB |
| HID endpoint (`Src/tusb_hid_impl.c`) | one packet, `have_packet` | set by USB, read by the main loop | |
| Keyboard (`Src/keyboard.c`) | the key report | press, release, release all | TinyUSB's keyboard endpoint |
| Profile store (`Src/eeprom_emul.c`, `Src/profile_config.c`) | a flash page | save, read with checksum | flash; not in the Makefile yet |
| Configuration mode (`Src/config_mode.c`) | one mode | set, match magic packets | called by nothing yet |
| Bench tests (`Src/commtests.c`, `Src/ledtests.c`), colours, descriptors, start-up, HAL, TinyUSB | | | vendored, register set-up, or not called by `init`/`run` |

Everything but interrupts runs in one thread. All interrupts share one priority,
so they do not preempt each other. An interrupt handler of the bus does one
thing: it sets a bit of the port's `interrupt_flags`. A failed assertion calls
`error_panic`, which loops for ever.

What is hard about it: flags set by interrupts while the main thread loads and
stores the same byte; a timeout that races with the answer; two ports in lock
step, one of which may be silent; a USART that is moved between two connectors;
buffers handed to the DMA by pointer; rings with wrapping indices; and a
protocol whose acknowledgement is checked against a byte of an earlier one.
`PROJECT.json` lists each of these at its line with the properties that cover
it, or why none does yet.

What makes each part correct:
the queue is a FIFO without duplicates that never overflows in the main loop's
use; the bus never loses a send, never panics while panels answer in time,
never changes a request under the DMA, and gives every port its turn; the
driver never cuts a transfer; the main loop shows the host fresh sensor values
and shows the panels whole frames in order; the keyboard releases the keys it
presses; what is read of the profile after a loss of power comes from the bytes
of one profile.

## Modules

| Module | What it is |
|---|---|
| `RequestFifo` | what a request queue promises: first in, first out, no request twice, a stop when full |
| `ReqQueue` | the ring of `req_queue.c`: the fields of `RequestQueue`, what the last take returned, `panicked` for `error_panic`. Each function is one step, because only the main thread calls it; `Add` is split into its exits. `Fifo` is the refinement mapping: the requests from `front` on are the abstract queue |
| `PanelBus` | the bus as its client sees it: whose turn it is, one request a turn in the order sent, each ended once, with a response or without, responses in the order they came. It leaves open what a panel has to send before a step may be taken |
| `AnsweredBus` | what the bus promises: `PanelBus` with what each panel was heard to send. A response is handed over only for a panel that was heard to answer while its request ran; a timeout, an acknowledgement that data follows, or what an earlier request left hands over nothing; a request starts only when nothing that was heard on its port is left to process |
| `MsgBus` | the bus with its UARTs, interrupts and panels (below); implements `AnsweredBus` |
| `MsgBusInvariants` | the inductive invariants behind its safety properties, and the assumptions on time and clients that some need |
| `UartLine` | the receive side of one port of `uart.c`, byte by byte |
| `MainLoop` | `run` of `main.c` and the packet buffer of `tusb_hid_impl.c`, composed with `PanelBus` (its actions are those of `PanelBus`, called as `main.c` calls `msgbus.h`) |
| `MainLoopInvariants` | the same for `MainLoop`'s queues, responses and readings |
| `MainLoopFrames` | the same for its LED frames: how far a frame has come, what the ports know of it, what the panels have of it, and how long all that takes |
| `Keyboard` | `keyboard.c` and the endpoint that takes its reports |
| `ProfileRegister` | what the profile store promises: the profile saved last; after a failure what can be read of the bytes of one profile, the new one or the one before it |
| `ProfileStore` | `profile_config.c` on `eeprom_emul.c` on a flash page that may lose power |
| `MCMsgBus`, `MCUartLine`, `MCMainLoop`, `MCKeyboard`, `MCProfileStore` | the requests, lines, packets, keys and bytes of the runs |
| `ReqQueue_proofs`, `MsgBus_proofs`, `MsgBusRefinement_proofs`, `UartLine_proofs`, `Keyboard_proofs`, `ProfileStore_proofs`, `MainLoop_proofs`, `MainLoopFrames_proofs` | the theorems |

The composition is in two levels. `MsgBus` has the bus at the grain of loads,
stores and interrupts, and implements `AnsweredBus` (checked, and proved for all
parameters). `MainLoop` uses `PanelBus` too and adds what that leaves open: who
sends what when, where the bytes of a transfer go, how many passes it takes, and
that a response needs the bytes of a transfer.
In the same way `ReqQueue` implements `RequestFifo`, which is the queue that
`MsgBus` and `PanelBus` have per port, and `UartLine` shows when an answer is the
single whole step that `MsgBus` takes it for: in a turn that begins with nothing
on its way to the port, and on Left and Down only if no answer is late.

In the mapping of `MsgBus` to `AnsweredBus`, `heard` is what the receive flag
stands for: an acknowledgement while the request's data is still to be sent, else
the answer, and `Late` when the port does not run a request. A flag that is lost
between a load and a store is a `GoOn`, and never a response.

### MsgBus in terms of the code

| Model | Code |
|---|---|
| `status`, `selected`, `request`, `response`, `queue`, `ack`, `flags` | the fields of `PortState` of the same names; `queue` is the abstract queue that `ReqQueue` is proved to implement |
| `waited` | `HAL_GetTick() - waiting_since`, saturating just above the timeout; 0 where the code does not read it |
| `selectedPorts`, `unselectedPorts`, `responses` | the statics of `msgbus.c`; `responses` holds the ports whose `current_response` is pointed to |
| `pc`, `at`, `loaded` | where the main thread is: with a client, or inside `msgbus_process_flags` at a port of its fixed order, with a loaded flags byte |
| `tx`, `rx`, `owes` | a send DMA runs; what the receive DMA is armed for; the panel was asked and has not answered |
| `SendNow`, `SendQueued` | `msgbus_send_request` |
| `ProcessFlags`, `CheckTimeout`, `TestSend`, `StoreSend`, `TestReceive`, `Receive*` | `msgbus_process_flags`, `check_timeout`, `process_flags`, `process_send_complete`, `process_receive_complete` |
| `StaySelected`, `SwitchPorts` | `switch_ports_if_done`, `switch_ports`, with `uart_connect_port` and the start of queued requests |
| `TakeResponse` | `msgbus_get_pending_response` |
| `SendComplete`, `Answer`, `AnswerUnheard`, `Tick` | the two HAL callbacks, a late answer, SysTick |

Grain. `interrupt_flags &= ~mask` is a load and a store (`-Og`, ARM, the byte is
not even volatile), so a step ends at each load and each store of a flags byte.
`any_interrupt_flags` reads four bytes, but since interrupts only set bits, one
read of all four at the moment of the last is equivalent. Interrupt handlers
are atomic: one priority, and the main thread cannot run inside them.

Abstractions, and what they leave out:

* A request is its port, its command, whether it has data and whether it expects
  a response; that is all the bus branches on, and the main loop's requests
  differ in it or in a buffer pointer that adds nothing but more requests.
* Answers are well formed. The bytes on the line, a late byte left in the receive
  register and overruns are in `UartLine`.
* A panel answers within `AnswerTicks` ticks of the end of the send, or never.
* The four timeout checks of one pass take less than a tick (`ticked`); without
  this a main thread held up for milliseconds between two checks would panic
  even with prompt panels.
* `IsrBurst` says whether a send's end and the answer to it may both interrupt
  between the two adjacent flag tests of `process_flags`.
* An answer under way is lost when USART2 is moved away from its port.
* `timeout_count` is not modelled; only a debugger reads it.
* `Connected` is fixed, as it is at compile time. `Inc/config.h` as committed has
  all four `PANEL_*_CONNECTED` at 0, with which the bus never starts a transfer;
  the runs use the values of a board with panels.

### UartLine in terms of the code

`Ask` is `uart_receive` followed by `uart_send`, with `receive_dma`'s test for a
pending overrun; `ByteArrives` and `TakeByte` are the USART and its DMA channel,
`TakeByte` with `UART_DMAReceiveCplt` and the bus's callback after the last byte;
`TimedOut` is `uart_abort_receive`; `ConnectPort` is `uart_connect_port`, which
waits for nothing: the turn of the other pair may be over in a pass, and what a
late panel is still sending then comes in the port's next turn, or a later one.
`silent` says that nothing was on its way when the present turn began. A panel
answers in full, in part or not at all, and on the lines with `late` at any time
after the timeout; `WireMax` bounds the bytes it has yet to send.

Facts of the vendored HAL that matter and are modelled: `HAL_UART_AbortReceive`
does not empty the receive register; an overrun that is pending when a receive
starts sends the interrupt handler into its error branch while the DMA request
is still off, so that `RxState` becomes ready although the DMA runs;
`HAL_UART_Init` clears register and flags. Up and Right are initialized at each
turn, Left and Down never again.

### MainLoop in terms of the code

`stage` and `at` say where a pass is: `bus` and `switch` are
`msgbus_process_flags`, `take` and `copy` the response, `report` the HID report
and the test for a complete frame, `commit` `send_commit_LEDs`, `packet` the rest
of `process_led_data`, `sensors` the polling, `usb` `tud_task`. `Transfer` moves
a half of a transfer's bytes, so that a buffer read or written meanwhile may have
a half of each; it is enabled only where a step of the loop can tell the
difference (`Exposed`), since elsewhere it commutes.

* Passes stand for time. A request takes at most `AnswerPasses` passes with a panel
  that answers, and may be over at the first look at its port, since nothing in the
  code delays that; it takes `TimeoutPasses` with one that does not, and a packet
  comes at most every `PacketPasses` passes. These are assumptions about the relative
  speed of the loop, the lines and the host, and they matter: with a small
  `PacketPasses` (4 on the instance of `main_frames`) a segment is ignored because it
  equals the request the port ran last (`msgbus.c:222`), the commit overtakes it, and a
  panel shows parts of two frames. That the last packet is processed again in every
  pass hides much of this: an ignored segment is sent again. `SlowHost` says how long
  the host must wait for this to be ruled out.
* How many panels answer matters as well. With two, whichever they are, the readings
  are whole and no response is dropped (proved). With three, a reading may be
  refilled while it is copied (`main_torn`), and with four, responses are also dropped
  from the queue of four (`ResponsesAreKept` fails on the same instance with all
  ports connected): the loop takes one response a pass, and two requests a pass may end.
* A panel that is not connected is visited like the others (`Visited`), and every
  visit of it is without effect, as `msgbus_send_request` and `start_request` make
  it in the code.
* The host sends the packets of a frame in order and all of them. Frame numbers
  are modulo `Frames`, which is at least 2 where the header has 4 bits.
* The endpoint takes every sensor report; when it does not, the next pass has
  another.

### Keyboard in terms of the code

The calls are atomic for the endpoint, since `tud_task` runs between them only.
`SendReports` takes the list of reports a call sends, of which the endpoint
takes at most the first. `failed` has the modifiers that a press that found no
slot has set, until a release of a key with that modifier, or of all keys. Keys
are classes: with a keycode and without Shift (`Lower`), with both (`Upper`),
the modifier keys, and those without keycode. What the code does and the model
shows without a property against it: `keyboard_string_to_keypresses` delivers
the first press of the string only; the release of an upper-case letter clears a
Shift that another key holds; a press that finds no slot leaves its Shift.
`main.c:171` passes `HID_KEY_ARROW_UP` (0x52), which `map_ascii` takes for the
letter R.

### ProfileStore in terms of the code

`Begin` is `epemul_write_config_data` up to the erase: the page is read into
`page_buffer` and the slot replaced; `Erase`, then `Program` once a half word
(`HAL_FLASH_Program` writes a double word in four). `EraseFails` and
`ProgramFails` are an error, which ends the call, or the loss of power, after
which only the page is left: a start reads it as the next call would.
`ProfileOf` is `profile_config_read` with its default profile.

The 8-bit sum does not tell every torn profile from a whole one, and the model
does not pretend it does. `Torn(d, S)` is what is left of the saved profile `d`
where the half words `S` are erased, `ReadsOf(d)` what can be read of such: `d`,
the default profile, and any torn profile whose sum happens to be right. After a
failure `ProfileRegister` allows one of `ReadsOf` of the profile that was
written, or of the one before it, and nothing that has bytes of both. How many
torn images pass depends on the profile: power lost while the slot is programmed
leaves one of 31 images, each of which has the right sum by a chance of one in
256, so that about one profile in nine has one that passes. A case that is
certain: when the first 62 bytes of a profile add up to 0 modulo 256, as those
of the default one do, and power is lost before the last half word of its slot,
then it reads back with 255 in its last byte and a matching sum. One of the
three profiles of `profile_power` is such. All that is assumed of the sum is
`ErasedAssumption`, that an erased slot is not valid (the sum of 63 bytes 0xFF
is 0xC1): it can be computed, but the provers do not evaluate a fold.
`ChecksumAssumption`, that the sum of a profile is a byte, is true by the
modulus and there for the same reason. TLC evaluates both. Other slots are lost
for good when a write fails between erase and reprogramming, because the next
write starts from the page as it is; `StoredIsKept` is therefore stated until a
write fails.

## Runs

| Run | Instance | Shows |
|---|---|---|
| `ring_full` | 3 slots, 4 requests, 976 states | the ring is well formed (`IndicesAgree`, `UnusedAreBlank`, `NoDuplicates`) and implements `RequestFifo`, through wraps and the overflow |
| `bus_kinds` | Left with all four shapes of request, Right with a sensor request, 254k states | `NoPanic`, `AnswerFindsReceiver`, `RequestStable` with panels that are prompt or silent |
| `bus_late` | three ports, answers at any time, bursts, 467k states | a send is never lost and never unexpected, ports without turn are quiet, and the bus implements `AnsweredBus`, although panics of other kinds happen |
| `bus_live` | two ports on different pairs, fairness | `EveryPortGetsItsTurn`, `QueuedIsSent` |
| `bus_race` | `AnswerTicks` equal to the timeout | **violated**: an answer between the test of the flags and the timeout check panics in the next pass (`msgbus.c:195-199, 386-391`) |
| `uart_lines` | an own USART with a panel in time, and the shared one with a late panel; answers of 1, 2 and 4 bytes, at most 6 bytes on their way, 2.1M states | in a turn that begins with nothing on its way a completed receive has the whole answer to its own request (`SilentTurnsHearTheAnswer`); in every turn a whole answer completes it (`AnswerCompletes`) |
| `uart_late` | an own USART with a late panel | **violated**: `AnswerIsWhole`; a late byte comes first in the next answer. (So does the tail of a late answer on the shared USART, with `Lines <- LateOnShared`) |
| `main_frames` | Left and Up answer, Right is silent; answers may be processed at the first look; a frame of three segments, 584k states | no queue overflows, no reading is dropped or torn, the host's report stays fresh, panels show whole frames (`FramesAreWhole`) and each frame in the end (`FrameIsShown`), and before the next one begins (`FrameIsShownInTime`); each packet finds the ports settled (`PacketsFindPortsSettled`) |
| `main_torn` | Left, Up and Right answer; a response queue of 4, as in the code | **violated**: `ReadingsAreWhole`; a report has halves of two readings |
| `keyboard_keys` | two slots, three letters of both cases, Shift, an unmapped key, 85k states | `SlotsDistinct`, `NothingStuck`, `HostFollows` |
| `keyboard_release` | the same | **violated**: the key typed is up again at the host |
| `profile_power` | 4-bit bytes, two slots of six bytes, three profiles, of which one torn image of one passes the sum, and two other blocks, 15k states | the store implements `ProfileRegister` with an error or power loss at any half word; slots written stay (`StoredIsKept`); only erased words are programmed |

Bounds. Ring: three slots of 16, enough for every wrap; its properties are proved
for all sizes. Bus: no run has more different requests for a port than its queue
holds but for `bus_late`, where queues of 2 overflow; a response queue of 1
instead of 4 overflows at once; `TimeoutTicks` is the code's 2. Two ports on
different pairs show the switch and a pair with an idle partner; three add the
wait of one port for another and USART2; the safety theorems are for all four.
`waited` saturates because the code compares it with the timeout only; the tick
counter's wrap after 49 days is covered with the unsigned difference it stands
for. UART: answers of one byte (first is last), two and more; six bytes on their way
let the rest of a late answer and a whole one be there together. `id` alternates, so
that an answer two requests late would pass for the present one; the theorems hold
for it all the same, since in a silent turn nothing earlier is left at all. Main loop: a
pair of ports that both work and a silent one of the other pair, the most that the
properties hold for; frames of several segments on one panel and on two; five slots for the at
most four requests of a port, as the code has 16 for six; a response queue of
2 for up to two readings a pass. `PacketPasses` is 21, the least that `SlowHost`
allows for turns of two passes (Left and Up) and three (Right, which is silent);
packets may come later. By trial on this instance `PacketsFindPortsSettled` fails up
to 14 and holds from 15, and `FramesAreWhole` fails up to 5 and holds from 6. Keyboard: two slots for three letters fill up.
Profile store: three half words a slot give a first, a middle and a last one; a
byte of four bits wraps the sum.

Fairness of `bus_live`: the main loop has no exit and calls
`msgbus_process_flags` in every pass (`main.c:188-190`), whose steps contain no
wait (`WF` of `ProcessFlags` and `BusStep`); a DMA send ends
(`WF(SendComplete)`), SysTick runs (`WF(Tick)`), and a panel that is going to
answer does (`WF(Answer \/ AnswerUnheard)`; that it is going to is a free choice
of `SendComplete`). Nothing is assumed of clients. Fairness of `main_frames`: the
loop again (`WF(LoopStep)`), and the transfer of each port that has one
(`WF(Transfer(p))`: DMA, and a panel outside `Silent` answers). Nothing is
assumed of the host: it may stop sending packets.

## Findings

1. *An answer racing the timeout stops the firmware* (`bus_race`). The flags are
   found clear, the answer's interrupt sets its flag, `check_timeout` then gives
   the port up and the next pass finds a receive for a port that is Done or
   Idle: `RecvCpltInvalidStatus`, for ever. Testing the port's flag in
   `check_timeout`, or ignoring a receive in these states, would avoid it.
2. *A late byte shifts every later answer on Left or Down* (`uart_late`). It stays
   in the receive register through the abort; the next receive takes it first
   and leaves its own last byte behind for the one after. A byte that comes where
   an acknowledgement is expected stops the firmware. Reading the register
   before `receive_dma` starts would avoid it.
3. *A reading is refilled while it is copied* (`main_torn`). The response queue holds
   pointers to the ports' responses, the loop takes one a pass, and with three panels
   that answer at once a response still waits when its pair has the turn back. The poll
   of that pass starts the port's receive, and the DMA refills `sensor_buffer` under
   `process_sensor_data`, where a comment (`main.c:71`) says "Breaks when this is being
   done after a bunch of times". Taking all the responses there are in each pass
   would avoid it.
4. *A typed key stays down* (`keyboard_release`): the release is refused while the
   endpoint holds the press.

Smaller disagreements seen while modelling: the last packet is processed again
in every pass until the next one comes, since nothing clears `have_packet`
(`tusb_hid_impl.c:69`; the comment at `main.c:208` has it processed once), so
that the panel gets the last segment of a frame again and again; the tail of a
late answer that comes after Up or Right is connected again heads the next
answer; a full queue also stops the firmware for a request that waits in it
already (`req_queue.c:36` is before 41); a send and the answer to it that both
interrupt between the two flag tests of a port are processed in the wrong order
(`msgbus.c:156-166`, the model has it under `IsrBurst`); a request for a busy
port is queued, where `Inc/msgbus.h:111-112` says it is discarded; `uart_init`
waits for the Down panel where it means the Right one (`uart.c:33`).

## Proofs

For every number of slots, set of requests, set of panels, every limit, timeout,
answer length, set of keys (the named assumptions of the modules, and no others
but where stated):

* `RingTypes`, `RingIsWellFormed`, `UnusedSlotsAreBlank` and `NoRequestTwice`: the
  four invariants of the ring, from one inductive invariant that adds to them that
  what `Waiting` shows is what the used slots hold.
* `FewRequestsNeverOverflow`: the used slots hold different requests, so that
  there are no more of them than requests (pigeonhole). The main loop uses few
  requests a port, of 16.
* `RingImplementsFifo`: the initial states map to initial states, and every step
  to a step of `RequestFifo` or a stutter.
* `TypeCorrect` for the bus.
* `SendsAreNeverLost`, `SendsAreNeverUnexpected`, `UnselectedPortsAreQuiet` and
  `RequestsAreStable`. None is inductive. They follow from `BusInv`, which says of
  each port how status, transfers and flags go together (`LineInv`), that what the
  main thread has loaded is still set (`LoadInv`: only it clears bits), which ports
  have the turn (`PairInv`), and - the part that took thought - where a flag of an
  unselected port may still be pending (`LeftoverInv`): an answer that raced with
  the timeout leaves its flag on a port that has lost its turn, and the pass that
  could give the turn back meets this flag first and stops the firmware. Without
  it a port could get its turn with an old receive flag, and a send could be
  processed for a status it does not belong to. `BusInv` assumes nothing of the
  panels' and interrupts' timing, so these four hold with late panels too.
* `BusImplementsAnsweredBus`: every step of the bus is a step of `AnsweredBus` or a
  stutter. Beside `BusInv` this needs that the firmware is stopped exactly when the
  main thread is in `panic`, that the queues keep their limits, that bytes are
  waited for only when the request asks for them, and that an acknowledgement ends
  only a request that asks for none.
* `AnswersFindReceivers` and `BusNeverPanics`, under `PromptAnswers`: a panel
  answers in less than the timeout or not at all, and the main thread is not held
  between two adjacent flag tests for the length of an answer. Finding 1 shows the
  first half to be needed, the hazard at `msgbus.c:158` the second. `BusNeverPanics`
  also assumes `FewRequests`, without which a client can fill a queue. The invariant
  is `PromptInv`: for each port what its receive is armed for in each status, that
  a completed receive finds its port waiting or about to wait, with the bytes that
  the check of the acknowledgement compares, and how long it can have waited; and
  where in `process_flags` the main thread may meet which flags. That no queue fills
  up follows from `QueueInv` by counting: a queue holds different requests of
  its own port.
* `AnswersAreWhole` of `UartLine`: under `OnlySharedIsLate`, which finding 2 shows to
  be needed, every completed receive of a turn that began with nothing on its way has
  the whole answer to its own request. The invariant says that what was received,
  what is in the register and what is on the wire follow one another in the answer,
  and that nothing is left on the line when a request of such a turn begins, since
  the shared USART was initialized when the port got its turn. `AnswersComplete` needs
  no assumption: on any line, an answer in full completes its receive, for which
  counting the bytes that come is enough, whosever they are.
* `ReportsHaveTypes`, `NoKeyTwice`, `NoKeyIsStuck`, `HostHasTheReport` of `Keyboard`,
  from lemmas about what a press and a release make of a report, and an invariant
  that relates the report last sent, the one in the endpoint and the host's.
* `StoreTypes`, `WritesAreKept`, `OnlyErasedAreProgrammed`, `StoreImplementsRegister`
  of `ProfileStore`. `PageInv` says of each phase what the page is: between writes,
  each slot that counts as stored has its bytes; while programming, the buffer's
  half words up to `at`, and erased ones from there; and always, that the first slot
  is a remainder of `source`, the profile whose bytes it has: that profile with some
  half words erased (`Torn`), or erased altogether. A write of another slot copies
  such a remainder and may be torn in turn, which is a remainder again; a profile is
  written on an erased page, and so never mixes with another. What the sum makes of
  a remainder is `ReadsOf`, whatever that is: the proof needs of the sum only
  `ErasedAssumption` and `ChecksumAssumption`.
* `LoopHasTypes` of `MainLoop`, and three theorems each with the assumption it needs:
  * `QueuesNeverOverflow`, under `FewSegments`: a port's requests (sensors, commit, and
    one per segment, of which a panel has four) are fewer than the 16 slots. Nothing
    is assumed of the panels or the host: a port whose panel is silent for ever
    collects each request once.
  * `ReadingsReachTheHostWhole`, under `FewAnswer`: no more than two panels answer,
    however soon, of the same pair or of both. Finding 3 shows that it fails with three.
  * `NoResponseIsDropped`, under that and `RoomForAPair`: two responses fit, of the
    code's four.

  The last two share `LoopInv`. Nothing in the code keeps the DMA from refilling
  `sensor_buffer` while an older response to the same port waits in the queue; that
  it does not happen with two panels is a matter of order. When two responses come
  in one pass they are of one pair, whose ports are done with their requests
  (`Fresh`). If one is left after the pass, the pair that has the turn by then has no
  panel that answers (`LeftBehind`), and so the loop takes it before that pair can
  add another, or the turn comes back. So no port polls its sensors while its
  response waits (`Refilling`), a response that is to be copied is whole and stays so
  (`BufferInv`), and so is the host's report but for the half being copied
  (`ReportInv`). TLC checked `LoopInv` on four instances with two and three connected
  panels, on one pair and on both, before it was proved.
* The LED frames of `MainLoop`, in two steps, under `FewSegments` and more than one
  frame number (`FramesDiffer`; the code has 16):
  * `SettledPortsShowWholeFrames` and `SettledPortsShowFramesInTime`: *if* every packet
    finds the ports settled (`PacketsFindPortsSettled`), then what a panel shows is one
    frame, whole, and each frame is shown before the next begins. These say what
    the code relies on, without a word about time.
  * `SlowHostsFindPortsSettled`: it does, if the host waits long enough between two
    packets (`SlowHost`: four turns of each pair and a pass). `PanelsShowWholeFrames`
    and `PanelsShowFramesInTime` put the two together.

  The argument of the first step. Nothing in `process_led_data` ties a commit to
the   segments before it, or a segment's bytes in `led_buffer` to the transfer
that reads   them. `FrameInv` says how far the frame has come, with one case of
its own for the   time after the count was cleared, in which the last segment is
counted again in   every pass (`Committing`: `have_packet` stays set).
`KnownInv` says which   requests a port can know, that it runs or holds a commit
only while `Committing`, and   that it does not know the segment of a packet not
yet processed - so that this   request is not ignored (`msgbus.c:222`).
`StagedInv` is the invariant of the transfers: each   segment has reached its
panel as `led_buffer` has it, or runs, or waits, and ahead   of any commit.
`ShownInv` is the one of the commits: sent to a port and on its way   until the
panel shows the frame, and unknown to the port before, so that it is   not
ignored as a repetition either.

  The argument of the second step. A port runs one request a turn, so that the
i-th   of its queue has ended after i cycles of turns and what is left of the
present turn   (`Wait`). `StaleInv` says of each request that no pass sends
again - an older segment,   a commit - that this is over before the next packet
may come. It is inductive   because of three facts: when such a request begins
to be stale it has at most three   others ahead of it (`KnownInv`: two segments,
the commit, the sensors); the commit is   sent in the pass after the last
segment (`PaceInv`); and every connected port is busy   again soon after it is
free (`FreeInv`), since sensors are polled in each pass.   `OverBefore` and
`Due` count the passes left of a turn, and need to know whether the loop   has
been at the port in this pass (`SeenInPass`).

  `SlowHost` is an assumption about the host and the panels that nothing in the
  firmware enforces. A silent panel makes its pair's turns last for the timeout, more
  than 2 ms, so that four turns of each pair exceed 8 ms, and a host that sends a packet
  every millisecond breaks it; the models then show `PacketsFindPortsSettled` to fail, and
  with packets still faster `FramesAreWhole`. The bound is not tight (above).
  TLC checked `OrderInv`, `StagedInv`, `ShownInv` and `TimeInv` on the instance of
  `main_frames` before they were proved.

Only model-checked: liveness under fairness (`EveryPortGetsItsTurn`,
`QueuedIsSent`, `SensorsStayFresh`, `FrameIsShown`), which is out of the
prover's reach, as are `ENABLED` and what the checksum's fold computes, for
which `ErasedAssumption` and `ChecksumAssumption` stand. Every other property of
a passing run is a theorem. `FrameIsShownInTime` is what can be proved in the
place of `FrameIsShown`: it speaks of the time before the next frame, and so of
nothing when the host stops.

## Plan

1. Done: `RequestFifo`, `ReqQueue`, `PanelBus`, `AnsweredBus`, `MsgBus`, `UartLine`,
   `MainLoop`, `Keyboard`, `ProfileRegister`, `ProfileStore`, their runs, and the theorems above:
   every safety property of the passing runs.
2. Worth doing next, if the firmware changes: a `SlowHost` that is tight (a segment
   waits behind fewer requests than a port can know), and a model of a host that
   sends at the rate of the USB endpoint, whatever the panels do.

## Not modelled

Of the parts that are modelled: the ring's indices are integers, since the
comparisons of signed bytes with unsigned bounds in `req_queue.c` are of values that
both represent; moving USART2 says nothing of DMA interrupt flags, for with no
transfer running (`QuietWhenUnselected`) there are none; `RxState` is in `UartLine`
and can be ready while the DMA runs, which nothing looks at before the next receive;
and of a write that fails the store promises no other slot (`stored` is `Unknown`
from then on), because the code loses them.

`config_mode.c` is a two-valued variable nothing reads. The bench tests
(`commtests.c`, `ledtests.c`, `color.c`) need a person with a panel;
`msgbus_switch_ports_if_done`, which only `commtests.c` calls on its own, is
modelled as the end of `msgbus_process_flags`. Of TinyUSB only the busy endpoint,
mounting and reset are in `Keyboard`; of the HAL what `UartLine` and
`ProfileStore` name. Descriptors, clock and pin set-up, and the wait for the
panels at start-up are register set-up without interleavings.

The firmware's own sources are about 3000 lines, of which the modules stand for
all logic but the bench tests', descriptors' and set-up code's. The other
850,000 lines of the repository are vendored (HAL, CMSIS, TinyUSB) and mostly
not compiled into it; a model of them would say nothing of this program, so the
share of all lines that the models stand for is small by nature.
