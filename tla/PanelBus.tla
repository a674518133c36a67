------------------------------ MODULE PanelBus ------------------------------
(***************************************************************************)
(* The message bus as its client sees it (Inc/msgbus.h): two ports at a    *)
(* time have the turn, a port runs one request a turn in the order they    *)
(* were sent, a request ends once, with the panel's response or without    *)
(* one, and responses are handed over in the order they came, unless there *)
(* is no room for them.                                                    *)
(*                                                                         *)
(* What has to come from a panel before a step may be taken is left to the *)
(* modules that extend this one: AnsweredBus, which MsgBus implements, and *)
(* MainLoop.                                                               *)
(***************************************************************************)
EXTENDS Naturals, Sequences

CONSTANTS
  Connected,      \* the ports with PANEL_*_CONNECTED 1 (config.h)
  Requests,       \* the requests clients send: records with a port and a
                  \* response field, TRUE when the panel sends data back
  Blank,          \* a port's request before its first one
  QueueMax,       \* MAX_REQ_QUEUE_LENGTH
  ResponseMax     \* RESPONSE_QUEUE_MAX

VARIABLES
  phase,      \* per port: Idle, Busy with its request, or Done with it
  turn,       \* the two ports that have the turn
  current,    \* the request a port ran last, or runs
  queue,      \* the requests waiting for the port, oldest first
  responses,  \* the ports whose response waits for the client
  stopped     \* the firmware has stopped in error_panic

busVars == <<phase, turn, current, queue, responses, stopped>>

Pairs == {{"Left", "Up"}, {"Right", "Down"}}
Ports == UNION Pairs

BusInit ==
  /\ phase = [p \in Ports |-> "Idle"]
  /\ turn = {"Left", "Up"}
  /\ current = [p \in Ports |-> Blank[p]]
  /\ queue = [p \in Ports |-> <<>>]
  /\ responses = <<>>
  /\ stopped = FALSE

Queued(p) == {queue[p][i] : i \in 1..Len(queue[p])}

Free(p) == p \in turn /\ phase[p] = "Idle"

\* A free port runs the request at once.
Start(r) ==
  /\ ~stopped
  /\ r.port \in Connected
  /\ Free(r.port)
  /\ current' = [current EXCEPT ![r.port] = r]
  /\ phase' = [phase EXCEPT ![r.port] = "Busy"]
  /\ UNCHANGED <<turn, queue, responses, stopped>>

\* Mutant: what waits already waits again.
NewIfNotLast(r) == r # current[r.port]

\* Neither a port's last request nor one that waits.
New(r) == r # current[r.port] /\ r \notin Queued(r.port)

\* A new request waits.
Enqueue(r) ==
  /\ ~stopped
  /\ r.port \in Connected
  /\ ~Free(r.port)
  /\ New(r)
  /\ Len(queue[r.port]) < QueueMax
  /\ queue' = [queue EXCEPT ![r.port] = Append(@, r)]
  /\ UNCHANGED <<phase, turn, current, responses, stopped>>

\* What is not connected, not new, or waiting already is forgotten.
Ignored(r) ==
  \/ r.port \notin Connected
  \/ /\ ~Free(r.port)
     /\ \/ r = current[r.port]
        \/ Len(queue[r.port]) < QueueMax /\ ~New(r)

Ignore(r) ==
  /\ ~stopped
  /\ Ignored(r)
  /\ UNCHANGED busVars

\* A request ends.
Finish(p) ==
  /\ ~stopped
  /\ phase[p] = "Busy"
  /\ phase' = [phase EXCEPT ![p] = "Done"]
  /\ UNCHANGED <<turn, current, queue, stopped>>

\* The panel has done what was asked; what it sent goes to the client, if that
\* is what the request was for and there is room.
Respond(p) ==
  /\ Finish(p)
  /\ responses' = IF current[p].response /\ Len(responses) < ResponseMax
                    THEN Append(responses, p) ELSE responses

\* The panel has not: nothing goes to the client.
TimeOut(p) == Finish(p) /\ UNCHANGED responses

\* The ports that lose the turn become idle, those that get it start what
\* waits for them.
Switch ==
  LET starting == {p \in Ports \ turn : queue[p] # <<>>} IN
  /\ ~stopped
  /\ \A p \in turn : phase[p] # "Busy"
  /\ turn' = Ports \ turn
  /\ phase' = [p \in Ports |-> IF p \in starting THEN "Busy" ELSE "Idle"]
  /\ current' = [p \in Ports |->
                   IF p \in starting THEN Head(queue[p]) ELSE current[p]]
  /\ queue' = [p \in Ports |->
                 IF p \in starting THEN Tail(queue[p]) ELSE queue[p]]
  /\ UNCHANGED <<responses, stopped>>

Take ==
  /\ ~stopped
  /\ responses # <<>>
  /\ responses' = Tail(responses)
  /\ UNCHANGED <<phase, turn, current, queue, stopped>>

\* The firmware stops when what a panel sends is out of place ...
Stop ==
  /\ ~stopped
  /\ stopped' = TRUE
  /\ UNCHANGED <<phase, turn, current, queue, responses>>

\* ... and when a queue is full, also for a request that waits already.
Overflow(r) ==
  /\ r.port \in Connected
  /\ ~Free(r.port)
  /\ r # current[r.port]
  /\ Len(queue[r.port]) = QueueMax
  /\ Stop
=============================================================================
