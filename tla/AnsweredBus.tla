---------------------------- MODULE AnsweredBus ----------------------------
(***************************************************************************)
(* What the message bus promises its client (Src/msgbus.c as a whole): a   *)
(* response is handed over only for a panel that was heard to answer while *)
(* its request ran, a request without an answer ends with nothing for the  *)
(* client, and a request starts only when nothing that was heard on its    *)
(* port is left to process.  MsgBus, with its transfers, flags, lost flags *)
(* and timeouts, implements it.                                            *)
(***************************************************************************)
EXTENDS PanelBus

VARIABLE heard   \* per port, what its panel was heard to send and the bus has
                 \* still to process: Nothing, the Ack of a command that its
                 \* data follows, the Answer, or what is Late for its request

answeredVars == <<busVars, heard>>

Init == BusInit /\ heard = [p \in Ports |-> "Nothing"]

Process(p) == heard' = [heard EXCEPT ![p] = "Nothing"]

\* The panel is heard while a request runs.  The interrupt looks at nothing else.
Hear(p, what) ==
  /\ phase[p] = "Busy"
  /\ heard[p] = "Nothing"
  /\ what = "Ack" => current[p].data
  /\ heard' = [heard EXCEPT ![p] = what]
  /\ UNCHANGED busVars

\* The request goes on: its data follows the acknowledgement, or what was heard
\* is lost.
GoOn(p) ==
  /\ ~stopped
  /\ phase[p] = "Busy"
  /\ heard[p] # "Nothing"
  /\ Process(p)
  /\ UNCHANGED busVars

\* The answer ends the request.
Answered(p) == heard[p] = "Answer" /\ Respond(p) /\ Process(p)

\* Silence does, or an answer that comes as the time is over.
TimedOut(p) ==
  /\ TimeOut(p)
  /\ heard' = [heard EXCEPT ![p] = IF @ = "Nothing" THEN @ ELSE "Late"]

\* What was heard is not what the bus waits for.
OutOfPlace(p) == heard[p] # "Nothing" /\ Stop /\ Process(p)

StartQuiet(r) == heard[r.port] = "Nothing" /\ Start(r)

SwitchQuiet == (\A p \in Ports \ turn : heard[p] = "Nothing") /\ Switch

Next ==
  \/ \E p \in Ports : \/ \E what \in {"Ack", "Answer"} : Hear(p, what)
                      \/ GoOn(p)
                      \/ Answered(p)
                      \/ TimedOut(p)
                      \/ OutOfPlace(p)
  \/ /\ \/ \E r \in Requests : \/ StartQuiet(r)
                               \/ Enqueue(r)
                               \/ Ignore(r)
                               \/ Overflow(r)
        \/ SwitchQuiet
        \/ Take
     /\ UNCHANGED heard

Spec == Init /\ [][Next]_answeredVars
=============================================================================
