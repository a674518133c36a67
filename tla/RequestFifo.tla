---------------------------- MODULE RequestFifo ----------------------------
(***************************************************************************)
(* What a request queue of one port promises (req_queue.h): a first-in     *)
(* first-out queue of at most Capacity different requests.  ReqQueue, the  *)
(* ring buffer of the code, implements it.                                 *)
(***************************************************************************)
EXTENDS Naturals, Sequences

CONSTANTS
  Requests,   \* the requests a client may queue
  Blank,      \* BlankRequest, what a take from an empty queue returns
  Capacity    \* MAX_REQ_QUEUE_LENGTH

VARIABLES
  queue,      \* the requests waiting, oldest first
  taken,      \* what the last take returned
  panicked    \* the firmware has stopped in error_panic

vars == <<queue, taken, panicked>>

Queued == {queue[i] : i \in 1..Len(queue)}

Init ==
  /\ queue = <<>>
  /\ taken = Blank
  /\ panicked = FALSE

\* A full queue stops the firmware, whatever is offered to it.
Refuse(r) ==
  /\ ~panicked
  /\ Len(queue) = Capacity
  /\ panicked' = TRUE
  /\ UNCHANGED <<queue, taken>>

\* A request that already waits is not queued twice.
Ignore(r) ==
  /\ ~panicked
  /\ Len(queue) < Capacity
  /\ r \in Queued
  /\ UNCHANGED vars

Accept(r) ==
  /\ ~panicked
  /\ Len(queue) < Capacity
  /\ r \notin Queued
  /\ queue' = Append(queue, r)
  /\ UNCHANGED <<taken, panicked>>

TakeOldest ==
  /\ ~panicked
  /\ queue # <<>>
  /\ taken' = Head(queue)
  /\ queue' = Tail(queue)
  /\ UNCHANGED panicked

TakeNothing ==
  /\ ~panicked
  /\ queue = <<>>
  /\ taken' = Blank
  /\ UNCHANGED <<queue, panicked>>

Next ==
  \/ \E r \in Requests : Refuse(r) \/ Ignore(r) \/ Accept(r)
  \/ TakeOldest
  \/ TakeNothing

Spec == Init /\ [][Next]_vars
=============================================================================
