------------------------------ MODULE ReqQueue ------------------------------
(***************************************************************************)
(* The request queue of a port (Src/req_queue.c): a ring of N slots with a *)
(* front and a rear index, a count, and blank requests in unused slots.    *)
(* The queue is only touched by the main thread, so each function is one   *)
(* step.                                                                   *)
(***************************************************************************)
EXTENDS Integers, Sequences, FiniteSets

CONSTANTS
  N,          \* MAX_REQ_QUEUE_LENGTH
  Requests,   \* the requests the port's clients send
  Blank       \* BlankRequest

ASSUME NAssumption == N \in Nat \ {0}
ASSUME BlankAssumption == Blank \notin Requests

VARIABLES
  items, front, rear, count,   \* the fields of RequestQueue
  taken,                       \* what the last req_queue_take returned
  panicked                     \* error_panic(Error_App_ReqQueue_QueueFull)

vars == <<items, front, rear, count, taken, panicked>>

Slots == 0..N-1

\* req_queue_init
Init ==
  /\ items = [i \in Slots |-> Blank]
  /\ front = 0
  /\ rear = -1
  /\ count = 0
  /\ taken = Blank
  /\ panicked = FALSE

\* Mutants: no look at all, or only at the newest request.
ContainsNever(r) == FALSE
ContainsNewest(r) == count # 0 /\ items[rear] = r

\* contains(): every slot is compared, the unused ones too.
Contains(r) == count # 0 /\ \E i \in Slots : items[i] = r

\* req_queue_add() looks at the count first, at the duplicates second.
AddToFull(r) ==
  /\ ~panicked
  /\ count = N
  /\ panicked' = TRUE
  /\ UNCHANGED <<items, front, rear, count, taken>>

AddDuplicate(r) ==
  /\ ~panicked
  /\ count # N
  /\ Contains(r)
  /\ UNCHANGED vars

\* Mutants: the index does not wrap, or wraps one slot early.
NextRearUnwrapped == rear + 1
NextRearEarly == (IF rear = N - 2 THEN -1 ELSE rear) + 1

\* The slot after rear, the index having wrapped at the last slot.
NextRear == (IF rear = N - 1 THEN -1 ELSE rear) + 1

AddNew(r) ==
  /\ ~panicked
  /\ count # N
  /\ ~Contains(r)
  /\ rear' = NextRear
  /\ items' = [items EXCEPT ![NextRear] = r]
  /\ count' = count + 1
  /\ UNCHANGED <<front, taken, panicked>>

Add(r) == AddToFull(r) \/ AddDuplicate(r) \/ AddNew(r)

\* Mutant: the front wraps one slot early.
NextFrontEarly == IF front + 1 >= N - 1 THEN 0 ELSE front + 1

NextFront == IF front + 1 = N THEN 0 ELSE front + 1

\* Mutant: the taken request stays in its slot.
TakenStays == items

TakenBlanked == [items EXCEPT ![front] = Blank]

\* req_queue_take() on a queue that holds something ...
TakeItem ==
  /\ ~panicked
  /\ count # 0
  /\ taken' = items[front]
  /\ items' = TakenBlanked
  /\ front' = NextFront
  /\ count' = count - 1
  /\ UNCHANGED <<rear, panicked>>

\* ... and on an empty one.
TakeBlank ==
  /\ ~panicked
  /\ count = 0
  /\ taken' = Blank
  /\ UNCHANGED <<items, front, rear, count, panicked>>

Next ==
  \/ \E r \in Requests : AddToFull(r)
  \/ \E r \in Requests : AddDuplicate(r)
  \/ \E r \in Requests : AddNew(r)
  \/ TakeItem
  \/ TakeBlank

Spec == Init /\ [][Next]_vars

-----------------------------------------------------------------------------
(***************************************************************************)
(* The abstract queue this ring stands for.                                *)
(***************************************************************************)

\* The slot of the i-th oldest request.
SlotOf(i) == IF front + i - 1 < N THEN front + i - 1 ELSE front + i - 1 - N

\* The slots in use.
Used == {SlotOf(i) : i \in 1..count}

Waiting == [i \in 1..count |-> items[SlotOf(i)]]

Fifo == INSTANCE RequestFifo
          WITH Capacity <- N, queue <- Waiting

-----------------------------------------------------------------------------
TypeOK ==
  /\ items \in [Slots -> Requests \cup {Blank}]
  /\ front \in Slots
  /\ rear \in -1..N-1
  /\ count \in 0..N
  /\ taken \in Requests \cup {Blank}
  /\ panicked \in BOOLEAN

\* The two indices and the count agree at every wrap: the slot the next
\* request goes to is the one behind the newest request (req_queue.c:44-48,
\* 56-60 keep three numbers for two degrees of freedom).
IndicesAgree ==
  NextRear = IF front + count < N THEN front + count ELSE front + count - N

\* A slot holds a request exactly when the slot is in use: a request left
\* behind by a take would make contains() refuse it forever (req_queue.c:55).
UnusedAreBlank ==
  \A i \in Slots : items[i] # Blank <=> i \in Used

\* No request waits twice (req_queue.c:41-42).
NoDuplicates ==
  \A i, j \in Used : items[i] = items[j] => i = j

\* The ring behaves as the abstract queue does: requests come out in the
\* order they went in, each once, and nothing else comes out.
ImplementsFifo == Fifo!Spec

\* With fewer different requests than slots the queue never stops the
\* firmware (req_queue.c:36-39).
FewRequestsFit ==
  IsFiniteSet(Requests) /\ Cardinality(Requests) < N => ~panicked

=============================================================================
