--------------------------- MODULE ReqQueue_proofs ---------------------------
(***************************************************************************)
(* Proofs about ReqQueue, for every N, every set of requests: the ring is  *)
(* well formed, holds no request twice, and implements RequestFifo.        *)
(***************************************************************************)
EXTENDS ReqQueue, FiniteSetTheorems, SequenceTheorems, TLAPS

\* The inductive invariant: the ring's shape and what its slots hold.
RingInv == TypeOK /\ IndicesAgree /\ UnusedAreBlank /\ NoDuplicates

-----------------------------------------------------------------------------
\* Facts about the slots of a well-formed ring.

\* Positions in the queue and slots of the ring correspond, through the wrap.
LEMMA SlotsOfPositions ==
  ASSUME TypeOK
  PROVE  /\ \A i \in 1..N : SlotOf(i) \in Slots
         /\ \A i, j \in 1..N : SlotOf(i) = SlotOf(j) => i = j
         /\ Used = {SlotOf(i) : i \in 1..count}
         /\ 1..count \subseteq 1..N
  BY NAssumption DEF TypeOK, SlotOf, Slots, Used

\* The next request goes behind the newest one, to a slot not in use.
LEMMA NextRearIsFree ==
  ASSUME TypeOK, IndicesAgree, count # N
  PROVE  /\ NextRear = SlotOf(count + 1)
         /\ NextRear \in Slots
         /\ NextRear \notin Used
  <1>1. NextRear = SlotOf(count + 1)
    BY NAssumption DEF TypeOK, IndicesAgree, SlotOf, Slots
  <1>2. count + 1 \in 1..N /\ \A i \in 1..count : i \in 1..N /\ i # count + 1
    BY NAssumption DEF TypeOK
  <1>3. QED
    BY <1>1, <1>2, SlotsOfPositions DEF Used

\* The oldest request is in the front slot, which a non-empty ring uses.
LEMMA FrontIsOldest ==
  ASSUME TypeOK, count # 0
  PROVE  /\ front = SlotOf(1)
         /\ front \in Used
  <1>1. front = SlotOf(1) /\ 1 \in 1..count
    BY NAssumption DEF TypeOK, SlotOf, Slots
  <1>2. QED
    BY <1>1 DEF Used

\* After a take every position moves up by one.
LEMMA PositionsMoveUp ==
  ASSUME TypeOK, TakeItem
  PROVE  /\ \A i \in 1..count-1 : SlotOf(i)' = SlotOf(i + 1)
         /\ Used' = Used \ {front}
  <1>1. \A i \in 1..count-1 : SlotOf(i)' = SlotOf(i + 1)
    BY NAssumption DEF TypeOK, TakeItem, NextFront, SlotOf, Slots
  <1>2. count \in 1..N /\ count' = count - 1
    BY NAssumption DEF TypeOK, TakeItem
  <1>3. Used' = {SlotOf(i + 1) : i \in 1..count-1}
    BY <1>1, <1>2 DEF Used
  <1>4. front = SlotOf(1)
    BY FrontIsOldest DEF TakeItem
  <1>5. ASSUME NEW s \in Used, s # front
        PROVE  \E i \in 1..count-1 : s = SlotOf(i + 1)
    <2>1. PICK k \in 1..count : s = SlotOf(k)
      BY DEF Used
    <2>2. k # 1
      BY <1>4, <1>5, <2>1
    <2>3. k - 1 \in 1..count-1 /\ s = SlotOf((k - 1) + 1)
      BY <1>2, <2>1, <2>2
    <2>4. QED
      BY <2>3
  <1>6. ASSUME NEW i \in 1..count-1
        PROVE  SlotOf(i + 1) \in Used /\ SlotOf(i + 1) # front
    <2>1. i + 1 \in 1..count /\ i + 1 \in 1..N /\ 1 \in 1..N /\ i + 1 # 1
      BY <1>2, NAssumption
    <2>2. QED
      BY <1>4, <2>1, SlotsOfPositions DEF Used
  <1>7. QED
    BY <1>1, <1>3, <1>5, <1>6

-----------------------------------------------------------------------------
\* RingInv holds initially.
LEMMA RingInvInit == Init => RingInv
  <1> SUFFICES ASSUME Init PROVE RingInv
    OBVIOUS
  <1>1. TypeOK
    <2>1. 0 \in 0..N-1 /\ -1 \in -1..N-1 /\ 0 \in 0..N
      BY NAssumption
    <2>2. QED
      BY <2>1, Zenon DEF Init, TypeOK, Slots
  <1>2. IndicesAgree
    BY NAssumption DEF Init, IndicesAgree, NextRear
  <1>3. Used = {}
    BY DEF Init, Used
  <1>4. QED
    BY <1>1, <1>2, <1>3 DEF RingInv, UnusedAreBlank, NoDuplicates, Init

\* A new request goes to a slot that is not used.
LEMMA RingInvAddNew ==
  ASSUME RingInv, NEW r \in Requests, AddNew(r)
  PROVE  RingInv'
  <1> USE DEF RingInv
  <1>1. NextRear = SlotOf(count + 1) /\ NextRear \in Slots /\ NextRear \notin Used
    BY NextRearIsFree DEF AddNew
  <1>2. TypeOK'
    BY <1>1, NAssumption DEF TypeOK, AddNew, Slots
  <1>3. IndicesAgree'
    BY NAssumption DEF TypeOK, IndicesAgree, NextRear, AddNew, Slots
  <1>4. Used' = Used \cup {NextRear}
    <2>1. \A i \in 1..count + 1 : SlotOf(i)' = SlotOf(i)
      BY DEF AddNew, SlotOf
    <2>2. Used' = {SlotOf(i) : i \in 1..count + 1}
      BY <2>1 DEF Used, AddNew
    <2>3. 1..count + 1 = (1..count) \cup {count + 1}
      BY DEF TypeOK
    <2>4. QED
      BY <1>1, <2>2, <2>3 DEF Used
  <1>5. items' = [items EXCEPT ![NextRear] = r] /\ items \in [Slots -> Requests \cup {Blank}]
    BY DEF AddNew, TypeOK
  <1>6. UnusedAreBlank'
    BY <1>1, <1>4, <1>5, BlankAssumption DEF UnusedAreBlank
  <1>7. NoDuplicates'
    <2>1. Used \subseteq Slots
      BY SlotsOfPositions
    <2>2. \A i \in Used : items[i] # r
      <3>1. CASE count = 0
        BY <3>1 DEF Used
      <3>2. CASE count # 0
        BY <2>1, <3>2 DEF AddNew, Contains
      <3>3. QED
        BY <3>1, <3>2
    <2>3. QED
      BY <1>1, <1>4, <1>5, <2>1, <2>2 DEF NoDuplicates
  <1>8. QED
    BY <1>2, <1>3, <1>6, <1>7

\* The slot at front is blanked and no longer used.
LEMMA RingInvTakeItem ==
  ASSUME RingInv, TakeItem
  PROVE  RingInv'
  <1> USE DEF RingInv
  <1>1. front \in Slots /\ front \in Used
    BY FrontIsOldest DEF TypeOK, TakeItem
  <1>2. TypeOK'
    BY NAssumption DEF TypeOK, TakeItem, TakenBlanked, NextFront, Slots
  <1>3. IndicesAgree'
    BY NAssumption DEF TypeOK, IndicesAgree, NextRear, TakeItem, NextFront, Slots
  <1>4. Used' = Used \ {front} /\ Used \subseteq Slots
    BY PositionsMoveUp, SlotsOfPositions
  <1>5. items' = [items EXCEPT ![front] = Blank] /\ items \in [Slots -> Requests \cup {Blank}]
    BY DEF TakeItem, TakenBlanked, TypeOK
  <1>6. UnusedAreBlank'
    BY <1>1, <1>4, <1>5 DEF UnusedAreBlank
  <1>7. NoDuplicates'
    BY <1>4, <1>5 DEF NoDuplicates
  <1>8. QED
    BY <1>2, <1>3, <1>6, <1>7

\* The steps that leave the ring alone.
LEMMA RingInvUnchanged ==
  ASSUME RingInv, UNCHANGED <<items, front, rear, count>>,
         taken' \in Requests \cup {Blank}, panicked' \in BOOLEAN
  PROVE  RingInv'
  <1>1. \A i : SlotOf(i)' = SlotOf(i)
    BY DEF SlotOf
  <1>2. Used' = Used
    BY <1>1 DEF Used
  <1>3. QED
    BY <1>2 DEF RingInv, TypeOK, IndicesAgree, NextRear, UnusedAreBlank, NoDuplicates

\* RingInv is inductive.
LEMMA RingInvNext == RingInv /\ [Next]_vars => RingInv'
  <1> SUFFICES ASSUME RingInv, [Next]_vars PROVE RingInv'
    OBVIOUS
  <1> taken \in Requests \cup {Blank} /\ panicked \in BOOLEAN
    BY DEF RingInv, TypeOK
  <1>1. ASSUME NEW r \in Requests, AddToFull(r) PROVE RingInv'
    BY <1>1, RingInvUnchanged DEF AddToFull
  <1>2. ASSUME NEW r \in Requests, AddDuplicate(r) PROVE RingInv'
    BY <1>2, RingInvUnchanged DEF AddDuplicate, vars
  <1>3. ASSUME NEW r \in Requests, AddNew(r) PROVE RingInv'
    BY <1>3, RingInvAddNew
  <1>4. CASE TakeItem
    BY <1>4, RingInvTakeItem
  <1>5. CASE TakeBlank
    BY <1>5, RingInvUnchanged DEF TakeBlank
  <1>6. CASE UNCHANGED vars
    BY <1>6, RingInvUnchanged DEF vars
  <1>7. QED
    BY <1>1, <1>2, <1>3, <1>4, <1>5, <1>6 DEF Next

\* RingInv holds throughout.
LEMMA RingInvariant == Spec => []RingInv
  BY RingInvInit, RingInvNext, PTL DEF Spec

\* Every variable keeps its type: no index leaves the ring, and the count
\* never passes the number of slots (req_queue.c:35-63).
THEOREM RingTypes == Spec => []TypeOK
  <1>1. RingInv => TypeOK
    BY DEF RingInv
  <1>2. QED
    BY <1>1, RingInvariant, PTL

\* Front and rear are always as far apart as the count says (req_queue.c:35-63),
\* through any number of wraps.
THEOREM RingIsWellFormed == Spec => []IndicesAgree
  <1>1. RingInv => IndicesAgree
    BY DEF RingInv
  <1>2. QED
    BY <1>1, RingInvariant, PTL

\* Exactly the slots in use hold requests: contains(), which looks at
\* all slots, finds no request that was taken already (req_queue.c:15-23, 55).
THEOREM UnusedSlotsAreBlank == Spec => []UnusedAreBlank
  <1>1. RingInv => UnusedAreBlank
    BY DEF RingInv
  <1>2. QED
    BY <1>1, RingInvariant, PTL

\* No request waits twice (req_queue.c:41-42).
THEOREM NoRequestTwice == Spec => []NoDuplicates
  <1>1. RingInv => NoDuplicates
    BY DEF RingInv
  <1>2. QED
    BY <1>1, RingInvariant, PTL

-----------------------------------------------------------------------------
\* A full ring uses every slot.
LEMMA FullUsesAll ==
  ASSUME TypeOK, count = N
  PROVE  Used = Slots
  <1>1. ASSUME NEW s \in Slots
        PROVE  \E i \in 1..N : SlotOf(i) = s
    <2> DEFINE k == IF s >= front THEN s - front + 1 ELSE s - front + 1 + N
    <2>1. k \in 1..N /\ SlotOf(k) = s
      BY NAssumption DEF TypeOK, SlotOf, Slots
    <2>2. QED
      BY <2>1
  <1>2. QED
    BY <1>1, SlotsOfPositions DEF Used

\* With fewer different requests than slots the ring is never full, by the
\* pigeonhole principle.
LEMMA FewNeverFull ==
  ASSUME RingInv, IsFiniteSet(Requests), Cardinality(Requests) < N
  PROVE  count # N
  <1> SUFFICES ASSUME count = N PROVE FALSE
    OBVIOUS
  <1>1. Used = Slots
    BY FullUsesAll DEF RingInv
  <1>2. \A i \in Slots : items[i] \in Requests
    BY <1>1 DEF RingInv, TypeOK, UnusedAreBlank
  <1>3. IsFiniteSet(Slots) /\ Cardinality(Slots) = N
    <2>1. 0 \in Int /\ N - 1 \in Int
      BY NAssumption
    <2>2. IsFiniteSet(0..N-1) /\ Cardinality(0..N-1) = IF 0 > N-1 THEN 0 ELSE N-1-0+1
      BY <2>1, FS_Interval
    <2>3. QED
      BY <2>2, NAssumption DEF Slots
  <1>4. PICK f \in [Slots -> Requests] : \A i \in Slots : f[i] = items[i]
    <2>1. [i \in Slots |-> items[i]] \in [Slots -> Requests]
      BY <1>2
    <2>2. QED
      BY <2>1
  <1>5. \E x, y \in Slots : x # y /\ f[x] = f[y]
    BY <1>3, FS_PigeonHole
  <1>6. QED
    BY <1>1, <1>4, <1>5 DEF RingInv, NoDuplicates

\* A port whose clients use fewer different requests than the queue has slots
\* never stops the firmware with QueueFull (req_queue.c:36-39), whatever they
\* send and however often.  The main loop uses six (main.c:41-99).
THEOREM FewRequestsNeverOverflow == Spec => []FewRequestsFit
  <1>1. Init => FewRequestsFit
    BY DEF Init, FewRequestsFit
  <1>2. RingInv /\ FewRequestsFit /\ [Next]_vars => FewRequestsFit'
    <2> SUFFICES ASSUME RingInv, FewRequestsFit, [Next]_vars,
                        IsFiniteSet(Requests), Cardinality(Requests) < N
                 PROVE  ~panicked'
      BY DEF FewRequestsFit
    <2>1. ~panicked /\ count # N
      BY FewNeverFull DEF FewRequestsFit
    <2>2. QED
      BY <2>1 DEF Next, vars, AddToFull, AddDuplicate, AddNew, TakeItem, TakeBlank
  <1>3. QED
    BY <1>1, <1>2, RingInvInit, RingInvNext, PTL DEF Spec

-----------------------------------------------------------------------------
\* The ring implements the abstract queue.

\* The refinement mapping's sequence, as the SMT backend likes to see it.
LEMMA WaitingIsSeq ==
  ASSUME RingInv
  PROVE  /\ Waiting \in Seq(Requests)
         /\ Len(Waiting) = count
         /\ \A i \in 1..count : Waiting[i] = items[SlotOf(i)]
         /\ Fifo!Queued = {items[s] : s \in Used}
  <1>1. count \in Nat
    BY DEF RingInv, TypeOK
  <1>2. \A i \in 1..count : items[SlotOf(i)] \in Requests
    <2>1. \A s \in Used : s \in Slots /\ items[s] \in Requests
      BY SlotsOfPositions DEF RingInv, TypeOK, UnusedAreBlank
    <2>2. QED
      BY <2>1 DEF Used
  <1>3. /\ Waiting \in Seq(Requests)
        /\ Len(Waiting) = count
        /\ \A i \in 1..count : Waiting[i] = items[SlotOf(i)]
    BY <1>1, <1>2 DEF Waiting
  <1>4. Fifo!Queued = {items[s] : s \in Used}
    BY <1>3 DEF Fifo!Queued, Used
  <1>5. QED
    BY <1>3, <1>4

\* The search through all slots finds exactly what waits.
LEMMA ContainsIsQueued ==
  ASSUME RingInv, NEW r \in Requests
  PROVE  Contains(r) <=> r \in Fifo!Queued
  <1>1. Used \subseteq Slots /\ (count = 0 => Used = {})
    BY SlotsOfPositions DEF RingInv, Used
  <1>2. \A i \in Slots : items[i] = r => i \in Used
    BY BlankAssumption DEF RingInv, UnusedAreBlank
  <1>3. QED
    BY <1>1, <1>2, WaitingIsSeq DEF Contains

\* Adding at the rear is adding at the end of the abstract queue.
LEMMA AddNewIsAccept ==
  ASSUME RingInv, RingInv', NEW r \in Requests, AddNew(r)
  PROVE  Fifo!Accept(r)
  <1>1. /\ Waiting \in Seq(Requests) /\ Len(Waiting) = count
        /\ \A i \in 1..count : Waiting[i] = items[SlotOf(i)]
    BY WaitingIsSeq
  <1>2. count < N /\ count \in Nat /\ N \in Nat
    BY NAssumption DEF AddNew, RingInv, TypeOK
  <1>3. r \notin Fifo!Queued
    BY ContainsIsQueued DEF AddNew
  <1>4. \A i \in 1..count + 1 : SlotOf(i)' = SlotOf(i)
    BY DEF AddNew, SlotOf
  <1>5. items'[SlotOf(count + 1)] = r
    BY NextRearIsFree DEF RingInv, TypeOK, AddNew
  <1>6. \A i \in 1..count : items'[SlotOf(i)] = items[SlotOf(i)]
    <2>1. \A i \in 1..count : SlotOf(i) \in Used
      BY DEF Used
    <2>2. NextRear \notin Used /\ Used \subseteq Slots
      BY NextRearIsFree, SlotsOfPositions DEF RingInv, AddNew
    <2>3. items' = [items EXCEPT ![NextRear] = r] /\ items \in [Slots -> Requests \cup {Blank}]
      BY DEF AddNew, RingInv, TypeOK
    <2>4. QED
      BY <2>1, <2>2, <2>3
  <1>7. Waiting' = [i \in 1..count + 1 |-> items'[SlotOf(i)]]
    BY <1>4 DEF Waiting, AddNew
  <1>8. Waiting' = Append(Waiting, r)
    <2> DEFINE new == [i \in 1..count + 1 |-> items'[SlotOf(i)]]
               old == Append(Waiting, r)
    <2>1. /\ old \in Seq(Requests) /\ Len(old) = count + 1
          /\ \A i \in 1..count + 1 :
               old[i] = IF i = count + 1 THEN r ELSE items[SlotOf(i)]
      BY <1>1, <1>2
    <2>2. \A i \in 1..count + 1 : items'[SlotOf(i)] = old[i]
      BY <1>2, <1>5, <1>6, <2>1
    <2>3. new \in Seq(Requests) /\ Len(new) = count + 1
      <3>1. \A i \in 1..count + 1 : items'[SlotOf(i)] \in Requests
        <4> HIDE DEF old
        <4>1. QED
          BY <1>2, <2>1, <2>2
      <3>2. QED
        BY <1>2, <3>1
    <2>4. \A i \in 1..count + 1 : new[i] = old[i]
      BY <2>2
    <2>5. new = old
      <3> HIDE DEF new, old
      <3>1. QED
        BY <2>1, <2>3, <2>4, SeqEqual
    <2>6. QED
      BY <1>7, <2>5
  <1>9. QED
    BY <1>1, <1>2, <1>3, <1>8 DEF Fifo!Accept, AddNew

\* Taking at the front is taking the oldest.
LEMMA TakeItemIsTakeOldest ==
  ASSUME RingInv, RingInv', TakeItem
  PROVE  Fifo!TakeOldest
  <1>1. /\ Waiting \in Seq(Requests) /\ Len(Waiting) = count
        /\ \A i \in 1..count : Waiting[i] = items[SlotOf(i)]
    BY WaitingIsSeq
  <1>2. count \in Nat /\ count # 0 /\ count' = count - 1
    BY DEF TakeItem, RingInv, TypeOK
  <1>3. Head(Waiting) = items[front]
    BY <1>1, <1>2, FrontIsOldest DEF RingInv
  <1>4. \A i \in 1..count-1 : items'[SlotOf(i)'] = items[SlotOf(i + 1)]
    <2>1. \A i \in 1..count-1 : SlotOf(i)' = SlotOf(i + 1)
      BY PositionsMoveUp DEF RingInv
    <2>2. \A i \in 1..count-1 : SlotOf(i)' \in Used'
      BY <1>2 DEF Used
    <2>3. Used' = Used \ {front} /\ Used \subseteq Slots
      BY PositionsMoveUp, SlotsOfPositions DEF RingInv
    <2>4. items' = [items EXCEPT ![front] = Blank] /\ items \in [Slots -> Requests \cup {Blank}]
      BY DEF TakeItem, TakenBlanked, RingInv, TypeOK
    <2>5. QED
      BY <2>1, <2>2, <2>3, <2>4
  <1>5. Waiting' = [i \in 1..count-1 |-> items[SlotOf(i + 1)]]
    BY <1>2, <1>4 DEF Waiting
  <1>6. Waiting' = Tail(Waiting)
    <2> DEFINE new == [i \in 1..count-1 |-> items[SlotOf(i + 1)]]
               old == Tail(Waiting)
    <2>1. /\ old \in Seq(Requests) /\ Len(old) = count - 1
          /\ \A i \in 1..count-1 : old[i] = items[SlotOf(i + 1)]
      BY <1>1, <1>2, HeadTailProperties
    <2>2. new \in Seq(Requests) /\ Len(new) = count - 1
      <3>1. \A i \in 1..count-1 : items[SlotOf(i + 1)] \in Requests
        BY <1>2, <2>1
      <3>2. QED
        BY <1>2, <3>1
    <2>3. \A i \in 1..count-1 : new[i] = old[i]
      BY <2>1
    <2>4. new = old
      <3> HIDE DEF new, old
      <3>1. QED
        BY <2>1, <2>2, <2>3, SeqEqual
    <2>5. QED
      BY <1>5, <2>4
  <1>7. QED
    BY <1>1, <1>2, <1>3, <1>6 DEF Fifo!TakeOldest, TakeItem

\* The steps that leave the ring alone leave the abstract queue alone.
LEMMA WaitingUnchanged ==
  ASSUME UNCHANGED <<items, front, count>>
  PROVE  UNCHANGED Waiting
  <1>1. \A i : SlotOf(i)' = SlotOf(i)
    BY DEF SlotOf
  <1>2. QED
    BY <1>1 DEF Waiting

\* Every step is a step of the abstract queue or a stutter.
LEMMA StepImplementsFifo ==
  RingInv /\ RingInv' /\ [Next]_vars => [Fifo!Next]_(Fifo!vars)
  <1> SUFFICES ASSUME RingInv, RingInv', [Next]_vars
               PROVE  Fifo!Next \/ UNCHANGED Fifo!vars
    OBVIOUS
  <1>1. Len(Waiting) = count /\ Waiting \in Seq(Requests) /\ count \in 0..N /\ N \in Nat
    BY WaitingIsSeq, NAssumption DEF RingInv, TypeOK
  <1>2. ASSUME NEW r \in Requests, AddToFull(r)
        PROVE  Fifo!Refuse(r)
    BY <1>1, <1>2, WaitingUnchanged DEF AddToFull, Fifo!Refuse
  <1>3. ASSUME NEW r \in Requests, AddDuplicate(r)
        PROVE  UNCHANGED Fifo!vars
    BY <1>3, WaitingUnchanged DEF AddDuplicate, vars, Fifo!vars
  <1>4. ASSUME NEW r \in Requests, AddNew(r)
        PROVE  Fifo!Accept(r)
    BY <1>4, AddNewIsAccept
  <1>5. CASE TakeItem
    BY <1>5, TakeItemIsTakeOldest DEF Fifo!Next
  <1>6. CASE TakeBlank
    <2>1. Waiting = <<>> /\ UNCHANGED Waiting
      BY <1>1, <1>6, WaitingUnchanged DEF TakeBlank
    <2>2. QED
      BY <1>6, <2>1 DEF TakeBlank, Fifo!TakeNothing, Fifo!Next
  <1>7. CASE UNCHANGED vars
    BY <1>7, WaitingUnchanged DEF vars, Fifo!vars
  <1>8. QED
    BY <1>2, <1>3, <1>4, <1>5, <1>6, <1>7 DEF Next, Fifo!Next

\* The ring buffer implements a first-in first-out queue without duplicates,
\* through any number of wraps (req_queue.c:35-62).
THEOREM RingImplementsFifo == Spec => ImplementsFifo
  <1>1. Init => Fifo!Init
    <2> SUFFICES ASSUME Init PROVE Fifo!Init
      OBVIOUS
    <2>1. Len(Waiting) = 0 /\ Waiting \in Seq(Requests)
      BY RingInvInit, WaitingIsSeq DEF Init
    <2>2. QED
      BY <2>1 DEF Init, Fifo!Init
  <1>2. QED
    BY <1>1, RingInvInit, RingInvNext, StepImplementsFifo, PTL
       DEF Spec, ImplementsFifo, Fifo!Spec
=============================================================================
