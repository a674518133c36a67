-------------------------- MODULE MainLoop_proofs --------------------------
(***************************************************************************)
(* MainLoop: for any panels, silent ones among them, any frames and any    *)
(* timing of the DMA, no queue overflows, responses are kept and readings  *)
(* reach the host whole.                                                   *)
(***************************************************************************)
EXTENDS MainLoopInvariants, FiniteSetTheorems, SequenceTheorems, TLAPS

-----------------------------------------------------------------------------
(***************************************************************************)
(* Ports and requests.                                                     *)
(***************************************************************************)

\* Two ports have the turn, the other two do not.
LEMMA TurnOfTwo ==
  ASSUME NEW t \in Pairs
  PROVE  /\ t \subseteq Ports /\ Ports \ t \in Pairs
         /\ \E p, q \in Ports : t = {p, q}
  BY DEF Pairs, Ports

\* The loop visits every port once in a stage.
LEMMA VisitedOnce ==
  /\ Len(Visited) = 4
  /\ \A i \in 1..4 : Visited[i] \in Ports
  /\ \A i, j \in 1..4 : Visited[i] = Visited[j] => i = j
  <1>1. Len(Visited) = 4
    BY DEF Visited
  <1>2. /\ Visited[1] = "Left" /\ Visited[2] = "Down"
        /\ Visited[3] = "Up" /\ Visited[4] = "Right"
    BY DEF Visited
  <1>3. \A i \in 1..4 : i \in {1, 2, 3, 4}
    OBVIOUS
  <1>4. \A i \in 1..4 : Visited[i] \in Ports
    BY <1>2, <1>3 DEF Ports, Pairs
  <1>5. \A i, j \in 1..4 : Visited[i] = Visited[j] => i = j
    BY <1>2, <1>3
  <1> QED
    BY <1>1, <1>4, <1>5

\* "None" is not a port.
LEMMA NoneIsNoPort == "None" \notin Ports
  BY DEF Ports, Pairs

\* The elements of a sequence are in its set.
LEMMA ElementsOf ==
  ASSUME NEW S, NEW s \in Seq(S), NEW i \in 1..Len(s)
  PROVE  s[i] \in S
  OBVIOUS

\* The requests of the loop are requests of their ports.
LEMMA RequestsHavePorts ==
  /\ \A p \in Ports : Sensors(p) \in RequestsOf(p) /\ Commit(p) \in RequestsOf(p)
  /\ \A k \in Segments : /\ Packets[k].port \in Ports
                         /\ Segment(k) \in RequestsOf(Packets[k].port)
  /\ \A r \in LoopRequests : r.port \in Ports /\ r \in RequestsOf(r.port)
  <1>1. ASSUME NEW k \in Segments
        PROVE  Packets[k].port \in Ports
    <2>1. Packets[k] \in [port : Ports, number : Nat]
      BY FrameAssumption, ElementsOf DEF Segments
    <2> QED
      BY <2>1
  <1>2. ASSUME NEW p \in Ports
        PROVE  Sensors(p) \in RequestsOf(p) /\ Commit(p) \in RequestsOf(p)
    <2>1. Sensors(p).port = p /\ Commit(p).port = p
      BY DEF Sensors, Commit
    <2> QED
      BY <2>1 DEF RequestsOf, LoopRequests
  <1>3. ASSUME NEW k \in Segments
        PROVE  Segment(k) \in RequestsOf(Packets[k].port)
    <2>1. Segment(k).port = Packets[k].port
      BY DEF Segment
    <2> QED
      BY <2>1 DEF RequestsOf, LoopRequests
  <1>4. ASSUME NEW r \in LoopRequests
        PROVE  r.port \in Ports
    BY <1>1, <1>4 DEF LoopRequests, Sensors, Commit, Segment
  <1> QED
    BY <1>1, <1>2, <1>3, <1>4 DEF RequestsOf

\* Only the request for sensors has a response; commits and requests for sensors
\* name no segment.
LEMMA RequestsDiffer ==
  /\ \A p \in Ports : \A r \in RequestsOf(p) : r.response => r = Sensors(p)
  /\ \A p, q \in Ports : Sensors(p) # Commit(q) /\ Sensors(p).response
  /\ \A p \in Ports : \A r \in RequestsOf(p) :
       r.segment # 0 => r.segment \in Segments /\ r # Sensors(p)
  /\ \A p, q \in Ports : RequestsOf(p) \cap RequestsOf(q) # {} => p = q
  <1>1. ASSUME NEW p \in Ports, NEW r \in RequestsOf(p)
        PROVE  /\ r.response => r = Sensors(p)
               /\ r.segment # 0 => r.segment \in Segments /\ r # Sensors(p)
    <2> r.port = p
      BY DEF RequestsOf
    <2>1. ASSUME NEW q \in Ports, r = Sensors(q)
          PROVE  r = Sensors(p) /\ r.segment = 0
      <3>1. r.port = q /\ r.segment = 0
        BY <2>1 DEF Sensors
      <3> QED
        BY <2>1, <3>1
    <2>2. ASSUME NEW q \in Ports, r = Commit(q)
          PROVE  ~r.response /\ r.segment = 0
      BY <2>2 DEF Commit
    <2>3. ASSUME NEW k \in Segments, r = Segment(k)
          PROVE  ~r.response /\ r.segment \in Segments /\ r # Sensors(p)
      BY <2>3 DEF Segment, Sensors
    <2> QED
      BY <2>1, <2>2, <2>3 DEF RequestsOf, LoopRequests
  <1>2. \A p, q \in Ports : Sensors(p) # Commit(q) /\ Sensors(p).response
    BY DEF Sensors, Commit
  <1> QED
    BY <1>1, <1>2 DEF RequestsOf

\* A set with one more element.
LEMMA OneMore ==
  ASSUME NEW S, IsFiniteSet(S), NEW x
  PROVE  IsFiniteSet(S \cup {x}) /\ Cardinality(S \cup {x}) <= Cardinality(S) + 1
  <1>1. Cardinality(S) \in Nat
    BY FS_CardinalityType
  <1>2. /\ IsFiniteSet(S \cup {x})
        /\ Cardinality(S \cup {x}) = IF x \in S THEN Cardinality(S) ELSE Cardinality(S) + 1
    BY FS_AddElement
  <1> QED
    BY <1>1, <1>2

\* A port has finitely many requests: two, and one per segment of its own.
LEMMA RequestsAreFew ==
  ASSUME FewSegments, NEW p \in Ports
  PROVE  IsFiniteSet(RequestsOf(p)) /\ Cardinality(RequestsOf(p)) < QueueMax
  <1> DEFINE Own == {Segment(k) : k \in SegmentsOf(p)}
             WithCommit == Own \cup {Commit(p)}
  <1>1. IsFiniteSet(SegmentsOf(p))
    <2>1. IsFiniteSet(Segments)
      BY FS_Interval, FrameAssumption DEF Segments
    <2> QED
      BY <2>1, FS_Subset DEF SegmentsOf
  <1>2. IsFiniteSet(Own) /\ Cardinality(Own) <= Cardinality(SegmentsOf(p))
    <2>1. [k \in SegmentsOf(p) |-> Segment(k)] \in Surjection(SegmentsOf(p), Own)
      BY DEF Surjection
    <2> HIDE DEF Own
    <2> QED
      BY <1>1, <2>1, FS_Surjection
  <1>3. /\ IsFiniteSet(WithCommit)
        /\ Cardinality(WithCommit) <= Cardinality(Own) + 1
    BY <1>2, OneMore
  <1>4. /\ IsFiniteSet(WithCommit \cup {Sensors(p)})
        /\ Cardinality(WithCommit \cup {Sensors(p)}) <= Cardinality(WithCommit) + 1
    BY <1>3, OneMore
  <1>5. RequestsOf(p) = WithCommit \cup {Sensors(p)}
    BY DEF RequestsOf, LoopRequests, SegmentsOf, Segment, Sensors, Commit
  <1>6. /\ Cardinality(SegmentsOf(p)) \in Nat /\ Cardinality(Own) \in Nat
        /\ Cardinality(WithCommit) \in Nat /\ Cardinality(RequestsOf(p)) \in Nat
        /\ QueueMax \in Nat
    BY <1>1, <1>2, <1>3, <1>4, <1>5, FS_CardinalityType, LimitAssumption
  <1>7. Cardinality(RequestsOf(p)) <= Cardinality(SegmentsOf(p)) + 2
    <2> HIDE DEF Own, WithCommit
    <2> QED
      BY <1>2, <1>3, <1>4, <1>5, <1>6
  <1>8. Cardinality(SegmentsOf(p)) + 2 < QueueMax
    BY DEF FewSegments
  <1> QED
    BY <1>4, <1>5, <1>6, <1>7, <1>8

-----------------------------------------------------------------------------
(***************************************************************************)
(* The queues.                                                             *)
(***************************************************************************)

\* A sequence without repetition is no longer than its set has elements.
LEMMA NoRepetitionFits ==
  ASSUME NEW S, IsFiniteSet(S), NEW s \in Seq(S), NoRepetition(s),
         NEW n \in Nat, Cardinality(S) < n
  PROVE  Len(s) # n
  <1> SUFFICES ASSUME Len(s) = n PROVE FALSE
    OBVIOUS
  <1>1. Cardinality(S) \in Nat
    BY FS_CardinalityType
  <1>2. IsFiniteSet(1..n) /\ Cardinality(1..n) = n
    <2>1. n >= 1 /\ 1 \in Int /\ n \in Int
      BY <1>1
    <2>2. IsFiniteSet(1..n) /\ Cardinality(1..n) = IF 1 > n THEN 0 ELSE n - 1 + 1
      BY <2>1, FS_Interval
    <2> QED
      BY <2>1, <2>2
  <1>3. PICK f \in [1..n -> S] : \A i \in 1..n : f[i] = s[i]
    <2>1. [i \in 1..n |-> s[i]] \in [1..n -> S]
      OBVIOUS
    <2> QED
      BY <2>1
  <1>4. \E x, y \in 1..n : x # y /\ f[x] = f[y]
    BY <1>1, <1>2, FS_PigeonHole
  <1> QED
    BY <1>3, <1>4 DEF NoRepetition

\* What a sequence without repetition is after a new element, or without its
\* first one.
LEMMA NoRepetitionSteps ==
  ASSUME NEW S, NEW s \in Seq(S), NoRepetition(s)
  PROVE  /\ \A r \in S : r \notin {s[i] : i \in 1..Len(s)} =>
              Append(s, r) \in Seq(S) /\ NoRepetition(Append(s, r))
         /\ s # <<>> => Tail(s) \in Seq(S) /\ NoRepetition(Tail(s))
  <1>1. ASSUME NEW r \in S, r \notin {s[i] : i \in 1..Len(s)}
        PROVE  Append(s, r) \in Seq(S) /\ NoRepetition(Append(s, r))
    <2>1. Append(s, r) \in Seq(S) /\ Len(Append(s, r)) = Len(s) + 1
      OBVIOUS
    <2>2. /\ \A i \in 1..Len(s) : Append(s, r)[i] = s[i]
          /\ Append(s, r)[Len(s) + 1] = r
      OBVIOUS
    <2>3. \A i \in 1..Len(s) + 1 : i \in 1..Len(s) \/ i = Len(s) + 1
      OBVIOUS
    <2> QED
      BY <1>1, <2>1, <2>2, <2>3 DEF NoRepetition
  <1>2. ASSUME s # <<>>
        PROVE  Tail(s) \in Seq(S) /\ NoRepetition(Tail(s))
    <2>1. /\ Tail(s) \in Seq(S) /\ Len(Tail(s)) = Len(s) - 1
          /\ \A i \in 1..Len(Tail(s)) : Tail(s)[i] = s[i + 1]
      BY <1>2
    <2>2. \A i \in 1..Len(Tail(s)) : i \in Int /\ i + 1 \in 1..Len(s)
      BY <2>1
    <2>3. \A i, j \in 1..Len(Tail(s)) : i + 1 = j + 1 => i = j
      OBVIOUS
    <2> QED
      BY <2>1, <2>2, <2>3 DEF NoRepetition
  <1> QED
    BY <1>1, <1>2
-----------------------------------------------------------------------------
(***************************************************************************)
(* Types.                                                                  *)
(***************************************************************************)

\* The limits of requests are numbers of passes.
LEMMA PassesAreNat ==
  /\ \A p \in Ports : Passes(p) \in Nat
  /\ PacketPasses \in Nat
  /\ QueueMax \in Nat /\ ResponseMax \in Nat /\ QueueMax > 0 /\ ResponseMax > 0
  BY PassAssumption, LimitAssumption DEF Passes

\* A port goes on as it was, or starts a request.
Continues(p) ==
  /\ phase'[p] = phase[p] /\ current'[p] = current[p]
  /\ age'[p] = age[p] /\ moved'[p] = moved[p]

Starts(p, r) ==
  /\ p = r.port /\ Free(p)
  /\ phase'[p] = "Busy" /\ current'[p] = r
  /\ age'[p] = 0 /\ moved'[p] = 0

\* A request that is sent starts at its port, if that is free; all else goes on.
LEMMA SendEffect ==
  ASSUME BusTypes, TransferTypes, NEW r \in LoopRequests, Send(r)
  PROVE  /\ turn' = turn /\ responses' = responses
         /\ \A p \in Ports : Continues(p) \/ Starts(p, r)
  <1>1. r.port \in Ports
    BY RequestsHavePorts
  <1>2. CASE Start(r) /\ StartTransfers({r.port})
    <2>1. turn' = turn /\ responses' = responses /\ Free(r.port)
      BY <1>2 DEF Start
    <2>2. ASSUME NEW p \in Ports, p # r.port
          PROVE  Continues(p)
      BY <1>2, <2>2 DEF Start, StartTransfers, Continues, BusTypes, TransferTypes
    <2>3. Starts(r.port, r)
      BY <1>1, <1>2 DEF Start, StartTransfers, Starts, BusTypes, TransferTypes
    <2> QED
      BY <2>1, <2>2, <2>3
  <1>3. CASE (Enqueue(r) \/ Ignore(r) \/ Overflow(r)) /\ UNCHANGED transferVars
    BY <1>3 DEF Enqueue, Ignore, Overflow, Stop, busVars, transferVars, Continues
  <1> QED
    BY <1>2, <1>3 DEF Send

\* A request that is sent keeps the types.
LEMMA SendTypes ==
  ASSUME BusTypes, TransferTypes, NEW r \in LoopRequests, Send(r), UNCHANGED panelVars
  PROVE  BusTypes' /\ TransferTypes'
  <1>1. r.port \in Ports
    BY RequestsHavePorts
  <1>2. CASE Start(r) /\ StartTransfers({r.port})
    <2>1. BusTypes'
      BY <1>1, <1>2 DEF Start, BusTypes
    <2>2. age' \in [Ports -> Nat] /\ moved' \in [Ports -> 0..2]
      BY <1>2 DEF StartTransfers, TransferTypes
    <2>3. \A p \in Ports : age'[p] <= Passes(p)
      BY <1>2, PassesAreNat DEF StartTransfers, TransferTypes
    <2> QED
      BY <2>1, <2>2, <2>3 DEF TransferTypes, panelVars
  <1>3. CASE Enqueue(r) /\ UNCHANGED transferVars
    <2>1. /\ queue[r.port] \in Seq(LoopRequests) /\ Len(queue[r.port]) \in Nat
          /\ Len(queue[r.port]) < QueueMax
      BY <1>1, <1>3 DEF Enqueue, BusTypes
    <2>2. /\ Append(queue[r.port], r) \in Seq(LoopRequests)
          /\ Len(Append(queue[r.port], r)) <= QueueMax
      BY <2>1, PassesAreNat
    <2>3. queue' = [queue EXCEPT ![r.port] = Append(queue[r.port], r)]
      BY <1>3 DEF Enqueue
    <2>4. queue' \in [Ports -> Seq(LoopRequests)] /\ \A p \in Ports : Len(queue'[p]) <= QueueMax
      BY <2>2, <2>3 DEF BusTypes
    <2> QED
      BY <1>3, <2>4 DEF Enqueue, BusTypes, TransferTypes, panelVars, transferVars
  <1>4. CASE (Ignore(r) \/ Overflow(r)) /\ UNCHANGED transferVars
    BY <1>4 DEF Ignore, Overflow, Stop, busVars, BusTypes, TransferTypes, panelVars,
       transferVars
  <1> QED
    BY <1>2, <1>3, <1>4 DEF Send

\* So does the end of a request.
LEMMA FinishTypes ==
  ASSUME BusTypes, NEW p \in Ports, Respond(p) \/ TimeOut(p)
  PROVE  BusTypes'
  <1>1. /\ responses \in Seq(Ports) /\ Len(responses) \in Nat /\ Len(responses) <= ResponseMax
        /\ ResponseMax \in Nat
    BY PassesAreNat DEF BusTypes
  <1>2. /\ Append(responses, p) \in Seq(Ports)
        /\ Len(responses) < ResponseMax => Len(Append(responses, p)) <= ResponseMax
    BY <1>1
  <1>3. responses' \in Seq(Ports) /\ Len(responses') <= ResponseMax
    BY <1>1, <1>2 DEF Respond, TimeOut
  <1> QED
    BY <1>3 DEF Respond, TimeOut, Finish, BusTypes

\* And the change of the turn.
LEMMA SwitchTypes ==
  ASSUME BusTypes, Switch
  PROVE  BusTypes'
  <1> DEFINE starting == {p \in Ports \ turn : queue[p] # <<>>}
  <1>1. turn' \in Pairs
    BY TurnOfTwo DEF Switch, BusTypes
  <1>2. ASSUME NEW p \in Ports, queue[p] # <<>>
        PROVE  /\ Head(queue[p]) \in LoopRequests /\ Tail(queue[p]) \in Seq(LoopRequests)
               /\ Len(Tail(queue[p])) <= QueueMax
    <2>1. /\ queue[p] \in Seq(LoopRequests) /\ Len(queue[p]) \in Nat
          /\ Len(queue[p]) <= QueueMax
      BY DEF BusTypes
    <2> QED
      BY <1>2, <2>1, PassesAreNat
  <1>3. /\ phase' \in [Ports -> {"Idle", "Busy", "Done"}]
        /\ current' \in [Ports -> LoopRequests \cup {Blank[p] : p \in Ports}]
    BY <1>2 DEF Switch, BusTypes
  <1>4. /\ queue' \in [Ports -> Seq(LoopRequests)]
        /\ \A p \in Ports : Len(queue'[p]) <= QueueMax
    BY <1>2 DEF Switch, BusTypes
  <1> QED
    BY <1>1, <1>3, <1>4 DEF Switch, BusTypes

\* Initially the variables have their types.
LEMMA TypesInit == ASSUME Init PROVE TypeOK
  <1>1. BusTypes
    <2>1. turn \in Pairs
      BY DEF Init, BusInit, Pairs
    <2>2. <<>> \in Seq(LoopRequests) /\ <<>> \in Seq(Ports) /\ Len(<<>>) = 0
      OBVIOUS
    <2>3. /\ phase \in [Ports -> {"Idle", "Busy", "Done"}]
          /\ current \in [Ports -> LoopRequests \cup {Blank[p] : p \in Ports}]
      BY DEF Init, BusInit
    <2>4. queue \in [Ports -> Seq(LoopRequests)] /\ \A p \in Ports : Len(queue[p]) <= QueueMax
      <3>1. queue = [p \in Ports |-> <<>>]
        BY DEF Init, BusInit
      <3>2. \A p \in Ports : queue[p] = <<>>
        BY <3>1
      <3>3. Len(<<>>) <= QueueMax
        BY <2>2, PassesAreNat
      <3>4. queue \in [Ports -> Seq(LoopRequests)]
        BY <2>2, <3>1
      <3> QED
        BY <3>2, <3>3, <3>4
    <2>5. responses \in Seq(Ports) /\ Len(responses) <= ResponseMax /\ stopped \in BOOLEAN
      <3>1. responses = <<>> /\ stopped = FALSE
        BY DEF Init, BusInit
      <3>2. Len(responses) <= ResponseMax
        BY <2>2, <3>1, PassesAreNat
      <3> QED
        BY <2>2, <3>1, <3>2
    <2> QED
      BY <2>1, <2>3, <2>4, <2>5 DEF BusTypes
  <1>2. 0 \in 0..Frames /\ Frames \in 0..Frames /\ Frames - 1 \in FrameNumbers
        /\ Len(Packets) \in Segments
    BY FrameAssumption DEF FrameNumbers, Segments
  <1>3. TransferTypes
    BY <1>2, PassesAreNat DEF Init, TransferTypes, Whole, NoFrame
  <1>4. LoopTypes
    <2>1. stage \in Stages /\ at \in 1..Len(Visited) /\ since \in 0..PacketPasses
      BY PassesAreNat, VisitedOnce DEF Init, Stages
    <2>2. usbSensors \in [Ports -> [1..2 -> 0..1]] /\ ledBuffer \in [Segments -> 0..Frames]
      BY <1>2 DEF Init, Whole, NoFrame
    <2>3. packet \in [index : Segments, frame : FrameNumbers] /\ previousFrame \in 0..Frames
      BY <1>2 DEF Init, NoFrame
    <2> QED
      BY <2>1, <2>2, <2>3 DEF Init, LoopTypes
  <1> QED
    BY <1>1, <1>3, <1>4 DEF TypeOK

\* The loop goes to a port or to the next stage.
LEMMA NextPortTypes ==
  ASSUME LoopTypes, NEW next \in Stages, NextPort(next)
  PROVE  stage' \in Stages /\ at' \in 1..Len(Visited)
  BY VisitedOnce DEF NextPort, LoopTypes

\* A half of a transfer keeps the types.
LEMMA TransferKeepsTypes ==
  ASSUME TypeOK, NEW p \in Ports, Transfer(p)
  PROVE  TypeOK'
  <1> DEFINE half == moved[p] + 1
             r == current[p]
  <1>1. half \in 1..2 /\ moved' = [moved EXCEPT ![p] = half] /\ moved' \in [Ports -> 0..2]
    BY DEF Transfer, TypeOK, TransferTypes
  <1>2. reading[p] \in 0..1 /\ 1 - reading[p] \in 0..1
    BY DEF TypeOK, TransferTypes
  <1>3. sensorBuffer' \in [Ports -> [1..2 -> 0..1]]
    <2>1. [sensorBuffer EXCEPT ![p] = [@ EXCEPT ![half] = reading[p]]]
             \in [Ports -> [1..2 -> 0..1]]
      BY <1>1, <1>2 DEF TypeOK, TransferTypes
    <2> QED
      BY <2>1 DEF Transfer, TypeOK, TransferTypes
  <1>4. reading' \in [Ports -> 0..1]
    BY <1>2 DEF Transfer, TypeOK, TransferTypes
  <1>5. staged' \in [Segments -> [1..2 -> 0..Frames]]
    <2>1. CASE r.segment = 0
      BY <2>1 DEF Transfer, TypeOK, TransferTypes
    <2>2. CASE r.segment # 0
      <3>1. staged' = [staged EXCEPT ![r.segment] =
                          [@ EXCEPT ![half] = ledBuffer[r.segment]]]
        BY <2>2 DEF Transfer
      <3>2. CASE r.segment \in Segments
        BY <1>1, <3>1, <3>2 DEF TypeOK, TransferTypes, LoopTypes
      <3>3. CASE r.segment \notin Segments
        BY <3>1, <3>3 DEF TypeOK, TransferTypes
      <3> QED
        BY <3>2, <3>3
    <2> QED
      BY <2>1, <2>2
  <1>6. shown' \in [Segments -> [1..2 -> 0..Frames]]
    BY DEF Transfer, TypeOK, TransferTypes
  <1>7. TransferTypes'
    BY <1>1, <1>3, <1>4, <1>5, <1>6 DEF Transfer, TypeOK, TransferTypes
  <1>8. BusTypes' /\ LoopTypes'
    BY DEF Transfer, TypeOK, BusTypes, LoopTypes, busVars, loopVars, ledVars, usbVars
  <1> QED
    BY <1>7, <1>8 DEF TypeOK

\* The host numbers its packets and frames in turn.
LEMMA NextPacketType ==
  ASSUME packet \in [index : Segments, frame : FrameNumbers]
  PROVE  NextPacket \in [index : Segments, frame : FrameNumbers]
  <1>1. packet.index \in Segments /\ packet.frame \in Nat
    BY FrameAssumption DEF FrameNumbers
  <1>2. CASE packet.index < Len(Packets)
    <2>1. packet.index + 1 \in Segments
      BY <1>1, <1>2, FrameAssumption DEF Segments
    <2> QED
      BY <1>2, <2>1 DEF NextPacket
  <1>3. CASE ~(packet.index < Len(Packets))
    <2>1. (packet.frame + 1) % Frames \in FrameNumbers /\ 1 \in Segments
      BY <1>1, FrameAssumption DEF FrameNumbers, Segments
    <2> QED
      BY <1>3, <2>1 DEF NextPacket
  <1> QED
    BY <1>2, <1>3

\* So does every step of the loop.
LEMMA LoopKeepsTypes ==
  ASSUME TypeOK, LoopStep
  PROVE  TypeOK'
  <1> USE DEF TypeOK
  <1>1. CASE ProcessPort
    <2> DEFINE p == Visited[at]
    <2>1. p \in Ports
      BY VisitedOnce DEF LoopTypes
    <2>2. BusTypes' /\ age' \in [Ports -> Nat] /\ (\A q \in Ports : age'[q] <= Passes(q))
          /\ moved' = moved
      <3>1. CASE Answered(p)
        BY <2>1, <3>1, FinishTypes DEF Answered, transferVars, TransferTypes
      <3>2. CASE TimedOut(p)
        BY <2>1, <3>2, FinishTypes DEF TimedOut, transferVars, TransferTypes
      <3>3. CASE Running(p)
        <4>1. BusTypes' /\ moved' = moved
          BY <3>3 DEF Running, BusTypes, busVars
        <4>2. age' = [age EXCEPT ![p] = age[p] + 1] /\ age[p] < Passes(p)
          BY <3>3 DEF Running
        <4> QED
          BY <2>1, <4>1, <4>2, PassesAreNat DEF TransferTypes
      <3>4. CASE Resting(p)
        BY <3>4 DEF Resting, BusTypes, busVars, transferVars, TransferTypes
      <3> QED
        BY <1>1, <3>1, <3>2, <3>3, <3>4 DEF ProcessPort
    <2>3. TransferTypes'
      BY <1>1, <2>2 DEF ProcessPort, panelVars, TransferTypes
    <2>4. stage' \in Stages /\ at' \in 1..Len(Visited)
      BY <1>1, NextPortTypes DEF ProcessPort, Stages
    <2>5. LoopTypes'
      BY <1>1, <2>4 DEF ProcessPort, LoopTypes, ledVars, usbVars
    <2> QED
      BY <2>2, <2>3, <2>5
  <1>2. CASE SwitchIfDone
    <2>1. BusTypes' /\ TransferTypes'
      <3>1. CASE Switch /\ StartTransfers({p \in Ports : phase'[p] = "Busy"})
        <4>1. age' \in [Ports -> Nat] /\ (\A q \in Ports : age'[q] <= Passes(q))
              /\ moved' \in [Ports -> 0..2]
          BY <3>1, PassesAreNat DEF StartTransfers, TransferTypes
        <4> QED
          BY <1>2, <3>1, <4>1, SwitchTypes DEF SwitchIfDone, panelVars, TransferTypes
      <3>2. CASE UNCHANGED <<busVars, transferVars>>
        BY <1>2, <3>2 DEF SwitchIfDone, BusTypes, busVars, transferVars, panelVars,
           TransferTypes
      <3> QED
        BY <1>2, <3>1, <3>2 DEF SwitchIfDone
    <2>2. LoopTypes'
      BY <1>2 DEF SwitchIfDone, LoopTypes, ledVars, usbVars, Stages
    <2> QED
      BY <2>1, <2>2
  <1>3. CASE TakeResponse
    <2>1. BusTypes' /\ copying' \in Ports \cup {"None"}
      <3>1. CASE HaveResponse
        <4>1. responses # <<>> /\ responses \in Seq(Ports)
          BY <3>1 DEF HaveResponse, BusTypes
        <4>2. /\ Head(responses) \in Ports /\ Tail(responses) \in Seq(Ports)
              /\ Len(Tail(responses)) = Len(responses) - 1 /\ Len(responses) \in Nat
          BY <4>1
        <4>3. responses' = Tail(responses) /\ copying' = Head(responses)
          BY <1>3, <3>1 DEF TakeResponse, Take
        <4>4. Len(responses') <= ResponseMax
          BY <4>2, <4>3, PassesAreNat DEF BusTypes
        <4> QED
          BY <1>3, <3>1, <4>2, <4>3, <4>4 DEF TakeResponse, Take, BusTypes
      <3>2. CASE ~HaveResponse
        BY <1>3, <3>2 DEF TakeResponse, BusTypes, busVars, LoopTypes
      <3> QED
        BY <3>1, <3>2
    <2>2. TransferTypes'
      BY <1>3 DEF TakeResponse, transferVars, panelVars, TransferTypes
    <2>3. LoopTypes'
      BY <1>3, <2>1 DEF TakeResponse, LoopTypes, ledVars, usbVars, Stages
    <2> QED
      BY <2>1, <2>2, <2>3
  <1>4. CASE CopyHalf
    <2>1. BusTypes' /\ TransferTypes'
      BY <1>4 DEF CopyHalf, BusTypes, busVars, transferVars, panelVars, TransferTypes
    <2>2. usbSensors' \in [Ports -> [1..2 -> 0..1]]
      <3>1. CASE copying \in Ports /\ at \in 1..2
        <4>1. sensorBuffer[copying][at] \in 0..1
          BY <3>1 DEF TransferTypes
        <4>2. usbSensors' = [usbSensors EXCEPT ![copying] =
                               [@ EXCEPT ![at] = sensorBuffer[copying][at]]]
          BY <1>4 DEF CopyHalf, Copied
        <4> QED
          BY <3>1, <4>1, <4>2 DEF LoopTypes
      <3>2. CASE ~(copying \in Ports /\ at \in 1..2)
        <4>1. usbSensors' = usbSensors
          BY <1>4, <3>2 DEF CopyHalf, Copied, LoopTypes
        <4> QED
          BY <4>1 DEF LoopTypes
      <3> QED
        BY <3>1, <3>2
    <2>3. stage' \in Stages /\ at' \in 1..Len(Visited) /\ copying' \in Ports \cup {"None"}
      BY <1>4, VisitedOnce DEF CopyHalf, LoopTypes, Stages
    <2>4. LoopTypes'
      BY <1>4, <2>2, <2>3 DEF CopyHalf, LoopTypes, ledVars, usbVars
    <2> QED
      BY <2>1, <2>4
  <1>5. CASE ReportSensors
    <2>1. BusTypes' /\ TransferTypes'
      BY <1>5 DEF ReportSensors, BusTypes, busVars, transferVars, panelVars, TransferTypes
    <2>2. LoopTypes'
      BY <1>5 DEF ReportSensors, LoopTypes, usbVars, Stages
    <2> QED
      BY <2>1, <2>2
  <1>6. CASE CommitFrame
    <2>1. Commit(Visited[at]) \in LoopRequests
      BY VisitedOnce DEF LoopTypes, LoopRequests
    <2>2. BusTypes' /\ TransferTypes'
      BY <1>6, <2>1, SendTypes DEF CommitFrame, SendCommit
    <2>3. stage' \in Stages /\ at' \in 1..Len(Visited)
      BY <1>6, NextPortTypes DEF CommitFrame, Stages
    <2>4. LoopTypes'
      BY <1>6, <2>3 DEF CommitFrame, LoopTypes, ledVars, usbVars
    <2> QED
      BY <2>2, <2>4
  <1>7. CASE ProcessPacket
    <2>1. packet.index \in Segments /\ packet.frame \in 0..Frames
      BY FrameAssumption DEF LoopTypes, FrameNumbers
    <2>2. CASE havePacket
      <3>1. Segment(packet.index) \in LoopRequests
        BY <2>1 DEF LoopRequests
      <3>2. BusTypes' /\ TransferTypes'
        BY <1>7, <2>2, <3>1, SendTypes DEF ProcessPacket
      <3>3. /\ received' \subseteq Segments /\ previousFrame' \in 0..Frames
            /\ ledBuffer' \in [Segments -> 0..Frames]
        BY <1>7, <2>1, <2>2 DEF ProcessPacket, ReceivedOfFrame, LoopTypes
      <3> QED
        BY <1>7, <2>2, <3>2, <3>3 DEF ProcessPacket, LoopTypes, Stages
    <2>3. CASE ~havePacket
      <3>1. BusTypes' /\ TransferTypes'
        BY <1>7, <2>3 DEF ProcessPacket, BusTypes, busVars, transferVars, panelVars,
           TransferTypes
      <3>2. LoopTypes'
        BY <1>7, <2>3 DEF ProcessPacket, LoopTypes, ledVars, Stages
      <3> QED
        BY <3>1, <3>2
    <2> QED
      BY <2>2, <2>3
  <1>8. CASE PollSensors
    <2>1. Sensors(Visited[at]) \in LoopRequests
      BY VisitedOnce DEF LoopTypes, LoopRequests
    <2>2. BusTypes' /\ TransferTypes'
      BY <1>8, <2>1, SendTypes DEF PollSensors
    <2>3. stage' \in Stages /\ at' \in 1..Len(Visited)
      BY <1>8, NextPortTypes DEF PollSensors, Stages
    <2>4. LoopTypes'
      BY <1>8, <2>3 DEF PollSensors, LoopTypes, ledVars, usbVars
    <2> QED
      BY <2>2, <2>4
  <1>9. CASE PacketComes \/ NoPacketComes
    <2>1. BusTypes' /\ TransferTypes'
      BY <1>9 DEF PacketComes, NoPacketComes, BusTypes, busVars, transferVars, panelVars,
         TransferTypes
    <2>2. packet' \in [index : Segments, frame : FrameNumbers]
      BY <1>9, NextPacketType DEF PacketComes, NoPacketComes, LoopTypes
    <2>3. since' \in 0..PacketPasses /\ havePacket' \in BOOLEAN /\ processed' \in BOOLEAN
      <3>1. CASE PacketComes
        <4>1. since' = 0 /\ 0 \in 0..PacketPasses
          BY <3>1, PassesAreNat DEF PacketComes
        <4>2. havePacket' = TRUE /\ processed' = FALSE
          BY <3>1 DEF PacketComes
        <4> QED
          BY <4>1, <4>2
      <3>2. CASE NoPacketComes
        <4>1. since' \in 0..PacketPasses
          BY <3>2, PassesAreNat DEF NoPacketComes, LoopTypes
        <4>2. UNCHANGED <<havePacket, processed>>
          BY <3>2 DEF NoPacketComes
        <4> QED
          BY <4>1, <4>2 DEF LoopTypes
      <3> QED
        BY <1>9, <3>1, <3>2
    <2>4. LoopTypes'
      BY <1>9, <2>2, <2>3 DEF PacketComes, NoPacketComes, LoopTypes, ledVars, Stages
    <2> QED
      BY <2>1, <2>4
  <1> QED
    BY <1>1, <1>2, <1>3, <1>4, <1>5, <1>6, <1>7, <1>8, <1>9 DEF LoopStep

\* TypeOK is inductive.
LEMMA TypesNext == TypeOK /\ [Next]_vars => TypeOK'
  <1>1. TypeOK /\ UNCHANGED vars => TypeOK'
    BY DEF vars, TypeOK, BusTypes, TransferTypes, LoopTypes, busVars, loopVars,
       transferVars, panelVars, ledVars, usbVars
  <1> QED
    BY <1>1, TransferKeepsTypes, LoopKeepsTypes DEF Next

\* Every variable of the main loop keeps its type (TypeOK), for any panels,
\* frames and timing (main.c:85-137, 190-225; msgbus.c:200-260).
THEOREM LoopHasTypes == Spec => []TypeOK
  BY TypesInit, TypesNext, PTL DEF Spec

-----------------------------------------------------------------------------
(***************************************************************************)
(* The queues never overflow.                                              *)
(***************************************************************************)

\* The first of a sequence without repetition is not in the rest.
LEMMA HeadIsGone ==
  ASSUME NEW S, NEW s \in Seq(S), NoRepetition(s), s # <<>>
  PROVE  Head(s) \notin {Tail(s)[i] : i \in 1..Len(Tail(s))}
  <1>1. /\ Head(s) = s[1] /\ Len(s) \in Nat /\ Len(Tail(s)) = Len(s) - 1
        /\ \A i \in 1..Len(Tail(s)) : Tail(s)[i] = s[i + 1]
    OBVIOUS
  <1>2. 1 \in 1..Len(s) /\ \A i \in 1..Len(Tail(s)) : i + 1 \in 1..Len(s) /\ i + 1 # 1
    BY <1>1
  <1>3. \A i \in 1..Len(Tail(s)) : s[i + 1] # s[1]
    BY <1>2 DEF NoRepetition
  <1> QED
    BY <1>1, <1>3

\* A port that a step does not touch.
LEMMA BusKept ==
  ASSUME NEW p \in Ports, BusOf(p), turn' = turn, phase'[p] = phase[p],
         current'[p] = current[p], queue'[p] = queue[p]
  PROVE  BusOf(p)'
  BY DEF BusOf, Free, Queued

\* A request that is sent starts when nothing waits, and waits when it is new.
LEMMA SendKeepsBus ==
  ASSUME BusTypes, BusInv, NEW r \in LoopRequests, Send(r)
  PROVE  BusInv'
  <1> DEFINE p == r.port
  <1>1. p \in Ports /\ r \in RequestsOf(p) /\ BusOf(p)
    BY RequestsHavePorts DEF BusInv
  <1>2. CASE Start(r)
    <2>1. Free(p) /\ queue' = queue /\ turn' = turn /\ queue[p] = <<>> /\ p \in Connected
      BY <1>1, <1>2 DEF Start, BusOf
    <2>2. phase'[p] = "Busy" /\ current'[p] = r
      BY <1>1, <1>2 DEF Start, BusTypes
    <2>3. BusOf(p)'
      <3>1. queue'[p] = <<>> /\ Queued(p)' = {}
        BY <2>1 DEF Queued
      <3> QED
        BY <1>1, <2>1, <2>2, <3>1 DEF BusOf, Free
    <2>4. ASSUME NEW q \in Ports, q # p
          PROVE  BusOf(q)'
      <3>1. phase'[q] = phase[q] /\ current'[q] = current[q]
        BY <1>2, <2>4 DEF Start, BusTypes
      <3> QED
        BY <2>1, <3>1, BusKept DEF BusInv
    <2> QED
      BY <2>3, <2>4 DEF BusInv
  <1>3. CASE Enqueue(r)
    <2>1. /\ ~Free(p) /\ New(r) /\ p \in Connected /\ UNCHANGED <<phase, turn, current>>
          /\ queue' = [queue EXCEPT ![p] = Append(queue[p], r)]
      BY <1>3 DEF Enqueue
    <2>2. BusOf(p)'
      <3> DEFINE s == queue[p]
      <3>1. s \in Seq(RequestsOf(p)) /\ NoRepetition(s) /\ r \notin {s[i] : i \in 1..Len(s)}
            /\ r # current[p] /\ current[p] \notin {s[i] : i \in 1..Len(s)}
        BY <1>1, <2>1 DEF BusOf, New, Queued
      <3>2. Append(s, r) \in Seq(RequestsOf(p)) /\ NoRepetition(Append(s, r))
        BY <1>1, <3>1, NoRepetitionSteps
      <3>3. current[p] \notin {Append(s, r)[i] : i \in 1..Len(Append(s, r))}
        BY <1>1, <3>1
      <3>4. queue'[p] = Append(s, r)
        BY <1>1, <2>1 DEF BusTypes
      <3> QED
        BY <1>1, <2>1, <3>2, <3>3, <3>4 DEF BusOf, Free, Queued
    <2>3. ASSUME NEW q \in Ports, q # p
          PROVE  BusOf(q)'
      BY <2>1, <2>3, BusKept DEF BusInv, BusTypes
    <2> QED
      BY <2>2, <2>3 DEF BusInv
  <1>4. CASE Ignore(r) \/ Overflow(r)
    BY <1>4, BusKept DEF Ignore, Overflow, Stop, busVars, BusInv
  <1> QED
    BY <1>2, <1>3, <1>4 DEF Send

\* A queue with more slots than its port has requests is never full.
LEMMA SendNeverStops ==
  ASSUME FewSegments, BusTypes, BusInv, NEW r \in LoopRequests, Send(r)
  PROVE  stopped' = stopped
  <1>1. r.port \in Ports
    BY RequestsHavePorts
  <1>2. queue[r.port] \in Seq(RequestsOf(r.port)) /\ NoRepetition(queue[r.port])
    BY <1>1 DEF BusInv, BusOf
  <1>3. Len(queue[r.port]) # QueueMax
    BY <1>1, <1>2, RequestsAreFew, NoRepetitionFits, PassesAreNat
  <1>4. ~Overflow(r)
    BY <1>3 DEF Overflow
  <1> QED
    BY <1>4 DEF Send, Start, Enqueue, Ignore, busVars

\* A request ends at a port that has the turn.
LEMMA FinishKeepsBus ==
  ASSUME BusTypes, BusInv, NEW p \in Ports, Finish(p)
  PROVE  BusInv' /\ stopped' = stopped
  <1>1. /\ phase[p] = "Busy" /\ phase'[p] = "Done"
        /\ UNCHANGED <<turn, current, queue, stopped>>
        /\ \A q \in Ports \ {p} : phase'[q] = phase[q]
    BY DEF Finish, BusTypes
  <1>2. BusOf(p)'
    BY <1>1 DEF BusInv, BusOf, Free, Queued
  <1>3. ASSUME NEW q \in Ports, q # p
        PROVE  BusOf(q)'
    BY <1>1, <1>3, BusKept DEF BusInv
  <1> QED
    BY <1>1, <1>2, <1>3 DEF BusInv

\* A port that gets the turn starts the first request that waits for it.
LEMMA SwitchKeepsBus ==
  ASSUME BusTypes, BusInv, Switch
  PROVE  BusInv' /\ stopped' = stopped
  <1>1. turn' = Ports \ turn /\ stopped' = stopped
    BY DEF Switch
  <1>2. ASSUME NEW p \in Ports, p \notin turn, queue[p] # <<>>
        PROVE  BusOf(p)'
    <2> DEFINE s == queue[p]
    <2>1. phase'[p] = "Busy" /\ current'[p] = Head(s) /\ queue'[p] = Tail(s)
      BY <1>2 DEF Switch
    <2>2. s \in Seq(RequestsOf(p)) /\ NoRepetition(s) /\ s # <<>>
      BY <1>2 DEF BusInv, BusOf
    <2>3. /\ Head(s) \in RequestsOf(p)
          /\ Tail(s) \in Seq(RequestsOf(p)) /\ NoRepetition(Tail(s))
          /\ Head(s) \notin {Tail(s)[i] : i \in 1..Len(Tail(s))}
      <3>1. Head(s) \in RequestsOf(p)
        BY <2>2
      <3> QED
        BY <2>2, <3>1, NoRepetitionSteps, HeadIsGone
    <2> QED
      BY <1>1, <1>2, <2>1, <2>3 DEF BusInv, BusOf, Free, Queued
  <1>3. ASSUME NEW p \in Ports, p \in turn \/ queue[p] = <<>>
        PROVE  BusOf(p)'
    <2>1. phase'[p] = "Idle" /\ current'[p] = current[p] /\ queue'[p] = queue[p]
      BY <1>3 DEF Switch
    <2> QED
      BY <1>1, <1>3, <2>1 DEF BusInv, BusOf, Free, Queued
  <1> QED
    BY <1>1, <1>2, <1>3 DEF BusInv

\* What no step of the bus changes.
LEMMA BusStays ==
  ASSUME BusInv, UNCHANGED <<phase, turn, current, queue>>
  PROVE  BusInv'
  BY BusKept DEF BusInv

\* Every step keeps the bus in order and, with few segments, does not stop it.
LEMMA BusNextInv ==
  ASSUME TypeOK, BusInv, [Next]_vars
  PROVE  BusInv' /\ (FewSegments => stopped' = stopped)
  <1> USE DEF TypeOK
  <1>1. CASE ProcessPort
    <2> DEFINE p == Visited[at]
    <2>1. p \in Ports
      BY VisitedOnce DEF LoopTypes
    <2>2. CASE Answered(p)
      BY <2>1, <2>2, FinishKeepsBus DEF Answered, Respond
    <2>3. CASE TimedOut(p)
      BY <2>1, <2>3, FinishKeepsBus DEF TimedOut, TimeOut
    <2>4. CASE Running(p) \/ Resting(p)
      BY <2>4, BusStays DEF Running, Resting, busVars
    <2> QED
      BY <1>1, <2>2, <2>3, <2>4 DEF ProcessPort
  <1>2. CASE SwitchIfDone
    BY <1>2, SwitchKeepsBus, BusStays DEF SwitchIfDone, busVars
  <1>3. CASE TakeResponse
    BY <1>3, BusStays DEF TakeResponse, Take, busVars
  <1>4. CASE CommitFrame
    <2>1. Commit(Visited[at]) \in LoopRequests
      BY VisitedOnce DEF LoopTypes, LoopRequests
    <2> QED
      BY <1>4, <2>1, SendKeepsBus, SendNeverStops DEF CommitFrame, SendCommit
  <1>5. CASE ProcessPacket
    <2>1. Segment(packet.index) \in LoopRequests
      BY DEF LoopTypes, LoopRequests
    <2> QED
      BY <1>5, <2>1, SendKeepsBus, SendNeverStops, BusStays DEF ProcessPacket, busVars
  <1>6. CASE PollSensors
    <2>1. Sensors(Visited[at]) \in LoopRequests
      BY VisitedOnce DEF LoopTypes, LoopRequests
    <2> QED
      BY <1>6, <2>1, SendKeepsBus, SendNeverStops DEF PollSensors
  <1>7. CASE \/ CopyHalf \/ ReportSensors \/ PacketComes \/ NoPacketComes
             \/ (\E p \in Ports : Transfer(p)) \/ UNCHANGED vars
    <2>1. UNCHANGED busVars
      BY <1>7 DEF CopyHalf, ReportSensors, PacketComes, NoPacketComes, Transfer, vars
    <2> QED
      BY <2>1, BusStays DEF busVars
  <1> QED
    BY <1>1, <1>2, <1>3, <1>4, <1>5, <1>6, <1>7 DEF Next, LoopStep

\* Initially nothing waits.
LEMMA BusInitInv == ASSUME Init PROVE BusInv /\ ~stopped
  <1>1. ASSUME NEW p \in Ports
        PROVE  BusOf(p)
    <2>1. phase[p] = "Idle" /\ queue[p] = <<>>
      BY DEF Init, BusInit
    <2>2. <<>> \in Seq(RequestsOf(p)) /\ Len(<<>>) = 0
      OBVIOUS
    <2> QED
      BY <2>1, <2>2 DEF BusOf, Queued, NoRepetition
  <1>2. ~stopped
    BY DEF Init, BusInit
  <1> QED
    BY <1>1, <1>2 DEF BusInv

\* If a port's segments, its commit and its request for sensors fit into its
\* queue with one slot to spare, no queue ever overflows, although requests are
\* sent in every pass and panels may be silent (NeverStops; main.c:41-60, 81-99;
\* req_queue.c:36-39).
THEOREM QueuesNeverOverflow ==
  ASSUME FewSegments
  PROVE  Spec => []NeverStops
  <1>1. Init => QueueInv
    BY TypesInit, BusInitInv DEF QueueInv
  <1>2. QueueInv /\ [Next]_vars => QueueInv'
    BY TypesNext, BusNextInv DEF QueueInv
  <1>3. QueueInv => NeverStops
    BY DEF QueueInv, NeverStops
  <1> QED
    BY <1>1, <1>2, <1>3, PTL DEF Spec

-----------------------------------------------------------------------------
(***************************************************************************)
(* The responses that wait.                                                *)
(***************************************************************************)

\* Every step keeps track of where the loop is.
LEMMA PlaceNext ==
  ASSUME TypeOK, PlaceInv, [Next]_vars
  PROVE  PlaceInv'
  <1> USE VisitedOnce DEF PlaceInv
  <1>1. CASE ProcessPort \/ CommitFrame \/ PollSensors
    <2>1. copying' = copying /\ stage # "copy"
      BY <1>1 DEF ProcessPort, CommitFrame, PollSensors
    <2>2. PICK next \in {"switch", "packet", "bus", "usb"} : NextPort(next)
      BY <1>1 DEF ProcessPort, CommitFrame, PollSensors
    <2>3. stage' \in {stage} \cup {"switch", "packet", "bus", "usb"}
          /\ (at' = 1 \/ stage' = stage)
      BY <2>2 DEF NextPort
    <2> QED
      BY <1>1, <2>1, <2>3 DEF ProcessPort, CommitFrame, PollSensors
  <1>2. CASE TakeResponse
    <2>1. responses # <<>> => Head(responses) \in Ports
      BY DEF TypeOK, BusTypes
    <2> QED
      BY <1>2, <2>1, NoneIsNoPort DEF TakeResponse, HaveResponse
  <1>3. CASE SwitchIfDone \/ CopyHalf \/ ReportSensors \/ ProcessPacket
             \/ PacketComes \/ NoPacketComes
    BY <1>3 DEF SwitchIfDone, CopyHalf, ReportSensors, ProcessPacket, PacketComes,
       NoPacketComes
  <1>4. CASE (\E p \in Ports : Transfer(p)) \/ UNCHANGED vars
    BY <1>4 DEF Transfer, vars, loopVars
  <1> QED
    BY <1>1, <1>2, <1>3, <1>4 DEF Next, LoopStep

\* Ports wait to be taken and have the turn.
LEMMA WaitingPorts ==
  ASSUME BusTypes
  PROVE  Waiting \subseteq Ports /\ turn \subseteq Ports
  <1>1. \A i \in 1..Len(responses) : responses[i] \in Ports
    BY ElementsOf DEF BusTypes
  <1>2. turn \subseteq Ports
    BY TurnOfTwo DEF BusTypes
  <1> QED
    BY <1>1, <1>2 DEF Waiting

\* When nothing waits nothing is left over.
LEMMA NothingWaits ==
  ASSUME responses = <<>>
  PROVE  Waiting = {} /\ NoRepetition(responses) /\ LeftOver
  <1>1. Len(responses) = 0
    OBVIOUS
  <1> QED
    BY <1>1 DEF LeftOver, NoRepetition, Waiting

\* A port that waits to be taken is not polling its sensors again.
LEMMA WaitingRests ==
  ASSUME BusInv, ResponseInv, NEW p \in Waiting, p \in Ports
  PROVE  ~Refilling(p)
  <1>1. responses # <<>>
    BY NothingWaits
  <1>2. p \notin turn => phase[p] = "Idle"
    BY DEF BusInv, BusOf
  <1> QED
    BY <1>1, <1>2 DEF ResponseInv, Fresh, LeftOver, LeftBehind, Refilling

\* Of three panels that answer two are the same.
LEMMA TwoAnswer ==
  ASSUME FewAnswer, NEW a \in Answering, NEW b \in Answering, NEW c \in Answering,
         a # b
  PROVE  c \in {a, b}
  <1> SUFFICES ASSUME c \notin {a, b} PROVE FALSE
    OBVIOUS
  <1>1. IsFiniteSet(Answering)
    <2>1. Ports = {"Left", "Up"} \cup {"Right", "Down"}
      BY DEF Ports, Pairs
    <2>2. IsFiniteSet({"Left", "Up"}) /\ IsFiniteSet({"Right", "Down"})
      <3>1. IsFiniteSet({"Left"}) /\ IsFiniteSet({"Right"})
        BY FS_Singleton
      <3>2. IsFiniteSet({"Left"} \cup {"Up"}) /\ IsFiniteSet({"Right"} \cup {"Down"})
        BY <3>1, FS_AddElement
      <3>3. /\ {"Left"} \cup {"Up"} = {"Left", "Up"}
            /\ {"Right"} \cup {"Down"} = {"Right", "Down"}
        OBVIOUS
      <3> QED
        BY <3>2, <3>3
    <2>3. IsFiniteSet(Ports)
      BY <2>1, <2>2, FS_Union
    <2> QED
      BY <2>3, FS_Subset, PanelAssumption DEF Answering
  <1>2. IsFiniteSet({a}) /\ Cardinality({a}) = 1
    BY FS_Singleton
  <1>3. IsFiniteSet({a} \cup {b}) /\ Cardinality({a} \cup {b}) = 2
    BY <1>2, FS_AddElement
  <1>4. Cardinality({a} \cup {b} \cup {c}) = 3
    BY <1>3, FS_AddElement
  <1>5. {a} \cup {b} \cup {c} \subseteq Answering
    OBVIOUS
  <1>6. Cardinality({a} \cup {b} \cup {c}) <= Cardinality(Answering)
    BY <1>1, <1>5, FS_Subset
  <1>7. Cardinality(Answering) \in Nat
    BY <1>1, FS_CardinalityType
  <1> QED
    BY <1>4, <1>6, <1>7 DEF FewAnswer

\* A pair that has the turn fills no more than two entries, and one while a
\* request of its other port runs; if it fills two, its panels are those that
\* answer.
LEMMA FreshAreFew ==
  ASSUME BusTypes, NoRepetition(responses), Fresh
  PROVE  /\ Len(responses) <= 2
         /\ \A p \in turn : phase[p] = "Busy" => Len(responses) <= 1
         /\ Len(responses) = 2 /\ FewAnswer /\ Waiting \subseteq Answering
              => Answering \subseteq turn
  <1>1. responses \in Seq(Ports) /\ Len(responses) \in Nat
    BY DEF BusTypes
  <1>2. PICK a, b \in Ports : turn = {a, b}
    BY TurnOfTwo DEF BusTypes
  <1>3. \A i \in 1..Len(responses) : responses[i] \in {a, b} /\ phase[responses[i]] = "Done"
    BY <1>2 DEF Fresh, Waiting
  <1>4. Len(responses) <= 2
    <2> SUFFICES ASSUME Len(responses) > 2 PROVE FALSE
      BY <1>1
    <2>1. 1 \in 1..Len(responses) /\ 2 \in 1..Len(responses) /\ 3 \in 1..Len(responses)
      BY <1>1
    <2>2. /\ responses[1] # responses[2] /\ responses[1] # responses[3]
          /\ responses[2] # responses[3]
      BY <2>1 DEF NoRepetition
    <2> QED
      BY <1>3, <2>1, <2>2
  <1>5. ASSUME NEW p \in turn, phase[p] = "Busy"
        PROVE  Len(responses) <= 1
    <2> SUFFICES ASSUME Len(responses) > 1 PROVE FALSE
      BY <1>1
    <2>1. 1 \in 1..Len(responses) /\ 2 \in 1..Len(responses)
      BY <1>1
    <2>2. responses[1] # responses[2]
      BY <2>1 DEF NoRepetition
    <2>3. responses[1] # p /\ responses[2] # p
      BY <1>3, <1>5, <2>1
    <2> QED
      BY <1>2, <1>3, <2>1, <2>2, <2>3
  <1>6. ASSUME Len(responses) = 2, FewAnswer, Waiting \subseteq Answering,
               NEW c \in Answering
        PROVE  c \in turn
    <2>1. 1 \in 1..Len(responses) /\ 2 \in 1..Len(responses)
      BY <1>6
    <2>2. responses[1] # responses[2]
      BY <2>1 DEF NoRepetition
    <2>3. responses[1] \in Waiting /\ responses[2] \in Waiting
      BY <2>1 DEF Waiting
    <2>4. c \in {responses[1], responses[2]}
      BY <1>6, <2>2, <2>3, TwoAnswer
    <2> QED
      BY <2>3, <2>4 DEF Fresh
  <1> QED
    BY <1>4, <1>5, <1>6

\* A port goes on, its request ends, or it may start one.
GoesOn(p) ==
  \/ /\ current'[p] = current[p]
     /\ phase'[p] # phase[p] => phase[p] = "Busy" /\ phase'[p] = "Done"
  \/ Free(p)

\* The steps that neither change the turn nor add or take a response.
LEMMA ResponsesStay ==
  ASSUME TypeOK, ResponseInv, turn' = turn, responses' = responses,
         stage \notin {"switch", "take"}, stage' # "take",
         stage = "bus" => stage' \in {"bus", "switch"},
         \A p \in Ports : GoesOn(p)
  PROVE  ResponseInv'
  <1>1. Waiting' = Waiting /\ Waiting \subseteq Ports /\ NoRepetition(responses)'
        /\ Waiting \subseteq Answering
    BY WaitingPorts DEF Waiting, TypeOK, NoRepetition, ResponseInv
  <1>2. ASSUME Fresh
        PROVE  Fresh'
    BY <1>1, <1>2 DEF Fresh, GoesOn, Free
  <1>3. ASSUME LeftOver
        PROVE  LeftOver'
    <2>1. CASE responses = <<>>
      <3>1. responses' = <<>>
        BY <2>1
      <3> QED
        BY <3>1 DEF LeftOver
    <2>2. CASE responses # <<>>
      <3>1. LeftBehind /\ Len(responses') <= 1
        BY <1>3, <2>2 DEF LeftOver
      <3>2. \A p \in Waiting : current'[p] = current[p]
        BY <1>1, <3>1 DEF LeftBehind, GoesOn, Free
      <3> QED
        BY <1>1, <3>1, <3>2 DEF LeftOver, LeftBehind, Answering
    <2> QED
      BY <2>1, <2>2
  <1>4. Fresh \/ LeftOver
    BY DEF ResponseInv
  <1>5. stage' \notin {"bus", "switch", "take"} => LeftOver
    BY DEF ResponseInv
  <1>6. Waiting' \subseteq Answering'
    BY <1>1 DEF Answering
  <1> QED
    BY <1>1, <1>2, <1>3, <1>4, <1>5, <1>6 DEF ResponseInv

\* While the loop looks for the answer of a panel, what waits is of its pair only.
LEMMA AnswerIsFresh ==
  ASSUME TypeOK, BusInv, ResponseInv, stage = "bus", NEW p \in Answering,
         p \in Ports, phase[p] = "Busy"
  PROVE  p \in turn /\ Fresh /\ p \notin Waiting
  <1>1. p \in turn
    BY DEF BusInv, BusOf
  <1>2. CASE LeftOver
    <2>1. responses = <<>>
      BY <1>1, <1>2 DEF LeftOver, LeftBehind
    <2> QED
      BY <1>1, <2>1, NothingWaits DEF Fresh
  <1>3. CASE Fresh
    BY <1>1, <1>3 DEF Fresh
  <1> QED
    BY <1>2, <1>3 DEF ResponseInv

\* A panel whose transfer is over answers.
LEMMA OverAnswers ==
  ASSUME BusInv, SilentInv, NEW p \in Ports, phase[p] = "Busy", Over(p)
  PROVE  p \in Answering
  BY DEF BusInv, BusOf, SilentInv, Over, Answering

\* The response of a request that ends follows those of its pair only.
LEMMA ResponseComes ==
  ASSUME TypeOK, BusInv, SilentInv, ResponseInv, stage = "bus", NextPort("switch"),
         Answered(Visited[at]), current[Visited[at]].response,
         responses' = Append(responses, Visited[at])
  PROVE  ResponseInv'
  <1> DEFINE p == Visited[at]
  <1>1. /\ p \in Ports /\ phase[p] = "Busy" /\ Over(p)
        /\ UNCHANGED <<turn, current>>
        /\ phase' = [phase EXCEPT ![p] = "Done"]
    BY VisitedOnce DEF Answered, Respond, Finish, TypeOK, LoopTypes
  <1>2. p \in Answering /\ current[p] = Sensors(p)
    <2>1. current[p] \in RequestsOf(p)
      BY <1>1 DEF BusInv, BusOf
    <2> QED
      BY <1>1, <2>1, OverAnswers, RequestsDiffer
  <1>3. p \in turn /\ Fresh /\ p \notin Waiting
    BY <1>1, <1>2, AnswerIsFresh
  <1>4. /\ responses \in Seq(Ports) /\ Waiting \subseteq Ports
        /\ NoRepetition(responses) /\ Waiting \subseteq Answering
    BY WaitingPorts DEF TypeOK, BusTypes, ResponseInv
  <1>5. NoRepetition(responses)'
    <2>1. p \notin {responses[i] : i \in 1..Len(responses)}
      BY <1>3 DEF Waiting
    <2>2. NoRepetition(Append(responses, p))
      BY <1>1, <1>4, <2>1, NoRepetitionSteps
    <2> QED
      BY <2>2 DEF NoRepetition
  <1>6. Waiting' = Waiting \cup {p}
    BY <1>1, <1>4 DEF Waiting
  <1>7. Fresh'
    <2>1. \A q \in Waiting : q \in turn' /\ phase'[q] = "Done" /\ current'[q] = Sensors(q)
      BY <1>1, <1>3, <1>4 DEF Fresh, TypeOK, BusTypes
    <2>2. p \in turn' /\ phase'[p] = "Done" /\ current'[p] = Sensors(p)
      BY <1>1, <1>2, <1>3 DEF TypeOK, BusTypes
    <2> QED
      BY <1>6, <2>1, <2>2 DEF Fresh
  <1>8. stage' \in {"bus", "switch"}
    BY DEF NextPort
  <1>9. Waiting' \subseteq Answering'
    BY <1>2, <1>4, <1>6 DEF Answering
  <1> QED
    BY <1>5, <1>7, <1>8, <1>9 DEF ResponseInv

\* When the turn changes, what waits is left over from the pair that loses it;
\* a port that gets it back does not start what it ran last.
LEMMA ResponsesSwitch ==
  ASSUME FewAnswer, TypeOK, BusInv, ResponseInv, SwitchIfDone
  PROVE  ResponseInv'
  <1>1. /\ responses' = responses /\ Waiting' = Waiting /\ Waiting \subseteq Ports
        /\ Len(responses) \in Nat /\ stage = "switch" /\ stage' = "take"
    <2>1. responses' = responses
      BY DEF SwitchIfDone, Switch, busVars
    <2> QED
      BY <2>1, WaitingPorts DEF SwitchIfDone, Waiting, TypeOK, BusTypes
  <1>2. /\ NoRepetition(responses) /\ NoRepetition(responses)'
        /\ Waiting \subseteq Answering /\ Waiting' \subseteq Answering'
    BY <1>1 DEF ResponseInv, NoRepetition, Answering
  <1>3. Len(responses) <= 2
    BY <1>1, <1>2, FreshAreFew DEF ResponseInv, LeftOver, TypeOK
  <1>4. CASE Switch /\ StartTransfers({p \in Ports : phase'[p] = "Busy"})
    <2>1. turn' = Ports \ turn /\ turn \subseteq Ports
      BY <1>4, WaitingPorts DEF Switch, TypeOK
    <2>2. ASSUME Len(responses) = 2
          PROVE  LeftBehind'
      <3>1. Fresh
        BY <1>1, <2>2 DEF ResponseInv, LeftOver
      <3>2. Answering \subseteq turn
        BY <1>2, <2>2, <3>1, FreshAreFew DEF TypeOK
      <3>3. \A p \in Waiting : p \notin turn' /\ current'[p] = Sensors(p)
        BY <1>1, <1>4, <2>1, <3>1 DEF Fresh, Switch
      <3> QED
        BY <1>1, <2>1, <3>2, <3>3 DEF LeftBehind, Answering
    <2>3. ASSUME NEW p \in Waiting
          PROVE  ~Refilling(p)'
      <3>1. p \in Ports /\ responses # <<>>
        BY <1>1, NothingWaits
      <3>2. CASE p \in turn
        BY <1>4, <3>1, <3>2 DEF Switch, Refilling
      <3>3. CASE p \notin turn
        <4>1. current[p] = Sensors(p)
          BY <1>1, <3>1, <3>3 DEF ResponseInv, Fresh, LeftOver, LeftBehind
        <4>2. ASSUME phase'[p] = "Busy"
              PROVE  current'[p] # Sensors(p)
          <5>1. queue[p] # <<>> /\ current'[p] = Head(queue[p])
            BY <1>4, <3>1, <4>2 DEF Switch
          <5>2. Head(queue[p]) \in Queued(p)
            <6>1. queue[p] \in Seq(LoopRequests)
              BY <3>1 DEF TypeOK, BusTypes
            <6>2. Head(queue[p]) = queue[p][1] /\ 1 \in 1..Len(queue[p])
              BY <5>1, <6>1
            <6> QED
              BY <6>2 DEF Queued
          <5>3. current[p] \notin Queued(p)
            BY <3>1 DEF BusInv, BusOf
          <5> QED
            BY <4>1, <5>1, <5>2, <5>3
        <4> QED
          BY <4>2 DEF Refilling
      <3> QED
        BY <3>2, <3>3
    <2> QED
      BY <1>1, <1>2, <1>3, <2>2, <2>3 DEF ResponseInv
  <1>5. CASE /\ ~(\A p \in turn : phase[p] # "Busy")
             /\ UNCHANGED <<busVars, transferVars>>
    <2>1. UNCHANGED <<phase, current>>
      BY <1>5 DEF busVars
    <2>2. Len(responses) <= 1
      BY <1>1, <1>2, <1>5, FreshAreFew DEF ResponseInv, LeftOver, TypeOK
    <2>3. \A p \in Waiting : ~Refilling(p)'
      BY <1>1, <2>1, WaitingRests DEF Refilling
    <2> QED
      BY <1>1, <1>2, <2>2, <2>3 DEF ResponseInv
  <1> QED
    BY <1>4, <1>5 DEF SwitchIfDone

\* The first response is taken; one at most is left.
LEMMA ResponseTaken ==
  ASSUME TypeOK, BusInv, ResponseInv, TakeResponse
  PROVE  ResponseInv'
  <1>1. /\ UNCHANGED <<phase, turn, current>> /\ stage = "take"
        /\ stage' \in {"copy", "report"}
    BY DEF TakeResponse, Take, busVars
  <1>2. CASE ~HaveResponse
    <2>1. responses' = <<>>
      BY <1>2 DEF TakeResponse, HaveResponse, busVars
    <2>2. Len(responses') = 0
      BY <2>1
    <2>3. LeftOver' /\ NoRepetition(responses)' /\ Waiting' = {}
      BY <2>1, <2>2 DEF LeftOver, NoRepetition, Waiting
    <2> QED
      BY <1>1, <2>3 DEF ResponseInv
  <1>3. CASE HaveResponse
    <2>1. /\ responses # <<>> /\ responses' = Tail(responses)
          /\ responses \in Seq(Ports)
      BY <1>3 DEF TakeResponse, Take, HaveResponse, TypeOK, BusTypes
    <2>2. /\ Len(responses) \in Nat /\ Len(responses') = Len(responses) - 1
          /\ responses' \in Seq(Ports)
          /\ \A i \in 1..Len(responses') : /\ responses'[i] = responses[i + 1]
                                            /\ i + 1 \in 1..Len(responses)
      BY <2>1
    <2>3. Waiting' \subseteq Waiting
      BY <2>2 DEF Waiting
    <2>4. NoRepetition(responses)'
      <3>1. NoRepetition(Tail(responses))
        BY <2>1, NoRepetitionSteps DEF ResponseInv
      <3> QED
        BY <2>1, <3>1 DEF NoRepetition
    <2>5. Len(responses) <= 2 /\ (Len(responses) = 2 => LeftBehind)
      BY <1>1 DEF ResponseInv
    <2>6. LeftOver'
      <3>1. Len(responses') <= 1
        BY <2>2, <2>5
      <3>2. ASSUME responses' # <<>>
            PROVE  LeftBehind'
        <4>1. Len(responses) = 2
          BY <2>2, <2>5, <3>2
        <4> QED
          BY <1>1, <2>3, <2>5, <4>1 DEF LeftBehind, Answering
      <3> QED
        BY <3>1, <3>2 DEF LeftOver
    <2> QED
      BY <1>1, <2>3, <2>4, <2>6 DEF ResponseInv, Answering
  <1> QED
    BY <1>2, <1>3

\* A port to which a request is sent goes on or starts it.
LEMMA SendGoesOn ==
  ASSUME TypeOK, NEW r \in LoopRequests, Send(r)
  PROVE  turn' = turn /\ responses' = responses /\ \A p \in Ports : GoesOn(p)
  BY SendEffect DEF TypeOK, Continues, Starts, GoesOn

\* A segment, a commit or a request for sensors is sent, or nothing.
LEMMA LoopSends ==
  ASSUME TypeOK, CommitFrame \/ ProcessPacket \/ PollSensors
  PROVE  \/ \E r \in LoopRequests : Send(r)
         \/ UNCHANGED <<busVars, transferVars>>
  <1>1. Commit(Visited[at]) \in LoopRequests /\ Sensors(Visited[at]) \in LoopRequests
    BY VisitedOnce DEF TypeOK, LoopTypes, LoopRequests
  <1>2. Segment(packet.index) \in LoopRequests
    BY DEF TypeOK, LoopTypes, LoopRequests
  <1> QED
    BY <1>1, <1>2 DEF CommitFrame, SendCommit, ProcessPacket, PollSensors

\* ResponseInv is inductive.
LEMMA ResponseNext ==
  ASSUME FewAnswer, TypeOK, BusInv, SilentInv, ResponseInv, [Next]_vars
  PROVE  ResponseInv'
  <1>1. CASE ProcessPort
    <2> DEFINE p == Visited[at]
    <2>1. /\ stage = "bus" /\ NextPort("switch") /\ p \in Ports
          /\ stage' \in {"bus", "switch"}
      BY <1>1, VisitedOnce DEF ProcessPort, NextPort, TypeOK, LoopTypes
    <2>2. CASE /\ Answered(p) /\ current[p].response
               /\ responses' = Append(responses, p)
      BY <2>1, <2>2, ResponseComes
    <2>3. CASE responses' = responses
      <3>1. \/ phase' = phase
            \/ phase[p] = "Busy" /\ phase' = [phase EXCEPT ![p] = "Done"]
        BY <1>1 DEF ProcessPort, Answered, TimedOut, Running, Resting, Respond, TimeOut,
           Finish, busVars
      <3>2. UNCHANGED <<turn, current>>
        BY <1>1 DEF ProcessPort, Answered, TimedOut, Running, Resting, Respond, TimeOut,
           Finish, busVars
      <3>3. \A q \in Ports : GoesOn(q)
        BY <2>1, <3>1, <3>2 DEF GoesOn, TypeOK, BusTypes
      <3> QED
        BY <2>1, <2>3, <3>2, <3>3, ResponsesStay
    <2>4. \/ Answered(p) /\ current[p].response /\ responses' = Append(responses, p)
          \/ responses' = responses
      BY <1>1 DEF ProcessPort, Answered, TimedOut, Running, Resting, Respond, TimeOut,
         busVars
    <2> QED
      BY <2>2, <2>3, <2>4
  <1>2. CASE CommitFrame \/ ProcessPacket \/ PollSensors
    <2>1. turn' = turn /\ responses' = responses /\ \A p \in Ports : GoesOn(p)
      BY <1>2, LoopSends, SendGoesOn DEF busVars, transferVars, GoesOn
    <2>2. stage \notin {"bus", "switch", "take"} /\ stage' # "take"
      BY <1>2 DEF CommitFrame, ProcessPacket, PollSensors, NextPort
    <2> QED
      BY <2>1, <2>2, ResponsesStay
  <1>3. CASE \/ CopyHalf \/ ReportSensors \/ PacketComes \/ NoPacketComes
             \/ (\E p \in Ports : Transfer(p))
    <2>1. UNCHANGED busVars
      BY <1>3 DEF CopyHalf, ReportSensors, PacketComes, NoPacketComes, Transfer
    <2>2. /\ stage \notin {"switch", "take"} /\ stage' # "take"
          /\ stage = "bus" => stage' = stage
      BY <1>3 DEF CopyHalf, ReportSensors, PacketComes, NoPacketComes, Transfer,
         Exposed, loopVars
    <2> QED
      BY <2>1, <2>2, ResponsesStay DEF busVars, GoesOn
  <1>4. CASE SwitchIfDone \/ TakeResponse
    BY <1>4, ResponsesSwitch, ResponseTaken
  <1>5. CASE UNCHANGED vars
    BY <1>5 DEF vars, busVars, loopVars, ResponseInv, Fresh, LeftOver, LeftBehind,
       Waiting, Refilling, NoRepetition, Answering
  <1> QED
    BY <1>1, <1>2, <1>3, <1>4, <1>5 DEF Next, LoopStep

\* SilentInv is inductive: nothing moves to or from a silent panel.
LEMMA SilentNext ==
  ASSUME TypeOK, SilentInv, [Next]_vars
  PROVE  SilentInv'
  <1> SUFFICES ASSUME NEW p \in Silent PROVE moved'[p] = 0
    BY DEF SilentInv
  <1>1. p \in Ports /\ moved[p] = 0 /\ moved \in [Ports -> 0..2]
    BY PanelAssumption DEF SilentInv, TypeOK, TransferTypes
  <1>2. CASE \E q \in Ports : Transfer(q)
    BY <1>1, <1>2 DEF Transfer
  <1>3. CASE CommitFrame \/ ProcessPacket \/ PollSensors
    <2>1. CASE \E r \in LoopRequests : Send(r)
      BY <1>1, <2>1, SendEffect DEF TypeOK, Continues, Starts
    <2>2. CASE UNCHANGED transferVars
      BY <1>1, <2>2 DEF transferVars
    <2> QED
      BY <1>3, <2>1, <2>2, LoopSends
  <1>4. CASE SwitchIfDone
    BY <1>1, <1>4 DEF SwitchIfDone, StartTransfers, transferVars
  <1>5. CASE ProcessPort
    BY <1>1, <1>5 DEF ProcessPort, Answered, TimedOut, Running, Resting, transferVars
  <1>6. CASE TakeResponse \/ CopyHalf \/ ReportSensors \/ PacketComes \/ NoPacketComes
             \/ UNCHANGED vars
    BY <1>1, <1>6 DEF TakeResponse, CopyHalf, ReportSensors, PacketComes, NoPacketComes,
       vars, transferVars
  <1> QED
    BY <1>2, <1>3, <1>4, <1>5, <1>6 DEF Next, LoopStep

-----------------------------------------------------------------------------
(***************************************************************************)
(* The buffers.                                                            *)
(***************************************************************************)

\* The steps that move no byte of a panel's.
LEMMA BuffersStay ==
  ASSUME BufferInv, UNCHANGED <<sensorBuffer, reading>>, Waiting' \subseteq Waiting,
         stage' = "copy" => stage = "copy" /\ copying' = copying /\ ~Refilling(copying)',
         \A p \in Ports : Refilling(p)' =>
           moved'[p] = 0 \/ (Refilling(p) /\ moved'[p] = moved[p])
  PROVE  BufferInv'
  <1>1. \A p \in Waiting' : IsWhole(sensorBuffer'[p])
    BY DEF BufferInv
  <1>2. stage' = "copy" => IsWhole(sensorBuffer'[copying']) /\ ~Refilling(copying)'
    BY DEF BufferInv
  <1>3. \A p \in Ports : Refilling(p)' =>
          /\ moved'[p] = 1 => sensorBuffer'[p][1] = reading'[p]
          /\ moved'[p] = 2 => IsWhole(sensorBuffer'[p])
    BY DEF BufferInv
  <1> QED
    BY <1>1, <1>2, <1>3 DEF BufferInv, IsWhole

\* A transfer refills no buffer that waits to be copied; it fills both halves
\* with one reading.
LEMMA BuffersTransfer ==
  ASSUME TypeOK, BusInv, ResponseInv, PlaceInv, BufferInv, NEW p \in Ports, Transfer(p)
  PROVE  /\ BufferInv'
         /\ stage = "copy" => sensorBuffer'[copying] = sensorBuffer[copying]
  <1> DEFINE half == moved[p] + 1
  <1>1. /\ UNCHANGED <<phase, turn, current, responses, stage, copying>>
        /\ phase[p] = "Busy" /\ half \in 1..2
        /\ moved' = [moved EXCEPT ![p] = half]
        /\ moved \in [Ports -> 0..2]
    BY DEF Transfer, busVars, loopVars, TypeOK, TransferTypes
  <1>2. Waiting' = Waiting /\ Waiting \subseteq Ports
    BY <1>1, WaitingPorts DEF Waiting, TypeOK
  <1>3. \A q \in Ports : Refilling(q)' <=> Refilling(q)
    BY <1>1 DEF Refilling
  <1>4. stage = "copy" => copying \in Ports
    BY DEF PlaceInv, TypeOK, LoopTypes
  <1>5. CASE ~Refilling(p)
    <2>1. UNCHANGED <<sensorBuffer, reading>>
      BY <1>1, <1>5 DEF Transfer, Refilling
    <2>2. \A q \in Ports : Refilling(q)' => Refilling(q) /\ moved'[q] = moved[q]
      BY <1>1, <1>3, <1>5
    <2>3. stage' = "copy" => stage = "copy" /\ copying' = copying /\ ~Refilling(copying)'
      BY <1>1, <1>3, <1>4 DEF BufferInv
    <2> QED
      BY <1>2, <2>1, <2>2, <2>3, BuffersStay
  <1>6. CASE Refilling(p)
    <2>1. /\ sensorBuffer' = [sensorBuffer EXCEPT ![p] = [@ EXCEPT ![half] = reading[p]]]
          /\ reading' = IF half = 2 THEN [reading EXCEPT ![p] = 1 - @] ELSE reading
          /\ sensorBuffer \in [Ports -> [1..2 -> 0..1]] /\ reading \in [Ports -> 0..1]
      BY <1>6 DEF Transfer, Refilling, TypeOK, TransferTypes
    <2>2. \A q \in Ports \ {p} : /\ sensorBuffer'[q] = sensorBuffer[q]
                                /\ reading'[q] = reading[q] /\ moved'[q] = moved[q]
      BY <1>1, <2>1
    <2>3. p \notin Waiting
      BY <1>6, WaitingRests
    <2>4. stage = "copy" => copying # p
      BY <1>6 DEF BufferInv
    <2>5. \A q \in Waiting' : IsWhole(sensorBuffer'[q])
      BY <1>2, <2>2, <2>3 DEF BufferInv
    <2>6. stage = "copy" => sensorBuffer'[copying] = sensorBuffer[copying]
      BY <1>4, <2>2, <2>4
    <2>7. stage' = "copy" => IsWhole(sensorBuffer'[copying']) /\ ~Refilling(copying)'
      BY <1>1, <1>3, <1>4, <2>6 DEF BufferInv
    <2>8. /\ moved'[p] = half /\ sensorBuffer'[p][half] = reading[p]
          /\ half = 1 => reading'[p] = reading[p]
          /\ half = 2 => sensorBuffer'[p][1] = sensorBuffer[p][1]
      BY <1>1, <2>1
    <2>9. half = 2 => sensorBuffer[p][1] = reading[p]
      BY <1>1, <1>6 DEF BufferInv
    <2>10. /\ moved'[p] = 1 => sensorBuffer'[p][1] = reading'[p]
           /\ moved'[p] = 2 => IsWhole(sensorBuffer'[p])
      BY <1>1, <2>8, <2>9 DEF IsWhole
    <2>11. \A q \in Ports : Refilling(q)' =>
             /\ moved'[q] = 1 => sensorBuffer'[q][1] = reading'[q]
             /\ moved'[q] = 2 => IsWhole(sensorBuffer'[q])
      BY <1>3, <2>2, <2>10 DEF BufferInv
    <2>12. BufferInv'
      BY <2>5, <2>7, <2>11 DEF BufferInv, IsWhole
    <2> QED
      BY <2>6, <2>12
  <1> QED
    BY <1>5, <1>6

\* A reading whose request ends is whole.
LEMMA BuffersOfAnswer ==
  ASSUME TypeOK, BusInv, ResponseInv, BufferInv, stage = "bus", NextPort("switch"),
         UNCHANGED <<sensorBuffer, reading>>, Answered(Visited[at])
  PROVE  BufferInv'
  <1> DEFINE p == Visited[at]
  <1>1. /\ p \in Ports /\ phase[p] = "Busy" /\ moved[p] = 2
        /\ UNCHANGED <<current, moved>>
        /\ phase' = [phase EXCEPT ![p] = "Done"]
    BY VisitedOnce DEF Answered, Over, Respond, Finish, TypeOK, LoopTypes, transferVars
  <1>2. current[p] \in RequestsOf(p)
    BY <1>1 DEF BusInv, BusOf
  <1>3. \A q \in Waiting' : q \in Waiting \/ (q = p /\ current[p].response)
    <2>1. \/ responses' = responses
          \/ responses' = Append(responses, p) /\ current[p].response
      BY DEF Answered, Respond
    <2>2. responses \in Seq(Ports)
      BY DEF TypeOK, BusTypes
    <2> QED
      BY <1>1, <2>1, <2>2 DEF Waiting
  <1>4. current[p].response => IsWhole(sensorBuffer[p])
    BY <1>1, <1>2, RequestsDiffer DEF BufferInv, Refilling
  <1>5. \A q \in Waiting' : IsWhole(sensorBuffer'[q])
    BY <1>3, <1>4 DEF BufferInv
  <1>6. stage' # "copy"
    BY DEF NextPort
  <1>7. \A q \in Ports : Refilling(q)' => Refilling(q)
    BY <1>1 DEF Refilling, TypeOK, BusTypes
  <1>8. \A q \in Ports : Refilling(q)' =>
          /\ moved'[q] = 1 => sensorBuffer'[q][1] = reading'[q]
          /\ moved'[q] = 2 => IsWhole(sensorBuffer'[q])
    BY <1>1, <1>7 DEF BufferInv
  <1> QED
    BY <1>5, <1>6, <1>8 DEF BufferInv, IsWhole

\* BufferInv is inductive.
LEMMA BufferNext ==
  ASSUME TypeOK, BusInv, PlaceInv, ResponseInv, BufferInv, [Next]_vars
  PROVE  BufferInv'
  <1>1. CASE ProcessPort
    <2> DEFINE p == Visited[at]
    <2>1. /\ stage = "bus" /\ NextPort("switch") /\ p \in Ports
          /\ UNCHANGED <<sensorBuffer, reading>>
      BY <1>1, VisitedOnce DEF ProcessPort, TypeOK, LoopTypes, panelVars
    <2>2. CASE Answered(p)
      BY <2>1, <2>2, BuffersOfAnswer
    <2>3. CASE TimedOut(p) \/ Running(p) \/ Resting(p)
      <3>1. /\ UNCHANGED <<current, responses, moved>>
            /\ phase' = phase \/ phase' = [phase EXCEPT ![p] = "Done"]
        BY <2>3 DEF TimedOut, Running, Resting, TimeOut, Finish, busVars, transferVars
      <3>2. \A q \in Ports : Refilling(q)' => Refilling(q) /\ moved'[q] = moved[q]
        BY <2>1, <3>1 DEF Refilling, TypeOK, BusTypes
      <3>3. Waiting' = Waiting
        BY <3>1 DEF Waiting
      <3>4. stage' # "copy"
        BY <2>1 DEF NextPort
      <3> QED
        BY <2>1, <3>2, <3>3, <3>4, BuffersStay
    <2> QED
      BY <1>1, <2>2, <2>3 DEF ProcessPort
  <1>2. CASE SwitchIfDone
    <2>1. UNCHANGED <<sensorBuffer, reading, responses>> /\ stage' # "copy"
      BY <1>2 DEF SwitchIfDone, Switch, busVars, panelVars
    <2>2. ASSUME NEW q \in Ports, Refilling(q)'
          PROVE  moved'[q] = 0 \/ (Refilling(q) /\ moved'[q] = moved[q])
      <3>1. CASE Switch /\ StartTransfers({p \in Ports : phase'[p] = "Busy"})
        BY <2>2, <3>1 DEF StartTransfers, Refilling
      <3>2. CASE UNCHANGED <<busVars, transferVars>>
        BY <2>2, <3>2 DEF busVars, transferVars, Refilling
      <3> QED
        BY <1>2, <3>1, <3>2 DEF SwitchIfDone
    <2>3. Waiting' = Waiting
      BY <2>1 DEF Waiting
    <2> QED
      BY <2>1, <2>2, <2>3, BuffersStay
  <1>3. CASE TakeResponse
    <2>1. UNCHANGED <<sensorBuffer, reading, phase, current, moved>>
      BY <1>3 DEF TakeResponse, Take, busVars, panelVars, transferVars
    <2>2. \A q \in Ports : Refilling(q)' <=> Refilling(q)
      BY <2>1 DEF Refilling
    <2>3. CASE HaveResponse
      <3>1. /\ responses # <<>> /\ responses' = Tail(responses)
            /\ stage' = "copy" /\ copying' = Head(responses) /\ responses \in Seq(Ports)
        BY <1>3, <2>3 DEF TakeResponse, Take, HaveResponse, TypeOK, BusTypes
      <3>2. /\ \A i \in 1..Len(responses') : /\ responses'[i] = responses[i + 1]
                                             /\ i + 1 \in 1..Len(responses)
            /\ Head(responses) = responses[1] /\ 1 \in 1..Len(responses)
        BY <3>1
      <3>3. Waiting' \subseteq Waiting /\ copying' \in Waiting /\ copying' \in Ports
        BY <3>1, <3>2 DEF Waiting
      <3>4. IsWhole(sensorBuffer'[copying']) /\ ~Refilling(copying)'
        <4>1. ~Refilling(copying')
          BY <3>3, WaitingRests
        <4> QED
          BY <2>1, <3>3, <4>1 DEF BufferInv, Refilling
      <3>5. \A q \in Waiting' : IsWhole(sensorBuffer'[q])
        BY <2>1, <3>3 DEF BufferInv
      <3>6. \A q \in Ports : Refilling(q)' =>
              /\ moved'[q] = 1 => sensorBuffer'[q][1] = reading'[q]
              /\ moved'[q] = 2 => IsWhole(sensorBuffer'[q])
        BY <2>1, <2>2 DEF BufferInv
      <3> QED
        BY <3>4, <3>5, <3>6 DEF BufferInv, IsWhole
    <2>4. CASE ~HaveResponse
      <3>1. UNCHANGED responses /\ stage' # "copy"
        BY <1>3, <2>4 DEF TakeResponse, busVars
      <3>2. Waiting' = Waiting
        BY <3>1 DEF Waiting
      <3> QED
        BY <2>1, <2>2, <3>1, <3>2, BuffersStay
    <2> QED
      BY <2>3, <2>4
  <1>4. CASE CommitFrame \/ ProcessPacket \/ PollSensors
    <2>1. UNCHANGED <<sensorBuffer, reading>> /\ stage' # "copy"
      BY <1>4 DEF CommitFrame, ProcessPacket, PollSensors, NextPort, panelVars
    <2>2. /\ responses' = responses
          /\ \A q \in Ports : Continues(q) \/ \E r \in LoopRequests : Starts(q, r)
      BY <1>4, LoopSends, SendEffect DEF TypeOK, Continues, busVars, transferVars
    <2>3. \A q \in Ports : Refilling(q)' =>
            moved'[q] = 0 \/ (Refilling(q) /\ moved'[q] = moved[q])
      BY <2>2 DEF Continues, Starts, Refilling
    <2>4. Waiting' = Waiting
      BY <2>2 DEF Waiting
    <2> QED
      BY <2>1, <2>3, <2>4, BuffersStay
  <1>5. CASE \/ CopyHalf \/ ReportSensors \/ PacketComes \/ NoPacketComes \/ UNCHANGED vars
    <2>1. UNCHANGED <<sensorBuffer, reading, phase, current, moved, responses>>
      BY <1>5 DEF CopyHalf, ReportSensors, PacketComes, NoPacketComes, vars, busVars,
         panelVars, transferVars
    <2>2. stage' = "copy" => stage = "copy" /\ copying' = copying
      BY <1>5 DEF CopyHalf, ReportSensors, PacketComes, NoPacketComes, vars, loopVars
    <2>3. \A q \in Ports : Refilling(q)' => Refilling(q) /\ moved'[q] = moved[q]
      BY <2>1 DEF Refilling
    <2>4. stage' = "copy" => ~Refilling(copying)'
      BY <2>1, <2>2 DEF BufferInv, Refilling
    <2>5. Waiting' = Waiting
      BY <2>1 DEF Waiting
    <2> QED
      BY <2>1, <2>2, <2>3, <2>4, <2>5, BuffersStay
  <1>6. CASE \E p \in Ports : Transfer(p)
    BY <1>6, BuffersTransfer
  <1> QED
    BY <1>1, <1>2, <1>3, <1>4, <1>5, <1>6 DEF Next, LoopStep

\* ReportInv is inductive: the second half is copied from the reading the first
\* half is of.
LEMMA ReportNext ==
  ASSUME TypeOK, BusInv, PlaceInv, ResponseInv, BufferInv, ReportInv, [Next]_vars
  PROVE  ReportInv'
  <1>1. CASE CopyHalf
    <2>1. /\ stage = "copy" /\ copying \in Ports /\ at \in 1..2
          /\ sensorBuffer' = sensorBuffer
          /\ usbSensors' = [usbSensors EXCEPT ![copying] =
                               [@ EXCEPT ![at] = sensorBuffer[copying][at]]]
          /\ usbSensors \in [Ports -> [1..2 -> 0..1]]
      BY <1>1 DEF CopyHalf, Copied, panelVars, PlaceInv, TypeOK, LoopTypes
    <2>2. /\ usbSensors'[copying][at] = sensorBuffer[copying][at]
          /\ at = 2 => usbSensors'[copying][1] = usbSensors[copying][1]
          /\ \A p \in Ports \ {copying} : usbSensors'[p] = usbSensors[p]
      BY <2>1
    <2>3. \A p \in Ports \ {copying} : IsWhole(usbSensors'[p])
      BY <2>2 DEF ReportInv
    <2>4. CASE at = 1
      <3>1. at' = 2 /\ stage' = "copy" /\ copying' = copying
        BY <1>1, <2>1, <2>4 DEF CopyHalf
      <3>2. usbSensors'[copying'][1] = sensorBuffer'[copying'][1]
        BY <2>1, <2>2, <2>4, <3>1
      <3> QED
        BY <2>3, <3>1, <3>2 DEF ReportInv, IsWhole
    <2>5. CASE at = 2
      <3>1. IsWhole(sensorBuffer[copying]) /\ usbSensors[copying][1] = sensorBuffer[copying][1]
        BY <2>1, <2>5 DEF BufferInv, ReportInv
      <3>2. IsWhole(usbSensors'[copying])
        BY <2>2, <2>5, <3>1 DEF IsWhole
      <3>3. stage' # "copy"
        BY <1>1, <2>5 DEF CopyHalf
      <3>4. \A p \in Ports : IsWhole(usbSensors'[p])
        BY <2>3, <3>2
      <3> QED
        BY <3>3, <3>4 DEF ReportInv, IsWhole
    <2> QED
      BY <2>1, <2>4, <2>5
  <1>2. CASE \E p \in Ports : Transfer(p)
    <2>1. UNCHANGED <<usbSensors, stage, at, copying>>
      BY <1>2 DEF Transfer, loopVars
    <2>2. stage = "copy" => sensorBuffer'[copying] = sensorBuffer[copying]
      BY <1>2, BuffersTransfer
    <2> QED
      BY <2>1, <2>2 DEF ReportInv, IsWhole
  <1>3. CASE UNCHANGED vars
    BY <1>3 DEF vars, loopVars, panelVars, ReportInv, IsWhole
  <1>4. CASE \/ ProcessPort \/ SwitchIfDone \/ TakeResponse \/ ReportSensors
             \/ CommitFrame \/ ProcessPacket \/ PollSensors \/ PacketComes
             \/ NoPacketComes
    <2>1. usbSensors' = usbSensors /\ stage # "copy"
      BY <1>4 DEF ProcessPort, SwitchIfDone, TakeResponse, ReportSensors, CommitFrame,
         ProcessPacket, PollSensors, PacketComes, NoPacketComes
    <2>2. stage' = "copy" => at' = 1
      <3>1. CASE TakeResponse
        BY <3>1 DEF TakeResponse, PlaceInv
      <3>2. CASE ~TakeResponse
        BY <1>4, <3>2 DEF ProcessPort, SwitchIfDone, ReportSensors, CommitFrame,
           ProcessPacket, PollSensors, PacketComes, NoPacketComes, NextPort
      <3> QED
        BY <3>1, <3>2
    <2>3. \A p \in Ports : IsWhole(usbSensors'[p])
      BY <2>1 DEF ReportInv
    <2> QED
      BY <2>2, <2>3 DEF ReportInv, IsWhole
  <1> QED
    BY <1>1, <1>2, <1>3, <1>4 DEF Next, LoopStep

-----------------------------------------------------------------------------
\* LoopInv holds initially.
LEMMA LoopInvInit == ASSUME Init PROVE LoopInv
  <1>1. TypeOK /\ BusInv
    BY TypesInit, BusInitInv
  <1>2. PlaceInv
    BY DEF Init, PlaceInv
  <1>3. ResponseInv
    <2>1. responses = <<>> /\ stage = "begin"
      BY DEF Init, BusInit
    <2> QED
      BY <2>1, NothingWaits DEF ResponseInv
  <1>4. BufferInv
    <2>1. responses = <<>> /\ Len(<<>>) = 0
      BY DEF Init, BusInit
    <2>2. Waiting = {} /\ stage # "copy" /\ \A p \in Ports : ~Refilling(p)
      BY <2>1 DEF Init, BusInit, Waiting, Refilling
    <2> QED
      BY <2>2 DEF BufferInv
  <1>5. ReportInv
    BY DEF Init, ReportInv, IsWhole, Whole
  <1>6. SilentInv
    BY PanelAssumption DEF Init, SilentInv
  <1> QED
    BY <1>1, <1>2, <1>3, <1>4, <1>5, <1>6 DEF LoopInv

\* LoopInv holds throughout, if no more than two panels answer.
LEMMA LoopInvariant == ASSUME FewAnswer PROVE Spec => []LoopInv
  <1>1. LoopInv /\ [Next]_vars => LoopInv'
    BY TypesNext, BusNextInv, PlaceNext, SilentNext, ResponseNext, BufferNext, ReportNext
       DEF LoopInv
  <1> QED
    BY <1>1, LoopInvInit, PTL DEF Spec

\* If no more than two panels answer, on any ports, the two halves of a reading
\* that goes to the host are of one reading (ReadingsAreWhole): DMA never refills
\* sensor_buffer while a response that points to it waits or is copied, for any
\* silent panels, segments and timing, an answer within the pass that asks for
\* it included (main.c:71-79; msgbus.c:374-384, 404-431).
THEOREM ReadingsReachTheHostWhole ==
  ASSUME FewAnswer
  PROVE  Spec => []ReadingsAreWhole
  <1>1. LoopInv => ReadingsAreWhole
    BY DEF LoopInv, ReportInv, IsWhole, ReadingsAreWhole
  <1> QED
    BY <1>1, LoopInvariant, PTL

\* A response that comes finds room.
LEMMA ResponseFindsRoom ==
  ASSUME RoomForAPair, LoopInv, [Next]_vars, NEW p \in Ports,
         phase[p] = "Busy", phase'[p] = "Done", current[p].response, p \in Answering
  PROVE  responses' = Append(responses, p)
  <1> USE DEF LoopInv
  <1>1. ProcessPort
    <2>1. CASE CommitFrame \/ ProcessPacket \/ PollSensors
      <3>1. Continues(p) \/ \E r \in LoopRequests : Starts(p, r)
        BY <2>1, LoopSends, SendEffect DEF TypeOK, Continues, busVars, transferVars
      <3> QED
        BY <3>1 DEF Continues, Starts
    <2>2. CASE SwitchIfDone
      BY <2>2 DEF SwitchIfDone, Switch, busVars
    <2>3. CASE \/ TakeResponse \/ CopyHalf \/ ReportSensors \/ PacketComes \/ NoPacketComes
               \/ (\E q \in Ports : Transfer(q)) \/ UNCHANGED vars
      <3>1. phase' = phase
        BY <2>3 DEF TakeResponse, Take, CopyHalf, ReportSensors, PacketComes,
           NoPacketComes, Transfer, vars, busVars
      <3> QED
        BY <3>1
    <2> QED
      BY <2>1, <2>2, <2>3 DEF Next, LoopStep
  <1>2. Answered(Visited[at]) /\ p = Visited[at] /\ stage = "bus"
    <2>1. at \in 1..4 /\ Visited[at] \in Ports
      BY VisitedOnce DEF TypeOK, LoopTypes
    <2>2. ~Running(Visited[at]) /\ ~Resting(Visited[at])
      BY DEF Running, Resting, busVars
    <2>3. \/ Answered(Visited[at])
          \/ TimedOut(Visited[at])
      BY <1>1, <2>2 DEF ProcessPort
    <2>4. p = Visited[at]
      <3>1. phase' = [phase EXCEPT ![Visited[at]] = "Done"]
        BY <2>3 DEF Answered, TimedOut, Respond, TimeOut, Finish
      <3> QED
        BY <2>1, <3>1 DEF TypeOK, BusTypes
    <2>5. ~TimedOut(p)
      BY DEF TimedOut, Answering
    <2> QED
      BY <1>1, <2>3, <2>4, <2>5 DEF ProcessPort
  <1>3. Fresh /\ p \in turn /\ NoRepetition(responses)
    BY <1>2, AnswerIsFresh DEF ResponseInv
  <1>4. Len(responses) <= 1 /\ Len(responses) \in Nat
    BY <1>3, FreshAreFew DEF TypeOK, BusTypes
  <1>5. Len(responses) < ResponseMax
    BY <1>4, PassesAreNat DEF RoomForAPair
  <1> QED
    BY <1>2, <1>5 DEF Answered, Respond

\* Under the same assumption a reading that came is handed over, although the
\* loop takes only one response a pass, if the response queue has room for those
\* of a pair (ResponsesAreKept; msgbus.c:474-483).
THEOREM NoResponseIsDropped ==
  ASSUME FewAnswer, RoomForAPair
  PROVE  Spec => ResponsesAreKept
  <1>1. LoopInv /\ [Next]_vars =>
          [\A p \in Ports :
             /\ phase[p] = "Busy" /\ phase'[p] = "Done"
             /\ current[p].response /\ p \in Answering
             => responses' = Append(responses, p)]_vars
    BY ResponseFindsRoom
  <1> QED
    BY <1>1, LoopInvariant, PTL DEF Spec, ResponsesAreKept
=============================================================================
