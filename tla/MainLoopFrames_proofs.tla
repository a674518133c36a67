----------------------- MODULE MainLoopFrames_proofs -----------------------
(***************************************************************************)
(* MainLoop: what a panel shows is always one frame, whole, if the host    *)
(* leaves the panels the time for it, for any panels, frames and timing of *)
(* the DMA.                                                                *)
(***************************************************************************)
EXTENDS MainLoopFrames, MainLoop_proofs

-----------------------------------------------------------------------------
(***************************************************************************)
(* Requests that are sent.                                                 *)
(***************************************************************************)

\* Every port is visited.
LEMMA EveryPortVisited == \A p \in Ports : \E i \in 1..4 : Visited[i] = p
  <1>1. /\ Visited[1] = "Left" /\ Visited[2] = "Down"
        /\ Visited[3] = "Up" /\ Visited[4] = "Right"
    BY DEF Visited
  <1>2. 1 \in 1..4 /\ 2 \in 1..4 /\ 3 \in 1..4 /\ 4 \in 1..4
    OBVIOUS
  <1>3. Ports = {"Left", "Up", "Right", "Down"}
    BY DEF Ports, Pairs
  <1> QED
    BY <1>1, <1>2, <1>3

\* The requests of the loop differ, and only those for segments name one.
LEMMA SegmentsDiffer ==
  /\ \A k \in Segments : \A p \in Ports : Segment(k) # Sensors(p) /\ Segment(k) # Commit(p)
  /\ \A k, n \in Segments : Segment(k) = Segment(n) => k = n
  /\ \A p \in Ports : \A r \in RequestsOf(p) :
       r.segment # 0 => r.segment \in SegmentsOf(p) /\ r = Segment(r.segment)
  /\ \A k \in Segments : Segment(k).segment = k /\ k # 0
  /\ \A p \in Ports : Sensors(p).segment = 0 /\ Commit(p).segment = 0
  <1>1. \A k \in Segments : Segment(k).segment = k /\ k # 0
    BY DEF Segment, Segments
  <1>2. \A p \in Ports : Sensors(p).segment = 0 /\ Commit(p).segment = 0
    BY DEF Sensors, Commit
  <1>3. ASSUME NEW p \in Ports, NEW r \in RequestsOf(p), r.segment # 0
        PROVE  r.segment \in SegmentsOf(p) /\ r = Segment(r.segment)
    <2>1. r \in LoopRequests /\ r.port = p
      BY DEF RequestsOf
    <2>2. PICK k \in Segments : r = Segment(k)
      BY <1>2, <1>3, <2>1 DEF LoopRequests
    <2>3. Packets[k].port = p
      BY <2>1, <2>2 DEF Segment
    <2> QED
      BY <1>1, <2>2, <2>3 DEF SegmentsOf
  <1> QED
    BY <1>1, <1>2, <1>3

\* What a request that is sent does to a port: nothing ...
KeptAt(p) == Continues(p) /\ queue'[p] = queue[p]

\* ... or it starts there ...
StartedAt(p, r) == Starts(p, r) /\ queue'[p] = queue[p] /\ queue[p] = <<>>

\* ... or waits for it.
QueuedAt(p, r) ==
  /\ p = r.port /\ ~Free(p) /\ New(r)
  /\ Continues(p) /\ queue'[p] = Append(queue[p], r)

\* A request that is sent to a connected port starts or waits, unless the port
\* knows it already.
LEMMA SendCases ==
  ASSUME BusTypes, TransferTypes, BusInv, NEW r \in LoopRequests, Send(r), ~stopped',
         NEW p \in Ports
  PROVE  /\ turn' = turn
         /\ KeptAt(p) \/ StartedAt(p, r) \/ QueuedAt(p, r)
         /\ p = r.port /\ p \in Connected /\ KeptAt(p) => ~Free(p) /\ r \in Known(p)
  <1>1. r.port \in Ports /\ turn' = turn
    BY RequestsHavePorts, SendEffect
  <1>2. CASE Start(r) /\ StartTransfers({r.port})
    <2>1. queue' = queue /\ Free(r.port) /\ queue[r.port] = <<>>
      BY <1>1, <1>2 DEF Start, BusInv, BusOf
    <2>2. CASE p = r.port
      <3>1. Starts(p, r) /\ ~Continues(p)
        BY <1>1, <1>2, <2>2 DEF Start, StartTransfers, Starts, BusTypes, TransferTypes,
           Continues, Free
      <3> QED
        BY <1>1, <2>1, <2>2, <3>1 DEF StartedAt, KeptAt
    <2>3. CASE p # r.port
      <3>1. Continues(p)
        BY <1>2, <2>3 DEF Start, StartTransfers, Continues, BusTypes, TransferTypes
      <3> QED
        BY <1>1, <2>1, <2>3, <3>1 DEF KeptAt
    <2> QED
      BY <2>2, <2>3
  <1>3. CASE Enqueue(r) /\ UNCHANGED transferVars
    <2>1. /\ ~Free(r.port) /\ New(r) /\ Continues(p)
          /\ queue' = [queue EXCEPT ![r.port] = Append(queue[r.port], r)]
      BY <1>3 DEF Enqueue, transferVars, Continues
    <2>2. CASE p = r.port
      <3>1. queue'[p] = Append(queue[p], r)
        BY <1>1, <2>1, <2>2 DEF BusTypes
      <3>2. queue'[p] # queue[p]
        <4>1. queue[p] \in Seq(LoopRequests)
          BY DEF BusTypes
        <4>2. Len(Append(queue[p], r)) = Len(queue[p]) + 1 /\ Len(queue[p]) \in Nat
          BY <4>1
        <4> QED
          BY <3>1, <4>2
      <3> QED
        BY <1>1, <2>1, <2>2, <3>1, <3>2 DEF QueuedAt, KeptAt
    <2>3. CASE p # r.port
      BY <1>1, <2>1, <2>3 DEF KeptAt, BusTypes
    <2> QED
      BY <2>2, <2>3
  <1>4. CASE Ignore(r) /\ UNCHANGED transferVars
    <2>1. KeptAt(p) /\ Ignored(r)
      BY <1>4 DEF Ignore, busVars, transferVars, KeptAt, Continues
    <2> QED
      BY <1>1, <2>1 DEF Ignored, New, Known
  <1>5. ~Overflow(r)
    BY DEF Overflow, Stop
  <1> QED
    BY <1>2, <1>3, <1>4, <1>5 DEF Send

\* Nothing new is known of the kind that is not sent.
LEMMA KnownAfterSend ==
  ASSUME BusTypes, NEW r \in LoopRequests, NEW p \in Ports,
         KeptAt(p) \/ StartedAt(p, r) \/ QueuedAt(p, r)
  PROVE  /\ Known(p)' \subseteq Known(p) \cup {r}
         /\ p # r.port => Known(p)' = Known(p)
         /\ \A s \in LoopRequests : s # r /\ Holds(p, s)' => Holds(p, s)
  <1>1. queue[p] \in Seq(LoopRequests)
    BY DEF BusTypes
  <1>2. CASE KeptAt(p)
    BY <1>2 DEF KeptAt, Continues, Known, Queued, Holds, Runs
  <1>3. CASE StartedAt(p, r)
    BY <1>3 DEF StartedAt, Starts, Known, Queued, Holds, Runs
  <1>4. CASE QueuedAt(p, r)
    <2>1. Queued(p)' = Queued(p) \cup {r}
      <3>1. /\ Len(queue'[p]) = Len(queue[p]) + 1 /\ Len(queue[p]) \in Nat
            /\ \A i \in 1..Len(queue[p]) : queue'[p][i] = queue[p][i]
            /\ queue'[p][Len(queue[p]) + 1] = r
        BY <1>1, <1>4 DEF QueuedAt
      <3>2. \A i \in 1..Len(queue'[p]) : i \in 1..Len(queue[p]) \/ i = Len(queue[p]) + 1
        BY <3>1
      <3>3. /\ \A i \in 1..Len(queue[p]) : i \in 1..Len(queue'[p])
            /\ Len(queue[p]) + 1 \in 1..Len(queue'[p])
        BY <3>1
      <3> QED
        BY <3>1, <3>2, <3>3 DEF Queued
    <2> QED
      BY <1>4, <2>1 DEF QueuedAt, Continues, Known, Holds, Runs
  <1> QED
    BY <1>2, <1>3, <1>4

\* A port that gets the turn runs the first request that waits for it, if any.
SwitchedAt(p) ==
  /\ p \in turn' <=> p \notin turn
  /\ IF p \notin turn /\ queue[p] # <<>>
       THEN /\ phase'[p] = "Busy" /\ moved'[p] = 0 /\ age'[p] = 0
            /\ current'[p] = Head(queue[p]) /\ queue'[p] = Tail(queue[p])
       ELSE phase'[p] = "Idle" /\ current'[p] = current[p] /\ queue'[p] = queue[p]

LEMMA SwitchCases ==
  ASSUME BusTypes, Switch, StartTransfers({p \in Ports : phase'[p] = "Busy"}), NEW p \in Ports
  PROVE  SwitchedAt(p)
  BY DEF Switch, StartTransfers, SwitchedAt

\* The first element of a sequence and the rest.
LEMMA HeadAndTail ==
  ASSUME NEW S, NEW s \in Seq(S), s # <<>>
  PROVE  /\ Head(s) = s[1] /\ Len(s) \in Nat /\ Len(s) > 0
         /\ Len(Tail(s)) = Len(s) - 1
         /\ \A i \in 1..Len(Tail(s)) : Tail(s)[i] = s[i + 1] /\ i + 1 \in 1..Len(s)
         /\ \A i \in 1..Len(s) : s[i] = Head(s) \/ \E j \in 1..Len(Tail(s)) : s[i] = Tail(s)[j]
         /\ \E i \in 1..Len(s) : s[i] = Head(s)
         /\ \A j \in 1..Len(Tail(s)) : \E i \in 1..Len(s) : s[i] = Tail(s)[j]
  <1>1. /\ Head(s) = s[1] /\ Len(s) \in Nat /\ Len(s) > 0
        /\ Len(Tail(s)) = Len(s) - 1
        /\ \A i \in 1..Len(Tail(s)) : Tail(s)[i] = s[i + 1]
    OBVIOUS
  <1>2. /\ 1 \in 1..Len(s)
        /\ \A i \in 1..Len(Tail(s)) : i + 1 \in 1..Len(s)
        /\ \A i \in 1..Len(s) : i = 1 \/ (i - 1 \in 1..Len(Tail(s)) /\ (i - 1) + 1 = i)
    BY <1>1
  <1>3. \A i \in 1..Len(s) : s[i] = Head(s) \/ \E j \in 1..Len(Tail(s)) : s[i] = Tail(s)[j]
    <2> TAKE i \in 1..Len(s)
    <2>1. CASE i = 1
      BY <1>1, <2>1
    <2>2. CASE i # 1
      <3>1. i - 1 \in 1..Len(Tail(s)) /\ Tail(s)[i - 1] = s[i]
        BY <1>1, <1>2, <2>2
      <3> QED
        BY <3>1
    <2> QED
      BY <2>1, <2>2
  <1> QED
    BY <1>1, <1>2, <1>3

\* A change of the turn makes no port know a request it did not know.
LEMMA KnownAfterSwitch ==
  ASSUME BusTypes, BusInv, NEW p \in Ports, SwitchedAt(p), \A q \in turn : phase[q] # "Busy"
  PROVE  /\ Known(p)' \subseteq Known(p)
         /\ \A s : Holds(p, s)' => Holds(p, s)
  <1>1. CASE p \notin turn /\ queue[p] # <<>>
    <2>1. queue[p] \in Seq(LoopRequests) /\ queue[p] # <<>>
      BY <1>1 DEF BusTypes
    <2>2. /\ \E i \in 1..Len(queue[p]) : queue[p][i] = Head(queue[p])
          /\ \A j \in 1..Len(Tail(queue[p])) :
               \E i \in 1..Len(queue[p]) : queue[p][i] = Tail(queue[p])[j]
      BY <2>1, HeadAndTail
    <2>3. Head(queue[p]) \in Queued(p)
      BY <2>2 DEF Queued
    <2>4. current'[p] = Head(queue[p]) /\ queue'[p] = Tail(queue[p])
      BY <1>1 DEF SwitchedAt
    <2>5. Queued(p)' \subseteq Queued(p)
      BY <2>2, <2>4 DEF Queued
    <2> QED
      BY <2>3, <2>4, <2>5 DEF Known, Holds, Runs
  <1>2. CASE ~(p \notin turn /\ queue[p] # <<>>)
    BY <1>2 DEF SwitchedAt, Known, Queued, Holds, Runs
  <1> QED
    BY <1>1, <1>2

-----------------------------------------------------------------------------
(***************************************************************************)
(* How far the frame has come, and what the ports know of it.              *)
(***************************************************************************)

\* The packets of a frame and the frames come in turn.
LEMMA PacketsInTurn ==
  ASSUME FramesDiffer, TypeOK
  PROVE  /\ LastIndex \in Segments /\ LastIndex > 1 /\ Segments = 1..LastIndex
         /\ packet.index \in 1..LastIndex /\ packet.frame \in 0..Frames-1
         /\ NextPacket.index # packet.index
         /\ packet.index = LastIndex =>
              NextPacket.index = 1 /\ NextPacket.frame # packet.frame
         /\ packet.index # LastIndex =>
              NextPacket.index = packet.index + 1 /\ NextPacket.frame = packet.frame
         /\ NextPacket.frame \in 0..Frames-1
  <1>1. LastIndex \in Nat /\ LastIndex > 1 /\ Segments = 1..LastIndex
    BY FrameAssumption DEF LastIndex, Segments
  <1>2. packet.index \in 1..LastIndex /\ packet.frame \in 0..Frames-1
    BY <1>1 DEF TypeOK, LoopTypes, FrameNumbers
  <1>3. Frames \in Nat /\ Frames > 1
    BY FrameAssumption DEF FramesDiffer
  <1>4. CASE packet.index = LastIndex
    <2>1. NextPacket = [index |-> 1, frame |-> (packet.frame + 1) % Frames]
      BY <1>1, <1>4 DEF NextPacket, LastIndex
    <2>2. (packet.frame + 1) % Frames # packet.frame
      <3>1. CASE packet.frame = Frames - 1
        <4>1. Frames % Frames = 0
          BY <1>3
        <4> QED
          BY <1>3, <3>1, <4>1
      <3>2. CASE packet.frame # Frames - 1
        <4>1. packet.frame + 1 \in 0..Frames-1
          BY <1>2, <1>3, <3>2
        <4>2. \A n \in 0..Frames-1 : n % Frames = n
          BY <1>3
        <4> QED
          BY <1>2, <4>1, <4>2
      <3> QED
        BY <3>1, <3>2
    <2>3. (packet.frame + 1) % Frames \in 0..Frames-1
      BY <1>2, <1>3
    <2> QED
      BY <1>1, <1>2, <1>4, <2>1, <2>2, <2>3
  <1>5. CASE packet.index # LastIndex
    <2>1. packet.index < Len(Packets)
      BY <1>1, <1>2, <1>5 DEF LastIndex
    <2>2. NextPacket = [packet EXCEPT !.index = packet.index + 1]
      BY <2>1 DEF NextPacket
    <2>3. NextPacket.index = packet.index + 1 /\ NextPacket.frame = packet.frame
      BY <2>2 DEF TypeOK, LoopTypes
    <2> QED
      BY <1>1, <1>2, <1>5, <2>3
  <1> QED
    BY <1>1, <1>2, <1>4, <1>5

\* The steps that do not deal with packets.
LEMMA FrameStays ==
  ASSUME FrameInv, UNCHANGED <<packet, havePacket, processed, ledVars>>,
         stage' = "commit" => stage = "commit",
         stage \in {"bus", "switch", "take", "copy", "report", "packet"} =>
           stage' \in {"bus", "switch", "take", "copy", "report", "packet"}
  PROVE  FrameInv'
  <1>1. /\ packet' = packet /\ havePacket' = havePacket /\ processed' = processed
        /\ received' = received /\ previousFrame' = previousFrame /\ ledBuffer' = ledBuffer
    BY DEF ledVars
  <1> QED
    BY <1>1 DEF FrameInv, NoPacketYet, PacketWaits, PacketProcessed, Committing,
       IndexBefore, Complete

\* A frame is complete when its last segment has been processed.
LEMMA CompleteFrame ==
  ASSUME FramesDiffer, TypeOK, FrameInv, Complete
  PROVE  havePacket /\ processed /\ packet.index = LastIndex
  <1>1. /\ 1 \in Segments /\ LastIndex \in Segments /\ LastIndex # 1
        /\ packet.index \in 1..LastIndex /\ LastIndex \in Nat
    BY PacketsInTurn
  <1>2. received # {} /\ ~(received \subseteq {LastIndex})
    BY <1>1 DEF Complete
  <1>3. havePacket /\ processed
    BY <1>2 DEF FrameInv, NoPacketYet, PacketWaits
  <1>4. received = 1..packet.index
    BY <1>2, <1>3 DEF FrameInv, PacketProcessed, Committing
  <1>5. LastIndex \in 1..packet.index
    BY <1>1, <1>4 DEF Complete
  <1> QED
    BY <1>1, <1>3, <1>5

\* FrameInv is inductive, if packets come to ports that have settled.
LEMMA FrameNext ==
  ASSUME FramesDiffer, TypeOK, FrameInv, [Next]_vars, packet' # packet => Settled
  PROVE  FrameInv'
  <1> USE PacketsInTurn
  <1>1. CASE PacketComes
    <2>1. /\ stage = "usb" /\ stage' = "bus" /\ packet' = NextPacket
          /\ havePacket' /\ ~processed' /\ UNCHANGED ledVars
      BY <1>1 DEF PacketComes
    <2>2. ~Complete /\ ~Complete'
      BY <2>1 DEF Settled, Complete, ledVars
    <2>3. CASE ~havePacket
      <3>1. packet.index = LastIndex /\ previousFrame = Frames
        BY <2>3 DEF FrameInv, NoPacketYet, NoFrame
      <3>2. packet'.index = 1 /\ packet'.frame # previousFrame'
        BY <2>1, <3>1, FrameAssumption DEF ledVars
      <3>3. PacketWaits'
        BY <2>1, <2>2, <3>2 DEF PacketWaits, Segments
      <3> QED
        BY <2>1, <3>3 DEF FrameInv
    <2>4. CASE havePacket
      <3>1. processed /\ PacketProcessed
        BY <2>1, <2>4 DEF FrameInv, PacketWaits
      <3>2. CASE packet.index = LastIndex
        <4>1. packet'.index = 1 /\ packet'.frame # previousFrame'
          BY <2>1, <3>1, <3>2 DEF PacketProcessed, ledVars
        <4>2. PacketWaits'
          BY <2>1, <2>2, <4>1 DEF PacketWaits, Segments
        <4> QED
          BY <2>1, <4>2 DEF FrameInv
      <3>3. CASE packet.index # LastIndex
        <4>1. packet'.index = packet.index + 1 /\ packet'.frame = packet.frame
          BY <2>1, <3>3
        <4>2. received = 1..packet.index
          BY <3>1, <3>3 DEF PacketProcessed, Committing
        <4>3. packet'.index # 1 /\ IndexBefore' = packet.index
          BY <4>1 DEF IndexBefore
        <4>4. packet'.frame = previousFrame' /\ received' = 1..IndexBefore'
          BY <2>1, <3>1, <4>1, <4>2, <4>3 DEF PacketProcessed, ledVars
        <4>5. \A k \in Segments : k < packet'.index => ledBuffer'[k] = packet'.frame
          BY <2>1, <3>1, <4>1 DEF PacketProcessed, ledVars
        <4>6. PacketWaits'
          BY <2>1, <2>2, <4>3, <4>4, <4>5 DEF PacketWaits
        <4> QED
          BY <2>1, <4>6 DEF FrameInv
      <3> QED
        BY <3>2, <3>3
    <2> QED
      BY <2>3, <2>4
  <1>2. CASE ProcessPacket /\ havePacket
    <2>1. /\ stage = "packet" /\ stage' = "sensors" /\ packet' = packet
          /\ havePacket' /\ processed'
          /\ ledBuffer' = [ledBuffer EXCEPT ![packet.index] = packet.frame]
          /\ received' = ReceivedOfFrame \cup {packet.index}
          /\ previousFrame' = packet.frame
      BY <1>2 DEF ProcessPacket
    <2>2. \A k \in Segments : k <= packet.index => ledBuffer'[k] = packet.frame
      <3>1. \A k \in Segments : k < packet.index => ledBuffer[k] = packet.frame
        BY <1>2 DEF FrameInv, PacketWaits, PacketProcessed
      <3> QED
        <4>1. ledBuffer \in [Segments -> 0..Frames] /\ packet.index \in Segments
          BY DEF TypeOK, LoopTypes
        <4>2. \A k \in Segments : k <= packet.index => k < packet.index \/ k = packet.index
          BY <4>1 DEF Segments
        <4> QED
          BY <2>1, <3>1, <4>1, <4>2
    <2>3. received' = 1..packet.index \/ Committing'
      <3>1. CASE ~processed /\ packet.index = 1
        <4>1. received' = {1}
          BY <1>2, <2>1, <3>1 DEF FrameInv, PacketWaits, ReceivedOfFrame
        <4> QED
          BY <3>1, <4>1
      <3>2. CASE ~processed /\ packet.index # 1
        <4>1. received' = 1..(packet.index - 1) \cup {packet.index}
          BY <1>2, <2>1, <3>2 DEF FrameInv, PacketWaits, ReceivedOfFrame, IndexBefore
        <4> QED
          BY <4>1
      <3>3. CASE processed
        <4>1. /\ received' = received \cup {packet.index}
              /\ received = 1..packet.index \/ Committing
          BY <2>1, <3>3 DEF FrameInv, PacketProcessed, ReceivedOfFrame
        <4> QED
          BY <2>1, <4>1 DEF Committing
      <3> QED
        BY <3>1, <3>2, <3>3
    <2> QED
      BY <2>1, <2>2, <2>3 DEF FrameInv, PacketProcessed
  <1>3. CASE ReportSensors /\ Complete
    <2>1. /\ stage' = "commit" /\ received' = {}
          /\ UNCHANGED <<packet, havePacket, processed, previousFrame, ledBuffer>>
      BY <1>3 DEF ReportSensors, usbVars
    <2>2. havePacket /\ processed /\ packet.index = LastIndex
      BY <1>3, CompleteFrame
    <2>3. Committing'
      BY <2>1, <2>2 DEF Committing
    <2>4. PacketProcessed
      BY <2>2 DEF FrameInv
    <2> QED
      BY <2>1, <2>2, <2>3, <2>4 DEF FrameInv, PacketProcessed
  <1>4. CASE \/ ProcessPort \/ SwitchIfDone \/ TakeResponse \/ CopyHalf \/ CommitFrame
             \/ PollSensors \/ NoPacketComes
             \/ (ReportSensors /\ ~Complete) \/ (ProcessPacket /\ ~havePacket)
             \/ (\E p \in Ports : Transfer(p)) \/ UNCHANGED vars
    <2>1. UNCHANGED <<packet, havePacket, processed, ledVars>>
      BY <1>4 DEF ProcessPort, SwitchIfDone, TakeResponse, CopyHalf, ReportSensors,
         CommitFrame, ProcessPacket, PollSensors, NoPacketComes, Transfer, vars, usbVars,
         ledVars
    <2>2. \/ stage' = stage
          \/ stage' \in {"bus", "switch", "take", "copy", "report", "packet"}
          \/ stage \notin {"bus", "switch", "take", "copy", "report", "packet"}
             /\ stage' # "commit"
          \/ stage = "packet" /\ stage' = "sensors" /\ ~havePacket
      BY <1>4 DEF ProcessPort, SwitchIfDone, TakeResponse, CopyHalf, ReportSensors,
         CommitFrame, ProcessPacket, PollSensors, NoPacketComes, Transfer, vars, NextPort,
         loopVars
    <2>3. CASE stage = "packet" /\ stage' = "sensors" /\ ~havePacket
      <3>1. havePacket' = havePacket /\ processed' = processed /\ packet' = packet
            /\ received' = received /\ previousFrame' = previousFrame
        BY <2>1 DEF ledVars
      <3> QED
        BY <2>3, <3>1 DEF FrameInv, NoPacketYet
    <2> QED
      BY <2>1, <2>2, <2>3, FrameStays
  <1> QED
    BY <1>1, <1>2, <1>3, <1>4 DEF Next, LoopStep

\* A frame is being committed until the next packet comes.
LEMMA CommittingStays ==
  ASSUME FrameInv, [Next]_vars, Committing, ~PacketComes
  PROVE  Committing'
  <1>1. CASE ProcessPacket
    <2>1. /\ packet' = packet /\ havePacket' = havePacket /\ processed'
          /\ received' = ReceivedOfFrame \cup {packet.index}
      BY <1>1 DEF ProcessPacket, Committing
    <2>2. received' = received \cup {LastIndex}
      BY <2>1 DEF FrameInv, PacketProcessed, Committing, ReceivedOfFrame
    <2> QED
      BY <2>1, <2>2 DEF Committing
  <1>2. CASE ~ProcessPacket
    <2>1. /\ packet' = packet /\ havePacket' = havePacket /\ processed' = processed
          /\ received' \subseteq received
      BY <1>2 DEF Next, LoopStep, ProcessPort, SwitchIfDone, TakeResponse, CopyHalf,
         ReportSensors, CommitFrame, PollSensors, NoPacketComes, Transfer, vars, usbVars,
         ledVars
    <2> QED
      BY <2>1 DEF Committing
  <1> QED
    BY <1>1, <1>2

\* What the loop sends, with the reason for it.
Sending(r) ==
  \/ CommitFrame /\ r = Commit(Visited[at]) /\ Committing
  \/ PollSensors /\ r = Sensors(Visited[at])
  \/ ProcessPacket /\ havePacket /\ r = Segment(packet.index)

LEMMA SendingSends ==
  ASSUME TypeOK, FrameInv, CommitFrame \/ PollSensors \/ (ProcessPacket /\ havePacket)
  PROVE  \E r \in LoopRequests : Send(r) /\ Sending(r)
  <1>1. Commit(Visited[at]) \in LoopRequests /\ Sensors(Visited[at]) \in LoopRequests
    BY VisitedOnce DEF TypeOK, LoopTypes, LoopRequests
  <1>2. Segment(packet.index) \in LoopRequests
    BY DEF TypeOK, LoopTypes, LoopRequests
  <1>3. CommitFrame => Committing
    BY DEF CommitFrame, FrameInv
  <1> QED
    BY <1>1, <1>2, <1>3 DEF CommitFrame, SendCommit, ProcessPacket, PollSensors, Sending

\* Only those steps, the change of the turn and the end of a request touch the bus.
LEMMA BusSteps ==
  ASSUME TypeOK, [Next]_vars
  PROVE  \/ CommitFrame \/ PollSensors \/ (ProcessPacket /\ havePacket)
         \/ SwitchIfDone
         \/ ProcessPort
         \/ /\ ~CommitFrame /\ ~PollSensors /\ ~SwitchIfDone /\ ~ProcessPort
            /\ UNCHANGED <<phase, turn, current, queue>>
  BY DEF Next, LoopStep, ProcessPacket, TakeResponse, Take, CopyHalf, ReportSensors,
     PacketComes, NoPacketComes, Transfer, vars, busVars

\* The packet and what has been processed change with these steps only.
LEMMA PacketSteps ==
  ASSUME [Next]_vars
  PROVE  \/ PacketComes
         \/ ProcessPacket /\ havePacket /\ processed' /\ UNCHANGED <<packet, havePacket>>
         \/ ~PacketComes /\ UNCHANGED <<packet, havePacket, processed>>
  BY DEF Next, LoopStep, ProcessPacket, TakeResponse, CopyHalf, ReportSensors,
     PacketComes, NoPacketComes, Transfer, ProcessPort, SwitchIfDone, CommitFrame,
     PollSensors, vars, usbVars

\* The steps that do not send make no port know anything new.
LEMMA KnownWithoutSend ==
  ASSUME TypeOK, BusInv, [Next]_vars, NEW p \in Ports,
         ~CommitFrame, ~PollSensors, ~(ProcessPacket /\ havePacket)
  PROVE  /\ Known(p)' \subseteq Known(p)
         /\ \A s : Holds(p, s)' => Holds(p, s)
  <1>1. CASE SwitchIfDone /\ \A q \in turn : phase[q] # "Busy"
    <2>1. SwitchedAt(p)
      BY <1>1, SwitchCases DEF SwitchIfDone, TypeOK
    <2> QED
      BY <1>1, <2>1, KnownAfterSwitch DEF TypeOK
  <1>2. CASE ProcessPort
    <2>1. current' = current /\ queue' = queue
      BY <1>2 DEF ProcessPort, Answered, TimedOut, Running, Resting,
         Respond, TimeOut, Finish, busVars
    <2>2. phase'[p] = "Busy" => phase[p] = "Busy"
      BY <1>2 DEF ProcessPort, Answered, TimedOut, Running, Resting,
         Respond, TimeOut, Finish, busVars,
         TypeOK, BusTypes
    <2> QED
      BY <2>1, <2>2 DEF Known, Queued, Holds, Runs
  <1>3. CASE UNCHANGED <<phase, current, queue>>
    BY <1>3 DEF Known, Queued, Holds, Runs
  <1> QED
    BY <1>1, <1>2, <1>3, BusSteps DEF SwitchIfDone, busVars

\* KnownInv is inductive, if packets come to ports that have settled.
LEMMA KnownNext ==
  ASSUME FramesDiffer, TypeOK, BusInv, FrameInv, KnownInv, [Next]_vars, ~stopped',
         packet' # packet => Settled
  PROVE  KnownInv'
  <1> SUFFICES ASSUME NEW p \in Answering
               PROVE  /\ havePacket' => Known(p)' \subseteq
                           {Sensors(p), Segment(packet.index)', Segment(IndexBefore)', Commit(p)}
                      /\ Holds(p, Commit(p))' => Committing'
                      /\ havePacket' /\ ~processed' => Segment(packet.index)' \notin Known(p)'
    BY DEF KnownInv
  <1>1. p \in Ports
    BY PanelAssumption DEF Answering
  <1>2. packet.index \in Segments
    BY DEF TypeOK, LoopTypes
  <1>3. CASE PacketComes
    <2>1. /\ packet' = NextPacket /\ UNCHANGED busVars /\ packet' # packet
      BY <1>3, PacketsInTurn DEF PacketComes
    <2>2. Known(p)' = Known(p) /\ \A s : Holds(p, s)' => Holds(p, s)
      BY <2>1 DEF busVars, Known, Queued, Holds, Runs
    <2>3. Known(p) \subseteq {Sensors(p), Segment(packet.index)}
      BY <2>1 DEF Settled
    <2>4. IndexBefore' = packet.index /\ packet'.index # packet.index
          /\ packet'.index \in Segments
      BY <2>1, PacketsInTurn DEF IndexBefore
    <2>5. ~Holds(p, Commit(p))
      <3>1. Commit(p) \notin Known(p)
        BY <1>1, <1>2, <2>3, SegmentsDiffer, RequestsDiffer
      <3> QED
        BY <3>1 DEF Known, Holds, Runs
    <2>6. Segment(packet.index)' \notin Known(p)
      BY <1>1, <1>2, <2>3, <2>4, SegmentsDiffer
    <2> QED
      BY <2>2, <2>3, <2>4, <2>5, <2>6
  <1>4. CASE ~PacketComes
    <2>1. /\ packet' = packet /\ havePacket' = havePacket
          /\ processed => processed'
          /\ Committing => Committing'
      BY <1>4, PacketSteps, CommittingStays
    <2>2. Segment(packet.index)' = Segment(packet.index)
          /\ Segment(IndexBefore)' = Segment(IndexBefore)
      BY <2>1 DEF IndexBefore
    <2>3. CASE \E r \in LoopRequests : Send(r) /\ Sending(r)
      <3>1. PICK r \in LoopRequests : Send(r) /\ Sending(r)
        BY <2>3
      <3>2. /\ Known(p)' \subseteq Known(p) \cup {r}
            /\ p # r.port => Known(p)' = Known(p)
            /\ \A s \in LoopRequests : s # r /\ Holds(p, s)' => Holds(p, s)
        BY <1>1, <3>1, SendCases, KnownAfterSend DEF TypeOK
      <3>3. /\ r.port = p => r \in {Sensors(p), Segment(packet.index), Commit(p)}
            /\ r = Commit(p) => Committing
            /\ r = Segment(packet.index) => processed'
        <4>1. Visited[at] \in Ports
          BY VisitedOnce DEF TypeOK, LoopTypes
        <4>2. \A q \in Ports : Sensors(q).port = q /\ Commit(q).port = q
          BY DEF Sensors, Commit
        <4>3. ProcessPacket /\ havePacket => processed'
          BY DEF ProcessPacket
        <4> QED
          BY <1>1, <1>2, <3>1, <4>1, <4>2, <4>3, SegmentsDiffer, RequestsDiffer DEF Sending
      <3>4. Commit(p) \in LoopRequests
        BY <1>1 DEF LoopRequests
      <3>5. Holds(p, Commit(p))' => Committing'
        BY <2>1, <3>2, <3>3, <3>4 DEF KnownInv
      <3> QED
        BY <2>1, <2>2, <3>2, <3>3, <3>5 DEF KnownInv
    <2>4. CASE ~\E r \in LoopRequests : Send(r) /\ Sending(r)
      <3>1. Known(p)' \subseteq Known(p) /\ \A s : Holds(p, s)' => Holds(p, s)
        BY <1>1, <2>4, SendingSends, KnownWithoutSend
      <3> QED
        BY <2>1, <2>2, <3>1 DEF KnownInv
    <2> QED
      BY <2>3, <2>4
  <1> QED
    BY <1>3, <1>4

\* OrderInv holds initially, for any packets to come.
LEMMA OrderInit ==
  ASSUME FramesDiffer, Init
  PROVE  OrderInv
  <1>1. TypeOK /\ BusInv /\ ~stopped
    BY TypesInit, BusInitInv
  <1>2. PlaceInv
    BY DEF Init, PlaceInv
  <1>3. FrameInv
    <2>1. ~havePacket /\ ~processed /\ stage # "commit" /\ NoPacketYet
      BY DEF Init, NoPacketYet, LastIndex
    <2> QED
      BY <2>1 DEF FrameInv
  <1>4. KnownInv
    <2>1. ~havePacket /\ \A p \in Ports : phase[p] = "Idle" /\ queue[p] = <<>>
      BY DEF Init, BusInit
    <2>2. Answering \subseteq Ports
      BY PanelAssumption DEF Answering
    <2> QED
      BY <2>1, <2>2 DEF KnownInv, Holds, Runs, Queued
  <1> QED
    BY <1>1, <1>2, <1>3, <1>4 DEF OrderInv, QueueInv

\* OrderInv is inductive, if packets come to ports that have settled.
LEMMA OrderNext ==
  ASSUME FewSegments, FramesDiffer, OrderInv, [Next]_vars, packet' # packet => Settled
  PROVE  OrderInv'
  <1>1. TypeOK' /\ BusInv' /\ ~stopped'
    BY TypesNext, BusNextInv DEF OrderInv, QueueInv
  <1>2. PlaceInv' /\ FrameInv'
    BY PlaceNext, FrameNext DEF OrderInv, QueueInv
  <1>3. KnownInv'
    BY <1>1, KnownNext DEF OrderInv, QueueInv
  <1> QED
    BY <1>1, <1>2, <1>3 DEF OrderInv, QueueInv

-----------------------------------------------------------------------------
(***************************************************************************)
(* What the panels have of the frame.                                      *)
(***************************************************************************)

\* A port that rests, with nothing that waits for it, has sent what it was to send.
LEMMA NothingHeld ==
  ASSUME NEW p \in Ports, NEW r, phase[p] # "Busy", queue[p] = <<>>
  PROVE  ~Holds(p, r)
  BY DEF Holds, Runs, Queued

\* A port to which nothing happens, but that its request may end.
LEMMA StagedKept ==
  ASSUME StagedInv, NEW p \in Answering, staged' = staged, queue'[p] = queue[p],
         current'[p] = current[p], moved'[p] = moved[p],
         \A k \in SegmentsOf(p) : ledBuffer'[k] = ledBuffer[k],
         \/ phase'[p] = phase[p]
         \/ phase'[p] # "Busy" /\ (moved[p] = 2 \/ phase[p] # "Busy")
  PROVE  StagedOf(p)'
  <1>1. \A k \in SegmentsOf(p) : Sent(k)' <=> Sent(k)
    BY DEF Sent, Whole
  <1>2. Queued(p)' = Queued(p) /\ \A s : Runs(p, s)' => Runs(p, s)
    BY DEF Queued, Runs
  <1>3. \A s : Runs(p, s) => Runs(p, s)' \/ moved[p] = 2
    BY DEF Runs
  <1>4. StagedOf(p)
    BY DEF StagedInv
  <1>5. ASSUME NEW k \in SegmentsOf(p)
        PROVE  Sent(k)' \/ Runs(p, Segment(k))' <=> Sent(k) \/ Runs(p, Segment(k))
    BY <1>1, <1>2, <1>3, <1>4 DEF StagedOf
  <1>6. ASSUME NEW k \in SegmentsOf(p)
        PROVE  /\ Sent(k)' \/ Holds(p, Segment(k))'
               /\ Runs(p, Segment(k))' =>
                    /\ moved'[p] = 1 => staged'[k][1] = ledBuffer'[k]
                    /\ moved'[p] = 2 => Sent(k)'
               /\ Runs(p, Commit(p))' => Sent(k)'
    <2>1. Sent(k)' \/ Holds(p, Segment(k))'
      BY <1>2, <1>4, <1>5 DEF StagedOf, Holds
    <2> QED
      BY <1>1, <1>2, <1>4, <2>1 DEF StagedOf
  <1>7. ASSUME NEW k \in SegmentsOf(p), NEW i \in 1..Len(queue'[p]), queue'[p][i] = Commit(p)
        PROVE  \/ Sent(k)' \/ Runs(p, Segment(k))'
               \/ \E j \in 1..i-1 : queue'[p][j] = Segment(k)
    <2>1. \/ Sent(k) \/ Runs(p, Segment(k))
          \/ \E j \in 1..i-1 : queue[p][j] = Segment(k)
      BY <1>4, <1>7 DEF StagedOf
    <2> QED
      BY <1>5, <2>1
  <1> QED
    BY <1>6, <1>7 DEF StagedOf

\* A port that starts or queues a request that is sent.
LEMMA StagedSend ==
  ASSUME TypeOK, StagedInv, NEW p \in Answering, staged' = staged,
         \A k \in SegmentsOf(p) : ledBuffer'[k] = ledBuffer[k],
         NEW r \in LoopRequests,
         KeptAt(p) \/ StartedAt(p, r) \/ QueuedAt(p, r)
  PROVE  StagedOf(p)'
  <1>1. p \in Ports /\ SegmentsOf(p) \subseteq Segments
    BY PanelAssumption DEF Answering, SegmentsOf
  <1>2. \A k \in SegmentsOf(p) : Sent(k)' <=> Sent(k)
    BY DEF Sent, Whole
  <1>3. CASE KeptAt(p)
    BY <1>3, StagedKept DEF KeptAt, Continues
  <1>4. CASE StartedAt(p, r)
    <2>1. \A k \in SegmentsOf(p) : Sent(k)'
      BY <1>1, <1>2, <1>4, NothingHeld DEF StartedAt, Starts, Free, StagedInv, StagedOf
    <2>2. moved'[p] = 0 /\ queue'[p] = <<>>
      BY <1>4 DEF StartedAt, Starts
    <2> QED
      BY <2>1, <2>2 DEF StagedOf
  <1>5. CASE QueuedAt(p, r)
    <2>1. /\ Len(queue'[p]) = Len(queue[p]) + 1 /\ Len(queue[p]) \in Nat
          /\ \A i \in 1..Len(queue[p]) : queue'[p][i] = queue[p][i]
          /\ queue'[p][Len(queue[p]) + 1] = r
      BY <1>1, <1>5 DEF QueuedAt, TypeOK, BusTypes
    <2>2. UNCHANGED <<phase[p], current[p], moved[p]>>
      BY <1>5 DEF QueuedAt, Continues
    <2>3. \A s : (Runs(p, s)' <=> Runs(p, s)) /\ (s \in Queued(p) => s \in Queued(p)')
      <3>1. \A i \in 1..Len(queue[p]) : i \in 1..Len(queue'[p])
        BY <2>1
      <3> QED
        BY <2>1, <2>2, <3>1 DEF Runs, Queued
    <2>4. ASSUME NEW k \in SegmentsOf(p)
          PROVE  /\ Sent(k)' \/ Holds(p, Segment(k))'
                 /\ Runs(p, Segment(k))' =>
                      /\ moved'[p] = 1 => staged'[k][1] = ledBuffer'[k]
                      /\ moved'[p] = 2 => Sent(k)'
                 /\ Runs(p, Commit(p))' => Sent(k)'
      BY <1>2, <2>2, <2>3 DEF StagedInv, StagedOf, Holds
    <2>5. ASSUME NEW k \in SegmentsOf(p), NEW i \in 1..Len(queue'[p]), queue'[p][i] = Commit(p)
          PROVE  \/ Sent(k)' \/ Runs(p, Segment(k))'
                 \/ \E j \in 1..i-1 : queue'[p][j] = Segment(k)
      <3>1. CASE i \in 1..Len(queue[p])
        <4>1. \/ Sent(k) \/ Runs(p, Segment(k))
              \/ \E j \in 1..i-1 : queue[p][j] = Segment(k)
          BY <2>1, <2>5, <3>1 DEF StagedInv, StagedOf
        <4>2. \A j \in 1..i-1 : queue'[p][j] = queue[p][j]
          BY <2>1, <3>1
        <4> QED
          BY <1>2, <2>3, <4>1, <4>2
      <3>2. CASE i = Len(queue[p]) + 1
        <4>1. Sent(k) \/ Runs(p, Segment(k)) \/ Segment(k) \in Queued(p)
          BY DEF StagedInv, StagedOf, Holds
        <4>2. \A j \in 1..Len(queue[p]) : j \in 1..i-1
          BY <2>1, <3>2
        <4> QED
          BY <1>2, <2>1, <2>3, <4>1, <4>2 DEF Queued
      <3> QED
        BY <2>1, <3>1, <3>2
    <2> QED
      BY <2>4, <2>5 DEF StagedOf
  <1> QED
    BY <1>3, <1>4, <1>5

\* A port whose segment comes into led_buffer starts or queues it.
LEMMA StagedFresh ==
  ASSUME TypeOK, StagedInv, KnownInv, NEW p \in Answering, staged' = staged,
         NEW n \in SegmentsOf(p), \A k \in SegmentsOf(p) \ {n} : ledBuffer'[k] = ledBuffer[k],
         Segment(n) \notin Known(p), ~Committing,
         StartedAt(p, Segment(n)) \/ QueuedAt(p, Segment(n))
  PROVE  StagedOf(p)'
  <1>1. p \in Ports /\ SegmentsOf(p) \subseteq Segments
    BY PanelAssumption DEF Answering, SegmentsOf
  <1>2. \A k \in SegmentsOf(p) \ {n} : Sent(k)' <=> Sent(k)
    BY DEF Sent, Whole
  <1>3. ~Holds(p, Commit(p))
    BY DEF KnownInv
  <1>4. Segment(n) # Commit(p)
    BY <1>1, SegmentsDiffer
  <1>5. CASE StartedAt(p, Segment(n))
    <2>1. \A k \in SegmentsOf(p) \ {n} : Sent(k)'
      BY <1>1, <1>2, <1>5, NothingHeld DEF StartedAt, Starts, Free, StagedInv, StagedOf
    <2>2. moved'[p] = 0 /\ queue'[p] = <<>> /\ phase'[p] = "Busy" /\ current'[p] = Segment(n)
      BY <1>5 DEF StartedAt, Starts
    <2> QED
      BY <1>4, <2>1, <2>2 DEF StagedOf, Holds, Runs
  <1>6. CASE QueuedAt(p, Segment(n))
    <2>1. /\ Len(queue'[p]) = Len(queue[p]) + 1 /\ Len(queue[p]) \in Nat
          /\ \A i \in 1..Len(queue[p]) : queue'[p][i] = queue[p][i]
          /\ queue'[p][Len(queue[p]) + 1] = Segment(n)
      BY <1>1, <1>6 DEF QueuedAt, TypeOK, BusTypes
    <2>2. UNCHANGED <<phase[p], current[p], moved[p]>>
      BY <1>6 DEF QueuedAt, Continues
    <2>3. /\ \A s : (Runs(p, s)' <=> Runs(p, s)) /\ (s \in Queued(p) => s \in Queued(p)')
          /\ Segment(n) \in Queued(p)'
      <3>1. /\ \A i \in 1..Len(queue[p]) : i \in 1..Len(queue'[p])
            /\ Len(queue[p]) + 1 \in 1..Len(queue'[p])
        BY <2>1
      <3> QED
        BY <2>1, <2>2, <3>1 DEF Runs, Queued
    <2>4. ~Runs(p, Segment(n)) /\ ~Runs(p, Commit(p))
      BY <1>3 DEF Known, Runs, Holds
    <2>5. \A i \in 1..Len(queue'[p]) : queue'[p][i] # Commit(p)
      <3>1. \A i \in 1..Len(queue[p]) : queue[p][i] # Commit(p)
        BY <1>3 DEF Holds, Queued
      <3> QED
        BY <1>4, <2>1, <3>1
    <2>6. \A k \in SegmentsOf(p) : Sent(k)' \/ Holds(p, Segment(k))'
      BY <1>2, <2>3 DEF StagedInv, StagedOf, Holds
    <2>7. ASSUME NEW k \in SegmentsOf(p), Runs(p, Segment(k))'
          PROVE  /\ moved'[p] = 1 => staged'[k][1] = ledBuffer'[k]
                 /\ moved'[p] = 2 => Sent(k)'
      <3>1. k # n /\ Runs(p, Segment(k))
        BY <2>3, <2>4, <2>7
      <3> QED
        BY <1>2, <2>2, <3>1 DEF StagedInv, StagedOf
    <2> QED
      BY <2>3, <2>4, <2>5, <2>6, <2>7 DEF StagedOf
  <1> QED
    BY <1>5, <1>6

\* A port that gets the turn, or loses it.
LEMMA StagedSwitch ==
  ASSUME TypeOK, BusInv, StagedInv, NEW p \in Answering, SwitchedAt(p), phase[p] # "Busy",
         staged' = staged, ledBuffer' = ledBuffer
  PROVE  StagedOf(p)'
  <1>1. p \in Ports /\ SegmentsOf(p) \subseteq Segments
    BY PanelAssumption DEF Answering, SegmentsOf
  <1>2. \A k \in SegmentsOf(p) : Sent(k)' <=> Sent(k)
    BY DEF Sent, Whole
  <1>3. StagedOf(p) /\ \A s : ~Runs(p, s)
    BY DEF StagedInv, Runs
  <1>4. CASE p \notin turn /\ queue[p] # <<>>
    <2> DEFINE s == queue[p]
    <2>1. s \in Seq(LoopRequests) /\ s # <<>>
      BY <1>1, <1>4 DEF TypeOK, BusTypes
    <2>2. /\ Head(s) = s[1] /\ Len(s) \in Nat /\ Len(s) > 0 /\ Len(Tail(s)) = Len(s) - 1
          /\ \A i \in 1..Len(Tail(s)) : Tail(s)[i] = s[i + 1] /\ i + 1 \in 1..Len(s)
          /\ \A i \in 1..Len(s) : s[i] = Head(s) \/ \E j \in 1..Len(Tail(s)) : s[i] = Tail(s)[j]
      <3> HIDE DEF s
      <3> QED
        BY <2>1, HeadAndTail
    <2>3. /\ phase'[p] = "Busy" /\ moved'[p] = 0
          /\ current'[p] = Head(s) /\ queue'[p] = Tail(s)
      BY <1>4 DEF SwitchedAt
    <2>4. \A r : Runs(p, r)' <=> r = Head(s)
      BY <2>3 DEF Runs
    <2>5. ASSUME NEW k \in SegmentsOf(p)
          PROVE  Sent(k)' \/ Holds(p, Segment(k))'
      <3>1. Sent(k) \/ Segment(k) \in Queued(p)
        BY <1>3 DEF StagedOf, Holds
      <3>2. Segment(k) \in Queued(p) => Segment(k) = Head(s) \/ Segment(k) \in Queued(p)'
        BY <2>2, <2>3 DEF Queued
      <3> QED
        BY <1>2, <2>4, <3>1, <3>2 DEF Holds
    <2>6. ASSUME NEW k \in SegmentsOf(p), Runs(p, Commit(p))'
          PROVE  Sent(k)'
      <3>1. s[1] = Commit(p) /\ 1 \in 1..Len(s)
        BY <2>2, <2>4, <2>6
      <3>2. Sent(k) \/ \E j \in 1..1-1 : s[j] = Segment(k)
        BY <1>3, <3>1 DEF StagedOf
      <3> QED
        BY <1>2, <3>2
    <2>7. ASSUME NEW k \in SegmentsOf(p), NEW i \in 1..Len(queue'[p]), queue'[p][i] = Commit(p)
          PROVE  \/ Sent(k)' \/ Runs(p, Segment(k))'
                 \/ \E j \in 1..i-1 : queue'[p][j] = Segment(k)
      <3>1. i \in 1..Len(Tail(s)) /\ s[i + 1] = Commit(p) /\ i + 1 \in 1..Len(s)
        BY <2>2, <2>3, <2>7
      <3>2. Sent(k) \/ \E j \in 1..(i + 1)-1 : s[j] = Segment(k)
        BY <1>3, <3>1 DEF StagedOf
      <3>3. ASSUME NEW j \in 1..(i + 1)-1, s[j] = Segment(k)
            PROVE  Runs(p, Segment(k))' \/ \E m \in 1..i-1 : queue'[p][m] = Segment(k)
        <4>1. CASE j = 1
          BY <2>2, <2>4, <3>3, <4>1
        <4>2. CASE j # 1
          <5>1. j - 1 \in 1..i-1 /\ j - 1 \in 1..Len(Tail(s)) /\ (j - 1) + 1 = j
            BY <2>2, <3>1, <4>2
          <5>2. queue'[p][j - 1] = Segment(k)
            BY <2>2, <2>3, <3>3, <5>1
          <5> QED
            BY <5>1, <5>2
        <4> QED
          BY <4>1, <4>2
      <3> QED
        BY <1>2, <3>2, <3>3
    <2> QED
      BY <2>3, <2>5, <2>6, <2>7 DEF StagedOf
  <1>5. CASE ~(p \notin turn /\ queue[p] # <<>>)
    <2>1. /\ phase'[p] # "Busy" /\ current'[p] = current[p] /\ queue'[p] = queue[p]
      BY <1>5 DEF SwitchedAt
    <2>2. Queued(p)' = Queued(p) /\ \A s : ~Runs(p, s)'
      BY <2>1 DEF Queued, Runs
    <2> QED
      BY <1>2, <1>3, <2>1, <2>2 DEF StagedOf, Holds
  <1> QED
    BY <1>4, <1>5

\* Half of a segment comes to its panel.
LEMMA StagedTransfer ==
  ASSUME TypeOK, BusInv, StagedInv, NEW p \in Answering, NEW q \in Ports, Transfer(q)
  PROVE  StagedOf(p)'
  <1> DEFINE half == moved[q] + 1
             r == current[q]
  <1>1. p \in Ports /\ SegmentsOf(p) \subseteq Segments /\ StagedOf(p)
    BY PanelAssumption DEF Answering, SegmentsOf, StagedInv
  <1>2. /\ ledBuffer' = ledBuffer /\ UNCHANGED <<phase, current, queue>>
        /\ phase[q] = "Busy" /\ half \in 1..2
        /\ moved' = [moved EXCEPT ![q] = half]
        /\ staged' = IF r.segment # 0
                       THEN [staged EXCEPT ![r.segment][half] = ledBuffer[r.segment]]
                       ELSE staged
    BY DEF Transfer, busVars, ledVars, TypeOK, TransferTypes
  <1>3. \A s : (Runs(p, s)' <=> Runs(p, s)) /\ (s \in Queued(p)' <=> s \in Queued(p))
    BY <1>2 DEF Runs, Queued
  <1>4. r \in RequestsOf(q)
    BY <1>2 DEF BusInv, BusOf
  <1>5. r.segment # 0 => r.segment \in SegmentsOf(q) /\ r = Segment(r.segment)
    BY <1>4, SegmentsDiffer
  <1>6. \A k \in Segments : staged[k] \in [1..2 -> 0..Frames]
    BY DEF TypeOK, TransferTypes
  <1>7. ASSUME NEW k \in SegmentsOf(p)
        PROVE  /\ Sent(k) => Sent(k)'
               /\ Runs(p, Segment(k))' =>
                    /\ moved'[p] = 1 => staged'[k][1] = ledBuffer'[k]
                    /\ moved'[p] = 2 => Sent(k)'
    <2>1. CASE r.segment = k
      <3>1. q = p /\ r = Segment(k) /\ k # 0
        BY <1>1, <1>5, <2>1, SegmentsDiffer DEF SegmentsOf
      <3>2. staged'[k] = [staged[k] EXCEPT ![half] = ledBuffer[k]]
        BY <1>1, <1>2, <2>1, <3>1 DEF TypeOK, TransferTypes
      <3>3. staged[k] \in [1..2 -> 0..Frames]
        BY <1>1, <1>6
      <3>4. moved'[p] = half
        BY <1>1, <1>2, <3>1 DEF TypeOK, TransferTypes
      <3>5. CASE half = 1
        <4>1. staged'[k][1] = ledBuffer[k] /\ staged'[k][2] = staged[k][2]
          BY <3>2, <3>3, <3>5
        <4>2. Sent(k) => Sent(k)'
          <5>1. ASSUME Sent(k)
                PROVE  staged[k][1] = ledBuffer[k]
            BY <5>1 DEF Sent, Whole
          <5> QED
            BY <1>2, <3>2, <3>3, <3>5, <5>1 DEF Sent
        <4> QED
          BY <1>2, <3>4, <3>5, <4>1, <4>2
      <3>6. CASE half = 2
        <4>1. moved[p] = 1 /\ Runs(p, Segment(k))
          BY <1>2, <3>1, <3>6 DEF Runs, TypeOK, TransferTypes
        <4>2. staged[k][1] = ledBuffer[k]
          BY <1>1, <4>1 DEF StagedOf
        <4>3. staged'[k] = Whole(ledBuffer[k])
          BY <3>2, <3>3, <3>6, <4>2 DEF Whole
        <4>4. Sent(k)'
          BY <1>2, <4>3 DEF Sent, Whole
        <4> QED
          BY <3>4, <3>6, <4>4
      <3> QED
        BY <1>2, <3>5, <3>6
    <2>2. CASE r.segment # k
      <3>1. staged'[k] = staged[k]
        BY <1>1, <1>2, <1>5, <2>2 DEF TypeOK, TransferTypes
      <3>2. Sent(k)' <=> Sent(k)
        BY <1>2, <3>1 DEF Sent, Whole
      <3>3. Runs(p, Segment(k)) => p # q
        <4>1. Segment(k).segment = k
          BY <1>1, SegmentsDiffer
        <4> QED
          BY <2>2, <4>1 DEF Runs
      <3>4. Runs(p, Segment(k)) => moved'[p] = moved[p]
        BY <1>1, <1>2, <3>3 DEF TypeOK, TransferTypes
      <3> QED
        BY <1>1, <1>2, <1>3, <3>1, <3>2, <3>4 DEF StagedOf
    <2> QED
      BY <2>1, <2>2
  <1>8. ASSUME NEW k \in SegmentsOf(p)
        PROVE  /\ Sent(k)' \/ Holds(p, Segment(k))'
               /\ Runs(p, Commit(p))' => Sent(k)'
               /\ \A i \in 1..Len(queue'[p]) : queue'[p][i] = Commit(p) =>
                    \/ Sent(k)' \/ Runs(p, Segment(k))'
                    \/ \E j \in 1..i-1 : queue'[p][j] = Segment(k)
    <2>1. queue' = queue
      BY <1>2
    <2> QED
      BY <1>1, <1>3, <1>7, <2>1 DEF StagedOf, Holds
  <1> QED
    BY <1>7, <1>8 DEF StagedOf

\* StagedInv is inductive: what comes into led_buffer is sent, or waits ahead of
\* the commit.
LEMMA StagedNext ==
  ASSUME OrderInv, StagedInv, [Next]_vars, ~stopped'
  PROVE  StagedInv'
  <1> SUFFICES ASSUME NEW p \in Answering
               PROVE  StagedOf(p)'
    BY DEF StagedInv
  <1> USE DEF OrderInv, QueueInv
  <1>1. p \in Ports /\ p \in Connected /\ SegmentsOf(p) \subseteq Segments
    BY PanelAssumption DEF Answering, SegmentsOf
  <1>2. CASE \E q \in Ports : Transfer(q)
    BY <1>2, StagedTransfer
  <1>3. CASE SwitchIfDone
    <2>1. staged' = staged /\ ledBuffer' = ledBuffer
      BY <1>3 DEF SwitchIfDone, panelVars, ledVars
    <2>2. CASE \A q \in turn : phase[q] # "Busy"
      <3>1. SwitchedAt(p)
        BY <1>1, <1>3, <2>2, SwitchCases DEF SwitchIfDone, TypeOK
      <3>2. phase[p] # "Busy"
        BY <1>1, <2>2 DEF BusInv, BusOf
      <3> QED
        BY <2>1, <3>1, <3>2, StagedSwitch
    <2>3. CASE ~\A q \in turn : phase[q] # "Busy"
      <3>1. UNCHANGED <<phase, current, queue, moved>>
        BY <1>3, <2>3 DEF SwitchIfDone, busVars, transferVars
      <3> QED
        BY <2>1, <3>1, StagedKept
    <2> QED
      BY <2>2, <2>3
  <1>4. CASE ProcessPort
    <2> DEFINE q == Visited[at]
    <2>1. /\ staged' = staged /\ ledBuffer' = ledBuffer
          /\ UNCHANGED <<current, queue, moved>>
      BY <1>4 DEF ProcessPort, panelVars, ledVars, Answered, TimedOut, Running, Resting,
         Respond, TimeOut, Finish, busVars, transferVars
    <2>2. \/ phase'[p] = phase[p]
          \/ phase'[p] = "Done" /\ moved[p] = 2
      <3>1. CASE Answered(q)
        BY <1>1, <3>1 DEF Answered, Over, Respond, Finish, TypeOK, BusTypes
      <3>2. CASE TimedOut(q)
        BY <1>1, <3>2 DEF TimedOut, TimeOut, Finish, Answering, TypeOK, BusTypes
      <3>3. CASE Running(q) \/ Resting(q)
        BY <3>3 DEF Running, Resting, busVars
      <3> QED
        BY <1>4, <3>1, <3>2, <3>3 DEF ProcessPort
    <2> QED
      BY <2>1, <2>2, StagedKept
  <1>5. CASE CommitFrame \/ PollSensors
    <2>1. PICK r \in LoopRequests : Send(r)
      BY <1>5, SendingSends
    <2>2. staged' = staged /\ ledBuffer' = ledBuffer
      BY <1>5 DEF CommitFrame, PollSensors, panelVars, ledVars
    <2>3. KeptAt(p) \/ StartedAt(p, r) \/ QueuedAt(p, r)
      BY <1>1, <2>1, SendCases DEF TypeOK
    <2> QED
      BY <2>2, <2>3, StagedSend
  <1>6. CASE ProcessPacket /\ havePacket
    <2> DEFINE n == packet.index
               r == Segment(n)
    <2>1. /\ staged' = staged /\ Send(r)
          /\ ledBuffer' = [ledBuffer EXCEPT ![n] = packet.frame]
      BY <1>6 DEF ProcessPacket, panelVars
    <2>2. n \in Segments /\ r \in LoopRequests /\ r.port = Packets[n].port
      BY DEF TypeOK, LoopTypes, LoopRequests, Segment
    <2>3. /\ KeptAt(p) \/ StartedAt(p, r) \/ QueuedAt(p, r)
          /\ p = r.port /\ KeptAt(p) => r \in Known(p)
      BY <1>1, <2>1, <2>2, SendCases DEF TypeOK
    <2>4. \A k \in Segments \ {n} : ledBuffer'[k] = ledBuffer[k]
      BY <2>1 DEF TypeOK, LoopTypes
    <2>5. CASE processed
      <3>1. ledBuffer[n] = packet.frame
        BY <2>2, <2>5 DEF FrameInv, PacketProcessed, Segments
      <3>2. ledBuffer'[n] = packet.frame
        BY <2>1, <2>2 DEF TypeOK, LoopTypes
      <3>3. \A k \in SegmentsOf(p) : ledBuffer'[k] = ledBuffer[k]
        BY <1>1, <2>4, <3>1, <3>2
      <3> QED
        BY <2>1, <2>2, <2>3, <3>3, StagedSend
    <2>6. CASE ~processed /\ n \in SegmentsOf(p)
      <3>1. r \notin Known(p) /\ ~Committing
        BY <1>6, <2>6 DEF KnownInv, Committing
      <3>2. StartedAt(p, r) \/ QueuedAt(p, r)
        BY <2>2, <2>3, <2>6, <3>1 DEF SegmentsOf
      <3>3. \A k \in SegmentsOf(p) \ {n} : ledBuffer'[k] = ledBuffer[k]
        BY <1>1, <2>4
      <3> QED
        BY <2>1, <2>6, <3>1, <3>2, <3>3, StagedFresh
    <2>7. CASE n \notin SegmentsOf(p)
      <3>1. \A k \in SegmentsOf(p) : ledBuffer'[k] = ledBuffer[k]
        BY <1>1, <2>4, <2>7
      <3> QED
        BY <2>1, <2>2, <2>3, <3>1, StagedSend
    <2> QED
      BY <2>5, <2>6, <2>7
  <1>7. CASE \/ TakeResponse \/ CopyHalf \/ ReportSensors \/ (ProcessPacket /\ ~havePacket)
             \/ PacketComes \/ NoPacketComes \/ UNCHANGED vars
    <2>1. UNCHANGED <<phase, current, queue, moved, staged, ledBuffer>>
      BY <1>7 DEF TakeResponse, Take, CopyHalf, ReportSensors, ProcessPacket, PacketComes,
         NoPacketComes, vars, busVars, transferVars, panelVars, ledVars
    <2> QED
      BY <2>1, StagedKept
  <1> QED
    BY <1>2, <1>3, <1>4, <1>5, <1>6, <1>7 DEF Next, LoopStep

\* A panel shows a frame when it has the whole of it.
LEMMA FramesShown ==
  ASSUME FramesDiffer, OrderInv, StagedInv, FramesAreWhole, [Next]_vars
  PROVE  FramesAreWhole'
  <1> USE DEF OrderInv, QueueInv
  <1>1. CASE \E q \in Ports : Transfer(q) /\ current[q] = Commit(q) /\ moved[q] + 1 = 2
    <2>1. PICK q \in Ports : Transfer(q) /\ current[q] = Commit(q) /\ moved[q] + 1 = 2
      BY <1>1
    <2>2. /\ shown' = [k \in Segments |-> IF k \in SegmentsOf(q) THEN staged[k] ELSE shown[k]]
          /\ phase[q] = "Busy"
      BY <2>1 DEF Transfer
    <2> SUFFICES ASSUME NEW p \in Answering
                 PROVE  \E f \in FrameNumbers \cup {NoFrame} :
                          \A k \in SegmentsOf(p) : shown'[k] = Whole(f)
      BY DEF FramesAreWhole
    <2>3. SegmentsOf(p) \subseteq Segments
      BY DEF SegmentsOf
    <2>4. CASE p = q
      <3>1. Runs(p, Commit(p))
        BY <2>1, <2>2, <2>4 DEF Runs
      <3>2. processed /\ packet.index = LastIndex
        BY <3>1 DEF KnownInv, Holds, Committing
      <3>3. \A k \in SegmentsOf(p) : ledBuffer[k] = packet.frame
        <4>1. \A k \in Segments : k <= packet.index
          BY <3>2, PacketsInTurn
        <4> QED
          BY <2>3, <3>2, <4>1 DEF FrameInv, PacketProcessed
      <3>4. \A k \in SegmentsOf(p) : staged[k] = Whole(packet.frame)
        BY <3>1, <3>3 DEF StagedInv, StagedOf, Sent
      <3>5. \A k \in SegmentsOf(p) : shown'[k] = Whole(packet.frame)
        BY <2>2, <2>3, <2>4, <3>4
      <3>6. packet.frame \in FrameNumbers
        BY DEF TypeOK, LoopTypes
      <3> QED
        BY <3>5, <3>6
    <2>5. CASE p # q
      <3>1. \A k \in SegmentsOf(p) : k \notin SegmentsOf(q)
        BY <2>5 DEF SegmentsOf
      <3>2. \A k \in SegmentsOf(p) : shown'[k] = shown[k]
        BY <2>2, <2>3, <3>1
      <3> QED
        BY <3>2 DEF FramesAreWhole
    <2> QED
      BY <2>4, <2>5
  <1>2. CASE ~\E q \in Ports : Transfer(q) /\ current[q] = Commit(q) /\ moved[q] + 1 = 2
    <2>1. shown' = shown
      BY <1>2 DEF Next, LoopStep, ProcessPort, SwitchIfDone, TakeResponse, CopyHalf,
         ReportSensors, CommitFrame, ProcessPacket, PollSensors, PacketComes,
         NoPacketComes, Transfer, vars, panelVars
    <2> QED
      BY <2>1 DEF FramesAreWhole
  <1> QED
    BY <1>1, <1>2

\* Nothing is sent and nothing is shown at first.
LEMMA StagedInit ==
  ASSUME Init
  PROVE  StagedInv /\ FramesAreWhole
  <1>1. \A k \in Segments : staged[k] = Whole(ledBuffer[k]) /\ shown[k] = Whole(NoFrame)
    BY DEF Init
  <1>2. \A p \in Answering : SegmentsOf(p) \subseteq Segments /\ p \in Ports
    BY PanelAssumption DEF Answering, SegmentsOf
  <1>3. \A p \in Ports : phase[p] = "Idle" /\ queue[p] = <<>>
    BY DEF Init, BusInit
  <1>4. StagedInv
    BY <1>1, <1>2, <1>3 DEF StagedInv, StagedOf, Sent, Runs
  <1>5. FramesAreWhole
    BY <1>1, <1>2 DEF FramesAreWhole
  <1> QED
    BY <1>4, <1>5

\* What a panel shows is one frame, whole (FramesAreWhole), if every packet finds
\* the ports settled, whatever the timing that makes it so: for any panels, silent
\* ones among them, any number of frames, and any interleaving of the DMA that
\* reads led_buffer with the loop that writes it (main.c:81-137;
\* msgbus.c:101-116; tusb_hid_impl.c).
THEOREM SettledPortsShowWholeFrames ==
  ASSUME FewSegments, FramesDiffer
  PROVE  Spec /\ PacketsFindPortsSettled => []FramesAreWhole
  <1> DEFINE Inv == OrderInv /\ StagedInv /\ FramesAreWhole
  <1>1. Init => Inv
    BY OrderInit, StagedInit
  <1>2. Inv /\ [Next]_vars /\ [packet' # packet => Settled]_vars => Inv'
    <2> SUFFICES ASSUME Inv, [Next]_vars, [packet' # packet => Settled]_vars
                 PROVE  Inv'
      OBVIOUS
    <2>1. packet' # packet => Settled
      BY DEF vars, usbVars
    <2>2. OrderInv'
      BY <2>1, OrderNext
    <2>3. StagedInv' /\ FramesAreWhole'
      BY <2>2, StagedNext, FramesShown DEF OrderInv, QueueInv
    <2> QED
      BY <2>2, <2>3
  <1>3. Inv => FramesAreWhole
    OBVIOUS
  <1> QED
    BY <1>1, <1>2, <1>3, PTL DEF Spec, PacketsFindPortsSettled

-----------------------------------------------------------------------------
(***************************************************************************)
(* How long it takes.                                                      *)
(***************************************************************************)

\* A turn outlasts the requests of its ports by a pass; both turns make a cycle.
LEMMA TurnLasts ==
  ASSUME NEW t \in Pairs
  PROVE  /\ TurnPasses(t) \in Nat /\ TurnPasses(t) > 0 /\ CyclePasses \in Nat
         /\ \A q \in t : Passes(q) + 1 <= TurnPasses(t)
         /\ TurnPasses(t) + TurnPasses(Ports \ t) = CyclePasses
         /\ TurnPasses(t) <= CyclePasses /\ TurnPasses(Ports \ t) \in Nat
  <1>1. AnswerPasses \in Nat /\ TimeoutPasses \in Nat
    BY PassAssumption
  <1>2. \A u : TurnPasses(u) \in Nat /\ TurnPasses(u) > 0
    BY <1>1 DEF TurnPasses
  <1>3. \A q \in t : Passes(q) + 1 <= TurnPasses(t)
    BY <1>1 DEF TurnPasses, Passes
  <1>4. TurnPasses(t) + TurnPasses(Ports \ t) = CyclePasses
    <2>1. CASE t = {"Left", "Up"}
      <3>1. Ports \ t = {"Right", "Down"}
        BY <2>1 DEF Ports, Pairs
      <3> QED
        BY <2>1, <3>1 DEF CyclePasses
    <2>2. CASE t = {"Right", "Down"}
      <3>1. Ports \ t = {"Left", "Up"}
        BY <2>2 DEF Ports, Pairs
      <3> QED
        BY <1>2, <2>2, <3>1 DEF CyclePasses
    <2> QED
      BY <2>1, <2>2 DEF Pairs
  <1> QED
    BY <1>2, <1>3, <1>4

\* A request waits for a cycle for each one ahead of it.
LEMMA Waits ==
  ASSUME turn \in Pairs, NEW p, NEW i \in Nat
  PROVE  /\ Wait(p, i) \in Nat
         /\ Wait(p, i + 1) = Wait(p, i) + CyclePasses
         /\ i <= 3 => Wait(p, i) <= TurnPasses(Ports \ turn) + 3 * CyclePasses
         /\ i <= 1 => Wait(p, i) <= TurnPasses(Ports \ turn) + CyclePasses
         /\ i = 0 => Wait(p, i) <= TurnPasses(Ports \ turn)
  <1>1. CyclePasses \in Nat /\ TurnPasses(Ports \ turn) \in Nat
    BY TurnLasts
  <1>2. ASSUME NEW c \in Nat
        PROVE  /\ i * c \in Nat /\ (i + 1) * c = i * c + c
               /\ i <= 3 => i * c <= 3 * c
               /\ i <= 1 => i * c <= c
               /\ i = 0 => i * c = 0
    <2>1. i * c \in Nat /\ (i + 1) * c = i * c + c
      OBVIOUS
    <2>2. i <= 3 => i = 0 \/ i = 1 \/ i = 2 \/ i = 3
      OBVIOUS
    <2>3. 0 * c = 0 /\ 1 * c = c /\ 2 * c = c + c /\ 3 * c = c + c + c
      OBVIOUS
    <2>4. i <= 3 => i * c <= 3 * c
      BY <2>2, <2>3
    <2>5. (i <= 1 => i * c <= c) /\ (i = 0 => i * c = 0)
      BY <2>3
    <2> QED
      BY <2>1, <2>4, <2>5
  <1>3. /\ i * CyclePasses \in Nat /\ (i + 1) * CyclePasses = i * CyclePasses + CyclePasses
        /\ i <= 3 => i * CyclePasses <= 3 * CyclePasses
        /\ i <= 1 => i * CyclePasses <= CyclePasses
        /\ i = 0 => i * CyclePasses = 0
    BY <1>1, <1>2
  <1>4. 3 * CyclePasses \in Nat
    BY <1>1
  <1> QED
    BY <1>1, <1>3, <1>4 DEF Wait

\* With the next state's turn.
LEMMA WaitsNext ==
  ASSUME turn' \in Pairs, NEW p, NEW i \in Nat
  PROVE  /\ Wait(p, i)' \in Nat
         /\ i <= 3 => Wait(p, i)' <= TurnPasses(Ports \ turn') + 3 * CyclePasses
         /\ i <= 1 => Wait(p, i)' <= TurnPasses(Ports \ turn') + CyclePasses
  <1>1. CyclePasses \in Nat /\ TurnPasses(Ports \ turn') \in Nat
    BY TurnLasts
  <1>2. i * CyclePasses \in Nat
    BY <1>1
  <1>3. /\ i <= 3 => i * CyclePasses <= 3 * CyclePasses
        /\ i <= 1 => i * CyclePasses <= CyclePasses
    <2>1. i <= 3 => i = 0 \/ i = 1 \/ i = 2 \/ i = 3
      OBVIOUS
    <2>2. /\ 0 * CyclePasses = 0 /\ 1 * CyclePasses = CyclePasses
          /\ 2 * CyclePasses = CyclePasses + CyclePasses
          /\ 3 * CyclePasses = CyclePasses + CyclePasses + CyclePasses
      BY <1>1
    <2> QED
      BY <1>1, <2>1, <2>2
  <1> QED
    BY <1>1, <1>2, <1>3 DEF Wait

\* A port that loses the turn, and one that gets it and starts what waits.
LEMMA WaitsOfSwitch ==
  ASSUME turn \in Pairs, turn' = Ports \ turn, NEW p \in Ports, NEW i \in Nat
  PROVE  /\ p \in turn => Wait(p, i) = Wait(p, i)' + TurnPasses(turn')
         /\ p \notin turn => Wait(p, i + 1) = Wait(p, i)' + TurnPasses(turn')
  <1>1. /\ TurnPasses(turn) \in Nat /\ TurnPasses(Ports \ turn) \in Nat
        /\ TurnPasses(turn) + TurnPasses(Ports \ turn) = CyclePasses
        /\ turn \subseteq Ports
    BY TurnLasts, TurnOfTwo
  <1>2. Ports \ (Ports \ turn) = turn
    BY <1>1
  <1>3. CyclePasses \in Nat
    BY <1>1
  <1>4. i * CyclePasses \in Nat /\ (i + 1) * CyclePasses = i * CyclePasses + CyclePasses
    <2>1. \A c \in Nat : i * c \in Nat /\ (i + 1) * c = i * c + c
      OBVIOUS
    <2> QED
      BY <1>3, <2>1
  <1>5. CASE p \in turn
    <2>1. Wait(p, i) = TurnPasses(Ports \ turn) + i * CyclePasses
      BY <1>5 DEF Wait
    <2>2. Wait(p, i)' = 0 + i * CyclePasses
      BY <1>5 DEF Wait
    <2> QED
      BY <1>1, <1>4, <1>5, <2>1, <2>2
  <1>6. CASE p \notin turn
    <2>1. Wait(p, i + 1) = 0 + (i + 1) * CyclePasses
      BY <1>6 DEF Wait
    <2>2. Wait(p, i)' = TurnPasses(turn) + i * CyclePasses
      BY <1>2, <1>6 DEF Wait
    <2> QED
      BY <1>1, <1>4, <1>6, <2>1, <2>2
  <1> QED
    BY <1>5, <1>6

\* A turn is over within the passes that it may last for.
LEMMA OverSoon ==
  ASSUME TypeOK', NEW n \in Nat, since' + TurnPasses(turn') + n <= PacketPasses
  PROVE  OverBefore(n)'
  <1>1. /\ turn' \in Pairs /\ turn' \subseteq Ports /\ since' \in Nat
        /\ \A q \in Ports : age'[q] \in Nat
    <2>1. turn' \in Pairs
      BY DEF TypeOK, BusTypes
    <2>2. turn' \subseteq Ports
      BY <2>1, TurnOfTwo
    <2>3. since' \in Nat
      BY PassesAreNat DEF TypeOK, LoopTypes
    <2>4. \A q \in Ports : age'[q] \in Nat
      BY DEF TypeOK, TransferTypes
    <2> QED
      BY <2>1, <2>2, <2>3, <2>4
  <1>2. /\ TurnPasses(turn') \in Nat /\ TurnPasses(turn') > 0
        /\ \A q \in turn' : Passes(q) + 1 <= TurnPasses(turn')
    BY <1>1, TurnLasts
  <1>3. PacketPasses \in Nat
    BY PassesAreNat
  <1>4. ASSUME NEW q \in turn'
        PROVE  Due(q)' + n <= PacketPasses
    <2>1. Passes(q) \in Nat /\ age'[q] \in Nat /\ Passes(q) + 1 <= TurnPasses(turn')
      BY <1>1, <1>2, PassesAreNat
    <2>2. Due(q)' <= since' + 1 + Passes(q) /\ Due(q)' \in Int
      BY <1>1, <2>1 DEF Due
    <2> QED
      BY <1>1, <1>2, <1>3, <2>1, <2>2
  <1>5. since' + (IF stage' \in {"begin", "bus", "switch"} THEN 0 ELSE 1) + n <= PacketPasses
    <2>1. \A s, t, m \in Nat : t > 0 /\ s + t + m <= PacketPasses =>
            s + 1 + m <= PacketPasses /\ s + 0 + m <= PacketPasses
      BY <1>3
    <2>2. since' + 1 + n <= PacketPasses /\ since' + 0 + n <= PacketPasses
      BY <1>1, <1>2, <2>1
    <2> QED
      BY <2>2
  <1> QED
    BY <1>4, <1>5 DEF OverBefore

\* The loop looks at a port.
LEMMA SeenNext ==
  ASSUME TypeOK, stage = "bus", NextPort("switch"), NEW q \in Ports
  PROVE  SeenInPass(q)' <=> SeenInPass(q) \/ q = Visited[at]
  <1>1. at \in 1..4 /\ Len(Visited) = 4
    BY VisitedOnce DEF TypeOK, LoopTypes
  <1>2. CASE at < 4
    <2>1. stage' = "bus" /\ at' = at + 1
      BY <1>1, <1>2 DEF NextPort
    <2>2. \A i \in 1..(at + 1)-1 : i \in 1..at-1 \/ i = at
      BY <1>1
    <2>3. at \in 1..(at + 1)-1 /\ \A i \in 1..at-1 : i \in 1..(at + 1)-1
      BY <1>1
    <2> QED
      BY <2>1, <2>2, <2>3 DEF SeenInPass
  <1>3. CASE ~(at < 4)
    <2>1. stage' = "switch" /\ at = 4
      BY <1>1, <1>3 DEF NextPort
    <2>2. PICK i \in 1..4 : Visited[i] = q
      BY EveryPortVisited
    <2>3. i \in 1..at-1 \/ i = at
      BY <2>1
    <2> QED
      BY <2>1, <2>2, <2>3 DEF SeenInPass
  <1> QED
    BY <1>2, <1>3

\* No connected port is free while the loop looks at the ports.
LEMMA NoneFree ==
  ASSUME FreeInv, stage \in {"bus", "switch", "usb"}, NEW p \in Connected
  PROVE  ~Free(p)
  BY DEF FreeInv

\* The types that the reckoning of time needs.
LEMMA DueTypes ==
  ASSUME TypeOK
  PROVE  /\ turn \subseteq Ports /\ turn \in Pairs /\ since \in Nat /\ PacketPasses \in Nat
         /\ \A q \in Ports : /\ Passes(q) \in Nat /\ age[q] \in Nat /\ age[q] <= Passes(q)
                             /\ Due(q) \in Nat
                             /\ phase[q] \in {"Idle", "Busy", "Done"}
  <1>1. /\ turn \in Pairs /\ since \in Nat /\ PacketPasses \in Nat
        /\ \A q \in Ports : phase[q] \in {"Idle", "Busy", "Done"}
    BY PassesAreNat DEF TypeOK, BusTypes, LoopTypes
  <1>2. turn \subseteq Ports
    BY <1>1, TurnOfTwo
  <1>3. ASSUME NEW q \in Ports
        PROVE  /\ Passes(q) \in Nat /\ age[q] \in Nat /\ age[q] <= Passes(q)
               /\ Due(q) \in Nat
    <2>1. Passes(q) \in Nat /\ age[q] \in Nat /\ age[q] <= Passes(q)
      BY PassesAreNat DEF TypeOK, TransferTypes
    <2>2. Passes(q) - age[q] \in Nat
      BY <2>1
    <2> QED
      BY <1>1, <2>1, <2>2 DEF Due
  <1> QED
    BY <1>1, <1>2, <1>3

\* No step puts the end of a turn off, but those that begin another or another
\* packet.
LEMMA OverStays ==
  ASSUME TypeOK, PlaceInv, FreeInv, [Next]_vars, ~PacketComes,
         ~(SwitchIfDone /\ \A q \in turn : phase[q] # "Busy"),
         NEW n \in Nat, OverBefore(n)
  PROVE  OverBefore(n)' /\ turn' = turn
  <1> USE DueTypes
  <1>1. CASE ProcessPort
    <2> DEFINE p == Visited[at]
    <2>1. /\ stage = "bus" /\ NextPort("switch") /\ since' = since
          /\ stage' \in {"bus", "switch"} /\ p \in Ports
      BY <1>1, VisitedOnce DEF ProcessPort, NextPort, usbVars, TypeOK, LoopTypes
    <2>2. turn' = turn
      BY <1>1 DEF ProcessPort, Answered, TimedOut, Running, Resting,
         Respond, TimeOut, Finish, busVars
    <2>3. ASSUME NEW q \in turn, Pending(q)'
          PROVE  Pending(q) /\ Due(q)' = Due(q)
      <3>1. q \in Ports
        OBVIOUS
      <3>2. CASE q # p
        <4>1. phase'[q] = phase[q] /\ age'[q] = age[q]
          BY <1>1, <2>1, <3>1, <3>2 DEF ProcessPort, Answered, TimedOut, Running, Resting,

             Respond, TimeOut, Finish, busVars, transferVars, TypeOK, BusTypes, TransferTypes
        <4>2. SeenInPass(q)' <=> SeenInPass(q)
          BY <2>1, <3>1, <3>2, SeenNext
        <4> QED
          BY <2>1, <2>3, <4>1, <4>2 DEF Pending, Due
      <3>3. CASE q = p
        <4>1. SeenInPass(q)' /\ ~SeenInPass(q)
          <5>1. SeenInPass(q)'
            BY <2>1, <3>1, <3>3, SeenNext
          <5>2. ASSUME NEW i \in 1..at-1
                PROVE  Visited[i] # q
            <6>1. at \in 1..4
              BY VisitedOnce DEF TypeOK, LoopTypes
            <6>2. i \in 1..4 /\ i # at
              BY <6>1
            <6> QED
              BY <3>3, <6>1, <6>2, VisitedOnce
          <5> QED
            BY <2>1, <5>1, <5>2 DEF SeenInPass
        <4>2. CASE Answered(p) \/ TimedOut(p)
          <5>1. phase'[q] = "Done"
            BY <2>1, <3>3, <4>2 DEF Answered, TimedOut,
               Respond, TimeOut, Finish, TypeOK, BusTypes
          <5> QED
            BY <2>3, <5>1 DEF Pending
        <4>3. CASE Running(p)
          <5>1. /\ phase[q] = "Busy" /\ phase'[q] = "Busy"
                /\ age'[q] = age[q] + 1
            BY <2>1, <3>3, <4>3 DEF Running, busVars, TypeOK, TransferTypes
          <5>2. Due(q)' = since + 1 + (Passes(q) - (age[q] + 1))
            BY <2>1, <4>1, <5>1 DEF Due
          <5>3. Due(q) = since + 0 + (Passes(q) - age[q])
            BY <4>1, <5>1 DEF Due
          <5> QED
            BY <3>1, <5>1, <5>2, <5>3 DEF Pending
        <4>4. CASE Resting(p)
          <5>1. phase'[q] = phase[q] /\ phase[q] # "Busy"
            BY <3>3, <4>4 DEF Resting, busVars
          <5>2. Free(q) /\ q \in Connected
            BY <2>3, <5>1 DEF Pending, Free
          <5> QED
            BY <2>1, <5>2, NoneFree
        <4> QED
          BY <1>1, <4>2, <4>3, <4>4 DEF ProcessPort
      <3> QED
        BY <3>2, <3>3
    <2> QED
      BY <2>1, <2>2, <2>3 DEF OverBefore
  <1>2. CASE SwitchIfDone
    <2>1. /\ UNCHANGED <<phase, turn, age, since>> /\ stage = "switch" /\ stage' = "take"
      BY <1>2 DEF SwitchIfDone, busVars, transferVars, usbVars
    <2>2. PICK q \in turn : phase[q] = "Busy"
      BY <1>2
    <2>3. \A s \in turn : (Pending(s)' => Pending(s)) /\ Due(s)' = Due(s)
      BY <2>1 DEF Pending, Due, SeenInPass
    <2>4. since + 1 + n <= PacketPasses
      <3>1. Due(q) + n <= PacketPasses
        BY <2>2 DEF OverBefore, Pending
      <3>2. Due(q) = since + 1 + (Passes(q) - age[q])
        BY <2>1, <2>2 DEF Due, SeenInPass
      <3>3. Passes(q) \in Nat /\ age[q] \in Nat /\ age[q] <= Passes(q) /\ since \in Nat
        BY <2>2
      <3> QED
        BY <3>1, <3>2, <3>3
    <2> QED
      BY <2>1, <2>3, <2>4 DEF OverBefore
  <1>3. CASE CommitFrame \/ ProcessPacket \/ PollSensors
    <2>1. /\ since' = since /\ turn' = turn
          /\ \A q \in Ports :
               \/ phase'[q] = phase[q] /\ age'[q] = age[q]
               \/ /\ Free(q) /\ q \in Connected
                  /\ phase'[q] = "Busy" /\ age'[q] = 0
      <3>1. since' = since
        BY <1>3 DEF CommitFrame, ProcessPacket, PollSensors, usbVars
      <3>2. CASE UNCHANGED <<busVars, transferVars>>
        <4>1. turn' = turn /\ phase' = phase /\ age' = age
          BY <3>2 DEF busVars, transferVars
        <4> QED
          BY <3>1, <4>1
      <3>3. CASE \E r \in LoopRequests : Send(r)
        <4>1. PICK r \in LoopRequests : Send(r)
          BY <3>3
        <4>2. turn' = turn /\ \A q \in Ports : Continues(q) \/ Starts(q, r)
          BY <4>1, SendEffect DEF TypeOK
        <4>3. ASSUME NEW q \in Ports, Starts(q, r), ~Continues(q)
              PROVE  q \in Connected
          BY <4>1, <4>3 DEF Starts, Continues, Send, Start, Enqueue, Ignore, Overflow,
             Stop, busVars, transferVars
        <4>4. ASSUME NEW q \in Ports
              PROVE  \/ phase'[q] = phase[q] /\ age'[q] = age[q]
                     \/ /\ Free(q) /\ q \in Connected
                        /\ phase'[q] = "Busy" /\ age'[q] = 0
          <5>1. CASE Continues(q)
            BY <5>1 DEF Continues
          <5>2. CASE Starts(q, r) /\ ~Continues(q)
            <6>1. q \in Connected
              BY <4>3, <5>2
            <6> QED
              BY <5>2, <6>1 DEF Starts
          <5> QED
            BY <4>2, <5>1, <5>2
        <4> QED
          BY <3>1, <4>2, <4>4
      <3> QED
        BY <1>3, <3>2, <3>3, LoopSends
    <2>2. /\ stage \in {"begin", "sensors", "commit", "packet"}
          /\ IF stage = "begin" THEN stage' = "begin" \/ (stage' = "bus" /\ at' = 1)
                                ELSE stage' \in {"sensors", "commit", "packet", "usb"}
      BY <1>3 DEF CommitFrame, ProcessPacket, PollSensors, NextPort
    <2>3. \A q \in Ports : SeenInPass(q)' <=> SeenInPass(q)
      BY <2>2 DEF SeenInPass
    <2>4. ASSUME NEW q \in turn, Pending(q)'
          PROVE  Pending(q) /\ Due(q)' = Due(q)
      <3>1. q \in Ports
        OBVIOUS
      <3>2. CASE phase'[q] = phase[q] /\ age'[q] = age[q]
        BY <2>1, <2>3, <2>4, <3>1, <3>2 DEF Pending, Due
      <3>3. CASE Free(q) /\ phase'[q] = "Busy" /\ age'[q] = 0 /\ q \in Connected
        <4>1. Pending(q)
          BY <3>3 DEF Pending, Free
        <4>2. Due(q)' = since + (IF SeenInPass(q) THEN 1 ELSE 0) + (Passes(q) - 0)
          BY <2>1, <2>3, <3>1, <3>3 DEF Due
        <4>3. Due(q) = since + (IF SeenInPass(q) THEN 1 ELSE 0) + Passes(q)
          BY <3>3 DEF Due, Free
        <4>4. Passes(q) - 0 = Passes(q)
          BY <3>1
        <4> QED
          BY <4>1, <4>2, <4>3, <4>4
      <3> QED
        BY <2>1, <3>1, <3>2, <3>3
    <2> QED
      BY <2>1, <2>2, <2>4 DEF OverBefore
  <1>4. CASE NoPacketComes
    <2>1. /\ stage = "usb" /\ stage' = "bus" /\ at' = 1
          /\ UNCHANGED <<phase, turn, age>>
          /\ since' = IF since < PacketPasses THEN since + 1 ELSE since
      BY <1>4 DEF NoPacketComes, busVars, transferVars, PlaceInv
    <2>2. since + 1 + n <= PacketPasses
      BY <2>1 DEF OverBefore
    <2>3. since' = since + 1
      BY <2>1, <2>2
    <2>4. \A q \in turn : (Pending(q)' => Pending(q)) /\ Due(q)' = Due(q)
      <3> TAKE q \in turn
      <3>1. SeenInPass(q) /\ ~SeenInPass(q)'
        BY <2>1 DEF SeenInPass
      <3>2. since + 1 = since' + 0
        BY <2>3
      <3> QED
        BY <2>1, <3>1, <3>2 DEF Pending, Due
    <2>5. since' + 0 + n <= PacketPasses
      BY <2>2, <2>3
    <2> QED
      BY <2>1, <2>4, <2>5 DEF OverBefore
  <1>5. CASE \/ TakeResponse \/ CopyHalf \/ ReportSensors
             \/ (\E p \in Ports : Transfer(p)) \/ UNCHANGED vars
    <2>1. UNCHANGED <<phase, turn, age, since>>
      BY <1>5 DEF TakeResponse, Take, CopyHalf, ReportSensors, Transfer, vars, busVars,
         transferVars, usbVars
    <2>2. \/ stage' = stage /\ at' = at
          \/ /\ stage \in {"take", "copy", "report"}
             /\ stage' \in {"copy", "report", "commit", "packet"}
      BY <1>5 DEF TakeResponse, CopyHalf, ReportSensors, Transfer, vars, loopVars
    <2>3. \A q \in turn : (Pending(q)' => Pending(q)) /\ Due(q)' = Due(q)
      BY <2>1, <2>2 DEF Pending, Due, SeenInPass
    <2> QED
      BY <2>1, <2>2, <2>3 DEF OverBefore
  <1> QED
    BY <1>1, <1>2, <1>3, <1>4, <1>5 DEF Next, LoopStep

\* A connected port is sent a request for its sensors soon after its turn begins.
LEMMA FreeNext ==
  ASSUME TypeOK, BusInv, PlaceInv, FreeInv, [Next]_vars, ~stopped'
  PROVE  FreeInv'
  <1> SUFFICES ASSUME NEW p \in Connected, Free(p)'
               PROVE  \/ stage' \in {"take", "copy", "report", "commit", "packet"}
                      \/ stage' \in {"begin", "sensors"} /\ \E i \in at'..4 : Visited[i] = p
    BY DEF FreeInv
  <1>1. p \in Ports
    BY PanelAssumption
  <1>2. CASE PollSensors
    <2> DEFINE q == Visited[at]
               r == Sensors(q)
    <2>1. q \in Ports /\ r \in LoopRequests /\ r.port = q
      BY VisitedOnce DEF TypeOK, LoopTypes, LoopRequests, Sensors
    <2>2. /\ turn' = turn /\ (KeptAt(p) \/ StartedAt(p, r) \/ QueuedAt(p, r))
          /\ p = q /\ KeptAt(p) => ~Free(p)
      BY <1>1, <1>2, <2>1, SendCases DEF PollSensors, TypeOK
    <2>3. Free(p) /\ p # q
      BY <2>1, <2>2 DEF KeptAt, StartedAt, QueuedAt, Continues, Starts, Free
    <2>4. PICK i \in at..4 : Visited[i] = p
      BY <1>2, <2>3 DEF FreeInv, PollSensors
    <2>5. at \in 1..4 /\ i # at
      BY <2>3, <2>4, VisitedOnce DEF TypeOK, LoopTypes
    <2>6. at' = at + 1 /\ stage' = stage /\ i \in at + 1..4
      BY <1>2, <2>5, VisitedOnce DEF PollSensors, NextPort
    <2> QED
      BY <1>2, <2>4, <2>6 DEF PollSensors
  <1>3. CASE ProcessPacket
    <2>1. stage' = "sensors" /\ at' = 1
      BY <1>3 DEF ProcessPacket, PlaceInv
    <2> QED
      BY <1>1, <2>1, EveryPortVisited
  <1>4. CASE SwitchIfDone \/ TakeResponse \/ CopyHalf \/ ReportSensors \/ CommitFrame
    BY <1>4 DEF SwitchIfDone, TakeResponse, CopyHalf, ReportSensors, CommitFrame, NextPort
  <1>5. CASE ProcessPort \/ PacketComes \/ NoPacketComes
    <2>1. Free(p)
      BY <1>1, <1>5 DEF ProcessPort, Answered, TimedOut, Running, Resting,
         Respond, TimeOut, Finish,
         PacketComes, NoPacketComes, busVars, Free, TypeOK, BusTypes
    <2> QED
      BY <1>5, <2>1, NoneFree DEF ProcessPort, PacketComes, NoPacketComes
  <1>6. CASE (\E q \in Ports : Transfer(q)) \/ UNCHANGED vars
    BY <1>6 DEF Transfer, vars, busVars, loopVars, FreeInv, Free
  <1> QED
    BY <1>2, <1>3, <1>4, <1>5, <1>6 DEF Next, LoopStep

\* A packet is processed, and a complete frame committed, in the next pass.
LEMMA PaceNext ==
  ASSUME SlowHost, FramesDiffer, TypeOK, FrameInv, PaceInv, [Next]_vars
  PROVE  PaceInv'
  <1>1. PacketPasses \in Nat /\ PacketPasses > 0 /\ since \in Nat
    <2>1. CyclePasses \in Nat
      BY TurnLasts DEF TypeOK, BusTypes
    <2> QED
      BY <2>1, DueTypes DEF SlowHost
  <1>2. CASE PacketComes
    <2>1. since' = 0 /\ stage' = "bus" /\ stage = "usb" /\ since >= PacketPasses
          /\ received' = received
      BY <1>2 DEF PacketComes, ledVars
    <2>2. ~Complete'
      BY <1>1, <2>1 DEF PaceInv, Complete
    <2> QED
      BY <2>1, <2>2 DEF PaceInv
  <1>3. CASE NoPacketComes
    <2>1. /\ stage = "usb" /\ stage' = "bus" /\ received' = received
          /\ havePacket' = havePacket /\ processed' = processed
          /\ since' = IF since < PacketPasses THEN since + 1 ELSE since
      BY <1>3 DEF NoPacketComes, ledVars
    <2>2. ~(havePacket /\ ~processed)
      BY <2>1 DEF FrameInv, PacketWaits
    <2>3. Complete => since = 0 /\ since' = 1
      BY <1>1, <2>1 DEF PaceInv
    <2> QED
      BY <2>1, <2>2, <2>3 DEF PaceInv, Complete
  <1>4. CASE ProcessPacket /\ havePacket
    <2>1. /\ stage = "packet" /\ stage' = "sensors" /\ since' = since /\ processed'
          /\ packet' = packet /\ havePacket' = havePacket
          /\ received' = ReceivedOfFrame \cup {packet.index}
      BY <1>4 DEF ProcessPacket
    <2>2. CASE ~processed
      <3>1. since' = 0
        BY <1>4, <2>1, <2>2 DEF PaceInv
      <3> QED
        BY <2>1, <3>1 DEF PaceInv
    <2>3. CASE processed
      <3>1. /\ received' = received \cup {packet.index}
            /\ received = 1..packet.index \/ Committing
        BY <2>1, <2>3 DEF FrameInv, PacketProcessed, ReceivedOfFrame
      <3>2. CASE received = 1..packet.index
        <4>1. received' = received
          BY <3>1, <3>2, PacketsInTurn
        <4>2. ~Complete
          BY <2>1 DEF PaceInv
        <4> QED
          BY <2>1, <2>3, <4>1, <4>2 DEF PaceInv, Complete
      <3>3. CASE Committing
        <4>1. received' \subseteq {LastIndex}
          BY <3>1, <3>3 DEF Committing
        <4>2. 1 \in Segments /\ LastIndex # 1
          BY PacketsInTurn
        <4>3. ~Complete'
          BY <4>1, <4>2 DEF Complete
        <4> QED
          BY <2>1, <4>3 DEF PaceInv
      <3> QED
        BY <3>1, <3>2, <3>3
    <2> QED
      BY <2>2, <2>3
  <1>5. CASE ReportSensors
    <2>1. Segments # {}
      BY PacketsInTurn
    <2> QED
      BY <1>5, <2>1 DEF ReportSensors, PaceInv, Complete, usbVars
  <1>6. CASE \/ ProcessPort \/ SwitchIfDone \/ TakeResponse \/ CopyHalf \/ CommitFrame
             \/ PollSensors \/ (ProcessPacket /\ ~havePacket)
             \/ (\E p \in Ports : Transfer(p)) \/ UNCHANGED vars
    <2>1. /\ since' = since /\ received' = received
          /\ havePacket' = havePacket /\ processed' = processed
      BY <1>6 DEF ProcessPort, SwitchIfDone, TakeResponse, CopyHalf, CommitFrame,
         PollSensors, ProcessPacket, Transfer, vars, usbVars, ledVars
    <2>2. \/ stage' = stage
          \/ stage \in {"bus", "switch", "take", "copy"}
             /\ stage' \in {"switch", "take", "copy", "report"}
          \/ stage \in {"commit", "begin"} /\ stage' # "commit"
          \/ stage = "sensors" /\ stage' = "usb"
          \/ stage = "packet" /\ stage' = "sensors" /\ ~havePacket
      BY <1>6 DEF ProcessPort, SwitchIfDone, TakeResponse, CopyHalf, CommitFrame,
         PollSensors, ProcessPacket, Transfer, vars, loopVars, NextPort
    <2>3. stage \in {"commit", "begin", "packet"} => ~Complete
      BY DEF PaceInv
    <2> QED
      BY <2>1, <2>2, <2>3 DEF PaceInv, Complete
  <1> QED
    BY <1>2, <1>3, <1>4, <1>5, <1>6 DEF Next, LoopStep

\* The requests that a port knows differ, so that few wait when few are known.
LEMMA KnownAreFew ==
  ASSUME TypeOK, BusInv, NEW p \in Ports, NEW a, NEW b, NEW c, Known(p) \subseteq {a, b, c}
  PROVE  /\ Len(queue[p]) \in Nat /\ Len(queue[p]) <= 2
         /\ Known(p) \subseteq {a, b} => Len(queue[p]) <= 1
  <1> DEFINE s == queue[p]
             n == Len(queue[p])
  <1>1. n \in Nat /\ NoRepetition(s) /\ current[p] \notin Queued(p)
    BY DEF TypeOK, BusTypes, BusInv, BusOf
  <1>2. current[p] \in Known(p) /\ \A i \in 1..n : s[i] \in Known(p) /\ s[i] # current[p]
    BY <1>1 DEF Known, Queued
  <1>3. \A i, j \in 1..n : i # j => s[i] # s[j]
    BY <1>1 DEF NoRepetition
  <1>4. n <= 2
    <2> SUFFICES ASSUME n > 2 PROVE FALSE
      BY <1>1
    <2>1. 1 \in 1..n /\ 2 \in 1..n /\ 3 \in 1..n
      BY <1>1
    <2>2. s[1] # s[2] /\ s[1] # s[3] /\ s[2] # s[3]
      BY <1>3, <2>1
    <2>3. {current[p], s[1], s[2], s[3]} \subseteq {a, b, c}
      BY <1>2, <2>1
    <2> QED
      BY <1>2, <2>1, <2>2, <2>3
  <1>5. Known(p) \subseteq {a, b} => n <= 1
    <2> SUFFICES ASSUME Known(p) \subseteq {a, b}, n > 1 PROVE FALSE
      BY <1>1
    <2>1. 1 \in 1..n /\ 2 \in 1..n
      BY <1>1
    <2>2. s[1] # s[2]
      BY <1>3, <2>1
    <2>3. {current[p], s[1], s[2]} \subseteq {a, b}
      BY <1>2, <2>1
    <2> QED
      BY <1>2, <2>1, <2>2, <2>3
  <1> QED
    BY <1>1, <1>4, <1>5

\* What a port knows are the requests at its positions.
LEMMA KnownAtPositions ==
  ASSUME TypeOK, NEW p \in Ports, NEW r \in Known(p)
  PROVE  \E i \in 0..Len(queue[p]) : KnownAt(p, i) = r
  <1>1. Len(queue[p]) \in Nat
    BY DEF TypeOK, BusTypes
  <1>2. CASE r = current[p]
    BY <1>1, <1>2 DEF KnownAt
  <1>3. CASE r \in Queued(p)
    <2>1. PICK i \in 1..Len(queue[p]) : queue[p][i] = r
      BY <1>3 DEF Queued
    <2> QED
      BY <1>1, <2>1 DEF KnownAt
  <1> QED
    BY <1>2, <1>3 DEF Known

\* When the host's next packet may come, all is over.
LEMMA PortsSettle ==
  ASSUME SlowHost, FramesDiffer, OrderInv, TimeInv, PacketComes
  PROVE  Settled
  <1> USE DEF OrderInv, QueueInv, TimeInv
  <1>1. stage = "usb" /\ since >= PacketPasses
    BY DEF PacketComes
  <1>2. since \in Nat /\ PacketPasses \in Nat /\ PacketPasses > 0 /\ turn \in Pairs
    <2>1. CyclePasses \in Nat /\ turn \in Pairs
      BY TurnLasts DEF TypeOK, BusTypes
    <2> QED
      BY <2>1, DueTypes DEF SlowHost
  <1>3. ~Complete
    BY <1>1, <1>2 DEF PaceInv
  <1>4. ASSUME NEW p \in Answering, NEW r \in Known(p)
        PROVE  ~Stale(p, r)
    <2>1. p \in Ports /\ p \in Connected
      BY PanelAssumption DEF Answering
    <2>2. PICK i \in 0..Len(queue[p]) : KnownAt(p, i) = r
      BY <2>1, KnownAtPositions
    <2>3. ~Free(p)
      BY <1>1, <2>1, NoneFree
    <2>4. ~OverBefore(Wait(p, i))
      <3>1. i \in Nat
        OBVIOUS
      <3>2. Wait(p, i) \in Nat
        BY <1>2, <3>1, Waits
      <3>3. ~(since + 1 + Wait(p, i) <= PacketPasses)
        BY <1>1, <1>2, <3>2
      <3> QED
        BY <1>1, <3>3 DEF OverBefore
    <2> QED
      BY <2>2, <2>3, <2>4 DEF StaleInv
  <1> QED
    BY <1>3, <1>4 DEF Settled, Stale

\* A request that stays where it is in a turn that goes on.
LEMMA StaleStays ==
  ASSUME TypeOK, StaleInv, NEW p \in Answering, NEW i \in 0..Len(queue[p]),
         KnownAt(p, i)' = KnownAt(p, i), packet' = packet, turn' = turn,
         Stale(p, KnownAt(p, i))', ~(i = 0 /\ Free(p)),
         \A n \in Nat : OverBefore(n) => OverBefore(n)'
  PROVE  OverBefore(Wait(p, i))'
  <1>1. OverBefore(Wait(p, i))
    BY DEF StaleInv, Stale
  <1>2. Wait(p, i) \in Nat
    BY Waits DEF TypeOK, BusTypes
  <1>3. PICK n \in Nat : n = Wait(p, i)
    BY <1>2
  <1>4. OverBefore(n)
    BY <1>1, <1>3
  <1>5. OverBefore(n)'
    BY <1>4
  <1>6. Wait(p, i)' = n
    BY <1>3 DEF Wait
  <1> QED
    BY <1>5, <1>6 DEF OverBefore

\* A request in a turn that begins, or that is itself new.
LEMMA StaleBegins ==
  ASSUME TypeOK', NEW p \in Ports, NEW i \in Nat,
         since' + TurnPasses(turn') + Wait(p, i)' <= PacketPasses
  PROVE  OverBefore(Wait(p, i))'
  <1>1. Wait(p, i)' \in Nat
    BY WaitsNext DEF TypeOK, BusTypes
  <1>2. PICK n \in Nat : n = Wait(p, i)'
    BY <1>1
  <1>3. OverBefore(n)'
    BY <1>2, OverSoon
  <1> QED
    BY <1>2, <1>3 DEF OverBefore

\* Of what is sent only a commit is not sent again by the next pass.
LEMMA OnlyCommitsGoStale ==
  ASSUME TypeOK, PaceInv, NEW p \in Ports, NEW r, Sending(r), r.port = p, Stale(p, r)
  PROVE  r = Commit(p) /\ CommitFrame /\ Committing /\ since = 1 /\ since' = since
  <1>1. Visited[at] \in Ports
    BY VisitedOnce DEF TypeOK, LoopTypes
  <1>2. \A q \in Ports : Sensors(q).port = q /\ Commit(q).port = q
    BY DEF Sensors, Commit
  <1>3. CommitFrame /\ Committing /\ r = Commit(p)
    BY <1>1, <1>2 DEF Sending, Stale
  <1> QED
    BY <1>3 DEF CommitFrame, PaceInv, usbVars

\* A commit that is sent is over in time, behind a last segment and a request for
\* sensors.
LEMMA CommitsInTime ==
  ASSUME SlowHost, TypeOK', since' = 1, NEW p \in Ports, NEW i \in 0..3
  PROVE  OverBefore(Wait(p, i))'
  <1>1. turn' \in Pairs
    BY DEF TypeOK, BusTypes
  <1>2. /\ Wait(p, i)' \in Nat
        /\ Wait(p, i)' <= TurnPasses(Ports \ turn') + 3 * CyclePasses
    <2>1. i \in Nat /\ i <= 3
      OBVIOUS
    <2> QED
      BY <1>1, <2>1, WaitsNext
  <1>3. /\ TurnPasses(turn') \in Nat /\ TurnPasses(Ports \ turn') \in Nat /\ CyclePasses \in Nat
        /\ TurnPasses(turn') + TurnPasses(Ports \ turn') = CyclePasses
    BY <1>1, TurnLasts
  <1>4. PacketPasses \in Nat /\ PacketPasses >= 4 * CyclePasses + 1
    BY PassesAreNat DEF SlowHost
  <1>5. since' + TurnPasses(turn') + Wait(p, i)' <= PacketPasses
    <2>1. \A t, u, c, w \in Nat : t + u = c /\ w <= u + 3 * c /\ PacketPasses >= 4 * c + 1
                                    => 1 + t + w <= PacketPasses
      BY <1>4
    <2> QED
      BY <1>2, <1>3, <1>4, <2>1
  <1> QED
    BY <1>5, StaleBegins

\* StaleInv is inductive: a commit is sent early enough.
LEMMA StaleNext ==
  ASSUME SlowHost, FramesDiffer, OrderInv, TimeInv, [Next]_vars, TypeOK', ~stopped'
  PROVE  StaleInv'
  <1> SUFFICES ASSUME NEW p \in Answering, NEW i \in 0..Len(queue'[p]),
                      Stale(p, KnownAt(p, i))', ~(i = 0 /\ Free(p)')
               PROVE  OverBefore(Wait(p, i))'
    BY DEF StaleInv
  <1> USE DEF OrderInv, QueueInv, TimeInv
  <1>1. p \in Ports /\ p \in Connected
    BY PanelAssumption DEF Answering
  <1>2. /\ turn' \in Pairs /\ turn \in Pairs /\ since \in Nat /\ PacketPasses \in Nat
        /\ queue[p] \in Seq(LoopRequests) /\ Len(queue'[p]) \in Nat
    BY <1>1, DueTypes DEF TypeOK, BusTypes
  <1>3. CASE PacketComes
    <2>1. /\ Known(p) \subseteq {Sensors(p), Segment(packet.index)}
          /\ queue' = queue /\ since' = 0
      BY <1>3, PortsSettle DEF Settled, PacketComes, busVars
    <2>2. Len(queue[p]) <= 1
      BY <1>1, <2>1, KnownAreFew
    <2>3. i \in Nat /\ i <= 1
      BY <1>2, <2>1, <2>2
    <2>4. /\ Wait(p, i)' \in Nat
          /\ Wait(p, i)' <= TurnPasses(Ports \ turn') + CyclePasses
      BY <1>2, <2>3, WaitsNext
    <2>5. /\ TurnPasses(turn') \in Nat /\ TurnPasses(Ports \ turn') \in Nat /\ CyclePasses \in Nat
          /\ TurnPasses(turn') + TurnPasses(Ports \ turn') = CyclePasses
      BY <1>2, TurnLasts
    <2>6. since' + TurnPasses(turn') + Wait(p, i)' <= PacketPasses
      <3>1. \A t, u, c, w \in Nat : t + u = c /\ w <= u + c /\ PacketPasses >= 4 * c + 1
                                      => 0 + t + w <= PacketPasses
        BY <1>2
      <3>2. PacketPasses >= 4 * CyclePasses + 1
        BY DEF SlowHost
      <3> QED
        BY <2>1, <2>4, <2>5, <3>1, <3>2
    <2> QED
      BY <1>1, <2>3, <2>6, StaleBegins
  <1>4. CASE SwitchIfDone /\ \A q \in turn : phase[q] # "Busy"
    <2>1. /\ SwitchedAt(p) /\ turn' = Ports \ turn
          /\ stage = "switch" /\ since' = since /\ packet' = packet
      BY <1>1, <1>4, SwitchCases DEF SwitchIfDone, Switch, usbVars, TypeOK
    <2>2. i \in Nat /\ Wait(p, i)' \in Nat /\ TurnPasses(turn') \in Nat
      <3>1. i \in Nat
        BY <1>2
      <3>2. Wait(p, i)' \in Nat
        BY <1>2, <3>1, WaitsNext
      <3>3. TurnPasses(turn') \in Nat
        BY <1>2, TurnLasts
      <3> QED
        BY <3>1, <3>2, <3>3
    <2>3. CASE p \in turn
      <3>1. current'[p] = current[p] /\ queue'[p] = queue[p]
        BY <2>1, <2>3 DEF SwitchedAt
      <3>2. KnownAt(p, i)' = KnownAt(p, i)
        BY <3>1 DEF KnownAt
      <3>3. i \in 0..Len(queue[p]) /\ Stale(p, KnownAt(p, i)) /\ ~Free(p)
        BY <1>1, <2>1, <3>1, <3>2, NoneFree DEF Stale
      <3>4. since + 0 + Wait(p, i) <= PacketPasses
        BY <2>1, <3>3 DEF StaleInv, OverBefore
      <3>5. Wait(p, i) = Wait(p, i)' + TurnPasses(turn')
        BY <1>1, <1>2, <2>1, <2>2, <2>3, WaitsOfSwitch
      <3>6. since' + TurnPasses(turn') + Wait(p, i)' <= PacketPasses
        BY <1>2, <2>1, <2>2, <3>4, <3>5
      <3> QED
        BY <1>1, <2>2, <3>6, StaleBegins
    <2>4. CASE p \notin turn /\ queue[p] # <<>>
      <3>1. current'[p] = Head(queue[p]) /\ queue'[p] = Tail(queue[p])
        BY <2>1, <2>4 DEF SwitchedAt
      <3>2. /\ Head(queue[p]) = queue[p][1] /\ Len(queue[p]) \in Nat /\ Len(queue[p]) > 0
            /\ Len(Tail(queue[p])) = Len(queue[p]) - 1
            /\ \A j \in 1..Len(Tail(queue[p])) : Tail(queue[p])[j] = queue[p][j + 1]
        BY <1>2, <2>4, HeadAndTail
      <3>3. i + 1 \in 0..Len(queue[p]) /\ i + 1 # 0 /\ i + 1 \in Nat
        BY <2>2, <3>1, <3>2
      <3>4. KnownAt(p, i)' = KnownAt(p, i + 1)
        <4>1. KnownAt(p, i + 1) = queue[p][i + 1]
          BY <3>3 DEF KnownAt
        <4>2. CASE i = 0
          BY <3>1, <3>2, <4>1, <4>2 DEF KnownAt
        <4>3. CASE i # 0
          <5>1. i \in 1..Len(Tail(queue[p]))
            BY <2>2, <3>1, <4>3
          <5> QED
            BY <3>1, <3>2, <4>1, <4>3, <5>1 DEF KnownAt
        <4> QED
          BY <4>2, <4>3
      <3>5. Stale(p, KnownAt(p, i + 1))
        BY <2>1, <3>4 DEF Stale
      <3>6. OverBefore(Wait(p, i + 1))
        BY <3>3, <3>5 DEF StaleInv
      <3>7. since + 0 + Wait(p, i + 1) <= PacketPasses
        BY <2>1, <3>6 DEF OverBefore
      <3>8. Wait(p, i + 1) = Wait(p, i)' + TurnPasses(turn')
        BY <1>1, <1>2, <2>1, <2>2, <2>4, WaitsOfSwitch
      <3>9. since' + TurnPasses(turn') + Wait(p, i)' <= PacketPasses
        BY <1>2, <2>1, <2>2, <3>7, <3>8
      <3> QED
        BY <1>1, <2>2, <3>9, StaleBegins
    <2>5. CASE p \notin turn /\ queue[p] = <<>>
      <3>1. phase'[p] = "Idle" /\ p \in turn' /\ queue'[p] = <<>>
        BY <1>1, <2>1, <2>5 DEF SwitchedAt
      <3>2. i = 0 /\ Free(p)'
        BY <3>1 DEF Free
      <3> QED
        BY <3>2
    <2> QED
      BY <2>3, <2>4, <2>5
  <1>5. CASE ~PacketComes /\ ~(SwitchIfDone /\ \A q \in turn : phase[q] # "Busy")
    <2>1. /\ \A n \in Nat : OverBefore(n) => OverBefore(n)'
          /\ turn' = turn /\ packet' = packet
      <3>1. \A n \in Nat : OverBefore(n) => OverBefore(n)'
        BY <1>5, OverStays
      <3>2. turn' = turn
        BY <1>5 DEF Next, LoopStep, ProcessPort, Answered, TimedOut, Running, Resting,

           Respond, TimeOut, Finish, SwitchIfDone, TakeResponse, Take, CopyHalf, ReportSensors, CommitFrame,
           SendCommit, ProcessPacket, PollSensors, NoPacketComes, Transfer, Send, Start,
           Enqueue, Ignore, Overflow, Stop, vars, busVars
      <3>3. packet' = packet
        BY <1>5, PacketSteps
      <3> QED
        BY <3>1, <3>2, <3>3
    <2>2. CASE CommitFrame \/ PollSensors \/ (ProcessPacket /\ havePacket)
      <3>1. PICK r \in LoopRequests : Send(r) /\ Sending(r)
        BY <2>2, SendingSends
      <3>2. KeptAt(p) \/ StartedAt(p, r) \/ QueuedAt(p, r)
        BY <1>1, <3>1, SendCases DEF TypeOK
      <3>3. CASE KeptAt(p)
        <4>1. /\ i \in 0..Len(queue[p]) /\ KnownAt(p, i)' = KnownAt(p, i)
              /\ Free(p)' <=> Free(p)
          BY <2>1, <3>3 DEF KeptAt, Continues, KnownAt, Free
        <4> QED
          BY <2>1, <4>1, StaleStays
      <3>4. CASE StartedAt(p, r)
        <4>1. i = 0 /\ KnownAt(p, i)' = r /\ r.port = p
          BY <3>4 DEF StartedAt, Starts, KnownAt
        <4>2. Stale(p, r)
          BY <2>1, <4>1 DEF Stale
        <4>3. since' = 1
          BY <1>1, <3>1, <4>1, <4>2, OnlyCommitsGoStale
        <4> QED
          BY <1>1, <4>1, <4>3, CommitsInTime
      <3>5. CASE QueuedAt(p, r)
        <4>1. /\ Len(queue'[p]) = Len(queue[p]) + 1 /\ Len(queue[p]) \in Nat
              /\ \A j \in 1..Len(queue[p]) : queue'[p][j] = queue[p][j]
              /\ queue'[p][Len(queue[p]) + 1] = r
          BY <1>2, <3>5 DEF QueuedAt
        <4>2. r.port = p /\ New(r) /\ current'[p] = current[p] /\ phase'[p] = phase[p]
          BY <3>5 DEF QueuedAt, Continues
        <4>3. CASE i \in 0..Len(queue[p])
          <5>1. KnownAt(p, i)' = KnownAt(p, i)
            BY <4>1, <4>2, <4>3 DEF KnownAt
          <5>2. Free(p)' <=> Free(p)
            BY <2>1, <4>2 DEF Free
          <5> QED
            BY <2>1, <4>3, <5>1, <5>2, StaleStays
        <4>4. CASE i = Len(queue[p]) + 1
          <5>1. KnownAt(p, i)' = r
            BY <4>1, <4>4 DEF KnownAt
          <5>2. Stale(p, r)
            BY <2>1, <5>1 DEF Stale
          <5>3. since' = 1 /\ r = Commit(p) /\ Committing
            BY <1>1, <3>1, <4>2, <5>2, OnlyCommitsGoStale
          <5>4. Known(p) \subseteq {Sensors(p), Segment(packet.index), Segment(IndexBefore)}
            <6>1. Commit(p) \notin Known(p)
              BY <4>2, <5>3 DEF New, Known
            <6>2. Known(p) \subseteq
                    {Sensors(p), Segment(packet.index), Segment(IndexBefore), Commit(p)}
              BY <5>3 DEF KnownInv, Committing
            <6> QED
              BY <6>1, <6>2
          <5>5. Len(queue[p]) <= 2
            BY <1>1, <5>4, KnownAreFew
          <5>6. i \in 0..3
            BY <4>1, <4>4, <5>5
          <5> QED
            BY <1>1, <5>3, <5>6, CommitsInTime
        <4> QED
          BY <4>1, <4>3, <4>4
      <3> QED
        BY <3>2, <3>3, <3>4, <3>5
    <2>3. CASE ~CommitFrame /\ ~PollSensors /\ ~(ProcessPacket /\ havePacket)
      <3>1. current' = current /\ queue' = queue
        BY <1>5, <2>3, BusSteps DEF SwitchIfDone, ProcessPort, Answered, TimedOut, Running,
           Resting, Respond, TimeOut, Finish, busVars
      <3>2. Free(p) => Free(p)'
        <4>1. CASE ProcessPort
          BY <1>1, <2>1, <4>1 DEF ProcessPort, Answered, TimedOut, Running, Resting,
             Respond, TimeOut, Finish,
             busVars, Free, TypeOK, BusTypes
        <4>2. CASE ~ProcessPort
          BY <1>5, <2>1, <2>3, <4>2, BusSteps DEF SwitchIfDone, busVars, Free
        <4> QED
          BY <4>1, <4>2
      <3>3. i \in 0..Len(queue[p]) /\ KnownAt(p, i)' = KnownAt(p, i)
        BY <3>1 DEF KnownAt
      <3> QED
        BY <2>1, <3>2, <3>3, StaleStays
    <2> QED
      BY <2>2, <2>3
  <1> QED
    BY <1>3, <1>4, <1>5

\* TimeInv holds initially: the ports start before the first packet comes.
LEMMA TimeInit ==
  ASSUME SlowHost, FramesDiffer, Init
  PROVE  TimeInv
  <1>1. TypeOK
    BY TypesInit
  <1>2. /\ stage = "begin" /\ at = 1 /\ since = 0 /\ ~havePacket /\ received = {}
        /\ \A p \in Ports : phase[p] = "Idle" /\ queue[p] = <<>>
    BY DEF Init, BusInit
  <1>3. FreeInv
    <2>1. Connected \subseteq Ports
      BY PanelAssumption
    <2> QED
      BY <1>2, <2>1, EveryPortVisited DEF FreeInv
  <1>4. PaceInv
    <2>1. Segments # {}
      BY <1>1, PacketsInTurn
    <2> QED
      BY <1>2, <2>1 DEF PaceInv, Complete
  <1>5. ASSUME NEW p \in Answering, NEW i \in 0..Len(queue[p]), ~(i = 0 /\ Free(p))
        PROVE  OverBefore(Wait(p, i))
    <2>1. p \in Ports
      BY PanelAssumption DEF Answering
    <2>2. i = 0 /\ p \notin turn
      BY <1>2, <1>5, <2>1 DEF Free
    <2>3. Wait(p, i) = 0
      <3>1. \A c \in Nat : 0 * c = 0
        OBVIOUS
      <3>2. CyclePasses \in Nat
        BY <1>1, TurnLasts DEF TypeOK, BusTypes
      <3> QED
        BY <2>2, <3>1, <3>2 DEF Wait
    <2>4. ASSUME NEW q \in turn
          PROVE  Due(q) <= PacketPasses /\ Due(q) \in Nat
      <3>1. q \in Ports /\ turn \in Pairs
        BY <1>1, DueTypes
      <3>2. Due(q) = 0 + 0 + Passes(q)
        BY <1>2, <3>1 DEF Due, SeenInPass
      <3>3. /\ Passes(q) \in Nat /\ TurnPasses(turn) \in Nat /\ CyclePasses \in Nat
            /\ Passes(q) + 1 <= TurnPasses(turn) /\ TurnPasses(turn) <= CyclePasses
        BY <3>1, TurnLasts, PassesAreNat
      <3> QED
        BY <3>2, <3>3, PassesAreNat DEF SlowHost
    <2>5. PacketPasses \in Nat
      BY PassesAreNat
    <2> QED
      BY <1>2, <2>3, <2>4, <2>5 DEF OverBefore
  <1> QED
    BY <1>3, <1>4, <1>5 DEF TimeInv, StaleInv

\* OrderInv and TimeInv together are inductive, and packets find the ports settled.
LEMMA PacesNext ==
  ASSUME FewSegments, FramesDiffer, SlowHost, OrderInv, TimeInv, [Next]_vars
  PROVE  /\ OrderInv' /\ TimeInv'
         /\ packet' # packet => Settled
  <1>1. packet' # packet => Settled
    <2>1. packet' # packet => PacketComes
      BY PacketSteps
    <2> QED
      BY <2>1, PortsSettle
  <1>2. OrderInv'
    BY <1>1, OrderNext
  <1>3. TypeOK' /\ ~stopped'
    BY <1>2 DEF OrderInv, QueueInv
  <1>4. FreeInv' /\ PaceInv'
    BY <1>3, FreeNext, PaceNext DEF OrderInv, QueueInv, TimeInv
  <1>5. StaleInv'
    BY <1>3, StaleNext
  <1> QED
    BY <1>1, <1>2, <1>4, <1>5 DEF TimeInv

\* If the host leaves both pairs four turns and the loop a pass between two
\* packets, every packet finds the ports settled (PacketsFindPortsSettled): no
\* commit and no segment but the one just sent runs or waits (main.c:81-137;
\* msgbus.c:101-116, 233-260, 374-384).
THEOREM SlowHostsFindPortsSettled ==
  ASSUME FewSegments, FramesDiffer, SlowHost
  PROVE  Spec => PacketsFindPortsSettled
  <1>1. Init => OrderInv /\ TimeInv
    BY OrderInit, TimeInit
  <1>2. OrderInv /\ TimeInv /\ [Next]_vars => OrderInv' /\ TimeInv'
    BY PacesNext
  <1>3. OrderInv /\ TimeInv /\ [Next]_vars => [packet' # packet => Settled]_vars
    BY PacesNext
  <1> QED
    BY <1>1, <1>2, <1>3, PTL DEF Spec, PacketsFindPortsSettled

\* With such a host, what a panel shows is always one frame, whole
\* (FramesAreWhole; main.c:81-137), for any panels, silent ones among them, and
\* any interleaving of the DMA that reads led_buffer with the loop that writes it.
THEOREM PanelsShowWholeFrames ==
  ASSUME FewSegments, FramesDiffer, SlowHost
  PROVE  Spec => []FramesAreWhole
  BY SettledPortsShowWholeFrames, SlowHostsFindPortsSettled, PTL

-----------------------------------------------------------------------------
(***************************************************************************)
(* When the panels show the frame.                                         *)
(***************************************************************************)

\* The end of a commit shows the frame that led_buffer has.
LEMMA CommitShows ==
  ASSUME FramesDiffer, OrderInv, StagedInv, NEW p \in Answering,
         Transfer(p), current[p] = Commit(p), moved[p] = 1
  PROVE  Shows(p, packet.frame)'
  <1> USE DEF OrderInv, QueueInv
  <1>1. SegmentsOf(p) \subseteq Segments
    BY DEF SegmentsOf
  <1>2. /\ shown' = [k \in Segments |-> IF k \in SegmentsOf(p) THEN staged[k] ELSE shown[k]]
        /\ phase[p] = "Busy" /\ packet' = packet
    BY DEF Transfer, usbVars
  <1>3. Runs(p, Commit(p))
    BY <1>2 DEF Runs
  <1>4. processed /\ packet.index = LastIndex
    BY <1>3 DEF KnownInv, Holds, Committing
  <1>5. \A k \in SegmentsOf(p) : ledBuffer[k] = packet.frame
    <2>1. \A k \in Segments : k <= packet.index
      BY <1>4, PacketsInTurn
    <2> QED
      BY <1>1, <1>4, <2>1 DEF FrameInv, PacketProcessed
  <1>6. \A k \in SegmentsOf(p) : staged[k] = Whole(packet.frame)
    BY <1>3, <1>5 DEF StagedInv, StagedOf, Sent
  <1>7. \A k \in SegmentsOf(p) : shown'[k] = Whole(packet.frame)
    BY <1>1, <1>2, <1>6
  <1> QED
    BY <1>2, <1>7 DEF Shows

\* The panels of a port show what they did, but at the end of its commit.
LEMMA ShownStays ==
  ASSUME TypeOK, [Next]_vars, NEW p \in Ports,
         ~(Transfer(p) /\ current[p] = Commit(p) /\ moved[p] = 1)
  PROVE  \A k \in SegmentsOf(p) : shown'[k] = shown[k]
  <1>1. CASE \E q \in Ports : Transfer(q) /\ current[q] = Commit(q) /\ moved[q] + 1 = 2
    <2>1. PICK q \in Ports : Transfer(q) /\ current[q] = Commit(q) /\ moved[q] + 1 = 2
      BY <1>1
    <2>2. shown' = [k \in Segments |-> IF k \in SegmentsOf(q) THEN staged[k] ELSE shown[k]]
      BY <2>1 DEF Transfer
    <2>3. p # q
      BY <2>1 DEF TypeOK, TransferTypes
    <2>4. \A k \in SegmentsOf(p) : k \notin SegmentsOf(q) /\ k \in Segments
      BY <2>3 DEF SegmentsOf
    <2> QED
      BY <2>2, <2>4
  <1>2. CASE ~\E q \in Ports : Transfer(q) /\ current[q] = Commit(q) /\ moved[q] + 1 = 2
    BY <1>2 DEF Next, LoopStep, ProcessPort, SwitchIfDone, TakeResponse, CopyHalf,
       ReportSensors, CommitFrame, ProcessPacket, PollSensors, PacketComes,
       NoPacketComes, Transfer, vars, panelVars
  <1> QED
    BY <1>1, <1>2

\* A commit goes on its way, or on its way.
LEMMA OnItsWayNext ==
  ASSUME FramesDiffer, OrderInv, StagedInv, [Next]_vars, ~stopped', packet' = packet,
         NEW p \in Answering, OnItsWay(p)
  PROVE  OnItsWay(p)'
  <1> USE DEF OrderInv, QueueInv
  <1>1. p \in Ports /\ p \notin Silent
    BY PanelAssumption DEF Answering
  <1>2. CASE Transfer(p)
    <2>1. /\ moved' = [moved EXCEPT ![p] = moved[p] + 1] /\ moved[p] \in 0..1
          /\ UNCHANGED <<phase, current, queue>>
      BY <1>1, <1>2 DEF Transfer, busVars, TypeOK, TransferTypes
    <2>2. CASE Commit(p) \in Queued(p)
      BY <2>1, <2>2 DEF OnItsWay, Queued
    <2>3. CASE current[p] = Commit(p) /\ moved[p] = 1
      BY <1>2, <2>3, CommitShows DEF OnItsWay
    <2>4. CASE current[p] = Commit(p) /\ moved[p] = 0
      <3>1. moved'[p] = 1
        BY <1>1, <2>1, <2>4 DEF TypeOK, TransferTypes
      <3> QED
        BY <1>2, <2>1, <2>4, <3>1 DEF OnItsWay, Runs, Transfer
    <2>5. CASE current[p] # Commit(p) /\ Shows(p, packet.frame)
      BY <1>1, <2>5, ShownStays DEF OnItsWay, Shows
    <2> QED
      BY <2>1, <2>2, <2>3, <2>4, <2>5 DEF OnItsWay, Runs
  <1>3. CASE ~Transfer(p)
    <2>1. Shows(p, packet.frame) => Shows(p, packet.frame)'
      BY <1>1, <1>3, ShownStays DEF Shows
    <2>2. ASSUME NEW r \in LoopRequests, Send(r)
          PROVE  OnItsWay(p)'
      <3>1. KeptAt(p) \/ StartedAt(p, r) \/ QueuedAt(p, r)
        BY <1>1, <2>2, SendCases DEF TypeOK
      <3>2. CASE KeptAt(p)
        BY <2>1, <3>2 DEF KeptAt, Continues, OnItsWay, Runs, Queued
      <3>3. CASE StartedAt(p, r)
        <4>1. ~Holds(p, Commit(p))
          BY <1>1, <3>3, NothingHeld DEF StartedAt, Starts, Free
        <4> QED
          BY <2>1, <4>1 DEF OnItsWay, Holds
      <3>4. CASE QueuedAt(p, r)
        <4>1. /\ Len(queue'[p]) = Len(queue[p]) + 1 /\ Len(queue[p]) \in Nat
              /\ \A i \in 1..Len(queue[p]) : queue'[p][i] = queue[p][i]
          BY <1>1, <3>4 DEF QueuedAt, TypeOK, BusTypes
        <4>2. \A i \in 1..Len(queue[p]) : i \in 1..Len(queue'[p])
          BY <4>1
        <4>3. Queued(p) \subseteq Queued(p)'
          BY <4>1, <4>2 DEF Queued
        <4> QED
          BY <2>1, <3>4, <4>3 DEF QueuedAt, Continues, OnItsWay, Runs
      <3> QED
        BY <3>1, <3>2, <3>3, <3>4
    <2>3. CASE CommitFrame \/ PollSensors \/ (ProcessPacket /\ havePacket)
      BY <2>2, <2>3, SendingSends
    <2>4. CASE SwitchIfDone /\ \A q \in turn : phase[q] # "Busy"
      <3>1. SwitchedAt(p)
        BY <1>1, <2>4, SwitchCases DEF SwitchIfDone, TypeOK
      <3>2. ~Runs(p, Commit(p))
        BY <1>1, <2>4 DEF BusInv, BusOf, Runs
      <3>3. CASE Commit(p) \in Queued(p) /\ p \in turn
        BY <3>1, <3>3 DEF SwitchedAt, OnItsWay, Queued
      <3>4. CASE Commit(p) \in Queued(p) /\ p \notin turn
        <4>1. queue[p] \in Seq(LoopRequests) /\ queue[p] # <<>>
          BY <1>1, <3>4 DEF TypeOK, BusTypes, Queued
        <4>2. Commit(p) = Head(queue[p]) \/ Commit(p) \in Queued(p)'
          <5>1. \A i \in 1..Len(queue[p]) :
                  \/ queue[p][i] = Head(queue[p])
                  \/ \E j \in 1..Len(Tail(queue[p])) : queue[p][i] = Tail(queue[p])[j]
            BY <4>1, HeadAndTail
          <5>2. queue'[p] = Tail(queue[p])
            BY <3>1, <3>4, <4>1 DEF SwitchedAt
          <5> QED
            BY <3>4, <5>1, <5>2 DEF Queued
        <4>3. moved'[p] = 0 /\ phase'[p] = "Busy" /\ current'[p] = Head(queue[p])
          BY <3>1, <3>4, <4>1 DEF SwitchedAt
        <4> QED
          BY <4>2, <4>3 DEF OnItsWay, Runs
      <3> QED
        BY <2>1, <3>2, <3>3, <3>4 DEF OnItsWay
    <2>5. CASE ProcessPort
      <3>1. queue' = queue /\ current' = current /\ moved' = moved
        BY <2>5 DEF ProcessPort, Answered, TimedOut, Running, Resting,
           Respond, TimeOut, Finish, busVars,
           transferVars
      <3>2. phase'[p] = phase[p] \/ moved[p] = 2
        <4>1. CASE Answered(Visited[at])
          BY <1>1, <4>1 DEF Answered, Over, Respond, Finish, TypeOK, BusTypes
        <4>2. CASE TimedOut(Visited[at])
          BY <1>1, <4>2 DEF TimedOut, TimeOut, Finish, TypeOK, BusTypes
        <4>3. CASE Running(Visited[at]) \/ Resting(Visited[at])
          BY <4>3 DEF Running, Resting, busVars
        <4> QED
          BY <2>5, <4>1, <4>2, <4>3 DEF ProcessPort
      <3> QED
        BY <2>1, <3>1, <3>2 DEF OnItsWay, Runs, Queued
    <2>6. CASE \/ SwitchIfDone /\ ~\A q \in turn : phase[q] # "Busy"
               \/ TakeResponse \/ CopyHalf \/ ReportSensors
               \/ ProcessPacket /\ ~havePacket
               \/ PacketComes \/ NoPacketComes \/ UNCHANGED vars
               \/ \E q \in Ports \ {p} : Transfer(q)
      <3>1. UNCHANGED <<phase, current, queue>> /\ moved'[p] = moved[p]
        BY <1>1, <2>6 DEF SwitchIfDone, TakeResponse, Take, CopyHalf, ReportSensors,
           ProcessPacket, PacketComes, NoPacketComes, Transfer, vars, busVars, transferVars,
           TypeOK, TransferTypes
      <3> QED
        BY <2>1, <3>1 DEF OnItsWay, Runs, Queued
    <2> QED
      BY <1>3, <2>3, <2>4, <2>5, <2>6 DEF Next, LoopStep
  <1> QED
    BY <1>2, <1>3

\* A frame begins to be committed when process_led_data finds it complete.
LEMMA CommittingBegins ==
  ASSUME FramesDiffer, TypeOK, FrameInv, [Next]_vars, Committing', ~Committing
  PROVE  ReportSensors /\ Complete
  <1>1. packet' = packet /\ havePacket' = havePacket /\ ~PacketComes
    BY PacketSteps DEF PacketComes, Committing
  <1>2. CASE ProcessPacket /\ havePacket
    <2>1. /\ received' = ReceivedOfFrame \cup {packet.index}
          /\ packet.index = LastIndex /\ received' \subseteq {LastIndex}
      BY <1>1, <1>2 DEF ProcessPacket, Committing
    <2>2. 1 # LastIndex /\ 1 \in 1..LastIndex /\ LastIndex - 1 \in 1..LastIndex-1
          /\ LastIndex - 1 # LastIndex
      BY PacketsInTurn
    <2>3. CASE processed
      <3>1. received = 1..LastIndex /\ packet.frame = previousFrame
        BY <1>1, <1>2, <2>1, <2>3 DEF FrameInv, PacketProcessed, Committing
      <3> QED
        BY <2>1, <2>2, <3>1 DEF ReceivedOfFrame
    <2>4. CASE ~processed
      <3>1. received = 1..LastIndex-1 /\ packet.frame = previousFrame
        BY <1>2, <2>1, <2>2, <2>4 DEF FrameInv, PacketWaits, IndexBefore
      <3> QED
        BY <2>1, <2>2, <3>1 DEF ReceivedOfFrame
    <2> QED
      BY <2>3, <2>4
  <1>3. CASE ~(ProcessPacket /\ havePacket) /\ ~(ReportSensors /\ Complete)
    <2>1. UNCHANGED <<received, processed>>
      BY <1>1, <1>3 DEF Next, LoopStep, ProcessPort, SwitchIfDone, TakeResponse, CopyHalf,
         ReportSensors, CommitFrame, ProcessPacket, PollSensors, NoPacketComes, Transfer,
         vars, usbVars, ledVars
    <2> QED
      BY <1>1, <2>1 DEF Committing
  <1> QED
    BY <1>2, <1>3

\* What a step does to the commit of a frame that has not been sent to the port.
LEMMA CommitBegins ==
  ASSUME FramesDiffer, OrderInv, [Next]_vars, ~stopped', ~PacketComes, NEW p \in Answering,
         havePacket, ~CommitSent(p), Commit(p) \notin Known(p)
  PROVE  \/ CommitSent(p)' /\ OnItsWay(p)'
         \/ ~CommitSent(p)' /\ Commit(p) \notin Known(p)'
  <1> USE DEF OrderInv, QueueInv
  <1>1. p \in Ports /\ p \in Connected
    BY PanelAssumption DEF Answering
  <1>2. at \in 1..4 /\ Len(Visited) = 4
    BY DEF TypeOK, LoopTypes, Visited
  <1>3. CASE CommitFrame
    <2>1. /\ Send(Commit(Visited[at])) /\ NextPort("packet") /\ Committing /\ stage = "commit"
      BY <1>3 DEF CommitFrame, SendCommit, FrameInv
    <2>2. Committing'
      BY <2>1, CommittingStays
    <2>3. PICK r \in LoopRequests :
            r = Commit(Visited[at]) /\ r.port = Visited[at] /\ Send(r)
      <3>1. Visited[at] \in Ports
        BY <1>2, VisitedOnce
      <3>2. Commit(Visited[at]) \in LoopRequests /\ Commit(Visited[at]).port = Visited[at]
        BY <3>1 DEF LoopRequests, Commit
      <3> QED
        BY <2>1, <3>2
    <2>4. /\ KeptAt(p) \/ StartedAt(p, r) \/ QueuedAt(p, r)
          /\ p = Visited[at] /\ KeptAt(p) => r \in Known(p)
      BY <1>1, <2>3, SendCases DEF TypeOK
    <2>5. CASE p = Visited[at]
      <3>1. CommitSent(p)'
        <4>1. stage' = "commit" => at' = at + 1
          BY <2>1 DEF NextPort
        <4>2. at \in 1..(at + 1)-1
          BY <1>2
        <4>3. stage' = "commit" => at \in 1..at'-1
          BY <4>1, <4>2
        <4>4. stage' = "commit" => \E i \in 1..at'-1 : Visited[i] = p
          BY <2>5, <4>3
        <4> QED
          BY <2>2, <4>4 DEF CommitSent
      <3>2. r = Commit(p)
        BY <2>3, <2>5 DEF Commit
      <3>3. CASE StartedAt(p, r)
        <4>1. moved'[p] < 2
          BY <3>3 DEF StartedAt, Starts
        <4>2. Runs(p, Commit(p))'
          BY <3>2, <3>3 DEF StartedAt, Starts, Runs
        <4>3. OnItsWay(p)'
          BY <4>1, <4>2 DEF OnItsWay
        <4> QED
          BY <3>1, <4>3
      <3>4. CASE QueuedAt(p, r)
        <4>1. /\ Len(queue'[p]) = Len(queue[p]) + 1 /\ Len(queue[p]) \in Nat
              /\ queue'[p][Len(queue[p]) + 1] = r
          BY <1>1, <3>4 DEF QueuedAt, TypeOK, BusTypes
        <4>2. Len(queue[p]) + 1 \in 1..Len(queue'[p])
          BY <4>1
        <4>3. OnItsWay(p)'
          BY <3>2, <4>1, <4>2 DEF OnItsWay, Queued
        <4> QED
          BY <3>1, <4>3
      <3> QED
        BY <2>4, <2>5, <3>2, <3>3, <3>4
    <2>6. CASE p # Visited[at]
      <3>1. Known(p)' = Known(p)
        BY <1>1, <2>3, <2>4, <2>6, KnownAfterSend DEF TypeOK
      <3>2. \A i \in 1..at-1 : Visited[i] # p
        BY <2>1 DEF CommitSent
      <3>3. CASE at < 4
        <4>1. stage' = "commit" /\ at' = at + 1
          BY <1>2, <2>1, <3>3 DEF NextPort
        <4>2. \A i \in 1..(at + 1)-1 : i = at \/ i \in 1..at-1
          BY <1>2
        <4> QED
          BY <2>6, <3>1, <3>2, <4>1, <4>2 DEF CommitSent
      <3>4. CASE at = 4
        <4>1. \A i \in 1..4 : i = at \/ i \in 1..at-1
          BY <3>4
        <4> QED
          BY <1>1, <2>6, <3>2, <4>1, EveryPortVisited
      <3> QED
        BY <1>2, <3>3, <3>4
    <2> QED
      BY <2>5, <2>6
  <1>4. CASE ~CommitFrame
    <2>1. Commit(p) \notin Known(p)'
      <3>1. CASE PollSensors \/ (ProcessPacket /\ havePacket)
        <4>1. PICK r \in LoopRequests : Send(r) /\ Sending(r)
          BY <3>1, SendingSends
        <4>2. r # Commit(p)
          <5>1. Visited[at] \in Ports /\ packet.index \in Segments
            BY <1>2, VisitedOnce DEF TypeOK, LoopTypes
          <5> QED
            BY <1>1, <1>4, <4>1, <5>1, RequestsDiffer, SegmentsDiffer DEF Sending
        <4>3. Known(p)' \subseteq Known(p) \cup {r}
          BY <1>1, <4>1, SendCases, KnownAfterSend DEF TypeOK
        <4> QED
          BY <4>2, <4>3
      <3>2. CASE ~PollSensors /\ ~(ProcessPacket /\ havePacket)
        BY <1>1, <1>4, <3>2, KnownWithoutSend
      <3> QED
        BY <3>1, <3>2
    <2>2. ~CommitSent(p)'
      <3>1. CASE ReportSensors /\ Complete
        <4>1. stage' = "commit" /\ at' = 1
          BY <3>1 DEF ReportSensors, PlaceInv
        <4> QED
          BY <4>1 DEF CommitSent
      <3>2. CASE ~(ReportSensors /\ Complete) /\ Committing
        <4>1. stage = "commit" /\ \A i \in 1..at-1 : Visited[i] # p
          BY <3>2 DEF CommitSent
        <4>2. stage' = stage /\ at' = at
          BY <1>4, <4>1 DEF Next, LoopStep, ProcessPort, SwitchIfDone, TakeResponse,
             CopyHalf, ReportSensors, ProcessPacket, PollSensors, PacketComes,
             NoPacketComes, Transfer, Exposed, vars, loopVars
        <4> QED
          BY <4>1, <4>2 DEF CommitSent
      <3>3. CASE ~(ReportSensors /\ Complete) /\ ~Committing
        BY <3>3, CommittingBegins DEF CommitSent
      <3> QED
        BY <3>1, <3>2, <3>3
    <2> QED
      BY <2>1, <2>2
  <1> QED
    BY <1>3, <1>4

\* ShownInv holds initially: no frame is committed before a packet has come.
LEMMA ShownInit ==
  ASSUME Init
  PROVE  ShownInv
  <1>1. ~havePacket /\ ~Committing
    BY DEF Init, Committing
  <1> QED
    BY <1>1 DEF ShownInv, ShownOf, CommitSent

\* ShownInv is inductive, if packets come to ports that have settled.
LEMMA ShownNext ==
  ASSUME FramesDiffer, OrderInv, StagedInv, ShownInv, [Next]_vars, ~stopped',
         packet' # packet => Settled
  PROVE  ShownInv'
  <1> SUFFICES ASSUME NEW p \in Answering
               PROVE  ShownOf(p)'
    BY DEF ShownInv
  <1> USE DEF OrderInv, QueueInv
  <1>1. p \in Ports
    BY PanelAssumption DEF Answering
  <1>2. CASE PacketComes
    <2>1. packet' # packet /\ ~processed' /\ UNCHANGED busVars
      BY <1>2, PacketsInTurn DEF PacketComes
    <2>2. ~CommitSent(p)'
      BY <2>1 DEF CommitSent, Committing
    <2>3. Commit(p) \notin Known(p)
      <3>1. packet.index \in Segments
        BY DEF TypeOK, LoopTypes
      <3> QED
        BY <1>1, <2>1, <3>1, SegmentsDiffer, RequestsDiffer DEF Settled
    <2>4. Known(p)' = Known(p)
      BY <2>1 DEF busVars, Known, Queued
    <2> QED
      BY <2>2, <2>3, <2>4 DEF ShownOf
  <1>3. CASE ~PacketComes
    <2>1. packet' = packet /\ havePacket' = havePacket
      BY <1>3, PacketSteps
    <2>2. CASE CommitSent(p)
      <3>1. OnItsWay(p)'
        BY <2>1, <2>2, OnItsWayNext DEF ShownInv, ShownOf
      <3>2. Committing /\ Committing'
        BY <1>3, <2>2, CommittingStays DEF CommitSent
      <3>3. stage' = "commit" => stage = "commit" /\ at' >= at /\ at \in Nat /\ at' \in Nat
        <4>1. ~Complete
          <5>1. 1 \in Segments /\ 1 # LastIndex
            BY PacketsInTurn
          <5> QED
            BY <3>2, <5>1 DEF Complete, Committing
        <4>2. at \in 1..4
          BY VisitedOnce DEF TypeOK, LoopTypes
        <4>3. CASE CommitFrame
          BY <4>2, <4>3 DEF CommitFrame, NextPort
        <4>4. CASE ~CommitFrame
          <5>1. stage' = "commit" => stage' = stage /\ at' = at
            BY <1>3, <4>1, <4>4 DEF Next, LoopStep, ProcessPort, SwitchIfDone, TakeResponse,
               CopyHalf, ReportSensors, ProcessPacket, PollSensors, NoPacketComes, Transfer,
               Exposed, vars, loopVars, NextPort
          <5> QED
            BY <4>2, <5>1
        <4> QED
          BY <4>3, <4>4
      <3>4. CommitSent(p)'
        <4>1. CASE stage' = "commit"
          <5>1. PICK i \in 1..at-1 : Visited[i] = p
            BY <2>2, <3>3, <4>1 DEF CommitSent
          <5>2. i \in 1..at'-1
            BY <3>3, <4>1, <5>1
          <5> QED
            BY <3>2, <5>1, <5>2 DEF CommitSent
        <4> QED
          BY <3>2, <4>1 DEF CommitSent
      <3> QED
        BY <3>1, <3>4 DEF ShownOf
    <2>3. CASE ~CommitSent(p) /\ havePacket
      <3>1. Commit(p) \notin Known(p)
        BY <2>3 DEF ShownInv, ShownOf
      <3> QED
        BY <1>3, <2>3, <3>1, CommitBegins DEF ShownOf
    <2>4. CASE ~havePacket
      BY <2>1, <2>4 DEF ShownOf, CommitSent, Committing
    <2> QED
      BY <2>2, <2>3, <2>4
  <1> QED
    BY <1>2, <1>3

\* A frame that came in full is shown when the packet after it comes.
LEMMA ShownInTime ==
  ASSUME FramesDiffer, OrderInv, ShownInv, PacketComes, Settled,
         havePacket, packet.index = LastIndex, NEW p \in Answering
  PROVE  Shows(p, packet.frame)
  <1> USE DEF OrderInv, QueueInv
  <1>1. stage = "usb" /\ p \in Ports /\ packet.index \in Segments
    BY PanelAssumption DEF PacketComes, Answering, TypeOK, LoopTypes
  <1>2. Committing
    <2>1. processed
      BY <1>1 DEF FrameInv, PacketWaits
    <2>2. received # 1..LastIndex
      BY PacketsInTurn DEF Settled, Complete
    <2> QED
      BY <2>1, <2>2 DEF FrameInv, PacketProcessed
  <1>3. CommitSent(p)
    BY <1>1, <1>2 DEF CommitSent
  <1>4. Commit(p) \notin Known(p)
    BY <1>1, SegmentsDiffer, RequestsDiffer DEF Settled
  <1> QED
    BY <1>3, <1>4 DEF ShownInv, ShownOf, OnItsWay, Known, Runs

\* Every frame is shown by every panel that answers before the host's next frame
\* begins (FrameIsShownInTime), if every packet finds the ports settled: no commit
\* is left out, ignored as known already, or overtaken (main.c:107-111;
\* msgbus.c:101-116, 222).
THEOREM SettledPortsShowFramesInTime ==
  ASSUME FewSegments, FramesDiffer
  PROVE  Spec /\ PacketsFindPortsSettled => FrameIsShownInTime
  <1> DEFINE Inv == OrderInv /\ StagedInv /\ ShownInv
  <1>1. Init => Inv
    BY OrderInit, StagedInit, ShownInit
  <1>2. ASSUME Inv, [Next]_vars, [packet' # packet => Settled]_vars
        PROVE  /\ Inv'
               /\ packet' # packet /\ havePacket /\ packet.index = Len(Packets)
                    => \A p \in Answering : Shows(p, packet.frame)
    <2>1. packet' # packet => Settled
      BY <1>2 DEF vars, usbVars
    <2>2. OrderInv'
      BY <1>2, <2>1, OrderNext
    <2>3. StagedInv' /\ ShownInv'
      BY <1>2, <2>1, <2>2, StagedNext, ShownNext DEF OrderInv, QueueInv
    <2>4. packet' # packet => PacketComes
      BY <1>2, PacketSteps
    <2> QED
      BY <1>2, <2>1, <2>2, <2>3, <2>4, ShownInTime DEF LastIndex
  <1>3. Inv /\ [Next]_vars /\ [packet' # packet => Settled]_vars => Inv'
    BY <1>2
  <1>4. Inv /\ [Next]_vars /\ [packet' # packet => Settled]_vars
          => [packet' # packet /\ havePacket /\ packet.index = Len(Packets)
                => \A p \in Answering : Shows(p, packet.frame)]_vars
    BY <1>2
  <1> QED
    BY <1>1, <1>3, <1>4, PTL DEF Spec, PacketsFindPortsSettled, FrameIsShownInTime

\* With a host that leaves the panels the time (SlowHost), every frame is shown
\* before the next begins (FrameIsShownInTime; main.c:81-137).
THEOREM PanelsShowFramesInTime ==
  ASSUME FewSegments, FramesDiffer, SlowHost
  PROVE  Spec => FrameIsShownInTime
  BY SettledPortsShowFramesInTime, SlowHostsFindPortsSettled, PTL
=============================================================================
