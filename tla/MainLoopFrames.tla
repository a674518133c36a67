--------------------------- MODULE MainLoopFrames ---------------------------
(***************************************************************************)
(* The invariants behind the frames that the panels of MainLoop show: how  *)
(* far a frame has come, which requests the ports know, what the panels    *)
(* have of it, and that all of it is over before the host's next packet.   *)
(***************************************************************************)
EXTENDS MainLoopInvariants

-----------------------------------------------------------------------------
(***************************************************************************)
(* The host and the time it leaves to the panels.                          *)
(***************************************************************************)

\* The turn of a pair lasts for a pass more than the longest request of its ports.
TurnPasses(pair) ==
  1 + IF pair \cap Silent # {} /\ TimeoutPasses > AnswerPasses
        THEN TimeoutPasses ELSE AnswerPasses

\* Each pair has had its turn.
CyclePasses == TurnPasses({"Left", "Up"}) + TurnPasses({"Right", "Down"})

\* A port runs four requests and the loop a pass between two packets of the host:
\* the last segment of a frame, its commit, the one for sensors and one more.
SlowHost == PacketPasses >= 4 * CyclePasses + 1

\* The host numbers two frames in a row differently.
FramesDiffer == Frames > 1

-----------------------------------------------------------------------------
(***************************************************************************)
(* How far the frame has come.                                             *)
(***************************************************************************)

LastIndex == Len(Packets)

\* The index of the packet that came before the one in usb_buffer.
IndexBefore == IF packet.index = 1 THEN LastIndex ELSE packet.index - 1

\* The frame came in full, and was forgotten when its commit was to be sent; its
\* last segment is counted again in every pass.
Committing ==
  havePacket /\ processed /\ packet.index = LastIndex /\ received \subseteq {LastIndex}

\* No packet has come yet.
NoPacketYet ==
  received = {} /\ ~processed /\ packet.index = LastIndex /\ previousFrame = NoFrame

\* The packet in usb_buffer has not been processed: the segments before it have.
PacketWaits ==
  /\ stage \in {"bus", "switch", "take", "copy", "report", "packet"}
  /\ ~Complete
  /\ IF packet.index = 1
       THEN packet.frame # previousFrame
       ELSE packet.frame = previousFrame /\ received = 1..IndexBefore
  /\ \A k \in Segments : k < packet.index => ledBuffer[k] = packet.frame

\* It has, and the segments up to it are in led_buffer.
PacketProcessed ==
  /\ packet.frame = previousFrame
  /\ received = 1..packet.index \/ Committing
  /\ \A k \in Segments : k <= packet.index => ledBuffer[k] = packet.frame

FrameInv ==
  /\ ~havePacket => NoPacketYet
  /\ havePacket /\ ~processed => PacketWaits
  /\ processed => PacketProcessed
  /\ stage = "commit" => Committing /\ received = {}

Runs(p, r) == phase[p] = "Busy" /\ current[p] = r

Holds(p, r) == Runs(p, r) \/ r \in Queued(p)

\* A port knows the segments of at most the last two packets, and no commit but
\* of the whole frame.
KnownInv ==
  \A p \in Answering :
    /\ havePacket =>
         Known(p) \subseteq {Sensors(p), Segment(packet.index), Segment(IndexBefore), Commit(p)}
    /\ Holds(p, Commit(p)) => Committing
    /\ havePacket /\ ~processed => Segment(packet.index) \notin Known(p)

OrderInv == QueueInv /\ PlaceInv /\ FrameInv /\ KnownInv

-----------------------------------------------------------------------------
(***************************************************************************)
(* What the panels have of the frame.                                      *)
(***************************************************************************)

\* The panel of the segment has what led_buffer has.
Sent(k) == staged[k] = Whole(ledBuffer[k])

\* What a panel does not have is on its way, or waits, ahead of any commit.
StagedOf(p) ==
  \A k \in SegmentsOf(p) :
    /\ Sent(k) \/ Holds(p, Segment(k))
    /\ Runs(p, Segment(k)) =>
         /\ moved[p] = 1 => staged[k][1] = ledBuffer[k]
         /\ moved[p] = 2 => Sent(k)
    /\ Runs(p, Commit(p)) => Sent(k)
    /\ \A i \in 1..Len(queue[p]) : queue[p][i] = Commit(p) =>
         Sent(k) \/ Runs(p, Segment(k)) \/ \E j \in 1..i-1 : queue[p][j] = Segment(k)

StagedInv == \A p \in Answering : StagedOf(p)

\* The loop has sent the frame's commit to the port.
CommitSent(p) ==
  Committing /\ (stage = "commit" => \E i \in 1..at-1 : Visited[i] = p)

\* The port is to commit what its panel has, or its panel shows the frame.
OnItsWay(p) ==
  \/ Runs(p, Commit(p)) /\ moved[p] < 2
  \/ Commit(p) \in Queued(p)
  \/ Shows(p, packet.frame)

\* Every commit that was sent is on its way, and no other is known to the port.
ShownOf(p) ==
  /\ havePacket /\ Commit(p) \in Known(p) => CommitSent(p)
  /\ CommitSent(p) => OnItsWay(p)

ShownInv == \A p \in Answering : ShownOf(p)

-----------------------------------------------------------------------------
(***************************************************************************)
(* How long it takes.                                                      *)
(***************************************************************************)

\* The loop's next look at the port is in the next pass.
SeenInPass(p) ==
  \/ stage \notin {"begin", "bus"}
  \/ stage = "bus" /\ \E i \in 1..at-1 : Visited[i] = p

\* The port's request runs, or the loop is about to start one.
Pending(p) == phase[p] = "Busy" \/ (p \in Connected /\ phase[p] = "Idle")

\* When the port's request ends, counted as since is, at the latest.
Due(p) ==
  since + (IF SeenInPass(p) THEN 1 ELSE 0)
    + (IF phase[p] = "Busy" THEN Passes(p) - age[p] ELSE Passes(p))

\* The turn is over at least n passes before the host's next packet.
OverBefore(n) ==
  /\ since + (IF stage \in {"begin", "bus", "switch"} THEN 0 ELSE 1) + n <= PacketPasses
  /\ \A q \in turn : Pending(q) => Due(q) + n <= PacketPasses

\* The passes from the end of this turn until the i-th request that waits for the
\* port has ended, or the one that it runs, which counts as the 0-th.
Wait(p, i) == (IF p \in turn THEN TurnPasses(Ports \ turn) ELSE 0) + i * CyclePasses

KnownAt(p, i) == IF i = 0 THEN current[p] ELSE queue[p][i]

Stale(p, r) == r \notin {Sensors(p), Segment(packet.index)}

\* A request that no pass sends again is over before the next packet comes; the
\* last one of a free port counts until the loop starts another.
StaleInv ==
  \A p \in Answering : \A i \in 0..Len(queue[p]) :
    Stale(p, KnownAt(p, i)) /\ ~(i = 0 /\ Free(p)) => OverBefore(Wait(p, i))

\* A connected port is free only until the loop next sends to it.
FreeInv ==
  \A p \in Connected : Free(p) =>
    \/ stage \in {"take", "copy", "report", "commit", "packet"}
    \/ stage \in {"begin", "sensors"} /\ \E i \in at..4 : Visited[i] = p

\* A packet is processed in the pass after it has come, and a frame that is
\* complete is committed in the pass after that.
PaceInv ==
  /\ havePacket /\ ~processed => since = 0
  /\ Complete => \/ since = 0 /\ stage \in {"sensors", "usb"}
                 \/ since = 1 /\ stage \in {"bus", "switch", "take", "copy", "report"}
  /\ stage = "commit" => since = 1

TimeInv == FreeInv /\ PaceInv /\ StaleInv
=============================================================================
