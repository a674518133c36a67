----------------------------- MODULE MCMainLoop -----------------------------
(***************************************************************************)
(* MainLoop for TLC: the host's packets.                                   *)
(***************************************************************************)
EXTENDS MainLoop

SegmentAt(p, n) == [port |-> p, number |-> n]

NoRequest == [p \in Ports |-> [port |-> p, command |-> "None", segment |-> 0,
                               response |-> FALSE]]

TwoOfLeftOneOfUp == <<SegmentAt("Left", 0), SegmentAt("Left", 1), SegmentAt("Up", 0)>>
TwoOfLeft == <<SegmentAt("Left", 0), SegmentAt("Left", 1)>>
=============================================================================
