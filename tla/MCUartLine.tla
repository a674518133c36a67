----------------------------- MODULE MCUartLine -----------------------------
(***************************************************************************)
(* UartLine for TLC: Left or Down with a panel that is in time, Up or      *)
(* Right with one that may be late; each of them with a late one alone.    *)
(***************************************************************************)
EXTENDS UartLine

LateOnOwnUsart == {[shared |-> FALSE, late |-> TRUE]}
LateOnShared == {[shared |-> TRUE, late |-> TRUE]}
InTimeOrShared == {[shared |-> FALSE, late |-> FALSE]} \cup LateOnShared
=============================================================================
