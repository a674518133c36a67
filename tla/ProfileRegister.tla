-------------------------- MODULE ProfileRegister --------------------------
(***************************************************************************)
(* What the profile store promises (Inc/profile_config.h): the profile     *)
(* that is read is the one saved last.  After a write that did not succeed *)
(* the slot has bytes of one profile, the new one or the one before it,    *)
(* where they are not erased; what is read of them is that profile, the    *)
(* default one, or whatever else has the right sum.                        *)
(***************************************************************************)
CONSTANTS
  Profiles, Default, None,
  Readable    \* per profile, what may be read when some of its bytes are erased

VARIABLES
  value,      \* the profile that is read
  source,     \* the profile whose bytes the slot has
  writing,    \* the profile whose bytes are being written, or None
  result      \* what is read after the write, or None

registerVars == <<value, source, writing, result>>

RegisterInit ==
  /\ value = Default
  /\ source = Default
  /\ writing = None
  /\ result = None

Begin(d, read) ==
  /\ writing = None
  /\ writing' = d
  /\ result' = read
  /\ UNCHANGED <<value, source>>

Save(d) == Begin(d, d)

\* A write of other data writes what the slot has again.
Rewrite == Begin(source, value)

Succeed ==
  /\ writing # None
  /\ value' = result
  /\ source' = writing
  /\ writing' = None
  /\ result' = None

Fail ==
  /\ writing # None
  /\ source' \in {source, writing}
  /\ value' \in Readable[source']
  /\ writing' = None
  /\ result' = None

RegisterNext ==
  \/ \E d \in Profiles : Save(d)
  \/ Rewrite
  \/ Succeed
  \/ Fail

RegisterSpec == RegisterInit /\ [][RegisterNext]_registerVars
=============================================================================
