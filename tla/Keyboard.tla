------------------------------ MODULE Keyboard ------------------------------
(***************************************************************************)
(* The keyboard interface (Src/keyboard.c): the report of the keys that    *)
(* are down, and the endpoint that takes it to the host (TinyUSB).  The    *)
(* endpoint holds one report and takes no other before the host has polled *)
(* it and tud_task has seen so; sendReport does not look whether it was    *)
(* taken.                                                                  *)
(***************************************************************************)
EXTENDS Naturals, Sequences

CONSTANTS
  Lower, Upper,   \* keys with a keycode, without and with Shift; one keycode
                  \* for each letter
  Letter(_),      \* the keycode of such a key
  ModifierKeys,   \* 0x80..0x87, each with its bit
  Unmapped,       \* keys without keycode
  Shift,          \* the bit of Left Shift
  NoKey,          \* 0 in a slot of the report
  Slots           \* 6

ASSUME KeyAssumption ==
  /\ \A k \in Lower \cup Upper : Letter(k) # NoKey
  /\ ModifierKeys \cap (Lower \cup Upper \cup Unmapped) = {}
  /\ Unmapped \cap (Lower \cup Upper) = {}
  /\ Lower \cap Upper = {}
  /\ Shift \in ModifierKeys
ASSUME SlotsAssumption == Slots \in Nat

VARIABLES
  report,     \* _keyReport: the modifiers and the slots
  endpoint,   \* Down (not mounted), Free, Armed with a report, or Polled by the
              \* host without tud_task having seen it
  armed,      \* the report in the endpoint's buffer
  accepted,   \* the endpoint took the last report sent
  host,       \* the report the host had last
  held,       \* the keys that were pressed and not released since
  failed,     \* the modifiers of presses that failed and were not released since
  typed       \* the key, if any, of the last call if that was
              \* keyboard_press_and_release and it returned 1

usbVars == <<endpoint, armed, accepted, host>>
callVars == <<held, failed, typed>>
vars == <<report, usbVars, callVars>>

Keys == Lower \cup Upper \cup ModifierKeys \cup Unmapped
Codes == {Letter(k) : k \in Lower \cup Upper}

Reports == [modifiers : SUBSET ModifierKeys, keys : [1..Slots -> Codes \cup {NoKey}]]
Empty == [modifiers |-> {}, keys |-> [i \in 1..Slots |-> NoKey]]

Down(r) == {r.keys[i] : i \in 1..Slots} \ {NoKey}

-----------------------------------------------------------------------------
(***************************************************************************)
(* What the calls make of a report.                                        *)
(***************************************************************************)

\* map_ascii; for the modifier keys, their bit.
Keycode(k) == IF k \in Lower \cup Upper THEN Letter(k) ELSE NoKey

\* Mutant: any key but a lower case letter has a bit of its own.
BitOf(k) == IF k \in Lower \cup Unmapped THEN {} ELSE {k}

ModifiersOf(k) ==
  CASE k \in ModifierKeys -> {k}
    [] k \in Upper        -> {Shift}
    [] OTHER              -> {}

FreeSlots(r) == {i \in 1..Slots : r.keys[i] = NoKey}

\* addKeyToReport finds the code in the report, or a slot for it.
Fits(r, code) == code \in Down(r) \/ FreeSlots(r) # {}

\* Mutant: isKeyInReport is not asked.
WithKeyAgain(r, code) ==
  IF FreeSlots(r) = {} THEN r.keys
    ELSE [r.keys EXCEPT ![CHOOSE i \in FreeSlots(r) :
                            \A j \in FreeSlots(r) : i <= j] = code]

WithKey(r, code) ==
  IF code \in Down(r) \/ FreeSlots(r) = {} THEN r.keys
    ELSE [r.keys EXCEPT ![CHOOSE i \in FreeSlots(r) :
                            \A j \in FreeSlots(r) : i <= j] = code]

\* A press, which may fail with its modifier set.
Pressed(r, k) ==
  [modifiers |-> r.modifiers \cup ModifiersOf(k),
   keys |-> IF Keycode(k) = NoKey THEN r.keys ELSE WithKey(r, Keycode(k))]

Succeeds(r, k) ==
  \/ k \in ModifierKeys
  \/ Keycode(k) # NoKey /\ Fits(r, Keycode(k))

\* removeKeyFromReport
Without(r, code) ==
  [i \in 1..Slots |-> IF r.keys[i] = code THEN NoKey ELSE r.keys[i]]

\* Mutant: the modifier stays.
ReleasedKey(r, k) == [r EXCEPT !.keys = Without(r, Keycode(k))]

\* A release takes the modifier of an upper case letter with it, whoever set it.
Released(r, k) ==
  [modifiers |-> r.modifiers \ ModifiersOf(k), keys |-> Without(r, Keycode(k))]

-----------------------------------------------------------------------------
\* The reports that a call sends, one after the other: the endpoint takes the
\* first if it is free, and none after it, since tud_task does not run before
\* the call returns.
SendReports(reports) ==
  /\ endpoint' = IF endpoint = "Free" /\ reports # <<>> THEN "Armed" ELSE endpoint
  /\ armed' = IF endpoint = "Free" /\ reports # <<>> THEN Head(reports) ELSE armed
  /\ accepted' = IF reports = <<>> THEN accepted
                   ELSE endpoint = "Free" /\ Len(reports) = 1
  /\ UNCHANGED host

SentByPress(r, k) == IF Succeeds(r, k) THEN <<Pressed(r, k)>> ELSE <<>>

\* Mutant: the release of a modifier key is not sent.
SentByReleaseOfLetter(r, k) == IF Keycode(k) = NoKey THEN <<>> ELSE <<Released(r, k)>>

SentByRelease(r, k) == IF k \in Unmapped THEN <<>> ELSE <<Released(r, k)>>

\* What a press and a release send, and what they leave.
SentByBoth(r, k) == SentByPress(r, k) \o SentByRelease(Pressed(r, k), k)
AfterBoth(r, k) == Released(Pressed(r, k), k)

\* A failed press: the caller does not take the key for held.
Holds(k) ==
  IF Succeeds(report, k)
    THEN held' = held \cup {k} /\ UNCHANGED failed
    ELSE failed' = failed \cup ModifiersOf(k) /\ UNCHANGED held

\* After keyboard_begin, whose report is lost: no host has mounted the device.
Init ==
  /\ report = Empty
  /\ endpoint = "Down"
  /\ armed = Empty
  /\ accepted = FALSE
  /\ host = Empty
  /\ held = {}
  /\ failed = {}
  /\ typed = NoKey

PressAndHold(k) ==
  /\ report' = Pressed(report, k)
  /\ SendReports(SentByPress(report, k))
  /\ Holds(k)
  /\ typed' = NoKey

Release(k) ==
  /\ report' = Released(report, k)
  /\ SendReports(SentByRelease(report, k))
  /\ held' = held \ {k}
  /\ typed' = NoKey
  /\ failed' = failed \ ModifiersOf(k)

\* keyboard_release_all; keyboard_begin and keyboard_end do the same.
ReleaseAll ==
  /\ report' = Empty
  /\ SendReports(<<Empty>>)
  /\ held' = {}
  /\ failed' = {}
  /\ typed' = NoKey

PressAndRelease(k) ==
  /\ report' = AfterBoth(report, k)
  /\ SendReports(SentByBoth(report, k))
  /\ held' = held \ {k}
  /\ typed' = IF Succeeds(report, k) THEN Keycode(k) ELSE NoKey
  /\ failed' = failed \ ModifiersOf(k)

\* keyboard_string_to_keypresses, of a string of two letters.
StringToKeypresses(k1, k2) ==
  LET between == AfterBoth(report, k1) IN
  /\ report' = AfterBoth(between, k2)
  /\ SendReports(SentByBoth(report, k1) \o SentByBoth(between, k2))
  /\ held' = held \ {k1, k2}
  /\ typed' = NoKey
  /\ failed' = failed \ (ModifiersOf(k1) \cup ModifiersOf(k2))

\* The host takes the report.
HostPolls ==
  /\ endpoint = "Armed"
  /\ endpoint' = "Polled"
  /\ host' = armed
  /\ UNCHANGED <<report, armed, accepted, callVars>>

\* tud_task sees that the transfer is over.
TudTask ==
  /\ endpoint = "Polled"
  /\ endpoint' = "Free"
  /\ UNCHANGED <<report, armed, accepted, host, callVars>>

Mount ==
  /\ endpoint = "Down"
  /\ endpoint' = "Free"
  /\ UNCHANGED <<report, armed, accepted, host, callVars>>

\* A reset of the bus; for the host no key is down.
Unmount ==
  /\ endpoint # "Down"
  /\ endpoint' = "Down"
  /\ armed' = Empty
  /\ accepted' = FALSE
  /\ host' = Empty
  /\ UNCHANGED <<report, callVars>>

Next ==
  \/ \E k \in Keys : PressAndHold(k) \/ Release(k) \/ PressAndRelease(k)
  \/ \E k1, k2 \in Lower \cup Upper : StringToKeypresses(k1, k2)
  \/ ReleaseAll
  \/ HostPolls
  \/ TudTask
  \/ Mount
  \/ Unmount

Spec == Init /\ [][Next]_vars

-----------------------------------------------------------------------------
TypeOK ==
  /\ report \in Reports /\ armed \in Reports /\ host \in Reports
  /\ endpoint \in {"Down", "Free", "Armed", "Polled"}
  /\ accepted \in BOOLEAN
  /\ held \subseteq Keys /\ failed \subseteq ModifierKeys
  /\ typed \in Codes \cup {NoKey}

\* No key takes two slots (keyboard.c:69-80): the host would see it down twice.
SlotsDistinct ==
  \A i, j \in 1..Slots :
    i # j /\ report.keys[i] # NoKey => report.keys[i] # report.keys[j]

\* Nothing is stuck: a key in the report was pressed and not released, and so was
\* a modifier, or a key that brings it, unless the press failed, which leaves the
\* modifier (keyboard.c:114-116).
NothingStuck ==
  /\ \A code \in Down(report) : \E k \in held : Keycode(k) = code
  /\ \A m \in report.modifiers : m \in failed \/ \E k \in held : m \in ModifiersOf(k)

\* The host has every key of the report, and no other, once a report was taken
\* (keyboard.c:28-31), but for the modifier of a press that failed, which goes
\* with the next report.
HostFollows ==
  accepted /\ endpoint = "Free" =>
    /\ host.keys = report.keys
    /\ host.modifiers \subseteq report.modifiers
    /\ report.modifiers \subseteq host.modifiers \cup failed

\* "Send the 'A' key (press and release)" (keyboard.c:13): after the call, the
\* host does not see the key down any more once the endpoint is free.
TypedIsUp == typed # NoKey /\ endpoint = "Free" => typed \notin Down(host)
=============================================================================
