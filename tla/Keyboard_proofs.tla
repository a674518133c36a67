-------------------------- MODULE Keyboard_proofs --------------------------
(***************************************************************************)
(* Theorems about Keyboard for any keys, letters and number of slots, and  *)
(* their proofs.                                                           *)
(***************************************************************************)
EXTENDS Keyboard, SequenceTheorems, TLAPS

Letters == Lower \cup Upper

-----------------------------------------------------------------------------
(***************************************************************************)
(* What the calls make of a report.                                        *)
(***************************************************************************)

\* A press and a release make reports of reports.
LEMMA CallsKeepReports ==
  ASSUME NEW r \in Reports, NEW k \in Keys
  PROVE  Pressed(r, k) \in Reports /\ Released(r, k) \in Reports
<1>1. ModifiersOf(k) \subseteq ModifierKeys
  BY KeyAssumption DEF ModifiersOf, Keys
<1>2. Keycode(k) \in Codes \cup {NoKey}
  BY DEF Keycode, Codes
<1>3. WithKey(r, Keycode(k)) \in [1..Slots -> Codes \cup {NoKey}]
  BY <1>2 DEF WithKey, Reports
<1>4. Without(r, Keycode(k)) \in [1..Slots -> Codes \cup {NoKey}]
  BY DEF Without, Reports
<1> QED
  BY <1>1, <1>3, <1>4 DEF Pressed, Released, Reports

\* A press adds its key's code to the report, if it finds a slot, and no other.
LEMMA PressAddsOneKey ==
  ASSUME NEW r \in Reports, NEW k \in Keys
  PROVE  /\ Down(Pressed(r, k)) \subseteq Down(r) \cup {Keycode(k)}
         /\ ~Succeeds(r, k) => Pressed(r, k).keys = r.keys
<1>1. CASE Keycode(k) = NoKey
  BY <1>1 DEF Pressed, Down
<1>2. CASE Keycode(k) # NoKey
  <2>1. Pressed(r, k).keys = WithKey(r, Keycode(k))
    BY <1>2 DEF Pressed
  <2>2. \A i \in 1..Slots :
          WithKey(r, Keycode(k))[i] = r.keys[i] \/ WithKey(r, Keycode(k))[i] = Keycode(k)
    BY DEF WithKey, Reports
  <2>3. ~Succeeds(r, k) => WithKey(r, Keycode(k)) = r.keys
    BY <1>2 DEF Succeeds, Fits, WithKey
  <2> QED
    BY <2>1, <2>2, <2>3 DEF Down
<1> QED
  BY <1>1, <1>2

\* A release takes its key's code out of the report, and nothing else.
LEMMA ReleaseRemovesOneKey ==
  ASSUME NEW r \in Reports, NEW k \in Keys
  PROVE  Down(Released(r, k)) = Down(r) \ {Keycode(k)}
<1>1. \A i \in 1..Slots :
        Released(r, k).keys[i] = IF r.keys[i] = Keycode(k) THEN NoKey ELSE r.keys[i]
  BY DEF Released, Without
<1> QED
  BY <1>1 DEF Down

\* The calls on a key without keycode and without bit leave the report alone.
LEMMA UnmappedIsIgnored ==
  ASSUME NEW r \in Reports, NEW k \in Unmapped
  PROVE  Pressed(r, k) = r /\ Released(r, k) = r
<1>1. Keycode(k) = NoKey /\ ModifiersOf(k) = {}
  BY KeyAssumption DEF Keycode, ModifiersOf
<1>2. Without(r, NoKey) = r.keys
  BY DEF Without, Reports
<1>3. r = [modifiers |-> r.modifiers, keys |-> r.keys]
  BY DEF Reports
<1> QED
  BY <1>1, <1>2, <1>3 DEF Pressed, Released

Distinct(r) ==
  \A i, j \in 1..Slots : i # j /\ r.keys[i] # NoKey => r.keys[i] # r.keys[j]

\* The calls give no key a second slot.
LEMMA CallsKeepSlotsDistinct ==
  ASSUME NEW r \in Reports, NEW k \in Keys, Distinct(r)
  PROVE  Distinct(Pressed(r, k)) /\ Distinct(Released(r, k))
<1>1. Distinct(Pressed(r, k))
  <2>1. CASE Keycode(k) = NoKey \/ Keycode(k) \in Down(r) \/ FreeSlots(r) = {}
    BY <2>1 DEF Pressed, WithKey, Distinct
  <2>2. CASE ~(Keycode(k) = NoKey \/ Keycode(k) \in Down(r) \/ FreeSlots(r) = {})
    <3> DEFINE slot == CHOOSE i \in FreeSlots(r) : \A j \in FreeSlots(r) : i <= j
    <3>1. Pressed(r, k).keys = [r.keys EXCEPT ![slot] = Keycode(k)]
      BY <2>2 DEF Pressed, WithKey
    <3>2. \A i \in 1..Slots : r.keys[i] # Keycode(k)
      BY <2>2 DEF Down
    <3> HIDE DEF slot
    <3>3. \A i \in 1..Slots :
            Pressed(r, k).keys[i] = IF i = slot THEN Keycode(k) ELSE r.keys[i]
      BY <3>1 DEF Reports
    <3> QED
      BY <3>2, <3>3 DEF Distinct
  <2> QED
    BY <2>1, <2>2
<1>2. Distinct(Released(r, k))
  BY DEF Released, Without, Distinct
<1> QED
  BY <1>1, <1>2

-----------------------------------------------------------------------------
(***************************************************************************)
(* The steps.                                                              *)
(***************************************************************************)

\* What the calls make of the report.
CallStep ==
  \/ \E k \in Keys : PressAndHold(k) \/ Release(k) \/ PressAndRelease(k)
  \/ \E k1, k2 \in Letters : StringToKeypresses(k1, k2)
  \/ ReleaseAll

\* The endpoint and the host leave the report and the callers' view alone.
UsbStep == UNCHANGED <<report, callVars>>

\* Every step is a call or one of the endpoint.
LEMMA StepsAreCallsOrUsb ==
  ASSUME [Next]_vars
  PROVE  CallStep \/ UsbStep
BY DEF Next, CallStep, UsbStep, Letters, HostPolls, TudTask, Mount, Unmount, vars

\* The report without keys is a report.
LEMMA EmptyIsReport == Empty \in Reports
BY DEF Empty, Reports

\* Letters are keys.
LEMMA LettersAreKeys == Letters \subseteq Keys
BY DEF Letters, Keys

\* A call leaves a report, with no key in two slots if there was none.
ReportOK == report \in Reports /\ Distinct(report)

\* Every step keeps the report in order.
LEMMA ReportOKInductive ==
  ASSUME ReportOK, [Next]_vars
  PROVE  ReportOK'
<1>1. ASSUME NEW r \in Reports, Distinct(r), NEW k \in Keys
      PROVE  AfterBoth(r, k) \in Reports /\ Distinct(AfterBoth(r, k))
  BY <1>1, CallsKeepReports, CallsKeepSlotsDistinct DEF AfterBoth
<1>2. CASE UsbStep
  BY <1>2 DEF UsbStep, ReportOK
<1>3. ASSUME NEW k \in Keys, PressAndHold(k) \/ Release(k) \/ PressAndRelease(k)
      PROVE  ReportOK'
  BY <1>1, <1>3, CallsKeepReports, CallsKeepSlotsDistinct
     DEF ReportOK, PressAndHold, Release, PressAndRelease
<1>4. ASSUME NEW k1 \in Letters, NEW k2 \in Letters, StringToKeypresses(k1, k2)
      PROVE  ReportOK'
  <2>1. AfterBoth(report, k1) \in Reports /\ Distinct(AfterBoth(report, k1))
    BY <1>1, LettersAreKeys DEF ReportOK
  <2>2. report' = AfterBoth(AfterBoth(report, k1), k2)
    BY <1>4 DEF StringToKeypresses
  <2> QED
    BY <1>1, <2>1, <2>2, LettersAreKeys DEF ReportOK
<1>5. CASE ReleaseAll
  BY <1>5, EmptyIsReport DEF ReleaseAll, ReportOK, Distinct, Empty
<1> QED
  BY <1>2, <1>3, <1>4, <1>5, StepsAreCallsOrUsb DEF CallStep

\* The report is in order in every reachable state.
LEMMA ReportIsOK == Spec => []ReportOK
<1>1. Init => ReportOK
  BY EmptyIsReport DEF Init, ReportOK, Distinct, Empty
<1> QED
  BY <1>1, ReportOKInductive, PTL DEF Spec

\* No key takes two slots of the report (keyboard.c:69-80), however presses and
\* releases of any keys follow one another.
THEOREM NoKeyTwice == Spec => []SlotsDistinct
<1>1. ReportOK => SlotsDistinct
  BY DEF ReportOK, Distinct, SlotsDistinct
<1> QED
  BY <1>1, ReportIsOK, PTL

-----------------------------------------------------------------------------
(***************************************************************************)
(* Nothing is stuck.                                                       *)
(***************************************************************************)

\* The keys and modifiers of r are those of K, or of F.
Explained(r, K, F) ==
  /\ \A code \in Down(r) : \E k \in K : Keycode(k) = code
  /\ \A m \in r.modifiers : m \in F \/ \E k \in K : m \in ModifiersOf(k)

\* What a press and release leaves is explained without its key.
LEMMA BothLeaveNothing ==
  ASSUME NEW r \in Reports, NEW k \in Keys, NEW K, NEW F, Explained(r, K, F)
  PROVE  /\ Explained(AfterBoth(r, k), K \ {k}, F \ ModifiersOf(k))
         /\ AfterBoth(r, k) \in Reports
<1>1. Pressed(r, k) \in Reports /\ AfterBoth(r, k) \in Reports
  BY CallsKeepReports DEF AfterBoth
<1>2. Down(AfterBoth(r, k)) \subseteq Down(r) \ {Keycode(k)}
  BY <1>1, PressAddsOneKey, ReleaseRemovesOneKey DEF AfterBoth
<1>3. AfterBoth(r, k).modifiers = r.modifiers \ ModifiersOf(k)
  BY DEF AfterBoth, Released, Pressed
<1> QED
  BY <1>1, <1>2, <1>3 DEF Explained

\* NothingStuck is inductive, given a report in order.
LEMMA NothingStuckInductive ==
  ASSUME ReportOK, NothingStuck, [Next]_vars
  PROVE  NothingStuck'
<1> USE DEF ReportOK
<1>0. Explained(report, held, failed)
  BY DEF NothingStuck, Explained
<1> SUFFICES Explained(report', held', failed')
  BY DEF NothingStuck, Explained
<1>1. CASE UsbStep
  BY <1>0, <1>1 DEF UsbStep, callVars
<1>2. ASSUME NEW k \in Keys, PressAndHold(k)
      PROVE  Explained(report', held', failed')
  <2>1. /\ report' = Pressed(report, k)
        /\ report'.modifiers = report.modifiers \cup ModifiersOf(k)
    BY <1>2 DEF PressAndHold, Pressed
  <2>2. CASE Succeeds(report, k)
    <3>1. held' = held \cup {k} /\ failed' = failed
      BY <1>2, <2>2 DEF PressAndHold, Holds
    <3> QED
      BY <1>0, <2>1, <3>1, PressAddsOneKey DEF Explained
  <2>3. CASE ~Succeeds(report, k)
    <3>1. held' = held /\ failed' = failed \cup ModifiersOf(k)
      BY <1>2, <2>3 DEF PressAndHold, Holds
    <3>2. Down(report') = Down(report)
      BY <2>1, <2>3, PressAddsOneKey DEF Down
    <3> QED
      BY <1>0, <2>1, <3>1, <3>2 DEF Explained
  <2> QED
    BY <2>2, <2>3
<1>3. ASSUME NEW k \in Keys, Release(k)
      PROVE  Explained(report', held', failed')
  <2>1. Down(report') = Down(report) \ {Keycode(k)}
    BY <1>3, ReleaseRemovesOneKey DEF Release
  <2>2. /\ report'.modifiers = report.modifiers \ ModifiersOf(k)
        /\ held' = held \ {k} /\ failed' = failed \ ModifiersOf(k)
    BY <1>3 DEF Release, Released
  <2> QED
    BY <1>0, <2>1, <2>2 DEF Explained
<1>4. ASSUME NEW k \in Keys, PressAndRelease(k)
      PROVE  Explained(report', held', failed')
  BY <1>0, <1>4, BothLeaveNothing DEF PressAndRelease
<1>5. ASSUME NEW k1 \in Letters, NEW k2 \in Letters, StringToKeypresses(k1, k2)
      PROVE  Explained(report', held', failed')
  <2> DEFINE F == failed \ ModifiersOf(k1)
  <2>1. /\ Explained(AfterBoth(report, k1), held \ {k1}, F)
        /\ AfterBoth(report, k1) \in Reports
    BY <1>0, BothLeaveNothing, LettersAreKeys
  <2>2. Explained(AfterBoth(AfterBoth(report, k1), k2), (held \ {k1}) \ {k2},
                  F \ ModifiersOf(k2))
    <3> HIDE DEF F
    <3> QED
      BY <2>1, BothLeaveNothing, LettersAreKeys
  <2>3. /\ report' = AfterBoth(AfterBoth(report, k1), k2)
        /\ held' = held \ {k1, k2}
        /\ failed' = failed \ (ModifiersOf(k1) \cup ModifiersOf(k2))
    BY <1>5 DEF StringToKeypresses
  <2>4. /\ (held \ {k1}) \ {k2} = held \ {k1, k2}
        /\ F \ ModifiersOf(k2) = failed \ (ModifiersOf(k1) \cup ModifiersOf(k2))
    OBVIOUS
  <2> QED
    BY <2>2, <2>3, <2>4
<1>6. CASE ReleaseAll
  BY <1>6 DEF ReleaseAll, Explained, Empty, Down
<1> QED
  BY <1>1, <1>2, <1>3, <1>4, <1>5, <1>6, StepsAreCallsOrUsb DEF CallStep

\* A key in the report was pressed and not released since, and so was one that
\* brings each modifier, but for the modifiers of presses that failed
\* (keyboard.c:101-139).
THEOREM NoKeyIsStuck == Spec => []NothingStuck
<1>1. Init => NothingStuck
  BY DEF Init, NothingStuck, Empty, Down
<1> QED
  BY <1>1, NothingStuckInductive, ReportIsOK, PTL DEF Spec

-----------------------------------------------------------------------------
(***************************************************************************)
(* The host follows the report.                                            *)
(***************************************************************************)

\* A report has the keys of the present one, and its modifiers but for those of
\* failed presses.
UpToDate(r) ==
  /\ r.keys = report.keys
  /\ r.modifiers \subseteq report.modifiers
  /\ report.modifiers \subseteq r.modifiers \cup failed

\* Once the endpoint took a report, that one is in its buffer or at the host.
Delivery ==
  accepted =>
    /\ endpoint # "Down"
    /\ endpoint = "Armed" => UpToDate(armed)
    /\ endpoint \in {"Polled", "Free"} => UpToDate(host)

\* A key without code and bit has no modifier.
LEMMA UnmappedBringsNothing == \A k \in Unmapped : ModifiersOf(k) = {}
BY KeyAssumption DEF ModifiersOf

\* A call that sends one report sends the present one.
LEMMA OneReportIsUpToDate ==
  ASSUME NEW r, SendReports(<<r>>), r = report'
  PROVE  Delivery'
<1>1. <<r>> # <<>> /\ Len(<<r>>) = 1 /\ Head(<<r>>) = r
  OBVIOUS
<1> QED
  BY <1>1 DEF SendReports, Delivery, UpToDate

\* A call that sends more has the last one refused.
LEMMA SecondReportIsRefused ==
  ASSUME NEW reports, reports # <<>>, Len(reports) # 1, SendReports(reports)
  PROVE  Delivery'
BY DEF SendReports, Delivery

\* A call that sends nothing leaves the keys and adds failed modifiers at most.
LEMMA NoReportStaysUpToDate ==
  ASSUME SendReports(<<>>), Delivery,
         report'.keys = report.keys,
         report.modifiers \subseteq report'.modifiers,
         report'.modifiers \subseteq report.modifiers \cup failed',
         failed \subseteq failed'
  PROVE  Delivery'
<1>1. /\ endpoint' = endpoint /\ armed' = armed
      /\ accepted' = accepted /\ host' = host
  BY DEF SendReports
<1> QED
  BY <1>1 DEF Delivery, UpToDate

\* Two reports are neither none nor one.
LEMMA TwoReports ==
  ASSUME NEW s \in Seq(Reports), Len(s) = 2
  PROVE  s # <<>> /\ Len(s) # 1
OBVIOUS

\* Nor are the reports of two calls that send one or two each.
LEMMA ReportsOfTwoCalls ==
  ASSUME NEW s \in Seq(Reports), NEW t \in Seq(Reports),
         Len(s) \in {1, 2}, Len(t) \in {1, 2}
  PROVE  s \o t # <<>> /\ Len(s \o t) # 1
<1>1. s \o t \in Seq(Reports) /\ Len(s \o t) = Len(s) + Len(t)
  BY ConcatProperties
<1> QED
  BY <1>1

\* A press sends a report if it succeeds, and so does every release of a key that
\* has a code or a bit.
LEMMA SentReports ==
  ASSUME NEW r \in Reports, NEW k \in Keys \ Unmapped
  PROVE  /\ Pressed(r, k) \in Reports /\ AfterBoth(r, k) \in Reports
         /\ SentByBoth(r, k) \in Seq(Reports)
         /\ Succeeds(r, k) => Len(SentByBoth(r, k)) = 2
         /\ ~Succeeds(r, k) => SentByBoth(r, k) = <<AfterBoth(r, k)>>
<1> DEFINE p == Pressed(r, k)
           b == AfterBoth(r, k)
<1>1. p \in Reports /\ b \in Reports
  BY CallsKeepReports DEF AfterBoth
<1>2. SentByBoth(r, k) = (IF Succeeds(r, k) THEN <<p>> ELSE <<>>) \o <<b>>
  BY DEF SentByBoth, SentByPress, SentByRelease, AfterBoth
<1> HIDE DEF p, b
<1>3. <<p>> \in Seq(Reports) /\ <<b>> \in Seq(Reports) /\ Len(<<p>>) = 1 /\ Len(<<b>>) = 1
  BY <1>1
<1>4. <<p>> \o <<b>> \in Seq(Reports) /\ Len(<<p>> \o <<b>>) = 2
  BY <1>3, ConcatProperties
<1>5. <<>> \o <<b>> = <<b>>
  BY <1>3, ConcatEmptySeq
<1> QED
  BY <1>1, <1>2, <1>3, <1>4, <1>5 DEF p, b

\* Nothing is sent for a key without code and bit.
LEMMA NothingIsSentOfUnmapped ==
  ASSUME NEW r \in Reports, NEW k \in Unmapped
  PROVE  SentByBoth(r, k) = <<>> /\ AfterBoth(r, k) = r
<1>1. ~Succeeds(r, k) /\ AfterBoth(r, k) = r
  BY UnmappedIsIgnored, KeyAssumption DEF AfterBoth, Succeeds, Keycode
<1>2. <<>> \o <<>> = <<>>
  OBVIOUS
<1> QED
  BY <1>1, <1>2 DEF SentByBoth, SentByPress, SentByRelease

\* Every step keeps the report taken last up to date.
LEMMA DeliveryInductive ==
  ASSUME ReportOK, Delivery, [Next]_vars
  PROVE  Delivery'
<1> USE DEF ReportOK
<1>1. ASSUME NEW k \in Keys, PressAndHold(k)
      PROVE  Delivery'
  <2>1. report' = Pressed(report, k) /\ SendReports(SentByPress(report, k))
    BY <1>1 DEF PressAndHold
  <2>2. CASE Succeeds(report, k)
    BY <2>1, <2>2, OneReportIsUpToDate DEF SentByPress
  <2>3. CASE ~Succeeds(report, k)
    <3>1. failed' = failed \cup ModifiersOf(k)
      BY <1>1, <2>3 DEF PressAndHold, Holds
    <3>2. report'.modifiers = report.modifiers \cup ModifiersOf(k)
      BY <2>1 DEF Pressed
    <3> QED
      BY <2>1, <2>3, <3>1, <3>2, PressAddsOneKey, NoReportStaysUpToDate DEF SentByPress
  <2> QED
    BY <2>2, <2>3
<1>2. ASSUME NEW k \in Keys, Release(k)
      PROVE  Delivery'
  <2>1. /\ report' = Released(report, k) /\ failed' = failed \ ModifiersOf(k)
        /\ SendReports(SentByRelease(report, k))
    BY <1>2 DEF Release
  <2>2. CASE k \in Unmapped
    BY <2>1, <2>2, UnmappedIsIgnored, UnmappedBringsNothing, NoReportStaysUpToDate
       DEF SentByRelease
  <2>3. CASE k \notin Unmapped
    BY <2>1, <2>3, CallsKeepReports, OneReportIsUpToDate DEF SentByRelease
  <2> QED
    BY <2>2, <2>3
<1>3. ASSUME NEW k \in Keys, PressAndRelease(k)
      PROVE  Delivery'
  <2>1. /\ report' = AfterBoth(report, k) /\ failed' = failed \ ModifiersOf(k)
        /\ SendReports(SentByBoth(report, k))
    BY <1>3 DEF PressAndRelease
  <2>2. CASE k \in Unmapped
    BY <2>1, <2>2, NothingIsSentOfUnmapped, UnmappedBringsNothing, NoReportStaysUpToDate
  <2>3. CASE k \notin Unmapped
    <3>1. CASE Succeeds(report, k)
      <4>1. SentByBoth(report, k) \in Seq(Reports) /\ Len(SentByBoth(report, k)) = 2
        BY <2>3, <3>1, SentReports
      <4> QED
        BY <2>1, <4>1, TwoReports, SecondReportIsRefused
    <3>2. CASE ~Succeeds(report, k)
      BY <2>1, <2>3, <3>2, SentReports, OneReportIsUpToDate
    <3> QED
      BY <3>1, <3>2
  <2> QED
    BY <2>2, <2>3
<1>4. ASSUME NEW k1 \in Letters, NEW k2 \in Letters, StringToKeypresses(k1, k2)
      PROVE  Delivery'
  <2> DEFINE between == AfterBoth(report, k1)
             s1 == SentByBoth(report, k1)
             s2 == SentByBoth(between, k2)
  <2>1. k1 \in Keys \ Unmapped /\ k2 \in Keys \ Unmapped
    BY LettersAreKeys, KeyAssumption DEF Letters
  <2>2. between \in Reports
    BY <2>1, SentReports
  <2>3. s1 \in Seq(Reports) /\ Len(s1) \in {1, 2}
    BY <2>1, SentReports
  <2>4. s2 \in Seq(Reports) /\ Len(s2) \in {1, 2}
    BY <2>1, <2>2, SentReports
  <2>5. SendReports(s1 \o s2)
    BY <1>4 DEF StringToKeypresses
  <2> HIDE DEF between, s1, s2
  <2>6. s1 \o s2 # <<>> /\ Len(s1 \o s2) # 1
    BY <2>3, <2>4, ReportsOfTwoCalls
  <2> QED
    BY <2>5, <2>6, SecondReportIsRefused
<1>5. CASE ReleaseAll
  BY <1>5, EmptyIsReport, OneReportIsUpToDate DEF ReleaseAll
<1>6. CASE HostPolls \/ TudTask
  BY <1>6 DEF HostPolls, TudTask, Delivery, UpToDate, callVars
<1>7. CASE Mount
  BY <1>7 DEF Mount, Delivery, UpToDate, callVars
<1>8. CASE Unmount
  BY <1>8 DEF Unmount, Delivery
<1>9. CASE UNCHANGED vars
  BY <1>9 DEF vars, usbVars, callVars, Delivery, UpToDate
<1> QED
  BY <1>1, <1>2, <1>3, <1>4, <1>5, <1>6, <1>7, <1>8, <1>9 DEF Next, Letters

\* Once the endpoint has taken a report and is free again, the host has every key
\* of the present report and no other, but for the modifiers of failed presses
\* (keyboard.c:28-31, 101-152), for any number of keys, slots and calls.
THEOREM HostHasTheReport == Spec => []HostFollows
<1>1. Init => Delivery
  BY DEF Init, Delivery
<1>2. Delivery => HostFollows
  BY DEF Delivery, UpToDate, HostFollows
<1> QED
  BY <1>1, <1>2, DeliveryInductive, ReportIsOK, PTL DEF Spec

-----------------------------------------------------------------------------
(***************************************************************************)
(* Types.                                                                  *)
(***************************************************************************)

\* The variables of the USB side keep their types when reports are sent.
LEMMA SendKeepsTypes ==
  ASSUME TypeOK, NEW reports \in Seq(Reports), SendReports(reports)
  PROVE  /\ armed' \in Reports /\ host' \in Reports
         /\ endpoint' \in {"Down", "Free", "Armed", "Polled"}
         /\ accepted' \in BOOLEAN
<1>1. reports # <<>> => Head(reports) \in Reports
  OBVIOUS
<1> QED
  BY <1>1 DEF SendReports, TypeOK

\* What a press and a release send are reports.
LEMMA SentAreReports ==
  ASSUME NEW r \in Reports, NEW k \in Keys
  PROVE  /\ SentByPress(r, k) \in Seq(Reports)
         /\ SentByRelease(r, k) \in Seq(Reports)
         /\ SentByBoth(r, k) \in Seq(Reports)
         /\ AfterBoth(r, k) \in Reports
<1>1. Pressed(r, k) \in Reports /\ Released(r, k) \in Reports
  BY CallsKeepReports
<1>2. Released(Pressed(r, k), k) \in Reports
  BY <1>1, CallsKeepReports
<1>3. SentByPress(r, k) \in Seq(Reports)
  BY <1>1 DEF SentByPress
<1>4. SentByRelease(r, k) \in Seq(Reports) /\ SentByRelease(Pressed(r, k), k) \in Seq(Reports)
  BY <1>1, <1>2 DEF SentByRelease
<1> QED
  BY <1>2, <1>3, <1>4, ConcatProperties DEF SentByBoth, AfterBoth

\* Every step keeps the types.
LEMMA TypeInductive == TypeOK /\ [Next]_vars => TypeOK'
<1> SUFFICES ASSUME TypeOK, [Next]_vars PROVE TypeOK'
  OBVIOUS
<1>0. report \in Reports
  BY DEF TypeOK
<1>1. \A k \in Keys : Keycode(k) \in Codes \cup {NoKey} /\ ModifiersOf(k) \subseteq ModifierKeys
  BY KeyAssumption DEF Keycode, Codes, ModifiersOf, Keys
<1>2. ASSUME NEW k \in Keys, PressAndHold(k)
      PROVE  TypeOK'
  <2>1. report' \in Reports
    BY <1>0, <1>2, CallsKeepReports DEF PressAndHold
  <2>2. held' \subseteq Keys /\ failed' \subseteq ModifierKeys
    BY <1>1, <1>2 DEF PressAndHold, Holds, TypeOK
  <2>3. typed' \in Codes \cup {NoKey}
    BY <1>2 DEF PressAndHold
  <2>4. SendReports(SentByPress(report, k))
    BY <1>2 DEF PressAndHold
  <2> QED
    BY <1>0, <2>1, <2>2, <2>3, <2>4, SentAreReports, SendKeepsTypes DEF TypeOK
<1>3. ASSUME NEW k \in Keys, Release(k)
      PROVE  TypeOK'
  <2>1. report' \in Reports
    BY <1>0, <1>3, CallsKeepReports DEF Release
  <2>2. /\ held' \subseteq Keys /\ failed' \subseteq ModifierKeys
        /\ typed' \in Codes \cup {NoKey}
    BY <1>3 DEF Release, TypeOK
  <2>3. SendReports(SentByRelease(report, k))
    BY <1>3 DEF Release
  <2> QED
    BY <1>0, <2>1, <2>2, <2>3, SentAreReports, SendKeepsTypes DEF TypeOK
<1>4. ASSUME NEW k \in Keys, PressAndRelease(k)
      PROVE  TypeOK'
  <2>1. report' \in Reports
    BY <1>0, <1>4, SentAreReports DEF PressAndRelease
  <2>2. /\ held' \subseteq Keys /\ failed' \subseteq ModifierKeys
        /\ typed' \in Codes \cup {NoKey}
    BY <1>1, <1>4 DEF PressAndRelease, TypeOK
  <2>3. SendReports(SentByBoth(report, k))
    BY <1>4 DEF PressAndRelease
  <2> QED
    BY <1>0, <2>1, <2>2, <2>3, SentAreReports, SendKeepsTypes DEF TypeOK
<1>5. ASSUME NEW k1 \in Letters, NEW k2 \in Letters, StringToKeypresses(k1, k2)
      PROVE  TypeOK'
  <2> DEFINE between == AfterBoth(report, k1)
             sent == SentByBoth(report, k1) \o SentByBoth(between, k2)
  <2>1. k1 \in Keys /\ k2 \in Keys
    BY LettersAreKeys
  <2>2. between \in Reports /\ SentByBoth(report, k1) \in Seq(Reports)
    BY <1>0, <2>1, SentAreReports
  <2> HIDE DEF between
  <2>3. AfterBoth(between, k2) \in Reports /\ SentByBoth(between, k2) \in Seq(Reports)
    BY <2>1, <2>2, SentAreReports
  <2>4. sent \in Seq(Reports)
    BY <2>2, <2>3, ConcatProperties
  <2> HIDE DEF sent
  <2>5. /\ report' = AfterBoth(between, k2) /\ SendReports(sent)
        /\ held' \subseteq Keys /\ failed' \subseteq ModifierKeys
        /\ typed' \in Codes \cup {NoKey}
    BY <1>5 DEF StringToKeypresses, TypeOK, between, sent
  <2> QED
    BY <2>3, <2>4, <2>5, SendKeepsTypes DEF TypeOK
<1>6. CASE ReleaseAll
  <2>1. Empty \in Reports /\ <<Empty>> \in Seq(Reports)
    BY EmptyIsReport
  <2>2. /\ report' = Empty /\ SendReports(<<Empty>>)
        /\ held' \subseteq Keys /\ failed' \subseteq ModifierKeys
        /\ typed' \in Codes \cup {NoKey}
    BY <1>6 DEF ReleaseAll
  <2> QED
    BY <2>1, <2>2, SendKeepsTypes DEF TypeOK
<1>7. CASE HostPolls \/ TudTask \/ Mount \/ Unmount
  BY <1>7, EmptyIsReport DEF HostPolls, TudTask, Mount, Unmount, TypeOK, callVars
<1>8. CASE UNCHANGED vars
  BY <1>8 DEF vars, usbVars, callVars, TypeOK
<1> QED
  BY <1>2, <1>3, <1>4, <1>5, <1>6, <1>7, <1>8 DEF Next, Letters

\* What the endpoint holds and what the host gets are reports, whatever calls,
\* polls and resets of the bus follow one another (keyboard.c:28-31).
THEOREM ReportsHaveTypes == Spec => []TypeOK
<1>1. Init => TypeOK
  BY EmptyIsReport DEF Init, TypeOK
<1> QED
  BY <1>1, TypeInductive, PTL DEF Spec
=============================================================================
