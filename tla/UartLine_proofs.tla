-------------------------- MODULE UartLine_proofs ---------------------------
(***************************************************************************)
(* Proofs about UartLine, whatever the lengths: a panel that answers in    *)
(* full is heard, on every line; and when late answers come on a shared    *)
(* USART only, what a receive completes with in a turn that began silent   *)
(* is the answer.                                                          *)
(***************************************************************************)
EXTENDS UartLine, SequenceTheorems, TLAPS

Byte == {0, 1} \X Nat

InRegister == IF rdr = None THEN 0 ELSE 1

UartTypeOK ==
  /\ line \in Lines
  /\ turn \in BOOLEAN
  /\ silent \in BOOLEAN
  /\ phase \in {"Idle", "Sending", "Waiting", "Received", "Done"}
  /\ complete \in BOOLEAN
  /\ id \in {0, 1}
  /\ want \in Nat
  /\ answered \in BOOLEAN
  /\ wire \in Seq(Byte)
  /\ rdr \in Byte \cup {None}
  /\ dmar \in BOOLEAN
  /\ left \in Nat
  /\ buffer \in Seq(Byte)

\* The receive and the flag are about the bytes that are missing.
Receiving ==
  /\ turn
  /\ left + Len(buffer) = want
  /\ dmar <=> left # 0
  /\ complete <=> left = 0

\* As many bytes are at hand as the receive is for.
Enough == Len(buffer) + InRegister + Len(wire) >= want

LineInv ==
  /\ UartTypeOK
  /\ phase \in {"Sending", "Waiting"} => Receiving
  /\ phase \notin {"Sending", "Waiting"} => ~dmar /\ ~complete
  /\ phase = "Sending" => ~answered
  /\ phase = "Received" => turn
  /\ phase = "Waiting" /\ answered /\ ~complete => Enough

\* What was received, what is in the register and what is on the wire follow one
\* another in the answer to the present request.
InOrder ==
  /\ \A i \in 1..Len(buffer) : buffer[i] = <<id, i>>
  /\ rdr # None => rdr = <<id, Len(buffer) + 1>>
  /\ \A i \in 1..Len(wire) : wire[i] = <<id, Len(buffer) + InRegister + i>>
  /\ Len(buffer) + InRegister + Len(wire) <= want
  /\ answered => Len(buffer) + InRegister + Len(wire) = want

\* Nothing is left of an answer.
Quiet == rdr = None /\ wire = <<>>

\* In a silent turn, whatever is on its way or has come is of this request.
InTurn ==
  /\ phase = "Waiting" => InOrder
  /\ phase = "Sending" => buffer = <<>>
  /\ phase \in {"Sending", "Received"} \/ (phase = "Idle" /\ turn) => Quiet

\* A USART of its own is always silent between requests.
Own == silent /\ (phase \in {"Idle", "Done"} => Quiet)

HearInv ==
  /\ silent => InTurn
  /\ ~line.shared => Own

OnlySharedIsLate == \A l \in Lines : l.late => l.shared

-----------------------------------------------------------------------------
\* Answer and SubSeq: the first n bytes of an answer, alone on the wire.
LEMMA AnswerPrefix ==
  ASSUME NEW r \in {0, 1}, NEW m \in Nat, NEW n \in 0..m
  PROVE  /\ SubSeq(Answer(r, m), 1, n) \in Seq(Byte)
         /\ Len(SubSeq(Answer(r, m), 1, n)) = n
         /\ Len(<<>> \o SubSeq(Answer(r, m), 1, n)) = n
         /\ \A i \in 1..n : (<<>> \o SubSeq(Answer(r, m), 1, n))[i] = <<r, i>>
<1>1. Answer(r, m) \in Seq(Byte) /\ Len(Answer(r, m)) = m
  BY DEF Answer, Byte
<1>2. /\ SubSeq(Answer(r, m), 1, n) \in Seq(Byte)
      /\ Len(SubSeq(Answer(r, m), 1, n)) = n
      /\ \A i \in 1..n : SubSeq(Answer(r, m), 1, n)[i] = Answer(r, m)[i]
  BY <1>1, SubSeqProperties
<1>3. \A i \in 1..n : Answer(r, m)[i] = <<r, i>>
  BY DEF Answer
<1>4. <<>> \o SubSeq(Answer(r, m), 1, n) = SubSeq(Answer(r, m), 1, n)
  BY <1>2, ConcatEmptySeq
<1> QED  BY <1>2, <1>3, <1>4

\* A sequence with the bytes of an answer is the answer.
LEMMA IsAnswer ==
  ASSUME NEW s \in Seq(Byte), NEW r \in {0, 1}, NEW m \in Nat,
         Len(s) = m, \A i \in 1..Len(s) : s[i] = <<r, i>>
  PROVE  s = Answer(r, m)
<1>1. Answer(r, m) \in Seq(Byte) /\ Len(Answer(r, m)) = m
  BY DEF Answer, Byte
<1>2. \A i \in 1..m : s[i] = Answer(r, m)[i]
  BY DEF Answer
<1> QED  BY <1>1, <1>2, SeqEqual

\* Head and Tail of a sequence of bytes.
LEMMA NonEmpty ==
  ASSUME NEW s \in Seq(Byte)
  PROVE  /\ Len(s) \in Nat
         /\ s = <<>> <=> Len(s) = 0
         /\ s # <<>> => /\ Head(s) = s[1]
                        /\ Head(s) \in Byte
                        /\ Tail(s) \in Seq(Byte)
                        /\ Len(Tail(s)) = Len(s) - 1
                        /\ \A i \in 1..Len(Tail(s)) : Tail(s)[i] = s[i + 1]
<1>1. Len(s) \in Nat /\ (s = <<>> <=> Len(s) = 0)
  BY EmptySeq, LenProperties
<1>2. ASSUME s # <<>>
      PROVE  /\ Head(s) = s[1]
             /\ Head(s) \in Byte
             /\ Tail(s) \in Seq(Byte)
             /\ Len(Tail(s)) = Len(s) - 1
             /\ \A i \in 1..Len(Tail(s)) : Tail(s)[i] = s[i + 1]
  BY <1>2, HeadTailProperties, ElementOfSeq
<1> QED  BY <1>1, <1>2

\* One byte less on the wire is one more in the register.
LEMMA Shift ==
  ASSUME NEW b \in Nat, NEW w \in Nat, NEW r, NEW m \in Nat, r = w - 1
  PROVE  /\ b + 0 + w <= m => b + 1 + r <= m
         /\ b + 0 + w = m => b + 1 + r = m
OBVIOUS

\* A byte in the register makes it full.
LEMMA ByteIsNotNone == \A b \in Byte : b # None
  BY NoneAssumption DEF Byte

-----------------------------------------------------------------------------
(***************************************************************************)
(* The steps keep LineInv, one lemma for each action.                      *)
(***************************************************************************)

\* The receive is for all of the answer.
LEMMA AskKeeps ==
  ASSUME LineInv, NEW n \in Lengths, Ask(n)
  PROVE  LineInv'
<1>1. n \in Nat /\ n # 0
  BY LengthsAssumption
<1>2. ~complete
  BY DEF LineInv, Ask
<1>3. <<>> \in Seq(Byte) /\ Len(<<>>) = 0
  OBVIOUS
<1>4. UartTypeOK'
  <2>1. UartTypeOK
    BY DEF LineInv
  <2>2. id' \in {0, 1}
    BY <2>1 DEF UartTypeOK, Ask
  <2>3. want' \in Nat /\ left' \in Nat /\ dmar' \in BOOLEAN /\ answered' \in BOOLEAN
    BY <1>1 DEF Ask, ReceiveDma, Counted
  <2>4. wire' \in Seq(Byte) /\ buffer' \in Seq(Byte) /\ rdr' \in Byte \cup {None}
    BY <1>3, <2>1 DEF UartTypeOK, Ask, ReceiveDma
  <2>5. /\ phase' = "Sending" /\ line' \in Lines /\ turn' \in BOOLEAN
        /\ silent' \in BOOLEAN /\ complete' \in BOOLEAN
    BY <2>1 DEF UartTypeOK, Ask
  <2> QED
    BY <2>2, <2>3, <2>4, <2>5 DEF UartTypeOK
<1>5. Receiving'
  BY <1>1, <1>2, <1>3 DEF Ask, ReceiveDma, Counted, Receiving
<1> QED
  BY <1>2, <1>4, <1>5 DEF LineInv, Ask, ReceiveDma

\* An answer in full puts as many bytes on the wire as the receive is for.
LEMMA SendCompleteKeeps ==
  ASSUME LineInv, NEW n \in 0..want, SendComplete(n)
  PROVE  LineInv'
<1> USE DEF SendComplete, uartVars
<1>1. /\ id \in {0, 1}
      /\ want \in Nat
      /\ n \in Nat
      /\ wire \in Seq(Byte)
      /\ buffer \in Seq(Byte)
  BY DEF LineInv, UartTypeOK
<1>2. /\ SubSeq(Answer(id, want), 1, n) \in Seq(Byte)
      /\ Len(SubSeq(Answer(id, want), 1, n)) = n
  BY <1>1, AnswerPrefix
<1>3. wire' \in Seq(Byte) /\ Len(wire') = Len(wire) + n
  BY <1>1, <1>2, ConcatProperties
<1>4. UartTypeOK'
  BY <1>3 DEF LineInv, UartTypeOK
<1>5. Receiving'
  BY DEF LineInv, Receiving
<1>6. answered' => Enough'
  <2>1. Len(wire) \in Nat /\ Len(buffer) \in Nat
    BY <1>1, NonEmpty
  <2>2. InRegister \in {0, 1} /\ InRegister' = InRegister /\ buffer' = buffer /\ want' = want
    BY DEF InRegister
  <2>3. answered' => n = want
    OBVIOUS
  <2>4. ASSUME n = want
        PROVE  Len(buffer) + InRegister + (Len(wire) + n) >= want
    BY <1>1, <2>1, <2>2, <2>4
  <2> HIDE DEF SendComplete
  <2> QED  BY <1>3, <2>2, <2>3, <2>4 DEF Enough
<1> QED
  BY <1>4, <1>5, <1>6 DEF LineInv

\* A byte that arrives while the bus waits finds the register empty.
LEMMA ByteArrivesKeeps ==
  ASSUME LineInv, ByteArrives
  PROVE  LineInv'
<1> USE DEF ByteArrives, busVars, requestVars
<1>1. /\ Tail(wire) \in Seq(Byte)
      /\ Head(wire) \in Byte
      /\ Len(wire) \in Nat
      /\ Len(Tail(wire)) = Len(wire) - 1
  BY NonEmpty DEF LineInv, UartTypeOK
<1>2. UartTypeOK'
  <2>1. rdr' \in Byte \cup {None}
    BY <1>1 DEF LineInv, UartTypeOK
  <2> QED  BY <1>1, <2>1 DEF LineInv, UartTypeOK
<1>3. Receiving => Receiving'
  BY DEF Receiving
<1>4. ASSUME phase = "Waiting", answered, ~complete
      PROVE  Enough'
  <2>1. Receiving /\ Enough
    BY <1>4 DEF LineInv
  <2>2. rdr = None /\ turn
    BY <1>4, <2>1 DEF Receiving
  <2>3. rdr' # None
    BY <1>1, <2>2, ByteIsNotNone DEF Connected
  <2>4. InRegister = 0 /\ InRegister' = 1
    BY <2>2, <2>3 DEF InRegister
  <2>5. Len(buffer) \in Nat /\ want \in Nat
    BY NonEmpty DEF LineInv, UartTypeOK
  <2>6. Len(buffer) + 0 + Len(wire) >= want => Len(buffer) + 1 + (Len(wire) - 1) >= want
    BY <1>1, <2>5
  <2>7. wire' = Tail(wire) /\ buffer' = buffer /\ want' = want
    OBVIOUS
  <2> HIDE DEF ByteArrives
  <2> QED  BY <1>1, <2>1, <2>4, <2>6, <2>7 DEF Enough
<1>5. UNCHANGED <<phase, turn, answered, complete, dmar>>
  OBVIOUS
<1> HIDE DEF ByteArrives
<1> QED  BY <1>2, <1>3, <1>4, <1>5 DEF LineInv

\* The byte the DMA takes goes from the register to the buffer.
LEMMA TakeByteKeeps ==
  ASSUME LineInv, TakeByte
  PROVE  LineInv'
<1> USE DEF TakeByte, busVars, requestVars
<1>1. phase \in {"Sending", "Waiting"} /\ Receiving
  BY DEF LineInv
<1>2. /\ buffer \in Seq(Byte)
      /\ Len(buffer) \in Nat
      /\ Len(wire) \in Nat
      /\ want \in Nat
      /\ left \in Nat \ {0}
      /\ rdr \in Byte
  BY <1>1, NonEmpty DEF LineInv, UartTypeOK, Receiving
<1>3. /\ buffer' \in Seq(Byte)
      /\ Len(buffer') = Len(buffer) + 1
  BY <1>2, AppendProperties
<1>4. UartTypeOK'
  <2>1. UartTypeOK
    BY DEF LineInv
  <2>2. left' \in Nat
    BY <1>2
  <2>3. dmar' \in BOOLEAN /\ complete' \in BOOLEAN
    BY <2>1 DEF UartTypeOK
  <2>4. /\ phase' \in {"Idle", "Sending", "Waiting", "Received", "Done"}
        /\ line' \in Lines /\ turn' \in BOOLEAN /\ silent' \in BOOLEAN
        /\ id' \in {0, 1} /\ want' \in Nat /\ answered' \in BOOLEAN
        /\ wire' \in Seq(Byte) /\ rdr' \in Byte \cup {None}
    BY <2>1 DEF UartTypeOK
  <2> QED
    BY <1>3, <2>2, <2>3, <2>4 DEF UartTypeOK
<1>5. Receiving'
  <2>1. turn' /\ left' + Len(buffer') = want'
    BY <1>1, <1>2, <1>3 DEF Receiving
  <2>2. CASE left = 1
    BY <1>2, <2>1, <2>2 DEF Receiving
  <2>3. CASE left # 1
    <3>1. left' # 0
      BY <1>2, <2>3
    <3> QED  BY <1>1, <1>2, <2>1, <2>3, <3>1 DEF Receiving
  <2> QED  BY <2>2, <2>3
<1>6. Enough => Enough'
  <2>1. InRegister = 1 /\ InRegister' = 0 /\ wire' = wire /\ want' = want
    BY DEF InRegister
  <2>2. Len(buffer) + 1 + Len(wire) >= want => (Len(buffer) + 1) + 0 + Len(wire) >= want
    BY <1>2
  <2> HIDE DEF TakeByte
  <2> QED  BY <1>3, <2>1, <2>2 DEF Enough
<1>7. UNCHANGED <<phase, answered>> /\ (~complete' => ~complete)
  BY DEF LineInv, UartTypeOK, Receiving
<1> HIDE DEF TakeByte
<1> QED
  BY <1>1, <1>4, <1>5, <1>6, <1>7 DEF LineInv

\* A receive that is complete has stopped the DMA.
LEMMA ProcessKeeps ==
  ASSUME LineInv, Process
  PROVE  LineInv'
<1> USE DEF Process, requestVars, uartVars
<1>1. ~dmar /\ turn
  BY DEF LineInv, UartTypeOK, Receiving
<1> QED
  BY <1>1 DEF LineInv, UartTypeOK

\* An abort stops the DMA.
LEMMA TimedOutKeeps ==
  ASSUME LineInv, TimedOut
  PROVE  LineInv'
<1>1. UartTypeOK'
  BY DEF LineInv, UartTypeOK, TimedOut, AbortReceive, requestVars
<1> QED
  BY <1>1 DEF LineInv, TimedOut, AbortReceive, requestVars

\* The turn is lost between requests.
LEMMA LoseTurnKeeps ==
  ASSUME LineInv, LoseTurn
  PROVE  LineInv'
BY DEF LineInv, UartTypeOK, LoseTurn, requestVars, uartVars

\* The turn comes between requests.
LEMMA ConnectPortKeeps ==
  ASSUME LineInv, ConnectPort
  PROVE  LineInv'
<1>1. phase \in {"Idle", "Done"} /\ ~dmar /\ ~complete
  BY DEF LineInv, UartTypeOK, Receiving, ConnectPort
<1>2. UartTypeOK'
  <2>1. UartTypeOK
    BY DEF LineInv
  <2>2. rdr' \in Byte \cup {None} /\ dmar' \in BOOLEAN /\ left' \in Nat
    <3>1. CASE line.shared
      <4>1. rdr' = None /\ dmar' = FALSE /\ left' = 0
        BY <3>1 DEF ConnectPort, Reinitialize
      <4> QED  BY <4>1
    <3>2. CASE ~line.shared
      BY <2>1, <3>2 DEF ConnectPort, UartTypeOK, uartVars
    <3> QED  BY <3>1, <3>2
  <2>3. silent' \in BOOLEAN
    BY DEF ConnectPort
  <2> QED
    BY <2>1, <2>2, <2>3 DEF UartTypeOK, ConnectPort, requestVars
<1>3. ~dmar' /\ ~complete' /\ phase' = phase
  BY <1>1 DEF ConnectPort, Reinitialize, uartVars
<1> QED
  BY <1>1, <1>2, <1>3 DEF LineInv

-----------------------------------------------------------------------------
(***************************************************************************)
(* And HearInv.                                                            *)
(***************************************************************************)

\* A request finds a silent line quiet.
LEMMA AskHears ==
  ASSUME LineInv, HearInv, NEW n \in Lengths, Ask(n)
  PROVE  HearInv'
<1>1. silent => Quiet
  BY DEF HearInv, InTurn, Ask
<1>2. Quiet => Quiet'
  BY DEF Quiet, Ask, ReceiveDma
<1>3. phase' = "Sending" /\ buffer' = <<>> /\ silent' = silent /\ line' = line
  BY DEF Ask, ReceiveDma
<1> QED
  BY <1>1, <1>2, <1>3 DEF HearInv, InTurn, Own

\* What the panel puts on a quiet wire is the answer from its first byte on.
LEMMA SendCompleteHears ==
  ASSUME LineInv, HearInv, NEW n \in 0..want, SendComplete(n)
  PROVE  HearInv'
<1> USE DEF SendComplete, uartVars
<1>1. /\ id \in {0, 1}
      /\ want \in Nat
  BY DEF LineInv, UartTypeOK
<1>2. ASSUME silent
      PROVE  InOrder'
  <2>1. wire = <<>> /\ rdr = None /\ buffer = <<>>
    BY <1>2 DEF HearInv, InTurn, Quiet
  <2>2. /\ Len(wire') = n
        /\ \A i \in 1..n : wire'[i] = <<id, i>>
    BY <1>1, <2>1, AnswerPrefix
  <2>3. InRegister' = 0 /\ Len(buffer') = 0
    BY <2>1 DEF InRegister
  <2>4. /\ buffer' = <<>>
        /\ rdr' = None
        /\ id' = id
        /\ want' = want
        /\ answered' = (n = want)
    BY <2>1
  <2>5. n \in Nat /\ n <= want
    BY <1>1
  <2>6. \A i \in 1..Len(wire') : wire'[i] = <<id', Len(buffer') + InRegister' + i>>
    <3>1. TAKE i \in 1..Len(wire')
    <3>2. i \in 1..n /\ i \in Nat
      BY <2>2, <2>5
    <3>3. wire'[i] = <<id, i>>
      BY <2>2, <3>2
    <3>4. Len(buffer') + InRegister' + i = i
      BY <2>3, <3>2
    <3> QED  BY <2>4, <3>3, <3>4
  <2>7. /\ Len(buffer') + InRegister' + Len(wire') <= want'
        /\ answered' => Len(buffer') + InRegister' + Len(wire') = want'
    <3>1. Len(buffer') + InRegister' + Len(wire') = n
      BY <2>2, <2>3, <2>5
    <3> HIDE DEF SendComplete
    <3> QED  BY <2>4, <2>5, <3>1
  <2> QED
    BY <2>3, <2>4, <2>6, <2>7 DEF InOrder
<1>3. phase' = "Waiting" /\ silent' = silent /\ line' = line
  OBVIOUS
<1> HIDE DEF SendComplete
<1> QED
  BY <1>2, <1>3 DEF HearInv, InTurn, Own

\* A byte that arrives in a silent turn is the next of the answer.
LEMMA ByteArrivesHears ==
  ASSUME LineInv, HearInv, ByteArrives
  PROVE  HearInv'
<1> USE DEF ByteArrives, busVars, requestVars
<1> DEFINE rest == Tail(wire)
<1>1. /\ rest \in Seq(Byte)
      /\ Head(wire) \in Byte
      /\ Head(wire) = wire[1]
      /\ Len(wire) \in Nat
      /\ Len(wire) # 0
      /\ Len(rest) = Len(wire) - 1
      /\ \A i \in 1..Len(rest) : rest[i] = wire[i + 1]
  BY NonEmpty DEF LineInv, UartTypeOK
<1>2. /\ UNCHANGED <<phase, silent, line, turn>>
      /\ ~Quiet
  BY DEF Quiet
<1>3. ASSUME silent, phase = "Waiting"
      PROVE  InOrder'
  <2>1. Receiving /\ InOrder
    BY <1>3 DEF LineInv, HearInv, InTurn
  <2>2. /\ Len(buffer) \in Nat
        /\ want \in Nat
        /\ left \in Nat
    BY NonEmpty DEF LineInv, UartTypeOK
  <2>3. rdr = None
    <3>1. SUFFICES ASSUME rdr # None
                   PROVE  FALSE
      OBVIOUS
    <3>2. Len(buffer) + 1 + Len(wire) <= want
      BY <2>1, <3>1 DEF InOrder, InRegister
    <3>3. left # 0
      BY <2>1, <2>2, <3>2, <1>1 DEF Receiving
    <3> QED  BY <2>1, <3>1, <3>3 DEF Receiving
  <2>4. turn
    BY <2>1 DEF Receiving
  <2>5. rdr' = Head(wire) /\ rdr' # None
    BY <1>1, <2>3, <2>4, ByteIsNotNone DEF Connected
  <2>6. InRegister = 0 /\ InRegister' = 1
    BY <2>3, <2>5 DEF InRegister
  <2>7. wire[1] = <<id, Len(buffer) + 1>>
    <3>1. 1 \in 1..Len(wire)
      BY <1>1
    <3>2. Len(buffer) + 0 + 1 = Len(buffer) + 1
      BY <2>2
    <3> QED  BY <2>1, <2>6, <3>1, <3>2 DEF InOrder
  <2>8. \A i \in 1..Len(rest) : rest[i] = <<id, Len(buffer) + 1 + i>>
    <3>1. TAKE i \in 1..Len(rest)
    <3>2. i \in Nat /\ i + 1 \in 1..Len(wire)
      BY <1>1
    <3>3. wire[i + 1] = <<id, Len(buffer) + 0 + (i + 1)>>
      BY <2>1, <2>6, <3>2 DEF InOrder
    <3>4. Len(buffer) + 0 + (i + 1) = Len(buffer) + 1 + i
      BY <2>2, <3>2
    <3> QED  BY <1>1, <3>3, <3>4
  <2>9. wire' = rest /\ buffer' = buffer /\ id' = id /\ want' = want /\ answered' = answered
    OBVIOUS
  <2>10. /\ Len(buffer) + 1 + Len(rest) <= want
         /\ answered => Len(buffer) + 1 + Len(rest) = want
    <3>1. /\ Len(buffer) + 0 + Len(wire) <= want
          /\ answered => Len(buffer) + 0 + Len(wire) = want
      BY <2>1, <2>6 DEF InOrder
    <3>2. Len(rest) = Len(wire) - 1 /\ Len(wire) \in Nat /\ Len(buffer) \in Nat /\ want \in Nat
      BY <1>1, <2>2
    <3> QED  BY <3>1, <3>2, <1>1, Shift
  <2> HIDE DEF rest
  <2> QED
    BY <1>1, <2>1, <2>5, <2>6, <2>7, <2>8, <2>9, <2>10 DEF InOrder
<1> HIDE DEF ByteArrives
<1> QED
  BY <1>2, <1>3 DEF HearInv, InTurn, Own

\* The byte the DMA takes in a silent turn is the next of the answer.
LEMMA TakeByteHears ==
  ASSUME LineInv, HearInv, TakeByte
  PROVE  HearInv'
<1> USE DEF TakeByte, busVars, requestVars
<1>1. /\ UNCHANGED <<phase, silent, line, turn>>
      /\ ~Quiet
  BY DEF Quiet
<1>2. ASSUME silent, phase = "Waiting"
      PROVE  InOrder'
  <2>1. Receiving /\ InOrder
    BY <1>2 DEF LineInv, HearInv, InTurn
  <2>2. /\ buffer \in Seq(Byte)
        /\ Len(buffer) \in Nat
        /\ Len(wire) \in Nat
        /\ want \in Nat
        /\ rdr \in Byte
    BY NonEmpty DEF LineInv, UartTypeOK
  <2>3. /\ Len(buffer') = Len(buffer) + 1
        /\ \A i \in 1..Len(buffer) : buffer'[i] = buffer[i]
        /\ buffer'[Len(buffer) + 1] = rdr
    BY <2>2, AppendProperties
  <2>4. InRegister = 1 /\ InRegister' = 0
    BY DEF InRegister
  <2>5. /\ \A i \in 1..Len(buffer) : buffer[i] = <<id, i>>
        /\ rdr = <<id, Len(buffer) + 1>>
        /\ \A i \in 1..Len(wire) : wire[i] = <<id, Len(buffer) + 1 + i>>
        /\ Len(buffer) + 1 + Len(wire) <= want
        /\ answered => Len(buffer) + 1 + Len(wire) = want
    BY <2>1, <2>4 DEF InOrder
  <2>6. \A i \in 1..(Len(buffer) + 1) : buffer'[i] = <<id, i>>
    <3>1. \A i \in 1..(Len(buffer) + 1) : i \in 1..Len(buffer) \/ i = Len(buffer) + 1
      BY <2>2
    <3> QED  BY <2>3, <2>5, <3>1
  <2>7. \A i \in 1..Len(wire) : Len(buffer) + 1 + 0 + i = Len(buffer) + 1 + i
    BY <2>2
  <2> QED
    BY <2>2, <2>3, <2>4, <2>5, <2>6, <2>7 DEF InOrder
<1> HIDE DEF TakeByte
<1> QED
  BY <1>1, <1>2 DEF HearInv, InTurn, Own

\* In a silent turn a receive that is complete leaves nothing of the answer behind.
LEMMA ProcessHears ==
  ASSUME LineInv, HearInv, Process
  PROVE  HearInv'
<1> USE DEF Process, requestVars, uartVars
<1>1. ASSUME silent
      PROVE  Quiet
  <2>1. Receiving /\ InOrder
    BY <1>1 DEF LineInv, HearInv, InTurn
  <2>2. /\ Len(buffer) \in Nat
        /\ Len(wire) \in Nat
        /\ want \in Nat
        /\ wire = <<>> <=> Len(wire) = 0
    BY NonEmpty DEF LineInv, UartTypeOK
  <2>3. Len(buffer) = want
    BY <2>1, <2>2 DEF Receiving
  <2> QED
    BY <2>1, <2>2, <2>3 DEF InOrder, InRegister, Quiet
<1>2. Quiet => Quiet'
  BY DEF Quiet
<1>3. phase' = "Received" /\ silent' = silent /\ line' = line
  OBVIOUS
<1> HIDE DEF Process
<1> QED
  BY <1>1, <1>2, <1>3 DEF HearInv, InTurn, Own

\* A panel that is never late has said what it says before the timeout.
LEMMA TimedOutHears ==
  ASSUME LineInv, HearInv, OnlySharedIsLate, TimedOut
  PROVE  HearInv'
<1> USE DEF TimedOut, AbortReceive, requestVars
<1>1. Receiving
  BY DEF LineInv
<1>2. dmar /\ rdr = None
  BY <1>1 DEF Receiving
<1>3. ~line.shared => Quiet'
  BY <1>2 DEF LineInv, UartTypeOK, OnlySharedIsLate, Quiet
<1>4. phase' = "Done" /\ silent' = silent /\ line' = line
  OBVIOUS
<1> HIDE DEF TimedOut
<1> QED
  BY <1>3, <1>4 DEF HearInv, InTurn, Own

\* What is quiet stays so when the turn is lost.
LEMMA LoseTurnHears ==
  ASSUME LineInv, HearInv, LoseTurn
  PROVE  HearInv'
<1>1. phase' = "Idle" /\ ~turn' /\ silent' = silent /\ line' = line
  BY DEF LoseTurn
<1>2. Quiet => Quiet'
  BY DEF Quiet, LoseTurn, uartVars
<1>3. ~line.shared => silent /\ Quiet
  BY DEF HearInv, InTurn, Own, LoseTurn
<1> QED
  BY <1>1, <1>2, <1>3 DEF HearInv, InTurn, Own

\* A turn that begins silent begins with an empty register: the shared one has
\* been initialized.
LEMMA ConnectPortHears ==
  ASSUME LineInv, HearInv, ConnectPort
  PROVE  HearInv'
<1>1. phase' = phase /\ line' = line /\ silent' = (wire = <<>>)
  BY DEF ConnectPort
<1>2. phase \in {"Idle", "Done"}
  BY DEF LineInv, UartTypeOK, Receiving, ConnectPort
<1>3. CASE line.shared
  BY <1>1, <1>2, <1>3 DEF HearInv, InTurn, Quiet, ConnectPort, Reinitialize
<1>4. CASE ~line.shared
  <2>1. Quiet
    BY <1>2, <1>4 DEF HearInv, Own
  <2>2. Quiet' /\ silent'
    BY <1>1, <1>4, <2>1 DEF Quiet, ConnectPort, uartVars
  <2> QED  BY <1>1, <1>2, <2>2 DEF HearInv, InTurn, Own
<1> QED  BY <1>3, <1>4

-----------------------------------------------------------------------------
\* The line starts quiet.
LEMMA InitLine == Init => LineInv /\ HearInv
<1>1. SUFFICES ASSUME Init
               PROVE  LineInv /\ HearInv
  OBVIOUS
<1>2. <<>> \in Seq(Byte) /\ 0 \in Nat
  OBVIOUS
<1>3. UartTypeOK
  BY <1>1, <1>2 DEF Init, UartTypeOK
<1>4. Quiet /\ phase = "Idle" /\ silent /\ turn /\ ~dmar /\ ~complete
  BY <1>1 DEF Init, Quiet
<1> QED
  BY <1>3, <1>4 DEF LineInv, HearInv, InTurn, Own

\* Every step keeps LineInv.
LEMMA StepLine == LineInv /\ [Next]_vars => LineInv'
<1>1. SUFFICES ASSUME LineInv, [Next]_vars
               PROVE  LineInv'
  OBVIOUS
<1>2. CASE \E n \in Lengths : Ask(n)
  BY <1>1, <1>2, AskKeeps
<1>3. CASE \E n \in 0..want : SendComplete(n)
  BY <1>1, <1>3, SendCompleteKeeps
<1>4. CASE ByteArrives
  BY <1>1, <1>4, ByteArrivesKeeps
<1>5. CASE TakeByte
  BY <1>1, <1>5, TakeByteKeeps
<1>6. CASE Process
  BY <1>1, <1>6, ProcessKeeps
<1>7. CASE TimedOut
  BY <1>1, <1>7, TimedOutKeeps
<1>8. CASE LoseTurn
  BY <1>1, <1>8, LoseTurnKeeps
<1>9. CASE ConnectPort
  BY <1>1, <1>9, ConnectPortKeeps
<1>10. CASE UNCHANGED vars
  BY <1>1, <1>10 DEF vars, busVars, requestVars, uartVars, LineInv, UartTypeOK,
                     Receiving, Enough, InRegister
<1> QED
  BY <1>1, <1>2, <1>3, <1>4, <1>5, <1>6, <1>7, <1>8, <1>9, <1>10 DEF Next

\* Every step keeps HearInv, when only shared lines are late.
LEMMA StepHears ==
  ASSUME OnlySharedIsLate
  PROVE  LineInv /\ HearInv /\ [Next]_vars => HearInv'
<1>1. SUFFICES ASSUME LineInv, HearInv, [Next]_vars
               PROVE  HearInv'
  OBVIOUS
<1>2. CASE \E n \in Lengths : Ask(n)
  BY <1>1, <1>2, AskHears
<1>3. CASE \E n \in 0..want : SendComplete(n)
  BY <1>1, <1>3, SendCompleteHears
<1>4. CASE ByteArrives
  BY <1>1, <1>4, ByteArrivesHears
<1>5. CASE TakeByte
  BY <1>1, <1>5, TakeByteHears
<1>6. CASE Process
  BY <1>1, <1>6, ProcessHears
<1>7. CASE TimedOut
  BY <1>1, <1>7, TimedOutHears
<1>8. CASE LoseTurn
  BY <1>1, <1>8, LoseTurnHears
<1>9. CASE ConnectPort
  BY <1>1, <1>9, ConnectPortHears
<1>10. CASE UNCHANGED vars
  BY <1>1, <1>10 DEF vars, busVars, requestVars, uartVars, HearInv, InTurn, Own,
                     InOrder, InRegister, Quiet
<1> QED
  BY <1>1, <1>2, <1>3, <1>4, <1>5, <1>6, <1>7, <1>8, <1>9, <1>10 DEF Next

\* A complete receive of a silent turn misses no byte, and those it has are in order.
LEMMA LineIsWhole == LineInv /\ HearInv => SilentTurnsHearTheAnswer
<1>1. SUFFICES ASSUME LineInv, HearInv, silent, complete
               PROVE  buffer = Answer(id, want)
  BY DEF SilentTurnsHearTheAnswer, AnswerIsWhole
<1>2. phase \in {"Sending", "Waiting"} /\ Receiving
  BY <1>1 DEF LineInv
<1>3. /\ buffer \in Seq(Byte)
      /\ id \in {0, 1}
      /\ want \in Nat
      /\ left \in Nat
      /\ Len(buffer) \in Nat
  BY <1>1, NonEmpty DEF LineInv, UartTypeOK
<1>4. Len(buffer) = want
  BY <1>1, <1>2, <1>3 DEF Receiving
<1>5. \A i \in 1..Len(buffer) : buffer[i] = <<id, i>>
  <2>1. CASE phase = "Waiting"
    BY <1>1, <2>1 DEF HearInv, InTurn, InOrder
  <2>2. CASE phase = "Sending"
    BY <1>1, <2>2 DEF HearInv, InTurn
  <2> QED  BY <1>2, <2>1, <2>2
<1> QED  BY <1>3, <1>4, <1>5, IsAnswer

\* Once nothing is on its way, what the receive is for has been received.
LEMMA LineCompletes == LineInv => AnswerCompletes
<1>1. SUFFICES ASSUME LineInv, phase = "Waiting", answered, wire = <<>>, rdr = None, ~complete
               PROVE  FALSE
  BY DEF AnswerCompletes
<1>2. Receiving /\ Enough
  BY <1>1 DEF LineInv
<1>3. Len(buffer) \in Nat /\ want \in Nat /\ left \in Nat /\ Len(wire) = 0
  BY <1>1, NonEmpty DEF LineInv, UartTypeOK
<1>4. Len(buffer) + 0 + 0 >= want
  BY <1>1, <1>2, <1>3 DEF Enough, InRegister
<1>5. left = 0
  BY <1>2, <1>3, <1>4 DEF Receiving
<1> QED  BY <1>1, <1>2, <1>5 DEF Receiving

\* As long as only Up and Right, whose USART is initialized at every turn, may be
\* answered after a timeout, a receive that completes in a turn that began with
\* nothing on its way has the panel's answer to this request and nothing else
\* (uart.c:84-94, 158-189): for all answers, of any length, whole or broken off.
THEOREM AnswersAreWhole ==
  ASSUME OnlySharedIsLate PROVE Spec => []SilentTurnsHearTheAnswer
<1>1. Init => LineInv /\ HearInv
  BY InitLine
<1>2. LineInv /\ [Next]_vars => LineInv'
  BY StepLine
<1>3. LineInv /\ HearInv /\ [Next]_vars => HearInv'
  BY StepHears
<1>4. LineInv /\ HearInv => SilentTurnsHearTheAnswer
  BY LineIsWhole
<1> QED  BY <1>1, <1>2, <1>3, <1>4, PTL DEF Spec

\* On every line, however late its panel may be, a panel that answers in full is
\* heard: the receive completes, whatever was aborted or came before it.
THEOREM AnswersComplete == Spec => []AnswerCompletes
<1>1. Init => LineInv
  BY InitLine
<1>2. LineInv /\ [Next]_vars => LineInv'
  BY StepLine
<1>3. LineInv => AnswerCompletes
  BY LineCompletes
<1> QED  BY <1>1, <1>2, <1>3, PTL DEF Spec
=============================================================================
