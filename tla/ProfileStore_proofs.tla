------------------------- MODULE ProfileStore_proofs -------------------------
(***************************************************************************)
(* Proofs about ProfileStore, for pages and slots of any size and for any  *)
(* profiles: what was written stays, only erased half words are            *)
(* programmed, and what is read comes from the bytes of one profile.       *)
(***************************************************************************)
EXTENDS ProfileStore, Integers, SequenceTheorems, TLAPS

Pages == [1..PageSize -> Byte]

\* The page while it is programmed, and the profile's slot before and after.
ContentInv ==
  /\ phase = "Programming" => page = Mixed(NoPage, buffer, 1..at)
  /\ phase # "Programming" => SlotOf(page, 0) \in Remains(source)
  /\ phase # "Idle" => Writing \in AnyProfile /\ SlotOf(buffer, 0) \in Remains(Writing)

\* What was written with success is in the page, or in the buffer that the page
\* is programmed from.
KeptInv ==
  /\ phase # "Programming" =>
       \A i \in Slots : stored[i] # Unknown => SlotOf(page, i) = stored[i]
  /\ phase # "Idle" =>
       \A i \in Slots \ {target} : stored[i] # Unknown => SlotOf(buffer, i) = stored[i]

\* The profiles before and after a write.
ReadInv ==
  /\ phase # "Idle" => saving = ProfileOf(buffer)
  /\ phase = "Erasing" => before = ProfileOf(page)

PageInv == TypeOK /\ ContentInv /\ KeptInv /\ ReadInv

-----------------------------------------------------------------------------
(***************************************************************************)
(* Arithmetic: the page divides into slots, the slots into half words.     *)
(***************************************************************************)

\* Quotient and remainder are unique,
LEMMA DivisionIsUnique ==
  ASSUME NEW c \in Nat \ {0}, NEW q \in Nat, NEW r \in 0..c-1
  PROVE  (q * c + r) \div c = q /\ (q * c + r) % c = r
  OBVIOUS

\* exist,
LEMMA DivisionLaw ==
  ASSUME NEW c \in Nat \ {0}, NEW a \in Nat
  PROVE  a = (a \div c) * c + (a % c) /\ a % c \in 0..c-1 /\ a \div c \in Nat
  OBVIOUS

\* and products grow with their factors.
LEMMA ProductsGrow ==
  ASSUME NEW c \in Nat, NEW a \in Nat, NEW b \in Nat, a <= b
  PROVE  a * c <= b * c
  OBVIOUS

\* The page is a whole number of slots, and its size is even.
LEMMA PageDivides ==
  /\ PageSize \div ConfigSize \in Nat \ {0}
  /\ PageSize = (PageSize \div ConfigSize) * ConfigSize
  /\ PageSize % 2 = 0
  <1> DEFINE k == PageSize \div ConfigSize
             m == ConfigSize \div 2
  <1>1. /\ PageSize \in Nat \ {0} /\ ConfigSize \in Nat \ {0}
        /\ PageSize % ConfigSize = 0 /\ ConfigSize % 2 = 0
    BY SizeAssumption
  <1>2. k \in Nat /\ PageSize = k * ConfigSize
    BY <1>1, DivisionLaw
  <1>3. k # 0
    <2> HIDE DEF k
    <2> QED
      BY <1>1, <1>2
  <1>4. m \in Nat /\ ConfigSize = m * 2
    BY <1>1
  <1>5. k * m \in Nat /\ PageSize = (k * m) * 2
    <2> HIDE DEF k, m
    <2> QED
      BY <1>2, <1>4
  <1>6. PageSize % 2 = 0
    <2> DEFINE n == k * m
    <2>1. n \in Nat /\ PageSize = n * 2
      BY <1>5
    <2> HIDE DEF n
    <2> QED
      BY <2>1
  <1> QED
    BY <1>2, <1>3, <1>6

\* Byte i of a slot is this byte of the page.
Place(index, i) == index * ConfigSize + i

\* A slot's bytes are in the page, and in no other slot.
LEMMA SlotPlaces ==
  ASSUME NEW index \in Slots, NEW i \in 1..ConfigSize
  PROVE  /\ Place(index, i) \in 1..PageSize
         /\ (Place(index, i) - 1) \div ConfigSize = index
         /\ (Place(index, i) - 1) % ConfigSize = i - 1
  <1> DEFINE k == PageSize \div ConfigSize
  <1>1. ConfigSize \in Nat \ {0} /\ i - 1 \in 0..ConfigSize-1
    BY SizeAssumption
  <1>2. k \in Nat /\ PageSize = k * ConfigSize
    BY PageDivides
  <1>3. index \in Nat /\ index + 1 <= k
    BY <1>2 DEF Slots
  <1> HIDE DEF k
  <1>4. (index + 1) * ConfigSize <= k * ConfigSize
    BY <1>1, <1>2, <1>3, ProductsGrow
  <1>5. (index + 1) * ConfigSize = index * ConfigSize + ConfigSize
    BY <1>1, <1>3
  <1>6. index * ConfigSize \in Nat
    BY <1>1, <1>3
  <1>7. Place(index, i) \in 1..PageSize
    BY <1>1, <1>2, <1>4, <1>5, <1>6 DEF Place
  <1>8. Place(index, i) - 1 = index * ConfigSize + (i - 1)
    BY <1>1, <1>6 DEF Place
  <1>9. /\ (index * ConfigSize + (i - 1)) \div ConfigSize = index
        /\ (index * ConfigSize + (i - 1)) % ConfigSize = i - 1
    BY <1>1, <1>3, DivisionIsUnique
  <1> QED
    BY <1>7, <1>8, <1>9, Zenon

\* There is a slot for the profile.
LEMMA FirstSlot == 0 \in Slots
  BY PageDivides DEF Slots

-----------------------------------------------------------------------------
(***************************************************************************)
(* Slots.                                                                  *)
(***************************************************************************)

\* A slot of a page, byte by byte.
LEMMA SlotBytes ==
  ASSUME NEW bytes \in Pages, NEW index \in Slots
  PROVE  /\ SlotOf(bytes, index) \in Block
         /\ \A i \in 1..ConfigSize :
              SlotOf(bytes, index)[i] = bytes[Place(index, i)]
  <1> DEFINE m == index * ConfigSize + 1
             n == (index + 1) * ConfigSize
             slot == SubSeq(bytes, m, n)
  <1>1. PageSize \in Nat /\ ConfigSize \in Nat \ {0} /\ ConfigSize > 2 /\ index \in Nat
    BY SizeAssumption DEF Slots
  <1>2. bytes \in Seq(Byte) /\ Len(bytes) = PageSize
    BY <1>1 DEF Pages
  <1>3. index * ConfigSize \in Nat /\ n = index * ConfigSize + ConfigSize
    BY <1>1
  <1>4. index * ConfigSize + ConfigSize \in 1..PageSize
    <2>1. ConfigSize \in 1..ConfigSize
      BY <1>1
    <2> QED
      BY <2>1, SlotPlaces DEF Place
  <1>5. m \in 1..Len(bytes) /\ n \in 1..Len(bytes) /\ n - m + 1 = ConfigSize /\ m <= n
    BY <1>1, <1>2, <1>3, <1>4
  <1>6. slot = [i \in 1..n - m + 1 |-> bytes[i + m - 1]]
    <2> HIDE DEF m, n
    <2> QED
      BY <1>2, <1>5
  <1>7. slot = [i \in 1..ConfigSize |-> bytes[i + m - 1]]
    BY <1>5, <1>6
  <1>8. \A i \in 1..ConfigSize : i + m - 1 = Place(index, i) /\ Place(index, i) \in 1..PageSize
    BY <1>1, <1>3, SlotPlaces DEF Place
  <1>9. SlotOf(bytes, index) = slot
    BY DEF SlotOf
  <1> HIDE DEF m, n, slot
  <1>10. \A i \in 1..ConfigSize : slot[i] = bytes[Place(index, i)]
    BY <1>7, <1>8
  <1>11. slot \in [1..ConfigSize -> Byte]
    BY <1>7, <1>8 DEF Pages
  <1> QED
    BY <1>9, <1>10, <1>11 DEF Block

\* Two slots with the same bytes are the same.
LEMMA SameBlock ==
  ASSUME NEW b \in Block, NEW c \in Block, \A i \in 1..ConfigSize : b[i] = c[i]
  PROVE  b = c
  <1>1. b = [i \in 1..ConfigSize |-> b[i]] /\ c = [i \in 1..ConfigSize |-> c[i]]
    BY DEF Block
  <1> QED
    BY <1>1

\* The page buffer is the page but for the slot that is written.
LEMMA UpdatedSlots ==
  ASSUME NEW bytes \in Pages, NEW index \in Slots, NEW block \in Block
  PROVE  /\ Updated(bytes, index, block) \in Pages
         /\ SlotOf(Updated(bytes, index, block), index) = block
         /\ \A other \in Slots \ {index} :
              SlotOf(Updated(bytes, index, block), other) = SlotOf(bytes, other)
  <1> DEFINE new == Updated(bytes, index, block)
  <1>1. \A i \in 1..PageSize : new[i] =
          IF (i - 1) \div ConfigSize = index THEN block[((i - 1) % ConfigSize) + 1]
                                             ELSE bytes[i]
    BY DEF Updated
  <1>2. new \in Pages
    <2>1. ASSUME NEW i \in 1..PageSize PROVE new[i] \in Byte
      <3>1. i - 1 \in Nat /\ ConfigSize \in Nat \ {0}
        BY SizeAssumption
      <3>2. ((i - 1) % ConfigSize) + 1 \in 1..ConfigSize
        BY <3>1
      <3> QED
        BY <1>1, <3>2 DEF Block, Pages
    <2>2. new = [i \in 1..PageSize |-> new[i]]
      BY DEF Updated
    <2> HIDE DEF new
    <2>3. [i \in 1..PageSize |-> new[i]] \in [1..PageSize -> Byte]
      BY <2>1
    <2> QED
      BY <2>2, <2>3 DEF Pages
  <1> HIDE DEF new
  <1>3. SlotOf(new, index) = block
    <2>1. \A i \in 1..ConfigSize : new[Place(index, i)] = block[i]
      <3> TAKE i \in 1..ConfigSize
      <3>1. (i - 1) + 1 = i
        OBVIOUS
      <3> QED
        BY <1>1, <3>1, SlotPlaces
    <2> QED
      BY <1>2, <2>1, SlotBytes, SameBlock
  <1>4. \A other \in Slots \ {index} : SlotOf(new, other) = SlotOf(bytes, other)
    <2> TAKE other \in Slots \ {index}
    <2>1. \A i \in 1..ConfigSize : new[Place(other, i)] = bytes[Place(other, i)]
      BY <1>1, SlotPlaces
    <2>2. /\ SlotOf(new, other) \in Block /\ SlotOf(bytes, other) \in Block
          /\ \A i \in 1..ConfigSize :
               /\ SlotOf(new, other)[i] = new[Place(other, i)]
               /\ SlotOf(bytes, other)[i] = bytes[Place(other, i)]
      BY <1>2, SlotBytes
    <2> QED
      BY <2>1, <2>2, SameBlock
  <1> QED
    BY <1>2, <1>3, <1>4 DEF new

\* Mixing pages mixes their first slots.
LEMMA MixedSlots ==
  ASSUME NEW bytes \in Pages, NEW other \in Pages, NEW S
  PROVE  /\ Mixed(bytes, other, S) \in Pages
         /\ SlotOf(Mixed(bytes, other, S), 0) = Mixed(SlotOf(bytes, 0), SlotOf(other, 0), S)
  <1> DEFINE new == Mixed(bytes, other, S)
             slot == SlotOf(bytes, 0)
             mixed == Mixed(slot, SlotOf(other, 0), S)
  <1>1. /\ new = [i \in 1..PageSize |-> IF HalfWordOf(i) \in S THEN other[i] ELSE bytes[i]]
        /\ new \in Pages
    <2>1. Len(bytes) = PageSize
      BY SizeAssumption DEF Pages
    <2>2. new = [i \in 1..PageSize |-> IF HalfWordOf(i) \in S THEN other[i] ELSE bytes[i]]
      BY <2>1 DEF Mixed
    <2> HIDE DEF new
    <2>3. new \in [1..PageSize -> Byte]
      BY <2>2 DEF Pages
    <2> QED
      BY <2>2, <2>3 DEF Pages
  <1>2. slot \in Block /\ SlotOf(other, 0) \in Block
    BY FirstSlot, SlotBytes
  <1>3. mixed = [i \in 1..ConfigSize |-> IF HalfWordOf(i) \in S THEN SlotOf(other, 0)[i] ELSE slot[i]]
    <2>1. Len(slot) = ConfigSize
      BY <1>2, SizeAssumption DEF Block
    <2> HIDE DEF slot
    <2> QED
      BY <2>1 DEF Mixed
  <1> HIDE DEF new, slot, mixed
  <1>4. mixed \in [1..ConfigSize -> Byte]
    BY <1>2, <1>3 DEF Block
  <1>5. \A i \in 1..ConfigSize : Place(0, i) = i /\ i \in 1..PageSize
    <2>1. \A i \in 1..ConfigSize : Place(0, i) = i
      BY SizeAssumption DEF Place
    <2> QED
      BY <2>1, FirstSlot, SlotPlaces
  <1>6. SlotOf(new, 0) \in Block /\ \A i \in 1..ConfigSize : SlotOf(new, 0)[i] = new[i]
    <2>1. /\ SlotOf(new, 0) \in Block
          /\ \A i \in 1..ConfigSize : SlotOf(new, 0)[i] = new[Place(0, i)]
      <3>1. new \in Pages
        BY <1>1
      <3> QED
        BY <3>1, FirstSlot, SlotBytes
    <2> QED
      BY <1>5, <2>1
  <1>7. \A i \in 1..ConfigSize : slot[i] = bytes[i] /\ SlotOf(other, 0)[i] = other[i]
    BY <1>5, FirstSlot, SlotBytes DEF slot
  <1>8. \A i \in 1..ConfigSize : SlotOf(new, 0)[i] = mixed[i]
    BY <1>1, <1>3, <1>5, <1>6, <1>7
  <1>9. SlotOf(new, 0) = mixed
    BY <1>4, <1>6, <1>8, SameBlock DEF Block
  <1> QED
    BY <1>1, <1>9 DEF new, slot, mixed

-----------------------------------------------------------------------------
(***************************************************************************)
(* What is read from the profile's slot.                                   *)
(***************************************************************************)

\* A profile that is saved has its own sum behind it.
LEMMA SavedConfig ==
  ASSUME NEW d \in AnyProfile
  PROVE  /\ Config(d) \in Block
         /\ Front(Config(d)) = d
         /\ Last(Config(d)) = Checksum(d)
         /\ Valid(Config(d))
         /\ \A i \in 1..ConfigSize-1 : Config(d)[i] = d[i]
  <1> DEFINE c == Append(d, Checksum(d))
             n == ConfigSize - 1
  <1>1. n \in Nat /\ n + 1 = ConfigSize /\ ConfigSize \in Nat
    BY SizeAssumption
  <1>2. d \in [1..n -> Byte] /\ Checksum(d) \in Byte
    BY SizeAssumption, ChecksumAssumption DEF AnyProfile, Default, Byte
  <1>3. d \in Seq(Byte) /\ Len(d) = n
    BY <1>1, <1>2
  <1>4. /\ c \in Seq(Byte) /\ Len(c) = ConfigSize /\ c[ConfigSize] = Checksum(d)
        /\ \A i \in 1..n : c[i] = d[i]
    BY <1>1, <1>2, <1>3
  <1>5. Front(c) = d
    <2> HIDE DEF c
    <2>1. Front(c) = [i \in 1..n |-> c[i]]
      <3>1. SubSeq(c, 1, Len(c) - 1) = [i \in 1..n |-> c[i]]
        BY <1>1, <1>4
      <3> QED
        BY <3>1 DEF Front
    <2>2. d = [i \in 1..n |-> d[i]]
      BY <1>2
    <2> QED
      BY <1>4, <2>1, <2>2
  <1>6. Last(c) = Checksum(d)
    BY <1>4 DEF Last
  <1>7. c \in Block
    <2> HIDE DEF c
    <2> QED
      BY <1>4, LenProperties DEF Block
  <1>8. Config(d) = c
    BY DEF Config
  <1> HIDE DEF c
  <1> QED
    BY <1>4, <1>5, <1>6, <1>7, <1>8 DEF Valid

\* The front and the last byte of a slot's bytes.
LEMMA FrontAndLast ==
  ASSUME NEW b \in Block
  PROVE  /\ Front(b) = [i \in 1..ConfigSize-1 |-> b[i]]
         /\ Last(b) = b[ConfigSize]
  <1>1. ConfigSize \in Nat /\ ConfigSize > 2
    BY SizeAssumption
  <1>2. b \in Seq(Byte) /\ Len(b) = ConfigSize
    BY <1>1 DEF Block
  <1>3. SubSeq(b, 1, Len(b) - 1) = [i \in 1..ConfigSize-1 |-> b[i]]
    BY <1>1, <1>2
  <1> QED
    BY <1>2, <1>3 DEF Front, Last

\* An erased slot consists of bytes.
LEMMA ErasedIsBlock == ErasedSlot \in Block
  BY SizeAssumption DEF ErasedSlot, Block, Byte

\* A torn profile, byte by byte.
LEMMA TornBytes ==
  ASSUME NEW d \in AnyProfile, NEW S
  PROVE  /\ Torn(d, S) \in Block
         /\ \A i \in 1..ConfigSize :
              Torn(d, S)[i] = IF HalfWordOf(i) \in S THEN ByteMax ELSE Config(d)[i]
  <1>1. Config(d) \in Block
    BY SavedConfig
  <1>2. Len(Config(d)) = ConfigSize
    BY <1>1, SizeAssumption DEF Block
  <1>3. Torn(d, S) = [i \in 1..ConfigSize |->
                        IF HalfWordOf(i) \in S THEN ByteMax ELSE Config(d)[i]]
    BY <1>2 DEF Torn, Mixed, ErasedSlot
  <1>4. ByteMax \in Byte
    BY SizeAssumption DEF Byte
  <1> QED
    BY <1>1, <1>3, <1>4 DEF Block

\* A profile of which nothing is erased is there as it was saved.
LEMMA WholeRemains ==
  ASSUME NEW d \in AnyProfile
  PROVE  Config(d) \in Remains(d)
  <1>1. Config(d) \in Block /\ Torn(d, {}) \in Block
    BY SavedConfig, TornBytes
  <1>2. \A i \in 1..ConfigSize : Torn(d, {})[i] = Config(d)[i]
    BY TornBytes
  <1>3. Config(d) = Torn(d, {})
    BY <1>1, <1>2, SameBlock
  <1> QED
    BY <1>3 DEF Remains

\* Of one of which all is erased, an erased slot is left.
LEMMA NothingRemains ==
  ASSUME NEW d \in AnyProfile
  PROVE  ErasedSlot \in Remains(d)
  <1> DEFINE S == 1..ConfigSize \div 2
  <1>1. \A i \in 1..ConfigSize : HalfWordOf(i) \in S
    BY SizeAssumption DEF HalfWordOf
  <1>2. /\ Torn(d, S) \in Block
        /\ \A i \in 1..ConfigSize : Torn(d, S)[i] = ErasedSlot[i]
    BY <1>1, TornBytes DEF ErasedSlot
  <1>3. ErasedSlot = Torn(d, S)
    BY <1>2, ErasedIsBlock, SameBlock
  <1> QED
    BY <1>3 DEF Remains

\* Erasing more leaves less of the same profile.
LEMMA ErasingRemains ==
  ASSUME NEW d \in AnyProfile, NEW b \in Remains(d), NEW S
  PROVE  Mixed(b, ErasedSlot, S) \in Remains(d)
  <1> DEFINE more == Mixed(b, ErasedSlot, S)
  <1>1. PICK T \in SUBSET (1..ConfigSize \div 2) : b = Torn(d, T)
    BY DEF Remains
  <1>2. b \in Block /\ ConfigSize \in Nat
    BY <1>1, TornBytes, SizeAssumption
  <1>3. more = [i \in 1..ConfigSize |-> IF HalfWordOf(i) \in S THEN ByteMax ELSE b[i]]
    <2>1. Len(b) = ConfigSize
      BY <1>2 DEF Block
    <2> QED
      BY <2>1 DEF Mixed, ErasedSlot
  <1> HIDE DEF more
  <1> DEFINE U == (T \cup S) \cap (1..ConfigSize \div 2)
  <1>4. \A i \in 1..ConfigSize : HalfWordOf(i) \in 1..ConfigSize \div 2
    BY SizeAssumption DEF HalfWordOf
  <1>5. \A i \in 1..ConfigSize :
          more[i] = IF HalfWordOf(i) \in U THEN ByteMax ELSE Config(d)[i]
    <2> TAKE i \in 1..ConfigSize
    <2>1. b[i] = IF HalfWordOf(i) \in T THEN ByteMax ELSE Config(d)[i]
      BY <1>1, TornBytes
    <2>2. HalfWordOf(i) \in U <=> HalfWordOf(i) \in T \/ HalfWordOf(i) \in S
      BY <1>4
    <2> QED
      BY <1>3, <2>1, <2>2
  <1>6. more \in Block
    <2>1. ByteMax \in Byte
      BY SizeAssumption DEF Byte
    <2> QED
      BY <1>2, <1>3, <2>1 DEF Block
  <1>7. U \in SUBSET (1..ConfigSize \div 2)
    OBVIOUS
  <1> HIDE DEF U
  <1>8. /\ Torn(d, U) \in Block
        /\ \A i \in 1..ConfigSize :
             Torn(d, U)[i] = IF HalfWordOf(i) \in U THEN ByteMax ELSE Config(d)[i]
    BY TornBytes
  <1>9. more = Torn(d, U)
    BY <1>5, <1>6, <1>8, SameBlock
  <1> QED
    BY <1>7, <1>9 DEF more, Remains

-----------------------------------------------------------------------------
(***************************************************************************)
(* Pages that are erased or programmed in part.                            *)
(***************************************************************************)

\* The slot of an erased page is erased.
LEMMA NoPageIsErased == NoPage \in Pages /\ SlotOf(NoPage, 0) = ErasedSlot
  <1>1. NoPage \in Pages
    BY SizeAssumption DEF NoPage, Pages, Byte
  <1>2. \A i \in 1..ConfigSize : NoPage[Place(0, i)] = ByteMax
    BY FirstSlot, SlotPlaces DEF NoPage
  <1>3. \A i \in 1..ConfigSize : SlotOf(NoPage, 0)[i] = ErasedSlot[i]
    BY <1>1, <1>2, FirstSlot, SlotBytes DEF ErasedSlot
  <1> QED
    BY <1>1, <1>3, FirstSlot, SlotBytes, SameBlock, ErasedIsBlock

\* Every byte of the page belongs to a half word of it.
LEMMA HalfWordsOfPage ==
  /\ PageSize \div 2 \in Nat \ {0}
  /\ \A i \in 1..PageSize : HalfWordOf(i) \in 1..PageSize \div 2
  BY PageDivides, SizeAssumption DEF HalfWordOf

\* An erase that fails leaves some of the profile,
LEMMA PartlyErased ==
  ASSUME NEW d \in AnyProfile, NEW bytes \in Pages, SlotOf(bytes, 0) \in Remains(d), NEW S
  PROVE  /\ Mixed(bytes, NoPage, S) \in Pages
         /\ SlotOf(Mixed(bytes, NoPage, S), 0) \in Remains(d)
  <1>1. /\ Mixed(bytes, NoPage, S) \in Pages
        /\ SlotOf(Mixed(bytes, NoPage, S), 0) = Mixed(SlotOf(bytes, 0), ErasedSlot, S)
    BY MixedSlots, NoPageIsErased
  <1> QED
    BY <1>1, ErasingRemains

\* and programming that fails some of the new one.
LEMMA PartlyProgrammed ==
  ASSUME NEW d \in AnyProfile, NEW bytes \in Pages, SlotOf(bytes, 0) \in Remains(d), NEW T
  PROVE  /\ Mixed(NoPage, bytes, T) \in Pages
         /\ SlotOf(Mixed(NoPage, bytes, T), 0) \in Remains(d)
  <1> DEFINE S == (1..PageSize \div 2) \ T
  <1>1. Len(NoPage) = PageSize /\ Len(bytes) = PageSize
    BY SizeAssumption DEF NoPage, Pages
  <1>2. Mixed(NoPage, bytes, T) = Mixed(bytes, NoPage, S)
    <2>1. \A i \in 1..PageSize : HalfWordOf(i) \in S <=> HalfWordOf(i) \notin T
      BY HalfWordsOfPage
    <2> HIDE DEF S
    <2>2. /\ Mixed(NoPage, bytes, T) =
               [i \in 1..PageSize |-> IF HalfWordOf(i) \in T THEN bytes[i] ELSE NoPage[i]]
          /\ Mixed(bytes, NoPage, S) =
               [i \in 1..PageSize |-> IF HalfWordOf(i) \in S THEN NoPage[i] ELSE bytes[i]]
      BY <1>1 DEF Mixed
    <2> QED
      BY <2>1, <2>2
  <1> HIDE DEF S
  <1> QED
    BY <1>2, PartlyErased

\* One half word after the other, up to the whole page.
LEMMA ProgrammingMixes ==
  ASSUME NEW bytes \in Pages, NEW n \in Nat
  PROVE  /\ Mixed(NoPage, bytes, 1..0) = NoPage
         /\ Mixed(Mixed(NoPage, bytes, 1..n), bytes, {n + 1}) = Mixed(NoPage, bytes, 1..n+1)
         /\ n = PageSize \div 2 => Mixed(NoPage, bytes, 1..n) = bytes
  <1>1. Len(NoPage) = PageSize /\ PageSize \in Nat
    BY SizeAssumption DEF NoPage
  <1>2. \A S : Mixed(NoPage, bytes, S) =
                 [i \in 1..PageSize |-> IF HalfWordOf(i) \in S THEN bytes[i] ELSE NoPage[i]]
    BY <1>1 DEF Mixed
  <1>3. Mixed(NoPage, bytes, 1..0) = NoPage
    <2>1. \A i \in 1..PageSize : HalfWordOf(i) \notin 1..0
      BY HalfWordsOfPage
    <2>2. NoPage = [i \in 1..PageSize |-> NoPage[i]]
      BY DEF NoPage
    <2> QED
      BY <1>2, <2>1, <2>2
  <1>4. Mixed(Mixed(NoPage, bytes, 1..n), bytes, {n + 1}) = Mixed(NoPage, bytes, 1..n+1)
    <2> DEFINE old == Mixed(NoPage, bytes, 1..n)
    <2>1. old = [i \in 1..PageSize |-> IF HalfWordOf(i) \in 1..n THEN bytes[i] ELSE NoPage[i]]
      BY <1>2
    <2> HIDE DEF old
    <2>2. old \in [1..PageSize -> Byte]
      BY <2>1, NoPageIsErased DEF Pages
    <2>3. Len(old) = PageSize
      BY <1>1, <2>2
    <2>4. Mixed(old, bytes, {n + 1}) =
            [i \in 1..PageSize |-> IF HalfWordOf(i) \in {n + 1} THEN bytes[i] ELSE old[i]]
      BY <2>3 DEF Mixed
    <2>5. \A i \in 1..PageSize :
            HalfWordOf(i) \in 1..n+1 <=> HalfWordOf(i) \in 1..n \/ HalfWordOf(i) \in {n + 1}
      BY HalfWordsOfPage
    <2>6. Mixed(NoPage, bytes, 1..n+1) =
            [i \in 1..PageSize |-> IF HalfWordOf(i) \in 1..n+1 THEN bytes[i] ELSE NoPage[i]]
      BY <1>2
    <2>7. Mixed(old, bytes, {n + 1}) = Mixed(NoPage, bytes, 1..n+1)
      BY <2>1, <2>4, <2>5, <2>6
    <2> QED
      BY <2>7 DEF old
  <1>5. n = PageSize \div 2 => Mixed(NoPage, bytes, 1..n) = bytes
    <2>1. bytes = [i \in 1..PageSize |-> bytes[i]]
      BY DEF Pages
    <2> QED
      BY <1>2, <2>1, HalfWordsOfPage
  <1> QED
    BY <1>3, <1>4, <1>5

-----------------------------------------------------------------------------
(***************************************************************************)
(* The invariant.                                                          *)
(***************************************************************************)

\* PageInv holds initially.
LEMMA PageInvInit == Init => PageInv
  <1> SUFFICES ASSUME Init PROVE PageInv
    OBVIOUS
  <1>1. TypeOK
    BY FirstSlot, NoPageIsErased, HalfWordsOfPage DEF Init, TypeOK, Pages, AnyProfile
  <1>2. ContentInv
    BY NoPageIsErased, NothingRemains DEF Init, ContentInv, AnyProfile
  <1>3. KeptInv /\ ReadInv
    BY DEF Init, KeptInv, ReadInv
  <1> QED
    BY <1>1, <1>2, <1>3 DEF PageInv

\* A save, or a write of another slot.
LEMMA PageInvBegin ==
  ASSUME PageInv, NEW index \in Nat, NEW block \in Block, NEW profile,
         Begin(index, block, profile),
         \/ \E d \in Profiles : index = 0 /\ block = Config(d) /\ profile = d
         \/ index # 0 /\ profile = ProfileOf(page)
  PROVE  PageInv'
  <1>1. /\ phase = "Idle" /\ phase' = "Erasing" /\ index \in Slots
        /\ buffer' = Updated(page, index, block)
        /\ target' = index /\ before' = ProfileOf(page) /\ saving' = profile
        /\ page' = page /\ at' = at /\ source' = source /\ stored' = stored
    BY DEF Begin
  <1>2. page \in Pages
    BY DEF PageInv, TypeOK, Pages
  <1>3. /\ buffer' \in Pages
        /\ SlotOf(buffer', index) = block
        /\ \A other \in Slots \ {index} : SlotOf(buffer', other) = SlotOf(page, other)
    BY <1>1, <1>2, UpdatedSlots
  <1>4. TypeOK'
    BY <1>1, <1>3 DEF PageInv, TypeOK, Pages
  <1>5. /\ Writing' \in AnyProfile /\ SlotOf(buffer', 0) \in Remains(Writing')
        /\ profile = ProfileOf(buffer')
    <2>1. ASSUME NEW d \in Profiles, index = 0, block = Config(d), profile = d
          PROVE  /\ Writing' \in AnyProfile /\ SlotOf(buffer', 0) \in Remains(Writing')
                 /\ profile = ProfileOf(buffer')
      <3>1. Writing' = d
        BY <1>1, <2>1 DEF Writing
      <3>2. d \in AnyProfile /\ SlotOf(buffer', 0) = Config(d)
        BY <1>3, <2>1 DEF AnyProfile
      <3>3. ReadConfig(Config(d)) = d
        BY <3>2, SavedConfig DEF ReadConfig
      <3> QED
        BY <2>1, <3>1, <3>2, <3>3, WholeRemains DEF ProfileOf
    <2>2. ASSUME index # 0, profile = ProfileOf(page)
          PROVE  /\ Writing' \in AnyProfile /\ SlotOf(buffer', 0) \in Remains(Writing')
                 /\ profile = ProfileOf(buffer')
      <3>1. Writing' = source
        BY <1>1, <2>2 DEF Writing
      <3>2. SlotOf(buffer', 0) = SlotOf(page, 0)
        BY <1>3, <2>2, FirstSlot
      <3> QED
        BY <1>1, <2>2, <3>1, <3>2 DEF PageInv, ContentInv, TypeOK, ProfileOf
    <2> QED
      BY <2>1, <2>2
  <1>6. ContentInv' /\ ReadInv'
    BY <1>1, <1>5 DEF PageInv, ContentInv, ReadInv, ProfileOf
  <1>7. KeptInv'
    BY <1>1, <1>3 DEF PageInv, KeptInv
  <1> QED
    BY <1>4, <1>6, <1>7 DEF PageInv

\* The erase, and each half word.
LEMMA PageInvErase ==
  ASSUME PageInv, Erase
  PROVE  PageInv'
  <1>1. /\ phase = "Erasing" /\ phase' = "Programming" /\ page' = NoPage /\ at' = 0
        /\ UNCHANGED <<buffer, target, before, saving, source, stored>>
    BY DEF Erase, ErasedPage, writeVars
  <1>2. buffer \in Pages
    BY DEF PageInv, TypeOK, Pages
  <1>3. TypeOK'
    BY <1>1, NoPageIsErased, HalfWordsOfPage DEF PageInv, TypeOK, Pages
  <1>4. ContentInv'
    <2>1. NoPage = Mixed(NoPage, buffer, 1..0)
      BY <1>2, ProgrammingMixes
    <2>2. Writing' = Writing
      BY <1>1 DEF Writing
    <2> QED
      BY <1>1, <2>1, <2>2 DEF PageInv, ContentInv
  <1>5. KeptInv' /\ ReadInv'
    BY <1>1 DEF PageInv, KeptInv, ReadInv
  <1> QED
    BY <1>3, <1>4, <1>5 DEF PageInv

\* What the page is after the next half word.
LEMMA NextHalfWord ==
  ASSUME PageInv, phase = "Programming"
  PROVE  /\ Mixed(page, buffer, {at + 1}) = Mixed(NoPage, buffer, 1..at+1)
         /\ ~More => Mixed(page, buffer, {at + 1}) = buffer
  <1>1. /\ buffer \in Pages /\ at \in Nat /\ at \in 0..PageSize \div 2 - 1
        /\ page = Mixed(NoPage, buffer, 1..at)
    BY DEF PageInv, TypeOK, ContentInv, Pages
  <1>2. Mixed(page, buffer, {at + 1}) = Mixed(NoPage, buffer, 1..at+1)
    BY <1>1, ProgrammingMixes
  <1>3. ~More => at + 1 = PageSize \div 2 /\ at + 1 \in Nat
    BY <1>1, HalfWordsOfPage DEF More, HalfWords
  <1> QED
    BY <1>1, <1>2, <1>3, ProgrammingMixes

\* The next half word, or the last, is programmed.
LEMMA PageInvProgram ==
  ASSUME PageInv, Program
  PROVE  PageInv'
  <1>1. /\ phase = "Programming"
        /\ page' = Mixed(page, buffer, {at + 1})
        /\ UNCHANGED <<buffer, target, before, saving>>
    BY DEF Program, writeVars
  <1>2. /\ buffer \in Pages /\ target \in Slots
        /\ Writing \in AnyProfile /\ SlotOf(buffer, 0) \in Remains(Writing)
    BY <1>1 DEF PageInv, TypeOK, ContentInv, Pages
  <1>3. page' = Mixed(NoPage, buffer, 1..at+1) /\ (~More => page' = buffer)
    BY <1>1, NextHalfWord
  <1>4. page' \in Pages /\ SlotOf(page', 0) \in Remains(Writing)
    BY <1>2, <1>3, PartlyProgrammed
  <1>5. CASE More
    <2>1. at' = at + 1 /\ phase' = phase /\ source' = source /\ stored' = stored
      BY <1>5 DEF Program
    <2>2. at + 1 \in 0..PageSize \div 2 - 1
      BY <1>5, HalfWordsOfPage DEF More, HalfWords, PageInv, TypeOK
    <2>3. TypeOK'
      BY <1>1, <1>4, <2>1, <2>2 DEF PageInv, TypeOK, Pages
    <2>4. ContentInv'
      <3>1. Writing' = Writing
        BY <1>1, <2>1 DEF Writing
      <3> QED
        BY <1>1, <1>2, <1>3, <2>1, <3>1 DEF ContentInv
    <2>5. KeptInv' /\ ReadInv'
      BY <1>1, <2>1 DEF PageInv, KeptInv, ReadInv
    <2> QED
      BY <2>3, <2>4, <2>5 DEF PageInv
  <1>6. CASE ~More
    <2>1. /\ at' = 0 /\ phase' = "Idle" /\ source' = Writing
          /\ stored' = [stored EXCEPT ![target] = SlotOf(buffer, target)]
      BY <1>6 DEF Program
    <2>2. page' = buffer
      BY <1>3, <1>6
    <2>3. SlotOf(buffer, target) \in Block
      BY <1>2, SlotBytes
    <2>4. \A i \in Slots : \/ stored'[i] = stored[i]
                           \/ i = target /\ stored'[i] = SlotOf(buffer, target)
      BY <2>1 DEF PageInv, TypeOK
    <2>5. TypeOK'
      <3>1. stored' \in [Slots -> {Unknown} \cup Block]
        BY <2>1, <2>3 DEF PageInv, TypeOK
      <3>2. 0 \in 0..PageSize \div 2 - 1
        BY HalfWordsOfPage
      <3>3. buffer' \in Pages /\ target' \in Slots
        BY <1>1, <1>2
      <3> QED
        BY <1>2, <1>4, <2>1, <3>1, <3>2, <3>3 DEF TypeOK, Pages
    <2>6. \A i \in Slots : stored'[i] # Unknown => SlotOf(buffer, i) = stored'[i]
      <3> TAKE i \in Slots
      <3>1. CASE i = target
        <4>1. stored'[target] = SlotOf(buffer, target)
          BY <1>2, <2>1 DEF PageInv, TypeOK
        <4> QED
          BY <3>1, <4>1
      <3>2. CASE i # target
        <4>1. stored'[i] = stored[i]
          BY <2>4, <3>2
        <4>2. stored[i] # Unknown => SlotOf(buffer, i) = stored[i]
          BY <1>1, <3>2 DEF PageInv, KeptInv
        <4> QED
          BY <4>1, <4>2
      <3> QED
        BY <3>1, <3>2
    <2>7. ContentInv' /\ KeptInv' /\ ReadInv'
      BY <1>4, <2>1, <2>2, <2>6 DEF ContentInv, KeptInv, ReadInv
    <2> QED
      BY <2>5, <2>7 DEF PageInv
  <1> QED
    BY <1>5, <1>6

\* What the page is after a failure, and whose bytes its first slot has.
LEMMA AfterFailure ==
  ASSUME PageInv, EraseFails \/ ProgramFails
  PROVE  /\ page' \in Pages
         /\ source' \in AnyProfile /\ source' \in {source, Writing}
         /\ SlotOf(page', 0) \in Remains(source')
  <1>1. page \in Pages /\ buffer \in Pages /\ source \in AnyProfile
    BY DEF PageInv, TypeOK, Pages
  <1>2. CASE EraseFails
    <2>1. PICK S : page' = Mixed(page, NoPage, S)
      BY <1>2 DEF EraseFails
    <2>2. phase = "Erasing" /\ source' = source
      BY <1>2 DEF EraseFails
    <2>3. SlotOf(page, 0) \in Remains(source)
      BY <2>2 DEF PageInv, ContentInv
    <2> QED
      BY <1>1, <2>1, <2>2, <2>3, PartlyErased
  <1>3. CASE ProgramFails
    <2>1. /\ phase = "Programming" /\ source' = Writing
          /\ page' \in {page, Mixed(page, buffer, {at + 1})}
      BY <1>3 DEF ProgramFails
    <2>2. PICK T : page' = Mixed(NoPage, buffer, T)
      BY <2>1, NextHalfWord DEF PageInv, ContentInv
    <2>3. Writing \in AnyProfile /\ SlotOf(buffer, 0) \in Remains(Writing)
      BY <2>1 DEF PageInv, ContentInv
    <2> QED
      BY <1>1, <2>1, <2>2, <2>3, PartlyProgrammed
  <1> QED
    BY <1>2, <1>3

\* An error or the loss of power leaves the page as it is.
LEMMA PageInvFailure ==
  ASSUME PageInv, EraseFails \/ ProgramFails
  PROVE  PageInv'
  <1>1. /\ phase' = "Idle" /\ at' = 0 /\ stored' = [i \in Slots |-> Unknown]
        /\ UNCHANGED <<buffer, target, before, saving>>
    BY DEF EraseFails, ProgramFails, GiveUp, writeVars
  <1>2. /\ page' \in Pages /\ source' \in AnyProfile
        /\ SlotOf(page', 0) \in Remains(source')
    BY AfterFailure
  <1>3. TypeOK'
    BY <1>1, <1>2, HalfWordsOfPage DEF PageInv, TypeOK, Pages
  <1>4. ContentInv' /\ KeptInv' /\ ReadInv'
    BY <1>1, <1>2 DEF ContentInv, KeptInv, ReadInv
  <1> QED
    BY <1>3, <1>4 DEF PageInv

\* The slot holds the data already: the page stays as it is.
LEMMA PageInvSkip ==
  ASSUME PageInv, NEW index, NEW block \in Block, Skip(index, block)
  PROVE  PageInv'
  <1>1. /\ phase = "Idle" /\ index \in Slots /\ SlotOf(page, index) = block
        /\ stored' = [stored EXCEPT ![index] = block]
        /\ UNCHANGED <<page, phase, at, source, buffer, target, before, saving>>
    BY DEF Skip, writeVars
  <1>2. \A i \in Slots : stored'[i] = stored[i] \/ (i = index /\ stored'[i] = block)
    BY <1>1 DEF PageInv, TypeOK
  <1>3. TypeOK'
    BY <1>1, <1>2 DEF PageInv, TypeOK
  <1>4. ContentInv' /\ KeptInv' /\ ReadInv'
    <2>1. Writing' = Writing
      BY <1>1 DEF Writing
    <2> QED
      BY <1>1, <1>2, <2>1 DEF PageInv, ContentInv, KeptInv, ReadInv
  <1> QED
    BY <1>3, <1>4 DEF PageInv

\* The calls that write, whichever data they write.
LEMMA CallsOfNext ==
  ASSUME [Next]_vars
  PROVE  \/ \E index \in Nat, block \in Block : \E profile :
              /\ Skip(index, block) \/ Begin(index, block, profile)
              /\ \/ \E d \in Profiles : index = 0 /\ block = Config(d) /\ profile = d
                 \/ index # 0 /\ profile = ProfileOf(page)
         \/ Erase \/ Program \/ EraseFails \/ ProgramFails
         \/ UNCHANGED vars
  <1>1. CASE \E d \in Profiles : Save(d)
    <2>1. PICK d \in Profiles : Save(d)
      BY <1>1
    <2>2. Skip(0, Config(d)) \/ Begin(0, Config(d), d)
      BY <2>1 DEF Save
    <2>3. 0 \in Nat /\ Config(d) \in Block
      BY SavedConfig DEF AnyProfile
    <2> QED
      BY <2>2, <2>3
  <1>2. CASE \E index \in 1..Cardinality(Slots), block \in Blocks : Write(index, block)
    <2>1. PICK index \in 1..Cardinality(Slots), block \in Blocks : Write(index, block)
      BY <1>2
    <2>2. index \in Nat /\ index # 0 /\ block \in Block
      BY <2>1, SizeAssumption
    <2>3. \/ UNCHANGED vars
          \/ Skip(index, block) \/ Begin(index, block, ProfileOf(page))
      BY <2>1 DEF Write, Refuse
    <2> QED
      BY <2>2, <2>3
  <1> QED
    BY <1>1, <1>2 DEF Next

\* PageInv is inductive.
LEMMA PageInvNext == PageInv /\ [Next]_vars => PageInv'
  <1> SUFFICES ASSUME PageInv, [Next]_vars PROVE PageInv'
    OBVIOUS
  <1>1. CASE UNCHANGED vars
    BY <1>1 DEF vars, writeVars, PageInv, TypeOK, ContentInv, KeptInv, ReadInv, Writing
  <1> QED
    BY <1>1, CallsOfNext, PageInvBegin, PageInvSkip, PageInvErase, PageInvProgram, PageInvFailure

\* PageInv holds throughout.
LEMMA PageInvariant == Spec => []PageInv
  BY PageInvInit, PageInvNext, PTL DEF Spec

\* Every variable keeps its type; the half words programmed are never more
\* than the page has.
THEOREM StoreTypes == Spec => []TypeOK
  <1>1. PageInv => TypeOK
    BY DEF PageInv
  <1> QED
    BY <1>1, PageInvariant, PTL

\* What a write put into a slot with HAL_OK stays there through later writes of
\* any slot until one fails (eeprom_emul.c:61-111).
THEOREM WritesAreKept == Spec => []StoredIsKept
  <1>1. PageInv => StoredIsKept
    BY DEF PageInv, KeptInv, StoredIsKept
  <1> QED
    BY <1>1, PageInvariant, PTL

\* Only erased half words are programmed (eeprom_emul.c:86-111).
THEOREM OnlyErasedAreProgrammed == Spec => ProgramsErased
  <1>1. ASSUME PageInv, [Next]_vars, phase = "Programming",
               NEW i \in 1..PageSize, page'[i] # page[i]
        PROVE  page[i] = ByteMax
    <2>1. /\ page = Mixed(NoPage, buffer, 1..at) /\ at \in Nat
          /\ page \in [1..PageSize -> Byte]
      BY <1>1 DEF PageInv, ContentInv, TypeOK
    <2>2. Len(page) = PageSize /\ Len(NoPage) = PageSize
      BY <2>1, SizeAssumption DEF NoPage
    <2>3. page' \in {page, Mixed(page, buffer, {at + 1})}
      BY <1>1 DEF Next, Save, Write, Refuse, Skip, Begin, Erase, Program, EraseFails,
                  ProgramFails, vars
    <2>4. page' = Mixed(page, buffer, {at + 1})
      BY <1>1, <2>3
    <2>5. page' = [j \in 1..PageSize |-> IF HalfWordOf(j) \in {at + 1} THEN buffer[j] ELSE page[j]]
      BY <2>2, <2>4 DEF Mixed
    <2>6. HalfWordOf(i) = at + 1
      BY <1>1, <2>5
    <2>7. HalfWordOf(i) \notin 1..at
      BY <2>1, <2>6
    <2>8. Mixed(NoPage, buffer, 1..at) =
            [j \in 1..PageSize |-> IF HalfWordOf(j) \in 1..at THEN buffer[j] ELSE NoPage[j]]
      BY <2>2 DEF Mixed
    <2>9. page[i] = NoPage[i]
      BY <2>1, <2>7, <2>8
    <2> QED
      BY <2>9 DEF NoPage
  <1>2. PageInv /\ [Next]_vars =>
          [phase = "Programming" =>
             \A i \in 1..PageSize : page'[i] # page[i] => page[i] = ByteMax]_vars
    BY <1>1
  <1> QED
    BY <1>2, PageInvariant, PTL DEF Spec, ProgramsErased

-----------------------------------------------------------------------------
\* What is written is never None, and the slot reads as something its profile may
\* be read as.
LEMMA RemainsRead ==
  ASSUME NEW d \in AnyProfile, NEW bytes, SlotOf(bytes, 0) \in Remains(d)
  PROVE  ProfileOf(bytes) \in [p \in AnyProfile |-> ReadsOf(p)][d]
  BY DEF ProfileOf, ReadsOf

LEMMA WrittenIsAProfile ==
  ASSUME PageInv, phase # "Idle"
  PROVE  Writing # None
  BY SizeAssumption DEF PageInv, ContentInv

\* Every step of a write is one of the register, or changes nothing there.
LEMMA StepsOfRegister ==
  ASSUME PageInv, PageInv', [Next]_vars
  PROVE  [Register!RegisterNext]_Register!registerVars
  <1>1. ASSUME NEW index \in Nat, NEW block \in Block, NEW profile,
               Begin(index, block, profile),
               \/ \E d \in Profiles : index = 0 /\ block = Config(d) /\ profile = d
               \/ index # 0 /\ profile = ProfileOf(page)
        PROVE  Register!RegisterNext
    <2>1. /\ phase = "Idle" /\ phase' = "Erasing" /\ target' = index
          /\ before' = ProfileOf(page) /\ saving' = profile /\ source' = source
      BY <1>1 DEF Begin
    <2>2. ASSUME NEW d \in Profiles, index = 0, profile = d
          PROVE  Register!RegisterNext
      <3>1. Register!Save(d)
        BY <2>1, <2>2 DEF Register!Save, Register!Begin, Writing
      <3> QED
        BY <3>1 DEF Register!RegisterNext
    <2>3. ASSUME index # 0, profile = ProfileOf(page)
          PROVE  Register!RegisterNext
      <3>1. Register!Rewrite
        BY <2>1, <2>3 DEF Register!Rewrite, Register!Begin, Writing
      <3> QED
        BY <3>1 DEF Register!RegisterNext
    <2> QED
      BY <1>1, <2>2, <2>3
  <1>2. ASSUME UNCHANGED <<page, phase, before, saving, target, source>>
        PROVE  UNCHANGED Register!registerVars
    BY <1>2 DEF Register!registerVars, ProfileOf, Writing
  <1>3. CASE Erase
    <2>1. /\ phase = "Erasing" /\ phase' = "Programming"
          /\ UNCHANGED <<before, saving, target, source>>
      BY <1>3 DEF Erase, writeVars
    <2> QED
      BY <2>1 DEF Register!registerVars, Writing
  <1>4. CASE Program
    <2>1. /\ phase = "Programming" /\ UNCHANGED <<before, saving, target>>
          /\ page' = Mixed(page, buffer, {at + 1})
          /\ phase' = IF More THEN phase ELSE "Idle"
          /\ source' = IF More THEN source ELSE Writing
      BY <1>4 DEF Program, writeVars
    <2>2. CASE More
      BY <2>1, <2>2 DEF Register!registerVars, Writing
    <2>3. CASE ~More
      <3>1. page' = buffer /\ phase' = "Idle" /\ source' = Writing
        BY <2>1, <2>3, NextHalfWord
      <3>2. ProfileOf(page') = saving /\ Writing # None
        BY <2>1, <3>1, WrittenIsAProfile DEF PageInv, ReadInv
      <3>3. Register!Succeed
        BY <2>1, <3>1, <3>2 DEF Register!Succeed
      <3> QED
        BY <3>3 DEF Register!RegisterNext
    <2> QED
      BY <2>2, <2>3
  <1>5. CASE EraseFails \/ ProgramFails
    <2>1. phase # "Idle" /\ phase' = "Idle"
      BY <1>5 DEF EraseFails, ProgramFails, GiveUp
    <2>2. /\ source' \in AnyProfile /\ source' \in {source, Writing}
          /\ SlotOf(page', 0) \in Remains(source')
      BY <1>5, AfterFailure
    <2>3. ProfileOf(page') \in [d \in AnyProfile |-> ReadsOf(d)][source']
      BY <2>2, RemainsRead
    <2>4. Register!Fail
      BY <2>1, <2>2, <2>3, WrittenIsAProfile DEF Register!Fail
    <2> QED
      BY <2>4 DEF Register!RegisterNext
  <1>6. ASSUME NEW index, NEW block, Skip(index, block)
        PROVE  UNCHANGED Register!registerVars
    BY <1>2, <1>6 DEF Skip, writeVars
  <1>7. CASE UNCHANGED vars
    BY <1>2, <1>7 DEF vars, writeVars
  <1> QED
    BY <1>1, <1>3, <1>4, <1>5, <1>6, <1>7, CallsOfNext

\* What is read is the profile that was saved last, or, once a step failed or power
\* was lost (profile_config.c:33-52, eeprom_emul.c:61-111), what the sum lets pass
\* of the bytes of one profile, the new one or the one before it: for every set of
\* profiles, those that can be torn with the right sum included.
THEOREM StoreImplementsRegister == Spec => ImplementsRegister
  <1>1. Init => Register!RegisterInit
    BY NoPageIsErased, ErasedAssumption
       DEF Init, Register!RegisterInit, ProfileOf, ReadConfig
  <1>2. PageInv /\ PageInv' /\ [Next]_vars => [Register!RegisterNext]_Register!registerVars
    BY StepsOfRegister
  <1> QED
    BY <1>1, <1>2, PageInvariant, PTL DEF Spec, ImplementsRegister, Register!RegisterSpec
=============================================================================
