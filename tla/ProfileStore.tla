---------------------------- MODULE ProfileStore ----------------------------
(***************************************************************************)
(* The profile (Src/profile_config.c) in the first slot of the flash page  *)
(* that stands for an EEPROM (Src/eeprom_emul.c).  A write of a slot       *)
(* erases the page and programs all of it again, half word by half word;   *)
(* each step may fail, or be the last before power is lost.                *)
(***************************************************************************)
EXTENDS Naturals, Sequences, SequencesExt, FiniteSets

CONSTANTS
  ByteMax,        \* 255
  ConfigSize,     \* the bytes of a slot: 64, a profile and its checksum
  PageSize,       \* the bytes of the page: CONFIG_PAGE_SIZE
  Profiles,       \* the profiles that are saved
  Blocks,         \* what else is written, a slot's bytes
  Unknown, None

VARIABLES
  page,       \* the bytes of the page
  phase,      \* Idle, Erasing or Programming
  buffer,     \* page_buffer: what the page is to be
  at,         \* half words programmed
  target,     \* the slot that is written
  before,     \* the profile that was read before the write
  saving,     \* the profile that is to be read after it
  source,     \* the profile whose bytes, all or some, the first slot has
  stored      \* per slot, what a write that returned HAL_OK put there, Unknown
              \* once a later write failed

writeVars == <<buffer, target, before, saving>>
vars == <<page, phase, writeVars, at, source, stored>>

Byte == 0..ByteMax
HalfWords == 1..PageSize \div 2
Slots == 0..PageSize \div ConfigSize - 1
Block == [1..ConfigSize -> Byte]

Default == [i \in 1..ConfigSize-1 |-> 0]
NoPage == [i \in 1..PageSize |-> ByteMax]

Checksum(bytes) == FoldSeq(+, 0, bytes) % (ByteMax + 1)

\* profile_config_save
Config(d) == Append(d, Checksum(d))

SlotOf(bytes, index) == SubSeq(bytes, index * ConfigSize + 1, (index + 1) * ConfigSize)

Valid(config) == Checksum(Front(config)) = Last(config)

\* profile_config_read, given what it reads.
ReadConfig(config) == IF Valid(config) THEN Front(config) ELSE Default

\* Mutant: the checksum is not checked.
ProfileOfAny(bytes) == Front(SlotOf(bytes, 0))

\* profile_config_read
ProfileOf(bytes) == ReadConfig(SlotOf(bytes, 0))

\* Mutant: the rest of the page is not read before it is erased.
UpdatedAlone(bytes, index, block) ==
  [i \in 1..PageSize |->
     IF (i - 1) \div ConfigSize = index THEN block[((i - 1) % ConfigSize) + 1]
                                       ELSE ByteMax]

Updated(bytes, index, block) ==
  [i \in 1..PageSize |->
     IF (i - 1) \div ConfigSize = index THEN block[((i - 1) % ConfigSize) + 1]
                                       ELSE bytes[i]]

HalfWordOf(i) == (i + 1) \div 2

\* The page with the half words of S as they are in another.
Mixed(bytes, other, S) ==
  [i \in 1..Len(bytes) |-> IF HalfWordOf(i) \in S THEN other[i] ELSE bytes[i]]

ErasedSlot == [i \in 1..ConfigSize |-> ByteMax]

\* What is left of a saved profile where the half words of S are erased.
Torn(d, S) == Mixed(Config(d), ErasedSlot, S)

\* All that may be left of it, and what is read of that: the default profile, but
\* also what the sum takes for a profile.
Remains(d) == {Torn(d, S) : S \in SUBSET (1..ConfigSize \div 2)}
ReadsOf(d) == {ReadConfig(config) : config \in Remains(d)}

AnyProfile == Profiles \cup {Default}

ASSUME SizeAssumption ==
  /\ ByteMax \in Nat /\ ConfigSize \in Nat /\ PageSize \in Nat \ {0}
  /\ ConfigSize % 2 = 0 /\ ConfigSize > 2 /\ PageSize % ConfigSize = 0
  /\ Profiles \subseteq [1..ConfigSize-1 -> Byte] /\ Blocks \subseteq Block
  /\ None \notin AnyProfile

\* An erased slot is no profile: 63 bytes 0xFF have the sum 0xC1.
ASSUME ErasedAssumption == ~Valid(ErasedSlot)

\* The sum of bytes is a byte.
ASSUME ChecksumAssumption == \A d \in AnyProfile : Checksum(d) \in Byte

Init ==
  /\ page = NoPage
  /\ phase = "Idle"
  /\ buffer = NoPage
  /\ at = 0
  /\ target = 0
  /\ before = Default
  /\ saving = Default
  /\ source = Default
  /\ stored = [i \in Slots |-> Unknown]

-----------------------------------------------------------------------------
(***************************************************************************)
(* epemul_write_config_data                                                *)
(***************************************************************************)

\* The slot is out of range, and nothing happens.
Refuse(index) ==
  /\ phase = "Idle"
  /\ (index + 1) * ConfigSize > PageSize
  /\ UNCHANGED vars

\* The slot holds the data already.
Skip(index, block) ==
  /\ phase = "Idle"
  /\ index \in Slots
  /\ SlotOf(page, index) = block
  /\ stored' = [stored EXCEPT ![index] = block]
  /\ UNCHANGED <<page, phase, writeVars, at, source>>

Begin(index, block, profile) ==
  /\ phase = "Idle"
  /\ index \in Slots
  /\ SlotOf(page, index) # block
  /\ phase' = "Erasing"
  /\ buffer' = Updated(page, index, block)
  /\ target' = index
  /\ before' = ProfileOf(page)
  /\ saving' = profile
  /\ UNCHANGED <<page, at, source, stored>>

\* profile_config_save
Save(d) == Skip(0, Config(d)) \/ Begin(0, Config(d), d)

Write(index, block) ==
  /\ index # 0
  /\ Refuse(index) \/ Skip(index, block) \/ Begin(index, block, ProfileOf(page))

\* Mutant: nothing is erased.
Kept == page

ErasedPage == NoPage

\* epemul_erase_config_page
Erase ==
  /\ phase = "Erasing"
  /\ phase' = "Programming"
  /\ page' = ErasedPage
  /\ at' = 0
  /\ UNCHANGED <<writeVars, source, stored>>

\* Mutant: one half word too many.
MoreOrOne == at + 1 \in HalfWords

More == at + 2 \in HalfWords

\* The profile whose bytes the first slot is programmed with.
Writing == IF target = 0 THEN saving ELSE source

\* A half word of epemul_write_doubleword; after the last, HAL_OK.
Program ==
  /\ phase = "Programming"
  /\ page' = Mixed(page, buffer, {at + 1})
  /\ IF More
       THEN /\ at' = at + 1
            /\ UNCHANGED <<phase, source, stored>>
       ELSE /\ at' = 0
            /\ phase' = "Idle"
            /\ source' = Writing
            /\ stored' = [stored EXCEPT ![target] = SlotOf(buffer, target)]
  /\ UNCHANGED writeVars

\* The write is over with an error, or power is lost.
GiveUp ==
  /\ phase' = "Idle"
  /\ at' = 0
  /\ stored' = [i \in Slots |-> Unknown]
  /\ UNCHANGED writeVars

\* Any part of the page may have been erased by then,
EraseFails ==
  /\ phase = "Erasing"
  /\ \E S \in SUBSET HalfWords : page' = Mixed(page, NoPage, S)
  /\ GiveUp
  /\ UNCHANGED source

\* and the half word may have been programmed or not.
ProgramFails ==
  /\ phase = "Programming"
  /\ page' \in {page, Mixed(page, buffer, {at + 1})}
  /\ source' = Writing
  /\ GiveUp

Next ==
  \/ \E d \in Profiles : Save(d)
  \/ \E index \in 1..Cardinality(Slots), block \in Blocks : Write(index, block)
  \/ Erase
  \/ Program
  \/ EraseFails
  \/ ProgramFails

Spec == Init /\ [][Next]_vars

-----------------------------------------------------------------------------
TypeOK ==
  /\ page \in [1..PageSize -> Byte] /\ buffer \in [1..PageSize -> Byte]
  /\ phase \in {"Idle", "Erasing", "Programming"}
  /\ at \in 0..PageSize \div 2 - 1
  /\ target \in Slots
  /\ source \in AnyProfile
  /\ stored \in [Slots -> {Unknown} \cup Block]

\* What a write put into a slot with HAL_OK stays there through later writes of
\* any slot, also those that repair what a failed one left
\* (eeprom_emul.c:61-111), until one fails.
StoredIsKept ==
  phase = "Idle" =>
    \A i \in Slots : stored[i] # Unknown => SlotOf(page, i) = stored[i]

\* Only erased half words are programmed, as the flash asks
\* (eeprom_emul.c:86-111): otherwise it refuses.
ProgramsErased ==
  [][phase = "Programming" =>
       \A i \in 1..PageSize : page'[i] # page[i] => page[i] = ByteMax]_vars

Register == INSTANCE ProfileRegister WITH
  Readable <- [d \in AnyProfile |-> ReadsOf(d)],
  value <- IF phase = "Idle" THEN ProfileOf(page) ELSE before,
  writing <- IF phase = "Idle" THEN None ELSE Writing,
  result <- IF phase = "Idle" THEN None ELSE saving

\* What is read is the profile that was saved last, and after a failure or a loss
\* of power what the sum lets pass of its bytes or of those of the profile before
\* it, or the default one, never bytes of both (profile_config.c:33-52,
\* eeprom_emul.c:61-111), for a sum that some torn profiles pass.
ImplementsRegister == Register!RegisterSpec
=============================================================================
