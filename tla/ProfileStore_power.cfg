CONSTANTS
  ByteMax = 15
  ConfigSize = 6
  PageSize = 12
  Profiles <- ThreeProfiles
  Blocks <- TwoBlocks
  Unknown = Unknown
  None = None
SPECIFICATION Spec
INVARIANTS TypeOK StoredIsKept
PROPERTIES ProgramsErased ImplementsRegister
