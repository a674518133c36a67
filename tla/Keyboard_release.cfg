CONSTANTS
  Lower = {"b"}
  Upper = {"A", "C"}
  Letter <- LetterOf
  ModifierKeys = {"Shift"}
  Unmapped = {"Unmapped"}
  Shift = "Shift"
  NoKey = "NoKey"
  Slots = 2
SPECIFICATION Spec
INVARIANT TypedIsUp
