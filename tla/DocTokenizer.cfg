SPECIFICATION TokenizerSpec
CONSTANTS
  StringModes = {"FALLBACK", "STRICT"}
  AnyBytes = TRUE
  MaxBytes = 4
  MaxTokens = 2
INVARIANTS
  OffsetsInBytes
  CallbacksOnlyWarn
CHECK_DEADLOCK FALSE
