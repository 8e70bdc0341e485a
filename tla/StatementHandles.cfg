SPECIFICATION Spec
CONSTANTS
  Handles = {h1, h2, h3}
  Addrs = {a1, a2, a3, a4}
  NULL = NULL
  MaxNodes = 4
  BindInactive = FALSE
INVARIANTS
  OneOwnerEach
  OnlyPrepared
  DisconnectCloses
