SPECIFICATION Spec
CONSTANTS
  Texts <- MCEndings
  PRESENCE_LINE_CHARS = 4
  BODY_MAX_BYTES = 3
  NONE <- MCNone
INVARIANTS
  PrefixIsSafe
CHECK_DEADLOCK FALSE
