SPECIFICATION FairSpec
CONSTANTS
  Texts <- MCTexts
  PRESENCE_LINE_CHARS = 4
  BODY_MAX_BYTES = 8
  NONE <- MCNone
INVARIANTS
  TypeOK
  LinesInOrder
  NothingLost
  WordsWhole
  CharactersWhole
PROPERTIES
  MovesOn
  Terminates
CHECK_DEADLOCK FALSE
