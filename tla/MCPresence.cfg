SPECIFICATION FairSpec
CONSTANTS
  note = note
  report = report
  NoMessage = NoMessage
  Noise = Noise
  Messages <- MCMessages
  LineCount <- MCLineCount
  HalfRange = 8
  ReadingTimeout = 3
INVARIANTS
  TypeOK
  PanelMatchesState
  NoLineOutOfReach
PROPERTIES
  TimeoutExact
  KeepsPromise
  CallsReturn
