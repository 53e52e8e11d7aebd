SPECIFICATION FairSpec
CONSTANTS
  note = note
  report = report
  NoMessage = NoMessage
  Noise = Noise
  Messages <- MCReport
  LineCount <- MCReportLineCount
  ReadingTimeout = 2
  LongPress = 5
  DebounceDelay = 1
  LoopDelay = 1
  BounceTime = 0
  MinDwell = 4
  MaxHold = 5
  MaxLag = 0
  HalfRange = 5
  MaxPanics = 1
PROPERTIES
  ReleaseServed
INVARIANTS
  TypeOK
  BootedPanel
