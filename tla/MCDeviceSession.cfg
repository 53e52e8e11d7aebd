SPECIFICATION Spec
CONSTANTS
  note = note
  report = report
  NoMessage = NoMessage
  Noise = Noise
  Messages <- MCNote
  LineCount <- MCNoteLineCount
  ReadingTimeout = 2
  LongPress = 6
  DebounceDelay = 1
  LoopDelay = 1
  BounceTime = 0
  MinDwell = 8
  MaxHold = 8
  MaxLag = 1
  HalfRange = 9
  MaxPanics = 0
INVARIANTS
  SessionEndsInTime
