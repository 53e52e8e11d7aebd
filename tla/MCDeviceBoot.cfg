SPECIFICATION Spec
CONSTANTS
  note = note
  report = report
  NoMessage = NoMessage
  Noise = Noise
  Messages <- MCMessages
  LineCount <- MCLineCount
  ReadingTimeout = 3
  LongPress = 5
  DebounceDelay = 1
  LoopDelay = 1
  BounceTime = 1
  MinDwell = 4
  MaxHold = 6
  MaxLag = 0
  HalfRange = 6
  MaxPanics = 0
PROPERTIES
  NewNotificationsStay
