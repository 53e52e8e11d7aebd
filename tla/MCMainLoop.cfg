SPECIFICATION Spec
CONSTANTS
  HalfRange = 25
  LongPress = 24
  DebounceDelay = 3
  LoopDelay = 2
  BounceTime = 3
  MinDwell = 14
  MaxHold = 34
  MaxLag = 1
INVARIANTS
  TypeOK
  OnePressOneCall
PROPERTIES
  ClassifiedByHold
  ReleaseActedUpon
