SPECIFICATION Spec
CONSTANTS
  p1 = p1
  p2 = p2
  p3 = p3
  Packets <- MCTwo
  Nothing = Nothing
  MDNS_ACTION_QUEUE_LEN = 1
  MaxOther = 1
  TimeRange = 16
  Start = 0
  MaxTime = 4
  Delays <- MCDelays
  MaxSends = 1
CHECK_DEADLOCK FALSE
INVARIANT HandledAtHead
