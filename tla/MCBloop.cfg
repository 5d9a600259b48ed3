SPECIFICATION FairSpec
CONSTANTS
  NTask = 2
  Led = 0
  Caller = {c1, c2}
  IsrTask = {1}
  Bit <- Bits
  LedTimer <- Leds
  Period <- OneAndTwo
  ClockMod = 7
  MaxLate = 1
  MaxPost = 2
INVARIANTS
  TypeOK
  EventNotLost
  WakeupNotLost
  PicksSomething
  TimersAscend
PROPERTIES
  KeepsBlinking
  EventHandled
