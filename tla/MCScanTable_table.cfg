SPECIFICATION Spec
\* The bound on time ends behaviours.
CHECK_DEADLOCK FALSE
CONSTANTS
  Ap = {"a1", "a2", "b", "h"}
  NoAp = "none"
  Hidden = {"h"}
  Ssid = {"home", "cafe", ""}
  SsidOf <- Names
  Rssi <- Signals
  Channel = {0, 1, 2}
  Countries = {1, 2}
  Slots = 3
  Limit = 1
  Timeout = 2
  ClockMod = 8
  Start = 6
  MaxTime = 8
INVARIANTS
  WellFormed
PROPERTIES
  ImplementsScanSet
