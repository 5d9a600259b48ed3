SPECIFICATION Spec
\* A manager nobody calls waits at its queue.
CHECK_DEADLOCK FALSE
CONSTANTS
  Profile <- HintProfiles
  NoProfile = NoProfile
  StaticIp = {}
  AppOp = {"CONNECT", "DISCONNECT", "IDLE", "ENABLE", "DISABLE", "SCAN", "SNIFFER", "AP_START", "AP_STOP", "OTHER"}
  ShortLease = FALSE
  MqCount = 3
  MaxCalls = 3
  MaxTriggers = 0
INVARIANTS
  TypeOK
  StateFollowsFw
  TimersMatchState
  NeverStranded
  RetryUsesDefault
  VifIntactUnlessStray
