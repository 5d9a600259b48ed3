SPECIFICATION FairSpec
\* A manager nobody calls waits at its queue.
CHECK_DEADLOCK FALSE
CONSTANTS
  Profile <- OneProfile
  NoProfile = NoProfile
  StaticIp = {}
  AppOp = {"CONNECT", "DISCONNECT", "IDLE", "DISABLE"}
  ShortLease = FALSE
  MqCount = 2
  MaxCalls = 4
  MaxTriggers = 0
PROPERTIES
  PendingConnectServed
  Reconnects
