SPECIFICATION Spec
\* A manager nobody calls waits at its queue.
CHECK_DEADLOCK FALSE
CONSTANTS
  Profile <- StaProfiles
  NoProfile = NoProfile
  StaticIp = {"ip1"}
  AppOp = {"CONNECT", "DISCONNECT", "IP_SET", "IP_UNSET", "DENOISE_ON", "DENOISE_OFF"}
  ShortLease = FALSE
  MqCount = 3
  MaxCalls = 3
  MaxTriggers = 2
INVARIANTS
  EndsWithLink
  IPYesHasAddress
  WakeupNotLost
