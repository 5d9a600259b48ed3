SPECIFICATION Spec
CONSTANTS
  Task = {t1}
  Cmd = {c1, c2}
  PsModeCfm = PsModeCfm
  ConnectCfm = ConnectCfm
  CfmId <- CfmIds
  NoCfm = NoCfm
  Request <- NonBlockRequests
  MaxQueued = 2
  NULL = NULL
INVARIANTS
  CallerOwnsCmd
