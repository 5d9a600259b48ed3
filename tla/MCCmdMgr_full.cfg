SPECIFICATION Spec
CONSTANTS
  Task = {t1, t2}
  Cmd = {c1, c2, c3, c4}
  PsModeCfm = PsModeCfm
  ConnectCfm = ConnectCfm
  CfmId <- CfmIds
  NoCfm = NoCfm
  Request <- AllRequests
  MaxQueued = 2
  NULL = NULL
SYMMETRY Symmetry
INVARIANTS
  BlockingCallerOwnsCmd
