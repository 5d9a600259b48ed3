SPECIFICATION FairSpec
CONSTANTS
  Task = {t1, t2, t3}
  Cmd = {c1, c2, c3}
  PsModeCfm = PsModeCfm
  ConnectCfm = ConnectCfm
  CfmId <- CfmIds
  NoCfm = NoCfm
  Request <- BlockingRequests
  MaxQueued = 3
  NULL = NULL
INVARIANTS
  TypeOK
  MailboxExclusive
  DeferredHasPusher
  CfmAnswersItsCmd
  NoDanglingCmd
  WokenIsFinished
  QuietHeapIsEmpty
PROPERTIES
  PushedInOrder
  CallReturns
