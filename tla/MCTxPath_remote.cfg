SPECIFICATION FairSpec
CONSTANTS
  NSta = 2
  BcmcIdx = 1
  Mac = {m1}
  NoMac = NoMac
  ViaSta = ViaSta
  Bcast = Bcast
  Pkt = {p1}
  TxDescCnt = 1
  MaxRepush = 1
PROPERTIES
  RemoteDelivered
