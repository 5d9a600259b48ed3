SPECIFICATION FairSpec
CONSTANTS
  NSta = 2
  BcmcIdx = 1
  Mac = {m1}
  NoMac = NoMac
  ViaSta = ViaSta
  Bcast = Bcast
  Pkt = {p1, p2}
  TxDescCnt = 1
  MaxRepush = 1
PROPERTIES
  Delivered
