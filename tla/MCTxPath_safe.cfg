SPECIFICATION Spec
CONSTANTS
  NSta = 3
  BcmcIdx = 2
  Mac = {m1}
  NoMac = NoMac
  ViaSta = ViaSta
  Bcast = Bcast
  Pkt = {p1, p2}
  TxDescCnt = 1
  MaxRepush = 1
SYMMETRY PktSymmetry
INVARIANTS
  TypeOK
  OnePlace
  TriggerNotLost
  LinksMatch
  
