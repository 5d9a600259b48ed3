SPECIFICATION FairSpec
\* The DMA never stops, so nothing deadlocks.
CONSTANTS
  NSlot = 2
  TxDescNum = 2
  RxDescNum = 1
  SeqMax = 7
  MaxSent = 3
  MaxReset = 1
INVARIANTS
  TypeOK
  NoOverwrite
PROPERTIES
  ChannelSpec
  Arrives
