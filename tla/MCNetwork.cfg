SPECIFICATION FairSpec
CONSTANTS
  Slots = 2
  BusLimit = 3
  Cards <- SmallCards
  PageSize = 4
  PageTable <- Pages
  AddrLimit = 16
  PacketLen = 3
  RxAt <- RxBuffers
  RxSpan = 4
  Buffers = {2, 8, 14}
  MaxSends = 5
INVARIANT TypeOK
INVARIANT WireIsGiven
INVARIANT SentOnReturn
INVARIANT EveryCardStarted
PROPERTY OwnedIsFrozen
PROPERTY SendReturns
