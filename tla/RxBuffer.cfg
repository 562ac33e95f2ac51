SPECIFICATION Spec
CONSTANTS
  Slots = 2
  BusLimit = 3
  Cards <- SmallCards
  PageSize = 4
  PageTable <- Pages
  AddrLimit = 16
  PacketLen = 3
  RxAt <- RxBuffers
  RxSpan = 4
  Buffers = {2}
  MaxSends = 0
INVARIANT ReceivesIntoDriver
