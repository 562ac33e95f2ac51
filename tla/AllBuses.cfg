SPECIFICATION Spec
CONSTANTS
  Slots = 32
  BusLimit = 255
  Cards <- LastCards
  PageSize = 4
  PageTable <- Pages
  AddrLimit = 16
  PacketLen = 3
  RxAt <- RxBuffers
  RxSpan = 4
  Buffers = {2}
  MaxSends = 0
INVARIANT AllBusesScanned
