SPECIFICATION FairSpec
CONSTANTS
  MemoryMap <- SplitMap
  HeapPages = 6
  FirstSlot = 1
  TableSize = 3
  StackPages = 2
  Touched <- SixPages
CHECK_DEADLOCK FALSE
INVARIANT TypeOK
INVARIANT FramesNotShared
INVARIANT NoFrameLeaked
INVARIANT PanicOnlyWhenExhausted
INVARIANT StacksNeverFault
PROPERTY AccessesComplete
