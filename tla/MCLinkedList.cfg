SPECIFICATION Spec
CONSTANTS
  UsizeMax = 255
  HeapStart = 72
  HeapSize = 96
  NodeSize = 16
  NodeAlign = 8
  Layouts <- SomeLayouts
INVARIANT TypeOK
INVARIANT FreeListSound
INVARIANT NoAssertionFails
INVARIANT OnlyPaddingIsLost
PROPERTY ImplementsHeap
