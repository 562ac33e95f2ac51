SPECIFICATION Spec
CONSTANTS
  HeapStart = 16
  HeapSize = 80
  Layouts <- SomeLayouts
  BlockSizes <- TwoSizes
INVARIANT TypeOK
INVARIANT BlocksAccountedFor
PROPERTY ImplementsHeap
