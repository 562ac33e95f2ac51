SPECIFICATION Spec
CONSTANTS
  UsizeMax = 255
  HeapStart = 68
  HeapSize = 24
  Layouts <- SomeLayouts
INVARIANT WholeWhenEmpty
INVARIANT BumpInv
PROPERTY ImplementsHeap
