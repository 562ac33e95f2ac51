SPECIFICATION Spec
CONSTANTS
  Width = 3
  Height = 3
  Printable = {"x"}
INVARIANT TypeOK
PROPERTY ImplementsTerminal
