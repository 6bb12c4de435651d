SPECIFICATION Spec
CONSTANTS
  HeapBase = 1
  HeapSize = 14
  Header = 2
  Sizes <- MCSizes
INVARIANTS
  IInv
PROPERTIES
  KeepsPromise
  FailsOnlyFull
  CallsReturn
