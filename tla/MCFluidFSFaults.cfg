SPECIFICATION FSpec
CONSTANTS
  f1 = f1
  f2 = f2
  Dirs = {}
  Files = {f1, f2}
  Root = Root
  Data = {x}
  Counts = {0, 3}
  Empty = Empty
  Deleted = Deleted
  Junk = Junk
  MaxPtr = 2
  NodePBlock = 2
  BlockSize = 2
  RootBlock = 1
  TotalBlock = 4
  MapBits = 4
  ScanBits = 5
  Image <- MCImage
  ImageMap <- MCImageMap
INVARIANTS
  OwnersNeedCause
  StaleNeedsCause
  IdleIsDurable
SYMMETRY MCSymmetry
CHECK_DEADLOCK FALSE
