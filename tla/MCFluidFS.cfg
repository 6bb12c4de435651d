SPECIFICATION Spec
CONSTANTS
  d1 = d1
  f1 = f1
  f2 = f2
  Dirs = {d1}
  Files = {f1}
  Root = Root
  Data = {x}
  Counts = {0, 2, 3}
  Empty = Empty
  Deleted = Deleted
  Junk = Junk
  MaxPtr = 2
  NodePBlock = 2
  BlockSize = 2
  RootBlock = 1
  TotalBlock = 5
  MapBits = 5
  ScanBits = 5
  Image <- MCImage
  ImageMap <- MCImageMap
INVARIANTS
  NoCrossLink
  UsedBlocksMarked
  TornOnlyAtFlush
  FreedBlocksErased
  SizeCovered
  NoLostRecord
PROPERTIES
  LeaksOnlyKnown
  OthersUntouched
  CallsReturn
