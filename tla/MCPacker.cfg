SPECIFICATION Spec
CONSTANTS
  Boot = Boot
  System = System
  Home = Home
  Elsewhere = Elsewhere
  Root = Root
  Stage2 = Stage2
  Empty = Empty
  Nothing = Nothing
  f1 = f1
  f2 = f2
  Files = {f1, f2}
  NodePBlock = 4
  Stride = 4
  MaxPtr = 2
  BitsPerBlock = 32
  TotalBlock = 10
  MaxPushes = 3
SYMMETRY Symmetric
INVARIANTS
  ImageOK
  PushedIsFound
CHECK_DEADLOCK FALSE
