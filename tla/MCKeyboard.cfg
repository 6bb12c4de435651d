SPECIFICATION KSpec
CONSTANTS
  BufSize = 3
  Shifts = {ls, rs}
  Symbols = {a}
  Blanks = {z}
  MaxPresses = 5
INVARIANTS
  KIInv
  InOrder
  NoStuckShift
PROPERTIES
  LostOnlyKnown
  Arrives
