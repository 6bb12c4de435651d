SPECIFICATION Spec
CONSTANTS
  chA = chA
  chB = chB
  full = full
  Columns = 3
  Rows = 4
  Glyphs = {chA, chB, full, Space}
  Tall = {full}
  Space = Space
  NewLine = NewLine
  Smear = Smear
  Symbols = {chA, Space}
  BufferSize = 6
  Prompt <- MCPrompt
  Info <- MCInfo
  Outputs <- MCOutputs
  FarColumn = 16
  Nul = Nul
INVARIANTS
  LineOnScreen
PROPERTIES
  ReadsLines
