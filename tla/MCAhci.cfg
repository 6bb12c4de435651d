SPECIFICATION Spec
CONSTANTS
  l1 = l1
  l2 = l2
  b1 = b1
  b2 = b2
  d1 = d1
  d2 = d2
  Lbas = {l1, l2}
  Buffers = {b1, b2}
  Data = {d1, d2}
  Passport = Passport
  None = None
  InfoBuffer = b1
  PollLimit = 1
INVARIANTS
  IInv
PROPERTIES
  SuccessIsReal
  ErrorSticks
  KeepsContract
  CallsReturn
CHECK_DEADLOCK FALSE
