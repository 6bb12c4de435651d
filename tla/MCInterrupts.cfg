SPECIFICATION Spec
CONSTANTS
  Functions <- LibraryFunctions
  Misfit = {"free", "fopen", "clear_screen", "sys_died"}
  Careless = {"sys_check", "write_root", "sys_died"}
INVARIANTS
  Transparent
  ServesCalls
  EndsMatch
  Interruptible
PROPERTIES
  CallsReturn
