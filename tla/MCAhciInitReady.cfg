SPECIFICATION Spec
CONSTANTS
  LastPort = 1
  Buses <- MCBuses
  SlotsRead = 2
  FunctionsRead = 2
  TableSize = 2
  DiskPorts <- MCDiskPorts
INVARIANT ScanMakesReady
CHECK_DEADLOCK FALSE
