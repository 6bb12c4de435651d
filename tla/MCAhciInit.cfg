SPECIFICATION Spec
CONSTANTS
  LastPort = 2
  Buses <- MCBuses
  SlotsRead = 2
  FunctionsRead = 2
  TableSize = 2
  DiskPorts <- MCDiskPorts
INVARIANTS
  IssueReady
PROPERTIES
  MovedOnlyStopped
  BootReachesCommand
CHECK_DEADLOCK FALSE
