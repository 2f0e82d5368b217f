SPECIFICATION Spec
CONSTANTS
  a = a
  b = b
  Procs <- TwoProcesses
  Threads <- TwoThreads
  home <- Homes
  Payers <- Payer
  PORTS <- TwoPorts
  Others = {8081}
  Fallthrough = {0}
  SharedBind = TRUE
  BACKLOG = 2
  MaxScans = 1
  MaxStarts = 1
INVARIANT UniquePort
CHECK_DEADLOCK FALSE
