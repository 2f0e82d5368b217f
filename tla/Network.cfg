SPECIFICATION FairSpec
CONSTANTS
  a = a
  b = b
  Procs <- TwoProcesses
  Threads <- TwoThreads
  home <- Homes
  Payers <- Payer
  PORTS <- TwoPorts
  Others = {8081}
  Fallthrough = {0}
  SharedBind = TRUE
  BACKLOG = 2
  MaxScans = 1
  MaxStarts = 1
INVARIANTS
  TypeOK
  NoEcho
  ListedOncePerThread
  QuietBroadcastArrives
PROPERTIES
  ServerReturns
CHECK_DEADLOCK FALSE
