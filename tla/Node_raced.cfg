SPECIFICATION Spec
CONSTANTS
  ACCOUNT = 1000
  SizeCount = 65536
  Draws = {501}
  Garbage <- Unsigned
  SpoiledHashes <- EmptyFileHash
  SpoiledRoots <- EmptyFileRoot
  EmptyBack = {"accept", "reject", "throw", "crash"}
  Me = 1
  Peers = {2}
  PortScans <- AnyScan
  DecodeRef = {"body"}
  FallsBack = TRUE
  LONGEST_CHAIN_MISMATCH = 6
  RaceCorrupts = TRUE
  Sends = {}
  MaxReceived = 0
  MaxMade = 0
  MaxMined = 2
INVARIANTS
  TypeOK
  ChainValid
  MinedExtends
CHECK_DEADLOCK FALSE
