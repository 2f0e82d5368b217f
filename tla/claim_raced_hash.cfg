SPECIFICATION Spec
CONSTANTS
  ACCOUNT = 1000
  SizeCount = 65536
  Draws = {501}
  Garbage = {0}
  SpoiledHashes <- EmptyFileHash
  SpoiledRoots <- EmptyFileRoot
  EmptyBack = {"accept"}
  Me = 1
  Peers = {2}
  PortScans <- OnePeer
  DecodeRef = {"body"}
  FallsBack = FALSE
  LONGEST_CHAIN_MISMATCH = 6
  RaceCorrupts = FALSE
  Sends = {}
  MaxReceived = 0
  MaxMade = 0
  MaxMined = 0
INVARIANTS
  HashesRight
CHECK_DEADLOCK FALSE
