SPECIFICATION Spec
CONSTANTS
  ACCOUNT = 1000
  SizeCount = 65536
  Draws = {501}
  Garbage = {0}
  SpoiledHashes = {}
  SpoiledRoots = {}
  EmptyBack = {"accept"}
  Me = 1
  Peers = {2}
  PortScans <- OnePeer
  DecodeRef = {"body"}
  FallsBack = FALSE
  LONGEST_CHAIN_MISMATCH = 6
  RaceCorrupts = FALSE
  Sends = {"BLOCK"}
  MaxReceived = 1
  MaxMade = 0
  MaxMined = 0
INVARIANTS
  ChainLinked
CHECK_DEADLOCK FALSE
