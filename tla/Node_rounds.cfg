SPECIFICATION FairSpec
CONSTANTS
  ACCOUNT = 1000
  SizeCount = 65536
  Draws = {501}
  Garbage = {0}
  SpoiledHashes = {}
  SpoiledRoots = {}
  EmptyBack = {"accept", "reject", "throw", "crash"}
  Me = 1
  Peers = {2}
  PortScans <- OnePeer
  DecodeRef = {"body", "emptied", "crash"}
  FallsBack = TRUE
  LONGEST_CHAIN_MISMATCH = 6
  RaceCorrupts = TRUE
  Sends = {"TRANSACTION", "BLOCK", "BLOCKCHAIN"}
  MaxReceived = 1
  MaxMade = 0
  MaxMined = 2
INVARIANTS
  ChainValid
  AnnouncedOnChain
  MinedExtends
  PoolKnown
PROPERTIES
  AppendOnly
  KeepsLedger
  RemovalKeepsOthers
  RoundsEnd
CHECK_DEADLOCK FALSE
