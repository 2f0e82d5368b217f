SPECIFICATION Spec
CONSTANTS
  ACCOUNT = 1000
  SizeCount = 65536
  Draws = {499}
  Garbage = {0}
  SpoiledHashes = {}
  SpoiledRoots = {}
  EmptyBack = {"accept"}
  Me = 1
  Peers = {2}
  PortScans <- OnePeer
  DecodeRef = {"body"}
  FallsBack = FALSE
  LONGEST_CHAIN_MISMATCH = 6
  RaceCorrupts = FALSE
  Sends = {"TRANSACTION", "BLOCK", "BLOCKCHAIN"}
  MaxReceived = 2
  MaxMade = 1
  MaxMined = 0
INVARIANTS
  BalanceOfSome
  WireAgrees
  OwnBlocksOnly
  RootsCommit
CHECK_DEADLOCK FALSE
