SPECIFICATION FairSpec
CONSTANTS
  Callers <- ThreeCallers
  Solvers <- OneSolver
  home <- TwoProcesses
  Chars = {"a", "b", "c"}
  Texts <- OneText
  Nonces <- TwoNonces
  Wins <- Winners
  BUFLEN = 2
  OpenFails = TRUE
INVARIANTS
  TypeOK
  NothingInvented
  SolutionsSolve
PROPERTIES
  HashesWhatItWasGiven
  EveryCallEnds
CHECK_DEADLOCK FALSE
