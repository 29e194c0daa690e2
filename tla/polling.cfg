SPECIFICATION PollSpec
CONSTANTS
  Node <- Inputs
  Kind <- InputKind
  MAX_NODES = 3
INVARIANTS
  NodePollingTypeOK
  RoundRobin
