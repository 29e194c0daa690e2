SPECIFICATION Spec
CONSTANTS
  StartupMode = "STANDALONE"
  Wrap = 4
  HEARTBEAT_INTERVAL = 2
  CONFIG_INTERVAL = 1
  MAX_INTERVAL = 2
  MaxLag = 1
  Node <- ThreeNodes
  Kind <- ThreeNodesKind
  MAX_NODES = 2
  HostCommand <- AllCommands
  SetupCalls <- AddNodesThenBegin
INVARIANTS
  TypeOK
  StandaloneNeverSupervises
  NodesBegun
  BegunInOrder
PROPERTIES
  ImplementsSession
  OnlyAckedCommandsSet
