SPECIFICATION SessionSpec
CONSTANTS
  StartupMode = "MANAGED"
  Wrap = 9
  HEARTBEAT_INTERVAL = 7
  CONFIG_INTERVAL = 7
  MAX_INTERVAL = 1
  MaxLag = 1
  Node <- NoNode
  Kind <- NoKind
  MAX_NODES = 1
  HostCommand = {}
  SetupCalls <- BeginOnly
  MaxDelay = 1
  UserRequests = {}
  MaxFaults = 1
  RecoveryTime = 36
INVARIANTS
  RecoveryBounded
  RecoveryInv
