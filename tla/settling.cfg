SPECIFICATION SessionSpec
CONSTANTS
  StartupMode = "MANAGED"
  Wrap = 6
  HEARTBEAT_INTERVAL = 4
  CONFIG_INTERVAL = 4
  MAX_INTERVAL = 1
  MaxLag = 1
  Node <- NoNode
  Kind <- NoKind
  MAX_NODES = 1
  HostCommand = {}
  SetupCalls <- BeginOnly
  MaxDelay = 2
  Prompt = 1
  UserRequests = {}
  MaxFaults = 1
  RecoveryTime = 0
PROPERTIES
  SettlesOncePrompt
