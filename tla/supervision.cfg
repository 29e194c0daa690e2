SPECIFICATION SupervisionSpec
CONSTANTS
  StartupMode = "MANAGED"
  Wrap = 6
  HEARTBEAT_INTERVAL = 4
  CONFIG_INTERVAL = 1
  MAX_INTERVAL = 2
  MaxLag = 1
  Node <- Led
  Kind <- LedKind
  MAX_NODES = 2
  HostCommand <- NoCommands
  SetupCalls <- BeginThenAddLed
INVARIANTS
  SilenceBounded
  TimeoutDeserved
  SupervisionInv
