SPECIFICATION Spec
CONSTANTS
  StartupMode = "MANAGED"
  Wrap = 6
  HEARTBEAT_INTERVAL = 3
  CONFIG_INTERVAL = 1
  MAX_INTERVAL = 2
  MaxLag = 1
  Node <- Led
  Kind <- LedKind
  MAX_NODES = 2
  HostCommand <- SetCommand
  SetupCalls <- BeginThenAddLed
INVARIANTS
  HandshakeAgreement
  NothingOverwritten
  OneMessageAtATime
  DeviceInv
PROPERTIES
  ImplementsSession
  OneReplyPerCommand
