SPECIFICATION SessionSpec
CONSTANTS
  StartupMode = "MANAGED"
  Wrap = 7
  HEARTBEAT_INTERVAL = 4
  CONFIG_INTERVAL = 3
  MAX_INTERVAL = 1
  MaxLag = 1
  Node <- NoNode
  Kind <- NoKind
  MAX_NODES = 1
  HostCommand = {}
  SetupCalls <- BeginOnly
  MaxDelay = 1
  UserRequests = {"IDLE"}
  MaxFaults = 2
  RecoveryTime = 0
INVARIANTS
  SidesAgree
  AgreementInv
  TimingInv
PROPERTIES
  AnswersKeepUp
