SPECIFICATION FairSpec
CONSTANTS
  StartupMode = "MANAGED"
  Wrap = 5
  HEARTBEAT_INTERVAL = 2
  CONFIG_INTERVAL = 1
  MAX_INTERVAL = 2
  MaxLag = 1
  Node <- Led
  Kind <- LedKind
  MAX_NODES = 2
  HostCommand <- SetCommand
  SetupCalls <- BeginThenAddLed
PROPERTIES
  DeadHostDetected
  ConfigPhaseEnds
  KeepsAnnouncing
  StatusPublished
  CommandsAnswered
