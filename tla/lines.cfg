SPECIFICATION Spec
CONSTANTS
  Char <- Chars
  ReplyValues <- Answers
  NodePaths <- EventPaths
  Payloads <- EventPayloads
  Configs <- DeviceConfigs
  Id <- Ids
  Property = {"s"}
  Values <- StatusValues
  MAX_NODES = 2
  MaxProperties = 1
  MaxMessages = 2
INVARIANTS
  StreamUnderstood
\* The bound on the messages is reached.
CHECK_DEADLOCK FALSE
