SPECIFICATION Spec
CONSTANTS
  BUFFER_SIZE = 12
  Char <- Chars
  MessageText <- Texts
  NodeOf <- Nodes
  Arrivable <- Arrivals
INVARIANTS
  TypeOK
  LineInBuffer
  CommandIsTheLine
PROPERTIES
  LinesUnderstood
  ImplementsLines
