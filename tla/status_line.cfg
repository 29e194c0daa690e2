SPECIFICATION ReportSpec
CONSTANTS
  Id <- Ids
  Property = {"s"}
  Values <- ReportValues
  MAX_NODES = 3
  MaxProperties = 2
INVARIANTS
  ReportIsJSON
\* One report is written, and that is the end of it.
CHECK_DEADLOCK FALSE
