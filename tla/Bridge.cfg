SPECIFICATION BridgeSpec
CONSTANTS
  ReplayLen = 3
  MacroLen = 3
  BufLen = 2
  MaxMacros = 3
  MaxSent = 10
INVARIANTS RecordMatchesSent RecordOnDisk OpenEndCostsTwo MacroRunsToEnd SourcesInOrder
CHECK_DEADLOCK FALSE
