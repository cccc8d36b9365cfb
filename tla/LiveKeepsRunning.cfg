SPECIFICATION BridgeSpec
CONSTANTS
  ReplayLen = 1
  MacroLen = 1
  BufLen = 2
  MaxMacros = 1
  MaxSent = 3
INVARIANT LiveKeepsRunning
CHECK_DEADLOCK FALSE
