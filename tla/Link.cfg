SPECIFICATION LinkSpec
CONSTANTS
  MaxSent = 4
  RingMsgs = 2
  RxCap = 2
  MaxFaults = 1
  MaxResets = 1
INVARIANTS LinkInv FlowControl
PROPERTIES LinkIsStream BridgeNotStuck LastStateSeen
CHECK_DEADLOCK FALSE
