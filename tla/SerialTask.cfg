SPECIFICATION TaskSpec
CONSTANTS
  Byte <- LineBytes
  Noise <- MCNoise
  Zero = 0
  Size = 4
  Digits = 2
  LMod = 4
  Messages = 5
INVARIANTS ParserInv PadIsLastGoodLine AppliedWasSent NoOverrunNoOverflow
PROPERTIES RingIsFifo AppliedInOrder LastStateWins
CHECK_DEADLOCK FALSE
