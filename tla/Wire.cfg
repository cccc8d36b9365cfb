SPECIFICATION WireSpec
CONSTANTS
  Digits = 14
  LMod = 256
  Inputs <- MCInputs
INVARIANTS WireTypeOK ButtonsArrive DirectionsArrive
CHECK_DEADLOCK FALSE
