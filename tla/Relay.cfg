\* The system stops once every registration is consumed or cancelled.
CONSTANTS
  Host = {h1, h2}
  Guest = {g1, g2, g3}
  Code = {c1, c2}
  TTL = 1
  None = None
SPECIFICATION RelaySpec
INVARIANTS NeverBlocks SingleUse SameSession
PROPERTY PairingSpec
CHECK_DEADLOCK FALSE
