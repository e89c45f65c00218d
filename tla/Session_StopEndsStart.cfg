\* A statement of a comment that does not hold: StopEndsStart.
CONSTANTS
  MAX_PEERS = 1
  MaxListed = 1
SPECIFICATION Spec
PROPERTY StopEndsStart
CHECK_DEADLOCK FALSE
