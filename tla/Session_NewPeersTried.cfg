\* A statement of a comment that does not hold: NewPeersTried.
CONSTANTS
  MAX_PEERS = 1
  MaxListed = 1
SPECIFICATION Spec
PROPERTY NewPeersTried
CHECK_DEADLOCK FALSE
