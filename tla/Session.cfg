\* A pool limit below the number of addresses; all threads; every ending.
CONSTANTS
  MAX_PEERS = 1
  MaxListed = 3
SPECIFICATION Spec
INVARIANTS
  SessionTypeOK
  ActivePeersCounted
  NoThreadOutlivesSession
  TruthfulScreen
  CleanFinish
PROPERTY ShutdownEnds
CHECK_DEADLOCK FALSE
