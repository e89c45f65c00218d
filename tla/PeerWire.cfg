\* Two frames, every kind of message, every split of the stream.
CONSTANTS
  Messages <- MCMessages
  BadFrames <- MCBadFrames
  MaxMessages = 2
SPECIFICATION Spec
INVARIANT PeerWireTypeOK
PROPERTIES
  ImplementsChannel
  EverythingRead
CHECK_DEADLOCK FALSE
