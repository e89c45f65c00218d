\* A statement of the code's comments that does not hold: RawInfoOfWellFormed.
CONSTANTS
  Alphabet <- MCAlphabet
  IntMax = 9999
  DigestSize = 2
  Torrents <- MCTorrents
  BadTexts <- MCBadTexts
  SHA1Of <- MCHash
  peer_id <- MCPeerId
  Reserved <- MCReserved
  Headers <- MCHeaders
  Answers <- MCAnswers
  BadReplies <- MCBadReplies
  BufferSize = 3
  Int32Half = 2048
  MaxAnnounces = 3
SPECIFICATION Spec
INVARIANT RawInfoOfWellFormed
CHECK_DEADLOCK FALSE
