\* Well-formed, truncated and malformed torrents, then three announces.
CONSTANTS
  Alphabet <- MCAlphabet
  IntMax = 9999
  DigestSize = 2
  Torrents <- MCTorrents
  BadTexts <- MCBadTexts
  SHA1Of <- MCHash
  peer_id <- MCPeerId
  Reserved <- MCReserved
  Headers <- MCHeaders
  Answers <- MCAnswers
  BadReplies <- MCBadReplies
  BufferSize = 3
  Int32Half = 2048
  MaxAnnounces = 3
SPECIFICATION Spec
INVARIANTS
  
  FilesTileStream
  InfoHashNamesTorrent
  RequestNamesTorrent
  AnswerTakenWhole
  StartedOnce
\* A refused file, a rejected first announce and the last announce end it.
CHECK_DEADLOCK FALSE
