\* A short last piece with a short last block, every message, write errors.
CONSTANTS
  TotalLength = 7
  PieceLength = 4
  BlockSize = 2
  MaxField = 4
  ZeroBytes <- MCSomeZeroBytes
  FileEnds <- MCTwoFiles
  InitialDisks <- MCOldContent
  PieceMessages <- MCMessages
  WritesMayFail = TRUE
SPECIFICATION PMSpec
INVARIANTS
  PMTypeOK
  CountersAgree
  VerifiedOnDisk
  RequestIsUseful
  ProgressUntilLastPiece
PROPERTIES
  NoRegress
  ImplementsDownload
