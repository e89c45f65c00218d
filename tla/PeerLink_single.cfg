\* One connection; a choke, one corrupt block, a piece announced late.
CONSTANTS
  TotalLength = 3
  PieceLength = 2
  BlockSize = 1
  ZeroBytes <- MCNoZeroBytes
  FileEnds <- MCSingleFile
  InitialDisks <- MCFresh
  PieceMessages <- MCBlockMessages
  WritesMayFail = FALSE
  w1 = w1
  w2 = w2
  Worker = {w1}
  PIPELINE_DEPTH = 2
  Bitfields <- MCBitfields
  HaveIndices <- MCHaves
  RemoteStart <- MCHalf
  RemoteEnd <- MCAll
  MaxChokes = 1
  MaxBad = 1
SPECIFICATION LSpec
INVARIANTS
  NoLeakedSlot
  NoStrandedPiece
PROPERTY DownloadEnds
CHECK_DEADLOCK FALSE
