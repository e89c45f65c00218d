\* Two connections over one manager, each with a piece the other lacks at first.
CONSTANTS
  TotalLength = 3
  PieceLength = 2
  BlockSize = 1
  ZeroBytes <- MCNoZeroBytes
  FileEnds <- MCSingleFile
  InitialDisks <- MCFresh
  PieceMessages <- MCBlockMessages
  WritesMayFail = FALSE
  w1 = w1
  w2 = w2
  Worker = {w1, w2}
  PIPELINE_DEPTH = 2
  Bitfields <- MCBitfields
  HaveIndices <- MCHaves
  RemoteStart <- MCSplit
  RemoteEnd <- MCSplitEnd
  MaxChokes = 0
  MaxBad = 0
SPECIFICATION LSpec
INVARIANT IdleMeansNothingUseful
PROPERTY DownloadEnds
CHECK_DEADLOCK FALSE
