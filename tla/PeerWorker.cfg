\* Three threads over two pieces, three blocks; right and wrong blocks; a disk that
\* may fail.
CONSTANTS
  TotalLength = 3
  PieceLength = 2
  BlockSize = 1
  ZeroBytes <- MCNoZeroBytes
  FileEnds <- MCSingleFile
  InitialDisks <- MCFresh
  PieceMessages <- MCBlockMessages
  WritesMayFail = TRUE
  Worker = {w1, w2, w3}
  PIPELINE_DEPTH = 2
  Bitfields <- MCBitfields
  HaveIndices <- MCHaves
SYMMETRY WorkerSymmetry
SPECIFICATION Spec
INVARIANTS
  WorkerTypeOK
  StrandedCostsThread
  IdleCostsThreads
CHECK_DEADLOCK FALSE
