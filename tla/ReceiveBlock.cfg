\* Whole calls of receive_block on four files and two pieces.
CONSTANTS
  TotalLength = 7
  PieceLength = 4
  BlockSize = 2
  BLOCK_SIZE = 4
  LENGTH_SIZE = 1
  name = "t"
  files <- MCFiles
  OldFiles <- MCOpenedExist
  OldByte = 99
  PieceData <- MCBuffers
  BlockMessages <- MCBlockMessages
  Right <- MCRight
SPECIFICATION RBSpec
INVARIANTS
  Sha1TypeOK
  DigestOfPadded
  LayoutTypeOK
  CompleteIsRight
  FinishedIsRight
PROPERTIES
  ImplementsStream
  OnlyRightBytesWritten
  ImplementsManager
\* A constructor that could not allocate, and a finished download, stop.
CHECK_DEADLOCK FALSE
