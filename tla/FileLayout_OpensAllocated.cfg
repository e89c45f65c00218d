\* A statement of the code's comments that does not hold: OpensAllocated.
CONSTANTS
  TotalLength = 7
  PieceLength = 4
  BlockSize = 2
  BLOCK_SIZE = 4
  LENGTH_SIZE = 1
  name = "t"
  files <- MCFiles
  OldFiles <- MCOpenedExist
  OldByte = 99
  PieceData <- MCPieceData
  Right <- MCRight
SPECIFICATION Spec
INVARIANT OpensAllocated
CHECK_DEADLOCK FALSE
