--------------------------- MODULE MCPieceManager ---------------------------
(* Small torrents and every Piece message a peer can send about them.       *)
EXTENDS PieceManager

CONSTANT MaxField   \* bound on begin and length in a message

(* Also a piece index past the end, empty, short, overlong, misaligned and  *)
(* partly wrong blocks.                                                     *)
MCMessages ==
  UNION {[piece_index : 0 .. num_pieces, begin : {b}, length : {l},
          right : SUBSET (b .. b + l - 1)] : b, l \in 0 .. MaxField}

MCNoZeroBytes == {}
MCSomeZeroBytes == {0, TotalLength - 1}
MCSingleFile == {TotalLength - 1}
MCTwoFiles == {1, TotalLength - 1}
MCFresh == {ZeroBytes}
(* What an earlier run left at the ends of a piece and of a file. *)
MCOldContent == SUBSET {0, PieceLength - 1, PieceLength, TotalLength - 1}
=============================================================================
