------------------------------ MODULE Metainfo ------------------------------
(***************************************************************************)
(* The geometry of a torrent, as Metainfo (include/metainfo.hpp) computes  *)
(* it: how the concatenated byte stream of all files is cut into pieces    *)
(* and every piece into blocks.  Sizes and offsets are in bytes, whatever  *)
(* the value of BlockSize (16 KiB in the code).                            *)
(***************************************************************************)
EXTENDS Integers

CONSTANTS
  TotalLength,   \* total_length: sum of all file sizes
  PieceLength,   \* piece_length: size of every piece but the last
  BlockSize      \* BLOCK_SIZE: size of every block but the last of a piece

(* A well-formed .torrent: Metainfo::parse divides by piece_length.        *)
ASSUME GeometryAssumption ==
  /\ TotalLength \in Nat
  /\ PieceLength \in Nat \ {0}
  /\ BlockSize   \in Nat \ {0}

(* Metainfo::parse refuses a .torrent whose hash list has another length.  *)
num_pieces == (TotalLength + PieceLength - 1) \div PieceLength

PieceIndex == 0 .. num_pieces - 1

(* The last piece holds what the others leave. *)
piece_size(index) ==
  IF index + 1 < num_pieces THEN PieceLength
                            ELSE TotalLength - index * PieceLength

num_blocks_in_piece(index) ==
  (piece_size(index) + BlockSize - 1) \div BlockSize

Cells(index)  == 0 .. piece_size(index) - 1            \* byte offsets
Blocks(index) == 0 .. num_blocks_in_piece(index) - 1   \* block numbers

(* Offset of a piece's byte in the concatenated stream of all files. *)
StreamOffset(index, cell) == index * PieceLength + cell

StreamOffsets == 0 .. TotalLength - 1
=============================================================================
