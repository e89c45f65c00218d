--------------------------- MODULE MCReceiveBlock ---------------------------
(* The files of MCVerifyAndFlush.  Both pieces have two blocks; the blocks  *)
(* come right or wrong, one message overlaps two blocks, one is a whole     *)
(* piece, one runs past the end and one names a piece that does not exist.  *)
EXTENDS ReceiveBlock, MCVerifyAndFlush

Block(i, begin, bytes) == [piece_index |-> i, begin |-> begin, data |-> bytes]

MCBlockMessages ==
  {Block(0, 0, <<1, 2>>), Block(0, 2, <<3, 4>>), Block(0, 2, <<3, 0>>),
   Block(0, 1, <<2, 0>>),
   Block(1, 0, <<11, 12, 13>>), Block(1, 2, <<13>>),
   Block(1, 2, <<13, 14>>), Block(2, 0, <<1>>)}

(* The right bytes, any of them replaced. *)
MCBuffers ==
  [i \in PieceIndex |->
    {[b \in 1 .. piece_size(i) |-> IF b \in wrong THEN 0 ELSE MCRight[i][b]] :
       wrong \in SUBSET (1 .. piece_size(i))}]
=============================================================================
