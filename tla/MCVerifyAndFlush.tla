-------------------------- MODULE MCVerifyAndFlush --------------------------
(* Four files under two pieces: one file ends inside a piece, one is empty, *)
(* one spans both pieces and one is inside a piece.                         *)
EXTENDS VerifyAndFlush

MCFiles ==
  <<[path |-> <<"a">>,      length |-> 2, offset |-> 0],
    [path |-> <<"b">>,      length |-> 0, offset |-> 2],
    [path |-> <<"d", "c">>, length |-> 3, offset |-> 2],
    [path |-> <<"d", "e">>, length |-> 2, offset |-> 5]>>

(* What may be there under the paths that write_piece opens. *)
MCOpenedExist == {{}, {Opened(k) : k \in FileIndex},
                  {Opened(k) : k \in FileIndex \ {3}}}

MCRight == [i \in PieceIndex |-> [b \in 1 .. piece_size(i) |-> 10 * i + b]]

(* The right bytes, and any one of them replaced. *)
MCPieceData ==
  [i \in PieceIndex |->
    {MCRight[i]} \cup {[MCRight[i] EXCEPT ![b] = 0] : b \in 1 .. piece_size(i)}]
=============================================================================
