---------------------------- MODULE MCPeerWorker ----------------------------
(* Three peer threads, a piece of two blocks and a short one of one.        *)
EXTENDS PeerWorker, TLC

(* Every block of the torrent, right or wrong, and one past its end. *)
MCBlockMessages ==
  LET Msg(r, content) == [piece_index |-> r.piece_index, begin |-> r.begin,
                          length |-> r.length, right |-> content]
      Right(r) == r.begin .. r.begin + r.length - 1
      Requests == UNION {{BlockRequest(i, b) : b \in Blocks(i)} :
                           i \in PieceIndex}
  IN {Msg(r, Right(r)) : r \in Requests} \cup {Msg(r, {}) : r \in Requests}
     \cup {[piece_index |-> num_pieces, begin |-> 0, length |-> 1,
            right |-> {}]}

MCNoZeroBytes == {}
MCSingleFile == {TotalLength - 1}
MCFresh == {{}}
MCBitfields == {{0, 1}}
MCHaves == {1}

WorkerSymmetry == Permutations(Worker)
=============================================================================
