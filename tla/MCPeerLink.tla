----------------------------- MODULE MCPeerLink -----------------------------
(* One or two connections, a piece of two blocks and a short one of one.    *)
EXTENDS PeerLink

MCBlockMessages == UNION {{RightAnswer(r), WrongAnswer(r)} : r \in Requests}

MCNoZeroBytes == {}
MCSingleFile == {TotalLength - 1}
MCFresh == {{}}
MCBitfields == SUBSET PieceIndex
MCHaves == PieceIndex
MCHalf == [w \in Worker |-> {1}]
MCAll == [w \in Worker |-> PieceIndex]
CONSTANTS w1, w2
MCSplit == [w \in Worker |-> IF w = w1 THEN {0} ELSE {1}]
MCSplitEnd == [w \in Worker |-> IF w = w1 THEN {0} ELSE {0, 1}]
=============================================================================
