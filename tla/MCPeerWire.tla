----------------------------- MODULE MCPeerWire -----------------------------
(* Two messages of every kind in a row, every cut of the stream.            *)
EXTENDS PeerWire

MCMessages ==
  {KeepAlive} \cup {PeerMessage(flag, 0, 0, 0, <<>>) : flag \in Flags} \cup
  {PeerMessage(Have,     258,   0,     0,     <<>>),
   PeerMessage(Bitfield, 0,     0,     0,     <<160>>),
   PeerMessage(Bitfield, 0,     0,     0,     <<>>),
   PeerMessage(Request,  1,     16384, 65793, <<>>),
   PeerMessage(Cancel,   70000, 0,     1,     <<>>),
   PeerMessage(Piece,    1,     256,   0,     <<7, 0>>),
   PeerMessage(Piece,    0,     0,     0,     <<>>),
   PeerMessage(9,        0,     0,     0,     <<26, 225>>)}   \* Port

(* Have of 3 bytes, Request of 4, Piece of 4. *)
MCBadFrames ==
  {[type |-> Have,    length |-> 3, data |-> <<0, 0, 0>>],
   [type |-> Request, length |-> 4, data |-> <<0, 0, 0, 0>>],
   [type |-> Piece,   length |-> 4, data |-> <<0, 0, 0, 0>>]}
=============================================================================
