------------------------------ MODULE Download ------------------------------
(***************************************************************************)
(* What a download promises, with no word of blocks, peers or hashes: the  *)
(* set of pieces the client calls its own only grows, a piece enters it    *)
(* only with all of its bytes on disk, and no right byte is ever replaced  *)
(* by a wrong one.  PieceManager implements this specification.            *)
(***************************************************************************)
EXTENDS Integers

CONSTANTS
  Piece,        \* the pieces of the torrent
  Content       \* Content[p]: the byte offsets of piece p

VARIABLES
  have,         \* pieces reported as downloaded
  stored        \* stored[p]: offsets of p whose byte on disk is the right one

vars == <<have, stored>>

Init ==
  /\ have = {}
  /\ stored \in [Piece -> SUBSET (UNION {Content[p] : p \in Piece})]
  /\ \A p \in Piece : stored[p] \subseteq Content[p]

(* A write that stops early leaves more right bytes than before, no piece. *)
Scratch(p) ==
  /\ p \notin have
  /\ \E more \in SUBSET Content[p] :
       stored' = [stored EXCEPT ![p] = @ \cup more]
  /\ UNCHANGED have

Obtain(p) ==
  /\ p \notin have
  /\ have'   = have \cup {p}
  /\ stored' = [stored EXCEPT ![p] = Content[p]]

Next == \E p \in Piece : Scratch(p) \/ Obtain(p)

Spec == Init /\ [][Next]_vars
=============================================================================
