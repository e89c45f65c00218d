--------------------------- MODULE VerifyAndFlush ---------------------------
(***************************************************************************)
(* verify_and_flush of PieceManager, byte by byte: the buffer of a piece   *)
(* is hashed (Sha1Stream), the digest compared with the torrent's, and the *)
(* buffer written to the files (FileLayout) or cleared.  All of it runs    *)
(* under the manager's mutex, one piece at a time.                         *)
(***************************************************************************)
EXTENDS Sha1Stream, FileLayout

CONSTANT Right   \* Right[i]: the bytes of piece i that its author hashed

ASSUME RightAssumption ==
  \A i \in PieceIndex : Right[i] \in Seq(Byte) /\ Len(Right[i]) = piece_size(i)

VARIABLES
  status,        \* Piece::status
  piece,         \* the piece verify_and_flush is called for
  buffer,        \* its Piece::data
  doing          \* "nothing", "hash" or "write"

flushVars == <<status, piece, buffer, doing>>

vars == <<shaVars, layoutVars, flushVars>>

Init ==
  /\ ShaInit
  /\ LayoutInit
  /\ status = [i \in PieceIndex |-> "Missing"]
  /\ piece = 0 /\ buffer = <<>> /\ doing = "nothing"

Allocate ==
  /\ AllocateFile \/ CannotAllocate \/ AllAllocated
  /\ UNCHANGED <<shaVars, flushVars>>

(* receive_block stores a block: a new one makes its piece Pending. *)
BlockStored(i) ==
  /\ at = "ready" /\ doing = "nothing"
  /\ status[i] # "Complete"
  /\ \E s \in {status[i], "Pending"} : status' = [status EXCEPT ![i] = s]

MoreToCome(i) ==
  /\ BlockStored(i)
  /\ UNCHANGED <<shaVars, layoutVars, piece, buffer, doing>>

(* The piece has every block; SHA1::hash starts with the whole buffer. *)
AllBlocksReceived(i, d) ==
  /\ BlockStored(i)
  /\ Update(d)
  /\ piece' = i /\ buffer' = d /\ doing' = "hash"
  /\ UNCHANGED layoutVars

Hash == doing = "hash" /\ HashStep /\ UNCHANGED <<layoutVars, flushVars>>

AnyDigest == TRUE   \* faulty variant: the digests are not compared

(* SHA1 is taken to be free of collisions: digests are equal when the       *)
(* compressed blocks are.                                                  *)
DigestsEqual == compressed = Padded(Right[piece])

Mismatch ==
  /\ doing = "hash" /\ DigestReady
  /\ ~DigestsEqual
  /\ status' = [status EXCEPT ![piece] = "HashFail"]
  /\ buffer' = [c \in DOMAIN buffer |-> 0]
  /\ doing' = "nothing"
  /\ reset
  /\ UNCHANGED <<layoutVars, piece>>

Match ==
  /\ doing = "hash" /\ DigestReady
  /\ DigestsEqual
  /\ write_piece(piece, buffer)
  /\ doing' = "write"
  /\ reset
  /\ UNCHANGED <<status, piece, buffer>>

Write ==
  /\ doing = "write" /\ at \in {"file", "write"}
  /\ LayoutStep
  /\ UNCHANGED <<shaVars, flushVars>>

CompleteAnyway == "Complete"   \* faulty variant: the exception is swallowed

StatusAfterWrite == IF result = "written" THEN "Complete" ELSE status[piece]

(* write_piece has returned, or its exception leaves the piece as it is. *)
Written ==
  /\ doing = "write" /\ at = "ready"
  /\ status' = [status EXCEPT ![piece] = StatusAfterWrite]
  /\ buffer' = IF result = "written" THEN <<>> ELSE buffer
  /\ doing' = "nothing"
  /\ UNCHANGED <<shaVars, layoutVars, piece>>

Next ==
  \/ Allocate
  \/ \E i \in PieceIndex :
       MoreToCome(i) \/ \E d \in PieceData[i] : AllBlocksReceived(i, d)
  \/ Hash \/ Mismatch \/ Match \/ Write \/ Written

Spec == Init /\ [][Next]_vars

-----------------------------------------------------------------------------
(* Properties *)

RightStream ==
  [o \in StreamOffsets |-> Right[o \div PieceLength][(o % PieceLength) + 1]]

(* A piece is called Complete only when all its bytes are in their places   *)
(* in the files and right, whatever was written to other pieces since, in   *)
(* the same files or in others.                                            *)
CompleteIsRight ==
  \A i \in PieceIndex : status[i] = "Complete" =>
    \A c \in Cells(i) : Stream[StreamOffset(i, c)] = RightStream[StreamOffset(i, c)]

(* Once the files are allocated a byte on disk changes only into the right  *)
(* one: nothing the digest did not vouch for is written, and nothing that   *)
(* it did is written elsewhere.                                            *)
OnlyRightBytesWritten ==
  [][at # "allocate" =>
       \A o \in StreamOffsets : Stream'[o] \in {Stream[o], RightStream[o]}]_vars
=============================================================================
