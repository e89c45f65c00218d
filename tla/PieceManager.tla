---------------------------- MODULE PieceManager ----------------------------
(***************************************************************************)
(* PieceManager (src/piece_manager.cpp): the pieces' buffers and status,   *)
(* the verified-piece counter and the destination files.  Every public     *)
(* method that touches them runs under one mutex, so each call is one      *)
(* action here; peer threads call it with whatever a peer sent.            *)
(*                                                                         *)
(* Bytes are abstracted to "right" (equal to the torrent's) or "wrong", so *)
(* a buffer or a file region is the set of offsets that hold right bytes,  *)
(* and SHA1 accepts a piece exactly when all of its bytes are right.       *)
(***************************************************************************)
EXTENDS Metainfo, FiniteSets

CONSTANTS
  ZeroBytes,      \* stream offsets whose right byte is 0 (a cleared buffer
                  \* and a hole in a sparse file hold the right byte there)
  FileEnds,       \* stream offsets of the last byte of every non-empty file
  InitialDisks,   \* what the destination files may already hold: the sets of
                  \* offsets that are right before the constructor runs
  PieceMessages,  \* the Piece messages peers may send
  WritesMayFail   \* whether open, lseek and write may fail

ASSUME PieceManagerAssumption ==
  /\ ZeroBytes \subseteq StreamOffsets
  /\ FileEnds \subseteq StreamOffsets
  /\ \A old \in InitialDisks : old \subseteq StreamOffsets
  /\ WritesMayFail \in BOOLEAN
  /\ \A m \in PieceMessages :
       /\ m.piece_index \in Nat /\ m.begin \in Nat /\ m.length \in Nat
       /\ m.right \subseteq m.begin .. m.begin + m.length - 1

VARIABLES
  status,        \* Piece::status
  received,      \* Piece::blocks_received, as the set of received blocks
  blocks_done,   \* Piece::blocks_done
  good,          \* Piece::data, as the offsets that hold the right byte
  done_count,    \* done_count_, read by other threads without the mutex
  disk           \* disk[i]: offsets of piece i that are right in the files

pmVars == <<status, received, blocks_done, good, done_count, disk>>

PieceStatus == {"Missing", "Pending", "Complete", "HashFail"}

-----------------------------------------------------------------------------
(* Construction *)

ZeroCells(i) == {c \in Cells(i) : StreamOffset(i, c) \in ZeroBytes}

(* Files are opened with O_CREAT and no O_TRUNC, and extended by writing a  *)
(* zero to their last byte: older content survives except for that byte, and *)
(* all of it if that write failed, which nobody looks at.                   *)
allocate_files(old, zeroed) ==
  [i \in PieceIndex |->
    {c \in Cells(i) : IF StreamOffset(i, c) \in zeroed
                        THEN StreamOffset(i, c) \in ZeroBytes
                        ELSE StreamOffset(i, c) \in old}]

PMInit ==
  /\ status      = [i \in PieceIndex |-> "Missing"]
  /\ received    = [i \in PieceIndex |-> {}]
  /\ blocks_done = [i \in PieceIndex |-> 0]
  /\ good        = [i \in PieceIndex |-> ZeroCells(i)]
  /\ done_count  = 0
  /\ \E old \in InitialDisks :
       \E zeroed \in IF WritesMayFail THEN SUBSET FileEnds ELSE {FileEnds} :
         disk = allocate_files(old, zeroed)

-----------------------------------------------------------------------------
(* receive_block: what a message does to the piece it names *)

(* data.size(): the buffer is freed when its piece completes. *)
BufferSize(i) == IF status[i] = "Complete" THEN 0 ELSE piece_size(i)

BlockOf(m) == m.begin \div BlockSize

AcceptsCompleted(m) ==   \* faulty variant: no early return for Complete
  /\ m.piece_index \in PieceIndex
  /\ m.begin + m.length <= BufferSize(m.piece_index)
  /\ BlockOf(m) \in Blocks(m.piece_index)

AcceptsOverrun(m) ==     \* faulty variant: only the first byte is checked
  /\ m.piece_index \in PieceIndex
  /\ status[m.piece_index] # "Complete"
  /\ m.begin <= BufferSize(m.piece_index)
  /\ BlockOf(m) \in Blocks(m.piece_index)

(* The block passes every early return of receive_block. *)
Accepts(m) ==
  /\ m.piece_index \in PieceIndex
  /\ status[m.piece_index] # "Complete"
  /\ m.begin + m.length <= BufferSize(m.piece_index)
  /\ BlockOf(m) \in Blocks(m.piece_index)

(* memcpy of the block over the buffer, whether or not it came before. *)
DataWith(m) ==
  (good[m.piece_index] \ (m.begin .. m.begin + m.length - 1)) \cup m.right

IsNew(m) == BlockOf(m) \notin received[m.piece_index]

ReceivedWith(m) == received[m.piece_index] \cup {BlockOf(m)}

DoneWithDuplicates(m) == blocks_done[m.piece_index] + 1   \* faulty variant

DoneWith(m) == IF IsNew(m) THEN blocks_done[m.piece_index] + 1
                           ELSE blocks_done[m.piece_index]

StatusWith(m) == IF IsNew(m) THEN "Pending" ELSE status[m.piece_index]

AllArrived(m) == DoneWith(m) = num_blocks_in_piece(m.piece_index)

HashUnchecked(m) == TRUE   \* faulty variant: the digest is not compared

HashMatches(m) == DataWith(m) = Cells(m.piece_index)

-----------------------------------------------------------------------------
(* receive_block: its five outcomes *)

IgnoreBlock(m) ==
  /\ ~Accepts(m)
  /\ UNCHANGED pmVars

KeepBlock(m) ==
  LET i == m.piece_index IN
  /\ Accepts(m)
  /\ ~AllArrived(m)
  /\ status'      = [status EXCEPT ![i] = StatusWith(m)]
  /\ received'    = [received EXCEPT ![i] = ReceivedWith(m)]
  /\ blocks_done' = [blocks_done EXCEPT ![i] = DoneWith(m)]
  /\ good'        = [good EXCEPT ![i] = DataWith(m)]
  /\ UNCHANGED <<done_count, disk>>

KeptFlags(i) == received[i]   \* faulty variant: blocks_received is not cleared

ClearedFlags(i) == {}

(* verify_and_flush, digest mismatch: the piece starts over. *)
ResetPiece(m) ==
  LET i == m.piece_index IN
  /\ Accepts(m)
  /\ AllArrived(m)
  /\ ~HashMatches(m)
  /\ status'      = [status EXCEPT ![i] = "HashFail"]
  /\ received'    = [received EXCEPT ![i] = ClearedFlags(i)]
  /\ blocks_done' = [blocks_done EXCEPT ![i] = 0]
  /\ good'        = [good EXCEPT ![i] = ZeroCells(i)]
  /\ UNCHANGED <<done_count, disk>>

(* verify_and_flush, digest equal and write_piece returns. *)
FlushPiece(m) ==
  LET i == m.piece_index IN
  /\ Accepts(m)
  /\ AllArrived(m)
  /\ HashMatches(m)
  /\ status'      = [status EXCEPT ![i] = "Complete"]
  /\ received'    = [received EXCEPT ![i] = ReceivedWith(m)]
  /\ blocks_done' = [blocks_done EXCEPT ![i] = DoneWith(m)]
  /\ good'        = [good EXCEPT ![i] = {}]
  /\ done_count'  = done_count + 1
  /\ disk'        = [disk EXCEPT ![i] = DataWith(m)]

StatusSetBeforeWrite(m) == "Complete"   \* faulty variant: written last

StatusIfWriteFails(m) == StatusWith(m)

(* verify_and_flush, digest equal but write_piece throws after the first n  *)
(* bytes: the piece keeps all its blocks and is neither Complete nor reset. *)
FailToFlush(m) ==
  LET i == m.piece_index IN
  /\ WritesMayFail
  /\ Accepts(m)
  /\ AllArrived(m)
  /\ HashMatches(m)
  /\ status'      = [status EXCEPT ![i] = StatusIfWriteFails(m)]
  /\ received'    = [received EXCEPT ![i] = ReceivedWith(m)]
  /\ blocks_done' = [blocks_done EXCEPT ![i] = DoneWith(m)]
  /\ good'        = [good EXCEPT ![i] = DataWith(m)]
  /\ UNCHANGED done_count
  /\ \E n \in Cells(i) :
       disk' = [disk EXCEPT ![i] = (@ \ (0 .. n - 1)) \cup
                                   (DataWith(m) \cap (0 .. n - 1))]

receive_block(m) ==
  \/ IgnoreBlock(m)
  \/ KeepBlock(m)
  \/ ResetPiece(m)
  \/ FlushPiece(m)
  \/ FailToFlush(m)

PMNext == \E m \in PieceMessages : receive_block(m)

PMSpec == PMInit /\ [][PMNext]_pmVars

-----------------------------------------------------------------------------
(* Queries.  A bitfield is the set of the pieces whose bit is set. *)

Lowest(S) == {x \in S : \A y \in S : x <= y}   \* empty, or a singleton

Useful(peer_bitfield) ==
  {i \in PieceIndex : /\ status[i] # "Complete"
                      /\ i \in peer_bitfield
                      /\ received[i] # Blocks(i)}

FullBlock(i, bi) ==    \* faulty variant: the last block is not shortened
  [piece_index |-> i, begin |-> bi * BlockSize, length |-> BlockSize]

BlockRequest(i, bi) ==
  LET begin     == bi * BlockSize
      remaining == piece_size(i) - begin
  IN [piece_index |-> i,
      begin       |-> begin,
      length      |-> IF remaining < BlockSize THEN remaining ELSE BlockSize]

(* std::optional: the empty set is nullopt, otherwise one request. *)
next_request(peer_bitfield) ==
  UNION {{BlockRequest(i, bi) : bi \in Lowest(Blocks(i) \ received[i])} :
           i \in Lowest(Useful(peer_bitfield))}

our_bitfield == {i \in PieceIndex : status[i] = "Complete"}

is_complete == done_count = num_pieces

bytes_downloaded == done_count * PieceLength

(* Whole percents; the code computes the same ratio as a float. *)
progress_pct ==
  IF TotalLength = 0 THEN 100 ELSE (bytes_downloaded * 100) \div TotalLength

-----------------------------------------------------------------------------
(* Properties *)

(* Every variable keeps the shape the code gives it; in particular no byte *)
(* is ever copied outside a piece's buffer (receive_block, memcpy).        *)
PMTypeOK ==
  /\ status      \in [PieceIndex -> PieceStatus]
  /\ received    \in [PieceIndex -> SUBSET Nat]
  /\ blocks_done \in [PieceIndex -> Nat]
  /\ good        \in [PieceIndex -> SUBSET Nat]
  /\ done_count  \in 0 .. num_pieces
  /\ disk        \in [PieceIndex -> SUBSET Nat]
  /\ \A i \in PieceIndex : /\ received[i] \subseteq Blocks(i)
                            /\ good[i] \subseteq Cells(i)
                            /\ disk[i] \subseteq Cells(i)

(* blocks_done and done_count_ are maintained apart from the flags they     *)
(* summarise, across duplicates, resets, failed writes and late blocks.     *)
(* The first decides when a piece is hashed, the second when the download   *)
(* ends: both must agree with what they count.                              *)
CountersAgree ==
  /\ \A i \in PieceIndex : blocks_done[i] = Cardinality(received[i])
  /\ done_count = Cardinality(our_bitfield)

(* Whatever peers send, in whatever order and however blocks overlap, a     *)
(* piece the client calls Complete is right on disk, byte for byte; so a    *)
(* finished download is the torrent's content.                              *)
VerifiedOnDisk ==
  /\ \A i \in our_bitfield : disk[i] = Cells(i)
  /\ is_complete => \A i \in PieceIndex : disk[i] = Cells(i)

(* next_request and receive_block agree: the answer to the request made for *)
(* a peer passes every check of receive_block and adds a block to the piece,*)
(* and the piece is one the peer has.                                       *)
RequestIsUseful ==
  \A bf \in SUBSET PieceIndex : \A r \in next_request(bf) :
    /\ r.piece_index \in bf
    /\ r.length > 0
    /\ Accepts(r) /\ IsNew(r)

(* bytes_downloaded counts a short last piece as a full one, so that screen *)
(* and tracker may be told of more bytes than there are: by less than a     *)
(* piece, and not before that piece is complete, whatever order the pieces  *)
(* complete in.                                                            *)
ProgressUntilLastPiece ==
  /\ bytes_downloaded < TotalLength + PieceLength
  /\ num_pieces - 1 \notin our_bitfield =>
       bytes_downloaded <= TotalLength /\ progress_pct \in 0 .. 100

(* A piece that is not Complete always has a block left to ask for, so a    *)
(* peer that has all pieces is always useful until the download ends.  A    *)
(* write error breaks it: the piece keeps its flags and gets no verdict.    *)
NoStrandedPiece ==
  \A i \in PieceIndex : status[i] # "Complete" => received[i] # Blocks(i)

(* A step never turns a right byte on disk into a wrong one, never takes a  *)
(* finished piece back and never counts down.                               *)
NoRegress ==
  [][/\ \A i \in PieceIndex : disk[i] \subseteq disk'[i]
     /\ our_bitfield \subseteq our_bitfield'
     /\ done_count <= done_count']_pmVars

(* PieceManager implements Download. *)
D == INSTANCE Download WITH
       Piece   <- PieceIndex,
       Content <- [i \in PieceIndex |-> Cells(i)],
       have    <- our_bitfield,
       stored  <- disk

ImplementsDownload == D!Spec
=============================================================================
