---------------------------- MODULE ReceiveBlock ----------------------------
(***************************************************************************)
(* receive_block of PieceManager (src/piece_manager.cpp), byte by byte and *)
(* step by step: the block is copied into its piece's buffer, and the last *)
(* one runs verify_and_flush (VerifyAndFlush) with its hash and its writes *)
(* before the mutex is released.  PieceManager takes all of this for one   *)
(* step on sets of right offsets; ImplementsManager is that it may.        *)
(***************************************************************************)
EXTENDS VerifyAndFlush

CONSTANT BlockMessages   \* the Piece messages peers may send

ASSUME BlockMessagesAssumption ==
  \A m \in BlockMessages :
    m.piece_index \in Nat /\ m.begin \in Nat /\ m.data \in Seq(Byte)

(* memcpy of a message's block over the buffer d. *)
Copied(m, d) ==
  [b \in DOMAIN d |-> IF m.begin < b /\ b <= m.begin + Len(m.data)
                        THEN m.data[b - m.begin] ELSE d[b]]

(* PieceData has the cleared buffers and those that messages make of them. *)
ASSUME BuffersAssumption ==
  \A i \in PieceIndex :
    /\ Zeros(piece_size(i)) \in PieceData[i]
    /\ \A m \in BlockMessages : \A d \in PieceData[i] :
         m.piece_index = i /\ m.begin + Len(m.data) <= Len(d) =>
           Copied(m, d) \in PieceData[i]

VARIABLES
  received,      \* Piece::blocks_received, as the set of received blocks
  blocks_done,   \* Piece::blocks_done
  buffers,       \* Piece::data; empty once the piece is Complete
  done_count,    \* done_count_, the one thing read without the mutex
  call,          \* the arguments of the call that hashes or writes, or <<>>
  released       \* what the mutex protects, as it was when the last call
                 \* released it (not in the code)

rbVars == <<vars, received, blocks_done, buffers, done_count, call, released>>

(* In the terms of PieceManager: the offsets that hold right bytes. *)
GoodCells(i) ==
  {c \in Cells(i) : c < Len(buffers[i]) /\ buffers[i][c + 1] = Right[i][c + 1]}

OnDisk(i) ==
  {c \in Cells(i) : Stream[StreamOffset(i, c)] = RightStream[StreamOffset(i, c)]}

Protected ==
  [status      |-> status,
   received    |-> received,
   blocks_done |-> blocks_done,
   good        |-> [i \in PieceIndex |-> GoodCells(i)],
   disk        |-> [i \in PieceIndex |-> OnDisk(i)]]

RBInit ==
  /\ Init
  /\ received    = [i \in PieceIndex |-> {}]
  /\ blocks_done = [i \in PieceIndex |-> 0]
  /\ buffers     = [i \in PieceIndex |-> Zeros(piece_size(i))]
  /\ done_count  = 0
  /\ call = <<>>
  /\ released = Protected

(* The constructor: no other thread knows the manager yet. *)
Construct ==
  /\ Allocate
  /\ UNCHANGED <<received, blocks_done, buffers, done_count, call>>
  /\ released' = Protected'

-----------------------------------------------------------------------------
(* receive_block *)

BlockOf(m) == m.begin \div BlockSize

(* The block passes every early return; one that does not changes nothing. *)
Accepts(m) ==
  /\ m.piece_index \in PieceIndex
  /\ status[m.piece_index] # "Complete"
  /\ m.begin + Len(m.data) <= Len(buffers[m.piece_index])
  /\ BlockOf(m) \in Blocks(m.piece_index)

IsNew(m) == BlockOf(m) \notin received[m.piece_index]

DataWith(m) == Copied(m, buffers[m.piece_index])

DoneWith(m) == blocks_done[m.piece_index] + (IF IsNew(m) THEN 1 ELSE 0)

AllArrived(m) == DoneWith(m) = num_blocks_in_piece(m.piece_index)

(* memcpy, and the block counts once. *)
StoreBlock(m) ==
  LET i == m.piece_index IN
  /\ status'      = [status EXCEPT ![i] = IF IsNew(m) THEN "Pending" ELSE @]
  /\ received'    = [received EXCEPT ![i] = @ \cup {BlockOf(m)}]
  /\ blocks_done' = [blocks_done EXCEPT ![i] = DoneWith(m)]
  /\ buffers'     = [buffers EXCEPT ![i] = DataWith(m)]
  /\ UNCHANGED done_count

KeepBlock(m) ==
  /\ Accepts(m)
  /\ ~AllArrived(m)
  /\ MoreToCome(m.piece_index)
  /\ StoreBlock(m)
  /\ UNCHANGED call
  /\ released' = Protected'

LastBlock(m) ==
  /\ Accepts(m)
  /\ AllArrived(m)
  /\ AllBlocksReceived(m.piece_index, DataWith(m))
  /\ StoreBlock(m)
  /\ call' = m
  /\ UNCHANGED released

(* verify_and_flush up to its outcome, the mutex still held. *)
Verify ==
  /\ Hash \/ Match \/ Write
  /\ UNCHANGED <<received, blocks_done, buffers, done_count, call, released>>

Unlock == call' = <<>> /\ released' = Protected'

KeptFlags == received[piece]   \* faulty variant: the flags are not cleared

ClearedFlags == {}

(* The digest differs: the piece starts over. *)
ResetPiece ==
  /\ Mismatch
  /\ received'    = [received EXCEPT ![piece] = ClearedFlags]
  /\ blocks_done' = [blocks_done EXCEPT ![piece] = 0]
  /\ buffers'     = [buffers EXCEPT ![piece] = buffer']
  /\ UNCHANGED done_count
  /\ Unlock

CountedBefore == 1   \* faulty variant: counted before write_piece may throw

Counted == IF result = "written" THEN 1 ELSE 0

(* write_piece has returned or thrown.  The counter is the last thing that  *)
(* changes before the mutex is free.                                       *)
Return ==
  /\ Written
  /\ buffers'    = [buffers EXCEPT ![piece] = buffer']
  /\ done_count' = done_count + Counted
  /\ UNCHANGED <<received, blocks_done>>
  /\ Unlock

RBNext ==
  \/ Construct
  \/ \E m \in BlockMessages : KeepBlock(m) \/ LastBlock(m)
  \/ Verify \/ ResetPiece \/ Return

RBSpec == RBInit /\ [][RBNext]_rbVars

-----------------------------------------------------------------------------
(* Properties *)

(* What PieceManager knows of a message. *)
Seen(m) ==
  [piece_index |-> m.piece_index,
   begin       |-> m.begin,
   length      |-> Len(m.data),
   right       |->
     {c \in m.begin .. m.begin + Len(m.data) - 1 :
        /\ m.piece_index \in PieceIndex
        /\ c \in Cells(m.piece_index)
        /\ m.data[c - m.begin + 1] = Right[m.piece_index][c + 1]}]

PM == INSTANCE PieceManager WITH
        ZeroBytes     <- {o \in StreamOffsets : RightStream[o] = 0},
        FileEnds      <- {},   \* any disk may be there when it is built
        InitialDisks  <- SUBSET StreamOffsets,
        PieceMessages <- {Seen(m) : m \in BlockMessages},
        WritesMayFail <- TRUE,
        status        <- released.status,
        received      <- released.received,
        blocks_done   <- released.blocks_done,
        good          <- released.good,
        disk          <- released.disk,
        done_count    <- done_count

(* Once it is constructed, the manager is the one of PieceManager: copying, *)
(* hashing, comparing and writing in parts to several files add up to one   *)
(* of the five outcomes of receive_block there, on the offsets that are     *)
(* right in buffers and files, and a write that fails half way leaves what  *)
(* FailToFlush says.                                                       *)
ImplementsManager ==
  /\ PM!PMInit
  /\ [][IF at = "allocate" THEN PM!PMInit' ELSE [PM!PMNext]_(PM!pmVars)]_rbVars

(* The progress thread and main read done_count_ without the mutex and take *)
(* its last value for the end of the download: whenever they see it, in the *)
(* middle of a late block's call too, every byte of every file is right.   *)
FinishedIsRight ==
  done_count = num_pieces =>
    \A o \in StreamOffsets : Stream[o] = RightStream[o]
=============================================================================
