------------------------- MODULE PieceManagerProofs -------------------------
(***************************************************************************)
(* Proofs about PieceManager, for every torrent, every set of messages and *)
(* every behaviour of the disk.  The inductive invariant is the            *)
(* conjunction of the type invariant, the agreement of the counters with   *)
(* what they count and the correctness on disk of the verified pieces.     *)
(***************************************************************************)
EXTENDS PieceManager, MetainfoProofs, FiniteSetTheorems

VerifiedPieces == \A i \in our_bitfield : disk[i] = Cells(i)

IInv == PMTypeOK /\ CountersAgree /\ VerifiedPieces

-----------------------------------------------------------------------------
(* Facts about one message and the piece it names. *)

(* An accepted message names an incomplete piece and one of its blocks, and *)
(* stays inside its buffer.                                                 *)
LEMMA AcceptedMessage ==
  ASSUME NEW m \in PieceMessages, Accepts(m)
  PROVE  /\ m.piece_index \in PieceIndex
         /\ status[m.piece_index] # "Complete"
         /\ BlockOf(m) \in Blocks(m.piece_index)
         /\ m.right \subseteq Cells(m.piece_index)
<1> DEFINE i == m.piece_index
<1>1. i \in PieceIndex /\ status[i] # "Complete" /\ BlockOf(m) \in Blocks(i)
      /\ m.begin + m.length <= piece_size(i)
  BY DEF Accepts, BufferSize
<1>2. piece_size(i) \in Nat
  BY <1>1, PieceGeometry
<1>3. m.begin \in Nat /\ m.length \in Nat
      /\ m.right \subseteq m.begin .. m.begin + m.length - 1
  BY PieceManagerAssumption
<1>4. m.begin .. m.begin + m.length - 1 \subseteq Cells(i)
  BY <1>1, <1>2, <1>3 DEF Cells
<1> QED BY <1>1, <1>3, <1>4

(* The buffer after the copy holds right bytes of the piece only.           *)
LEMMA DataWithType ==
  ASSUME PMTypeOK, NEW m \in PieceMessages, Accepts(m)
  PROVE  DataWith(m) \subseteq Cells(m.piece_index)
BY AcceptedMessage DEF PMTypeOK, DataWith

(* The blocks of a piece are finite and as many as num_blocks_in_piece. *)
LEMMA FiniteBlocks ==
  ASSUME NEW i \in PieceIndex
  PROVE  /\ IsFiniteSet(Blocks(i))
         /\ Cardinality(Blocks(i)) = num_blocks_in_piece(i)
<1>1. num_blocks_in_piece(i) \in Nat \ {0}
  BY BlockGeometry
<1> QED BY <1>1, FS_Interval DEF Blocks

(* The pieces are finite and as many as num_pieces. *)
LEMMA FinitePieces ==
  /\ IsFiniteSet(PieceIndex)
  /\ Cardinality(PieceIndex) = num_pieces
<1>1. num_pieces \in Nat
  BY PieceGeometry
<1> QED BY <1>1, FS_Interval DEF PieceIndex

(* The block counter stays the number of received blocks.                   *)
LEMMA DoneWithCounts ==
  ASSUME PMTypeOK, CountersAgree, NEW m \in PieceMessages, Accepts(m)
  PROVE  /\ ReceivedWith(m) \subseteq Blocks(m.piece_index)
         /\ IsFiniteSet(ReceivedWith(m))
         /\ DoneWith(m) \in Nat
         /\ DoneWith(m) = Cardinality(ReceivedWith(m))
<1> DEFINE i == m.piece_index
<1>1. i \in PieceIndex /\ BlockOf(m) \in Blocks(i)
  BY AcceptedMessage
<1>2. received[i] \subseteq Blocks(i) /\ blocks_done[i] = Cardinality(received[i])
      /\ blocks_done[i] \in Nat
  BY <1>1 DEF PMTypeOK, CountersAgree
<1>3. IsFiniteSet(received[i])
  BY <1>1, <1>2, FiniteBlocks, FS_Subset
<1>4. /\ IsFiniteSet(ReceivedWith(m))
      /\ Cardinality(ReceivedWith(m)) =
           IF BlockOf(m) \in received[i] THEN Cardinality(received[i])
                                         ELSE Cardinality(received[i]) + 1
  BY <1>3, FS_AddElement DEF ReceivedWith
<1>5. ReceivedWith(m) \subseteq Blocks(i)
  BY <1>1, <1>2 DEF ReceivedWith
<1> QED BY <1>2, <1>4, <1>5 DEF DoneWith, IsNew

(* No outcome but FlushPiece changes the set of complete pieces.            *)
LEMMA StatusWithIncomplete ==
  ASSUME NEW m \in PieceMessages, Accepts(m)
  PROVE  StatusWith(m) # "Complete"
BY AcceptedMessage DEF StatusWith

(* A step that makes no piece Complete leaves our_bitfield alone. *)
LEMMA BitfieldUnchanged ==
  ASSUME PMTypeOK, NEW i \in PieceIndex, NEW s, status[i] # "Complete",
         s # "Complete", status' = [status EXCEPT ![i] = s]
  PROVE  our_bitfield' = our_bitfield
BY DEF PMTypeOK, our_bitfield

(* A step that makes one piece Complete adds it to our_bitfield. *)
LEMMA BitfieldGrows ==
  ASSUME PMTypeOK, NEW i \in PieceIndex, status[i] # "Complete",
         status' = [status EXCEPT ![i] = "Complete"]
  PROVE  our_bitfield' = our_bitfield \cup {i} /\ i \notin our_bitfield
BY DEF PMTypeOK, our_bitfield

-----------------------------------------------------------------------------
(* Initial states *)

(* The constructor establishes the inductive invariant. *)
LEMMA InitInv == PMInit => IInv
<1> SUFFICES ASSUME PMInit PROVE IInv
  OBVIOUS
<1> USE DEF PMInit
<1>1. num_pieces \in Nat
  BY PieceGeometry
<1>2. \A i \in PieceIndex : ZeroCells(i) \subseteq Cells(i)
  BY DEF ZeroCells
<1>3. \A i \in PieceIndex : Cells(i) \subseteq Nat
  BY DEF Cells
<1>4. disk \in [PieceIndex -> SUBSET Nat]
      /\ \A i \in PieceIndex : disk[i] \subseteq Cells(i)
  BY <1>3 DEF allocate_files
<1>5. PMTypeOK
  BY <1>1, <1>2, <1>3, <1>4 DEF PMTypeOK, PieceStatus
<1>6. our_bitfield = {}
  BY DEF our_bitfield
<1>7. CountersAgree
  BY <1>6, FS_EmptySet DEF CountersAgree
<1> QED BY <1>5, <1>6, <1>7 DEF IInv, VerifiedPieces

-----------------------------------------------------------------------------
(* The type invariant, one lemma per outcome of receive_block *)

(* Offsets in a piece are naturals. *)
LEMMA CellsNat == ASSUME NEW i PROVE Cells(i) \subseteq Nat
BY DEF Cells

(* Block numbers are naturals. *)
LEMMA BlocksNat == ASSUME NEW i PROVE Blocks(i) \subseteq Nat
BY DEF Blocks

(* A block that leaves its piece unfinished keeps the shape of the state. *)
LEMMA KeepType ==
  ASSUME IInv, NEW m \in PieceMessages, KeepBlock(m)
  PROVE  PMTypeOK'
<1> DEFINE i == m.piece_index
<1>1. i \in PieceIndex /\ Accepts(m)
  BY AcceptedMessage DEF KeepBlock
<1>2. ReceivedWith(m) \subseteq Blocks(i) /\ DoneWith(m) \in Nat
  BY <1>1, DoneWithCounts DEF IInv
<1>3. DataWith(m) \subseteq Cells(i)
  BY <1>1, DataWithType DEF IInv
<1>4. StatusWith(m) \in PieceStatus
  BY <1>1 DEF StatusWith, PieceStatus, IInv, PMTypeOK
<1> QED BY <1>1, <1>2, <1>3, <1>4, CellsNat, BlocksNat DEF KeepBlock, IInv, PMTypeOK

(* A hash mismatch keeps the shape of the state. *)
LEMMA ResetType ==
  ASSUME IInv, NEW m \in PieceMessages, ResetPiece(m)
  PROVE  PMTypeOK'
<1> DEFINE i == m.piece_index
<1>1. i \in PieceIndex /\ Accepts(m)
  BY AcceptedMessage DEF ResetPiece
<1>2. ZeroCells(i) \subseteq Cells(i) /\ ClearedFlags(i) = {}
  BY DEF ZeroCells, ClearedFlags
<1> QED BY <1>1, <1>2, CellsNat, BlocksNat
        DEF ResetPiece, IInv, PMTypeOK, PieceStatus

(* A completed piece is new to our_bitfield, so done_count_ stays in range. *)
LEMMA FlushCount ==
  ASSUME IInv, NEW m \in PieceMessages, FlushPiece(m)
  PROVE  /\ done_count' = Cardinality(our_bitfield')
         /\ done_count' \in 0 .. num_pieces
<1> DEFINE i == m.piece_index
<1>1. i \in PieceIndex /\ status[i] # "Complete"
  BY AcceptedMessage DEF FlushPiece
<1>2. our_bitfield' = our_bitfield \cup {i} /\ i \notin our_bitfield
  BY <1>1, BitfieldGrows DEF FlushPiece, IInv
<1>3. IsFiniteSet(our_bitfield)
  BY FinitePieces, FS_Subset DEF our_bitfield
<1>4. /\ Cardinality(our_bitfield') = Cardinality(our_bitfield) + 1
      /\ IsFiniteSet(our_bitfield')
  BY <1>2, <1>3, FS_AddElement
<1>5. Cardinality(our_bitfield') <= num_pieces
  BY <1>2, FinitePieces, FS_Subset, <1>1 DEF our_bitfield
<1> QED BY <1>4, <1>5, PieceGeometry DEF FlushPiece, IInv, CountersAgree, PMTypeOK

(* A completed piece keeps the shape of the state. *)
LEMMA FlushType ==
  ASSUME IInv, NEW m \in PieceMessages, FlushPiece(m)
  PROVE  PMTypeOK'
<1> DEFINE i == m.piece_index
<1>1. i \in PieceIndex /\ Accepts(m)
  BY AcceptedMessage DEF FlushPiece
<1>2. ReceivedWith(m) \subseteq Blocks(i) /\ DoneWith(m) \in Nat
  BY <1>1, DoneWithCounts DEF IInv
<1>3. DataWith(m) \subseteq Cells(i)
  BY <1>1, DataWithType DEF IInv
<1>4. done_count' \in 0 .. num_pieces
  BY FlushCount
<1> QED BY <1>1, <1>2, <1>3, <1>4, CellsNat, BlocksNat
        DEF FlushPiece, IInv, PMTypeOK, PieceStatus

(* A failed write adds right bytes to the file and takes none away.         *)
LEMMA PartialWrite ==
  ASSUME IInv, NEW m \in PieceMessages, FailToFlush(m)
  PROVE  LET i == m.piece_index IN
         \E more \in SUBSET Cells(i) :
           disk' = [disk EXCEPT ![i] = @ \cup more]
<1> DEFINE i == m.piece_index
<1>1. i \in PieceIndex /\ DataWith(m) = Cells(i)
  BY AcceptedMessage DEF FailToFlush, HashMatches
<1>2. disk[i] \subseteq Cells(i)
  BY <1>1 DEF IInv, PMTypeOK
<1>3. PICK n \in Cells(i) :
        disk' = [disk EXCEPT ![i] = (@ \ (0 .. n - 1)) \cup
                                    (DataWith(m) \cap (0 .. n - 1))]
  BY DEF FailToFlush
<1>4. (disk[i] \ (0 .. n - 1)) \cup (DataWith(m) \cap (0 .. n - 1))
        = disk[i] \cup (Cells(i) \cap (0 .. n - 1))
  BY <1>1, <1>2
<1>5. disk' = [disk EXCEPT ![i] = @ \cup (Cells(i) \cap (0 .. n - 1))]
  BY <1>3, <1>4
<1> QED BY <1>5

(* A failed write keeps the shape of the state. *)
LEMMA FailType ==
  ASSUME IInv, NEW m \in PieceMessages, FailToFlush(m)
  PROVE  PMTypeOK'
<1> DEFINE i == m.piece_index
<1>1. i \in PieceIndex /\ Accepts(m)
  BY AcceptedMessage DEF FailToFlush
<1>2. ReceivedWith(m) \subseteq Blocks(i) /\ DoneWith(m) \in Nat
  BY <1>1, DoneWithCounts DEF IInv
<1>3. DataWith(m) \subseteq Cells(i)
  BY <1>1, DataWithType DEF IInv
<1>4. StatusIfWriteFails(m) \in PieceStatus
  BY <1>1 DEF StatusIfWriteFails, StatusWith, PieceStatus, IInv, PMTypeOK
<1>5. PICK more \in SUBSET Cells(i) : disk' = [disk EXCEPT ![i] = @ \cup more]
  BY PartialWrite
<1>6. disk' \in [PieceIndex -> SUBSET Nat]
      /\ \A j \in PieceIndex : disk'[j] \subseteq Cells(j)
  BY <1>1, <1>5, CellsNat DEF IInv, PMTypeOK
<1> QED BY <1>1, <1>2, <1>3, <1>4, <1>6, CellsNat, BlocksNat
        DEF FailToFlush, IInv, PMTypeOK

-----------------------------------------------------------------------------
(* The counters, one lemma per outcome *)

(* Only the flags and the counter of the message's piece change.            *)
LEMMA CountersStep ==
  ASSUME IInv, NEW m \in PieceMessages, Accepts(m), NEW S, NEW n,
         received' = [received EXCEPT ![m.piece_index] = S],
         blocks_done' = [blocks_done EXCEPT ![m.piece_index] = n],
         n = Cardinality(S)
  PROVE  \A i \in PieceIndex : blocks_done'[i] = Cardinality(received'[i])
BY AcceptedMessage DEF IInv, PMTypeOK, CountersAgree

(* A block that leaves its piece unfinished keeps the counters right. *)
LEMMA KeepCounters ==
  ASSUME IInv, NEW m \in PieceMessages, KeepBlock(m)
  PROVE  CountersAgree' /\ our_bitfield' = our_bitfield
<1>1. Accepts(m) /\ m.piece_index \in PieceIndex
  BY AcceptedMessage DEF KeepBlock
<1>2. DoneWith(m) = Cardinality(ReceivedWith(m))
  BY <1>1, DoneWithCounts DEF IInv
<1>3. \A i \in PieceIndex : blocks_done'[i] = Cardinality(received'[i])
  BY <1>1, <1>2, CountersStep DEF KeepBlock
<1>4. our_bitfield' = our_bitfield
  BY <1>1, AcceptedMessage, StatusWithIncomplete, BitfieldUnchanged DEF KeepBlock, IInv
<1> QED BY <1>3, <1>4 DEF KeepBlock, IInv, CountersAgree

(* A hash mismatch resets counter and flags together. *)
LEMMA ResetCounters ==
  ASSUME IInv, NEW m \in PieceMessages, ResetPiece(m)
  PROVE  CountersAgree' /\ our_bitfield' = our_bitfield
<1>1. Accepts(m) /\ m.piece_index \in PieceIndex
  BY AcceptedMessage DEF ResetPiece
<1>2. Cardinality(ClearedFlags(m.piece_index)) = 0
  BY FS_EmptySet DEF ClearedFlags
<1>3. \A i \in PieceIndex : blocks_done'[i] = Cardinality(received'[i])
  BY <1>1, <1>2, CountersStep DEF ResetPiece
<1>4. our_bitfield' = our_bitfield
  BY <1>1, AcceptedMessage, BitfieldUnchanged DEF ResetPiece, IInv
<1> QED BY <1>3, <1>4 DEF ResetPiece, IInv, CountersAgree

(* A completed piece is counted once. *)
LEMMA FlushCounters ==
  ASSUME IInv, NEW m \in PieceMessages, FlushPiece(m)
  PROVE  /\ CountersAgree'
         /\ m.piece_index \notin our_bitfield
         /\ our_bitfield' = our_bitfield \cup {m.piece_index}
<1>1. Accepts(m) /\ m.piece_index \in PieceIndex
      /\ status[m.piece_index] # "Complete"
  BY AcceptedMessage DEF FlushPiece
<1>2. DoneWith(m) = Cardinality(ReceivedWith(m))
  BY <1>1, DoneWithCounts DEF IInv
<1>3. \A i \in PieceIndex : blocks_done'[i] = Cardinality(received'[i])
  BY <1>1, <1>2, CountersStep DEF FlushPiece
<1>4. our_bitfield' = our_bitfield \cup {m.piece_index}
      /\ m.piece_index \notin our_bitfield
  BY <1>1, BitfieldGrows DEF FlushPiece, IInv
<1>5. done_count' = Cardinality(our_bitfield')
  BY FlushCount
<1> QED BY <1>3, <1>4, <1>5 DEF CountersAgree

(* A failed write counts the block but not the piece. *)
LEMMA FailCounters ==
  ASSUME IInv, NEW m \in PieceMessages, FailToFlush(m)
  PROVE  CountersAgree' /\ our_bitfield' = our_bitfield
<1>1. Accepts(m) /\ m.piece_index \in PieceIndex
  BY AcceptedMessage DEF FailToFlush
<1>2. DoneWith(m) = Cardinality(ReceivedWith(m))
  BY <1>1, DoneWithCounts DEF IInv
<1>3. \A i \in PieceIndex : blocks_done'[i] = Cardinality(received'[i])
  BY <1>1, <1>2, CountersStep DEF FailToFlush
<1>4. our_bitfield' = our_bitfield
  BY <1>1, AcceptedMessage, StatusWithIncomplete, BitfieldUnchanged
     DEF FailToFlush, StatusIfWriteFails, IInv
<1> QED BY <1>3, <1>4 DEF FailToFlush, IInv, CountersAgree

-----------------------------------------------------------------------------
(* The files *)

(* What a step of the manager does to files and bitfield: nothing, a        *)
(* partial write into an incomplete piece, or a complete piece.             *)
LEMMA DiskStep ==
  ASSUME IInv, NEW m \in PieceMessages, receive_block(m)
  PROVE  LET i == m.piece_index IN
         \/ disk' = disk /\ our_bitfield' = our_bitfield
         \/ /\ i \in PieceIndex /\ i \notin our_bitfield
            /\ our_bitfield' = our_bitfield
            /\ \E more \in SUBSET Cells(i) :
                 disk' = [disk EXCEPT ![i] = @ \cup more]
         \/ /\ i \in PieceIndex /\ i \notin our_bitfield
            /\ our_bitfield' = our_bitfield \cup {i}
            /\ disk' = [disk EXCEPT ![i] = Cells(i)]
<1> DEFINE i == m.piece_index
<1>1. CASE IgnoreBlock(m)
  BY <1>1 DEF IgnoreBlock, pmVars, our_bitfield
<1>2. CASE KeepBlock(m)
  BY <1>2, KeepCounters DEF KeepBlock
<1>3. CASE ResetPiece(m)
  BY <1>3, ResetCounters DEF ResetPiece
<1>4. CASE FlushPiece(m)
  <2>1. i \in PieceIndex /\ DataWith(m) = Cells(i)
    BY <1>4, AcceptedMessage DEF FlushPiece, HashMatches
  <2> QED BY <1>4, <2>1, FlushCounters DEF FlushPiece
<1>5. CASE FailToFlush(m)
  <2>1. i \in PieceIndex /\ i \notin our_bitfield
    BY <1>5, AcceptedMessage DEF FailToFlush, our_bitfield
  <2> QED BY <1>5, <2>1, FailCounters, PartialWrite
<1> QED BY <1>1, <1>2, <1>3, <1>4, <1>5 DEF receive_block

(* Every call of receive_block keeps the inductive invariant. *)
LEMMA StepInv ==
  ASSUME IInv, [PMNext]_pmVars
  PROVE  IInv'
<1>1. CASE UNCHANGED pmVars
  BY <1>1 DEF pmVars, IInv, PMTypeOK, CountersAgree, VerifiedPieces, our_bitfield
<1>2. ASSUME NEW m \in PieceMessages, receive_block(m)
      PROVE  IInv'
  <2>1. PMTypeOK' /\ CountersAgree'
    <3>1. CASE IgnoreBlock(m)
      BY <3>1 DEF IgnoreBlock, pmVars, IInv, PMTypeOK, CountersAgree, our_bitfield
    <3>2. CASE KeepBlock(m)
      BY <3>2, KeepType, KeepCounters
    <3>3. CASE ResetPiece(m)
      BY <3>3, ResetType, ResetCounters
    <3>4. CASE FlushPiece(m)
      BY <3>4, FlushType, FlushCounters
    <3>5. CASE FailToFlush(m)
      BY <3>5, FailType, FailCounters
    <3> QED BY <1>2, <3>1, <3>2, <3>3, <3>4, <3>5 DEF receive_block
  <2>2. VerifiedPieces'
    <3>1. our_bitfield \subseteq PieceIndex /\ disk \in [PieceIndex -> SUBSET Nat]
      BY DEF our_bitfield, IInv, PMTypeOK
    <3>2. \A j \in our_bitfield' : disk'[j] = Cells(j)
      BY <1>2, <3>1, DiskStep DEF IInv, VerifiedPieces
    <3> QED BY <3>2 DEF VerifiedPieces
  <2> QED BY <2>1, <2>2 DEF IInv
<1> QED BY <1>1, <1>2 DEF PMNext

(* The inductive invariant of the piece manager.                            *)
THEOREM Invariant == PMSpec => []IInv
<1>1. PMInit => IInv
  BY InitInv
<1>2. IInv /\ [PMNext]_pmVars => IInv'
  BY StepInv
<1> QED BY <1>1, <1>2, PTL DEF PMSpec

-----------------------------------------------------------------------------

(* Whatever peers send, no byte leaves its buffer and every variable keeps  *)
(* its shape.                                                               *)
THEOREM TypeCorrect == PMSpec => []PMTypeOK
<1>1. IInv => PMTypeOK
  BY DEF IInv
<1> QED BY <1>1, Invariant, PTL

(* The counters kept apart from the flags always agree with them.           *)
THEOREM CountersCorrect == PMSpec => []CountersAgree
<1>1. IInv => CountersAgree
  BY DEF IInv
<1> QED BY <1>1, Invariant, PTL

(* Counting right is enough: a finished count means that every piece is     *)
(* complete, hence on disk.                                                *)
LEMMA CountedOnDisk == IInv => VerifiedOnDisk
<1> SUFFICES ASSUME IInv PROVE VerifiedOnDisk
  OBVIOUS
<1>1. ASSUME is_complete PROVE our_bitfield = PieceIndex
  <2>1. our_bitfield \in SUBSET PieceIndex
    BY DEF our_bitfield
  <2>2. Cardinality(our_bitfield) = Cardinality(PieceIndex)
    BY <1>1, FinitePieces DEF is_complete, IInv, CountersAgree
  <2> QED BY <2>1, <2>2, FinitePieces, FS_Subset
<1> QED BY <1>1 DEF IInv, VerifiedPieces, VerifiedOnDisk

(* A finished download holds every piece, because done_count_ counts        *)
(* distinct pieces; and every piece it holds is right on disk.              *)
THEOREM VerifiedCorrect == PMSpec => []VerifiedOnDisk
BY CountedOnDisk, Invariant, PTL

(* No step takes a right byte, a finished piece or a count back.            *)
THEOREM NeverRegresses == PMSpec => NoRegress
<1> DEFINE Step == /\ \A i \in PieceIndex : disk[i] \subseteq disk'[i]
                   /\ our_bitfield \subseteq our_bitfield'
                   /\ done_count <= done_count'
<1>1. IInv /\ [PMNext]_pmVars => [Step]_pmVars
  <2> SUFFICES ASSUME IInv, NEW m \in PieceMessages, receive_block(m)
               PROVE  Step
    BY DEF PMNext
  <2>1. /\ disk \in [PieceIndex -> SUBSET Nat]
        /\ \A i \in PieceIndex : disk[i] \subseteq Cells(i)
        /\ done_count \in Nat
    BY PieceGeometry DEF IInv, PMTypeOK
  <2>2. \A i \in PieceIndex : disk[i] \subseteq disk'[i]
    BY <2>1, DiskStep
  <2>3. our_bitfield \subseteq our_bitfield'
    BY DiskStep
  <2>4. done_count' \in {done_count, done_count + 1}
    BY DEF receive_block, IgnoreBlock, KeepBlock, ResetPiece, FlushPiece,
           FailToFlush, pmVars
  <2>5. done_count <= done_count'
    BY <2>1, <2>4
  <2> QED BY <2>2, <2>3, <2>5
<1> QED BY <1>1, Invariant, PTL DEF PMSpec, NoRegress

(* PieceManager implements the abstract download: buffers, duplicates,      *)
(* hash failures and failed writes are invisible or partial writes there.   *)
THEOREM Refinement == PMSpec => ImplementsDownload
<1> DEFINE Content == [i \in PieceIndex |-> Cells(i)]
<1>1. PMInit => D!Init
  <2> SUFFICES ASSUME PMInit PROVE D!Init
    OBVIOUS
  <2>1. our_bitfield = {}
    BY DEF PMInit, our_bitfield
  <2>2. disk \in [PieceIndex -> SUBSET Nat]
        /\ \A i \in PieceIndex : disk[i] \subseteq Cells(i)
    BY InitInv DEF IInv, PMTypeOK
  <2>3. disk \in [PieceIndex -> SUBSET (UNION {Content[p] : p \in PieceIndex})]
    <3>1. \A p \in PieceIndex : disk[p] \subseteq Content[p]
      BY <2>2
    <3> QED BY <2>2, <3>1
  <2> QED BY <2>1, <2>2, <2>3 DEF D!Init
<1>2. IInv /\ [PMNext]_pmVars => [D!Next]_(D!vars)
  <2> SUFFICES ASSUME IInv, [PMNext]_pmVars PROVE [D!Next]_(D!vars)
    OBVIOUS
  <2>1. CASE UNCHANGED pmVars
    BY <2>1 DEF pmVars, D!vars, our_bitfield
  <2>2. ASSUME NEW m \in PieceMessages, receive_block(m)
        PROVE  [D!Next]_(D!vars)
    <3> DEFINE i == m.piece_index
    <3>1. CASE disk' = disk /\ our_bitfield' = our_bitfield
      BY <3>1 DEF D!vars
    <3>2. CASE /\ i \in PieceIndex /\ i \notin our_bitfield
               /\ our_bitfield' = our_bitfield
               /\ \E more \in SUBSET Cells(i) :
                    disk' = [disk EXCEPT ![i] = @ \cup more]
      BY <3>2 DEF D!Next, D!Scratch
    <3>3. CASE /\ i \in PieceIndex /\ i \notin our_bitfield
               /\ our_bitfield' = our_bitfield \cup {i}
               /\ disk' = [disk EXCEPT ![i] = Cells(i)]
      BY <3>3 DEF D!Next, D!Obtain
    <3> QED BY <2>2, <3>1, <3>2, <3>3, DiskStep
  <2> QED BY <2>1, <2>2 DEF PMNext
<1> QED BY <1>1, <1>2, Invariant, PTL DEF PMSpec, ImplementsDownload, D!Spec

-----------------------------------------------------------------------------

(* All pieces but the last begin, and end, before the last one does, and    *)
(* the last one is not empty.                                              *)
LEMMA LessThanAPieceTooMany == IInv => bytes_downloaded < TotalLength + PieceLength
<1> SUFFICES ASSUME IInv PROVE bytes_downloaded < TotalLength + PieceLength
  OBVIOUS
<1>1. /\ num_pieces \in Nat /\ TotalLength \in Nat /\ PieceLength \in Nat \ {0}
      /\ done_count \in Nat /\ done_count <= num_pieces
  BY PieceGeometry, GeometryAssumption DEF IInv, PMTypeOK
<1>2. bytes_downloaded = PieceLength * done_count
  BY <1>1, MulType DEF bytes_downloaded
<1>3. CASE num_pieces = 0
  <2>1. done_count = 0
    BY <1>1, <1>3
  <2>2. PieceLength * done_count = 0
    BY <2>1, <1>1
  <2> QED BY <2>2, <1>1, <1>2
<1>4. CASE num_pieces # 0
  <2>1. PICK last \in Nat : num_pieces = last + 1
    BY <1>1, <1>4
  <2>2. last \in PieceIndex
    BY <2>1 DEF PieceIndex
  <2>3. PieceLength * last \in Nat /\ PieceLength * last < TotalLength
    BY <2>1, <2>2, <1>1, PieceGeometry, MulType
  <2>4. PieceLength * done_count < PieceLength * last + PieceLength + 1
    <3>1. CASE done_count = last + 1
      BY <3>1, <1>1, <2>1
    <3>2. CASE done_count = last
      BY <3>2, <1>1, <2>3
    <3>3. CASE done_count < last
      BY <3>3, <1>1, <2>3, MulStrict, MulType
    <3> QED BY <3>1, <3>2, <3>3, <1>1, <2>1
  <2> QED BY <2>3, <2>4, <1>1, <1>2, MulType
<1> QED BY <1>3, <1>4

(* Until the last piece is complete at most num_pieces - 1 pieces are, and  *)
(* none of them is short.                                                  *)
LEMMA CountedInRange == IInv => ProgressUntilLastPiece
<1> SUFFICES ASSUME IInv, num_pieces - 1 \notin our_bitfield
             PROVE  bytes_downloaded <= TotalLength /\ progress_pct \in 0 .. 100
  BY LessThanAPieceTooMany DEF ProgressUntilLastPiece
<1>1. /\ num_pieces \in Nat /\ TotalLength \in Nat /\ PieceLength \in Nat \ {0}
      /\ done_count \in Nat
  BY PieceGeometry, GeometryAssumption DEF IInv, PMTypeOK
<1>2. bytes_downloaded \in Nat /\ bytes_downloaded <= TotalLength
  <2>1. CASE num_pieces = 0
    <3>1. done_count = 0
      BY <2>1 DEF IInv, PMTypeOK
    <3>2. bytes_downloaded = 0
      BY <3>1, <1>1 DEF bytes_downloaded
    <3> QED BY <3>2, <1>1
  <2>2. CASE num_pieces # 0
    <3> DEFINE last == num_pieces - 1
    <3>1. last \in PieceIndex /\ last \in Nat
      BY <2>2, <1>1 DEF PieceIndex
    <3>2. our_bitfield \subseteq 0 .. last - 1
      BY <1>1, <3>1 DEF our_bitfield, PieceIndex
    <3>3. IsFiniteSet(0 .. last - 1) /\ Cardinality(0 .. last - 1) = last
      BY <3>1, FS_Interval
    <3>4. done_count <= last
      <4>1. Cardinality(our_bitfield) <= Cardinality(0 .. last - 1)
        BY <3>2, <3>3, FS_Subset
      <4> QED BY <4>1, <3>3 DEF IInv, CountersAgree
    <3>5. PieceLength * last \in Nat /\ PieceLength * last <= TotalLength
      BY <3>1, <1>1, PieceGeometry, MulType
    <3>6. PieceLength * done_count <= PieceLength * last
      <4>1. CASE done_count = last
        BY <4>1, <3>5
      <4>2. CASE done_count < last
        BY <4>2, <1>1, <3>1, MulStrict, MulType
      <4> QED BY <4>1, <4>2, <3>4, <3>1, <1>1
    <3>7. bytes_downloaded = PieceLength * done_count
          /\ PieceLength * done_count \in Nat
      BY <1>1, MulType DEF bytes_downloaded
    <3> QED BY <3>5, <3>6, <3>7, <1>1
  <2> QED BY <2>1, <2>2
<1>3. progress_pct \in 0 .. 100
  <2>1. CASE TotalLength = 0
    BY <2>1 DEF progress_pct
  <2>2. CASE TotalLength # 0
    <3> DEFINE a == bytes_downloaded * 100
               q == a \div TotalLength
    <3>1. a \in Nat /\ a <= TotalLength * 100 /\ TotalLength \in Nat \ {0}
      BY <1>1, <1>2, <2>2
    <3>2. q \in Nat /\ TotalLength * q <= a
      BY <3>1, DivBounds
    <3>3. ~ (100 < q)
      BY <3>1, <3>2, MulStrict
    <3> QED BY <2>2, <3>2, <3>3 DEF progress_pct
  <2> QED BY <2>1, <2>2
<1> QED BY <1>2, <1>3

(* What screen and tracker are told stays in range until then, and exceeds  *)
(* it by less than a piece afterwards (bytes_downloaded, progress_pct).     *)
THEOREM ProgressInRange == PMSpec => []ProgressUntilLastPiece
BY CountedInRange, Invariant, PTL

(* A request of next_request is one receive_block accepts: it names a block *)
(* of an incomplete piece the peer has, is not empty and fits the buffer,   *)
(* the short last block of the short last piece included.                   *)
LEMMA RequestAccepted == RequestIsUseful
<1> SUFFICES ASSUME NEW bf \in SUBSET PieceIndex, NEW r \in next_request(bf)
             PROVE  /\ r.piece_index \in bf
                    /\ r.length > 0
                    /\ Accepts(r) /\ IsNew(r)
  BY DEF RequestIsUseful
<1>a. PICK i \in Useful(bf) : \E b \in Blocks(i) \ received[i] :
        r = BlockRequest(i, b)
  BY DEF next_request, Lowest
<1>1. PICK b \in Blocks(i) \ received[i] : r = BlockRequest(i, b)
  BY <1>a
<1>2. i \in PieceIndex /\ i \in bf /\ status[i] # "Complete"
  BY DEF Useful
<1>3. /\ b \in Nat /\ BlockSize * b \in Nat
      /\ BlockSize * b < piece_size(i)
      /\ b * BlockSize = BlockSize * b
      /\ (b * BlockSize) \div BlockSize = b
  BY <1>2, BlockGeometry
<1>4. piece_size(i) \in Nat
  BY <1>2, PieceGeometry
<1>5. /\ r.piece_index = i /\ r.begin = b * BlockSize
      /\ r.length = IF piece_size(i) - r.begin < BlockSize
                       THEN piece_size(i) - r.begin ELSE BlockSize
  BY <1>1 DEF BlockRequest
<1>6. r.length > 0 /\ r.begin + r.length <= piece_size(i)
  BY <1>3, <1>4, <1>5, GeometryAssumption
<1>7. BlockOf(r) = b
  BY <1>3, <1>5 DEF BlockOf
<1> QED BY <1>2, <1>5, <1>6, <1>7 DEF Accepts, IsNew, BufferSize

(* So it is whenever a peer thread asks.                                    *)
THEOREM RequestsUseful == PMSpec => []RequestIsUseful
BY RequestAccepted, PTL

(* With a disk that never fails no piece is stranded: the last block of a   *)
(* piece is always followed by a verdict, so what is not complete has a     *)
(* block left to ask for.                                                   *)
THEOREM NothingStranded ==
  ASSUME WritesMayFail = FALSE
  PROVE  PMSpec => []NoStrandedPiece
<1>1. PMInit => NoStrandedPiece
  <2>1. \A i \in PieceIndex : Blocks(i) # {}
    BY BlockGeometry DEF Blocks
  <2> QED BY <2>1 DEF PMInit, NoStrandedPiece
<1>2. IInv /\ NoStrandedPiece /\ [PMNext]_pmVars => NoStrandedPiece'
  <2> SUFFICES ASSUME IInv, NoStrandedPiece, [PMNext]_pmVars
               PROVE  NoStrandedPiece'
    OBVIOUS
  <2>1. CASE UNCHANGED pmVars
    BY <2>1 DEF pmVars, NoStrandedPiece
  <2>2. ASSUME NEW m \in PieceMessages, receive_block(m)
        PROVE  NoStrandedPiece'
    <3> DEFINE i == m.piece_index
    <3>1. CASE IgnoreBlock(m)
      BY <3>1 DEF IgnoreBlock, pmVars, NoStrandedPiece
    <3>2. CASE KeepBlock(m)
      <4>1. i \in PieceIndex /\ Accepts(m)
        BY <3>2, AcceptedMessage DEF KeepBlock
      <4>2. Cardinality(ReceivedWith(m)) # Cardinality(Blocks(i))
        BY <3>2, <4>1, DoneWithCounts, FiniteBlocks DEF KeepBlock, AllArrived, IInv
      <4>3. received'[i] # Blocks(i)
        BY <3>2, <4>1, <4>2 DEF KeepBlock, IInv, PMTypeOK
      <4> QED BY <3>2, <4>1, <4>3 DEF KeepBlock, IInv, PMTypeOK, NoStrandedPiece
    <3>3. CASE ResetPiece(m)
      <4>1. i \in PieceIndex /\ Blocks(i) # {}
        BY <3>3, AcceptedMessage, BlockGeometry DEF ResetPiece, Blocks
      <4> QED BY <3>3, <4>1
              DEF ResetPiece, ClearedFlags, IInv, PMTypeOK, NoStrandedPiece
    <3>4. CASE FlushPiece(m)
      BY <3>4, AcceptedMessage DEF FlushPiece, IInv, PMTypeOK, NoStrandedPiece
    <3>5. CASE FailToFlush(m)
      BY <3>5 DEF FailToFlush
    <3> QED BY <2>2, <3>1, <3>2, <3>3, <3>4, <3>5 DEF receive_block
  <2> QED BY <2>1, <2>2 DEF PMNext
<1> QED BY <1>1, <1>2, Invariant, PTL DEF PMSpec
=============================================================================
