--------------------------- MODULE MetainfoProofs ---------------------------
(***************************************************************************)
(* The geometry of Metainfo for every torrent: no piece and no block is    *)
(* empty, and the pieces cut the stream without gap or overlap, as do the  *)
(* blocks of a piece.                                                      *)
(***************************************************************************)
EXTENDS Metainfo, WellFoundedInduction, TLAPS

(* A non-empty set of naturals has a least element. *)
LEMMA Least ==
  ASSUME NEW T \in SUBSET Nat, T # {}
  PROVE  \E x \in T : \A y \in T : x <= y
<1>1. PICK x \in T : \A y \in T : ~ (<<y, x>> \in OpToRel(<, Nat))
  BY WFMin, NatLessThanWellFounded
<1>2. \A y \in T : ~ (y < x)
  BY <1>1 DEF OpToRel
<1> QED BY <1>2

(* Integer division rounds down. *)
LEMMA DivBounds ==
  ASSUME NEW a \in Nat, NEW b \in Nat \ {0}
  PROVE  /\ a \div b \in Nat
         /\ b * (a \div b) <= a
         /\ a < b * (a \div b) + b
OBVIOUS

(* A larger factor adds at least one whole multiple. *)
LEMMA MulStrict ==
  ASSUME NEW b \in Nat, NEW p \in Int, NEW q \in Int, p < q
  PROVE  b * p + b <= b * q
OBVIOUS

(* A product of naturals is a natural. *)
LEMMA MulType ==
  ASSUME NEW b \in Nat, NEW p \in Nat
  PROVE  b * p \in Nat /\ b * p = p * b
OBVIOUS

(* The quotient is the only number with this remainder. *)
LEMMA DivUnique ==
  ASSUME NEW a \in Nat, NEW b \in Nat \ {0}, NEW q \in Nat,
         b * q <= a, a < b * q + b
  PROVE  a \div b = q
OBVIOUS

(* Rounding up, as num_pieces and num_blocks_in_piece do: the last unit     *)
(* starts inside the range it covers and ends at or after its end.          *)
LEMMA RoundUp ==
  ASSUME NEW a \in Nat, NEW b \in Nat \ {0}
  PROVE  LET n == (a + b - 1) \div b IN
         /\ n \in Nat
         /\ a <= b * n
         /\ \A k \in 0 .. n - 1 : b * k \in Nat /\ b * k < a
         /\ a > 0 => n > 0
<1> DEFINE n == (a + b - 1) \div b
<1>1. a + b - 1 \in Nat
  OBVIOUS
<1>2. n \in Nat /\ b * n <= a + b - 1 /\ a + b - 1 < b * n + b
  BY <1>1, DivBounds
<1>3. a <= b * n
  BY <1>2, MulType
<1>4. ASSUME NEW k \in 0 .. n - 1
      PROVE  b * k \in Nat /\ b * k < a
  <2> HIDE DEF n
  <2>1. b * k \in Nat /\ b * n \in Nat
    BY <1>2, MulType
  <2>2. b * k + b <= b * n
    BY <1>2, MulStrict
  <2> QED BY <2>1, <2>2, <1>2
<1>5. a > 0 => n > 0
  <2> HIDE DEF n
  <2> SUFFICES ASSUME a > 0, n = 0 PROVE FALSE
    BY <1>2
  <2>1. b * n = 0
    OBVIOUS
  <2> QED BY <2>1, <1>3
<1> QED BY <1>2, <1>3, <1>4, <1>5

(* The number of pieces, and the size of each. *)
LEMMA PieceGeometry ==
  /\ num_pieces \in Nat
  /\ \A i \in PieceIndex :
       /\ piece_size(i) \in Nat \ {0}
       /\ piece_size(i) <= PieceLength
       /\ PieceLength * i + piece_size(i) <= TotalLength
       /\ i + 1 < num_pieces => piece_size(i) = PieceLength
       /\ i + 1 = num_pieces => PieceLength * i + piece_size(i) = TotalLength
<1>1. /\ num_pieces \in Nat
      /\ TotalLength <= PieceLength * num_pieces
      /\ \A k \in 0 .. num_pieces - 1 :
           PieceLength * k \in Nat /\ PieceLength * k < TotalLength
  BY GeometryAssumption, RoundUp DEF num_pieces
<1> HIDE DEF num_pieces
<1> SUFFICES ASSUME NEW i \in PieceIndex
             PROVE  /\ piece_size(i) \in Nat \ {0}
                    /\ piece_size(i) <= PieceLength
                    /\ PieceLength * i + piece_size(i) <= TotalLength
                    /\ i + 1 < num_pieces => piece_size(i) = PieceLength
                    /\ i + 1 = num_pieces =>
                         PieceLength * i + piece_size(i) = TotalLength
  BY <1>1
<1>2. i \in Nat /\ i < num_pieces /\ i \in 0 .. num_pieces - 1
  BY <1>1 DEF PieceIndex
<1>3. PieceLength * i \in Nat /\ PieceLength * i < TotalLength
      /\ i * PieceLength = PieceLength * i
  BY <1>1, <1>2, GeometryAssumption, MulType
<1>4. CASE i + 1 < num_pieces
  <2>1. PieceLength * (i + 1) < TotalLength
    BY <1>1, <1>2, <1>4
  <2>2. PieceLength * i + PieceLength <= PieceLength * (i + 1)
    BY <1>2, MulStrict, GeometryAssumption
  <2>3. PieceLength * (i + 1) \in Nat
    BY <1>2, MulType, GeometryAssumption
  <2>4. piece_size(i) = PieceLength
    BY <1>4 DEF piece_size
  <2> QED BY <2>1, <2>2, <2>3, <2>4, <1>2, <1>3, <1>4, GeometryAssumption
<1>5. CASE i + 1 = num_pieces
  <2>1. TotalLength <= PieceLength * i + PieceLength
    BY <1>1, <1>2, <1>5, GeometryAssumption
  <2>2. piece_size(i) = TotalLength - PieceLength * i
    BY <1>3, <1>5, <1>1, <1>2 DEF piece_size
  <2> QED BY <2>1, <2>2, <1>2, <1>3, <1>5, GeometryAssumption
<1> QED BY <1>1, <1>2, <1>4, <1>5

(* The same for the blocks of a piece: each starts inside the piece, and    *)
(* the last one covers what the others leave.                               *)
LEMMA BlockGeometry ==
  ASSUME NEW i \in PieceIndex
  PROVE  /\ num_blocks_in_piece(i) \in Nat \ {0}
         /\ piece_size(i) <= BlockSize * num_blocks_in_piece(i)
         /\ \A b \in Blocks(i) :
              /\ b \in Nat
              /\ BlockSize * b \in Nat
              /\ BlockSize * b < piece_size(i)
              /\ b * BlockSize = BlockSize * b
              /\ (b * BlockSize) \div BlockSize = b
<1>1. piece_size(i) \in Nat /\ piece_size(i) > 0
  BY PieceGeometry
<1>2. /\ num_blocks_in_piece(i) \in Nat
      /\ piece_size(i) <= BlockSize * num_blocks_in_piece(i)
      /\ \A k \in 0 .. num_blocks_in_piece(i) - 1 :
           BlockSize * k \in Nat /\ BlockSize * k < piece_size(i)
      /\ num_blocks_in_piece(i) > 0
  BY <1>1, GeometryAssumption, RoundUp DEF num_blocks_in_piece
<1>3. ASSUME NEW b \in Blocks(i)
      PROVE  /\ b \in Nat
             /\ BlockSize * b \in Nat
             /\ BlockSize * b < piece_size(i)
             /\ b * BlockSize = BlockSize * b
             /\ (b * BlockSize) \div BlockSize = b
  <2>1. b \in Nat /\ b \in 0 .. num_blocks_in_piece(i) - 1
    BY <1>2 DEF Blocks
  <2>2. BlockSize * b \in Nat /\ b * BlockSize = BlockSize * b
    BY <2>1, GeometryAssumption, MulType
  <2>3. (b * BlockSize) \div BlockSize = b
    BY <2>1, <2>2, GeometryAssumption, DivUnique
  <2> QED BY <1>2, <2>1, <2>2, <2>3
<1> QED BY <1>2, <1>3

-----------------------------------------------------------------------------

(* Metainfo::piece_size cuts the stream without overrun, gap or overlap:    *)
(* every byte of every file lies in exactly one piece, at one offset.       *)
THEOREM PiecesPartitionStream ==
  /\ \A i \in PieceIndex : \A c \in Cells(i) :
       StreamOffset(i, c) \in StreamOffsets
  /\ \A o \in StreamOffsets :
       \E i \in PieceIndex : \E c \in Cells(i) : StreamOffset(i, c) = o
  /\ \A i, j \in PieceIndex : \A c \in Cells(i), d \in Cells(j) :
       StreamOffset(i, c) = StreamOffset(j, d) => i = j /\ c = d
<1>1. ASSUME NEW i \in PieceIndex
      PROVE  /\ i \in Nat
             /\ PieceLength * i \in Nat
             /\ i * PieceLength = PieceLength * i
             /\ piece_size(i) \in Nat
             /\ piece_size(i) <= PieceLength
             /\ PieceLength * i + piece_size(i) <= TotalLength
  <2>1. i \in Nat
    BY PieceGeometry DEF PieceIndex
  <2> QED BY <2>1, PieceGeometry, GeometryAssumption, MulType
<1>2. ASSUME NEW i \in PieceIndex, NEW c \in Cells(i)
      PROVE  StreamOffset(i, c) \in StreamOffsets
  BY <1>1, GeometryAssumption DEF Cells, StreamOffset, StreamOffsets
<1>3. ASSUME NEW o \in StreamOffsets
      PROVE  \E i \in PieceIndex : \E c \in Cells(i) : StreamOffset(i, c) = o
  <2> DEFINE i == o \div PieceLength
             c == o - PieceLength * i
  <2>1. o \in Nat /\ o < TotalLength
    BY GeometryAssumption DEF StreamOffsets
  <2>2. /\ i \in Nat /\ PieceLength * i <= o /\ o < PieceLength * i + PieceLength
        /\ PieceLength * i \in Nat /\ i * PieceLength = PieceLength * i
    BY <2>1, GeometryAssumption, DivBounds, MulType
  <2> HIDE DEF i
  <2>3. i \in PieceIndex
    <3>1. num_pieces \in Nat /\ TotalLength <= PieceLength * num_pieces
      BY GeometryAssumption, RoundUp DEF num_pieces
    <3> SUFFICES ASSUME num_pieces <= i PROVE FALSE
      BY <2>2, <3>1 DEF PieceIndex
    <3>2. PieceLength * num_pieces <= PieceLength * i
      <4>1. CASE num_pieces = i
        BY <4>1, <2>2
      <4>2. CASE num_pieces < i
        <5>1. PieceLength * num_pieces + PieceLength <= PieceLength * i
          BY <4>2, <3>1, <2>2, GeometryAssumption, MulStrict
        <5>2. PieceLength * num_pieces \in Nat
          BY <3>1, GeometryAssumption, MulType
        <5> QED BY <5>1, <5>2, <2>2, GeometryAssumption
      <4> QED BY <4>1, <4>2, <3>1, <2>2
    <3>3. PieceLength * num_pieces \in Nat
      BY <3>1, GeometryAssumption, MulType
    <3> QED BY <3>1, <3>2, <3>3, <2>1, <2>2, GeometryAssumption
  <2>4. c \in Cells(i)
    <3>1. CASE i + 1 < num_pieces
      <4>1. piece_size(i) = PieceLength
        BY <2>3, <3>1, PieceGeometry
      <4> QED BY <4>1, <2>1, <2>2, GeometryAssumption DEF Cells
    <3>2. CASE i + 1 = num_pieces
      <4>1. PieceLength * i + piece_size(i) = TotalLength
        BY <2>3, <3>2, PieceGeometry
      <4> QED BY <4>1, <1>1, <2>3, <2>1, <2>2 DEF Cells
    <3>3. i + 1 < num_pieces \/ i + 1 = num_pieces
      BY <2>2, <2>3, PieceGeometry DEF PieceIndex
    <3> QED BY <3>1, <3>2, <3>3
  <2>5. StreamOffset(i, c) = o
    BY <2>1, <2>2 DEF StreamOffset
  <2> QED BY <2>3, <2>4, <2>5
<1>4. ASSUME NEW i \in PieceIndex, NEW j \in PieceIndex,
             NEW c \in Cells(i), NEW d \in Cells(j),
             StreamOffset(i, c) = StreamOffset(j, d)
      PROVE  i = j /\ c = d
  <2>1. /\ c \in Nat /\ c < PieceLength /\ d \in Nat /\ d < PieceLength
    BY <1>1, GeometryAssumption DEF Cells
  <2>2. PieceLength * i + c = PieceLength * j + d
    BY <1>1, <1>4 DEF StreamOffset
  <2>3. ~ (i < j)
    <3> SUFFICES ASSUME i < j PROVE FALSE
      OBVIOUS
    <3>1. PieceLength * i + PieceLength <= PieceLength * j
      BY <1>1, GeometryAssumption, MulStrict
    <3> QED BY <3>1, <2>1, <2>2, <1>1, GeometryAssumption
  <2>4. ~ (j < i)
    <3> SUFFICES ASSUME j < i PROVE FALSE
      OBVIOUS
    <3>1. PieceLength * j + PieceLength <= PieceLength * i
      BY <1>1, GeometryAssumption, MulStrict
    <3> QED BY <3>1, <2>1, <2>2, <1>1, GeometryAssumption
  <2>5. i = j
    BY <2>3, <2>4, <1>1
  <2> QED BY <2>1, <2>2, <2>5, <1>1
<1> QED BY <1>2, <1>3, <1>4
=============================================================================
