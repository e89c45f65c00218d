------------------------ MODULE VerifyAndFlushProofs ------------------------
(***************************************************************************)
(* For every torrent, every list of files and whatever bytes arrive: only  *)
(* bytes the digest vouches for are written, where they belong, and a      *)
(* piece called Complete is on disk.  The hash and the files enter as the  *)
(* theorems about Sha1Stream and FileLayout say.  The second half is about *)
(* ReceiveBlock: a whole call is one step of PieceManager, whose theorems  *)
(* then hold of it.                                                        *)
(***************************************************************************)
EXTENDS ReceiveBlock, Sha1StreamProofs, FileLayoutProofs

(* verify_and_flush around its two calls. *)
CallInv ==
  /\ status \in [PieceIndex -> {"Missing", "Pending", "HashFail", "Complete"}]
  /\ doing \in {"nothing", "hash", "write"}
  /\ doing = "hash" => /\ piece \in PieceIndex /\ buffer \in PieceData[piece]
                       /\ message = buffer /\ at = "ready"
  /\ doing # "hash" => message = <<>>
  /\ doing = "nothing" => at \in {"allocate", "refused", "ready"}
  /\ at \in {"allocate", "refused"} =>
       \A i \in PieceIndex : status[i] # "Complete"

(* What write_piece has done to the piece it was called for. *)
WriteInv ==
  doing = "write" =>
    /\ piece \in PieceIndex
    /\ StreamStatus \in {"writing", "written", "failed"}
    /\ data = Right[piece] /\ piece_begin = piece * PieceLength
    /\ \A c \in Cells(piece) :
         c < src => Stream[StreamOffset(piece, c)] = RightStream[StreamOffset(piece, c)]
    /\ StreamStatus = "written" => src = Len(data)
    /\ StreamStatus = "failed" => src < Len(data)

FlushInv == ShaInv /\ LayoutInv /\ CallInv /\ WriteInv /\ CompleteIsRight

(* Equal padded messages of one length are equal. *)
LEMMA PaddedInjective ==
  ASSUME NEW m \in Seq(Byte), NEW n \in Seq(Byte),
         Len(m) = Len(n), Padded(m) = Padded(n)
  PROVE  m = n
<1> DEFINE z    == Zeros(PadLength(Len(m)))
           bits == BigEndian(Len(m) * 8)
           mark == <<128>>
<1>1. /\ z \in Seq(Byte) /\ bits \in Seq(Byte) /\ mark \in Seq(Byte)
      /\ m \o mark \in Seq(Byte) /\ n \o mark \in Seq(Byte)
  <2>1. Len(m) \in Nat
    BY LenProperties
  <2>2. PadLength(Len(m)) \in Nat /\ Len(m) * 8 \in Nat
    BY <2>1, PadFacts
  <2>3. mark \in Seq(Byte)
    BY DEF Byte
  <2> QED BY <2>2, <2>3, ZerosType, BigEndianType, MarkedLength, ConcatProperties
<1>2. /\ Padded(m) = ((m \o mark) \o z) \o bits
      /\ Padded(n) = ((n \o mark) \o z) \o bits
  BY DEF Padded
<1> HIDE DEF z, bits, mark
<1>3. (m \o mark) \o z \in Seq(Byte) /\ (n \o mark) \o z \in Seq(Byte)
  BY <1>1, ConcatProperties
<1>4. \A s, t, v \in Seq(Byte) : s \o v = t \o v => s = t
  BY ConcatSimplifications
<1>5. (m \o mark) \o z = (n \o mark) \o z
  BY <1>1, <1>2, <1>3, <1>4
<1>6. m \o mark = n \o mark
  BY <1>1, <1>4, <1>5
<1> QED BY <1>1, <1>4, <1>6

(* The stream holds byte c of piece i at its place. *)
LEMMA RightAt ==
  ASSUME NEW i \in PieceIndex, NEW c \in Cells(i)
  PROVE  /\ StreamOffset(i, c) \in StreamOffsets
         /\ RightStream[StreamOffset(i, c)] = Right[i][c + 1]
<1>1. /\ i \in Nat /\ c \in Nat /\ c < piece_size(i)
      /\ piece_size(i) \in Nat /\ piece_size(i) <= PieceLength
      /\ PieceLength \in Nat \ {0}
  BY PieceGeometry, GeometryAssumption DEF PieceIndex, Cells
<1>2. StreamOffset(i, c) \in StreamOffsets
  BY PiecesPartitionStream
<1> DEFINE o == StreamOffset(i, c)
<1>3. o = PieceLength * i + c /\ PieceLength * i \in Nat /\ o \in Nat
  BY <1>1, MulType DEF StreamOffset
<1> HIDE DEF o
<1>4. o \div PieceLength = i
  BY <1>1, <1>3, DivUnique
<1>5. o = PieceLength * (o \div PieceLength) + (o % PieceLength)
      /\ o % PieceLength \in Nat
  BY <1>1, <1>3, Division
<1>6. o % PieceLength = c
  BY <1>1, <1>3, <1>4, <1>5
<1>7. RightStream[o] = Right[o \div PieceLength][(o % PieceLength) + 1]
  BY <1>2 DEF RightStream, o
<1> QED BY <1>2, <1>4, <1>6, <1>7 DEF o

(* No byte that is right, of this piece or of another, is lost.            *)
OnlyRight == \A o \in StreamOffsets : Stream'[o] \in {Stream[o], RightStream[o]}

(* The bytes between the old and the new src become right; no other moves. *)
NextBytesRight ==
  /\ src \in Nat /\ src' \in Nat /\ src <= src' /\ src' <= Len(data)
  /\ \A o \in StreamOffsets :
       Stream'[o] = IF o \in piece_begin + src .. piece_begin + src' - 1
                      THEN RightStream[o] ELSE Stream[o]

(* No more bytes are written than the piece has. *)
LEMMA BytesReached ==
  ASSUME LayoutInv, doing = "write", StreamStatus = "writing"
  PROVE  src <= Len(data)
<1>1. /\ src \in Nat /\ rem \in Nat /\ Len(data) \in Nat /\ piece_begin \in Nat
      /\ at \in {"file", "write"}
  BY StatusOf DEF LayoutInv, LayoutTypeOK, StreamStatus
<1>2. CASE at = "write"
  BY <1>1, <1>2 DEF LayoutInv, LayoutTypeOK
<1>3. CASE at = "file"
  <2>1. src = Reached(file)
    BY <1>3 DEF LayoutInv
  <2> QED BY <1>1, <2>1, FileFacts DEF Reached, Bound, Smaller, Larger
<1> QED BY <1>1, <1>2, <1>3

(* A step of the writing loop stores right bytes, next to those before.     *)
LEMMA WriteStep ==
  ASSUME FlushInv, doing = "write", LayoutStep, StreamStatus = "writing"
  PROVE  /\ OnlyRight /\ NextBytesRight
         /\ UNCHANGED <<piece_begin, data>>
         /\ StreamStatus' \in {"writing", "written", "failed"}
         /\ \A c \in Cells(piece) :
              c < src' => Stream'[StreamOffset(piece, c)]
                            = RightStream[StreamOffset(piece, c)]
         /\ StreamStatus' = "written" => src' = Len(data)
         /\ StreamStatus' = "failed" => src' < Len(data)
<1>1. /\ piece \in PieceIndex
      /\ data = Right[piece] /\ piece_begin = piece * PieceLength
      /\ Len(data) = piece_size(piece) /\ piece_size(piece) \in Nat
      /\ \A c \in Cells(piece) : c < src =>
           Stream[StreamOffset(piece, c)] = RightStream[StreamOffset(piece, c)]
  BY PieceGeometry, RightAssumption DEF FlushInv, WriteInv
<1>2. /\ src \in Nat /\ piece_begin \in Nat /\ piece \in Nat
  BY <1>1 DEF FlushInv, LayoutInv, LayoutTypeOK, PieceIndex
<1>3. \A c \in Cells(piece) : /\ StreamOffset(piece, c) \in StreamOffsets
                              /\ StreamOffset(piece, c) = piece_begin + c
                              /\ c \in Nat /\ c < Len(data)
                              /\ RightStream[piece_begin + c] = data[c + 1]
  <2>1. \A c \in Cells(piece) : StreamOffset(piece, c) = piece_begin + c
                                /\ c \in Nat /\ c < Len(data)
    BY <1>1 DEF StreamOffset, Cells
  <2> QED BY <2>1, <1>1, RightAt
<1>4. [S!Next]_(S!vars)
  BY LayoutStep_Stream DEF FlushInv
<1>5. CASE UNCHANGED S!vars \/ S!Finish \/ S!Fail
  <2>1. UNCHANGED <<Stream, piece_begin, data, src>>
    BY <1>5 DEF S!vars, S!Finish, S!Fail
  <2>2. src <= Len(data)
    BY BytesReached DEF FlushInv
  <2>3. NextBytesRight /\ OnlyRight
    <3>1. \A o : o \notin piece_begin + src .. piece_begin + src' - 1
      BY <2>1, <1>2
    <3> QED BY <2>1, <2>2, <3>1, <1>1, <1>2 DEF NextBytesRight, OnlyRight
  <2> QED BY <1>1, <1>5, <2>1, <2>3 DEF S!vars, S!Finish, S!Fail
<1>6. ASSUME NEW n \in 1 .. Len(data) - src, S!Put(n)
      PROVE  /\ OnlyRight /\ NextBytesRight
             /\ UNCHANGED <<piece_begin, data, StreamStatus>>
             /\ \A c \in Cells(piece) :
                  c < src' => Stream'[StreamOffset(piece, c)]
                                = RightStream[StreamOffset(piece, c)]
  <2>1. /\ Stream' = [o \in StreamOffsets |->
                        IF o \in piece_begin + src .. piece_begin + src + n - 1
                          THEN data[o - piece_begin + 1] ELSE Stream[o]]
        /\ src' = src + n /\ n \in Nat /\ src + n <= Len(data) /\ Len(data) \in Nat
        /\ UNCHANGED <<piece_begin, data, StreamStatus>>
    BY <1>1, <1>2, <1>6 DEF S!Put
  <2>2. ASSUME NEW o \in StreamOffsets,
               o \in piece_begin + src .. piece_begin + src + n - 1
        PROVE  data[o - piece_begin + 1] = RightStream[o]
    <3> DEFINE c == o - piece_begin
    <3>1. o \in Int /\ c \in Cells(piece) /\ piece_begin + c = o
      <4>1. o \in Int
        BY DEF StreamOffsets
      <4>2. piece_begin + src <= o /\ o < piece_begin + Len(data)
        BY <4>1, <2>1, <2>2, <1>2
      <4> QED BY <4>1, <4>2, <1>1, <1>2 DEF Cells
    <3> HIDE DEF c
    <3>2. RightStream[piece_begin + c] = data[c + 1]
      BY <3>1, <1>3
    <3> QED BY <3>1, <3>2 DEF c
  <2>3. OnlyRight /\ NextBytesRight
    <3>1. piece_begin + src' - 1 = piece_begin + src + n - 1 /\ src <= src'
      BY <1>2, <2>1
    <3> QED BY <1>2, <2>1, <2>2, <3>1 DEF OnlyRight, NextBytesRight
  <2>4. ASSUME NEW c \in Cells(piece), c < src'
        PROVE  Stream'[StreamOffset(piece, c)] = RightStream[StreamOffset(piece, c)]
    <3> DEFINE o == StreamOffset(piece, c)
    <3>1. o \in StreamOffsets /\ o = piece_begin + c /\ c \in Nat
      BY <1>3
    <3>2. CASE c < src
      BY <3>1, <3>2, <2>3, <1>1 DEF OnlyRight
    <3>3. CASE ~ (c < src)
      <4>1. o \in piece_begin + src .. piece_begin + src + n - 1
        BY <3>1, <3>3, <2>1, <2>4, <1>2
      <4> HIDE DEF o
      <4>2. Stream'[o] = RightStream[o]
        BY <4>1, <3>1, <2>1, <2>2
      <4> QED BY <4>2 DEF o
    <3> QED BY <3>2, <3>3
  <2> QED BY <2>1, <2>3, <2>4
<1>7. ~ S!Reserve /\ ~ S!Start
  BY DEF S!Reserve, S!Start
<1> QED BY <1>4, <1>5, <1>6, <1>7 DEF S!Next

-----------------------------------------------------------------------------

(* Nothing is hashed or written at first. *)
LEMMA Init_Inv == Init => FlushInv
<1> SUFFICES ASSUME Init PROVE FlushInv
  OBVIOUS
<1>1. ShaInv /\ LayoutInv
  BY ShaInit_Inv, LayoutInit_Inv DEF Init
<1>2. CallInv /\ WriteInv /\ CompleteIsRight
  BY DEF Init, ShaInit, LayoutInit, CallInv, WriteInv, CompleteIsRight
<1> QED BY <1>1, <1>2 DEF FlushInv

(* Right pieces stay right while only right bytes are written. *)
LEMMA StaysRight ==
  ASSUME CompleteIsRight, OnlyRight, status' = status
  PROVE  CompleteIsRight'
<1> SUFFICES ASSUME NEW i \in PieceIndex, status[i] = "Complete",
                    NEW c \in Cells(i)
             PROVE  Stream'[StreamOffset(i, c)] = RightStream[StreamOffset(i, c)]
  BY DEF CompleteIsRight
<1>1. Stream[StreamOffset(i, c)] = RightStream[StreamOffset(i, c)]
  BY DEF CompleteIsRight
<1>2. StreamOffset(i, c) \in StreamOffsets
  BY RightAt
<1> QED BY <1>1, <1>2 DEF OnlyRight

(* allocate_files runs before any piece is verified. *)
LEMMA Allocate_Inv ==
  ASSUME FlushInv, Allocate
  PROVE  FlushInv' /\ at = "allocate" /\ doing = "nothing"
<1>1. /\ LayoutStep /\ at = "allocate" /\ at' \in {"allocate", "refused", "ready"}
      /\ UNCHANGED <<shaVars, flushVars>>
  BY DEF Allocate, LayoutStep, AllocateFile, CannotAllocate, AllAllocated
<1>2. UNCHANGED <<status, piece, buffer, doing, message>>
  BY <1>1 DEF flushVars, shaVars
<1>3. ShaInv'
  BY <1>1 DEF FlushInv, shaVars, ShaInv, ContextInv, PhaseInv, Sha1TypeOK,
              Taken, Multiple
<1>4. LayoutInv'
  BY <1>1, LayoutStep_Inv DEF FlushInv
<1>5. doing = "nothing"
  <2>1. CASE doing = "write"
    <3>1. StreamStatus = "new"
      BY <1>1, StatusOf DEF FlushInv, LayoutInv
    <3> QED BY <2>1, <3>1 DEF FlushInv, WriteInv
  <2> QED BY <2>1, <1>1 DEF FlushInv, CallInv
<1>6. CallInv'
  BY <1>1, <1>2, <1>5 DEF FlushInv, CallInv
<1>7. WriteInv' /\ CompleteIsRight'
  BY <1>1, <1>2, <1>5 DEF FlushInv, CallInv, WriteInv, CompleteIsRight
<1> QED BY <1>1, <1>3, <1>4, <1>5, <1>6, <1>7 DEF FlushInv

(* While the files stand still, so does everything said about them. *)
LEMMA LayoutStill ==
  ASSUME FlushInv, UNCHANGED layoutVars
  PROVE  LayoutInv' /\ Stream' = Stream /\ StreamStatus' = StreamStatus
BY DEF FlushInv, layoutVars, LayoutInv, LayoutTypeOK, piece_end, Reached, Bound,
   Overlaps, BeforePiece, PastPiece, overlap_end, FilePosition,
   file_begin, file_end, Stream, StreamStatus

(* A block that is not the last changes no more than the status. *)
LEMMA MoreToCome_Inv ==
  ASSUME FlushInv, NEW i \in PieceIndex, MoreToCome(i)
  PROVE  FlushInv' /\ Stream' = Stream
<1>0. PICK s \in {status[i], "Pending"} : status' = [status EXCEPT ![i] = s]
  BY DEF MoreToCome, BlockStored
<1>1. /\ at = "ready" /\ doing = "nothing" /\ status[i] # "Complete"
      /\ UNCHANGED <<piece, buffer, doing, message>>
      /\ UNCHANGED shaVars /\ UNCHANGED layoutVars
  BY DEF MoreToCome, BlockStored, shaVars
<1>2. ShaInv'
  BY <1>1 DEF FlushInv, shaVars, ShaInv, ContextInv, PhaseInv, Sha1TypeOK,
              Taken, Multiple
<1>3. at' = "ready" /\ Stream' = Stream /\ LayoutInv'
  BY <1>1, LayoutStill DEF layoutVars
<1>4. CallInv' /\ WriteInv' /\ CompleteIsRight'
  BY <1>0, <1>1, <1>3 DEF FlushInv, CallInv, WriteInv, CompleteIsRight
<1> QED BY <1>2, <1>3, <1>4 DEF FlushInv

(* The hash is given the piece's buffer, and nothing else. *)
LEMMA AllBlocksReceived_Inv ==
  ASSUME FlushInv, NEW i \in PieceIndex, NEW d \in PieceData[i],
         AllBlocksReceived(i, d)
  PROVE  FlushInv'
<1>0. PICK s \in {status[i], "Pending"} : status' = [status EXCEPT ![i] = s]
  BY DEF AllBlocksReceived, BlockStored
<1>1. /\ at = "ready" /\ doing = "nothing" /\ status[i] # "Complete"
      /\ Update(d)
      /\ piece' = i /\ buffer' = d /\ doing' = "hash" /\ UNCHANGED layoutVars
  BY DEF AllBlocksReceived, BlockStored
<1>2. d \in Seq(Byte)
  BY PieceDataAssumption DEF Byte
<1>3. message' = d
  <2>1. message = <<>> /\ message' = message \o d
    BY <1>1 DEF FlushInv, CallInv, Update
  <2> QED BY <2>1, <1>2, ConcatEmptySeq
<1>4. ShaInv'
  BY <1>1, <1>2, Update_Inv DEF FlushInv
<1>5. at' = "ready" /\ Stream' = Stream /\ LayoutInv'
  BY <1>1, LayoutStill DEF layoutVars
<1>6. CallInv' /\ WriteInv'
  BY <1>0, <1>1, <1>3, <1>5 DEF FlushInv, CallInv, WriteInv
<1>7. CompleteIsRight'
  BY <1>0, <1>1, <1>5 DEF FlushInv, CallInv, CompleteIsRight
<1> QED BY <1>4, <1>5, <1>6, <1>7 DEF FlushInv

(* The files stand still while the hash runs. *)
LEMMA Hash_Inv ==
  ASSUME FlushInv, Hash
  PROVE  FlushInv'
<1>1. /\ doing = "hash" /\ HashStep /\ message' = message
      /\ UNCHANGED layoutVars /\ UNCHANGED <<status, piece, buffer, doing>>
  BY DEF Hash, HashStep, UpdateStep, FillBuffer, CompressFull, SaveTail,
         Finalize, PadZero, AppendLength, flushVars
<1>2. ShaInv'
  BY <1>1, HashStep_Inv DEF FlushInv
<1>3. at' = at /\ Stream' = Stream /\ LayoutInv'
  BY <1>1, LayoutStill DEF layoutVars
<1>4. CallInv' /\ WriteInv' /\ CompleteIsRight'
  BY <1>1, <1>3 DEF FlushInv, CallInv, WriteInv, CompleteIsRight
<1> QED BY <1>2, <1>3, <1>4 DEF FlushInv

(* A piece that is turned down changes no file. *)
LEMMA Mismatch_Inv ==
  ASSUME FlushInv, Mismatch
  PROVE  FlushInv'
<1>1. /\ doing = "hash" /\ doing' = "nothing"
      /\ status' = [status EXCEPT ![piece] = "HashFail"]
      /\ reset /\ message' = <<>> /\ UNCHANGED layoutVars /\ piece' = piece
  BY DEF Mismatch, reset
<1>2. ShaInv'
  BY <1>1, reset_Inv
<1>3. at' = at /\ at = "ready" /\ Stream' = Stream /\ LayoutInv'
      /\ piece \in PieceIndex
  BY <1>1, LayoutStill DEF layoutVars, FlushInv, CallInv
<1>4. CallInv' /\ WriteInv' /\ CompleteIsRight'
  BY <1>1, <1>3 DEF FlushInv, CallInv, WriteInv, CompleteIsRight
<1> QED BY <1>2, <1>3, <1>4 DEF FlushInv

(* The digest speaks for the buffer: what is written is right. *)
LEMMA Match_Inv ==
  ASSUME FlushInv, Match
  PROVE  FlushInv' /\ Stream' = Stream /\ buffer = Right[piece]
<1>1. /\ doing = "hash" /\ DigestReady /\ compressed = Padded(Right[piece])
      /\ write_piece(piece, buffer) /\ doing' = "write"
      /\ reset /\ message' = <<>> /\ UNCHANGED <<status, piece, buffer>>
  BY DEF Match, reset, DigestsEqual
<1>2. /\ piece \in PieceIndex /\ buffer \in PieceData[piece] /\ message = buffer
      /\ at = "ready"
  BY <1>1 DEF FlushInv, CallInv
<1>3. /\ buffer \in Seq(Byte) /\ Right[piece] \in Seq(Byte)
      /\ Len(buffer) = Len(Right[piece])
  BY <1>2, PieceDataAssumption, RightAssumption DEF Byte
<1>4. compressed = Padded(message)
  BY <1>1, ShaInv_Digest DEF FlushInv, DigestOfPadded
<1>5. buffer = Right[piece]
  BY <1>1, <1>2, <1>3, <1>4, PaddedInjective
<1>6. ShaInv' /\ LayoutInv'
  BY <1>1, <1>2, reset_Inv, write_piece_Inv DEF FlushInv
<1>7. /\ at' = "file" /\ data' = Right[piece]
      /\ piece_begin' = piece * PieceLength /\ src' = 0 /\ Stream' = Stream
  BY <1>1, <1>5 DEF write_piece, Stream
<1>8. StreamStatus' = "writing"
  BY <1>6, <1>7, StatusOf DEF LayoutInv
<1>9. CallInv' /\ CompleteIsRight'
  BY <1>1, <1>7 DEF FlushInv, CallInv, CompleteIsRight
<1>10. WriteInv'
  <2>1. \A c \in Cells(piece) : ~ (c < 0)
    BY DEF Cells
  <2> QED BY <1>1, <1>2, <1>7, <1>8, <2>1 DEF WriteInv
<1> QED BY <1>5, <1>6, <1>7, <1>9, <1>10 DEF FlushInv

(* write_piece puts the next bytes of the piece, right ones. *)
LEMMA Write_Inv ==
  ASSUME FlushInv, Write
  PROVE  FlushInv' /\ OnlyRight /\ NextBytesRight
<1>1. /\ doing = "write" /\ at \in {"file", "write"} /\ LayoutStep
      /\ UNCHANGED <<status, piece, buffer, doing, message>>
      /\ UNCHANGED shaVars
  BY DEF Write, flushVars, shaVars
<1>2. StreamStatus = "writing"
  BY <1>1, StatusOf DEF FlushInv, LayoutInv
<1>3. /\ OnlyRight /\ NextBytesRight
      /\ UNCHANGED <<piece_begin, data>>
      /\ StreamStatus' \in {"writing", "written", "failed"}
      /\ \A c \in Cells(piece) :
           c < src' => Stream'[StreamOffset(piece, c)]
                         = RightStream[StreamOffset(piece, c)]
      /\ StreamStatus' = "written" => src' = Len(data)
      /\ StreamStatus' = "failed" => src' < Len(data)
  BY <1>1, <1>2, WriteStep
<1>4. LayoutInv'
  BY <1>1, LayoutStep_Inv DEF FlushInv
<1>5. ShaInv'
  BY <1>1 DEF FlushInv, shaVars, ShaInv, ContextInv, PhaseInv, Sha1TypeOK,
              Taken, Multiple
<1>6. at' \notin {"allocate", "refused"}
  <2>1. at' \in {"allocate", "refused"} => StreamStatus' = "new"
    BY <1>4, StatusOf DEF LayoutInv
  <2> QED BY <2>1, <1>3
<1>7. CallInv'
  BY <1>1, <1>6 DEF FlushInv, CallInv
<1>8. WriteInv'
  BY <1>1, <1>3 DEF FlushInv, WriteInv
<1>9. CompleteIsRight'
  BY <1>1, <1>3, StaysRight DEF FlushInv
<1> QED BY <1>3, <1>4, <1>5, <1>7, <1>8, <1>9 DEF FlushInv

(* Complete is said of a piece whose last byte has been written. *)
LEMMA Written_Inv ==
  ASSUME FlushInv, Written
  PROVE  FlushInv' /\ Stream' = Stream
<1>1. /\ doing = "write" /\ at = "ready" /\ doing' = "nothing"
      /\ status' = [status EXCEPT ![piece] =
           IF result = "written" THEN "Complete" ELSE status[piece]]
      /\ UNCHANGED shaVars /\ UNCHANGED layoutVars /\ message' = message
  BY DEF Written, StatusAfterWrite, shaVars
<1>2. LayoutInv' /\ Stream' = Stream /\ at' = "ready"
  BY <1>1, LayoutStill DEF layoutVars
<1>3. ShaInv'
  BY <1>1 DEF FlushInv, shaVars, ShaInv, ContextInv, PhaseInv, Sha1TypeOK,
              Taken, Multiple
<1>4. piece \in PieceIndex /\ status \in [PieceIndex -> {"Missing", "Pending", "HashFail", "Complete"}]
  BY <1>1 DEF FlushInv, WriteInv, CallInv
<1>5. CallInv' /\ WriteInv'
  BY <1>1, <1>2, <1>4 DEF FlushInv, CallInv, WriteInv
<1>6. CompleteIsRight'
  <2> SUFFICES ASSUME NEW i \in PieceIndex, status'[i] = "Complete",
                      NEW c \in Cells(i)
               PROVE  Stream[StreamOffset(i, c)] = RightStream[StreamOffset(i, c)]
    BY <1>2 DEF CompleteIsRight
  <2>1. CASE status[i] = "Complete"
    BY <2>1 DEF FlushInv, CompleteIsRight
  <2>2. CASE status[i] # "Complete"
    <3>1. i = piece /\ result = "written"
      BY <2>2, <1>1, <1>4
    <3>2. StreamStatus = "written"
      BY <3>1, <1>1, StatusOf DEF FlushInv, LayoutInv
    <3>3. src = Len(data) /\ Len(data) = piece_size(piece)
      BY <3>2, <1>1, <1>4, RightAssumption DEF FlushInv, WriteInv
    <3>4. c < src
      BY <3>1, <3>3, <1>4, PieceGeometry DEF Cells
    <3> QED BY <3>1, <3>4, <1>1 DEF FlushInv, WriteInv
  <2> QED BY <2>1, <2>2
<1> QED BY <1>2, <1>3, <1>5, <1>6 DEF FlushInv

(* Every step keeps the invariant and, once the files are allocated, writes *)
(* right bytes only.                                                       *)
LEMMA Next_Inv ==
  ASSUME FlushInv, [Next]_vars
  PROVE  FlushInv' /\ (at # "allocate" => OnlyRight)
<1>1. Stream' = Stream => OnlyRight
  BY DEF OnlyRight
<1>2. CASE UNCHANGED vars
  <2>1. UNCHANGED shaVars /\ UNCHANGED layoutVars
        /\ UNCHANGED <<status, piece, buffer, doing, message>>
    BY <1>2 DEF vars, flushVars, shaVars
  <2>2. ShaInv'
    BY <2>1 DEF FlushInv, shaVars, ShaInv, ContextInv, PhaseInv, Sha1TypeOK,
                Taken, Multiple
  <2>3. LayoutInv' /\ Stream' = Stream /\ StreamStatus' = StreamStatus
        /\ UNCHANGED <<at, data, piece_begin, src>>
    BY <2>1, LayoutStill DEF layoutVars
  <2>4. CallInv' /\ WriteInv' /\ CompleteIsRight'
    BY <2>1, <2>3 DEF FlushInv, CallInv, WriteInv, CompleteIsRight
  <2> QED BY <1>1, <2>2, <2>3, <2>4 DEF FlushInv
<1>3. CASE Allocate
  BY <1>3, Allocate_Inv
<1>4. ASSUME NEW i \in PieceIndex, NEW d \in PieceData[i], AllBlocksReceived(i, d)
      PROVE  FlushInv' /\ OnlyRight
  <2>1. Stream' = Stream
    BY <1>4, LayoutStill DEF AllBlocksReceived
  <2> QED BY <2>1, <1>1, <1>4, AllBlocksReceived_Inv
<1>5. CASE Hash \/ Mismatch
  <2>1. Stream' = Stream
    BY <1>5, LayoutStill DEF Hash, Mismatch
  <2> QED BY <2>1, <1>1, <1>5, Hash_Inv, Mismatch_Inv
<1>6. CASE Match \/ Written
  BY <1>6, <1>1, Match_Inv, Written_Inv
<1>7. CASE Write
  BY <1>7, Write_Inv
<1>8. ASSUME NEW i \in PieceIndex, MoreToCome(i)
      PROVE  FlushInv' /\ OnlyRight
  BY <1>1, <1>8, MoreToCome_Inv
<1> QED BY <1>2, <1>3, <1>4, <1>5, <1>6, <1>7, <1>8 DEF Next

(* The invariant holds in every state of every behaviour. *)
LEMMA FlushInvariant == Spec => []FlushInv
<1>1. FlushInv /\ [Next]_vars => FlushInv'
  BY Next_Inv
<1> QED BY <1>1, Init_Inv, PTL DEF Spec

(* A piece is called Complete only when all its bytes are right and in      *)
(* their places, whatever the files, the bytes received and the failures of *)
(* write, and whatever is written to other pieces later                    *)
(* (verify_and_flush).                                                     *)
THEOREM CompleteOnDisk == Spec => []CompleteIsRight
<1>1. FlushInv => CompleteIsRight
  BY DEF FlushInv
<1> QED BY <1>1, FlushInvariant, PTL

(* After allocate_files a byte on disk changes only into the right one. *)
THEOREM WritesAreRight == Spec => OnlyRightBytesWritten
<1>1. FlushInv /\ [Next]_vars =>
        [at # "allocate" =>
           \A o \in StreamOffsets : Stream'[o] \in {Stream[o], RightStream[o]}]_vars
  BY Next_Inv DEF OnlyRight
<1> QED BY <1>1, FlushInvariant, PTL DEF Spec, OnlyRightBytesWritten

(* verify_and_flush uses the hash and the files as the modules about them   *)
(* say they may be used, so that their theorems hold of it: its digests     *)
(* are those of the padded buffers and its writes those of StreamWrite.    *)
THEOREM Composition == Spec => ShaSpec /\ LayoutSpec
<1>1. Init => ShaInit /\ LayoutInit
  BY DEF Init
<1>2. FlushInv /\ [Next]_vars => [ShaNext]_shaVars /\ [LayoutNext]_layoutVars
  <2> SUFFICES ASSUME FlushInv, [Next]_vars
               PROVE  [ShaNext]_shaVars /\ [LayoutNext]_layoutVars
    OBVIOUS
  <2>1. CASE Allocate \/ Write
    BY <2>1 DEF Allocate, Write, LayoutNext, LayoutStep
  <2>2. CASE \E i \in PieceIndex : \E d \in PieceData[i] : AllBlocksReceived(i, d)
    <3>1. PICK i \in PieceIndex : \E d \in PieceData[i] : AllBlocksReceived(i, d)
      BY <2>2
    <3>2. PICK d \in PieceData[i] : AllBlocksReceived(i, d)
      BY <3>1
    <3>3. d \in Seq(Byte) /\ Update(d) /\ UNCHANGED layoutVars
      BY <3>1, <3>2, PieceDataAssumption DEF AllBlocksReceived, Byte
    <3> QED BY <3>3 DEF ShaNext
  <2>3. CASE Hash \/ Mismatch
    BY <2>3 DEF Hash, Mismatch, ShaNext
  <2>4. CASE Match
    <3>1. /\ piece \in PieceIndex /\ buffer \in PieceData[piece]
          /\ write_piece(piece, buffer) /\ reset
      BY <2>4 DEF Match, FlushInv, CallInv
    <3> QED BY <3>1 DEF ShaNext, LayoutNext
  <2>5. CASE Written \/ UNCHANGED vars \/ \E i \in PieceIndex : MoreToCome(i)
    BY <2>5 DEF Written, vars, MoreToCome
  <2> QED BY <2>1, <2>2, <2>3, <2>4, <2>5 DEF Next
<1> QED BY <1>1, <1>2, FlushInvariant, PTL DEF Spec, ShaSpec, LayoutSpec

-----------------------------------------------------------------------------
(* receive_block: what PieceManager sees of it *)

(* The two modules cut the stream in the same way. *)
LEMMA SameGeometry ==
  /\ PM!PieceIndex = PieceIndex
  /\ PM!StreamOffsets = StreamOffsets
  /\ \A i : /\ PM!piece_size(i) = piece_size(i)
            /\ PM!num_blocks_in_piece(i) = num_blocks_in_piece(i)
            /\ PM!Cells(i) = Cells(i)
            /\ PM!Blocks(i) = Blocks(i)
  /\ \A i, c : PM!StreamOffset(i, c) = StreamOffset(i, c)
BY DEF PM!PieceIndex, PM!num_pieces, PM!StreamOffsets, PM!piece_size,
       PM!num_blocks_in_piece, PM!Cells, PM!Blocks, PM!StreamOffset,
       PieceIndex, num_pieces, StreamOffsets, piece_size, num_blocks_in_piece,
       Cells, Blocks, StreamOffset

(* The offsets of a buffer's right bytes. *)
RightCells(i, d) == {c \in Cells(i) : d[c + 1] = Right[i][c + 1]}

(* A block's copy brings its own right bytes and keeps the others. *)
LEMMA CopiedCells ==
  ASSUME NEW m \in BlockMessages, m.piece_index \in PieceIndex,
         NEW d \in PieceData[m.piece_index], m.begin + Len(m.data) <= Len(d)
  PROVE  /\ Copied(m, d) \in PieceData[m.piece_index]
         /\ RightCells(m.piece_index, Copied(m, d)) =
              (RightCells(m.piece_index, d) \ (m.begin .. m.begin + Len(m.data) - 1))
                \cup Seen(m).right
<1> DEFINE i == m.piece_index
           e == m.begin + Len(m.data)
<1>1. /\ m.begin \in Nat /\ m.data \in Seq(Byte) /\ Len(m.data) \in Nat
      /\ i \in PieceIndex
  BY BlockMessagesAssumption
<1>2. d \in Seq(Byte) /\ Len(d) = piece_size(i) /\ DOMAIN d = 1 .. piece_size(i)
  BY PieceDataAssumption DEF Byte
<1>3. piece_size(i) \in Nat
  BY <1>1, PieceGeometry
<1>4. Copied(m, d) \in PieceData[i]
  BY <1>1, BuffersAssumption
<1>5. \A c \in Cells(i) : /\ c \in Nat
                          /\ Copied(m, d)[c + 1] = IF m.begin <= c /\ c < e
                                 THEN m.data[c - m.begin + 1] ELSE d[c + 1]
  <2> SUFFICES ASSUME NEW c \in Cells(i)
               PROVE  /\ c \in Nat
                      /\ Copied(m, d)[c + 1] = IF m.begin <= c /\ c < e
                                 THEN m.data[c - m.begin + 1] ELSE d[c + 1]
    OBVIOUS
  <2>1. c \in Nat /\ c + 1 \in DOMAIN d /\ (c + 1) - m.begin = c - m.begin + 1
        /\ (m.begin < c + 1 <=> m.begin <= c) /\ (c + 1 <= e <=> c < e)
    BY <1>1, <1>2, <1>3 DEF Cells
  <2> QED BY <2>1 DEF Copied
<1>6. Seen(m).right = {c \in m.begin .. e - 1 :
                         /\ c \in Cells(i)
                         /\ m.data[c - m.begin + 1] = Right[i][c + 1]}
  BY <1>1 DEF Seen
<1>7. RightCells(i, Copied(m, d)) =
        (RightCells(i, d) \ (m.begin .. e - 1)) \cup Seen(m).right
  <2>1. ASSUME NEW c \in Cells(i)
        PROVE  c \in m.begin .. e - 1 <=> m.begin <= c /\ c < e
    BY <1>1, <1>5
  <2>2. ASSUME NEW c \in Cells(i)
        PROVE  c \in RightCells(i, Copied(m, d)) <=>
                 c \in (RightCells(i, d) \ (m.begin .. e - 1)) \cup Seen(m).right
    <3>1. CASE m.begin <= c /\ c < e
      BY <1>5, <1>6, <2>1, <3>1 DEF RightCells
    <3>2. CASE ~ (m.begin <= c /\ c < e)
      BY <1>5, <1>6, <2>1, <3>2 DEF RightCells
    <3> QED BY <3>1, <3>2
  <2>3. /\ RightCells(i, Copied(m, d)) \subseteq Cells(i)
        /\ RightCells(i, d) \subseteq Cells(i) /\ Seen(m).right \subseteq Cells(i)
    BY <1>6 DEF RightCells
  <2> QED BY <2>2, <2>3
<1>8. m.begin + Len(m.data) - 1 = e - 1
  BY <1>1
<1> QED BY <1>4, <1>7, <1>8

(* A buffer of which every byte is right is the piece. *)
LEMMA AllRight ==
  ASSUME NEW i \in PieceIndex, NEW d \in PieceData[i]
  PROVE  RightCells(i, d) = Cells(i) <=> d = Right[i]
<1>1. /\ d \in Seq(Byte) /\ Right[i] \in Seq(Byte)
      /\ Len(d) = piece_size(i) /\ Len(Right[i]) = piece_size(i)
      /\ piece_size(i) \in Nat
  BY PieceDataAssumption, RightAssumption, PieceGeometry DEF Byte
<1>2. ASSUME RightCells(i, d) = Cells(i) PROVE d = Right[i]
  <2>1. ASSUME NEW b \in 1 .. piece_size(i) PROVE d[b] = Right[i][b]
    <3>1. b - 1 \in Cells(i) /\ (b - 1) + 1 = b
      BY <1>1 DEF Cells
    <3> QED BY <1>2, <3>1 DEF RightCells
  <2> QED BY <1>1, <2>1, SeqEqual
<1>3. d = Right[i] => RightCells(i, d) = Cells(i)
  BY DEF RightCells
<1> QED BY <1>2, <1>3

(* What the constructor and a mismatch leave in a buffer. *)
LEMMA ZeroBuffer ==
  ASSUME NEW i \in PieceIndex
  PROVE  /\ Zeros(piece_size(i)) \in PieceData[i]
         /\ RightCells(i, Zeros(piece_size(i))) = PM!ZeroCells(i)
<1>1. Zeros(piece_size(i)) \in PieceData[i] /\ piece_size(i) \in Nat
  BY BuffersAssumption, PieceGeometry
<1>2. \A c \in Cells(i) : /\ Zeros(piece_size(i))[c + 1] = 0
                          /\ StreamOffset(i, c) \in StreamOffsets
                          /\ RightStream[StreamOffset(i, c)] = Right[i][c + 1]
  <2>1. \A c \in Cells(i) : c + 1 \in 1 .. piece_size(i)
    BY <1>1 DEF Cells
  <2> QED BY <2>1, RightAt DEF Zeros
<1>3. PM!ZeroCells(i) = {c \in Cells(i) : RightStream[StreamOffset(i, c)] = 0}
  BY <1>2, SameGeometry DEF PM!ZeroCells
<1> QED BY <1>1, <1>2, <1>3 DEF RightCells

-----------------------------------------------------------------------------
(* The invariant of receive_block *)

Good == [i \in PieceIndex |-> GoodCells(i)]
Disk == [i \in PieceIndex |-> OnDisk(i)]

(* A buffer is as long as its piece until the piece is Complete. *)
BufferInv ==
  /\ received \in [PieceIndex -> SUBSET Nat]
  /\ blocks_done \in [PieceIndex -> Int]
  /\ buffers \in [PieceIndex -> Seq(Byte)]
  /\ done_count \in Int
  /\ \A i \in PieceIndex : /\ status[i] = "Complete" => buffers[i] = <<>>
                           /\ status[i] # "Complete" => buffers[i] \in PieceData[i]

(* Nothing has happened to a piece before the constructor returns. *)
Fresh ==
  /\ status      = [i \in PieceIndex |-> "Missing"]
  /\ received    = [i \in PieceIndex |-> {}]
  /\ blocks_done = [i \in PieceIndex |-> 0]
  /\ buffers     = [i \in PieceIndex |-> Zeros(piece_size(i))]
  /\ done_count  = 0

(* Between its first and its last step a call has done to the state that    *)
(* was released before it what PieceManager says of the block, and to the   *)
(* files what the bytes written so far explain.                            *)
InCall ==
  LET m == Seen(call) IN
  /\ call \in BlockMessages /\ piece = m.piece_index /\ piece \in PieceIndex
  /\ buffer = buffers[piece] /\ status[piece] # "Complete"
  /\ released.status \in [PieceIndex -> {"Missing", "Pending", "HashFail", "Complete"}]
  /\ released.received \in [PieceIndex -> SUBSET Nat]
  /\ released.blocks_done \in [PieceIndex -> Int]
  /\ released.good \in [PieceIndex -> SUBSET Nat]
  /\ released.disk \in [PieceIndex -> SUBSET Nat]
  /\ PM!Accepts(m) /\ PM!AllArrived(m)
  /\ status      = [released.status EXCEPT ![piece] = PM!StatusWith(m)]
  /\ received    = [released.received EXCEPT ![piece] = PM!ReceivedWith(m)]
  /\ blocks_done = [released.blocks_done EXCEPT ![piece] = PM!DoneWith(m)]
  /\ Good        = [released.good EXCEPT ![piece] = PM!DataWith(m)]
  /\ PM!DataWith(m) = RightCells(piece, buffer)
  /\ doing = "hash"  => Disk = released.disk
  /\ doing = "write" =>
       /\ buffer = Right[piece]
       /\ Disk = [released.disk EXCEPT ![piece] = @ \cup (0 .. src - 1)]

RBInv ==
  /\ FlushInv
  /\ BufferInv
  /\ at \in {"allocate", "refused"} => Fresh
  /\ doing = "nothing" => released = Protected
  /\ doing # "nothing" => InCall

(* What is right in the buffers of pieces that are not Complete. *)
LEMMA GoodType ==
  /\ Good \in [PieceIndex -> SUBSET Nat] /\ Disk \in [PieceIndex -> SUBSET Nat]
  /\ \A i \in PieceIndex : /\ Good[i] = GoodCells(i)
                           /\ Disk[i] = OnDisk(i)
  /\ \A i \in PieceIndex :
       /\ buffers[i] \in PieceData[i] => GoodCells(i) = RightCells(i, buffers[i])
       /\ buffers[i] = <<>> => GoodCells(i) = {}
<1>1. \A i : Cells(i) \subseteq Nat
  BY DEF Cells
<1>2. /\ Good \in [PieceIndex -> SUBSET Nat] /\ Disk \in [PieceIndex -> SUBSET Nat]
      /\ \A i \in PieceIndex : Good[i] = GoodCells(i) /\ Disk[i] = OnDisk(i)
  BY <1>1 DEF Good, Disk, GoodCells, OnDisk
<1>3. ASSUME NEW i \in PieceIndex, buffers[i] \in PieceData[i]
      PROVE  GoodCells(i) = RightCells(i, buffers[i])
  <2>1. Len(buffers[i]) = piece_size(i) /\ piece_size(i) \in Nat
    BY <1>3, PieceDataAssumption, PieceGeometry
  <2>2. \A c \in Cells(i) : c < Len(buffers[i])
    BY <2>1 DEF Cells
  <2> QED BY <2>2 DEF GoodCells, RightCells
<1>4. ASSUME NEW i \in PieceIndex, buffers[i] = <<>>
      PROVE  GoodCells(i) = {}
  <2>1. Len(buffers[i]) = 0
    BY <1>4
  <2>2. \A c \in Cells(i) : ~ (c < 0)
    BY DEF Cells
  <2> QED BY <2>1, <2>2 DEF GoodCells
<1> QED BY <1>2, <1>3, <1>4

(* The same of the next state. *)
LEMMA GoodAfter ==
  \A i \in PieceIndex :
    /\ buffers'[i] \in PieceData[i] => GoodCells(i)' = RightCells(i, buffers'[i])
    /\ buffers'[i] = <<>> => GoodCells(i)' = {}
<1>1. (\A i \in PieceIndex :
         /\ buffers[i] \in PieceData[i] => GoodCells(i) = RightCells(i, buffers[i])
         /\ buffers[i] = <<>> => GoodCells(i) = {})'
  BY GoodType, PTL
<1> QED BY <1>1

(* The fields of what a release publishes. *)
LEMMA ProtectedFields ==
  /\ Protected.status = status /\ Protected.received = received
  /\ Protected.blocks_done = blocks_done
  /\ Protected.good = Good /\ Protected.disk = Disk
BY DEF Protected, Good, Disk

(* The same of a step that releases the mutex. *)
LEMMA ReleasedAfter ==
  released' = Protected' =>
    /\ released'.status = status' /\ released'.received = received'
    /\ released'.blocks_done = blocks_done'
    /\ released'.good = Good' /\ released'.disk = Disk'
BY DEF Protected, Good, Disk

(* The early returns and what the block adds are the same in both.         *)
LEMMA SameMessage ==
  ASSUME BufferInv, released = Protected, NEW m \in BlockMessages, Accepts(m)
  PROVE  /\ m.piece_index \in PieceIndex /\ Seen(m).piece_index = m.piece_index
         /\ DataWith(m) \in PieceData[m.piece_index]
         /\ PM!Accepts(Seen(m))
         /\ PM!StatusWith(Seen(m)) =
              IF IsNew(m) THEN "Pending" ELSE status[m.piece_index]
         /\ PM!ReceivedWith(Seen(m)) = received[m.piece_index] \cup {BlockOf(m)}
         /\ PM!DoneWith(Seen(m)) = DoneWith(m)
         /\ PM!AllArrived(Seen(m)) <=> AllArrived(m)
         /\ PM!DataWith(Seen(m)) = RightCells(m.piece_index, DataWith(m))
<1> DEFINE i == m.piece_index
<1>1. /\ i \in PieceIndex /\ status[i] # "Complete"
      /\ m.begin + Len(m.data) <= Len(buffers[i]) /\ BlockOf(m) \in Blocks(i)
  BY DEF Accepts
<1>2. buffers[i] \in PieceData[i] /\ Len(buffers[i]) = piece_size(i)
  <2>1. buffers[i] \in PieceData[i]
    BY <1>1 DEF BufferInv
  <2> QED BY <1>1, <2>1, PieceDataAssumption
<1>3. /\ Seen(m).piece_index = i /\ Seen(m).begin = m.begin
      /\ Seen(m).length = Len(m.data)
  BY DEF Seen
<1>4. PM!BlockOf(Seen(m)) = BlockOf(m)
  BY <1>3 DEF PM!BlockOf, BlockOf
<1>5. PM!Accepts(Seen(m))
  BY <1>1, <1>2, <1>3, <1>4, ProtectedFields, SameGeometry
     DEF PM!Accepts, PM!BufferSize
<1>6. PM!IsNew(Seen(m)) <=> IsNew(m)
  BY <1>3, <1>4, ProtectedFields DEF PM!IsNew, IsNew
<1>7. PM!StatusWith(Seen(m)) = IF IsNew(m) THEN "Pending" ELSE status[i]
  BY <1>3, <1>6, ProtectedFields DEF PM!StatusWith
<1>8. PM!ReceivedWith(Seen(m)) = received[i] \cup {BlockOf(m)}
  BY <1>3, <1>4, ProtectedFields DEF PM!ReceivedWith
<1>9. PM!DoneWith(Seen(m)) = DoneWith(m)
  <2>1. blocks_done[i] \in Int
    BY <1>1 DEF BufferInv
  <2> QED BY <2>1, <1>3, <1>6, ProtectedFields DEF PM!DoneWith, DoneWith
<1>10. PM!AllArrived(Seen(m)) <=> AllArrived(m)
  BY <1>3, <1>9, SameGeometry DEF PM!AllArrived, AllArrived
<1>11. DataWith(m) \in PieceData[i]
       /\ PM!DataWith(Seen(m)) = RightCells(i, DataWith(m))
  <2>1. released.good[i] = RightCells(i, buffers[i])
    BY <1>1, <1>2, ProtectedFields, GoodType
  <2>2. PM!DataWith(Seen(m)) =
          (RightCells(i, buffers[i]) \ (m.begin .. m.begin + Len(m.data) - 1))
            \cup Seen(m).right
    BY <2>1, <1>3 DEF PM!DataWith
  <2> QED BY <2>2, <1>1, <1>2, CopiedCells DEF DataWith
<1> QED BY <1>1, <1>3, <1>5, <1>7, <1>8, <1>9, <1>10, <1>11

(* A block is stored in one buffer. *)
LEMMA StoreBlock_Inv ==
  ASSUME FlushInv, BufferInv, released = Protected,
         NEW m \in BlockMessages, Accepts(m), StoreBlock(m)
  PROVE  /\ BufferInv' /\ status'[m.piece_index] # "Complete"
         /\ buffers'[m.piece_index] = DataWith(m)
         /\ status'      = [released.status EXCEPT ![m.piece_index] =
                              PM!StatusWith(Seen(m))]
         /\ received'    = [released.received EXCEPT ![m.piece_index] =
                              PM!ReceivedWith(Seen(m))]
         /\ blocks_done' = [released.blocks_done EXCEPT ![m.piece_index] =
                              PM!DoneWith(Seen(m))]
         /\ Good'        = [released.good EXCEPT ![m.piece_index] =
                              PM!DataWith(Seen(m))]
<1> DEFINE i == m.piece_index
<1>1. /\ i \in PieceIndex /\ DataWith(m) \in PieceData[i]
      /\ PM!StatusWith(Seen(m)) = IF IsNew(m) THEN "Pending" ELSE status[i]
      /\ PM!ReceivedWith(Seen(m)) = received[i] \cup {BlockOf(m)}
      /\ PM!DoneWith(Seen(m)) = DoneWith(m)
      /\ PM!DataWith(Seen(m)) = RightCells(i, DataWith(m))
  BY SameMessage
<1>2. /\ status'      = [status EXCEPT ![i] = IF IsNew(m) THEN "Pending" ELSE @]
      /\ received'    = [received EXCEPT ![i] = @ \cup {BlockOf(m)}]
      /\ blocks_done' = [blocks_done EXCEPT ![i] = DoneWith(m)]
      /\ buffers'     = [buffers EXCEPT ![i] = DataWith(m)]
      /\ done_count'  = done_count
  BY DEF StoreBlock
<1>3. /\ status \in [PieceIndex -> {"Missing", "Pending", "HashFail", "Complete"}]
      /\ status[i] # "Complete"
      /\ received \in [PieceIndex -> SUBSET Nat]
      /\ blocks_done \in [PieceIndex -> Int]
      /\ buffers \in [PieceIndex -> Seq(Byte)]
  BY DEF FlushInv, CallInv, BufferInv, Accepts
<1>4. DataWith(m) \in Seq(Byte)
  BY <1>1, PieceDataAssumption DEF Byte
<1>5. DoneWith(m) \in Int /\ BlockOf(m) \in Nat
  <2>1. BlockOf(m) \in Blocks(i)
    BY DEF Accepts
  <2> QED BY <2>1, <1>1, <1>3 DEF DoneWith, Blocks
<1>6. /\ buffers'[i] = DataWith(m) /\ status'[i] # "Complete"
      /\ \A j \in PieceIndex : j # i => buffers'[j] = buffers[j] /\ status'[j] = status[j]
  BY <1>1, <1>2, <1>3
<1>7. BufferInv'
  <2>1. /\ received' \in [PieceIndex -> SUBSET Nat]
        /\ blocks_done' \in [PieceIndex -> Int]
        /\ buffers' \in [PieceIndex -> Seq(Byte)]
    BY <1>1, <1>2, <1>3, <1>4, <1>5
  <2> QED BY <2>1, <1>1, <1>2, <1>6 DEF BufferInv
<1>8. Good' = [released.good EXCEPT ![i] = PM!DataWith(Seen(m))]
  <2>1. /\ GoodCells(i)' = RightCells(i, DataWith(m))
        /\ \A j \in PieceIndex : j # i => GoodCells(j)' = GoodCells(j)
    BY <1>1, <1>6, GoodAfter DEF GoodCells
  <2>2. Good' = [Good EXCEPT ![i] = RightCells(i, DataWith(m))]
    BY <2>1 DEF Good
  <2> QED BY <2>2, <1>1, ProtectedFields
<1> QED BY <1>1, <1>2, <1>6, <1>7, <1>8, ProtectedFields

-----------------------------------------------------------------------------
(* Construction *)

(* A manager to which nothing has happened is one PieceManager starts with. *)
LEMMA FreshManager == Fresh /\ released = Protected => PM!PMInit
<1> SUFFICES ASSUME Fresh, released = Protected PROVE PM!PMInit
  OBVIOUS
<1>1. /\ released.status = [i \in PM!PieceIndex |-> "Missing"]
      /\ released.received = [i \in PM!PieceIndex |-> {}]
      /\ released.blocks_done = [i \in PM!PieceIndex |-> 0]
      /\ done_count = 0
  BY ProtectedFields, SameGeometry DEF Fresh
<1>2. released.good = [i \in PM!PieceIndex |-> PM!ZeroCells(i)]
  <2>1. ASSUME NEW i \in PieceIndex PROVE GoodCells(i) = PM!ZeroCells(i)
    <3>1. buffers[i] = Zeros(piece_size(i))
      BY DEF Fresh
    <3> QED BY <3>1, ZeroBuffer, GoodType
  <2>2. Good = [i \in PieceIndex |-> PM!ZeroCells(i)]
    BY <2>1 DEF Good
  <2> QED BY <2>2, ProtectedFields, SameGeometry
<1>3. \E old \in SUBSET StreamOffsets : released.disk = PM!allocate_files(old, {})
  <2> DEFINE old == {o \in StreamOffsets : Stream[o] = RightStream[o]}
  <2>1. old \in SUBSET StreamOffsets
    OBVIOUS
  <2>2. ASSUME NEW i \in PieceIndex
        PROVE  OnDisk(i) = {c \in Cells(i) : StreamOffset(i, c) \in old}
    BY RightAt DEF OnDisk
  <2> HIDE DEF old
  <2>3. PM!allocate_files(old, {}) =
          [i \in PieceIndex |-> {c \in Cells(i) : StreamOffset(i, c) \in old}]
    BY SameGeometry DEF PM!allocate_files
  <2>4. Disk = PM!allocate_files(old, {})
    BY <2>2, <2>3 DEF Disk
  <2> QED BY <2>1, <2>4, ProtectedFields
<1> QED BY <1>1, <1>2, <1>3 DEF PM!PMInit

(* The buffers of a fresh manager are zeros of the right length. *)
LEMMA FreshBuffers == Fresh => BufferInv
<1> SUFFICES ASSUME Fresh PROVE BufferInv
  OBVIOUS
<1>1. \A i \in PieceIndex : /\ Zeros(piece_size(i)) \in PieceData[i]
                            /\ Zeros(piece_size(i)) \in Seq(Byte)
  BY ZeroBuffer, PieceDataAssumption DEF Byte
<1> QED BY <1>1 DEF Fresh, BufferInv

(* Initially nothing has happened, whatever the disk holds. *)
LEMMA RBInit_Inv == RBInit => RBInv /\ PM!PMInit
<1> SUFFICES ASSUME RBInit PROVE RBInv /\ PM!PMInit
  OBVIOUS
<1>1. FlushInv /\ doing = "nothing"
  BY Init_Inv DEF RBInit, Init
<1>2. Fresh /\ released = Protected
  BY DEF RBInit, Init, Fresh
<1> QED BY <1>1, <1>2, FreshManager, FreshBuffers DEF RBInv

(* allocate_files changes the files of a manager that is not yet in use. *)
LEMMA Construct_Step ==
  ASSUME RBInv, Construct
  PROVE  RBInv' /\ PM!PMInit' /\ at = "allocate"
<1>1. /\ Allocate /\ released' = Protected'
      /\ UNCHANGED <<received, blocks_done, buffers, done_count, call>>
  BY DEF Construct
<1>2. FlushInv' /\ at = "allocate" /\ doing = "nothing"
  BY <1>1, Allocate_Inv DEF RBInv
<1>3. UNCHANGED <<status, doing>>
  BY <1>1 DEF Allocate, flushVars
<1>4. Fresh'
  BY <1>1, <1>2, <1>3 DEF RBInv, Fresh
<1>5. BufferInv' /\ PM!PMInit'
  <2>1. (Fresh => BufferInv)' /\ (Fresh /\ released = Protected => PM!PMInit)'
    BY FreshBuffers, FreshManager, PTL
  <2> QED BY <2>1, <1>1, <1>4
<1> QED BY <1>1, <1>2, <1>3, <1>4, <1>5 DEF RBInv

-----------------------------------------------------------------------------
(* The steps of a call *)

(* PieceManager's view of the call does not change before the release. *)
LEMMA SameCall ==
  ASSUME NEW m, call' = m, released' = released
  PROVE  /\ Seen(call)' = Seen(m)
         /\ PM!Accepts(Seen(call))' <=> PM!Accepts(Seen(m))
         /\ PM!AllArrived(Seen(call))' <=> PM!AllArrived(Seen(m))
         /\ PM!StatusWith(Seen(call))' = PM!StatusWith(Seen(m))
         /\ PM!ReceivedWith(Seen(call))' = PM!ReceivedWith(Seen(m))
         /\ PM!DoneWith(Seen(call))' = PM!DoneWith(Seen(m))
         /\ PM!DataWith(Seen(call))' = PM!DataWith(Seen(m))
BY DEF Seen, PM!Accepts, PM!AllArrived, PM!StatusWith, PM!ReceivedWith,
       PM!DoneWith, PM!DataWith, PM!BufferSize, PM!BlockOf, PM!IsNew

(* A block that leaves its piece incomplete. *)
LEMMA KeepBlock_Step ==
  ASSUME RBInv, NEW m \in BlockMessages, KeepBlock(m)
  PROVE  RBInv' /\ PM!KeepBlock(Seen(m)) /\ at = "ready"
<1> DEFINE i == m.piece_index
<1>1. /\ Accepts(m) /\ ~AllArrived(m) /\ MoreToCome(i) /\ StoreBlock(m)
      /\ released' = Protected'
  BY DEF KeepBlock
<1>2. /\ at = "ready" /\ doing = "nothing" /\ UNCHANGED <<at, doing>>
  BY <1>1 DEF MoreToCome, BlockStored, layoutVars
<1>3. FlushInv /\ BufferInv /\ released = Protected
  BY <1>2 DEF RBInv
<1>4. FlushInv' /\ Stream' = Stream
  <2>1. i \in PieceIndex
    BY <1>1 DEF Accepts
  <2> QED BY <2>1, <1>1, <1>3, MoreToCome_Inv
<1>5. /\ BufferInv'
      /\ status'      = [released.status EXCEPT ![i] = PM!StatusWith(Seen(m))]
      /\ received'    = [released.received EXCEPT ![i] = PM!ReceivedWith(Seen(m))]
      /\ blocks_done' = [released.blocks_done EXCEPT ![i] = PM!DoneWith(Seen(m))]
      /\ Good'        = [released.good EXCEPT ![i] = PM!DataWith(Seen(m))]
      /\ done_count'  = done_count
  BY <1>1, <1>3, StoreBlock_Inv DEF StoreBlock
<1>6. Disk' = Disk
  BY <1>4 DEF Disk, OnDisk
<1>7. /\ released'.status = status' /\ released'.received = received'
      /\ released'.blocks_done = blocks_done'
      /\ released'.good = Good' /\ released'.disk = Disk'
  BY <1>1, ReleasedAfter
<1>8. /\ PM!Accepts(Seen(m)) /\ ~PM!AllArrived(Seen(m))
      /\ Seen(m).piece_index = i /\ released.disk = Disk
  BY <1>1, <1>3, SameMessage, ProtectedFields
<1>9. PM!KeepBlock(Seen(m))
  BY <1>5, <1>6, <1>7, <1>8 DEF PM!KeepBlock
<1>10. RBInv'
  BY <1>1, <1>2, <1>4, <1>5 DEF RBInv
<1> QED BY <1>2, <1>9, <1>10

(* The last block: nothing is released yet. *)
LEMMA LastBlock_Step ==
  ASSUME RBInv, NEW m \in BlockMessages, LastBlock(m)
  PROVE  RBInv' /\ UNCHANGED PM!pmVars /\ at = "ready"
<1> DEFINE i == m.piece_index
<1>1. /\ Accepts(m) /\ AllArrived(m) /\ AllBlocksReceived(i, DataWith(m))
      /\ StoreBlock(m) /\ call' = m /\ released' = released
  BY DEF LastBlock
<1>2. /\ at = "ready" /\ doing = "nothing" /\ doing' = "hash"
      /\ piece' = i /\ buffer' = DataWith(m) /\ UNCHANGED layoutVars /\ at' = at
  BY <1>1 DEF AllBlocksReceived, BlockStored, layoutVars
<1>3. FlushInv /\ BufferInv /\ released = Protected
  BY <1>2 DEF RBInv
<1>4. /\ i \in PieceIndex /\ Seen(m).piece_index = i
      /\ DataWith(m) \in PieceData[i]
      /\ PM!Accepts(Seen(m)) /\ PM!AllArrived(Seen(m))
      /\ PM!DataWith(Seen(m)) = RightCells(i, DataWith(m))
  BY <1>1, <1>3, SameMessage
<1>5. FlushInv'
  BY <1>1, <1>3, <1>4, AllBlocksReceived_Inv
<1>6. /\ BufferInv' /\ status'[i] # "Complete" /\ buffers'[i] = DataWith(m)
      /\ status'      = [released.status EXCEPT ![i] = PM!StatusWith(Seen(m))]
      /\ received'    = [released.received EXCEPT ![i] = PM!ReceivedWith(Seen(m))]
      /\ blocks_done' = [released.blocks_done EXCEPT ![i] = PM!DoneWith(Seen(m))]
      /\ Good'        = [released.good EXCEPT ![i] = PM!DataWith(Seen(m))]
      /\ done_count'  = done_count
  BY <1>1, <1>3, StoreBlock_Inv DEF StoreBlock
<1>7. Disk' = released.disk
  <2>1. Stream' = Stream
    BY <1>2 DEF layoutVars, Stream
  <2> QED BY <2>1, <1>3, ProtectedFields DEF Disk, OnDisk
<1>8. /\ released.status \in [PieceIndex -> {"Missing", "Pending", "HashFail", "Complete"}]
      /\ released.received \in [PieceIndex -> SUBSET Nat]
      /\ released.blocks_done \in [PieceIndex -> Int]
      /\ released.good \in [PieceIndex -> SUBSET Nat]
      /\ released.disk \in [PieceIndex -> SUBSET Nat]
  BY <1>3, ProtectedFields, GoodType DEF FlushInv, CallInv, BufferInv
<1>9. InCall'
  <2>1. /\ Seen(call)' = Seen(m)
        /\ PM!Accepts(Seen(call))' <=> PM!Accepts(Seen(m))
        /\ PM!AllArrived(Seen(call))' <=> PM!AllArrived(Seen(m))
        /\ PM!StatusWith(Seen(call))' = PM!StatusWith(Seen(m))
        /\ PM!ReceivedWith(Seen(call))' = PM!ReceivedWith(Seen(m))
        /\ PM!DoneWith(Seen(call))' = PM!DoneWith(Seen(m))
        /\ PM!DataWith(Seen(call))' = PM!DataWith(Seen(m))
    BY <1>1, SameCall
  <2> QED BY <2>1, <1>1, <1>2, <1>4, <1>6, <1>7, <1>8 DEF InCall
<1>10. RBInv'
  BY <1>2, <1>5, <1>6, <1>9 DEF RBInv
<1> QED BY <1>1, <1>2, <1>6, <1>10 DEF PM!pmVars

(* Ranges of bytes, in the stream and in the piece. *)
LEMMA Ranges ==
  ASSUME NEW b \in Nat, NEW s \in Nat, NEW t \in Nat, NEW size \in Nat,
         s <= t, t <= size
  PROVE  /\ \A k \in Int : b + k \in b + s .. b + t - 1 <=> k \in s .. t - 1
         /\ s .. t - 1 \subseteq 0 .. size - 1
         /\ (0 .. s - 1) \cup (s .. t - 1) = 0 .. t - 1
OBVIOUS

(* What write_piece adds to the disk: the next bytes of its piece.         *)
LEMMA NextBytesOnDisk ==
  ASSUME FlushInv, doing = "write", NextBytesRight
  PROVE  Disk' = [Disk EXCEPT ![piece] = @ \cup (src .. src' - 1)]
<1>1. /\ piece \in PieceIndex /\ piece \in Nat
      /\ data = Right[piece] /\ piece_begin = piece * PieceLength
      /\ Len(data) = piece_size(piece)
  BY RightAssumption DEF FlushInv, WriteInv, PieceIndex
<1> DEFINE reached == src'
<1>2. /\ src \in Nat /\ reached \in Nat
      /\ src <= reached /\ reached <= piece_size(piece)
      /\ piece_size(piece) \in Nat /\ piece_begin \in Nat
  BY <1>1, PieceGeometry DEF NextBytesRight, FlushInv, LayoutInv, LayoutTypeOK
<1>0. \A o \in StreamOffsets :
        Stream'[o] = IF o \in piece_begin + src .. piece_begin + reached - 1
                       THEN RightStream[o] ELSE Stream[o]
  BY DEF NextBytesRight
<1> HIDE DEF reached
<1>3. ASSUME NEW j \in PieceIndex, NEW c \in Cells(j)
      PROVE  /\ StreamOffset(j, c) \in StreamOffsets
             /\ StreamOffset(j, c) \in piece_begin + src .. piece_begin + reached - 1
                  <=> j = piece /\ c \in src .. reached - 1
  <2> DEFINE o == StreamOffset(j, c)
  <2>1. o \in StreamOffsets /\ o \in Int /\ c \in Nat
    BY PiecesPartitionStream DEF StreamOffsets, Cells
  <2>2. ASSUME j = piece, c \in src .. reached - 1
        PROVE  o \in piece_begin + src .. piece_begin + reached - 1
    <3>1. o = piece_begin + c
      BY <2>2, <1>1 DEF StreamOffset
    <3>2. piece_begin + c \in piece_begin + src .. piece_begin + reached - 1
      BY <2>1, <2>2, <1>2, Ranges
    <3> QED BY <3>1, <3>2
  <2>3. ASSUME o \in piece_begin + src .. piece_begin + reached - 1
        PROVE  j = piece /\ c \in src .. reached - 1
    <3> DEFINE k == o - piece_begin
    <3>1. k \in src .. reached - 1 /\ k \in Cells(piece) /\ piece_begin + k = o
      <4> HIDE DEF o
      <4>1. k \in Int /\ piece_begin + k = o
        BY <2>1, <1>2
      <4> HIDE DEF k
      <4>2. k \in src .. reached - 1 /\ src .. reached - 1 \subseteq 0 .. piece_size(piece) - 1
        BY <4>1, <2>3, <1>2, Ranges
      <4> QED BY <4>1, <4>2 DEF Cells
    <3> HIDE DEF k
    <3>2. StreamOffset(piece, k) = StreamOffset(j, c)
      BY <3>1, <1>1 DEF StreamOffset
    <3>3. j = piece /\ c = k
      BY <1>1, <3>1, <3>2, PiecesPartitionStream
    <3> QED BY <3>1, <3>3
  <2> QED BY <2>1, <2>2, <2>3
<1>4. ASSUME NEW j \in PieceIndex
      PROVE  OnDisk(j)' = IF j = piece THEN OnDisk(j) \cup (src .. reached - 1)
                                       ELSE OnDisk(j)
  <2>1. ASSUME NEW c \in Cells(j)
        PROVE  c \in OnDisk(j)' <=>
                 c \in OnDisk(j) \/ (j = piece /\ c \in src .. reached - 1)
    <3>1. Stream'[StreamOffset(j, c)] =
            IF j = piece /\ c \in src .. reached - 1
              THEN RightStream[StreamOffset(j, c)] ELSE Stream[StreamOffset(j, c)]
      BY <1>0, <1>3
    <3> QED BY <3>1 DEF OnDisk
  <2>2. OnDisk(j)' \subseteq Cells(j) /\ OnDisk(j) \subseteq Cells(j)
    BY DEF OnDisk
  <2>3. src .. reached - 1 \subseteq Cells(piece)
    BY <1>2, Ranges DEF Cells
  <2> QED BY <2>1, <2>2, <2>3
<1> QED BY <1>1, <1>4 DEF Disk, reached

(* While a call hashes and writes, only the files change. *)
LEMMA Verify_Step ==
  ASSUME RBInv, Verify
  PROVE  RBInv' /\ UNCHANGED PM!pmVars /\ at # "allocate"
<1>1. /\ Hash \/ Match \/ Write
      /\ UNCHANGED <<received, blocks_done, buffers, done_count, call, released>>
  BY DEF Verify
<1>2. /\ doing \in {"hash", "write"} /\ doing' \in {"hash", "write"}
      /\ doing = "write" => doing' = "write"
      /\ UNCHANGED <<status, piece, buffer>>
  BY <1>1 DEF Hash, Match, Write, flushVars
<1>3. FlushInv /\ BufferInv /\ InCall
  BY <1>2 DEF RBInv
<1>4. at # "allocate"
  <2>1. doing = "hash" => at = "ready"
    BY <1>3 DEF FlushInv, CallInv
  <2> QED BY <1>1, <1>2, <2>1 DEF Hash, Match, Write
<1>5. FlushInv' /\ at' \notin {"allocate", "refused"}
  <2>1. FlushInv'
    BY <1>1, <1>3, Hash_Inv, Match_Inv, Write_Inv
  <2>2. doing' = "write" => StreamStatus' # "new"
    BY <2>1 DEF FlushInv, WriteInv
  <2>3. at' \in {"allocate", "refused"} => StreamStatus' = "new"
    BY <2>1, StatusOf DEF FlushInv, LayoutInv
  <2> QED BY <1>2, <2>1, <2>2, <2>3 DEF FlushInv, CallInv
<1>6. BufferInv' /\ Good' = Good
  BY <1>1, <1>2, <1>3 DEF BufferInv, Good, GoodCells
<1>7. /\ doing' = "hash" => Disk' = released.disk
      /\ doing' = "write" =>
           /\ buffer = Right[piece]
           /\ Disk' = [released.disk EXCEPT ![piece] = @ \cup (0 .. src' - 1)]
  <2>0. /\ released.disk \in [PieceIndex -> SUBSET Nat] /\ piece \in PieceIndex
        /\ doing = "hash" => Disk = released.disk
        /\ doing = "write" =>
             /\ buffer = Right[piece]
             /\ Disk = [released.disk EXCEPT ![piece] = @ \cup (0 .. src - 1)]
    BY <1>3 DEF InCall
  <2>1. CASE Hash
    <3>1. Stream' = Stream /\ doing = "hash" /\ doing' = "hash"
      BY <2>1 DEF Hash, layoutVars, flushVars, Stream
    <3> QED BY <2>0, <3>1 DEF Disk, OnDisk
  <2>2. CASE Match
    <3>1. /\ Stream' = Stream /\ buffer = Right[piece]
          /\ doing = "hash" /\ doing' = "write" /\ src' = 0
      BY <2>2, <1>3, Match_Inv DEF Match, write_piece
    <3>2. Disk' = released.disk
      BY <2>0, <3>1 DEF Disk, OnDisk
    <3>3. 0 .. src' - 1 = {}
      BY <3>1
    <3> QED BY <2>0, <3>1, <3>2, <3>3
  <2>3. CASE Write
    <3>1. NextBytesRight /\ doing = "write" /\ doing' = "write"
      BY <2>3, <1>3, Write_Inv DEF Write, flushVars
    <3>2. Disk' = [Disk EXCEPT ![piece] = @ \cup (src .. src' - 1)]
      BY <1>3, <3>1, NextBytesOnDisk
    <3>3. (0 .. src - 1) \cup (src .. src' - 1) = 0 .. src' - 1
      BY <3>1, Ranges DEF NextBytesRight
    <3>4. Disk' = [released.disk EXCEPT ![piece] =
                     (@ \cup (0 .. src - 1)) \cup (src .. src' - 1)]
      BY <2>0, <3>1, <3>2
    <3> QED BY <2>0, <3>1, <3>3, <3>4
  <2> QED BY <1>1, <2>1, <2>2, <2>3
<1>8. InCall'
  <2>1. /\ Seen(call)' = Seen(call)
        /\ PM!Accepts(Seen(call))' <=> PM!Accepts(Seen(call))
        /\ PM!AllArrived(Seen(call))' <=> PM!AllArrived(Seen(call))
        /\ PM!StatusWith(Seen(call))' = PM!StatusWith(Seen(call))
        /\ PM!ReceivedWith(Seen(call))' = PM!ReceivedWith(Seen(call))
        /\ PM!DoneWith(Seen(call))' = PM!DoneWith(Seen(call))
        /\ PM!DataWith(Seen(call))' = PM!DataWith(Seen(call))
    BY <1>1, SameCall
  <2> QED BY <2>1, <1>1, <1>2, <1>3, <1>6, <1>7 DEF InCall
<1>9. RBInv'
  BY <1>2, <1>5, <1>6, <1>8 DEF RBInv
<1> QED BY <1>1, <1>4, <1>9 DEF PM!pmVars

(* A digest that differs is PieceManager's reset of the piece. *)
LEMMA ResetPiece_Step ==
  ASSUME RBInv, ResetPiece
  PROVE  RBInv' /\ PM!ResetPiece(Seen(call)) /\ at = "ready"
<1>1. /\ Mismatch
      /\ received' = [received EXCEPT ![piece] = {}]
      /\ blocks_done' = [blocks_done EXCEPT ![piece] = 0]
      /\ buffers' = [buffers EXCEPT ![piece] = buffer']
      /\ done_count' = done_count /\ released' = Protected'
  BY DEF ResetPiece, Unlock, ClearedFlags
<1>2. /\ doing = "hash" /\ doing' = "nothing" /\ DigestReady
      /\ compressed # Padded(Right[piece])
      /\ status' = [status EXCEPT ![piece] = "HashFail"]
      /\ buffer' = [c \in DOMAIN buffer |-> 0]
      /\ UNCHANGED layoutVars /\ at' = at
  BY <1>1 DEF Mismatch, DigestsEqual, layoutVars
<1>3. /\ FlushInv /\ BufferInv /\ InCall /\ at = "ready"
      /\ piece \in PieceIndex /\ buffer \in PieceData[piece] /\ message = buffer
  BY <1>2 DEF RBInv, FlushInv, CallInv
<1>4. FlushInv'
  BY <1>1, <1>3, Mismatch_Inv
<1>5. buffer' = Zeros(piece_size(piece))
  <2>1. DOMAIN buffer = 1 .. piece_size(piece)
    BY <1>3, PieceDataAssumption
  <2> QED BY <1>2, <2>1 DEF Zeros
<1>6. /\ buffer' \in PieceData[piece] /\ buffer' \in Seq(Byte)
      /\ RightCells(piece, buffer') = PM!ZeroCells(piece)
  BY <1>3, <1>5, ZeroBuffer, PieceDataAssumption DEF Byte
<1>7. /\ buffers'[piece] = buffer' /\ status'[piece] = "HashFail"
      /\ \A j \in PieceIndex : j # piece => buffers'[j] = buffers[j] /\ status'[j] = status[j]
  BY <1>1, <1>2, <1>3 DEF BufferInv, FlushInv, CallInv
<1>8. BufferInv'
  <2>1. /\ received' \in [PieceIndex -> SUBSET Nat]
        /\ blocks_done' \in [PieceIndex -> Int]
        /\ buffers' \in [PieceIndex -> Seq(Byte)]
    BY <1>1, <1>3, <1>6 DEF BufferInv
  <2> QED BY <2>1, <1>1, <1>3, <1>6, <1>7 DEF BufferInv
<1>9. Good' = [Good EXCEPT ![piece] = PM!ZeroCells(piece)]
  <2>1. \A j \in PieceIndex :
          GoodCells(j)' = IF j = piece THEN PM!ZeroCells(j) ELSE GoodCells(j)
    BY <1>3, <1>6, <1>7, GoodAfter DEF GoodCells
  <2> QED BY <2>1, <1>3 DEF Good
<1>10. Disk' = Disk
  <2>1. Stream' = Stream
    BY <1>2 DEF layoutVars, Stream
  <2> QED BY <2>1 DEF Disk, OnDisk
<1>11. ~PM!HashMatches(Seen(call))
  <2>1. buffer # Right[piece]
    <3>1. compressed = Padded(message)
      BY <1>2, <1>3, ShaInv_Digest DEF FlushInv, DigestOfPadded
    <3> QED BY <3>1, <1>2, <1>3
  <2>2. RightCells(piece, buffer) # Cells(piece)
    BY <2>1, <1>3, AllRight
  <2> QED BY <2>2, <1>3, SameGeometry DEF InCall, PM!HashMatches
<1>12. /\ released'.status = status' /\ released'.received = received'
       /\ released'.blocks_done = blocks_done'
       /\ released'.good = Good' /\ released'.disk = Disk'
  BY <1>1, ReleasedAfter
<1>13. PM!ResetPiece(Seen(call))
  <2>1. /\ PM!Accepts(Seen(call)) /\ PM!AllArrived(Seen(call))
        /\ Seen(call).piece_index = piece
    BY <1>3 DEF InCall
  <2>2. /\ status'      = [released.status EXCEPT ![piece] = "HashFail"]
        /\ received'    = [released.received EXCEPT ![piece] = {}]
        /\ blocks_done' = [released.blocks_done EXCEPT ![piece] = 0]
        /\ Good'        = [released.good EXCEPT ![piece] = PM!ZeroCells(piece)]
        /\ Disk'        = released.disk
    BY <1>1, <1>2, <1>3, <1>9, <1>10 DEF InCall
  <2> QED BY <2>1, <2>2, <1>1, <1>11, <1>12 DEF PM!ResetPiece, PM!ClearedFlags
<1>14. RBInv'
  BY <1>1, <1>2, <1>3, <1>4, <1>8 DEF RBInv
<1> QED BY <1>3, <1>13, <1>14

(* A piece that is written is PieceManager's flush, and a write that fails  *)
(* is its partial write of as many bytes as src says.                      *)
LEMMA Return_Step ==
  ASSUME RBInv, Return
  PROVE  /\ RBInv' /\ at = "ready"
         /\ PM!FlushPiece(Seen(call)) \/ PM!FailToFlush(Seen(call))
<1>1. /\ Written
      /\ buffers' = [buffers EXCEPT ![piece] = buffer']
      /\ done_count' = done_count + Counted
      /\ released' = Protected'
      /\ UNCHANGED <<received, blocks_done>>
  BY DEF Return, Unlock
<1>2. /\ doing = "write" /\ doing' = "nothing" /\ at = "ready" /\ at' = at
      /\ status' = [status EXCEPT ![piece] =
                      IF result = "written" THEN "Complete" ELSE status[piece]]
      /\ buffer' = IF result = "written" THEN <<>> ELSE buffer
      /\ UNCHANGED layoutVars
  BY <1>1 DEF Written, StatusAfterWrite, layoutVars
<1>3. FlushInv /\ BufferInv /\ InCall
  BY <1>2 DEF RBInv
<1>4. /\ piece \in PieceIndex /\ buffer = buffers[piece] /\ buffer = Right[piece]
      /\ status[piece] # "Complete" /\ buffer \in PieceData[piece]
      /\ status \in [PieceIndex -> {"Missing", "Pending", "HashFail", "Complete"}]
      /\ Seen(call).piece_index = piece
      /\ PM!Accepts(Seen(call)) /\ PM!AllArrived(Seen(call))
      /\ released.disk \in [PieceIndex -> SUBSET Nat]
      /\ Disk = [released.disk EXCEPT ![piece] = @ \cup (0 .. src - 1)]
  BY <1>2, <1>3 DEF InCall, BufferInv, FlushInv, CallInv
<1>5. FlushInv'
  BY <1>1, <1>3, Written_Inv
<1>6. Disk' = Disk
  <2>1. Stream' = Stream
    BY <1>2 DEF layoutVars, Stream
  <2> QED BY <2>1 DEF Disk, OnDisk
<1>7. PM!DataWith(Seen(call)) = Cells(piece) /\ PM!HashMatches(Seen(call))
  <2>1. RightCells(piece, buffer) = Cells(piece)
    BY <1>4, AllRight
  <2> QED BY <2>1, <1>3, <1>4, SameGeometry DEF InCall, PM!HashMatches
<1>8. /\ src \in Nat /\ Len(data) = piece_size(piece) /\ piece_size(piece) \in Nat
      /\ StreamStatus = "written" => src = Len(data)
      /\ StreamStatus = "failed" => src < Len(data)
      /\ StreamStatus = result /\ result \in {"written", "failed"}
  <2>1. /\ data = Right[piece] /\ LayoutTypeOK
        /\ StreamStatus \in {"writing", "written", "failed"}
        /\ StreamStatus = "written" => src = Len(data)
        /\ StreamStatus = "failed" => src < Len(data)
    BY <1>2, <1>3 DEF FlushInv, WriteInv, LayoutInv
  <2>2. StreamStatus = result /\ result \in {"written", "failed"}
    BY <1>2, <2>1, StatusOf DEF LayoutTypeOK
  <2> QED BY <1>4, <2>1, <2>2, RightAssumption, PieceGeometry DEF LayoutTypeOK
<1>9. /\ released'.status = status' /\ released'.received = received'
      /\ released'.blocks_done = blocks_done'
      /\ released'.good = Good' /\ released'.disk = Disk'
  BY <1>1, ReleasedAfter
<1>10. /\ received'    = [released.received EXCEPT ![piece] = PM!ReceivedWith(Seen(call))]
       /\ blocks_done' = [released.blocks_done EXCEPT ![piece] = PM!DoneWith(Seen(call))]
  BY <1>1, <1>3 DEF InCall
<1>11. CASE result = "written"
  <2>1. /\ buffers'[piece] = <<>> /\ status'[piece] = "Complete"
        /\ \A j \in PieceIndex :
             j # piece => buffers'[j] = buffers[j] /\ status'[j] = status[j]
    BY <1>1, <1>2, <1>3, <1>4, <1>11 DEF BufferInv
  <2>2. BufferInv'
    <3>1. buffers' \in [PieceIndex -> Seq(Byte)]
      BY <1>1, <1>2, <1>3, <1>4, <1>11 DEF BufferInv
    <3>2. done_count' \in Int
      BY <1>1, <1>3, <1>11 DEF BufferInv, Counted
    <3> QED BY <2>1, <3>1, <3>2, <1>1, <1>3 DEF BufferInv
  <2>3. status' = [released.status EXCEPT ![piece] = "Complete"]
    BY <1>2, <1>3, <1>4, <1>11 DEF InCall
  <2>4. Good' = [released.good EXCEPT ![piece] = {}]
    <3>1. \A j \in PieceIndex :
            GoodCells(j)' = IF j = piece THEN {} ELSE GoodCells(j)
      BY <1>4, <2>1, GoodAfter DEF GoodCells
    <3>2. Good' = [Good EXCEPT ![piece] = {}]
      BY <3>1, <1>4 DEF Good
    <3> QED BY <3>2, <1>3, <1>4 DEF InCall
  <2>5. Disk' = [released.disk EXCEPT ![piece] = PM!DataWith(Seen(call))]
    <3>1. Disk[piece] = Cells(piece)
      <4>1. Disk[piece] = released.disk[piece] \cup (0 .. src - 1)
        BY <1>4
      <4>2. 0 .. src - 1 = Cells(piece)
        BY <1>8, <1>11 DEF Cells
      <4>3. Disk[piece] \subseteq Cells(piece)
        BY <1>4, GoodType DEF OnDisk
      <4> QED BY <4>1, <4>2, <4>3
    <3> QED BY <3>1, <1>4, <1>6, <1>7
  <2>6. PM!FlushPiece(Seen(call))
    <3>1. done_count' = done_count + 1
      BY <1>1, <1>11 DEF Counted
    <3> QED BY <2>3, <2>4, <2>5, <3>1, <1>4, <1>7, <1>9, <1>10 DEF PM!FlushPiece
  <2>7. RBInv'
    BY <2>2, <1>1, <1>2, <1>5 DEF RBInv
  <2> QED BY <2>6, <2>7, <1>2
<1>12. CASE result = "failed"
  <2>1. UNCHANGED <<status, buffers, received, blocks_done, done_count>>
    <3>1. done_count' = done_count
      BY <1>1, <1>3, <1>12 DEF BufferInv, Counted
    <3> QED BY <3>1, <1>1, <1>2, <1>3, <1>4, <1>12 DEF BufferInv
  <2>2. BufferInv' /\ Good' = Good
    BY <2>1, <1>3 DEF BufferInv, Good, GoodCells
  <2>3. /\ status' = [released.status EXCEPT ![piece] = PM!StatusWith(Seen(call))]
        /\ Good'   = [released.good EXCEPT ![piece] = PM!DataWith(Seen(call))]
    BY <2>1, <2>2, <1>3 DEF InCall
  <2>4. src \in Cells(piece) /\ 0 .. src - 1 \subseteq Cells(piece)
    BY <1>8, <1>12 DEF Cells
  <2>5. Disk' = [released.disk EXCEPT ![piece] =
                   (@ \ (0 .. src - 1)) \cup (PM!DataWith(Seen(call)) \cap (0 .. src - 1))]
    <3> DEFINE written == 0 .. src - 1
    <3>1. /\ written \subseteq Cells(piece)
          /\ Disk' = [released.disk EXCEPT ![piece] = @ \cup written]
      BY <2>4, <1>4, <1>6
    <3> HIDE DEF written
    <3>2. Disk' = [released.disk EXCEPT ![piece] =
                     (@ \ written) \cup (Cells(piece) \cap written)]
      BY <3>1, <1>4
    <3> QED BY <3>2, <1>7 DEF written
  <2>6. PM!FailToFlush(Seen(call))
    <3>1. src \in PM!Cells(piece)
      BY <2>4, SameGeometry
    <3> QED BY <2>1, <2>3, <2>5, <3>1, <1>4, <1>7, <1>9, <1>10
            DEF PM!FailToFlush, PM!StatusIfWriteFails
  <2>7. RBInv'
    BY <2>2, <1>1, <1>2, <1>5 DEF RBInv
  <2> QED BY <2>6, <2>7, <1>2
<1> QED BY <1>8, <1>11, <1>12

(* A step that changes nothing keeps the invariant. *)
LEMMA Unchanged_Inv ==
  ASSUME RBInv, UNCHANGED rbVars
  PROVE  RBInv' /\ UNCHANGED PM!pmVars /\ UNCHANGED vars
<1>1. UNCHANGED vars /\ UNCHANGED layoutVars
      /\ UNCHANGED <<status, piece, buffer, doing, received, blocks_done, buffers,
                     done_count, call, released>>
  BY DEF rbVars, vars, flushVars
<1>2. FlushInv'
  BY <1>1, Next_Inv DEF RBInv
<1>3. UNCHANGED <<at, src, Stream>>
  BY <1>1 DEF layoutVars, Stream
<1>4. Good' = Good /\ Disk' = Disk /\ Protected' = Protected
  BY <1>1, <1>3 DEF Good, GoodCells, Disk, OnDisk, Protected
<1>5. BufferInv' /\ (at' \in {"allocate", "refused"} => Fresh')
  BY <1>1, <1>3 DEF RBInv, BufferInv, Fresh
<1>6. doing # "nothing" => InCall'
  <2>1. /\ Seen(call)' = Seen(call)
        /\ PM!Accepts(Seen(call))' <=> PM!Accepts(Seen(call))
        /\ PM!AllArrived(Seen(call))' <=> PM!AllArrived(Seen(call))
        /\ PM!StatusWith(Seen(call))' = PM!StatusWith(Seen(call))
        /\ PM!ReceivedWith(Seen(call))' = PM!ReceivedWith(Seen(call))
        /\ PM!DoneWith(Seen(call))' = PM!DoneWith(Seen(call))
        /\ PM!DataWith(Seen(call))' = PM!DataWith(Seen(call))
    BY <1>1, SameCall
  <2> QED BY <2>1, <1>1, <1>3, <1>4 DEF RBInv, InCall
<1>7. RBInv'
  BY <1>1, <1>2, <1>4, <1>5, <1>6 DEF RBInv
<1> QED BY <1>1, <1>7 DEF PM!pmVars

(* Every step of receive_block is a step of PieceManager or none, once the  *)
(* manager is constructed.                                                 *)
LEMMA RBNext_Step ==
  ASSUME RBInv, [RBNext]_rbVars
  PROVE  /\ RBInv' /\ [Next]_vars
         /\ at = "allocate" /\ ~UNCHANGED rbVars => PM!PMInit'
         /\ at # "allocate" => [PM!PMNext]_(PM!pmVars)
<1> DEFINE Goal == /\ RBInv' /\ [Next]_vars
                   /\ at = "allocate" /\ ~UNCHANGED rbVars => PM!PMInit'
                   /\ at # "allocate" => [PM!PMNext]_(PM!pmVars)
<1>1. CASE UNCHANGED rbVars
  BY <1>1, Unchanged_Inv
<1>2. CASE Construct
  BY <1>2, Construct_Step DEF Construct, Next
<1>3. ASSUME NEW m \in BlockMessages, KeepBlock(m) \/ LastBlock(m)
      PROVE  Goal
  <2>1. Seen(m) \in {Seen(n) : n \in BlockMessages}
    OBVIOUS
  <2>2. CASE KeepBlock(m)
    <3>1. RBInv' /\ PM!KeepBlock(Seen(m)) /\ at = "ready"
      BY <2>2, KeepBlock_Step
    <3>2. PM!PMNext
      BY <2>1, <3>1 DEF PM!PMNext, PM!receive_block
    <3>3. Next
      BY <2>2 DEF KeepBlock, Accepts, Next
    <3> QED BY <3>1, <3>2, <3>3
  <2>3. CASE LastBlock(m)
    <3>1. RBInv' /\ UNCHANGED PM!pmVars /\ at = "ready"
      BY <2>3, LastBlock_Step
    <3>2. BufferInv /\ released = Protected
      BY <2>3 DEF RBInv, LastBlock, AllBlocksReceived, BlockStored
    <3>3. m.piece_index \in PieceIndex /\ DataWith(m) \in PieceData[m.piece_index]
      BY <2>3, <3>2, SameMessage DEF LastBlock
    <3>4. Next
      BY <2>3, <3>3 DEF LastBlock, Next
    <3> QED BY <3>1, <3>4
  <2> QED BY <1>3, <2>2, <2>3
<1>4. CASE Verify
  BY <1>4, Verify_Step DEF Verify, Next
<1>5. CASE ResetPiece \/ Return
  <2>1. /\ RBInv' /\ at = "ready"
        /\ \/ PM!ResetPiece(Seen(call))
           \/ PM!FlushPiece(Seen(call)) \/ PM!FailToFlush(Seen(call))
    BY <1>5, ResetPiece_Step, Return_Step
  <2>2. call \in BlockMessages
    BY <1>5 DEF ResetPiece, Return, Mismatch, Written, RBInv, InCall
  <2>3. PM!PMNext
    BY <2>1, <2>2 DEF PM!PMNext, PM!receive_block
  <2>4. Next
    BY <1>5 DEF ResetPiece, Return, Next
  <2> QED BY <2>1, <2>3, <2>4
<1> QED BY <1>1, <1>2, <1>3, <1>4, <1>5 DEF RBNext

(* The invariant holds in every state of every behaviour. *)
LEMMA RBInvariant == RBSpec => []RBInv
<1>1. RBInv /\ [RBNext]_rbVars => RBInv'
  BY RBNext_Step
<1> QED BY <1>1, RBInit_Inv, PTL DEF RBSpec

(* A call of receive_block drives verify_and_flush as VerifyAndFlush says,  *)
(* so all that is proved of that module holds of whole calls.              *)
THEOREM CallsVerifyAndFlush == RBSpec => Spec
<1>1. RBInit => Init
  BY DEF RBInit
<1>2. RBInv /\ [RBNext]_rbVars => [Next]_vars
  BY RBNext_Step
<1> QED BY <1>1, <1>2, RBInvariant, PTL DEF RBSpec, Spec

(* receive_block, with its copying, hashing and writing in parts, is one    *)
(* step of PieceManager for every torrent, every list of files and whatever *)
(* the blocks hold: its mutex makes it atomic, and the sets of right        *)
(* offsets there are those of the buffers and the files.                   *)
THEOREM ManagerRefined == RBSpec => ImplementsManager
<1>1. RBInit => PM!PMInit
  BY RBInit_Inv
<1>2. RBInv /\ [RBNext]_rbVars =>
        [IF at = "allocate" THEN PM!PMInit' ELSE [PM!PMNext]_(PM!pmVars)]_rbVars
  BY RBNext_Step
<1> QED BY <1>1, <1>2, RBInvariant, PTL DEF RBSpec, ImplementsManager

(* Whole calls keep the promise of VerifyAndFlush: a piece is Complete only *)
(* when its bytes are right and in their places in the files.              *)
THEOREM CallsCompleteOnDisk == RBSpec => []CompleteIsRight
BY CallsVerifyAndFlush, CompleteOnDisk, PTL
-----------------------------------------------------------------------------
(* What is proved of PieceManager, said of whole calls *)

(* The theorems about PieceManager, at the state the mutex released last. *)
PMP == INSTANCE PieceManagerProofs WITH
        ZeroBytes     <- {o \in StreamOffsets : RightStream[o] = 0},
        FileEnds      <- {},
        InitialDisks  <- SUBSET StreamOffsets,
        PieceMessages <- {Seen(m) : m \in BlockMessages},
        WritesMayFail <- TRUE,
        status        <- released.status,
        received      <- released.received,
        blocks_done   <- released.blocks_done,
        good          <- released.good,
        disk          <- released.disk,
        done_count    <- done_count

(* Their assumptions follow from those of ReceiveBlock. *)
LEMMA ManagerAssumptions ==
  PMP!GeometryAssumption /\ PMP!PieceManagerAssumption
<1>1. PMP!GeometryAssumption
  BY GeometryAssumption DEF PMP!GeometryAssumption
<1>2. PMP!PieceManagerAssumption
  BY BlockMessagesAssumption
     DEF PMP!PieceManagerAssumption, PMP!StreamOffsets, StreamOffsets, Seen
<1> QED BY <1>1, <1>2

(* Both instances of PieceManager are one: the geometry, *)
LEMMA OneGeometry ==
  /\ PMP!num_pieces = PM!num_pieces /\ PMP!PieceIndex = PM!PieceIndex
  /\ PMP!our_bitfield = PM!our_bitfield
  /\ \A i : /\ PMP!piece_size(i) = PM!piece_size(i)
            /\ PMP!num_blocks_in_piece(i) = PM!num_blocks_in_piece(i)
            /\ PMP!Cells(i) = PM!Cells(i)
            /\ PMP!Blocks(i) = PM!Blocks(i)
            /\ PMP!BufferSize(i) = PM!BufferSize(i)
            /\ PMP!ZeroCells(i) = PM!ZeroCells(i)
            /\ PMP!ClearedFlags(i) = PM!ClearedFlags(i)
BY DEF PMP!PieceIndex, PMP!num_pieces, PMP!our_bitfield, PMP!piece_size,
       PMP!num_blocks_in_piece, PMP!Cells, PMP!Blocks, PMP!BufferSize,
       PMP!ZeroCells, PMP!ClearedFlags, PMP!StreamOffset,
       PM!PieceIndex, PM!num_pieces, PM!our_bitfield, PM!piece_size,
       PM!num_blocks_in_piece, PM!Cells, PM!Blocks, PM!BufferSize,
       PM!ZeroCells, PM!ClearedFlags, PM!StreamOffset

(* what a message adds, *)
LEMMA OneMessage ==
  ASSUME NEW m
  PROVE  /\ PMP!Accepts(m) <=> PM!Accepts(m)
         /\ PMP!DataWith(m) = PM!DataWith(m)
         /\ PMP!ReceivedWith(m) = PM!ReceivedWith(m)
         /\ PMP!DoneWith(m) = PM!DoneWith(m)
         /\ PMP!StatusWith(m) = PM!StatusWith(m)
         /\ PMP!StatusIfWriteFails(m) = PM!StatusIfWriteFails(m)
         /\ PMP!AllArrived(m) <=> PM!AllArrived(m)
         /\ PMP!HashMatches(m) <=> PM!HashMatches(m)
BY OneGeometry
   DEF PMP!BlockOf, PMP!Accepts, PMP!IsNew, PMP!DataWith, PMP!ReceivedWith,
       PMP!DoneWith, PMP!StatusWith, PMP!StatusIfWriteFails, PMP!AllArrived,
       PMP!HashMatches,
       PM!BlockOf, PM!Accepts, PM!IsNew, PM!DataWith, PM!ReceivedWith,
       PM!DoneWith, PM!StatusWith, PM!StatusIfWriteFails, PM!AllArrived,
       PM!HashMatches

(* and the initial states and steps. *)
LEMMA OneManager ==
  /\ PMP!PMInit <=> PM!PMInit
  /\ [PMP!PMNext]_(PMP!pmVars) <=> [PM!PMNext]_(PM!pmVars)
<1>1. PMP!PMInit <=> PM!PMInit
  BY OneGeometry DEF PMP!PMInit, PMP!allocate_files, PMP!StreamOffset,
                     PM!PMInit, PM!allocate_files, PM!StreamOffset
<1>2. PMP!pmVars = PM!pmVars
  BY DEF PMP!pmVars, PM!pmVars
<1>3. ASSUME NEW m
      PROVE  PMP!receive_block(m) <=> PM!receive_block(m)
  <2>1. PMP!IgnoreBlock(m) <=> PM!IgnoreBlock(m)
    BY OneMessage DEF PMP!IgnoreBlock, PM!IgnoreBlock, PMP!pmVars, PM!pmVars
  <2>2. PMP!KeepBlock(m) <=> PM!KeepBlock(m)
    BY OneMessage DEF PMP!KeepBlock, PM!KeepBlock
  <2>3. PMP!ResetPiece(m) <=> PM!ResetPiece(m)
    BY OneGeometry, OneMessage DEF PMP!ResetPiece, PM!ResetPiece
  <2>4. PMP!FlushPiece(m) <=> PM!FlushPiece(m)
    BY OneMessage DEF PMP!FlushPiece, PM!FlushPiece
  <2>5. PMP!FailToFlush(m) <=> PM!FailToFlush(m)
    BY OneGeometry, OneMessage DEF PMP!FailToFlush, PM!FailToFlush
  <2> QED BY <2>1, <2>2, <2>3, <2>4, <2>5
          DEF PMP!receive_block, PM!receive_block
<1>4. PMP!PMNext <=> PM!PMNext
  BY <1>3 DEF PMP!PMNext, PM!PMNext
<1>5. UNCHANGED PMP!pmVars <=> UNCHANGED PM!pmVars
  BY DEF PMP!pmVars, PM!pmVars
<1> QED BY <1>1, <1>4, <1>5

(* The invariant of PieceManagerProofs is one of whole calls. *)
LEMMA ManagerInv == RBSpec => []PMP!IInv
<1>1. PM!PMInit => PMP!IInv
  BY ManagerAssumptions, PMP!InitInv, OneManager
<1>2. PMP!IInv /\ [PM!PMNext]_(PM!pmVars) => PMP!IInv'
  BY ManagerAssumptions, PMP!StepInv, OneManager
<1>3. PM!PMInit' => PMP!IInv'
  BY <1>1, PTL
<1>4. PMP!IInv /\ UNCHANGED rbVars => PMP!IInv'
  <2>1. UNCHANGED rbVars => UNCHANGED PM!pmVars
    BY DEF rbVars, PM!pmVars
  <2> QED BY <2>1, <1>2
<1>5. RBInv /\ PMP!IInv /\ [RBNext]_rbVars => PMP!IInv'
  BY <1>2, <1>3, <1>4, RBNext_Step
<1> QED BY <1>1, <1>5, RBInit_Inv, RBInvariant, PTL DEF RBSpec

(* Whenever another thread asks, the counters agree with what they count,   *)
(* a complete piece is on disk, the requests made of it are answered by     *)
(* blocks it takes, and what is shown stays in range until the last piece. *)
THEOREM ManagerInvariants ==
  RBSpec => [](/\ PM!CountersAgree /\ PM!VerifiedOnDisk
               /\ PM!RequestIsUseful /\ PM!ProgressUntilLastPiece)
<1>1. PMP!IInv => PM!CountersAgree
  BY OneGeometry DEF PMP!IInv, PMP!CountersAgree, PM!CountersAgree, PMP!Cardinality, PM!Cardinality
<1>2. PMP!IInv => PM!VerifiedOnDisk
  BY ManagerAssumptions, PMP!CountedOnDisk, OneGeometry
     DEF PMP!VerifiedOnDisk, PM!VerifiedOnDisk, PMP!is_complete, PM!is_complete
<1>3. PM!RequestIsUseful
  <2>1. PMP!RequestIsUseful
    BY ManagerAssumptions, PMP!RequestAccepted
  <2>2. \A bf : PM!next_request(bf) = PMP!next_request(bf)
    BY OneGeometry
       DEF PMP!next_request, PMP!Useful, PMP!Lowest, PMP!BlockRequest,
           PM!next_request, PM!Useful, PM!Lowest, PM!BlockRequest
  <2>3. \A m : PMP!IsNew(m) <=> PM!IsNew(m)
    BY DEF PMP!IsNew, PM!IsNew, PMP!BlockOf, PM!BlockOf
  <2> QED BY <2>1, <2>2, <2>3, OneGeometry, OneMessage
          DEF PMP!RequestIsUseful, PM!RequestIsUseful
<1>4. PMP!IInv => PM!ProgressUntilLastPiece
  BY ManagerAssumptions, PMP!CountedInRange, OneGeometry
     DEF PMP!ProgressUntilLastPiece, PMP!bytes_downloaded, PMP!progress_pct,
         PM!ProgressUntilLastPiece, PM!bytes_downloaded, PM!progress_pct
<1> QED BY <1>1, <1>2, <1>3, <1>4, ManagerInv, PTL

(* A finished count read without the mutex is never too early: every byte   *)
(* of every file is right by then, and a call still running cannot spoil    *)
(* one, since it only adds right bytes.                                    *)
THEOREM FinishedDownload == RBSpec => []FinishedIsRight
<1>1. RBInv /\ PM!VerifiedOnDisk => FinishedIsRight
  <2> SUFFICES ASSUME RBInv, PM!VerifiedOnDisk, done_count = num_pieces,
                      NEW o \in StreamOffsets
               PROVE  Stream[o] = RightStream[o]
    BY DEF FinishedIsRight
  <2>1. \A i \in PieceIndex : released.disk[i] = Cells(i)
    <3>1. PM!is_complete
      BY DEF PM!is_complete, PM!num_pieces, num_pieces
    <3> QED BY <3>1, SameGeometry DEF PM!VerifiedOnDisk
  <2>2. \A i \in PieceIndex : Cells(i) \subseteq Disk[i]
    <3>1. CASE doing = "nothing"
      BY <2>1, <3>1, ProtectedFields DEF RBInv
    <3>2. CASE doing # "nothing"
      <4>1. /\ InCall /\ piece \in PieceIndex
            /\ released.disk \in [PieceIndex -> SUBSET Nat]
            /\ doing \in {"hash", "write"}
        BY <3>2 DEF RBInv, InCall, FlushInv, CallInv
      <4>2. CASE doing = "hash"
        BY <2>1, <4>1, <4>2 DEF InCall
      <4>3. CASE doing = "write"
        <5> DEFINE written == 0 .. src - 1
        <5>1. Disk = [released.disk EXCEPT ![piece] = @ \cup written]
          BY <4>1, <4>3 DEF InCall
        <5> HIDE DEF written
        <5> QED BY <5>1, <2>1, <4>1
      <4> QED BY <4>1, <4>2, <4>3
    <3> QED BY <3>1, <3>2
  <2>3. PICK i \in PieceIndex : \E c \in Cells(i) : StreamOffset(i, c) = o
    BY PiecesPartitionStream
  <2>4. PICK c \in Cells(i) : StreamOffset(i, c) = o
    BY <2>3
  <2>5. c \in OnDisk(i)
    BY <2>2, GoodType
  <2> QED BY <2>4, <2>5 DEF OnDisk
<1>2. RBSpec => []PM!VerifiedOnDisk
  BY ManagerInvariants, PTL
<1> QED BY <1>1, <1>2, RBInvariant, PTL
=============================================================================
