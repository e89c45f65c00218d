-------------------------- MODULE FileLayoutProofs --------------------------
(***************************************************************************)
(* For every list of files and every torrent: the files tile the stream,   *)
(* write_piece never leaves the piece's buffer or the open file, and what  *)
(* it does to the files is what StreamWrite says.                          *)
(***************************************************************************)
EXTENDS FileLayout, MetainfoProofs, SequenceTheorems

(* The files of a torrent, one at a time. *)
LEMMA FileFacts ==
  /\ Len(files) \in Nat \ {0} /\ FileIndex = 1 .. Len(files)
  /\ TotalLength \in Nat /\ PieceLength \in Nat \ {0}
  /\ file_begin(1) = 0 /\ file_end(Len(files)) = TotalLength
  /\ \A k \in FileIndex :
       /\ files[k].length \in Nat
       /\ file_begin(k) \in Nat
       /\ file_end(k) = file_begin(k) + files[k].length
       /\ file_end(k) \in Nat /\ file_begin(k) <= file_end(k)
       /\ k + 1 \in FileIndex => file_begin(k + 1) = file_end(k)
BY FilesAssumption, GeometryAssumption DEF FileIndex, file_begin, file_end

(* parse_files: of two files the later one begins where the earlier one     *)
(* has ended, or after it.                                                 *)
LEMMA FilesInOrder ==
  ASSUME NEW j \in FileIndex, NEW k \in FileIndex, j < k
  PROVE  file_end(j) <= file_begin(k)
<1> DEFINE T == {n \in FileIndex : j < n /\ ~ (file_end(j) <= file_begin(n))}
<1> SUFFICES ASSUME T # {} PROVE FALSE
  OBVIOUS
<1>1. T \subseteq Nat
  BY FileFacts
<1>2. PICK n \in T : \A y \in T : n <= y
  BY <1>1, Least
<1>3. /\ n \in FileIndex /\ n - 1 \in FileIndex /\ (n - 1) + 1 = n
      /\ ~ (file_end(j) <= file_begin(n))
  BY FileFacts
<1>4. file_begin(n) = file_end(n - 1)
  BY <1>3, FileFacts
<1>5. CASE n - 1 = j
  BY <1>4, <1>5, FileFacts
<1>6. CASE n - 1 # j
  <2>1. n - 1 \notin T
    BY <1>2, <1>3, FileFacts
  <2>2. j < n - 1
    BY <1>6, <1>3, FileFacts
  <2>3. file_end(j) <= file_begin(n - 1)
    BY <1>3, <2>1, <2>2
  <2>4. /\ file_begin(n - 1) \in Nat /\ file_end(n - 1) \in Nat /\ file_end(j) \in Nat
        /\ file_begin(n - 1) <= file_end(n - 1)
    BY <1>3, FileFacts
  <2> QED BY <1>3, <1>4, <2>3, <2>4
<1> QED BY <1>5, <1>6

(* Every byte of the stream is in a file, and in one only. *)
LEMMA FileOfOffset ==
  ASSUME NEW o \in StreamOffsets
  PROVE  /\ FileAt(o) \in FileIndex
         /\ file_begin(FileAt(o)) <= o /\ o < file_end(FileAt(o))
         /\ o - file_begin(FileAt(o)) \in StreamOffsets
         /\ \A k \in FileIndex :
              file_begin(k) <= o /\ o < file_end(k) => k = FileAt(o)
<1> DEFINE T == {n \in Nat : Len(files) - n \in FileIndex
                              /\ file_begin(Len(files) - n) <= o}
<1>1. o \in Nat /\ o < TotalLength
  BY FileFacts DEF StreamOffsets
<1>2. Len(files) - 1 \in T
  BY <1>1, FileFacts
<1>3. PICK n \in T : \A y \in T : n <= y
  BY <1>2, Least
<1> DEFINE k == Len(files) - n
<1>4. k \in FileIndex /\ file_begin(k) <= o /\ n \in Nat
  BY <1>3
<1>5. o < file_end(k)
  <2>1. CASE k = Len(files)
    BY <2>1, <1>1, FileFacts
  <2>2. CASE k # Len(files)
    <3>1. k + 1 \in FileIndex /\ n - 1 \in Nat /\ Len(files) - (n - 1) = k + 1
      BY <2>2, <1>4, FileFacts
    <3>2. n - 1 \notin T
      BY <3>1, <1>3
    <3>3. ~ (file_begin(k + 1) <= o)
      BY <3>1, <3>2
    <3> QED BY <3>1, <3>3, <1>1, <1>4, FileFacts
  <2> QED BY <2>1, <2>2
<1> HIDE DEF k
<1>6. /\ FileAt(o) \in FileIndex
      /\ file_begin(FileAt(o)) <= o /\ o < file_end(FileAt(o))
  BY <1>4, <1>5 DEF FileAt
<1>7. ASSUME NEW j \in FileIndex, file_begin(j) <= o, o < file_end(j)
      PROVE  j = FileAt(o)
  <2>1. ~ (j < FileAt(o))
    BY <1>1, <1>6, <1>7, FilesInOrder, FileFacts
  <2>2. ~ (FileAt(o) < j)
    BY <1>1, <1>6, <1>7, FilesInOrder, FileFacts
  <2> QED BY <2>1, <2>2, <1>6, FileFacts
<1>8. o - file_begin(FileAt(o)) \in StreamOffsets
  BY <1>1, <1>6, FileFacts DEF StreamOffsets
<1> QED BY <1>6, <1>7, <1>8

(* No file ends behind the stream. *)
LEMMA EndsInStream ==
  ASSUME NEW k \in FileIndex
  PROVE  file_end(k) <= TotalLength
<1>1. CASE k = Len(files)
  BY <1>1, FileFacts
<1>2. CASE k < Len(files)
  BY <1>2, FilesInOrder, FileFacts
<1> QED BY <1>1, <1>2, FileFacts

(* The part of a file that belongs to a piece, in the terms of write_piece. *)
LEMMA Overlap ==
  ASSUME NEW b \in Nat, NEW l \in Nat, NEW f \in Nat, NEW e \in Nat,
         f <= e, ~ (e <= b), ~ (f >= b + l)
  PROVE  LET from == Larger(b, f)
             to   == Smaller(b + l, e)
         IN  /\ from - b \in Nat /\ to - from \in Nat
             /\ (from - b) + (to - from) <= l
             /\ b + (from - b) - f \in Nat
             /\ b + (from - b) - f + (to - from) <= e - f
             /\ from - b = Smaller(l, Larger(0, f - b))
             /\ to - b = Smaller(l, Larger(0, e - b))
<1>1. Larger(b, f) \in Nat /\ b <= Larger(b, f) /\ f <= Larger(b, f)
      /\ Larger(b, f) <= e /\ Larger(b, f) <= b + l
  BY DEF Larger
<1>2. Smaller(b + l, e) \in Nat /\ Smaller(b + l, e) <= e
      /\ Smaller(b + l, e) <= b + l /\ Larger(b, f) <= Smaller(b + l, e)
  BY <1>1 DEF Smaller
<1>3. Larger(b, f) - b = Smaller(l, Larger(0, f - b))
  BY DEF Larger, Smaller
<1>4. Smaller(b + l, e) - b = Smaller(l, Larger(0, e - b))
  BY DEF Larger, Smaller
<1> QED BY <1>1, <1>2, <1>3, <1>4

-----------------------------------------------------------------------------

(* Where the loop over files has brought src when it comes to file k: to    *)
(* the first byte that belongs to this file or to one behind it.           *)
Bound(k) == IF k \in FileIndex THEN file_begin(k) ELSE TotalLength

Reached(k) == Smaller(Len(data), Larger(0, Bound(k) - piece_begin))

(* The inductive invariant. *)
LayoutInv ==
  /\ LayoutTypeOK
  /\ at \in {"allocate", "refused"} => result = "none"
  /\ at \in {"file", "write"} => Len(data) > 0 /\ piece_end <= TotalLength
  /\ at = "file" => src = Reached(file)
  /\ at = "write" => Overlaps /\ src + rem = overlap_end - piece_begin

(* No file is open when the constructor starts. *)
LEMMA LayoutInit_Inv == LayoutInit => LayoutInv
<1> SUFFICES ASSUME LayoutInit PROVE LayoutInv
  OBVIOUS
<1>1. LayoutTypeOK
  BY FileFacts, PieceDataAssumption DEF LayoutInit, LayoutTypeOK
<1> QED BY <1>1 DEF LayoutInit, LayoutInv

(* No step of allocate_files or write_piece leaves buffer or file. *)
LEMMA LayoutStep_Type ==
  ASSUME LayoutInv, LayoutStep
  PROVE  LayoutTypeOK'
<1>0. FileIndex = 1 .. Len(files) /\ Len(files) \in Nat \ {0}
  BY FileFacts
<1>a. /\ exists \subseteq (UNION OldFiles) \cup Paths
      /\ content \in [Paths -> [StreamOffsets -> 0 .. 255]]
      /\ at \in {"allocate", "refused", "ready", "file", "write"}
      /\ file \in 1 .. Len(files) + 1
      /\ piece_begin \in Nat /\ data \in Seq(0 .. 255)
      /\ src \in Nat /\ rem \in Nat
      /\ result \in {"none", "written", "failed"}
  BY DEF LayoutInv, LayoutTypeOK
<1>b. at = "write" => /\ file \in FileIndex
                      /\ src + rem <= Len(data)
                      /\ FilePosition >= 0
                      /\ FilePosition + rem <= files[file].length
  BY DEF LayoutInv, LayoutTypeOK
<1>1. CASE AllocateFile
  <2> DEFINE p    == Allocated(file)
             last == files[file].length - 1
             was  == IF p \in exists THEN content[p]
                                     ELSE [c \in StreamOffsets |-> 0]
             low  == [c \in StreamOffsets |-> IF c = last THEN 0 ELSE was[c]]
  <2>1. p \in Paths /\ file \in FileIndex
    BY <1>1 DEF AllocateFile, Paths
  <2>2. was \in [StreamOffsets -> 0 .. 255]
    BY <2>1, <1>a
  <2>3. low \in [StreamOffsets -> 0 .. 255]
    BY <2>2
  <2>4. /\ exists' = exists \cup {p} /\ file' = file + 1
        /\ \E now \in {was, low} : content' = [content EXCEPT ![p] = now]
        /\ UNCHANGED <<at, piece_begin, data, src, rem, result>>
        /\ at = "allocate"
    BY <1>1 DEF AllocateFile
  <2> HIDE DEF p, was, low
  <2>5. content' \in [Paths -> [StreamOffsets -> 0 .. 255]]
    <3>1. PICK now \in {was, low} : content' = [content EXCEPT ![p] = now]
      BY <2>4
    <3>2. now \in [StreamOffsets -> 0 .. 255]
      BY <2>2, <2>3
    <3> QED BY <2>1, <3>1, <3>2, <1>a
  <2>6. exists' \subseteq (UNION OldFiles) \cup Paths
    BY <2>1, <2>4, <1>a
  <2>7. file' \in 1 .. Len(files) + 1
    BY <2>1, <2>4, <1>0
  <2> QED BY <2>4, <2>5, <2>6, <2>7, <1>a DEF LayoutTypeOK
<1>2. CASE CannotAllocate
  BY <1>2, <1>0, <1>a, <1>b DEF CannotAllocate, LayoutTypeOK, FilePosition, file_begin
<1>3. CASE AllAllocated
  BY <1>3, <1>0, <1>a, <1>b DEF AllAllocated, LayoutTypeOK, FilePosition, file_begin
<1>4. CASE SkipFile
  BY <1>4, <1>0, <1>a, <1>b DEF SkipFile, LayoutTypeOK, FilePosition, file_begin
<1>5. CASE LoopEnds
  BY <1>5, <1>0, <1>a, <1>b DEF LoopEnds, Ends, LayoutTypeOK, FilePosition, file_begin
<1>6. CASE OpenFile
  <2>1. /\ file \in FileIndex /\ Overlaps
        /\ src' = overlap_begin - piece_begin
        /\ rem' = overlap_end - overlap_begin
        /\ at' = "write"
        /\ UNCHANGED <<exists, content, file, piece_begin, data, result>>
    BY <1>6 DEF OpenFile, Overlaps
  <2>2. /\ file_begin(file) \in Nat /\ file_end(file) \in Nat
        /\ piece_begin \in Nat /\ Len(data) \in Nat
        /\ file_end(file) = file_begin(file) + files[file].length
        /\ files[file].length \in Nat
    BY <2>1, <1>a, FileFacts
  <2>3. /\ src' \in Nat /\ rem' \in Nat
        /\ src' + rem' <= Len(data)
        /\ piece_begin + src' - file_begin(file) >= 0
        /\ piece_begin + src' - file_begin(file) + rem' <= files[file].length
    <3>1. /\ ~ (file_end(file) <= piece_begin)
          /\ ~ (file_begin(file) >= piece_begin + Len(data))
          /\ file_begin(file) <= file_end(file)
      BY <2>1, FileFacts DEF Overlaps, BeforePiece, PastPiece, piece_end
    <3>2. files[file].length = file_end(file) - file_begin(file)
      BY <2>2
    <3>3. /\ src' \in Nat /\ rem' \in Nat /\ src' + rem' <= Len(data)
          /\ piece_begin + src' - file_begin(file) \in Nat
          /\ piece_begin + src' - file_begin(file) + rem'
               <= file_end(file) - file_begin(file)
      BY <2>1, <2>2, <3>1, Overlap DEF piece_end, overlap_begin, overlap_end
    <3> QED BY <3>2, <3>3
  <2> QED BY <2>1, <2>3, <1>0, <1>a DEF LayoutTypeOK, FilePosition, file_begin
<1>7. CASE CannotOpen
  BY <1>7, <1>0, <1>a, <1>b DEF CannotOpen, Ends, LayoutTypeOK, FilePosition, file_begin
<1>8. ASSUME NEW n \in 1 .. rem, WriteSome(n)
      PROVE  LayoutTypeOK'
  <2>1. at = "write" /\ file \in FileIndex /\ n \in Nat /\ n <= rem /\ rem \in Nat
    BY <1>8, <1>a, <1>b DEF WriteSome
  <2>2. \A c \in StreamOffsets :
          c \in FilePosition .. FilePosition + n - 1 =>
            data[src + c - FilePosition + 1] \in 0 .. 255
    <3> SUFFICES ASSUME NEW c \in StreamOffsets,
                        c \in FilePosition .. FilePosition + n - 1
                 PROVE  data[src + c - FilePosition + 1] \in 0 .. 255
      OBVIOUS
    <3>1. FilePosition \in Int /\ c \in Int
      BY <2>1, <1>a, FileFacts DEF FilePosition, StreamOffsets
    <3>2. src + c - FilePosition + 1 \in 1 .. Len(data)
      BY <2>1, <3>1, <1>a, <1>b
    <3>3. data \in Seq(0 .. 255)
      BY <1>a
    <3>4. \A j \in 1 .. Len(data) : data[j] \in 0 .. 255
      BY <3>3, ElementOfSeq
    <3> QED BY <3>2, <3>4
  <2>3. Opened(file) \in Paths
    BY <2>1 DEF Paths
  <2>4. content' \in [Paths -> [StreamOffsets -> 0 .. 255]]
    BY <1>8, <2>2, <2>3, <1>a DEF WriteSome
  <2>5. /\ src' = src + n /\ rem' = rem - n
        /\ UNCHANGED <<exists, at, file, piece_begin, data, result>>
    BY <1>8 DEF WriteSome
  <2>6. /\ src' \in Nat /\ rem' \in Nat
        /\ src' + rem' <= Len(data)
        /\ piece_begin + src' - file_begin(file) >= 0
        /\ piece_begin + src' - file_begin(file) + rem' <= files[file].length
    <3>1. /\ src \in Nat /\ piece_begin \in Nat /\ Len(data) \in Nat
          /\ file_begin(file) \in Nat /\ files[file].length \in Nat
      BY <2>1, <1>a, FileFacts
    <3>2. /\ src + rem <= Len(data)
          /\ piece_begin + src - file_begin(file) >= 0
          /\ piece_begin + src - file_begin(file) + rem <= files[file].length
      BY <2>1, <1>b DEF FilePosition
    <3> QED BY <2>1, <2>5, <3>1, <3>2
  <2> QED BY <2>1, <2>4, <2>5, <2>6, <1>a DEF LayoutTypeOK, FilePosition, file_begin
<1>9. CASE WriteFails
  BY <1>9, <1>0, <1>a, <1>b DEF WriteFails, Ends, LayoutTypeOK, FilePosition, file_begin
<1>10. CASE CloseFile
  BY <1>10, <1>0, <1>a, <1>b DEF CloseFile, LayoutTypeOK, FilePosition, file_begin
<1> QED BY <1>1, <1>2, <1>3, <1>4, <1>5, <1>6, <1>7, <1>8, <1>9, <1>10
        DEF LayoutStep

(* What the loop does to Reached: it stays put while a file lies before the *)
(* piece, it is the first byte of the overlap when the file does not, and   *)
(* it is all of the piece when the next file begins behind it.             *)
LEMMA ReachedFacts ==
  ASSUME LayoutInv, at \in {"file", "write"}
  PROVE  /\ Reached(1) = 0
         /\ \A k \in FileIndex :
              /\ BeforePiece(k) => Reached(k) = 0 /\ Reached(k + 1) = 0
              /\ ~ BeforePiece(k) /\ PastPiece(k) => Reached(k) = Len(data)
              /\ ~ BeforePiece(k) /\ ~ PastPiece(k) =>
                   /\ Reached(k) = Larger(piece_begin, file_begin(k)) - piece_begin
                   /\ Reached(k + 1) = Smaller(piece_end, file_end(k)) - piece_begin
         /\ Reached(Len(files) + 1) = Len(data)
<1>1. /\ piece_begin \in Nat /\ Len(data) \in Nat
      /\ piece_begin + Len(data) <= TotalLength
  BY DEF LayoutInv, LayoutTypeOK, piece_end
<1>2. Bound(1) = 0 /\ Bound(Len(files) + 1) = TotalLength
  BY FileFacts DEF Bound
<1>3. \A k \in FileIndex : Bound(k) = file_begin(k) /\ Bound(k + 1) = file_end(k)
  BY FileFacts DEF Bound
<1>4. Reached(1) = 0
  BY <1>1, <1>2 DEF Reached, Larger, Smaller
<1>5. Reached(Len(files) + 1) = Len(data)
  BY <1>1, <1>2, FileFacts DEF Reached, Larger, Smaller
<1>6. ASSUME NEW k \in FileIndex
      PROVE  /\ BeforePiece(k) => Reached(k) = 0 /\ Reached(k + 1) = 0
             /\ ~ BeforePiece(k) /\ PastPiece(k) => Reached(k) = Len(data)
             /\ ~ BeforePiece(k) /\ ~ PastPiece(k) =>
                  /\ Reached(k) = Larger(piece_begin, file_begin(k)) - piece_begin
                  /\ Reached(k + 1) = Smaller(piece_end, file_end(k)) - piece_begin
  <2>1. /\ file_begin(k) \in Nat /\ file_end(k) \in Nat
        /\ file_begin(k) <= file_end(k)
    BY FileFacts
  <2>2. /\ Reached(k) = Smaller(Len(data), Larger(0, file_begin(k) - piece_begin))
        /\ Reached(k + 1) = Smaller(Len(data), Larger(0, file_end(k) - piece_begin))
    BY <1>3 DEF Reached
  <2>3. CASE file_end(k) <= piece_begin
    BY <2>1, <2>2, <2>3, <1>1 DEF BeforePiece, Larger, Smaller
  <2>4. CASE ~ (file_end(k) <= piece_begin) /\ file_begin(k) >= piece_begin + Len(data)
    BY <2>1, <2>2, <2>4, <1>1 DEF BeforePiece, PastPiece, piece_end, Larger, Smaller
  <2>5. CASE /\ ~ (file_end(k) <= piece_begin)
             /\ ~ (file_begin(k) >= piece_begin + Len(data))
    BY <2>1, <2>2, <2>5, <1>1, Overlap DEF BeforePiece, PastPiece, piece_end
  <2> QED BY <2>3, <2>4, <2>5
<1> QED BY <1>4, <1>5, <1>6

(* A step keeps src where the files passed so far have brought it. *)
LEMMA LayoutStep_Inv ==
  ASSUME LayoutInv, LayoutStep
  PROVE  LayoutInv'
<1>0. LayoutTypeOK /\ LayoutTypeOK'
  BY LayoutStep_Type DEF LayoutInv
<1>a. /\ at \in {"allocate", "refused"} => result = "none"
      /\ at \in {"file", "write"} => Len(data) > 0 /\ piece_end <= TotalLength
      /\ at = "file" => src = Reached(file)
      /\ at = "write" => Overlaps /\ src + rem = overlap_end - piece_begin
  BY DEF LayoutInv
<1>1. CASE AllocateFile \/ CannotAllocate \/ AllAllocated
  BY <1>1, <1>0, <1>a DEF AllocateFile, CannotAllocate, AllAllocated, LayoutInv
<1>2. CASE SkipFile
  <2>1. Reached(file)' = Reached(file + 1) /\ file \in FileIndex
    BY <1>2 DEF SkipFile, Reached, Bound, file_begin
  <2>2. src' = Reached(file)'
    BY <1>2, <2>1, <1>a, ReachedFacts DEF SkipFile
  <2> QED BY <1>2, <2>2, <1>0, <1>a DEF SkipFile, LayoutInv, piece_end
<1>3. CASE LoopEnds \/ CannotOpen \/ WriteFails
  BY <1>3, <1>0, <1>a DEF LoopEnds, CannotOpen, WriteFails, Ends, LayoutInv
<1>4. CASE OpenFile
  <2>1. /\ overlap_end' = overlap_end /\ Overlaps' = Overlaps
        /\ piece_begin' = piece_begin /\ piece_end' = piece_end
        /\ at = "file" /\ at' = "write" /\ Overlaps /\ data' = data
    BY <1>4 DEF OpenFile, overlap_end, piece_end, file_begin, file_end,
       Overlaps, BeforePiece, PastPiece
  <2>2. src' = overlap_begin - piece_begin /\ rem' = overlap_end - overlap_begin
    BY <1>4 DEF OpenFile
  <2>3. overlap_begin \in Int /\ overlap_end \in Int /\ piece_begin \in Int
    BY <1>0, <2>1, FileFacts DEF LayoutTypeOK, overlap_begin, overlap_end,
       piece_end, Larger, Smaller, Overlaps
  <2>4. src' + rem' = overlap_end' - piece_begin'
    BY <2>1, <2>2, <2>3
  <2> QED BY <2>1, <2>4, <1>0, <1>a DEF LayoutInv
<1>5. ASSUME NEW n \in 1 .. rem, WriteSome(n)
      PROVE  LayoutInv'
  <2>1. /\ overlap_end' = overlap_end /\ Overlaps' = Overlaps
        /\ piece_begin' = piece_begin /\ piece_end' = piece_end
        /\ at = "write" /\ at' = "write" /\ data' = data
        /\ src' = src + n /\ rem' = rem - n
    BY <1>5 DEF WriteSome, overlap_end, piece_end, file_begin, file_end,
       Overlaps, BeforePiece, PastPiece
  <2>2. src \in Nat /\ rem \in Nat /\ n \in Int
    BY <1>0 DEF LayoutTypeOK
  <2>3. src' + rem' = src + rem
    BY <2>1, <2>2
  <2> QED BY <2>1, <2>3, <1>0, <1>a DEF LayoutInv
<1>6. CASE CloseFile
  <2>1. Reached(file)' = Reached(file + 1) /\ file \in FileIndex
    BY <1>6, <1>a DEF CloseFile, Reached, Bound, file_begin, Overlaps
  <2>2. src = overlap_end - piece_begin
    BY <1>6, <1>a, <1>0 DEF CloseFile, LayoutTypeOK
  <2>3. src' = Reached(file)'
    BY <1>6, <1>a, <2>1, <2>2, ReachedFacts DEF CloseFile, Overlaps, overlap_end
  <2> QED BY <1>6, <2>3, <1>0, <1>a DEF CloseFile, LayoutInv, piece_end
<1> QED BY <1>1, <1>2, <1>3, <1>4, <1>5, <1>6 DEF LayoutStep

(* A piece that is written lies inside the stream. *)
LEMMA write_piece_Inv ==
  ASSUME LayoutInv, NEW i \in PieceIndex, NEW d \in PieceData[i],
         write_piece(i, d)
  PROVE  LayoutInv' /\ piece_begin' \in StreamOffsets
<1>1. d \in Seq(0 .. 255) /\ Len(d) = piece_size(i)
  BY PieceDataAssumption
<1>2. /\ i \in Nat /\ PieceLength \in Nat /\ PieceLength * i \in Nat
      /\ i * PieceLength = PieceLength * i
      /\ piece_size(i) \in Nat \ {0}
      /\ PieceLength * i + piece_size(i) <= TotalLength
  BY PieceGeometry, MulType, GeometryAssumption DEF PieceIndex
<1>3. /\ piece_begin' = i * PieceLength /\ data' = d
      /\ at' = "file" /\ file' = 1 /\ src' = 0 /\ rem' = 0 /\ result' = "none"
      /\ UNCHANGED <<exists, content>>
  BY DEF write_piece
<1>4. piece_begin' \in Nat /\ Len(data') > 0 /\ piece_end' <= TotalLength
  BY <1>1, <1>2, <1>3 DEF piece_end
<1>5. LayoutTypeOK'
  BY <1>1, <1>3, <1>4, FileFacts DEF LayoutInv, LayoutTypeOK
<1>6. Reached(file)' = 0
  <2>1. /\ Reached(file)' = Smaller(Len(d), Larger(0, 0 - piece_begin'))
    BY <1>3, FileFacts DEF Reached, Bound, file_begin
  <2>2. Len(d) \in Nat
    BY <1>1
  <2>3. Larger(0, 0 - piece_begin') = 0
    <3>1. ASSUME NEW x \in Nat PROVE Larger(0, 0 - x) = 0
      BY DEF Larger
    <3> QED BY <1>4, <3>1
  <2> QED BY <2>1, <2>2, <2>3 DEF Smaller
<1>7. piece_begin' \in StreamOffsets
  BY <1>2, <1>3, GeometryAssumption DEF StreamOffsets
<1> QED BY <1>3, <1>4, <1>5, <1>6, <1>7 DEF LayoutInv

(* The invariant holds in every state of every behaviour. *)
LEMMA LayoutInvariant == LayoutSpec => []LayoutInv
<1>1. LayoutInv /\ [LayoutNext]_layoutVars => LayoutInv'
  <2> SUFFICES ASSUME LayoutInv, [LayoutNext]_layoutVars PROVE LayoutInv'
    OBVIOUS
  <2>1. CASE LayoutStep
    BY <2>1, LayoutStep_Inv
  <2>2. CASE \E i \in PieceIndex : \E d \in PieceData[i] : write_piece(i, d)
    BY <2>2, write_piece_Inv
  <2>3. CASE UNCHANGED layoutVars
    BY <2>3 DEF layoutVars, LayoutInv, LayoutTypeOK, piece_end, Reached, Bound,
       Overlaps, BeforePiece, PastPiece, overlap_end, FilePosition,
       file_begin, file_end
  <2> QED BY <2>1, <2>2, <2>3 DEF LayoutNext
<1> QED BY <1>1, LayoutInit_Inv, PTL DEF LayoutSpec

(* Neither the piece's buffer is read nor the open file written outside its *)
(* bounds, whatever the lengths of the files and of the pieces             *)
(* (write_piece's overlap arithmetic).                                     *)
THEOREM LayoutTypeCorrect == LayoutSpec => []LayoutTypeOK
<1>1. LayoutInv => LayoutTypeOK
  BY DEF LayoutInv
<1> QED BY <1>1, LayoutInvariant, PTL

-----------------------------------------------------------------------------

(* Each of these holds in both states of a step. *)
LEMMA StreamType ==
  /\ LayoutTypeOK => Stream \in [StreamOffsets -> 0 .. 255]
  /\ LayoutTypeOK' => Stream' \in [StreamOffsets -> 0 .. 255]
<1>1. LayoutTypeOK => Stream \in [StreamOffsets -> 0 .. 255]
  <2> SUFFICES ASSUME LayoutTypeOK
               PROVE  Stream \in [StreamOffsets -> 0 .. 255]
    OBVIOUS
  <2>1. ASSUME NEW o \in StreamOffsets
        PROVE  content[Opened(FileAt(o))][o - file_begin(FileAt(o))] \in 0 .. 255
    <3>1. Opened(FileAt(o)) \in Paths
      BY FileOfOffset DEF Paths
    <3> QED BY <3>1, FileOfOffset DEF LayoutTypeOK
  <2> QED BY <2>1 DEF Stream
<1>2. (LayoutTypeOK => Stream \in [StreamOffsets -> 0 .. 255])'
  BY <1>1, PTL
<1> QED BY <1>1, <1>2

(* How far a write has come, in the terms of StreamWrite. *)
LEMMA StatusOf ==
  /\ LayoutTypeOK =>
       /\ at \in {"allocate", "refused"} => StreamStatus = "new"
       /\ at \in {"file", "write"} => StreamStatus = "writing"
       /\ at = "ready" /\ result = "none" => StreamStatus = "idle"
       /\ at = "ready" /\ result # "none" => StreamStatus = result
  /\ LayoutTypeOK' =>
       /\ at' \in {"allocate", "refused"} => StreamStatus' = "new"
       /\ at' \in {"file", "write"} => StreamStatus' = "writing"
       /\ at' = "ready" /\ result' = "none" => StreamStatus' = "idle"
       /\ at' = "ready" /\ result' # "none" => StreamStatus' = result'
BY DEF LayoutTypeOK, StreamStatus

(* The stream before allocation is whatever the files hold. *)
LEMMA LayoutInit_Stream == LayoutInit => S!Init
<1> SUFFICES ASSUME LayoutInit PROVE S!Init
  OBVIOUS
<1>1. LayoutTypeOK
  BY LayoutInit_Inv DEF LayoutInv
<1> QED BY <1>1, StreamType, StatusOf DEF LayoutInit, S!Init

(* Setting space aside changes no byte but to zero. *)
LEMMA AllocateFile_Stream ==
  ASSUME LayoutInv, LayoutTypeOK', AllocateFile
  PROVE  S!Reserve
<1> DEFINE p    == Allocated(file)
           last == files[file].length - 1
           was  == IF p \in exists THEN content[p]
                                   ELSE [c \in StreamOffsets |-> 0]
           low  == [c \in StreamOffsets |-> IF c = last THEN 0 ELSE was[c]]
<1>1. p \in Paths /\ file \in FileIndex /\ at = "allocate"
  BY DEF AllocateFile, Paths
<1>2. \A c \in StreamOffsets : was[c] \in {content[p][c], 0}
  BY <1>1
<1>3. PICK now \in {was, low} : content' = [content EXCEPT ![p] = now]
  BY DEF AllocateFile
<1>4. \A c \in StreamOffsets : now[c] \in {content[p][c], 0}
  BY <1>2, <1>3
<1> HIDE DEF p, was, low
<1>5. \A q \in Paths : \A c \in StreamOffsets :
        content'[q][c] \in {content[q][c], 0}
  BY <1>1, <1>3, <1>4 DEF LayoutInv, LayoutTypeOK
<1>6. \A o \in StreamOffsets : Stream'[o] \in {Stream[o], 0}
  <2> SUFFICES ASSUME NEW o \in StreamOffsets
               PROVE  Stream'[o] \in {Stream[o], 0}
    OBVIOUS
  <2>1. /\ Opened(FileAt(o)) \in Paths
        /\ o - file_begin(FileAt(o)) \in StreamOffsets
    BY FileOfOffset DEF Paths
  <2> QED BY <2>1, <1>5 DEF Stream
<1> DEFINE cleared == {o \in StreamOffsets : Stream'[o] # Stream[o]}
<1>7. Stream' = [o \in StreamOffsets |->
                   IF o \in cleared THEN 0 ELSE Stream[o]]
  <2>1. Stream' \in [StreamOffsets -> 0 .. 255]
    BY StreamType
  <2> QED BY <2>1, <1>6
<1>8. UNCHANGED <<at, piece_begin, data, src, result>>
  BY DEF AllocateFile
<1>9. StreamStatus = "new" /\ StreamStatus' = "new"
  BY <1>1, <1>8, StatusOf DEF LayoutInv
<1> QED BY <1>7, <1>8, <1>9 DEF S!Reserve

(* Offsets of the stream, of the open file and of the piece, converted. *)
LEMMA Positions ==
  ASSUME NEW o \in Int, NEW b \in Nat, NEW s \in Nat, NEW f \in Nat, NEW m \in Nat
  PROVE  /\ o - f \in b + s - f .. b + s - f + m - 1 <=> o \in b + s .. b + s + m - 1
         /\ s + (o - f) - (b + s - f) + 1 = o - b + 1
OBVIOUS

(* A call of write() stores bytes of the piece where the stream has them,   *)
(* whatever file that is in.                                               *)
LEMMA WriteSome_Stream ==
  ASSUME LayoutInv, LayoutTypeOK', NEW n \in 1 .. rem, WriteSome(n)
  PROVE  S!Put(n) /\ n \in 1 .. Len(data) - src
<1>1. /\ at = "write" /\ file \in FileIndex
      /\ src \in Nat /\ rem \in Nat /\ piece_begin \in Nat /\ n \in Nat
      /\ n <= rem /\ src + rem <= Len(data) /\ Len(data) \in Nat
      /\ piece_begin + src - file_begin(file) >= 0
      /\ piece_begin + src - file_begin(file) + rem <= files[file].length
  BY DEF WriteSome, LayoutInv, LayoutTypeOK, FilePosition
<1>2. /\ src' = src + n
      /\ UNCHANGED <<at, piece_begin, data, result>>
  BY DEF WriteSome
<1>3. /\ file_begin(file) \in Nat /\ file_end(file) \in Nat
      /\ file_end(file) = file_begin(file) + files[file].length
      /\ files[file].length \in Nat
  BY <1>1, FileFacts
<1> DEFINE put(o) == IF o \in piece_begin + src .. piece_begin + src + n - 1
                       THEN data[o - piece_begin + 1] ELSE Stream[o]
<1>4. ASSUME NEW o \in StreamOffsets
      PROVE  Stream'[o] = put(o)
  <2> DEFINE k == FileAt(o)
             c == o - file_begin(k)
  <2>1. /\ k \in FileIndex /\ c \in StreamOffsets /\ o \in Int
        /\ file_begin(k) \in Nat
    BY FileOfOffset, FileFacts DEF StreamOffsets
  <2>2. Opened(k) \in Paths /\ Opened(file) \in Paths
    BY <2>1, <1>1 DEF Paths
  <2>3. Stream'[o] = content'[Opened(k)][c] /\ Stream[o] = content[Opened(k)][c]
    BY DEF Stream
  <2>4. content \in [Paths -> [StreamOffsets -> 0 .. 255]]
    BY DEF LayoutInv, LayoutTypeOK
  <2>5. CASE k = file
    <3>1. content'[Opened(file)][c] =
            IF c \in FilePosition .. FilePosition + n - 1
              THEN data[src + c - FilePosition + 1] ELSE content[Opened(file)][c]
      BY <2>1, <2>2, <2>4 DEF WriteSome
    <3>2. /\ FilePosition = piece_begin + src - file_begin(file)
          /\ c = o - file_begin(file)
      BY <2>5 DEF FilePosition
    <3>0. /\ o \in Int /\ piece_begin \in Nat /\ src \in Nat
          /\ file_begin(file) \in Nat /\ n \in Nat
      BY <1>1, <1>3, <2>1
    <3> HIDE DEF k, c
    <3>3. c \in FilePosition .. FilePosition + n - 1
            <=> o \in piece_begin + src .. piece_begin + src + n - 1
      BY <3>2, <3>0, Positions
    <3>4. src + c - FilePosition + 1 = o - piece_begin + 1
      BY <3>2, <3>0, Positions
    <3> QED BY <2>3, <2>5, <3>1, <3>3, <3>4
  <2>6. CASE k # file
    <3>1. Opened(k) # Opened(file)
      BY <2>1, <2>6, <1>1, FilesAssumption
    <3>2. content'[Opened(k)] = content[Opened(k)]
      BY <3>1, <2>2, <2>4 DEF WriteSome
    <3>3. ~ (file_begin(file) <= o /\ o < file_end(file))
      BY <1>1, <2>6, FileOfOffset
    <3>4. o \notin piece_begin + src .. piece_begin + src + n - 1
      <4>1. o \in Int /\ (o < file_begin(file) \/ o >= file_end(file))
        BY <3>3, <1>3, <2>1
      <4>2. /\ file_begin(file) <= piece_begin + src
            /\ piece_begin + src + n <= file_end(file)
        BY <1>1, <1>3
      <4> QED BY <4>1, <4>2, <1>1, <1>3
    <3> QED BY <2>3, <3>2, <3>4
  <2> QED BY <2>5, <2>6
<1>5. Stream' = [o \in StreamOffsets |-> put(o)]
  <2>1. Stream' \in [StreamOffsets -> 0 .. 255]
    BY StreamType
  <2> HIDE DEF put
  <2> QED BY <2>1, <1>4
<1>6. StreamStatus = "writing" /\ StreamStatus' = "writing"
  BY <1>1, <1>2, StatusOf DEF LayoutInv
<1>7. n \in 1 .. Len(data) - src
  BY <1>1
<1> QED BY <1>2, <1>5, <1>6, <1>7 DEF S!Put

(* Every step of the loop over files is one of StreamWrite, or none. *)
LEMMA LayoutStep_Stream ==
  ASSUME LayoutInv, LayoutStep
  PROVE  [S!Next]_(S!vars)
<1>0. LayoutTypeOK /\ LayoutTypeOK'
  BY LayoutStep_Inv DEF LayoutInv
<1>1. CASE AllocateFile
  BY <1>1, <1>0, AllocateFile_Stream DEF S!Next
<1>2. CASE CannotAllocate
  <2>1. StreamStatus = "new" /\ StreamStatus' = "new"
    BY <1>2, <1>0, StatusOf DEF CannotAllocate
  <2> QED BY <1>2, <2>1 DEF CannotAllocate, Stream, S!vars
<1>3. CASE AllAllocated
  <2>1. StreamStatus = "new" /\ StreamStatus' = "idle"
    BY <1>3, <1>0, StatusOf DEF AllAllocated, LayoutInv
  <2>2. Stream' = Stream /\ Stream \in [StreamOffsets -> 0 .. 255]
    BY <1>3, <1>0, StreamType DEF AllAllocated, Stream
  <2> DEFINE cleared == {}
  <2>3. /\ cleared \in SUBSET StreamOffsets
        /\ Stream' = [o \in StreamOffsets |->
                        IF o \in cleared THEN 0 ELSE Stream[o]]
    BY <2>2
  <2>4. UNCHANGED <<piece_begin, data, src>>
    BY <1>3 DEF AllAllocated
  <2> HIDE DEF cleared
  <2> QED BY <2>1, <2>3, <2>4 DEF S!Next, S!Reserve
<1>4. CASE SkipFile
  <2>1. StreamStatus' = StreamStatus /\ Stream' = Stream
    BY <1>4 DEF SkipFile, StreamStatus, Stream
  <2> QED BY <1>4, <2>1 DEF SkipFile, S!vars
<1>5. CASE LoopEnds
  <2>1. StreamStatus = "writing" /\ StreamStatus' = "written"
    BY <1>5, <1>0, StatusOf DEF LoopEnds, Ends
  <2>2. src = Len(data)
    <3>1. at = "file" /\ src = Reached(file)
      BY <1>5 DEF LoopEnds, LayoutInv
    <3>2. CASE file \in FileIndex
      BY <1>5, <3>1, <3>2, ReachedFacts DEF LoopEnds
    <3>3. CASE file \notin FileIndex
      <4>1. file = Len(files) + 1
        BY <3>3, <1>0, FileFacts DEF LayoutTypeOK
      <4> QED BY <3>1, <4>1, ReachedFacts
    <3> QED BY <3>2, <3>3
  <2>3. UNCHANGED <<Stream, piece_begin, data, src>>
    BY <1>5 DEF LoopEnds, Ends, Stream
  <2> QED BY <2>1, <2>2, <2>3 DEF S!Next, S!Finish
<1>6. CASE OpenFile
  <2>1. StreamStatus = "writing" /\ StreamStatus' = "writing"
    BY <1>6, <1>0, StatusOf DEF OpenFile
  <2>2. src' = src
    BY <1>6, ReachedFacts DEF OpenFile, Overlaps, overlap_begin, LayoutInv
  <2>3. UNCHANGED <<Stream, piece_begin, data>>
    BY <1>6 DEF OpenFile, Stream
  <2> QED BY <2>1, <2>2, <2>3 DEF S!vars
<1>7. CASE CannotOpen \/ WriteFails
  <2>1. StreamStatus = "writing" /\ StreamStatus' = "failed"
    BY <1>7, <1>0, StatusOf DEF CannotOpen, WriteFails, Ends
  <2>2. UNCHANGED <<Stream, piece_begin, data, src>>
    BY <1>7 DEF CannotOpen, WriteFails, Ends, Stream
  <2>3. src < Len(data)
    <3>1. /\ piece_begin \in Nat /\ Len(data) \in Nat /\ src \in Nat /\ rem \in Nat
          /\ at \in {"file", "write"} => Len(data) > 0
      BY <1>0 DEF LayoutTypeOK, LayoutInv
    <3>2. CASE CannotOpen
      <4>1. src = Larger(piece_begin, file_begin(file)) - piece_begin
        BY <3>2, ReachedFacts DEF CannotOpen, Overlaps, LayoutInv
      <4>2. file_begin(file) < piece_begin + Len(data) /\ Len(data) > 0
            /\ file_begin(file) \in Nat
        BY <3>1, <3>2, FileFacts DEF CannotOpen, Overlaps, PastPiece, piece_end
      <4> QED BY <4>1, <4>2, <3>1 DEF Larger
    <3>3. CASE WriteFails
      BY <3>1, <3>3, <1>0 DEF WriteFails, LayoutTypeOK
    <3> QED BY <1>7, <3>2, <3>3
  <2> QED BY <2>1, <2>2, <2>3 DEF S!Next, S!Fail
<1>8. ASSUME NEW n \in 1 .. rem, WriteSome(n)
      PROVE  [S!Next]_(S!vars)
  BY <1>8, <1>0, WriteSome_Stream DEF S!Next
<1>9. CASE CloseFile
  <2>1. StreamStatus = "writing" /\ StreamStatus' = "writing"
    BY <1>9, <1>0, StatusOf DEF CloseFile
  <2> QED BY <1>9, <2>1 DEF CloseFile, Stream, S!vars
<1> QED BY <1>1, <1>2, <1>3, <1>4, <1>5, <1>6, <1>7, <1>8, <1>9 DEF LayoutStep

(* A call of write_piece starts a write at the piece's offset. *)
LEMMA write_piece_Stream ==
  ASSUME LayoutInv, NEW i \in PieceIndex, NEW d \in PieceData[i],
         write_piece(i, d)
  PROVE  S!Start
<1>1. LayoutTypeOK /\ LayoutTypeOK' /\ piece_begin' \in StreamOffsets
  BY write_piece_Inv DEF LayoutInv
<1>2. /\ at = "ready" /\ at' = "file" /\ src' = 0
      /\ data' \in Seq(0 .. 255) /\ Stream' = Stream
  BY <1>1 DEF write_piece, Stream, LayoutTypeOK
<1>3. StreamStatus \in {"idle", "written", "failed"} /\ StreamStatus' = "writing"
  BY <1>1, <1>2, StatusOf DEF LayoutTypeOK
<1> QED BY <1>1, <1>2, <1>3 DEF S!Start

(* allocate_files and write_piece do to the files what StreamWrite says of  *)
(* the stream: the bytes of a piece go to their places and nowhere else,    *)
(* and success means all of them, however many files the piece spans.      *)
THEOREM LayoutRefinement == LayoutSpec => ImplementsStream
<1>1. LayoutInv /\ [LayoutNext]_layoutVars => [S!Next]_(S!vars)
  <2> SUFFICES ASSUME LayoutInv, [LayoutNext]_layoutVars
               PROVE  [S!Next]_(S!vars)
    OBVIOUS
  <2>1. CASE LayoutStep
    BY <2>1, LayoutStep_Stream
  <2>2. CASE \E i \in PieceIndex : \E d \in PieceData[i] : write_piece(i, d)
    BY <2>2, write_piece_Stream DEF S!Next
  <2>3. CASE UNCHANGED layoutVars
    BY <2>3 DEF layoutVars, Stream, StreamStatus, S!vars
  <2> QED BY <2>1, <2>2, <2>3 DEF LayoutNext
<1> QED
  BY <1>1, LayoutInit_Stream, LayoutInvariant, PTL
     DEF LayoutSpec, ImplementsStream, S!Spec
=============================================================================
