----------------------------- MODULE FileLayout -----------------------------
(***************************************************************************)
(* Where the bytes of the stream live: allocate_files and write_piece of   *)
(* PieceManager (src/piece_manager.cpp), which cut a verified piece at the *)
(* boundaries of the destination files and write each part with as many    *)
(* calls of write() as it takes.  A path is a sequence of components below *)
(* save_dir_.                                                              *)
(***************************************************************************)
EXTENDS Metainfo, Sequences

CONSTANTS
  name,          \* Metainfo::name
  files,         \* Metainfo::files, as a sequence of [path, length, offset]
  OldFiles,      \* what save_dir_ may hold before: sets of paths
  OldByte,       \* what an older file holds
  PieceData      \* PieceData[i]: the buffers that may be written for piece i

FileIndex == 1 .. Len(files)

is_single_file == Len(files) = 1 /\ files[1].path = <<>>

(* allocate_files puts the directory of the torrent above each path. *)
Allocated(k) == <<name>> \o files[k].path

(* write_piece does so only for a single file. *)
Opened(k) == IF is_single_file THEN <<name>> ELSE files[k].path

Paths == {Allocated(k) : k \in FileIndex} \cup {Opened(k) : k \in FileIndex}

file_begin(k) == files[k].offset
file_end(k)   == files[k].offset + files[k].length

(* parse_files: offsets are sums of the lengths before (MetainfoParse); no  *)
(* two files of a torrent share a path.                                    *)
ASSUME FilesAssumption ==
  /\ Len(files) \in Nat \ {0}
  /\ \A k \in FileIndex : files[k].length \in Nat /\ files[k].offset \in Nat
  /\ files[1].offset = 0
  /\ \A k \in FileIndex : k + 1 \in FileIndex => file_begin(k + 1) = file_end(k)
  /\ file_end(Len(files)) = TotalLength
  /\ \A j, k \in FileIndex : Opened(j) = Opened(k) => j = k

ASSUME PieceDataAssumption ==
  /\ OldByte \in 0 .. 255
  /\ \A i \in PieceIndex : \A d \in PieceData[i] :
       d \in Seq(0 .. 255) /\ Len(d) = piece_size(i)

VARIABLES
  exists,        \* the paths that name a file
  content,       \* content[p][c]: byte c of the file at path p, if there is one
  at,            \* where the thread is: "allocate", "refused", "ready", "file"
                 \* (the loop over files) or "write" (one file is open)
  file,          \* the file the loop is at
  piece_begin,   \* piece_global_begin
  data,          \* the piece's bytes
  src,           \* bytes of data written before src, the next byte's position
  rem,           \* rem
  result         \* of the last write_piece: "none", "written" or "failed"

layoutVars ==
  <<exists, content, at, file, piece_begin, data, src, rem, result>>

LayoutInit ==
  /\ exists \in OldFiles
  /\ content = [p \in Paths |-> [c \in StreamOffsets |-> OldByte]]
  /\ at = "allocate" /\ file = 1
  /\ piece_begin = 0 /\ data = <<>> /\ src = 0 /\ rem = 0
  /\ result = "none"

-----------------------------------------------------------------------------
(* allocate_files, in the constructor *)

(* Opened with O_CREAT and without O_TRUNC; then a zero is written to the   *)
(* last byte, and nobody looks whether that worked.                        *)
AllocateFile ==
  LET p    == Allocated(file)
      last == files[file].length - 1
      was  == IF p \in exists THEN content[p] ELSE [c \in StreamOffsets |-> 0]
  IN
  /\ at = "allocate"
  /\ file \in FileIndex
  /\ exists' = exists \cup {p}
  /\ \E now \in {was, [c \in StreamOffsets |-> IF c = last THEN 0 ELSE was[c]]} :
       content' = [content EXCEPT ![p] = now]
  /\ file' = file + 1
  /\ UNCHANGED <<at, piece_begin, data, src, rem, result>>

(* open failed: the constructor throws and there is no Session. *)
CannotAllocate ==
  /\ at = "allocate"
  /\ file \in FileIndex
  /\ at' = "refused"
  /\ UNCHANGED <<exists, content, file, piece_begin, data, src, rem, result>>

AllAllocated ==
  /\ at = "allocate"
  /\ file \notin FileIndex
  /\ at' = "ready"
  /\ UNCHANGED <<exists, content, file, piece_begin, data, src, rem, result>>

-----------------------------------------------------------------------------
(* write_piece *)

write_piece(i, d) ==
  /\ at = "ready"
  /\ at' = "file" /\ file' = 1
  /\ piece_begin' = i * PieceLength
  /\ data' = d
  /\ src' = 0 /\ rem' = 0
  /\ result' = "none"
  /\ UNCHANGED <<exists, content>>

piece_end == piece_begin + Len(data)

Ends(outcome) ==
  /\ at' = "ready"
  /\ result' = outcome
  /\ UNCHANGED <<exists, content, file, piece_begin, data, src, rem>>

(* The two tests of the loop. *)
BeforePiece(k) == file_end(k) <= piece_begin
PastPiece(k)   == file_begin(k) >= piece_end

SkipFile ==
  /\ at = "file"
  /\ file \in FileIndex /\ BeforePiece(file)
  /\ file' = file + 1
  /\ UNCHANGED <<exists, content, at, piece_begin, data, src, rem, result>>

LoopEnds ==
  /\ at = "file"
  /\ file \in FileIndex => ~BeforePiece(file) /\ PastPiece(file)
  /\ Ends("written")

Overlaps == file \in FileIndex /\ ~BeforePiece(file) /\ ~PastPiece(file)

Larger(a, b)  == IF a > b THEN a ELSE b
Smaller(a, b) == IF a < b THEN a ELSE b

overlap_begin == Larger(piece_begin, file_begin(file))

WholeFile == file_end(file)   \* faulty variant: the piece's end is forgotten

overlap_end == Smaller(piece_end, file_end(file))

OpenFile ==
  /\ at = "file" /\ Overlaps
  /\ Opened(file) \in exists
  /\ at' = "write"
  /\ src' = overlap_begin - piece_begin
  /\ rem' = overlap_end - overlap_begin
  /\ UNCHANGED <<exists, content, file, piece_begin, data, result>>

(* The path names no file, or open or lseek fails. *)
CannotOpen == at = "file" /\ Overlaps /\ Ends("failed")

PieceOffset == src   \* faulty variant: the offset in the piece is sought

(* The byte of the open file that src goes to: the code seeks to the first  *)
(* one and lets write move on.                                             *)
FilePosition == piece_begin + src - file_begin(file)

WriteSome(n) ==
  /\ at = "write"
  /\ n <= rem
  /\ content' = [content EXCEPT ![Opened(file)] =
       [c \in StreamOffsets |->
         IF c \in FilePosition .. FilePosition + n - 1
           THEN data[src + c - FilePosition + 1] ELSE @[c]]]
  /\ src' = src + n
  /\ rem' = rem - n
  /\ UNCHANGED <<exists, at, file, piece_begin, data, result>>

WriteFails == at = "write" /\ rem > 0 /\ Ends("failed")

CloseFile ==
  /\ at = "write" /\ rem = 0
  /\ at' = "file"
  /\ file' = file + 1
  /\ UNCHANGED <<exists, content, piece_begin, data, src, rem, result>>

LayoutStep ==
  \/ AllocateFile \/ CannotAllocate \/ AllAllocated
  \/ SkipFile \/ LoopEnds
  \/ OpenFile \/ CannotOpen
  \/ \E n \in 1 .. rem : WriteSome(n)
  \/ WriteFails \/ CloseFile

LayoutNext ==
  \/ LayoutStep
  \/ \E i \in PieceIndex : \E d \in PieceData[i] : write_piece(i, d)

LayoutSpec == LayoutInit /\ [][LayoutNext]_layoutVars

-----------------------------------------------------------------------------
(* Properties *)

(* Neither the piece's buffer is read nor the open file written outside.   *)
LayoutTypeOK ==
  /\ exists \subseteq (UNION OldFiles) \cup Paths
  /\ content \in [Paths -> [StreamOffsets -> 0 .. 255]]
  /\ at \in {"allocate", "refused", "ready", "file", "write"}
  /\ file \in 1 .. Len(files) + 1
  /\ piece_begin \in Nat /\ data \in Seq(0 .. 255)
  /\ src \in Nat /\ rem \in Nat
  /\ result \in {"none", "written", "failed"}
  /\ at = "write" => /\ file \in FileIndex
                     /\ src + rem <= Len(data)
                     /\ FilePosition >= 0
                     /\ FilePosition + rem <= files[file].length

(* The stream as the disk holds it: every byte is in one file. *)
FileAt(o) == CHOOSE k \in FileIndex : file_begin(k) <= o /\ o < file_end(k)

Stream == [o \in StreamOffsets |-> content[Opened(FileAt(o))][o - file_begin(FileAt(o))]]

StreamStatus ==
  CASE at \in {"allocate", "refused"}    -> "new"
    [] at \in {"file", "write"}          -> "writing"
    [] at = "ready" /\ result = "none"   -> "idle"
    [] at = "ready" /\ result # "none"   -> result

(* FileLayout implements StreamWrite: a piece that spans files, ends inside *)
(* one or is written in parts goes to its place in the stream, in order and *)
(* leaving every other byte alone, and success means that all of it is      *)
(* written.  This is the disk PieceManager has.                            *)
S == INSTANCE StreamWrite WITH
       Offsets  <- StreamOffsets,
       Contents <- 0 .. 255,
       stream   <- Stream,
       begin    <- piece_begin,
       data     <- data,
       next     <- src,
       status   <- StreamStatus

ImplementsStream == S!Spec

-----------------------------------------------------------------------------
(* What a comment of the code says, and the code does not do *)

(* write_piece, of the file it opens: "must already exist after             *)
(* allocate_files".                                                        *)
OpensAllocated == at = "file" /\ Overlaps => Opened(file) \in exists
=============================================================================
