--------------------------- MODULE MetainfoParse ---------------------------
(***************************************************************************)
(* From the .torrent file to the Metainfo (metainfo.cpp, with read_file of *)
(* session.cpp): the file is read, decoded, searched for the raw bytes of  *)
(* its info dictionary, which are hashed, and its fields are taken over.   *)
(* The search works on the text, not on what decode made of it.            *)
(***************************************************************************)
EXTENDS Bencode

CONSTANTS
  DigestSize,    \* bytes of a SHA-1 digest (20 in the code)
  Torrents,      \* what authors describe: [announce, announce_list, comment,
                 \* name, piece_length, piece_hashes, files]
  BadTexts       \* texts that are no torrent, or one with impossible numbers

VARIABLES
  author,        \* what the file's author described (not in the code)
  intact,        \* whether all of what the author wrote is in the file
  raw,           \* the text of the file
  parsing,       \* where the constructor of Session is, see Next
  root,          \* root, what decode made of raw
  start,         \* value_start
  pos,           \* pos
  depth,         \* depth
  meta           \* meta_

metaVars == <<author, intact, raw, parsing, root, start, pos, depth, meta>>

Nobody == [nobody |-> TRUE]   \* no author, no meaning

-----------------------------------------------------------------------------
(* Authors.  The bencoding is BEP 3's: a single file has a length, several  *)
(* are a list.  No path at all is how Metainfo marks a single file.        *)

Str(text) == [str |-> text]
Strs(texts) == [list |-> [n \in DOMAIN texts |-> Str(texts[n])]]

InfoOf(t) ==
  [dict |->
    (<<"name">> :> Str(t.name)) @@
    (<<"piece length">> :> [int |-> t.piece_length]) @@
    (<<"pieces">> :> Str(FlattenSeq(t.piece_hashes))) @@
    IF t.files[1].path = <<>>
      THEN <<"length">> :> [int |-> t.files[1].length]
      ELSE <<"files">> :> [list |-> [n \in DOMAIN t.files |-> [dict |->
             (<<"length">> :> [int |-> t.files[n].length]) @@
             (<<"path">> :> Strs(t.files[n].path))]]]]

TorrentOf(t) ==
  [dict |-> (<<"announce">> :> Str(t.announce)) @@
            (<<"announce-list">> :> [list |-> [n \in DOMAIN t.announce_list |->
                                                 Strs(t.announce_list[n])]]) @@
            (<<"comment">> :> Str(t.comment)) @@
            (<<"info">> :> InfoOf(t))]

(* A file may also have been cut short, or have bytes behind its end. *)
MetaInit ==
  /\ \/ \E t \in Torrents : \E file \in {encode(TorrentOf(t))} :
          \E text \in Prefixes(file) \cup {Append(file, "e")} :
            author = t /\ raw = text /\ intact = IsPrefix(file, text)
     \/ \E text \in BadTexts : author = Nobody /\ raw = text /\ intact = FALSE
  /\ parsing = "open" /\ root = Throws /\ start = 0 /\ pos = 0 /\ depth = 0 /\ meta = <<>>

-----------------------------------------------------------------------------
(* Reading and decoding *)

Goes(where) ==
  /\ parsing' = where
  /\ UNCHANGED <<author, intact, raw, root, start, pos, depth, meta>>

(* No .torrent file, or it cannot be opened or read: main shows an error.   *)
CannotRead == parsing = "open" /\ Goes("refused")

EmptyFile == parsing = "open" /\ raw = <<>> /\ Goes("refused")

DecodeRoot ==
  /\ parsing = "open" /\ raw # <<>>
  /\ root' = decode(raw)
  /\ parsing' = "find"
  /\ UNCHANGED <<author, intact, raw, start, pos, depth, meta>>

Root == root.val.dict

HasString(d, key) == key \in DOMAIN d /\ is_string(d[key])
HasInt(d, key)    == key \in DOMAIN d /\ is_int(d[key])
HasList(d, key)   == key \in DOMAIN d /\ is_list(d[key])
HasDict(d, key)   == key \in DOMAIN d /\ is_dict(d[key])

RootValid ==
  /\ ~Failed(root) /\ is_dict(root.val)
  /\ HasString(Root, <<"announce">>)

Texts(list) ==
  LET strings == SelectSeq(list, is_string) IN [n \in DOMAIN strings |-> strings[n].str]

(* Tiers that are no list, or hold no string, are left out. *)
announce_list ==
  LET tiers == IF HasList(Root, <<"announce-list">>)
                 THEN SelectSeq(Root[<<"announce-list">>].list, is_list) ELSE <<>>
  IN SelectSeq([n \in DOMAIN tiers |-> Texts(tiers[n].list)], LAMBDA t : t # <<>>)

BadRoot == parsing = "find" /\ ~RootValid /\ Goes("refused")

-----------------------------------------------------------------------------
(* find_raw_info *)

KEY == EncodeString(<<"info">>)   \* "4:info"

KeyPosition == FirstPlace(raw, KEY)

FindKey ==
  LET value_start == KeyPosition + Len(KEY) IN
  /\ parsing = "find" /\ RootValid
  /\ KeyPosition # 0 /\ value_start <= Len(raw)
  /\ start' = value_start /\ pos' = value_start /\ depth' = 0
  /\ parsing' = "scan"
  /\ UNCHANGED <<author, intact, raw, root, meta>>

NoKey ==
  /\ parsing = "find" /\ RootValid
  /\ \/ KeyPosition = 0
     \/ KeyPosition + Len(KEY) > Len(raw)
  /\ Goes("refused")

(* One turn of the scanner's loop: on to the next place, and out of the     *)
(* loop or not.                                                            *)
Moves(next, level, breaks) ==
  /\ pos' = next /\ depth' = level
  /\ parsing' = IF breaks THEN "fields" ELSE "scan"
  /\ UNCHANGED <<author, intact, raw, root, start, meta>>

Scans(c) == parsing = "scan" /\ pos <= Len(raw) /\ raw[pos] = c

ScanInteger ==
  LET ends == find(raw, "e", pos + 1) IN
  /\ Scans("i")
  /\ Moves(IF ends = 0 THEN Len(raw) + 2 ELSE ends + 1, depth, depth = 0)

ScanOpen == (Scans("l") \/ Scans("d")) /\ Moves(pos + 1, depth + 1, FALSE)

ClosedLate(level) == level < 0   \* faulty variant: one "e" too many is eaten

Closed(level) == level <= 0

ScanClose == Scans("e") /\ Moves(pos + 1, depth - 1, Closed(depth - 1))

(* The length is summed up from whatever stands before the colon. *)
ScanString ==
  LET colon == find(raw, ":", pos)
      len   == FoldLeft(LAMBDA n, c : 10 * n + Byte(c) - Byte("0"), 0,
                        SubSeq(raw, pos, colon - 1))
  IN /\ \E c \in ToSet(Digits) : Scans(c)
     /\ colon # 0
     /\ Moves(colon + 1 + len, depth, depth = 0)

ScanFails ==
  /\ parsing = "scan" /\ pos <= Len(raw)
  /\ IF IsDigit(raw[pos]) THEN find(raw, ":", pos) = 0
                          ELSE raw[pos] \notin {"i", "l", "d", "e"}
  /\ Goes("refused")

ScanEnds == parsing = "scan" /\ pos > Len(raw) /\ Goes("fields")

(* substr stops at the end of the text. *)
raw_info == SubSeq(raw, start, IF pos - 1 < Len(raw) THEN pos - 1 ELSE Len(raw))

-----------------------------------------------------------------------------
(* The fields of the info dictionary, as decode found it *)

Info == Root[<<"info">>].dict

FileValid(f) ==
  /\ is_dict(f) /\ HasInt(f.dict, <<"length">>) /\ HasList(f.dict, <<"path">>)
  /\ \A n \in DOMAIN f.dict[<<"path">>].list : is_string(f.dict[<<"path">>].list[n])

InfoValid ==
  /\ HasDict(Root, <<"info">>)
  /\ HasString(Info, <<"name">>)
  /\ HasInt(Info, <<"piece length">>)
  /\ HasString(Info, <<"pieces">>)
  /\ Len(Info[<<"pieces">>].str) % DigestSize = 0
  /\ \/ HasInt(Info, <<"length">>)
     \/ /\ HasList(Info, <<"files">>)
        /\ \A n \in DOMAIN Info[<<"files">>].list : FileValid(Info[<<"files">>].list[n])

parse_piece_hashes(text) ==
  [n \in 1 .. Len(text) \div DigestSize |->
    SubSeq(text, (n - 1) * DigestSize + 1, n * DigestSize)]

(* A number of 64 bits.  Sums that overflow are undefined behaviour; what    *)
(* is built wraps them around.                                             *)
int64(n) == ((n + IntMax + 1) % (2 * (IntMax + 1))) - IntMax - 1

OffsetAfterFile(offset, length) == int64(offset + length)   \* faulty: too soon

OffsetOfFile(offset, length) == offset

(* One turn of the loop: the running offset, and the files so far. *)
AddFile(sofar, f) ==
  LET length == f.dict[<<"length">>].int IN
  [offset |-> int64(sofar.offset + length),
   files  |-> Append(sofar.files,
                [path   |-> Texts(f.dict[<<"path">>].list),
                 length |-> length,
                 offset |-> OffsetOfFile(sofar.offset, length)])]

parse_files(list) == FoldLeft(AddFile, [offset |-> 0, files |-> <<>>], list).files

Files ==
  IF HasInt(Info, <<"length">>)
    THEN <<[path |-> <<>>, length |-> Info[<<"length">>].int, offset |-> 0]>>
    ELSE parse_files(Info[<<"files">>].list)

Lengths(fs) == [n \in DOMAIN fs |-> fs[n].length]

Sum(lengths) == FoldLeft(LAMBDA total, n : int64(total + n), 0, lengths)

Parsed_meta ==
  [announce      |-> Root[<<"announce">>].str,
   announce_list |-> announce_list,
   raw_info      |-> raw_info,      \* info_hash, the digest of these bytes
   name          |-> Info[<<"name">>].str,
   piece_length  |-> Info[<<"piece length">>].int,
   piece_hashes  |-> parse_piece_hashes(Info[<<"pieces">>].str),
   files         |-> Files,
   total_length  |-> Sum(Lengths(Files))]

BadInfo == parsing = "fields" /\ ~InfoValid /\ Goes("refused")

Dividend(m) == int64(m.total_length + m.piece_length - 1)

(* The quotients that trap: by zero, and the one that does not fit.         *)
Divides(m) ==
  /\ m.piece_length # 0
  /\ ~(Dividend(m) = -IntMax - 1 /\ m.piece_length = -1)

(* The division traps before anything is thrown, and the process dies.     *)
DivisionTraps ==
  parsing = "fields" /\ InfoValid /\ ~Divides(Parsed_meta) /\ Goes("crash")

(* C++ rounds to zero. *)
Quotient(a, b) ==
  LET q == (IF a < 0 THEN -a ELSE a) \div (IF b < 0 THEN -b ELSE b)
  IN IF (a < 0) = (b < 0) THEN q ELSE -q


expected_pieces(m) == Quotient(Dividend(m), m.piece_length)

(* A negative quotient becomes a size_t no number of hashes is equal to.    *)
CountRight(m) == Len(m.piece_hashes) = expected_pieces(m)

BadCount ==
  /\ parsing = "fields" /\ InfoValid
  /\ Divides(Parsed_meta) /\ ~CountRight(Parsed_meta)
  /\ Goes("refused")

(* The constructor of PieceManager makes a buffer of each piece's size. *)
HasBuffers(m) ==
  LET pieces == Len(m.piece_hashes) IN
  \A n \in 1 .. pieces :
    0 <= IF n < pieces THEN m.piece_length
                       ELSE int64(m.total_length - (pieces - 1) * m.piece_length)

NegativeSize ==
  /\ parsing = "fields" /\ InfoValid
  /\ Divides(Parsed_meta) /\ CountRight(Parsed_meta) /\ ~HasBuffers(Parsed_meta)
  /\ Goes("refused")

TakeFields ==
  /\ parsing = "fields" /\ InfoValid
  /\ Divides(Parsed_meta) /\ CountRight(Parsed_meta) /\ HasBuffers(Parsed_meta)
  /\ meta' = Parsed_meta
  /\ parsing' = "done" /\ root' = Throws
  /\ UNCHANGED <<author, intact, raw, start, pos, depth>>

MetaNext ==
  \/ CannotRead \/ EmptyFile \/ BadRoot \/ DecodeRoot
  \/ FindKey \/ NoKey
  \/ ScanInteger \/ ScanOpen \/ ScanClose \/ ScanString \/ ScanFails \/ ScanEnds
  \/ BadInfo \/ DivisionTraps \/ BadCount \/ NegativeSize \/ TakeFields

-----------------------------------------------------------------------------
(* Properties *)

(* "in a well-formed .torrent file the "4:info" key appears only once", says *)
(* find_raw_info; this is so when no other string of the file spells it.    *)
KeyAppearsOnce == Cardinality(Places(raw, KEY)) = 1

(* The sum of the lengths, which no integer of the program may hold. *)
Total(fs) == FoldLeft(+, 0, Lengths(fs))

(* There is a hash for every piece, and none without one. *)
PieceCountFits(t) ==
  LET pieces == Len(t.piece_hashes) IN
  /\ Total(t.files) <= pieces * t.piece_length
  /\ (pieces - 1) * t.piece_length < Total(t.files)

(* Lengths a torrent can have, and that 64 bits can round up to pieces.     *)
NumbersSane(t) ==
  /\ t.piece_length > 0
  /\ \A n \in DOMAIN t.files : t.files[n].length >= 0
  /\ Total(t.files) + t.piece_length - 1 <= IntMax


(* What Metainfo and FileLayout assume of a torrent: its files follow each  *)
(* other in the stream without gap, in the author's lengths, to its end.    *)
FilesTileStream ==
  parsing = "done" /\ author # Nobody =>
    /\ meta.files[1].offset = 0
    /\ \A n \in DOMAIN meta.files :
         LET file_end == meta.files[n].offset + meta.files[n].length IN
         /\ meta.files[n].length = author.files[n].length
         /\ file_end = IF n = Len(meta.files) THEN meta.total_length
                                              ELSE meta.files[n + 1].offset

(* What is hashed is the info dictionary, byte for byte as the author wrote *)
(* it: the torrent has the same name to the tracker and to every peer.     *)
InfoHashNamesTorrent ==
  parsing = "done" /\ author # Nobody /\ KeyAppearsOnce =>
    meta.raw_info = encode(InfoOf(author))

-----------------------------------------------------------------------------
(* What a comment of the code says, and the code does not do *)

(* find_raw_info: in a well-formed .torrent the key's text "appears only     *)
(* once at the root level", so that what it finds is the info dictionary.   *)
RawInfoOfWellFormed ==
  parsing = "done" /\ intact => meta.raw_info = encode(InfoOf(author))
=============================================================================
