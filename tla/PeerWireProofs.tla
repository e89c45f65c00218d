--------------------------- MODULE PeerWireProofs ---------------------------
(***************************************************************************)
(* Proofs about PeerWire, for every set of messages, every number of them  *)
(* and every cut of the stream: the bytes that are on their way are always *)
(* the rest of the frame being read, followed by whole frames of the       *)
(* messages that are still to be read.                                     *)
(***************************************************************************)
EXTENDS PeerWire, SequenceTheorems, TLAPS

-----------------------------------------------------------------------------
(* Words *)

(* One digit of a big-endian number. *)
LEMMA Digit ==
  ASSUME NEW v \in Nat
  PROVE  \E q \in Nat, r \in Byte :
           q = v \div 256 /\ r = v % 256 /\ v = 256 * q + r
<1> DEFINE q == v \div 256
           r == v % 256
<1>1. q \in Nat /\ r \in Byte
  BY DEF Byte
<1>2. r = v - 256 * q
  OBVIOUS
<1>3. q = v \div 256 /\ r = v % 256
  OBVIOUS
<1> HIDE DEF q, r
<1>4. v = 256 * q + r
  BY <1>1, <1>2 DEF Byte
<1> QED BY <1>1, <1>3, <1>4

(* Dividing twice. *)
LEMMA DigitShift ==
  ASSUME NEW v \in Nat
  PROVE  /\ v \div (256 * 256) = (v \div 256) \div 256
         /\ v \div (256 * 256 * 256) = ((v \div 256) \div 256) \div 256
OBVIOUS

(* Four bytes are a stream. *)
LEMMA FourBytes ==
  ASSUME NEW a \in Byte, NEW b \in Byte, NEW c \in Byte, NEW d \in Byte
  PROVE  <<a, b, c, d>> \in Seq(Byte) /\ Len(<<a, b, c, d>>) = 4
OBVIOUS

(* read_u32 gives back what write_u32 wrote, for every 32-bit value.        *)
LEMMA WordRoundTrip ==
  ASSUME NEW v, IsWord(v)
  PROVE  /\ write_u32(v) \in Seq(Byte) /\ Len(write_u32(v)) = 4
         /\ read_u32(write_u32(v)) = v
<1>1. v \in Nat /\ v \div (256 * 256 * 256) \in Byte
  BY DEF IsWord
<1>2. PICK a \in Nat, z \in Byte : a = v \div 256 /\ z = v % 256 /\ v = 256 * a + z
  BY <1>1, Digit
<1>3. PICK b \in Nat, y \in Byte : b = a \div 256 /\ y = a % 256 /\ a = 256 * b + y
  BY Digit
<1>4. PICK c \in Nat, x \in Byte : c = b \div 256 /\ x = b % 256 /\ b = 256 * c + x
  BY Digit
<1>5. v \div (256 * 256) = b
  <2>1. v \div (256 * 256) = (v \div 256) \div 256
    BY <1>1, DigitShift
  <2> QED BY <2>1, <1>2, <1>3
<1>6. v \div (256 * 256 * 256) = c
  <2>1. v \div (256 * 256 * 256) = ((v \div 256) \div 256) \div 256
    BY <1>1, DigitShift
  <2>2. (v \div 256) \div 256 = b
    BY <1>2, <1>3
  <2> QED BY <2>1, <2>2, <1>4
<1>9. write_u32(v) = <<c, x, y, z>> /\ c \in Byte
  <2>1. (v \div (256 * 256)) % 256 = x
    BY <1>5, <1>4
  <2>2. (v \div 256) % 256 = y
    BY <1>2, <1>3
  <2>3. v % 256 = z
    BY <1>2
  <2>4. write_u32(v) = <<v \div (256 * 256 * 256), (v \div (256 * 256)) % 256,
                         (v \div 256) % 256, v % 256>>
    BY Zenon DEF write_u32
  <2>5. c \in Byte
    BY <1>1, <1>6, Zenon
  <2> QED BY <2>1, <2>2, <2>3, <2>4, <2>5, <1>6, Zenon
<1>7. read_u32(<<c, x, y, z>>) = z + 256 * (y + 256 * (x + 256 * c))
  BY DEF read_u32
<1>8. v = z + 256 * (y + 256 * (x + 256 * c))
  <2>1. v = 256 * a + z /\ a = 256 * b + y /\ b = 256 * c + x
    BY <1>2, <1>3, <1>4
  <2> QED BY <1>9, <2>1 DEF Byte
<1>10. <<c, x, y, z>> \in Seq(Byte) /\ Len(<<c, x, y, z>>) = 4
  BY <1>9, FourBytes
<1>11. read_u32(<<c, x, y, z>>) = v
  BY <1>7, <1>8, Zenon
<1> QED BY <1>9, <1>10, <1>11, Zenon

(* The word of four bytes is a natural. *)
LEMMA WordNat ==
  ASSUME NEW p \in Seq(Byte), Len(p) = 4
  PROVE  read_u32(p) \in Nat
<1>1. p[1] \in Nat /\ p[2] \in Nat /\ p[3] \in Nat /\ p[4] \in Nat
  <2>1. 1 \in 1 .. Len(p) /\ 2 \in 1 .. Len(p) /\ 3 \in 1 .. Len(p) /\ 4 \in 1 .. Len(p)
    OBVIOUS
  <2>2. \A k \in 1 .. Len(p) : p[k] \in Byte
    BY ElementOfSeq
  <2>3. Byte \subseteq Nat
    BY DEF Byte
  <2> QED BY <2>1, <2>2, <2>3
<1> QED BY <1>1 DEF read_u32

-----------------------------------------------------------------------------
(* Streams *)

(* Joining streams. *)
LEMMA Join ==
  ASSUME NEW a \in Seq(Byte), NEW b \in Seq(Byte)
  PROVE  a \o b \in Seq(Byte) /\ Len(a \o b) = Len(a) + Len(b)
BY ConcatProperties

LEMMA Regroup ==
  ASSUME NEW a \in Seq(Byte), NEW b \in Seq(Byte), NEW c \in Seq(Byte)
  PROVE  (a \o b) \o c = a \o (b \o c)
BY ConcatAssociative

LEMMA JoinEmpty ==
  ASSUME NEW a \in Seq(Byte)
  PROVE  a \o <<>> = a /\ <<>> \o a = a
BY ConcatEmptySeq

(* A stream begins in one way with so many bytes. *)
LEMMA SamePrefix ==
  ASSUME NEW a \in Seq(Byte), NEW b \in Seq(Byte), NEW x \in Seq(Byte),
         NEW y \in Seq(Byte), Len(a) = Len(b), a \o x = b \o y
  PROVE  a = b /\ x = y
<1>1. Len(a) \in Nat /\ Len(x) \in Nat
  BY LenProperties
<1>2. \A i \in 1 .. Len(a) : a[i] = b[i]
  <2> SUFFICES ASSUME NEW i \in 1 .. Len(a) PROVE a[i] = b[i]
    OBVIOUS
  <2>1. i \in 1 .. Len(a) + Len(x) /\ i \in 1 .. Len(b) + Len(y) /\ i <= Len(a)
    BY <1>1, LenProperties
  <2>2. (a \o x)[i] = a[i] /\ (b \o y)[i] = b[i]
    BY <2>1, ConcatProperties
  <2> QED BY <2>2
<1>3. a = b
  BY <1>2, SeqEqual
<1>4. x = y
  BY <1>3, ConcatSimplifications
<1> QED BY <1>3, <1>4

(* A sequence is its two parts. *)
LEMMA CutInTwo ==
  ASSUME NEW s \in Seq(Byte), NEW n \in 0 .. Len(s)
  PROVE  LET a == SubSeq(s, 1, n)
             b == SubSeq(s, n + 1, Len(s))
         IN a \in Seq(Byte) /\ b \in Seq(Byte) /\ Len(a) = n /\ a \o b = s
<1>1. Len(s) \in Nat /\ \A i \in 1 .. Len(s) : s[i] \in Byte
  BY LenProperties, ElementOfSeq
<1>2. SubSeq(s, 1, n) \in Seq(Byte) /\ Len(SubSeq(s, 1, n)) = n
  <2>1. \A i \in 1 .. n : s[i] \in Byte
    BY <1>1
  <2> QED BY <1>1, <2>1, SubSeqProperties
<1>3. SubSeq(s, n + 1, Len(s)) \in Seq(Byte)
  <2>1. \A i \in n + 1 .. Len(s) : s[i] \in Byte
    BY <1>1
  <2> QED BY <1>1, <2>1, SubSeqProperties
<1>4. SubSeq(s, 1, n) \o SubSeq(s, n + 1, Len(s)) = s
  <2>1. 1 \in 1 .. Len(s) + 1 /\ n \in 1 - 1 .. Len(s) /\ Len(s) \in n .. Len(s)
    BY <1>1
  <2> QED BY <2>1, ConcatAdjacentSubSeq, SubSeqFull
<1> QED BY <1>2, <1>3, <1>4

(* A single byte as a stream. *)
LEMMA OneByte ==
  ASSUME NEW t \in Byte
  PROVE  <<t>> \in Seq(Byte) /\ Len(<<t>>) = 1 /\ <<t>>[1] = t
OBVIOUS

-----------------------------------------------------------------------------
(* Frames *)

Header == {h \in Seq(Byte) : Len(h) = 4}

(* The frames that stand for m in the stream. *)
FramesOf(m) ==
  IF m = Malformed THEN {Frame(f.type, f.length, f.data) : f \in BadFrames}
                   ELSE {Encode(m)}

(* A length word, a type and a payload. *)
LEMMA FrameShape ==
  ASSUME NEW n \in Nat, IsWord(1 + n), NEW t \in Byte, NEW p \in Seq(Byte)
  PROVE  LET h == write_u32(1 + n) IN
         /\ h \in Header /\ read_u32(h) = n + 1
         /\ <<t>> \o p \in Seq(Byte)
         /\ Frame(t, n, p) \in Seq(Byte)
         /\ Frame(t, n, p) = h \o (<<t>> \o p)
<1> DEFINE h == write_u32(1 + n)
<1>1. h \in Seq(Byte) /\ Len(h) = 4 /\ read_u32(h) = 1 + n
  BY WordRoundTrip
<1>2. <<t>> \in Seq(Byte)
  BY OneByte
<1>3. <<t>> \o p \in Seq(Byte)
  BY <1>2, ConcatProperties
<1>4. Frame(t, n, p) = h \o (<<t>> \o p)
  <2> HIDE DEF h
  <2> QED BY <1>1, <1>2, ConcatAssociative DEF Frame, h
<1>5. h \o (<<t>> \o p) \in Seq(Byte)
  <2> HIDE DEF h
  <2> QED BY <1>1, <1>3, ConcatProperties
<1> QED BY <1>1, <1>3, <1>4, <1>5 DEF Header

(* Payloads of the lengths read_message expects. *)
LEMMA PayloadShape ==
  ASSUME NEW m \in Messages
  PROVE  /\ Payload(m) \in Seq(Byte) /\ LengthValid(m.type, Len(Payload(m)))
         /\ m.type = Have => Payload(m) = write_u32(m.piece_index)
         /\ m.type \in {Request, Cancel} =>
              Payload(m) = write_u32(m.piece_index) \o write_u32(m.begin)
                             \o write_u32(m.length)
         /\ m.type = Piece =>
              Payload(m) = write_u32(m.piece_index) \o write_u32(m.begin) \o m.data
         /\ m.type \notin {Have, Request, Cancel, Piece} => Payload(m) = m.data
<1>1. IsWord(m.piece_index) /\ IsWord(m.begin) /\ IsWord(m.length)
      /\ m.data \in Seq(Byte)
  BY PeerWireAssumption
<1> DEFINE a == write_u32(m.piece_index)
           b == write_u32(m.begin)
           c == write_u32(m.length)
<1>2. a \in Seq(Byte) /\ b \in Seq(Byte) /\ c \in Seq(Byte)
      /\ Len(a) = 4 /\ Len(b) = 4 /\ Len(c) = 4
  BY <1>1, WordRoundTrip
<1>3. /\ m.type = Have => Payload(m) = a
      /\ m.type \in {Request, Cancel} => Payload(m) = a \o b \o c
      /\ m.type = Piece => Payload(m) = a \o b \o m.data
      /\ m.type \notin {Have, Request, Cancel, Piece} => Payload(m) = m.data
  <2> DEFINE abc == a \o b \o c
             abd == a \o b \o m.data
  <2>1. Payload(m) = CASE m.type = Have -> a
                       [] m.type \in {Request, Cancel} -> abc
                       [] m.type = Piece -> abd
                       [] OTHER -> m.data
    BY Zenon DEF Payload
  <2> HIDE DEF a, abc, abd
  <2>2. /\ m.type = Have => Payload(m) = a
        /\ m.type \in {Request, Cancel} => Payload(m) = abc
        /\ m.type = Piece => Payload(m) = abd
        /\ m.type \notin {Have, Request, Cancel, Piece} => Payload(m) = m.data
    BY <2>1 DEF Have, Request, Cancel, Piece
  <2> QED BY <2>2, Zenon DEF abc, abd
<1> HIDE DEF a, b, c
<1>4. /\ a \o b \in Seq(Byte) /\ Len(a \o b) = 8
      /\ a \o b \o c \in Seq(Byte) /\ Len(a \o b \o c) = 12
      /\ a \o b \o m.data \in Seq(Byte) /\ Len(a \o b \o m.data) >= 8
  <2>1. a \o b \in Seq(Byte) /\ Len(a \o b) = 8
    <3>1. a \o b \in Seq(Byte) /\ Len(a \o b) = Len(a) + Len(b)
      BY <1>2, Join, Zenon
    <3> QED BY <1>2, <3>1
  <2>2. Len(m.data) \in Nat
    BY <1>1, LenProperties
  <2> DEFINE ab == a \o b
  <2> HIDE DEF ab
  <2>3. ab \o c \in Seq(Byte) /\ Len(ab \o c) = Len(ab) + Len(c)
    BY <1>2, <2>1, Join, Zenon DEF ab
  <2>4. ab \o m.data \in Seq(Byte) /\ Len(ab \o m.data) = Len(ab) + Len(m.data)
    BY <1>1, <2>1, Join, Zenon DEF ab
  <2>5. Len(ab) = 8
    BY <2>1, Zenon DEF ab
  <2>6. Len(ab \o c) = 12 /\ Len(ab \o m.data) >= 8
    BY <1>2, <2>2, <2>3, <2>4, <2>5
  <2> QED BY <2>1, <2>3, <2>4, <2>6, Zenon DEF ab
<1>5. Payload(m) \in Seq(Byte)
  BY <1>1, <1>2, <1>3, <1>4
<1>6. LengthValid(m.type, Len(Payload(m)))
  BY <1>2, <1>3, <1>4 DEF LengthValid, Have, Request, Cancel, Piece
<1> QED BY <1>3, <1>5, <1>6 DEF a, b, c

(* What the reader finds after the first four bytes of a frame: nothing     *)
(* more of a KeepAlive; the type and the payload of another message; a type  *)
(* that cannot have the announced length.                                    *)
KeepAliveFrame(m, h) == m = KeepAlive /\ read_u32(h) = 0

MessageFrame(m, h, t, p) ==
  /\ m \in Messages /\ t = m.type /\ p = Payload(m)
  /\ read_u32(h) = Len(p) + 1 /\ LengthValid(t, Len(p))

BadFrame(m, h, t) ==
  \E n \in Nat : /\ m = Malformed /\ read_u32(h) = n + 1
                 /\ t \notin Flags /\ ~LengthValid(t, n)

(* h and r are the header and the rest of a stream that is a frame of m and *)
(* then s.                                                                  *)
FrameAhead(m, h, r, s) ==
  \/ KeepAliveFrame(m, h) /\ r = s
  \/ \E t \in Byte, p \in Seq(Byte) :
       /\ r = <<t>> \o (p \o s)
       /\ MessageFrame(m, h, t, p) \/ BadFrame(m, h, t)

(* A message that may be sent has one frame, and no bad frame is a message. *)
LEMMA MessageKinds ==
  ASSUME NEW m \in Messages
  PROVE  /\ m # Malformed
         /\ m # KeepAlive => m.type \in Byte
         /\ m.type = -1 => m = KeepAlive
<1>1. m = PeerMessage(m.type, m.piece_index, m.begin, m.length, m.data)
      /\ m.type \in Byte \cup {-1}
  BY PeerWireAssumption
<1>2. m.type # -2
  BY <1>1 DEF Byte
<1>3. Malformed.type = -2
  BY DEF Malformed, PeerMessage
<1>4. ASSUME m.type = -1 PROVE m = KeepAlive
  <2>1. m.piece_index = 0 /\ m.begin = 0 /\ m.length = 0 /\ m.data = <<>>
    BY <1>4, PeerWireAssumption DEF Have, Request, Cancel, Piece
  <2> QED BY <1>1, <1>4, <2>1, Zenon DEF KeepAlive
<1> QED BY <1>1, <1>2, <1>3, <1>4

(* Frames are made of bytes. *)
LEMMA FrameBytes ==
  ASSUME NEW m \in Messages \cup {Malformed}, NEW f \in FramesOf(m)
  PROVE  f \in Seq(Byte)
<1>1. CASE m = Malformed
  <2>1. PICK b \in BadFrames : f = Frame(b.type, b.length, b.data)
    BY <1>1 DEF FramesOf
  <2>2. /\ b.type \in Byte /\ b.length \in Nat
        /\ IsWord(1 + b.length) /\ b.data \in Seq(Byte)
    BY PeerWireAssumption
  <2> QED BY <2>1, <2>2, FrameShape
<1>2. CASE m # Malformed /\ m # KeepAlive
  <2>1. m \in Messages
    BY <1>2
  <2>2. m.type \in Byte /\ Payload(m) \in Seq(Byte)
    BY <1>2, <2>1, MessageKinds, PayloadShape
  <2>3. IsWord(1 + Len(Payload(m)))
    BY <2>1, PeerWireAssumption
  <2>4. Len(Payload(m)) \in Nat
    BY <2>2, LenProperties
  <2>5. f = Frame(m.type, Len(Payload(m)), Payload(m))
    BY <1>2 DEF FramesOf, Encode
  <2> QED BY <2>2, <2>3, <2>4, <2>5, FrameShape
<1>3. CASE m = KeepAlive
  <2>1. KeepAlive # Malformed
    BY DEF KeepAlive, Malformed, PeerMessage
  <2>2. f = write_u32(0)
    BY <1>3, <2>1 DEF FramesOf, Encode
  <2>3. IsWord(0)
    BY Digit, DigitShift DEF IsWord, Byte
  <2> QED BY <2>2, <2>3, WordRoundTrip
<1> QED BY <1>1, <1>2, <1>3

(* How the first frame of a stream is taken apart. *)
LEMMA TakeFrame ==
  ASSUME NEW m \in Messages \cup {Malformed}, NEW f \in FramesOf(m),
         NEW s \in Seq(Byte), NEW h \in Header, NEW r \in Seq(Byte),
         h \o r = f \o s
  PROVE  FrameAhead(m, h, r, s)
<1>1. h \in Seq(Byte) /\ Len(h) = 4
  BY DEF Header
<1>2. ASSUME NEW n \in Nat, IsWord(1 + n), NEW t \in Byte, NEW p \in Seq(Byte),
             f = Frame(t, n, p)
      PROVE  read_u32(h) = n + 1 /\ r = <<t>> \o (p \o s)
  <2> DEFINE w == write_u32(1 + n)
             q == <<t>> \o p
  <2>1. w \in Seq(Byte) /\ Len(w) = 4 /\ read_u32(w) = n + 1 /\ q \in Seq(Byte)
        /\ f = w \o q
    BY <1>2, FrameShape DEF Header
  <2>2. <<t>> \in Seq(Byte)
    BY OneByte
  <2> HIDE DEF w
  <2>3. q \o s = <<t>> \o (p \o s)
    BY <2>2, Regroup
  <2> HIDE DEF q
  <2>4. q \o s \in Seq(Byte)
    BY <2>1, Join
  <2>5. h \o r = w \o (q \o s)
    <3>1. (w \o q) \o s = w \o (q \o s)
      BY <2>1, Regroup
    <3> QED BY <3>1, <2>1, Zenon
  <2>6. Len(h) = Len(w)
    BY <1>1, <2>1
  <2>7. h = w /\ r = q \o s
    BY <1>1, <2>1, <2>4, <2>5, <2>6, SamePrefix, Zenon
  <2> QED BY <2>1, <2>3, <2>7
<1>3. CASE m = Malformed
  <2>1. PICK b \in BadFrames : f = Frame(b.type, b.length, b.data)
    BY <1>3 DEF FramesOf
  <2>2. /\ b.type \in Byte /\ b.type \notin Flags /\ b.length \in Nat
        /\ IsWord(1 + b.length) /\ b.data \in Seq(Byte)
        /\ ~LengthValid(b.type, b.length)
    BY PeerWireAssumption
  <2>3. read_u32(h) = b.length + 1 /\ r = <<b.type>> \o (b.data \o s)
    BY <2>1, <2>2, <1>2
  <2>4. BadFrame(m, h, b.type)
    BY <1>3, <2>2, <2>3 DEF BadFrame
  <2> QED BY <2>2, <2>3, <2>4 DEF FrameAhead
<1>4. CASE m # Malformed /\ m # KeepAlive
  <2>1. m \in Messages
    BY <1>4
  <2>2. m.type \in Byte /\ Payload(m) \in Seq(Byte)
        /\ LengthValid(m.type, Len(Payload(m)))
    BY <1>4, <2>1, MessageKinds, PayloadShape
  <2>3. IsWord(1 + Len(Payload(m)))
    BY <2>1, PeerWireAssumption
  <2>4. Len(Payload(m)) \in Nat
    BY <2>2, LenProperties
  <2>5. f = Frame(m.type, Len(Payload(m)), Payload(m))
    BY <1>4 DEF FramesOf, Encode
  <2>6. read_u32(h) = Len(Payload(m)) + 1 /\ r = <<m.type>> \o (Payload(m) \o s)
    BY <1>2, <2>2, <2>3, <2>4, <2>5
  <2>7. MessageFrame(m, h, m.type, Payload(m))
    BY <2>1, <2>2, <2>6 DEF MessageFrame
  <2> QED BY <2>2, <2>6, <2>7 DEF FrameAhead
<1>5. CASE m = KeepAlive
  <2>1. KeepAlive # Malformed
    BY DEF KeepAlive, Malformed, PeerMessage
  <2>2. f = write_u32(0)
    BY <1>5, <2>1 DEF FramesOf, Encode
  <2>3. IsWord(0)
    BY Digit, DigitShift DEF IsWord, Byte
  <2>4. f \in Seq(Byte) /\ Len(f) = 4 /\ read_u32(f) = 0
    BY <2>2, <2>3, WordRoundTrip
  <2>5. h = f /\ r = s
    BY <1>1, <2>4, SamePrefix
  <2> QED BY <1>5, <2>4, <2>5 DEF KeepAliveFrame, FrameAhead
<1> QED BY <1>3, <1>4, <1>5

-----------------------------------------------------------------------------
(* Parsing *)

(* A part of a stream, by the lengths of what is before it. *)
LEMMA Middle ==
  ASSUME NEW x \in Seq(Byte), NEW y \in Seq(Byte), NEW z \in Seq(Byte)
  PROVE  SubSeq((x \o y) \o z, Len(x) + 1, Len(x) + Len(y)) = y
<1> DEFINE s == (x \o y) \o z
           i == Len(x) + 1
           j == Len(x) + Len(y)
           u == SubSeq(s, i, j)
<1>1. Len(x) \in Nat /\ Len(y) \in Nat /\ Len(z) \in Nat
  BY LenProperties
<1>2. x \o y \in Seq(Byte) /\ Len(x \o y) = j
  BY Join
<1>3. s \in Seq(Byte) /\ Len(s) = j + Len(z)
  <2> HIDE DEF j
  <2> QED BY <1>2, Join, Zenon
<1>4. \A k \in 1 .. Len(y) : s[Len(x) + k] = y[k]
  <2> SUFFICES ASSUME NEW k \in 1 .. Len(y) PROVE s[Len(x) + k] = y[k]
    OBVIOUS
  <2>1. Len(x) + k \in 1 .. Len(x \o y) + Len(z) /\ Len(x) + k <= Len(x \o y)
        /\ Len(x) + k \in 1 .. Len(x) + Len(y) /\ ~(Len(x) + k <= Len(x))
        /\ Len(x) + k - Len(x) = k
    BY <1>1, <1>2
  <2>2. s[Len(x) + k] = (x \o y)[Len(x) + k]
    BY <1>2, <2>1, ConcatProperties
  <2>3. (x \o y)[Len(x) + k] = y[k]
    BY <2>1, ConcatProperties
  <2> QED BY <2>2, <2>3
<1>5. u \in Seq(Byte) /\ Len(u) = Len(y) /\ \A k \in 1 .. Len(y) : u[k] = s[Len(x) + k]
  <2> HIDE DEF s
  <2>1. \A k \in i .. j : s[k] \in Byte
    BY <1>1, <1>3, ElementOfSeq
  <2>2. /\ u \in Seq(Byte) /\ Len(u) = (IF i <= j THEN j - i + 1 ELSE 0)
        /\ \A k \in 1 .. j - i + 1 : u[k] = s[i + k - 1]
    <3> HIDE DEF i, j
    <3>1. i \in Int /\ j \in Int
      BY <1>1 DEF i, j
    <3> QED BY <3>1, <2>1, SubSeqProperties
  <2> QED BY <2>2, <1>1
<1> HIDE DEF u, s
<1>6. u = y
  <2>1. \A k \in 1 .. Len(u) : u[k] = y[k]
    BY <1>4, <1>5
  <2> QED BY <2>1, <1>5, SeqEqual
<1> QED BY <1>6 DEF u, s

(* The fields of a payload, as the reader cuts them out. *)
LEMMA Cells ==
  ASSUME NEW a \in Header, NEW b \in Header, NEW z \in Seq(Byte)
  PROVE  /\ SubSeq(a \o b \o z, 1, 4) = a /\ SubSeq(a \o b \o z, 5, 8) = b
         /\ SubSeq(a \o b \o z, 9, 8 + Len(z)) = z
         /\ Len(a \o b \o z) = 8 + Len(z)
<1>1. a \in Seq(Byte) /\ b \in Seq(Byte) 
      /\ Len(a) = 4 /\ Len(b) = 4
  BY DEF Header
<1>2. <<>> \in Seq(Byte) /\ Len(<<>>) = 0
  OBVIOUS
<1>4. SubSeq(a \o b \o z, 1, 4) = a /\ SubSeq(a \o b \o z, 5, 8) = b
  <2>1. SubSeq((a \o b) \o z, Len(a) + 1, Len(a) + Len(b)) = b
    BY <1>1, Middle
  <2>2. SubSeq((<<>> \o a) \o (b \o z), Len(<<>>) + 1, Len(<<>>) + Len(a)) = a
    <3>1. b \o z \in Seq(Byte)
      BY <1>1, Join
    <3> QED BY <3>1, <1>1, <1>2, Middle, Zenon
  <2>3. <<>> \o a = a
    BY <1>1, JoinEmpty
  <2>4. (a \o b) \o z = a \o (b \o z)
    BY <1>1, Regroup
  <2>5. Len(a) + 1 = 5 /\ Len(a) + Len(b) = 8 /\ Len(<<>>) + 1 = 1
        /\ Len(<<>>) + Len(a) = 4
    BY <1>1, <1>2
  <2> QED BY <2>1, <2>2, <2>3, <2>4, <2>5, Zenon
<1>5. SubSeq(a \o b \o z, 9, 8 + Len(z)) = z
      /\ Len(a \o b \o z) = 8 + Len(z)
  <2> DEFINE ab == a \o b
  <2>1. ab \in Seq(Byte) /\ Len(ab) = 8
    <3>1. ab \in Seq(Byte) /\ Len(ab) = Len(a) + Len(b)
      BY <1>1, Join
    <3> QED BY <1>1, <3>1
  <2> HIDE DEF ab
  <2>2. SubSeq((ab \o z) \o <<>>, Len(ab) + 1, Len(ab) + Len(z)) = z
    BY <2>1, <1>2, Middle
  <2>3. ab \o z \in Seq(Byte) /\ Len(ab \o z) = Len(ab) + Len(z)
    BY <2>1, Join
  <2>4. (ab \o z) \o <<>> = ab \o z
    BY <2>3, JoinEmpty
  <2>5. Len(ab) + 1 = 9 /\ Len(ab) + Len(z) = 8 + Len(z)
    BY <2>1
  <2> QED BY <2>2, <2>3, <2>4, <2>5, Zenon DEF ab
<1> QED BY <1>4, <1>5

LEMMA OneCell ==
  ASSUME NEW a \in Header
  PROVE  SubSeq(a, 1, 4) = a
BY SubSeqFull DEF Header

Triple(a, b, z) == a \o b \o z

HasCells(q, a, b, z) ==
  /\ SubSeq(q, 1, 4) = a /\ SubSeq(q, 5, 8) = b
  /\ SubSeq(q, 9, Len(q)) = z /\ SubSeq(q, 9, 8 + Len(z)) = z

LEMMA TripleCells ==
  ASSUME NEW a \in Header, NEW b \in Header, NEW z \in Seq(Byte)
  PROVE  HasCells(Triple(a, b, z), a, b, z)
<1>1. /\ SubSeq(a \o b \o z, 1, 4) = a /\ SubSeq(a \o b \o z, 5, 8) = b
      /\ SubSeq(a \o b \o z, 9, 8 + Len(z)) = z
      /\ Len(a \o b \o z) = 8 + Len(z)
  BY Cells
<1> QED BY <1>1, Zenon DEF Triple, HasCells

(* read_message makes of a payload the message it was encoded from, less    *)
(* the payload of a message it does not know.                               *)
LEMMA ParseBack ==
  ASSUME NEW m \in Messages, m.type \notin Flags, m.type # -1,
         msg_type = m.type, got = Payload(m)
  PROVE  ParsedMessage = Received(m)
<1>1. /\ m = PeerMessage(m.type, m.piece_index, m.begin, m.length, m.data)
      /\ IsWord(m.piece_index) /\ IsWord(m.begin) /\ IsWord(m.length)
      /\ m.data \in Seq(Byte)
  BY PeerWireAssumption
<1>2. /\ m.piece_index # 0 => m.type \in {Have, Request, Cancel, Piece}
      /\ m.begin # 0       => m.type \in {Request, Cancel, Piece}
      /\ m.length # 0      => m.type \in {Request, Cancel}
      /\ m.data # <<>>     => m.type \notin {Have, Request, Cancel}
  BY PeerWireAssumption
<1> DEFINE a == write_u32(m.piece_index)
           b == write_u32(m.begin)
           c == write_u32(m.length)
<1>3. /\ a \in Header /\ read_u32(a) = m.piece_index
      /\ b \in Header /\ read_u32(b) = m.begin
      /\ c \in Header /\ read_u32(c) = m.length
  BY <1>1, WordRoundTrip DEF Header
<1>4. /\ m.type = Have => Payload(m) = a
      /\ m.type \in {Request, Cancel} => Payload(m) = a \o b \o c
      /\ m.type = Piece => Payload(m) = a \o b \o m.data
      /\ m.type \notin {Have, Request, Cancel, Piece} => Payload(m) = m.data
  BY PayloadShape
<1> HIDE DEF a, b, c
<1>5. /\ Field(1) = read_u32(SubSeq(got, 1, 4)) /\ Field(2) = read_u32(SubSeq(got, 5, 8))
      /\ Field(3) = read_u32(SubSeq(got, 9, 12))
  BY DEF Field
<1>6. CASE m.type = Have
  <2>1. Field(1) = m.piece_index
    BY <1>1, <1>3, <1>4, <1>5, <1>6, OneCell, Zenon
  <2>2. ParsedMessage = PeerMessage(Have, Field(1), 0, 0, <<>>)
    BY <1>6 DEF ParsedMessage, Have, Bitfield, Request, Cancel, Piece
  <2>3. m = PeerMessage(Have, m.piece_index, 0, 0, <<>>)
    BY <1>1, <1>2, <1>6 DEF Have, Request, Cancel, Piece
  <2>4. Received(m) = m
    BY <2>3, <1>6 DEF Received, PeerMessage, Have, Bitfield, Piece
  <2> QED BY <2>1, <2>2, <2>3, <2>4, Zenon
<1>7. CASE m.type \in {Request, Cancel}
  <2>1. Field(1) = m.piece_index /\ Field(2) = m.begin /\ Field(3) = m.length
    <3>1. got = Triple(a, b, c)
      BY <1>4, <1>7, Zenon DEF Triple
    <3>2. c \in Seq(Byte) /\ 8 + Len(c) = 12
      <4>1. c \in Seq(Byte) /\ Len(c) = 4
        BY <1>3 DEF Header
      <4> QED BY <4>1
    <3>3. SubSeq(got, 1, 4) = a /\ SubSeq(got, 5, 8) = b /\ SubSeq(got, 9, 12) = c
      <4>1. HasCells(got, a, b, c)
        BY <1>3, <3>1, <3>2, TripleCells, Zenon
      <4> QED BY <3>2, <4>1, Zenon DEF HasCells
    <3> QED BY <1>3, <1>5, <3>3, Zenon
  <2>2. ParsedMessage = PeerMessage(m.type, Field(1), Field(2), Field(3), <<>>)
    BY <1>7 DEF ParsedMessage, Have, Bitfield, Request, Cancel, Piece
  <2>3. m = PeerMessage(m.type, m.piece_index, m.begin, m.length, <<>>)
    BY <1>1, <1>2, <1>7
  <2>4. Received(m) = m
    BY <2>3, <1>7 DEF Received, PeerMessage, Request, Cancel, Bitfield, Piece
  <2> QED BY <2>1, <2>2, <2>3, <2>4, Zenon
<1>8. CASE m.type = Piece
  <2>1. Field(1) = m.piece_index /\ Field(2) = m.begin
        /\ SubSeq(got, 9, Len(got)) = m.data
    <3>1. got = Triple(a, b, m.data)
      BY <1>4, <1>8, Zenon DEF Triple
    <3>3. SubSeq(got, 1, 4) = a /\ SubSeq(got, 5, 8) = b
          /\ SubSeq(got, 9, Len(got)) = m.data
      <4>1. m.data \in Seq(Byte)
        BY <1>1
      <4>2. HasCells(got, a, b, m.data)
        BY <1>3, <3>1, <4>1, TripleCells, Zenon
      <4> QED BY <4>2, Zenon DEF HasCells
    <3> QED BY <1>3, <1>5, <3>3, Zenon
  <2>2. ParsedMessage
          = PeerMessage(Piece, Field(1), Field(2), 0, SubSeq(got, 9, Len(got)))
    BY <1>8 DEF ParsedMessage, Have, Bitfield, Request, Cancel, Piece
  <2>3. m = PeerMessage(Piece, m.piece_index, m.begin, 0, m.data)
    BY <1>1, <1>2, <1>8 DEF Request, Cancel, Piece
  <2>4. Received(m) = m
    BY <1>8 DEF Received
  <2> QED BY <2>1, <2>2, <2>3, <2>4, Zenon
<1>9. CASE m.type \notin {Have, Request, Cancel, Piece}
  <2>1. got = m.data
    BY <1>4, <1>9
  <2>2. m = PeerMessage(m.type, 0, 0, 0, m.data)
    BY <1>1, <1>2, <1>9
  <2>3. CASE m.type = Bitfield
    <3>1. ParsedMessage = PeerMessage(Bitfield, 0, 0, 0, got)
      BY <2>3, <1>9 DEF ParsedMessage, Have, Bitfield
    <3>2. Received(m) = m
      BY <2>3 DEF Received
    <3> QED BY <2>1, <2>2, <2>3, <3>1, <3>2, Zenon
  <2>4. CASE m.type # Bitfield
    <3>1. ParsedMessage = PeerMessage(m.type, 0, 0, 0, <<>>)
      BY <2>4, <1>9 DEF ParsedMessage
    <3>2. Received(m) = [m EXCEPT !.data = <<>>]
      BY <2>4, <1>9 DEF Received
    <3>3. [m EXCEPT !.data = <<>>] = PeerMessage(m.type, 0, 0, 0, <<>>)
      BY <2>2 DEF PeerMessage
    <3> QED BY <3>1, <3>2, <3>3
  <2> QED BY <2>3, <2>4
<1> QED BY <1>6, <1>7, <1>8, <1>9

-----------------------------------------------------------------------------
(* The invariant *)

Sendable == Messages \cup {Malformed}
Readable == {Received(m) : m \in Messages}

(* c[j] is the stream from the end of the j-th frame of ms on. *)
Splits(ms, c) ==
  /\ c \in [0 .. Len(ms) -> Seq(Byte)]
  /\ c[Len(ms)] = <<>>
  /\ \A j \in 1 .. Len(ms) : \E f \in FramesOf(ms[j]) : c[j - 1] = f \o c[j]

(* The bytes on their way: collected, in the stream, not yet written. *)
Rest == got \o (wire \o out)

(* x is what the reader has taken of the frame it is reading. *)
Taken(x) ==
  \/ stage \in {"handshake", "length"} /\ x = <<>>
  \/ stage = "type" /\ x \in Header /\ read_u32(x) = payload_len + 1
  \/ /\ stage = "payload"
     /\ msg_type \notin Flags /\ LengthValid(msg_type, payload_len)
     /\ \E h \in Header : read_u32(h) = payload_len + 1 /\ x = h \o <<msg_type>>

(* y is what is to be read before the next frame. *)
Before(y) ==
  \/ stage = "handshake" /\ read = <<>> /\ y \in Handshakes
  \/ stage # "handshake" /\ y = <<>>

InStep ==
  stage # "closed" =>
    \E c \in [0 .. Len(sent) -> Seq(Byte)], x \in Seq(Byte), y \in Seq(Byte) :
      /\ Splits(sent, c) /\ Taken(x) /\ Before(y)
      /\ x \o Rest = y \o c[Len(read)]

(* recv_raw collects what the field needs. *)
Collected ==
  /\ stage = "handshake" => need + Len(got) = 3
  /\ stage = "length"    => need + Len(got) = 4
  /\ stage = "type"      => need + Len(got) = 1
  /\ stage = "payload"   => need + Len(got) = payload_len

Histories ==
  /\ sent \in Seq(Sendable) /\ read \in Seq(Readable)
  /\ Len(read) <= Len(sent)

WireInv == PeerWireTypeOK /\ Histories /\ Collected /\ InStep

(* The stream grows at its end by the frame of the next message. *)
LEMMA SplitsGrow ==
  ASSUME NEW ms \in Seq(Sendable), NEW m \in Sendable, NEW f \in FramesOf(m),
         f \in Seq(Byte),
         NEW c \in [0 .. Len(ms) -> Seq(Byte)], Splits(ms, c)
  PROVE  \E d \in [0 .. Len(Append(ms, m)) -> Seq(Byte)] :
           /\ Splits(Append(ms, m), d)
           /\ \A j \in 0 .. Len(ms) : d[j] = c[j] \o f
<1> DEFINE n == Len(ms)
           ns == Append(ms, m)
           d == [j \in 0 .. n + 1 |-> IF j <= n THEN c[j] \o f ELSE <<>>]
<1>1. n \in Nat /\ ns \in Seq(Sendable) /\ Len(ns) = n + 1 /\ ns[n + 1] = m
      /\ \A j \in 1 .. n : ns[j] = ms[j]
  BY LenProperties, AppendProperties
<1> HIDE DEF ns
<1>2. c[n] = <<>> /\ \A j \in 1 .. n : \E g \in FramesOf(ms[j]) : c[j - 1] = g \o c[j]
  BY DEF Splits
<1>3. \A j \in 0 .. n : c[j] \in Seq(Byte) /\ c[j] \o f \in Seq(Byte)
  BY Join
<1>4. \A j \in 0 .. n : d[j] = c[j] \o f
  BY <1>1
<1>5. d[n + 1] = <<>>
  BY <1>1
<1>6. d \in [0 .. n + 1 -> Seq(Byte)]
  <2>1. \A j \in 0 .. n + 1 : (IF j <= n THEN c[j] \o f ELSE <<>>) \in Seq(Byte)
    <3> SUFFICES ASSUME NEW j \in 0 .. n + 1
                 PROVE  (IF j <= n THEN c[j] \o f ELSE <<>>) \in Seq(Byte)
      OBVIOUS
    <3>1. CASE j <= n
      <4>1. j \in 0 .. n
        BY <1>1, <3>1
      <4> QED BY <4>1, <3>1, <1>3
    <3>2. CASE ~(j <= n)
      BY <3>2
    <3> QED BY <3>1, <3>2
  <2> QED BY <2>1
<1> HIDE DEF d
<1>7. \A j \in 1 .. n + 1 : \E g \in FramesOf(ns[j]) : d[j - 1] = g \o d[j]
  <2> SUFFICES ASSUME NEW j \in 1 .. n + 1
               PROVE  \E g \in FramesOf(ns[j]) : d[j - 1] = g \o d[j]
    OBVIOUS
  <2>1. CASE j \in 1 .. n
    <3>1. PICK g \in FramesOf(ms[j]) : c[j - 1] = g \o c[j]
      BY <1>2, <2>1
    <3>2. j - 1 \in 0 .. n /\ j \in 0 .. n
      BY <1>1, <2>1
    <3>3. g \in Seq(Byte)
      <4>1. ms[j] \in Messages \cup {Malformed}
        BY <2>1, ElementOfSeq DEF Sendable
      <4> QED BY <3>1, <4>1, FrameBytes
    <3>4. (g \o c[j]) \o f = g \o (c[j] \o f)
      BY <3>2, <3>3, <1>3, Regroup, Zenon
    <3>5. d[j - 1] = c[j - 1] \o f /\ d[j] = c[j] \o f
      BY <1>4, <3>2
    <3>6. d[j - 1] = g \o d[j]
      BY <3>1, <3>4, <3>5, Zenon
    <3>7. ns[j] = ms[j]
      BY <1>1, <2>1
    <3> QED BY <3>6, <3>7, Zenon
  <2>2. CASE j = n + 1
    <3>1. d[j - 1] = c[n] \o f
      BY <1>1, <1>4, <2>2
    <3>2. c[n] \o f = f /\ f \o <<>> = f
      BY <1>2, JoinEmpty, Zenon
    <3>3. d[j - 1] = f \o d[j]
      BY <3>1, <3>2, <1>5, <2>2, Zenon
    <3> QED BY <3>3, <1>1, <2>2, Zenon
  <2>3. j \in 1 .. n \/ j = n + 1
    BY <1>1
  <2> QED BY <2>1, <2>2, <2>3, Zenon
<1>8. Splits(ns, d) /\ d \in [0 .. Len(ns) -> Seq(Byte)]
  BY <1>1, <1>5, <1>6, <1>7 DEF Splits
<1> QED BY <1>4, <1>8 DEF ns

-----------------------------------------------------------------------------
(* The channel *)

(* The sender's history, as the reader is to see it. *)
Mapped(s) == [k \in DOMAIN s |-> Received(s[k])]

(* It grows with the history. *)
LEMMA MappedAppend ==
  ASSUME NEW s \in Seq(Sendable), NEW m \in Sendable
  PROVE  Mapped(Append(s, m)) = Append(Mapped(s), Received(m))
<1> DEFINE n == Len(s)
           a == Append(s, m)
           R == {Received(e) : e \in Sendable}
           p == Mapped(s)
<1>1. n \in Nat /\ DOMAIN s = 1 .. n /\ a \in Seq(Sendable) /\ Len(a) = n + 1
      /\ a[n + 1] = m /\ \A j \in 1 .. n : a[j] = s[j]
  BY LenProperties, AppendProperties
<1>2. DOMAIN a = 1 .. n + 1
  BY <1>1, LenProperties
<1>3. p \in Seq(R) /\ Len(p) = n /\ \A j \in 1 .. n : p[j] = Received(s[j])
  <2>1. p = [k \in 1 .. n |-> Received(s[k])]
    BY <1>1 DEF Mapped
  <2>2. \A k \in 1 .. n : Received(s[k]) \in R
    BY ElementOfSeq
  <2>3. p \in Seq(R)
    <3> HIDE DEF R, p
    <3> QED BY <1>1, <2>1, <2>2, IsASeq
  <2>4. DOMAIN p = 1 .. n
    BY <2>1
  <2> QED BY <1>1, <2>1, <2>3, <2>4, LenProperties
<1>4. Received(m) \in R
  OBVIOUS
<1> HIDE DEF a, p, R
<1> DEFINE q == Append(p, Received(m))
<1>5. q \in Seq(R) /\ Len(q) = n + 1 /\ q[n + 1] = Received(m)
      /\ \A j \in 1 .. n : q[j] = p[j]
  BY <1>3, <1>4, AppendProperties
<1>6. DOMAIN q = 1 .. n + 1
  BY <1>1, <1>5, LenProperties
<1>7. \A j \in 1 .. n + 1 : q[j] = Received(a[j])
  <2> SUFFICES ASSUME NEW j \in 1 .. n + 1 PROVE q[j] = Received(a[j])
    OBVIOUS
  <2>1. j \in 1 .. n \/ j = n + 1
    BY <1>1
  <2> HIDE DEF q
  <2> QED BY <2>1, <1>1, <1>3, <1>5
<1>8. q = [j \in 1 .. n + 1 |-> q[j]]
  <2> HIDE DEF q
  <2> QED BY <1>1, <1>5, <1>6, SeqDef
<1> HIDE DEF q
<1>9. q = Mapped(a)
  BY <1>2, <1>7, <1>8 DEF Mapped
<1> QED BY <1>9 DEF q, a, p

(* An entry of it, and its length. *)
LEMMA MappedEntry ==
  ASSUME NEW s \in Seq(Sendable), NEW k \in 1 .. Len(s)
  PROVE  Mapped(s)[k] = Received(s[k])
<1>1. DOMAIN s = 1 .. Len(s)
  BY LenProperties
<1> QED BY <1>1 DEF Mapped

LEMMA MappedLen ==
  ASSUME NEW s \in Seq(Sendable)
  PROVE  Len(Mapped(s)) = Len(s)
<1>1. DOMAIN s = 1 .. Len(s) /\ Len(s) \in Nat
  BY LenProperties
<1>2. Mapped(s) = [k \in 1 .. Len(s) |-> Received(s[k])]
  BY <1>1 DEF Mapped
<1>3. Mapped(s) \in Seq({Received(e) : e \in Sendable})
  <2>1. \A k \in 1 .. Len(s) : Received(s[k]) \in {Received(e) : e \in Sendable}
    BY ElementOfSeq
  <2> QED BY <1>1, <1>2, <2>1, IsASeq
<1>4. DOMAIN Mapped(s) = 1 .. Len(s)
  BY <1>2
<1> QED BY <1>1, <1>3, <1>4, LenProperties

(* A bad frame stays one; a message does not become one. *)
LEMMA ReceivedKinds ==
  /\ Received(Malformed) = Malformed
  /\ \A m \in Messages : Received(m) # Malformed /\ Received(m) \in Readable
<1>1. Received(Malformed) = Malformed
  BY DEF Received, Malformed, PeerMessage, Bitfield, Piece
<1>2. ASSUME NEW m \in Messages PROVE Received(m) # Malformed
  <2>1. m = PeerMessage(m.type, m.piece_index, m.begin, m.length, m.data)
        /\ m.type \in Byte \cup {-1}
    BY PeerWireAssumption
  <2>2. m.type # -2
    BY <2>1 DEF Byte
  <2>3. Received(m).type = m.type
    <3>1. [m EXCEPT !.data = <<>>].type = m.type
      BY <2>1 DEF PeerMessage
    <3> QED BY <3>1 DEF Received
  <2>4. Malformed.type = -2
    BY DEF Malformed, PeerMessage
  <2> QED BY <2>2, <2>3, <2>4, Zenon
<1> QED BY <1>1, <1>2 DEF Readable

-----------------------------------------------------------------------------
(* Steps *)

StreamTypes ==
  /\ out \in Seq(Byte) /\ wire \in Seq(Byte) /\ got \in Seq(Byte)
  /\ need \in Nat /\ payload_len \in Nat /\ msg_type \in Byte

LEMMA Streams ==
  ASSUME StreamTypes
  PROVE  wire \o out \in Seq(Byte) /\ Rest \in Seq(Byte)
<1>1. wire \o out \in Seq(Byte)
  BY Join DEF StreamTypes
<1> QED BY <1>1, Join DEF StreamTypes, Rest

LEMMA HandshakeBytes ==
  ASSUME NEW y \in Handshakes
  PROVE  y \in Seq(Byte) /\ Len(y) = 3
<1>1. PICK p \in {Protocol, 0}, h \in {OurHash, 0} : y = <<p, h, 0>>
  BY DEF Handshakes
<1>2. p \in Byte /\ h \in Byte /\ 0 \in Byte
  BY DEF Byte, Protocol, OurHash
<1> QED BY <1>1, <1>2

LEMMA WireInit == Init => WireInv /\ Channel!Init
<1> SUFFICES ASSUME Init PROVE WireInv /\ Channel!Init
  OBVIOUS
<1>1. /\ sent = <<>> /\ out \in Handshakes /\ wire = <<>> /\ stage = "handshake"
      /\ need = 3 /\ got = <<>> /\ msg_type = 0 /\ payload_len = 0 /\ read = <<>>
      /\ peer_choking = TRUE /\ peer_interested = FALSE
  BY DEF Init
<1>2. out \in Seq(Byte) /\ Len(out) = 3 /\ <<>> \in Seq(Byte)
  BY <1>1, HandshakeBytes
<1>3. PeerWireTypeOK
  <2>1. MaxMessages \in Nat /\ 0 \in Byte
    BY PeerWireAssumption DEF Byte
  <2>2. Len(sent) \in 0 .. MaxMessages
    BY <1>1, <2>1
  <2> QED BY <1>1, <1>2, <2>1, <2>2 DEF PeerWireTypeOK
<1>4. Histories
  BY <1>1 DEF Histories
<1>5. Collected
  BY <1>1 DEF Collected
<1>6. InStep
  <2> DEFINE c == [j \in 0 .. 0 |-> <<>>]
  <2>1. c \in [0 .. 0 -> Seq(Byte)] /\ c[0] = <<>>
    BY <1>2
  <2> HIDE DEF c
  <2>2. Len(sent) = 0 /\ Len(read) = 0
    BY <1>1
  <2>3. Splits(sent, c) /\ c \in [0 .. Len(sent) -> Seq(Byte)]
    BY <2>1, <2>2 DEF Splits
  <2>4. Taken(<<>>) /\ Before(out)
    BY <1>1 DEF Taken, Before
  <2>5. <<>> \o Rest = out \o c[Len(read)]
    <3>1. Rest = <<>> \o (<<>> \o out)
      BY <1>1 DEF Rest
    <3>2. <<>> \o out = out /\ out \o <<>> = out
      BY <1>2, JoinEmpty
    <3> QED BY <3>1, <3>2, <2>1, <2>2, Zenon
  <2> QED BY <1>2, <2>3, <2>4, <2>5, Zenon DEF InStep
<1>7. Channel!Init
  BY <1>1 DEF Channel!Init
<1> QED BY <1>3, <1>4, <1>5, <1>6, <1>7 DEF WireInv

(* Bytes that move on their way leave the reader in step. *)
LEMMA SameRest ==
  ASSUME InStep, Rest' = Rest,
         UNCHANGED <<sent, stage, msg_type, payload_len, read>>
  PROVE  InStep'
<1>1. \A x : Taken(x) => Taken(x)'
  BY DEF Taken
<1>2. \A y : Before(y) => Before(y)'
  BY DEF Before
<1>3. ASSUME stage' # "closed"
      PROVE  \E c \in [0 .. Len(sent') -> Seq(Byte)], x \in Seq(Byte), y \in Seq(Byte) :
               /\ Splits(sent', c) /\ Taken(x)' /\ Before(y)'
               /\ x \o Rest' = y \o c[Len(read')]
  <2>1. sent' = sent /\ read' = read /\ stage # "closed"
    BY <1>3
  <2>2. PICK c \in [0 .. Len(sent) -> Seq(Byte)], x \in Seq(Byte), y \in Seq(Byte) :
          /\ Splits(sent, c) /\ Taken(x) /\ Before(y)
          /\ x \o Rest = y \o c[Len(read)]
    BY <2>1 DEF InStep
  <2> WITNESS c \in [0 .. Len(sent') -> Seq(Byte)], x \in Seq(Byte), y \in Seq(Byte)
  <2> HIDE DEF Rest
  <2> QED BY <1>1, <1>2, <2>1, <2>2
<1> QED BY <1>3 DEF InStep

LEMMA TypesOf ==
  ASSUME WireInv
  PROVE  /\ StreamTypes /\ Rest \in Seq(Byte) /\ wire \o out \in Seq(Byte)
         /\ sent \in Seq(Sendable) /\ read \in Seq(Readable)
         /\ Len(sent) \in Nat /\ Len(read) \in 0 .. Len(sent)
<1>1. StreamTypes
  BY DEF WireInv, PeerWireTypeOK, StreamTypes
<1>2. sent \in Seq(Sendable) /\ read \in Seq(Readable) /\ Len(read) <= Len(sent)
  BY DEF WireInv, Histories
<1> QED BY <1>1, <1>2, Streams, LenProperties

(* A new frame comes to stand after all that is still to be read. *)
LEMMA FrameSent ==
  ASSUME WireInv, out = <<>>, NEW m \in Sendable, NEW f \in FramesOf(m),
         sent' = Append(sent, m), out' = f,
         UNCHANGED <<wire, stage, got, msg_type, payload_len, read>>
  PROVE  InStep'
<1>1. /\ StreamTypes /\ Rest \in Seq(Byte) /\ sent \in Seq(Sendable)
      /\ Len(sent) \in Nat /\ Len(read) \in 0 .. Len(sent)
  BY TypesOf
<1>2. f \in Seq(Byte)
  BY FrameBytes DEF Sendable
<1>3. \A x : Taken(x) => Taken(x)'
  BY DEF Taken
<1>4. \A y : Before(y) => Before(y)'
  BY DEF Before
<1>5. Rest' = Rest \o f
  <2>1. wire \in Seq(Byte) /\ got \in Seq(Byte)
    BY <1>1 DEF StreamTypes
  <2>2. wire \o out = wire
    BY <2>1, JoinEmpty
  <2>3. (got \o wire) \o f = got \o (wire \o f)
    BY <2>1, <1>2, Regroup, Zenon
  <2> QED BY <2>2, <2>3 DEF Rest
<1>6. ASSUME stage' # "closed"
      PROVE  \E c \in [0 .. Len(sent') -> Seq(Byte)], x \in Seq(Byte), y \in Seq(Byte) :
               /\ Splits(sent', c) /\ Taken(x)' /\ Before(y)'
               /\ x \o Rest' = y \o c[Len(read')]
  <2>1. stage # "closed" /\ InStep
    BY <1>6 DEF WireInv
  <2>2. PICK c \in [0 .. Len(sent) -> Seq(Byte)], x \in Seq(Byte), y \in Seq(Byte) :
          /\ Splits(sent, c) /\ Taken(x) /\ Before(y)
          /\ x \o Rest = y \o c[Len(read)]
    BY <2>1 DEF InStep
  <2>3. PICK d \in [0 .. Len(sent') -> Seq(Byte)] :
          Splits(sent', d) /\ \A j \in 0 .. Len(sent) : d[j] = c[j] \o f
    BY <1>1, <1>2, <2>2, SplitsGrow
  <2>4. d[Len(read')] = c[Len(read)] \o f /\ c[Len(read)] \in Seq(Byte)
    BY <1>1, <2>3
  <2> HIDE DEF Rest
  <2>5. x \o Rest' = y \o d[Len(read')]
    <3>1. (x \o Rest) \o f = x \o (Rest \o f)
      BY <1>1, <1>2, Regroup, Zenon
    <3>2. (y \o c[Len(read)]) \o f = y \o (c[Len(read)] \o f)
      BY <1>2, <2>4, Regroup, Zenon
    <3> QED BY <3>1, <3>2, <1>5, <2>2, <2>4, Zenon
  <2> WITNESS d \in [0 .. Len(sent') -> Seq(Byte)], x \in Seq(Byte), y \in Seq(Byte)
  <2> QED BY <1>3, <1>4, <2>2, <2>3, <2>5, Zenon
<1> QED BY <1>6 DEF InStep

LEMMA SendStep ==
  ASSUME WireInv, SendFrame
  PROVE  WireInv' /\ Channel!Send
<1>a. PICK m \in Sendable :
        \E f \in FramesOf(m) : sent' = Append(sent, m) /\ out' = f
  <2>1. CASE \E m \in Messages : sent' = Append(sent, m) /\ out' = Encode(m)
    <3>1. PICK m \in Messages : sent' = Append(sent, m) /\ out' = Encode(m)
      BY <2>1
    <3>2. Encode(m) \in FramesOf(m) /\ m \in Sendable
      BY MessageKinds DEF FramesOf, Sendable
    <3> QED BY <3>1, <3>2
  <2>2. CASE \E f \in BadFrames : /\ sent' = Append(sent, Malformed)
                                  /\ out'  = Frame(f.type, f.length, f.data)
    <3>1. PICK f \in BadFrames : /\ sent' = Append(sent, Malformed)
                                 /\ out'  = Frame(f.type, f.length, f.data)
      BY <2>2
    <3>2. Frame(f.type, f.length, f.data) \in FramesOf(Malformed)
          /\ Malformed \in Sendable
      BY DEF FramesOf, Sendable
    <3> QED BY <3>1, <3>2
  <2> QED BY <2>1, <2>2 DEF SendFrame
<1>1. PICK f \in FramesOf(m) : sent' = Append(sent, m) /\ out' = f
  BY <1>a
<1>2. /\ out = <<>> /\ Len(sent) < MaxMessages
      /\ UNCHANGED <<wire, stage, need, got, msg_type, payload_len, read,
                     peer_choking, peer_interested>>
  BY DEF SendFrame, frameVars, stateVars
<1>3. sent \in Seq(Sendable) /\ Len(sent) \in Nat /\ read \in Seq(Readable)
      /\ Len(read) \in 0 .. Len(sent)
  BY TypesOf
<1>4. sent' \in Seq(Sendable) /\ Len(sent') = Len(sent) + 1
  BY <1>1, <1>3, AppendProperties
<1>5. f \in Seq(Byte)
  BY FrameBytes DEF Sendable
<1>6. PeerWireTypeOK'
  <2>1. Len(sent') \in 0 .. MaxMessages
    BY <1>2, <1>3, <1>4, PeerWireAssumption
  <2> QED BY <1>1, <1>2, <1>5, <2>1 DEF WireInv, PeerWireTypeOK
<1>7. Histories'
  BY <1>2, <1>3, <1>4 DEF Histories
<1>8. Collected'
  BY <1>2 DEF WireInv, Collected
<1>9. InStep'
  BY <1>1, <1>2, FrameSent
<1>10. Channel!Send
  <2>1. Mapped(sent') = Append(Mapped(sent), Received(m))
    BY <1>1, <1>3, MappedAppend
  <2>2. Received(m) \in Readable \cup {Malformed}
    BY ReceivedKinds DEF Sendable
  <2> QED BY <1>2, <2>1, <2>2 DEF Channel!Send, Mapped, Readable
<1> QED BY <1>6, <1>7, <1>8, <1>9, <1>10 DEF WireInv

LEMMA SendSomeStep ==
  ASSUME WireInv, SendSome
  PROVE  WireInv' /\ UNCHANGED <<sent, read>>
<1>1. PICK n \in 1 .. Len(out) :
        wire' = wire \o SubSeq(out, 1, n) /\ out' = SubSeq(out, n + 1, Len(out))
  BY DEF SendSome
<1>2. UNCHANGED <<sent, stage, need, got, msg_type, payload_len, read,
                  peer_choking, peer_interested>>
  BY DEF SendSome, frameVars, stateVars
<1>3. out \in Seq(Byte) /\ wire \in Seq(Byte) /\ got \in Seq(Byte)
  BY TypesOf DEF StreamTypes
<1> DEFINE a == SubSeq(out, 1, n)
           b == SubSeq(out, n + 1, Len(out))
<1>4. a \in Seq(Byte) /\ b \in Seq(Byte) /\ a \o b = out
  <2>1. n \in 0 .. Len(out)
    BY <1>3, LenProperties
  <2> QED BY <1>3, <2>1, CutInTwo
<1>5. wire' = wire \o a /\ out' = b
  BY <1>1
<1> HIDE DEF a, b
<1>6. (wire \o a) \o b = wire \o out /\ wire \o a \in Seq(Byte)
  <2>1. a \in Seq(Byte) /\ b \in Seq(Byte)
    BY <1>4
  <2>2. (wire \o a) \o b = wire \o (a \o b)
    BY <2>1, <1>3, Regroup
  <2>3. wire \o a \in Seq(Byte)
    BY <2>1, <1>3, Join
  <2> QED BY <2>2, <2>3, <1>4, Zenon
<1>7. Rest' = Rest
  BY <1>2, <1>5, <1>6 DEF Rest
<1>8. PeerWireTypeOK'
  BY <1>2, <1>4, <1>5, <1>6 DEF WireInv, PeerWireTypeOK
<1>9. Histories' /\ Collected'
  BY <1>2 DEF WireInv, Histories, Collected
<1>10. InStep'
  BY <1>2, <1>7, SameRest DEF WireInv
<1> QED BY <1>2, <1>8, <1>9, <1>10 DEF WireInv

LEMMA RecvStep ==
  ASSUME WireInv, RecvSome
  PROVE  WireInv' /\ UNCHANGED <<sent, read>>
<1>1. PICK n \in 1 .. Len(wire) :
        /\ need > 0 /\ n <= need
        /\ got'  = got \o SubSeq(wire, 1, n)
        /\ need' = need - n
        /\ wire' = SubSeq(wire, n + 1, Len(wire))
  BY DEF RecvSome, Wanted
<1>2. UNCHANGED <<sent, out, stage, msg_type, payload_len, read,
                  peer_choking, peer_interested>>
  BY DEF RecvSome, senderVars, frameVars, stateVars
<1>3. out \in Seq(Byte) /\ wire \in Seq(Byte) /\ got \in Seq(Byte) /\ need \in Nat
  BY TypesOf DEF StreamTypes
<1> DEFINE a == SubSeq(wire, 1, n)
           b == SubSeq(wire, n + 1, Len(wire))
<1>4. a \in Seq(Byte) /\ b \in Seq(Byte) /\ Len(a) = n /\ a \o b = wire
  <2>1. n \in 0 .. Len(wire)
    BY <1>3, LenProperties
  <2> QED BY <1>3, <2>1, CutInTwo
<1>5. got' = got \o a /\ wire' = b
  BY <1>1
<1> HIDE DEF a, b
<1>6. got \o a \in Seq(Byte) /\ Len(got \o a) = Len(got) + n /\ b \o out \in Seq(Byte)
  <2>1. got \o a \in Seq(Byte) /\ Len(got \o a) = Len(got) + Len(a)
    BY <1>3, <1>4, Join
  <2> QED BY <1>3, <1>4, <2>1, Join
<1>7. Rest' = Rest
  <2>0. a \in Seq(Byte) /\ b \in Seq(Byte)
    BY <1>4
  <2>1. (got \o a) \o (b \o out) = got \o (a \o (b \o out))
    BY <1>3, <2>0, <1>6, Regroup, Zenon
  <2>2. (a \o b) \o out = a \o (b \o out)
    BY <1>3, <2>0, Regroup
  <2>3. Rest' = (got \o a) \o (b \o out)
    BY <1>2, <1>5 DEF Rest
  <2> QED BY <2>1, <2>2, <2>3, <1>4, Zenon DEF Rest
<1>8. need' \in Nat /\ need' + Len(got') = need + Len(got)
  <2>1. Len(got) \in Nat
    BY <1>3, LenProperties
  <2> QED BY <1>1, <1>3, <1>5, <1>6, <2>1
<1>9. PeerWireTypeOK'
  BY <1>2, <1>4, <1>5, <1>6, <1>8 DEF WireInv, PeerWireTypeOK
<1>10. Histories' /\ Collected'
  <2>1. Histories'
    BY <1>2 DEF WireInv, Histories
  <2>2. Collected'
    BY <1>2, <1>8 DEF WireInv, Collected
  <2> QED BY <2>1, <2>2
<1>11. InStep'
  BY <1>2, <1>7, SameRest DEF WireInv
<1> QED BY <1>2, <1>9, <1>10, <1>11 DEF WireInv

(* A connection that ends takes no further step of the reader's. *)
LEMMA EndStep ==
  ASSUME WireInv, stage' = "closed",
         UNCHANGED <<senderVars, wire, need, got, frameVars, read, stateVars>>
  PROVE  WireInv' /\ UNCHANGED <<sent, read>>
<1>1. UNCHANGED <<sent, out, wire, need, got, msg_type, payload_len, read,
                  peer_choking, peer_interested>>
  BY DEF senderVars, frameVars, stateVars
<1>2. PeerWireTypeOK'
  BY <1>1 DEF WireInv, PeerWireTypeOK
<1>3. Histories'
  BY <1>1 DEF WireInv, Histories
<1>4. Collected' /\ InStep'
  BY DEF Collected, InStep
<1> QED BY <1>1, <1>2, <1>3, <1>4 DEF WireInv

-----------------------------------------------------------------------------
(* The reader's steps *)

(* What a reader that has begun a frame finds there. *)
LEMMA AtFrame ==
  ASSUME sent \in Seq(Sendable), NEW k \in 0 .. Len(sent),
         NEW c \in [0 .. Len(sent) -> Seq(Byte)], Splits(sent, c),
         NEW h \in Header, NEW r \in Seq(Byte), h \o r = c[k]
  PROVE  /\ k + 1 \in 1 .. Len(sent) /\ sent[k + 1] \in Sendable
         /\ c[k + 1] \in Seq(Byte)
         /\ FrameAhead(sent[k + 1], h, r, c[k + 1])
<1>1. Len(sent) \in Nat
  BY LenProperties
<1>2. k # Len(sent)
  <2>1. h \in Seq(Byte) /\ Len(h) = 4
    BY DEF Header
  <2>2. Len(h \o r) = Len(h) + Len(r) /\ Len(r) \in Nat
    BY <2>1, Join, LenProperties
  <2>3. ASSUME k = Len(sent) PROVE FALSE
    <3>1. h \o r = <<>>
      BY <2>3 DEF Splits
    <3> QED BY <3>1, <2>1, <2>2
  <2> QED BY <2>3
<1>3. k + 1 \in 1 .. Len(sent) /\ k + 1 \in 0 .. Len(sent) /\ (k + 1) - 1 = k
  BY <1>1, <1>2
<1> DEFINE m == sent[k + 1]
           s == c[k + 1]
<1>4. m \in Sendable /\ m \in Messages \cup {Malformed} /\ s \in Seq(Byte)
  BY <1>3, ElementOfSeq DEF Sendable
<1>5. PICK f \in FramesOf(m) : c[k] = f \o s
  <2>1. \E f \in FramesOf(sent[k + 1]) : c[(k + 1) - 1] = f \o c[k + 1]
    BY <1>3 DEF Splits
  <2> QED BY <2>1, <1>3
<1> HIDE DEF m, s
<1>6. FrameAhead(m, h, r, s)
  <2>1. h \o r = f \o s
    BY <1>5
  <2> QED BY <1>4, <2>1, TakeFrame, Zenon
<1> QED BY <1>3, <1>4, <1>6 DEF m, s

(* A frame that has been read through is one message of the channel.        *)
LEMMA Delivered ==
  ASSUME WireInv, NEW c \in [0 .. Len(sent) -> Seq(Byte)], Splits(sent, c),
         Len(read) + 1 \in 1 .. Len(sent), sent[Len(read) + 1] \in Messages,
         wire \o out = c[Len(read) + 1],
         Return(Received(sent[Len(read) + 1])),
         UNCHANGED <<sent, out, wire, msg_type, payload_len>>,
         peer_choking' \in BOOLEAN, peer_interested' \in BOOLEAN
  PROVE  WireInv' /\ Channel!Receive
<1> DEFINE k == Len(read)
           m == sent[k + 1]
<1>1. /\ read' = Append(read, Received(m))
      /\ stage' = "length" /\ need' = 4 /\ got' = <<>>
  BY DEF Return, Await
<1>2. /\ sent \in Seq(Sendable) /\ read \in Seq(Readable) /\ Len(sent) \in Nat
      /\ k \in 0 .. Len(sent) /\ StreamTypes /\ wire \o out \in Seq(Byte)
  BY TypesOf
<1>3. m \in Messages /\ k + 1 \in 1 .. Len(sent) /\ wire \o out = c[k + 1]
  OBVIOUS
<1>4. Received(m) \in Readable /\ Received(m) # Malformed
  BY <1>3, ReceivedKinds
<1>5. read' \in Seq(Readable) /\ Len(read') = k + 1
  BY <1>1, <1>2, <1>4, AppendProperties
<1> HIDE DEF k, m
<1>6. PeerWireTypeOK'
  <2>1. <<>> \in Seq(Byte) /\ 4 \in Nat
    OBVIOUS
  <2>2. Len(sent') \in 0 .. MaxMessages
    BY DEF WireInv, PeerWireTypeOK
  <2> QED BY <1>1, <1>2, <2>1, <2>2 DEF PeerWireTypeOK, StreamTypes
<1>7. Histories'
  BY <1>2, <1>3, <1>5 DEF Histories
<1>8. Collected'
  BY <1>1 DEF Collected
<1>9. InStep'
  <2>1. Taken(<<>>)' /\ Before(<<>>)'
    BY <1>1 DEF Taken, Before
  <2>2. <<>> \o Rest' = <<>> \o c[Len(read')]
    <3>1. Rest' = <<>> \o (wire \o out)
      BY <1>1 DEF Rest
    <3>2. <<>> \o (wire \o out) = wire \o out
      BY <1>2, JoinEmpty, Zenon
    <3> QED BY <3>1, <3>2, <1>3, <1>5, Zenon
  <2>3. <<>> \in Seq(Byte) /\ sent' = sent
    OBVIOUS
  <2> QED BY <2>1, <2>2, <2>3, Zenon DEF InStep
<1>10. Channel!Receive
  <2>1. Mapped(sent)[k + 1] = Received(m) /\ Len(Mapped(sent)) = Len(sent)
    BY <1>2, <1>3, MappedEntry, MappedLen DEF m
  <2>2. Mapped(sent') = Mapped(sent)
    OBVIOUS
  <2>3. k < Len(Mapped(sent))
    BY <1>2, <1>3, <2>1
  <2> HIDE DEF Mapped
  <2>4. /\ Len(read) < Len(Mapped(sent))
        /\ Mapped(sent)[Len(read) + 1] # Malformed
        /\ read' = Append(read, Mapped(sent)[Len(read) + 1])
        /\ Mapped(sent') = Mapped(sent)
    BY <1>1, <1>4, <2>1, <2>2, <2>3 DEF k
  <2> QED BY <2>4 DEF Channel!Receive, Mapped
<1> QED BY <1>6, <1>7, <1>8, <1>9, <1>10 DEF WireInv

LEMMA HandshakeStep ==
  ASSUME WireInv, EndHandshake
  PROVE  WireInv' /\ UNCHANGED <<sent, read>>
<1>1. /\ stage = "handshake" /\ need = 0
      /\ UNCHANGED <<sent, out, wire, msg_type, payload_len, read,
                     peer_choking, peer_interested>>
  BY DEF EndHandshake, Complete, senderVars, frameVars, stateVars
<1>2. CASE ~HandshakeMatches(got)
  BY <1>2, EndStep DEF EndHandshake, vars
<1>3. CASE HandshakeMatches(got)
  <2>1. stage' = "length" /\ need' = 4 /\ got' = <<>>
    BY <1>3 DEF EndHandshake, Await
  <2>2. StreamTypes /\ wire \o out \in Seq(Byte) /\ Len(read) \in 0 .. Len(sent)
    BY TypesOf
  <2>3. Len(got) = 3 /\ got \in Seq(Byte)
    <3>1. need + Len(got) = 3 /\ got \in Seq(Byte)
      BY <1>1, <2>2 DEF WireInv, Collected, StreamTypes
    <3> QED BY <3>1, <1>1, LenProperties
  <2>4. PICK c \in [0 .. Len(sent) -> Seq(Byte)], x \in Seq(Byte), y \in Seq(Byte) :
          /\ Splits(sent, c) /\ Taken(x) /\ Before(y)
          /\ x \o Rest = y \o c[Len(read)]
    BY <1>1 DEF WireInv, InStep
  <2>5. x = <<>> /\ y \in Handshakes
    BY <1>1, <2>4 DEF Taken, Before
  <2>6. y \in Seq(Byte) /\ Len(y) = 3 /\ c[Len(read)] \in Seq(Byte)
    BY <2>2, <2>5, HandshakeBytes
  <2>7. wire \o out = c[Len(read)]
    <3>1. <<>> \o Rest = Rest
      BY TypesOf, JoinEmpty, Zenon
    <3>2. got \o (wire \o out) = y \o c[Len(read)]
      BY <3>1, <2>4, <2>5, Zenon DEF Rest
    <3>3. Len(got) = Len(y)
      BY <2>3, <2>6
    <3> DEFINE u == wire \o out
               v == c[Len(read)]
    <3>4. got \o u = y \o v /\ u \in Seq(Byte) /\ v \in Seq(Byte)
      BY <3>2, <2>2, <2>6
    <3> HIDE DEF u, v
    <3>5. u = v
      BY <3>3, <3>4, <2>3, <2>6, SamePrefix, Zenon
    <3> QED BY <3>5 DEF u, v
  <2>8. PeerWireTypeOK'
    <3>1. <<>> \in Seq(Byte) /\ 4 \in Nat
      OBVIOUS
    <3> QED BY <1>1, <2>1, <3>1 DEF WireInv, PeerWireTypeOK
  <2>9. Histories'
    BY <1>1 DEF WireInv, Histories
  <2>10. Collected'
    BY <2>1 DEF Collected
  <2>11. InStep'
    <3>1. Taken(<<>>)' /\ Before(<<>>)'
      BY <2>1 DEF Taken, Before
    <3>2. <<>> \o Rest' = <<>> \o c[Len(read')]
      <4>1. Rest' = <<>> \o (wire \o out)
        BY <1>1, <2>1 DEF Rest
      <4>2. <<>> \o (wire \o out) = wire \o out
        BY <2>2, JoinEmpty, Zenon
      <4> QED BY <4>1, <4>2, <1>1, <2>7, Zenon
    <3>3. <<>> \in Seq(Byte) /\ sent' = sent
      BY <1>1
    <3> QED BY <2>4, <3>1, <3>2, <3>3, Zenon DEF InStep
  <2> QED BY <1>1, <2>8, <2>9, <2>10, <2>11 DEF WireInv
<1> QED BY <1>2, <1>3

(* Where the stream stands when a length is to be read, and afterwards. *)
LEMMA LengthAhead ==
  ASSUME WireInv, stage = "length"
  PROVE  \E c \in [0 .. Len(sent) -> Seq(Byte)] :
           Splits(sent, c) /\ got \o (wire \o out) = c[Len(read)]
<1>1. PICK c \in [0 .. Len(sent) -> Seq(Byte)], x \in Seq(Byte), y \in Seq(Byte) :
        /\ Splits(sent, c) /\ Taken(x) /\ Before(y)
        /\ x \o Rest = y \o c[Len(read)]
  BY DEF WireInv, InStep
<1>2. x = <<>> /\ y = <<>>
  BY <1>1 DEF Taken, Before
<1>3. Rest \in Seq(Byte) /\ c[Len(read)] \in Seq(Byte)
  BY TypesOf
<1>4. Rest = c[Len(read)]
  BY <1>1, <1>2, <1>3, JoinEmpty, Zenon
<1> QED BY <1>1, <1>4 DEF Rest

LEMMA FrameOpen ==
  ASSUME WireInv, stage \in {"type", "payload"}
  PROVE  \E c \in [0 .. Len(sent) -> Seq(Byte)], x \in Seq(Byte) :
           Splits(sent, c) /\ Taken(x) /\ x \o Rest = c[Len(read)]
<1>1. PICK c \in [0 .. Len(sent) -> Seq(Byte)], x \in Seq(Byte), y \in Seq(Byte) :
        /\ Splits(sent, c) /\ Taken(x) /\ Before(y)
        /\ x \o Rest = y \o c[Len(read)]
  BY DEF WireInv, InStep
<1>2. y = <<>>
  BY <1>1 DEF Before
<1>3. c[Len(read)] \in Seq(Byte)
  BY TypesOf
<1>4. x \o Rest = c[Len(read)]
  BY <1>1, <1>2, <1>3, JoinEmpty, Zenon
<1> QED BY <1>1, <1>4

(* A length of zero is a KeepAlive. *)
LEMMA KeepAliveStep ==
  ASSUME WireInv, ReadKeepAlive
  PROVE  WireInv' /\ Channel!Receive
<1>1. /\ stage = "length" /\ need = 0 /\ read_u32(got) = 0
      /\ Return(KeepAlive)
      /\ UNCHANGED <<sent, out, wire, msg_type, payload_len,
                     peer_choking, peer_interested>>
  BY DEF ReadKeepAlive, Complete, senderVars, frameVars, stateVars
<1>2. /\ StreamTypes /\ wire \o out \in Seq(Byte) /\ sent \in Seq(Sendable)
      /\ Len(read) \in 0 .. Len(sent) /\ Rest \in Seq(Byte)
  BY TypesOf
<1>3. got \in Header
  <2>1. need + Len(got) = 4 /\ got \in Seq(Byte)
    BY <1>1, <1>2 DEF WireInv, Collected, StreamTypes
  <2>2. Len(got) = 4
    BY <2>1, <1>1, LenProperties
  <2> QED BY <2>1, <2>2 DEF Header
<1>4. PICK c \in [0 .. Len(sent) -> Seq(Byte)] :
        Splits(sent, c) /\ got \o (wire \o out) = c[Len(read)]
  BY <1>1, LengthAhead
<1> DEFINE k == Len(read)
           m == sent[k + 1]
           r == wire \o out
<1> HIDE DEF k, r
<1>5. k + 1 \in 1 .. Len(sent) /\ m \in Sendable /\ FrameAhead(m, got, r, c[k + 1])
  <2>1. k \in 0 .. Len(sent) /\ r \in Seq(Byte) /\ got \o r = c[k]
    BY <1>2, <1>4 DEF k, r
  <2> QED BY <1>2, <1>3, <1>4, <2>1, AtFrame, Zenon
<1> HIDE DEF m
<1>6. KeepAliveFrame(m, got) /\ r = c[k + 1]
  <2>1. ASSUME NEW t \in Byte, NEW p \in Seq(Byte), MessageFrame(m, got, t, p)
        PROVE FALSE
    <3>1. Len(p) \in Nat /\ read_u32(got) = Len(p) + 1
      BY <2>1, LenProperties DEF MessageFrame
    <3> QED BY <3>1, <1>1
  <2>2. ASSUME NEW t \in Byte, BadFrame(m, got, t)
        PROVE FALSE
    BY <1>1, <2>2 DEF BadFrame
  <2> QED BY <1>5, <2>1, <2>2, Zenon DEF FrameAhead
<1>7. m \in Messages /\ m = KeepAlive
  <2>1. KeepAlive # Malformed
    BY DEF KeepAlive, Malformed, PeerMessage
  <2> QED BY <2>1, <1>5, <1>6 DEF KeepAliveFrame, Sendable
<1>8. Received(m) = KeepAlive
  BY <1>7 DEF Received, KeepAlive, PeerMessage, Bitfield, Piece
<1>9. peer_choking' \in BOOLEAN /\ peer_interested' \in BOOLEAN
  BY <1>1 DEF WireInv, PeerWireTypeOK
<1>10. k + 1 \in 1 .. Len(sent) /\ sent[k + 1] \in Messages /\ wire \o out = c[k + 1]
       /\ Return(Received(sent[k + 1]))
  BY <1>1, <1>5, <1>6, <1>7, <1>8, Zenon DEF m, r
<1> QED BY <1>1, <1>4, <1>9, <1>10, Delivered DEF k

(* Another length is kept, and the type is read next. *)
LEMMA LengthStep ==
  ASSUME WireInv, ReadLength
  PROVE  WireInv' /\ UNCHANGED <<sent, read>>
<1>1. /\ stage = "length" /\ need = 0 /\ read_u32(got) # 0
      /\ payload_len' = read_u32(got) - 1
      /\ stage' = "type" /\ need' = 1 /\ got' = <<>>
      /\ UNCHANGED <<sent, out, wire, msg_type, read, peer_choking, peer_interested>>
  BY DEF ReadLength, Complete, Await, senderVars, stateVars
<1>2. /\ StreamTypes /\ wire \o out \in Seq(Byte) /\ Rest \in Seq(Byte)
  BY TypesOf
<1>3. got \in Header /\ got \in Seq(Byte) /\ Len(got) = 4
  <2>1. need + Len(got) = 4 /\ got \in Seq(Byte)
    BY <1>1, <1>2 DEF WireInv, Collected, StreamTypes
  <2>2. Len(got) = 4
    BY <2>1, <1>1, LenProperties
  <2> QED BY <2>1, <2>2 DEF Header
<1>4. payload_len' \in Nat /\ read_u32(got) = payload_len' + 1
  <2>1. read_u32(got) \in Nat
    BY <1>3, WordNat
  <2> QED BY <2>1, <1>1
<1>5. PICK c \in [0 .. Len(sent) -> Seq(Byte)] :
        Splits(sent, c) /\ got \o (wire \o out) = c[Len(read)]
  BY <1>1, LengthAhead
<1>6. PeerWireTypeOK'
  <2>1. <<>> \in Seq(Byte) /\ 1 \in Nat
    OBVIOUS
  <2> QED BY <1>1, <1>4, <2>1 DEF WireInv, PeerWireTypeOK
<1>7. Histories'
  BY <1>1 DEF WireInv, Histories
<1>8. Collected'
  BY <1>1 DEF Collected
<1>9. InStep'
  <2>0. PICK h \in Header : h = got
    BY <1>3
  <2>1. Taken(h)'
    <3> SUFFICES stage' = "type" /\ h \in Header /\ read_u32(h) = payload_len' + 1
      BY DEF Taken
    <3> QED BY <1>1, <1>4, <2>0
  <2>2. Before(<<>>)'
    BY <1>1 DEF Before
  <2>3. h \o Rest' = <<>> \o c[Len(read')]
    <3>1. Rest' = <<>> \o (wire \o out)
      BY <1>1 DEF Rest
    <3>2. <<>> \o (wire \o out) = wire \o out
      BY <1>2, JoinEmpty, Zenon
    <3>3. c[Len(read)] \in Seq(Byte)
      BY TypesOf
    <3>4. <<>> \o c[Len(read)] = c[Len(read)] /\ read' = read
      BY <3>3, <1>1, JoinEmpty
    <3> QED BY <3>1, <3>2, <3>4, <1>5, <2>0, Zenon
  <2>4. <<>> \in Seq(Byte) /\ sent' = sent /\ h \in Seq(Byte)
    BY <1>1, <1>3, <2>0
  <2> QED BY <1>5, <2>1, <2>2, <2>3, <2>4, Zenon DEF InStep
<1> QED BY <1>1, <1>6, <1>7, <1>8, <1>9 DEF WireInv

(* What stands before a reader that has the type byte. *)
LEMMA TypeAhead ==
  ASSUME WireInv, stage = "type", need = 0
  PROVE  /\ got[1] \in Byte /\ got = <<got[1]>>
         /\ \E c \in [0 .. Len(sent) -> Seq(Byte)], h \in Header :
              /\ Splits(sent, c) /\ read_u32(h) = payload_len + 1
              /\ h \o (<<got[1]>> \o (wire \o out)) = c[Len(read)]
<1>1. got \in Seq(Byte) /\ Len(got) = 1
  <2>1. need + Len(got) = 1 /\ got \in Seq(Byte)
    BY DEF WireInv, Collected, PeerWireTypeOK
  <2> QED BY <2>1, LenProperties
<1>2. got[1] \in Byte
  BY <1>1, ElementOfSeq
<1>3. got = <<got[1]>>
  <2>1. <<got[1]>> \in Seq(Byte) /\ Len(<<got[1]>>) = 1 /\ <<got[1]>>[1] = got[1]
    BY <1>2, OneByte
  <2>2. \A i \in 1 .. Len(got) : got[i] = <<got[1]>>[i]
    BY <1>1, <2>1
  <2> QED BY <1>1, <2>1, <2>2, SeqEqual
<1>4. PICK c \in [0 .. Len(sent) -> Seq(Byte)], x \in Seq(Byte) :
        Splits(sent, c) /\ Taken(x) /\ x \o Rest = c[Len(read)]
  BY FrameOpen
<1>5. x \in Header /\ read_u32(x) = payload_len + 1
  BY <1>4 DEF Taken
<1>6. x \o (<<got[1]>> \o (wire \o out)) = c[Len(read)]
  BY <1>3, <1>4, Zenon DEF Rest
<1> QED BY <1>2, <1>3, <1>4, <1>5, <1>6, Zenon

LEMMA FlagStep ==
  ASSUME WireInv, ReadFlag
  PROVE  WireInv' /\ Channel!Receive
<1>1. /\ stage = "type" /\ need = 0 /\ got[1] \in Flags
      /\ Return(PeerMessage(got[1], 0, 0, 0, <<>>))
      /\ UNCHANGED <<sent, out, wire, msg_type, payload_len>>
  BY DEF ReadFlag, Complete, senderVars, frameVars
<1>2. peer_choking' \in BOOLEAN /\ peer_interested' \in BOOLEAN
  <2>1. peer_choking \in BOOLEAN /\ peer_interested \in BOOLEAN
    BY DEF WireInv, PeerWireTypeOK
  <2> QED BY <2>1 DEF ReadFlag
<1>3. /\ StreamTypes /\ wire \o out \in Seq(Byte) /\ sent \in Seq(Sendable)
      /\ Len(read) \in 0 .. Len(sent) /\ payload_len \in Nat
  BY TypesOf DEF StreamTypes
<1>4. got[1] \in Byte
  BY <1>1, TypeAhead
<1>5. PICK c \in [0 .. Len(sent) -> Seq(Byte)], h \in Header :
        /\ Splits(sent, c) /\ read_u32(h) = payload_len + 1
        /\ h \o (<<got[1]>> \o (wire \o out)) = c[Len(read)]
  BY <1>1, TypeAhead
<1> DEFINE k == Len(read)
           m == sent[k + 1]
           g == got[1]
           u == wire \o out
           r == <<g>> \o u
<1>6. <<g>> \in Seq(Byte) /\ Len(<<g>>) = 1 /\ u \in Seq(Byte)
  BY <1>3, <1>4, OneByte
<1>7. r \in Seq(Byte)
  <2> HIDE DEF g, u
  <2> QED BY <1>6, Join
<1> HIDE DEF k, r
<1>8. /\ k + 1 \in 1 .. Len(sent) /\ m \in Sendable /\ c[k + 1] \in Seq(Byte)
      /\ FrameAhead(m, h, r, c[k + 1])
  <2>1. k \in 0 .. Len(sent) /\ h \o r = c[k]
    BY <1>3, <1>5 DEF k, r
  <2> QED BY <1>3, <1>5, <1>7, <2>1, AtFrame, Zenon
<1> HIDE DEF m
<1>9. PICK t \in Byte, p \in Seq(Byte) :
        /\ r = <<t>> \o (p \o c[k + 1])
        /\ MessageFrame(m, h, t, p) \/ BadFrame(m, h, t)
  <2>1. ~KeepAliveFrame(m, h)
    BY <1>3, <1>5 DEF KeepAliveFrame
  <2> QED BY <1>8, <2>1, Zenon DEF FrameAhead
<1> HIDE DEF g, u
<1>10. t = g /\ u = p \o c[k + 1]
  <2> DEFINE v == p \o c[k + 1]
  <2>1. <<t>> \in Seq(Byte) /\ Len(<<t>>) = 1 /\ v \in Seq(Byte)
    BY <1>8, OneByte, Join
  <2> HIDE DEF v
  <2>2. <<g>> \o u = <<t>> \o v
    BY <1>9 DEF r, v
  <2>3. <<g>> = <<t>> /\ u = v
    BY <1>6, <2>1, <2>2, SamePrefix
  <2>4. <<g>>[1] = g /\ <<t>>[1] = t
    OBVIOUS
  <2> QED BY <2>3, <2>4, Zenon DEF v
<1>11. g \in Flags
  BY <1>1 DEF g
<1>12. m \in Messages /\ m.type = g /\ p = Payload(m)
  BY <1>9, <1>10, <1>11 DEF MessageFrame, BadFrame
<1>13. m = PeerMessage(g, 0, 0, 0, <<>>) /\ p = <<>>
  <2>1. /\ m = PeerMessage(m.type, m.piece_index, m.begin, m.length, m.data)
        /\ m.piece_index # 0 => m.type \in {Have, Request, Cancel, Piece}
        /\ m.begin # 0       => m.type \in {Request, Cancel, Piece}
        /\ m.length # 0      => m.type \in {Request, Cancel}
        /\ m.data # <<>>     => m.type \notin Flags
    BY <1>12, PeerWireAssumption
  <2>2. g \notin {Have, Request, Cancel, Piece}
    BY <1>11 DEF Flags, Choke, Unchoke, Interested, NotInterested,
                 Have, Request, Cancel, Piece
  <2>3. m.piece_index = 0 /\ m.begin = 0 /\ m.length = 0 /\ m.data = <<>>
    BY <2>1, <2>2, <1>11, <1>12
  <2>4. Payload(m) = m.data
    BY <1>12, <2>2, PayloadShape
  <2> QED BY <2>1, <2>3, <2>4, <1>12, Zenon
<1>14. Received(m) = m
  <2>1. m.type # Bitfield /\ m.type # Piece
    BY <1>11, <1>12 DEF Flags, Choke, Unchoke, Interested, NotInterested,
                        Bitfield, Piece
  <2>2. [m EXCEPT !.data = <<>>] = m
    BY <1>13 DEF PeerMessage
  <2> QED BY <2>1, <2>2 DEF Received
<1>15. u = c[k + 1]
  BY <1>8, <1>10, <1>13, JoinEmpty
<1>16. k + 1 \in 1 .. Len(sent) /\ sent[k + 1] \in Messages /\ wire \o out = c[k + 1]
       /\ Return(Received(sent[k + 1]))
  BY <1>1, <1>8, <1>12, <1>13, <1>14, <1>15, Zenon DEF m, u, g
<1> QED BY <1>1, <1>2, <1>5, <1>16, Delivered DEF k

LEMMA TypeStep ==
  ASSUME WireInv, ReadType
  PROVE  WireInv' /\ UNCHANGED <<sent, read>>
<1>1. /\ stage = "type" /\ need = 0 /\ got[1] \notin Flags
      /\ LengthValid(got[1], payload_len)
      /\ msg_type' = got[1]
      /\ stage' = "payload" /\ need' = payload_len /\ got' = <<>>
      /\ UNCHANGED <<sent, out, wire, payload_len, read,
                     peer_choking, peer_interested>>
  BY DEF ReadType, Complete, Await, PayloadToRead, senderVars, stateVars
<1>2. /\ StreamTypes /\ wire \o out \in Seq(Byte) /\ payload_len \in Nat
      /\ Len(read) \in 0 .. Len(sent)
  BY TypesOf DEF StreamTypes
<1>3. got[1] \in Byte
  BY <1>1, TypeAhead
<1>4. PICK c \in [0 .. Len(sent) -> Seq(Byte)], h \in Header :
        /\ Splits(sent, c) /\ read_u32(h) = payload_len + 1
        /\ h \o (<<got[1]>> \o (wire \o out)) = c[Len(read)]
  BY <1>1, TypeAhead
<1>5. PICK g \in Byte : g = got[1]
  BY <1>3
<1>6. PeerWireTypeOK'
  <2>1. <<>> \in Seq(Byte)
    OBVIOUS
  <2> QED BY <1>1, <1>2, <1>3, <2>1 DEF WireInv, PeerWireTypeOK
<1>7. Histories'
  BY <1>1 DEF WireInv, Histories
<1>8. Collected'
  BY <1>1, <1>2 DEF Collected
<1>9. h \in Seq(Byte) /\ <<g>> \in Seq(Byte) /\ c[Len(read)] \in Seq(Byte)
  BY <1>2, OneByte DEF Header
<1> DEFINE x == h \o <<g>>
<1>10. x \in Seq(Byte)
  BY <1>9, Join
<1>11. Taken(x)'
  <2> SUFFICES /\ stage' = "payload"
               /\ msg_type' \notin Flags /\ LengthValid(msg_type', payload_len')
               /\ \E i \in Header : /\ read_u32(i) = payload_len' + 1
                                    /\ x = i \o <<msg_type'>>
    BY DEF Taken, LengthValid
  <2>1. read_u32(h) = payload_len' + 1 /\ x = h \o <<msg_type'>>
    BY <1>1, <1>4, <1>5
  <2> QED BY <1>1, <2>1
<1>12. Before(<<>>)'
  BY <1>1 DEF Before
<1>13. x \o Rest' = <<>> \o c[Len(read')]
  <2>1. Rest' = <<>> \o (wire \o out)
    BY <1>1 DEF Rest
  <2>2. <<>> \o (wire \o out) = wire \o out
    BY <1>2, JoinEmpty, Zenon
  <2>3. <<>> \o c[Len(read)] = c[Len(read)] /\ read' = read
    BY <1>1, <1>9, JoinEmpty
  <2>4. (h \o <<g>>) \o (wire \o out) = h \o (<<g>> \o (wire \o out))
    BY <1>2, <1>9, Regroup, Zenon
  <2> QED BY <2>1, <2>2, <2>3, <2>4, <1>4, <1>5, Zenon
<1>14. <<>> \in Seq(Byte) /\ sent' = sent
  BY <1>1
<1>15. InStep'
  <2> HIDE DEF x
  <2> QED BY <1>4, <1>10, <1>11, <1>12, <1>13, <1>14, Zenon DEF InStep
<1> QED BY <1>1, <1>6, <1>7, <1>8, <1>15 DEF WireInv

LEMMA PayloadStep ==
  ASSUME WireInv, ReadPayload
  PROVE  WireInv' /\ Channel!Receive
<1>1. /\ stage = "payload" /\ need = 0
      /\ Return(ParsedMessage)
      /\ UNCHANGED <<sent, out, wire, msg_type, payload_len,
                     peer_choking, peer_interested>>
  BY DEF ReadPayload, Complete, senderVars, frameVars, stateVars
<1>2. /\ StreamTypes /\ wire \o out \in Seq(Byte) /\ sent \in Seq(Sendable)
      /\ Len(read) \in 0 .. Len(sent) /\ payload_len \in Nat /\ Rest \in Seq(Byte)
      /\ got \in Seq(Byte) /\ msg_type \in Byte
  BY TypesOf DEF StreamTypes
<1>3. Len(got) = payload_len
  <2>1. need + Len(got) = payload_len
    BY <1>1 DEF WireInv, Collected
  <2> QED BY <2>1, <1>1, <1>2, LenProperties
<1>4. PICK c \in [0 .. Len(sent) -> Seq(Byte)], x \in Seq(Byte) :
        Splits(sent, c) /\ Taken(x) /\ x \o Rest = c[Len(read)]
  BY <1>1, FrameOpen
<1>5. msg_type \notin Flags /\ LengthValid(msg_type, payload_len)
  BY <1>1, <1>4 DEF Taken
<1>6. PICK h \in Header : read_u32(h) = payload_len + 1 /\ x = h \o <<msg_type>>
  BY <1>1, <1>4 DEF Taken
<1> DEFINE k == Len(read)
           m == sent[k + 1]
           g == <<msg_type>>
           u == wire \o out
           q == got \o u
           r == g \o q
<1>7. g \in Seq(Byte) /\ Len(g) = 1 /\ u \in Seq(Byte) /\ h \in Seq(Byte)
  BY <1>2, OneByte DEF Header
<1> HIDE DEF u
<1>8. q \in Seq(Byte)
  BY <1>2, <1>7, Join
<1>9. q = Rest
  BY DEF Rest, u
<1> HIDE DEF g, q
<1>10. r \in Seq(Byte)
  BY <1>7, <1>8, Join
<1>11. h \o r = c[k]
  <2>1. (h \o g) \o q = h \o (g \o q)
    BY <1>7, <1>8, Regroup
  <2> QED BY <2>1, <1>4, <1>6, <1>9, Zenon DEF g
<1> HIDE DEF k, r
<1>12. /\ k + 1 \in 1 .. Len(sent) /\ m \in Sendable /\ c[k + 1] \in Seq(Byte)
       /\ FrameAhead(m, h, r, c[k + 1])
  <2>1. k \in 0 .. Len(sent)
    BY <1>2 DEF k
  <2> QED BY <1>2, <1>4, <1>10, <1>11, <2>1, AtFrame, Zenon
<1> HIDE DEF m
<1>13. PICK t \in Byte, p \in Seq(Byte) :
        /\ r = <<t>> \o (p \o c[k + 1])
        /\ MessageFrame(m, h, t, p) \/ BadFrame(m, h, t)
  <2>1. ~KeepAliveFrame(m, h)
    BY <1>2, <1>6 DEF KeepAliveFrame
  <2> QED BY <1>12, <2>1, Zenon DEF FrameAhead
<1>14. t = msg_type /\ q = p \o c[k + 1]
  <2> DEFINE v == p \o c[k + 1]
  <2>1. <<t>> \in Seq(Byte) /\ Len(<<t>>) = 1 /\ v \in Seq(Byte)
    BY <1>12, OneByte, Join
  <2> HIDE DEF v
  <2>2. g \o q = <<t>> \o v
    BY <1>13 DEF r, v
  <2>3. g = <<t>> /\ q = v
    <3> DEFINE w == <<t>>
    <3>1. w \in Seq(Byte) /\ Len(g) = Len(w) /\ g \o q = w \o v
          /\ g \in Seq(Byte)
      BY <1>7, <2>1, <2>2
    <3> HIDE DEF w
    <3>2. g = w /\ q = v
      BY <3>1, <1>8, <2>1, SamePrefix
    <3> QED BY <3>2 DEF w
  <2>4. g[1] = msg_type /\ <<t>>[1] = t
    BY <1>2, OneByte, Zenon DEF g
  <2> QED BY <2>3, <2>4, Zenon DEF v
<1>15. MessageFrame(m, h, t, p)
  <2>1. ASSUME BadFrame(m, h, t) PROVE FALSE
    <3>1. PICK n \in Nat : read_u32(h) = n + 1 /\ ~LengthValid(t, n)
      BY <2>1 DEF BadFrame
    <3>2. n = payload_len
      BY <3>1, <1>2, <1>6
    <3> QED BY <3>1, <3>2, <1>5, <1>14, Zenon
  <2> QED BY <2>1, <1>13
<1>16. m \in Messages /\ m.type = msg_type /\ p = Payload(m) /\ Len(p) = Len(got)
  <2>1. read_u32(h) = Len(p) + 1 /\ Len(p) \in Nat
    BY <1>15, LenProperties DEF MessageFrame
  <2>2. Len(p) = payload_len
    BY <2>1, <1>2, <1>6
  <2> QED BY <2>2, <1>3, <1>14, <1>15 DEF MessageFrame
<1>17. got = p /\ u = c[k + 1]
  <2>1. got \o u = p \o c[k + 1]
    BY <1>14 DEF q
  <2>2. p \in Seq(Byte)
    OBVIOUS
  <2> DEFINE v == c[k + 1]
  <2>3. got \o u = p \o v /\ v \in Seq(Byte) /\ Len(got) = Len(p)
    BY <2>1, <1>12, <1>16
  <2> HIDE DEF v
  <2>4. got = p /\ u = v
    BY <2>2, <2>3, <1>2, <1>7, SamePrefix
  <2> QED BY <2>4 DEF v
<1>18. ParsedMessage = Received(m)
  <2>1. m.type \notin Flags /\ m.type # -1
    BY <1>2, <1>5, <1>16 DEF Byte
  <2> QED BY <2>1, <1>16, <1>17, ParseBack, Zenon
<1>19. peer_choking' \in BOOLEAN /\ peer_interested' \in BOOLEAN
  BY <1>1 DEF WireInv, PeerWireTypeOK
<1>20. k + 1 \in 1 .. Len(sent) /\ sent[k + 1] \in Messages /\ wire \o out = c[k + 1]
       /\ Return(Received(sent[k + 1]))
  BY <1>1, <1>12, <1>16, <1>17, <1>18, Zenon DEF m, u
<1> QED BY <1>1, <1>4, <1>19, <1>20, Delivered DEF k

-----------------------------------------------------------------------------
(* Every step keeps the invariant, and is a step of the channel or none.    *)
LEMMA WireStep ==
  ASSUME WireInv, [Next]_vars
  PROVE  WireInv' /\ [Channel!Next]_Channel!vars
<1> DEFINE Unseen == UNCHANGED <<sent, read>>
<1>1. Unseen => [Channel!Next]_Channel!vars
  BY DEF Channel!vars
<1>2. CASE SendFrame
  BY <1>2, SendStep DEF Channel!Next
<1>3. CASE SendSome
  BY <1>1, <1>3, SendSomeStep
<1>4. CASE RecvSome
  BY <1>1, <1>4, RecvStep
<1>5. CASE Break
  BY <1>1, <1>5, EndStep DEF Break
<1>6. CASE EndHandshake
  BY <1>1, <1>6, HandshakeStep
<1>7. CASE ReadKeepAlive
  BY <1>7, KeepAliveStep DEF Channel!Next
<1>8. CASE ReadLength
  BY <1>1, <1>8, LengthStep
<1>9. CASE ReadFlag
  BY <1>9, FlagStep DEF Channel!Next
<1>10. CASE RejectLength
  BY <1>1, <1>10, EndStep DEF RejectLength
<1>11. CASE ReadType
  BY <1>1, <1>11, TypeStep
<1>12. CASE ReadPayload
  BY <1>12, PayloadStep DEF Channel!Next
<1>13. CASE UNCHANGED vars
  <2>1. UNCHANGED <<sent, out, wire, stage, need, got, msg_type, payload_len, read,
                    peer_choking, peer_interested>>
    BY <1>13 DEF vars, senderVars, frameVars, stateVars
  <2>2. PeerWireTypeOK'
    BY <2>1 DEF WireInv, PeerWireTypeOK
  <2>3. Histories' /\ Collected'
    BY <2>1 DEF WireInv, Histories, Collected
  <2>4. Rest' = Rest
    BY <2>1 DEF Rest
  <2>5. InStep'
    BY <2>1, <2>4, SameRest DEF WireInv
  <2> QED BY <1>1, <2>1, <2>2, <2>3, <2>5 DEF WireInv
<1> QED BY <1>2, <1>3, <1>4, <1>5, <1>6, <1>7, <1>8, <1>9, <1>10, <1>11, <1>12, <1>13
        DEF Next, ReadStep

(* However the stream of bytes is cut, the reader is always at a place the   *)
(* sender's frames agree with.                                               *)
THEOREM StreamInvariant == Spec => []WireInv
<1>1. Spec => Init /\ [][Next]_vars
  BY DEF Spec
<1>2. Init => WireInv
  BY WireInit
<1>3. WireInv /\ [Next]_vars => WireInv'
  BY WireStep
<1> QED BY <1>1, <1>2, <1>3, PTL

(* The reader's state keeps its shape: recv_raw never takes more than it was  *)
(* asked for, lengths stay natural numbers and types bytes.                  *)
THEOREM WireTypeCorrect == Spec => []PeerWireTypeOK
<1>1. WireInv => PeerWireTypeOK
  BY DEF WireInv
<1> QED BY <1>1, StreamInvariant, PTL

(* A connection is a channel of messages: for every set of messages, every   *)
(* number of them and every cut of the stream, read_message returns what was *)
(* sent, whole, in order and once, and nothing of a frame whose length its   *)
(* type cannot have.                                                         *)
THEOREM WireIsChannel == Spec => ImplementsChannel
<1>1. Spec => Init /\ [][Next]_vars
  BY DEF Spec
<1>2. Init => Channel!Init
  BY WireInit
<1>3. WireInv /\ [Next]_vars => [Channel!Next]_Channel!vars
  BY WireStep
<1> QED BY <1>1, <1>2, <1>3, StreamInvariant, PTL DEF ImplementsChannel, Channel!Spec
=============================================================================
