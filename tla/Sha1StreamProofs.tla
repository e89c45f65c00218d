-------------------------- MODULE Sha1StreamProofs --------------------------
(***************************************************************************)
(* For every block size, every message and every way of cutting it into    *)
(* calls of update, finalize has compressed exactly the padded message.    *)
(***************************************************************************)
EXTENDS Sha1Stream, SequenceTheorems, TLAPS

(* Whole blocks. *)
Multiple(x) == \E q \in Nat : x = BLOCK_SIZE * q

(* Sizes of a block and of the bit count. *)
LEMMA SizeFacts ==
  /\ BLOCK_SIZE \in Nat \ {0} /\ LENGTH_SIZE \in Nat \ {0}
  /\ LENGTH_SIZE < BLOCK_SIZE
BY Sha1Assumption

(* A larger factor adds at least one whole block. *)
LEMMA Strict ==
  ASSUME NEW b \in Nat, NEW p \in Nat, NEW q \in Nat, p < q
  PROVE  b * p + b <= b * q
OBVIOUS

(* Multiples of one number add up. *)
LEMMA Product ==
  ASSUME NEW b \in Nat, NEW p \in Nat, NEW q \in Nat
  PROVE  b * p \in Nat /\ b * p + b * q = b * (p + q) /\ p + q \in Nat
OBVIOUS

(* Whole blocks after whole blocks are whole blocks. *)
LEMMA MultipleSum ==
  ASSUME NEW x \in Nat, NEW y \in Nat, Multiple(x), Multiple(y)
  PROVE  Multiple(x + y)
<1>1. PICK p \in Nat : x = BLOCK_SIZE * p
  BY DEF Multiple
<1>2. PICK q \in Nat : y = BLOCK_SIZE * q
  BY DEF Multiple
<1>3. /\ BLOCK_SIZE * p + BLOCK_SIZE * q = BLOCK_SIZE * (p + q)
      /\ p + q \in Nat
  BY Product, SizeFacts
<1>4. x + y = BLOCK_SIZE * (p + q)
  BY <1>1, <1>2, <1>3
<1> QED BY <1>3, <1>4 DEF Multiple

(* Nothing between two blocks is a multiple. *)
LEMMA MultipleGap ==
  ASSUME NEW x \in Nat, NEW r \in Nat, Multiple(x), Multiple(x + r)
  PROVE  /\ r < BLOCK_SIZE => r = 0
         /\ 0 < r /\ r < BLOCK_SIZE + BLOCK_SIZE => r = BLOCK_SIZE
<1>1. PICK p \in Nat : x = BLOCK_SIZE * p
  BY DEF Multiple
<1>2. PICK q \in Nat : x + r = BLOCK_SIZE * q
  BY DEF Multiple
<1>3. BLOCK_SIZE * p \in Nat /\ BLOCK_SIZE * q \in Nat /\ BLOCK_SIZE \in Nat \ {0}
  BY Product, SizeFacts
<1>4. CASE q < p
  BY <1>1, <1>2, <1>3, <1>4, Strict
<1>5. CASE q = p
  BY <1>1, <1>2, <1>3, <1>5
<1>6. CASE p < q
  <2>1. BLOCK_SIZE * p + BLOCK_SIZE <= BLOCK_SIZE * q
    BY <1>3, <1>6, Strict
  <2>2. CASE p + 1 = q
    <3>1. BLOCK_SIZE * q = BLOCK_SIZE * p + BLOCK_SIZE
      BY <2>2, <1>3, Product
    <3> QED BY <3>1, <1>1, <1>2, <1>3
  <2>3. CASE p + 1 < q
    <3>1. BLOCK_SIZE * (p + 1) + BLOCK_SIZE <= BLOCK_SIZE * q
      BY <1>3, <2>3, Strict
    <3>2. BLOCK_SIZE * (p + 1) = BLOCK_SIZE * p + BLOCK_SIZE
      BY <1>3, Product
    <3> QED BY <3>1, <3>2, <1>1, <1>2, <1>3
  <2> QED BY <2>2, <2>3, <1>6
<1> QED BY <1>4, <1>5, <1>6

(* What the remainder says. *)
LEMMA Division ==
  ASSUME NEW a \in Nat, NEW b \in Nat \ {0}
  PROVE  /\ a % b \in 0 .. b - 1 /\ a \div b \in Nat
         /\ a = b * (a \div b) + (a % b)
OBVIOUS

(* Whole blocks leave no remainder. *)
LEMMA MultipleMod ==
  ASSUME NEW x \in Nat
  PROVE  Multiple(x) <=> x % BLOCK_SIZE = 0
<1> DEFINE q == x \div BLOCK_SIZE
           r == x % BLOCK_SIZE
<1>1. /\ r \in 0 .. BLOCK_SIZE - 1 /\ q \in Nat
      /\ x = BLOCK_SIZE * q + r /\ BLOCK_SIZE * q \in Nat
      /\ BLOCK_SIZE \in Nat \ {0}
  BY SizeFacts, Division, Product
<1> HIDE DEF q, r
<1>2. r = 0 => Multiple(x)
  BY <1>1 DEF Multiple
<1>3. Multiple(x) => r = 0
  <2>1. Multiple(BLOCK_SIZE * q)
    BY <1>1 DEF Multiple
  <2> QED BY <2>1, <1>1, MultipleGap
<1> QED BY <1>2, <1>3 DEF r

(* The padding brings any length to whole blocks, in one way only.         *)
LEMMA PadFacts ==
  ASSUME NEW n \in Nat
  PROVE  /\ PadLength(n) \in 0 .. BLOCK_SIZE - 1
         /\ Multiple(n + 1 + PadLength(n) + LENGTH_SIZE)
         /\ \A k \in 0 .. BLOCK_SIZE - 1 :
              Multiple(n + 1 + k + LENGTH_SIZE) => k = PadLength(n)
<1>0. BLOCK_SIZE \in Nat \ {0} /\ LENGTH_SIZE \in Nat
  BY SizeFacts
<1> DEFINE x == n + 1 + LENGTH_SIZE
<1>1. x \in Nat
  BY <1>0
<1> DEFINE q == x \div BLOCK_SIZE
           r == x % BLOCK_SIZE
<1>2. /\ r \in 0 .. BLOCK_SIZE - 1 /\ q \in Nat
      /\ x = BLOCK_SIZE * q + r /\ BLOCK_SIZE * q \in Nat
  BY <1>0, <1>1, Division, Product
<1> HIDE DEF q, r
<1> DEFINE Fits(k) == (n + 1 + k + LENGTH_SIZE) % BLOCK_SIZE = 0
<1>3. \A k \in 0 .. BLOCK_SIZE - 1 :
        Fits(k) <=> Multiple(n + 1 + k + LENGTH_SIZE)
  <2> SUFFICES ASSUME NEW k \in 0 .. BLOCK_SIZE - 1
               PROVE  Fits(k) <=> Multiple(n + 1 + k + LENGTH_SIZE)
    OBVIOUS
  <2>1. n + 1 + k + LENGTH_SIZE \in Nat
    BY <1>0
  <2> QED BY <2>1, MultipleMod
<1>4. \E k \in 0 .. BLOCK_SIZE - 1 : Multiple(n + 1 + k + LENGTH_SIZE)
  <2>1. CASE r = 0
    <3>1. n + 1 + 0 + LENGTH_SIZE = BLOCK_SIZE * q
      BY <2>1, <1>0, <1>2
    <3> QED BY <3>1, <1>0, <1>2 DEF Multiple
  <2>2. CASE r # 0
    <3> DEFINE k == BLOCK_SIZE - r
    <3>1. k \in 0 .. BLOCK_SIZE - 1
      BY <2>2, <1>0, <1>2
    <3>2. n + 1 + k + LENGTH_SIZE = BLOCK_SIZE * q + BLOCK_SIZE
      BY <1>0, <1>2
    <3>3. BLOCK_SIZE * q + BLOCK_SIZE = BLOCK_SIZE * (q + 1) /\ q + 1 \in Nat
      BY <1>0, <1>2, Product
    <3>4. Multiple(n + 1 + k + LENGTH_SIZE)
      BY <3>2, <3>3 DEF Multiple
    <3> QED BY <3>1, <3>4
  <2> QED BY <2>1, <2>2
<1>5. PadLength(n) = CHOOSE k \in 0 .. BLOCK_SIZE - 1 : Fits(k)
  BY DEF PadLength
<1> HIDE DEF Fits
<1>6. PadLength(n) \in 0 .. BLOCK_SIZE - 1 /\ Fits(PadLength(n))
  BY <1>3, <1>4, <1>5
<1>7. ASSUME NEW k \in 0 .. BLOCK_SIZE - 1, NEW j \in 0 .. BLOCK_SIZE - 1,
             k <= j, Multiple(n + 1 + k + LENGTH_SIZE),
             Multiple(n + 1 + j + LENGTH_SIZE)
      PROVE  k = j
  <2>1. /\ n + 1 + k + LENGTH_SIZE \in Nat /\ j - k \in Nat /\ j - k < BLOCK_SIZE
        /\ n + 1 + j + LENGTH_SIZE = (n + 1 + k + LENGTH_SIZE) + (j - k)
    BY <1>7, <1>0
  <2>2. j - k = 0
    BY <2>1, <1>7, MultipleGap
  <2> QED BY <2>2
<1> QED
  <2>1. Multiple(n + 1 + PadLength(n) + LENGTH_SIZE)
    BY <1>3, <1>6
  <2>2. ASSUME NEW k \in 0 .. BLOCK_SIZE - 1, Multiple(n + 1 + k + LENGTH_SIZE)
        PROVE  k = PadLength(n)
    <3>1. k <= PadLength(n) \/ PadLength(n) <= k
      BY <1>6
    <3> QED BY <3>1, <2>1, <2>2, <1>6, <1>7
  <2> QED BY <2>1, <2>2, <1>6

-----------------------------------------------------------------------------

(* The bytes of a bit count in memory. *)
LEMMA BigEndianType ==
  ASSUME NEW bits \in Nat
  PROVE  BigEndian(bits) \in Seq(Byte) /\ Len(BigEndian(bits)) = LENGTH_SIZE
<1>1. LENGTH_SIZE \in Nat
  BY SizeFacts
<1>2. ASSUME NEW b \in 1 .. LENGTH_SIZE
      PROVE  (bits \div 256 ^ (LENGTH_SIZE - b)) % 256 \in Byte
  <2>1. LENGTH_SIZE - b \in 0 .. LENGTH_SIZE - 1
    BY <1>1
  <2>2. 256 ^ (LENGTH_SIZE - b) \in Nat \ {0}
    BY <2>1, PowersAssumption
  <2>3. bits \div 256 ^ (LENGTH_SIZE - b) \in Nat
    BY <2>2, Division
  <2>4. ASSUME NEW x \in Nat PROVE x % 256 \in Byte
    BY DEF Byte
  <2> QED BY <2>3, <2>4
<1> DEFINE bytes == [b \in 1 .. LENGTH_SIZE |->
                      (bits \div 256 ^ (LENGTH_SIZE - b)) % 256]
<1>3. bytes \in [1 .. LENGTH_SIZE -> Byte]
  BY <1>2
<1>4. BigEndian(bits) = bytes
  BY DEF BigEndian
<1> HIDE DEF bytes
<1> QED BY <1>1, <1>3, <1>4

(* Zeros are bytes. *)
LEMMA ZerosType ==
  ASSUME NEW n \in Nat
  PROVE  Zeros(n) \in Seq(Byte) /\ Len(Zeros(n)) = n
<1>1. Zeros(n) \in [1 .. n -> Byte]
  BY DEF Zeros, Byte
<1> QED BY <1>1

(* One more zero. *)
LEMMA ZerosGrow ==
  ASSUME NEW n \in Nat
  PROVE  Zeros(n) \o <<0>> = Zeros(n + 1)
<1>1. /\ Zeros(n) \in Seq(Byte) /\ Len(Zeros(n)) = n
      /\ Zeros(n + 1) \in Seq(Byte) /\ Len(Zeros(n + 1)) = n + 1
      /\ <<0>> \in Seq(Byte) /\ Len(<<0>>) = 1
  BY ZerosType DEF Byte
<1>2. /\ Zeros(n) \o <<0>> \in Seq(Byte)
      /\ Len(Zeros(n) \o <<0>>) = n + 1
      /\ \A i \in 1 .. n + 1 : (Zeros(n) \o <<0>>)[i] =
           IF i <= n THEN Zeros(n)[i] ELSE <<0>>[i - n]
  BY <1>1, ConcatProperties
<1>3. ASSUME NEW i \in 1 .. n + 1
      PROVE  (Zeros(n) \o <<0>>)[i] = Zeros(n + 1)[i]
  <2>1. Zeros(n + 1)[i] = 0
    BY DEF Zeros
  <2>2. CASE i <= n
    BY <2>1, <2>2, <1>2 DEF Zeros
  <2>3. CASE i = n + 1
    BY <2>1, <2>3, <1>2
  <2>4. i <= n \/ i = n + 1
    OBVIOUS
  <2> QED BY <2>2, <2>3, <2>4
<1> QED BY <1>1, <1>2, <1>3, SeqEqual

(* Where concatenations are split does not matter. *)
LEMMA Joined ==
  \A s \in Seq(Byte), t \in Seq(Byte), u \in Seq(Byte) :
    (s \o t) \o u = s \o (t \o u)
<1> TAKE s \in Seq(Byte), t \in Seq(Byte), u \in Seq(Byte)
<1> QED BY ConcatAssociative

(* A cut, put together again. *)
LEMMA Cut ==
  ASSUME NEW s \in Seq(Byte), NEW n \in 0 .. Len(s)
  PROVE  /\ SubSeq(s, 1, n) \in Seq(Byte) /\ Len(SubSeq(s, 1, n)) = n
         /\ SubSeq(s, n + 1, Len(s)) \in Seq(Byte)
         /\ Len(SubSeq(s, n + 1, Len(s))) = Len(s) - n
         /\ SubSeq(s, 1, n) \o SubSeq(s, n + 1, Len(s)) = s
<1>1. /\ Len(s) \in Nat /\ n \in Nat
      /\ \A i \in 1 .. n : s[i] \in Byte
      /\ \A i \in n + 1 .. Len(s) : s[i] \in Byte
  BY LenProperties, ElementOfSeq
<1>2. SubSeq(s, 1, n) \in Seq(Byte) /\ Len(SubSeq(s, 1, n)) = n
  BY <1>1, SubSeqProperties
<1>3. /\ SubSeq(s, n + 1, Len(s)) \in Seq(Byte)
      /\ Len(SubSeq(s, n + 1, Len(s))) = Len(s) - n
  BY <1>1, SubSeqProperties
<1>4. SubSeq(s, 1, n) \o SubSeq(s, n + 1, Len(s)) = SubSeq(s, 1, Len(s))
  <2>1. /\ 1 \in 1 .. Len(s) + 1 /\ n \in 1 - 1 .. Len(s)
        /\ Len(s) \in n .. Len(s)
    BY <1>1
  <2> QED BY <2>1, ConcatAdjacentSubSeq, Zenon
<1> QED BY <1>2, <1>3, <1>4, SubSeqFull

(* The padded message is whole blocks. *)
LEMMA PaddedType ==
  ASSUME NEW m \in Seq(Byte)
  PROVE  /\ Padded(m) \in Seq(Byte)
         /\ Multiple(Len(Padded(m)))
         /\ Len(Padded(m)) = Len(m) + 1 + PadLength(Len(m)) + LENGTH_SIZE
<1> DEFINE z == PadLength(Len(m))
<1>1. Len(m) \in Nat /\ z \in Nat /\ Len(m) * 8 \in Nat /\ LENGTH_SIZE \in Nat
      /\ Multiple(Len(m) + 1 + z + LENGTH_SIZE)
  BY LenProperties, PadFacts, SizeFacts
<1>2. << 128 >> \in Seq(Byte) /\ Len(<< 128 >>) = 1
  BY DEF Byte
<1>3. m \o << 128 >> \in Seq(Byte) /\ Len(m \o << 128 >>) = Len(m) + 1
  BY <1>1, <1>2, ConcatProperties
<1> HIDE DEF z
<1>4. Zeros(z) \in Seq(Byte) /\ Len(Zeros(z)) = z
  BY <1>1, ZerosType
<1>5. /\ m \o << 128 >> \o Zeros(z) \in Seq(Byte)
      /\ Len(m \o << 128 >> \o Zeros(z)) = Len(m) + 1 + z
  BY <1>3, <1>4, ConcatProperties
<1>6. /\ BigEndian(Len(m) * 8) \in Seq(Byte)
      /\ Len(BigEndian(Len(m) * 8)) = LENGTH_SIZE
  BY <1>1, BigEndianType
<1>7. /\ m \o << 128 >> \o Zeros(z) \o BigEndian(Len(m) * 8) \in Seq(Byte)
      /\ Len(m \o << 128 >> \o Zeros(z) \o BigEndian(Len(m) * 8))
           = Len(m) + 1 + z + LENGTH_SIZE
  <2> DEFINE front == m \o << 128 >> \o Zeros(z)
             back  == BigEndian(Len(m) * 8)
  <2>1. /\ front \in Seq(Byte) /\ Len(front) = Len(m) + 1 + z
        /\ back \in Seq(Byte) /\ Len(back) = LENGTH_SIZE
    BY <1>5, <1>6
  <2> HIDE DEF front, back
  <2>2. front \o back \in Seq(Byte) /\ Len(front \o back) = Len(front) + Len(back)
    BY <2>1, ConcatProperties
  <2> QED BY <2>1, <2>2 DEF front, back
<1>8. Padded(m) = m \o << 128 >> \o Zeros(z) \o BigEndian(Len(m) * 8)
  BY DEF Padded, z
<1> QED BY <1>1, <1>7, <1>8 DEF z

-----------------------------------------------------------------------------

(* All that update was given, by whoever called it. *)
Taken == (compressed \o buf) \o rest

(* What update keeps, wherever it is. *)
ContextInv ==
  /\ Sha1TypeOK
  /\ Multiple(Len(compressed))
  /\ step = "idle" => rest = <<>>
  /\ step = "full" /\ rest # <<>> => buf = <<>>

(* What finalize has added so far. *)
PhaseInv ==
  /\ phase = "data" => /\ Taken = message
                       /\ count = Len(message)
                       /\ bit_count = <<>>
  /\ phase = "pad" =>
       /\ bit_count = BigEndian(Len(message) * 8)
       /\ \E k \in 0 .. PadLength(Len(message)) :
            Taken = message \o << 128 >> \o Zeros(k)
  /\ phase = "digest" => Taken = Padded(message)

ShaInv == ContextInv /\ PhaseInv

(* A new context. *)
LEMMA ShaInit_Inv == ShaInit => ShaInv
<1> SUFFICES ASSUME ShaInit PROVE ShaInv
  OBVIOUS
<1>1. /\ <<>> \in Seq(Byte) /\ Len(<<>>) = 0 /\ <<>> \o <<>> = <<>>
  BY EmptySeq, ConcatEmptySeq
<1>2. Multiple(0)
  BY SizeFacts, Product DEF Multiple
<1>3. ContextInv
  BY <1>1, <1>2, SizeFacts DEF ShaInit, ContextInv, Sha1TypeOK
<1>4. PhaseInv
  BY <1>1 DEF ShaInit, PhaseInv, Taken
<1> QED BY <1>3, <1>4 DEF ShaInv

(* A call of update takes its bytes behind all others. *)
LEMMA BeginUpdate_Taken ==
  ASSUME ContextInv, NEW d \in Seq(Byte), BeginUpdate(d)
  PROVE  /\ compressed' \in Seq(Byte) /\ buf' \in Seq(Byte) /\ rest' \in Seq(Byte)
         /\ Len(buf') < BLOCK_SIZE /\ Multiple(Len(compressed'))
         /\ step' = "fill" /\ count' \in Nat /\ count' = count + Len(d)
         /\ Taken' = Taken \o d
<1>1. /\ compressed \in Seq(Byte) /\ buf \in Seq(Byte) /\ rest = <<>>
      /\ Len(buf) < BLOCK_SIZE /\ Multiple(Len(compressed)) /\ count \in Nat
      /\ step' = "fill" /\ rest' = d /\ count' = count + Len(d)
      /\ compressed' = compressed /\ buf' = buf /\ Len(d) \in Nat
  BY LenProperties DEF BeginUpdate, ContextInv, Sha1TypeOK
<1>2. compressed \o buf \in Seq(Byte)
  BY <1>1, ConcatProperties
<1>3. Taken = compressed \o buf
  BY <1>1, <1>2, ConcatEmptySeq DEF Taken
<1>4. Taken' = (compressed \o buf) \o d
  BY <1>1 DEF Taken
<1> QED BY <1>1, <1>3, <1>4

(* The phases of update move bytes on and lose none. *)
LEMMA UpdateStep_Context ==
  ASSUME ContextInv, UpdateStep
  PROVE  ContextInv' /\ Taken' = Taken
<1>1. /\ compressed \in Seq(Byte) /\ buf \in Seq(Byte) /\ rest \in Seq(Byte)
      /\ Len(buf) < BLOCK_SIZE /\ Multiple(Len(compressed))
      /\ Len(compressed) \in Nat /\ Len(buf) \in Nat /\ Len(rest) \in Nat
      /\ BLOCK_SIZE \in Nat \ {0}
      /\ step = "full" /\ rest # <<>> => buf = <<>>
  BY LenProperties, SizeFacts DEF ContextInv, Sha1TypeOK
<1>2. UNCHANGED <<count, bit_count, phase, message>>
  BY DEF UpdateStep, FillBuffer, CompressFull, SaveTail
<1>3. Multiple(BLOCK_SIZE)
  <2>1. BLOCK_SIZE = BLOCK_SIZE * 1
    BY SizeFacts
  <2> QED BY <2>1 DEF Multiple
<1>4. CASE FillBuffer
  <2> DEFINE taken  == SubSeq(rest, 1, Fill)
             left   == SubSeq(rest, Fill + 1, Len(rest))
             filled == buf \o taken
  <2>1. /\ Fill \in 0 .. Len(rest)
        /\ Len(buf) + Fill <= BLOCK_SIZE
        /\ buf = <<>> => Fill = 0
        /\ Len(buf) + Fill < BLOCK_SIZE => buf = <<>> \/ Fill = Len(rest)
    <3>1. CASE buf = <<>>
      BY <3>1, <1>1 DEF Fill
    <3>2. CASE buf # <<>>
      BY <3>2, <1>1 DEF Fill, Lesser
    <3> QED BY <3>1, <3>2
  <2>2. /\ taken \in Seq(Byte) /\ Len(taken) = Fill
        /\ left \in Seq(Byte) /\ Len(left) = Len(rest) - Fill
        /\ taken \o left = rest
    BY <1>1, <2>1, Cut
  <2>3. /\ step = "fill" /\ step' = "full" /\ rest' = left
        /\ IF Len(filled) = BLOCK_SIZE
             THEN compressed' = compressed \o filled /\ buf' = <<>>
             ELSE buf' = filled /\ compressed' = compressed
    BY <1>4 DEF FillBuffer
  <2> HIDE DEF taken, left
  <2>4. /\ filled \in Seq(Byte) /\ Len(filled) = Len(buf) + Fill
    BY <1>1, <2>2, ConcatProperties
  <2>5. (compressed \o filled) \o left = Taken
    <3>1. compressed \o filled = (compressed \o buf) \o taken
      <4>1. compressed \in Seq(Byte) /\ buf \in Seq(Byte) /\ taken \in Seq(Byte)
        BY <1>1, <2>2
      <4> QED BY <4>1, Joined
    <3>2. compressed \o buf \in Seq(Byte)
      BY <1>1, ConcatProperties
    <3>3. ((compressed \o buf) \o taken) \o left = (compressed \o buf) \o rest
      <4>1. ((compressed \o buf) \o taken) \o left
              = (compressed \o buf) \o (taken \o left)
        BY <3>2, <2>2, Joined
      <4> QED BY <4>1, <2>2
    <3> QED BY <3>1, <3>3 DEF Taken
  <2> HIDE DEF filled
  <2>6. CASE Len(filled) = BLOCK_SIZE
    <3>1. /\ compressed' = compressed \o filled /\ buf' = <<>>
          /\ compressed' \in Seq(Byte) /\ <<>> \in Seq(Byte) /\ Len(<<>>) = 0
          /\ Len(compressed') = Len(compressed) + BLOCK_SIZE
      <4>1. /\ compressed \o filled \in Seq(Byte)
            /\ Len(compressed \o filled) = Len(compressed) + Len(filled)
        BY <2>4, <1>1, ConcatProperties
      <4> QED BY <4>1, <2>3, <2>6, EmptySeq
    <3>2. Multiple(Len(compressed'))
      BY <3>1, <1>1, <1>3, MultipleSum
    <3>3. Taken' = Taken
      BY <3>1, <2>3, <2>5, ConcatEmptySeq DEF Taken
    <3>4. Multiple(Len(compressed))'
      BY <3>2 DEF Multiple
    <3> QED
      BY <3>1, <3>3, <3>4, <2>2, <2>3, <1>1, <1>2 DEF ContextInv, Sha1TypeOK
  <2>7. CASE Len(filled) # BLOCK_SIZE
    <3>1. buf' = filled /\ compressed' = compressed /\ Len(filled) < BLOCK_SIZE
      BY <2>1, <2>3, <2>4, <2>7, <1>1
    <3>2. Taken' = (compressed \o filled) \o left
      BY <3>1, <2>3 DEF Taken
    <3>3. left # <<>> => filled = <<>>
      <4>1. ASSUME left # <<>> PROVE buf = <<>> /\ Fill = 0
        <5>1. Len(left) # 0
          BY <4>1, <2>2, EmptySeq
        <5> QED BY <5>1, <2>1, <2>2, <2>4, <3>1, <1>1
      <4>2. Fill = 0 => taken = <<>>
        BY <2>2, EmptySeq
      <4>3. <<>> \o <<>> = <<>>
        BY EmptySeq, ConcatEmptySeq
      <4> QED BY <4>1, <4>2, <4>3 DEF filled
    <3>4. Multiple(Len(compressed))'
      BY <3>1, <1>1 DEF Multiple
    <3> QED
      BY <3>1, <3>2, <3>3, <3>4, <2>2, <2>3, <2>4, <2>5, <1>1, <1>2
         DEF ContextInv, Sha1TypeOK
  <2> QED BY <2>6, <2>7
<1>5. CASE CompressFull
  <2> DEFINE block == SubSeq(rest, 1, BLOCK_SIZE)
             left  == SubSeq(rest, BLOCK_SIZE + 1, Len(rest))
  <2>1. /\ block \in Seq(Byte) /\ Len(block) = BLOCK_SIZE
        /\ left \in Seq(Byte) /\ block \o left = rest
    <3>1. BLOCK_SIZE \in 0 .. Len(rest)
      BY <1>1, <1>5 DEF CompressFull, FullBlock
    <3> QED BY <3>1, <1>1, Cut
  <2>2. buf = <<>>
    <3>1. Len(rest) # 0
      BY <1>1, <1>5 DEF CompressFull, FullBlock
    <3>2. rest # <<>>
      BY <3>1, EmptySeq
    <3> QED BY <3>2, <1>1, <1>5 DEF CompressFull
  <2>3. /\ compressed' = compressed \o block /\ rest' = left
        /\ buf' = buf /\ step' = "full"
    BY <1>5 DEF CompressFull
  <2> HIDE DEF block, left
  <2>4. /\ compressed' \in Seq(Byte)
        /\ Len(compressed') = Len(compressed) + BLOCK_SIZE
    BY <2>1, <2>3, <1>1, ConcatProperties
  <2>5. Multiple(Len(compressed))'
    <3>1. Multiple(Len(compressed'))
      BY <2>4, <1>1, <1>3, MultipleSum
    <3> QED BY <3>1 DEF Multiple
  <2>6. Taken' = Taken
    <3>1. Taken' = (compressed \o block) \o left
      BY <2>2, <2>3, <2>4, ConcatEmptySeq DEF Taken
    <3>2. Taken = compressed \o rest
      BY <2>2, <1>1, ConcatEmptySeq DEF Taken
    <3>3. (compressed \o block) \o left = compressed \o (block \o left)
      <4>1. compressed \in Seq(Byte) /\ block \in Seq(Byte) /\ left \in Seq(Byte)
        BY <1>1, <2>1
      <4> QED BY <4>1, Joined
    <3> QED BY <3>1, <3>2, <3>3, <2>1
  <2> QED BY <2>1, <2>2, <2>3, <2>4, <2>5, <2>6, <1>1, <1>2
          DEF ContextInv, Sha1TypeOK
<1>6. CASE SaveTail
  <2>1. /\ step' = "idle" /\ rest' = <<>> /\ compressed' = compressed
        /\ buf' = IF rest = <<>> THEN buf ELSE rest
        /\ step = "full" /\ Len(rest) < BLOCK_SIZE
    BY <1>1, <1>6 DEF SaveTail, FullBlock
  <2>2. buf' \in Seq(Byte) /\ Len(buf') < BLOCK_SIZE /\ <<>> \in Seq(Byte)
    BY <2>1, <1>1, EmptySeq
  <2>3. Taken' = compressed \o buf'
    <3>1. compressed \o buf' \in Seq(Byte)
      BY <2>2, <1>1, ConcatProperties
    <3> QED BY <3>1, <2>1, ConcatEmptySeq DEF Taken
  <2>4. Taken = compressed \o buf'
    <3>1. CASE rest = <<>>
      <4>1. compressed \o buf \in Seq(Byte)
        BY <1>1, ConcatProperties
      <4> QED BY <4>1, <3>1, <2>1, ConcatEmptySeq DEF Taken
    <3>2. CASE rest # <<>>
      BY <3>2, <2>1, <1>1, ConcatEmptySeq DEF Taken
    <3> QED BY <3>1, <3>2
  <2>5. Multiple(Len(compressed))'
    BY <2>1, <1>1 DEF Multiple
  <2> QED BY <2>1, <2>2, <2>3, <2>4, <2>5, <1>1, <1>2 DEF ContextInv, Sha1TypeOK
<1> QED BY <1>4, <1>5, <1>6 DEF UpdateStep

(* The bytes taken so far, cut where the last whole block ends. *)
LEMMA TakenLength ==
  ASSUME ContextInv, step = "idle"
  PROVE  /\ Taken = compressed \o buf /\ Taken \in Seq(Byte)
         /\ Len(compressed) \in Nat /\ Len(buf) \in Nat
         /\ Len(Taken) = Len(compressed) + Len(buf)
<1>1. /\ compressed \in Seq(Byte) /\ buf \in Seq(Byte) /\ rest = <<>>
  BY DEF ContextInv, Sha1TypeOK
<1>2. /\ compressed \o buf \in Seq(Byte)
      /\ Len(compressed \o buf) = Len(compressed) + Len(buf)
  BY <1>1, ConcatProperties
<1>3. Taken = compressed \o buf
  BY <1>1, <1>2, ConcatEmptySeq DEF Taken
<1> QED BY <1>1, <1>2, <1>3, LenProperties

(* The mark and the zeros that follow it. *)
LEMMA MarkedLength ==
  ASSUME NEW m \in Seq(Byte), NEW k \in Nat
  PROVE  /\ m \o << 128 >> \in Seq(Byte)
         /\ Zeros(k) \in Seq(Byte)
         /\ Len(m \o << 128 >> \o Zeros(k)) = Len(m) + 1 + k
         /\ Len(m) \in Nat
<1>1. << 128 >> \in Seq(Byte) /\ Len(<< 128 >>) = 1 /\ Len(m) \in Nat
  BY LenProperties DEF Byte
<1>2. m \o << 128 >> \in Seq(Byte) /\ Len(m \o << 128 >>) = Len(m) + 1
  BY <1>1, ConcatProperties
<1>3. Zeros(k) \in Seq(Byte) /\ Len(Zeros(k)) = k
  BY ZerosType
<1>4. Len(m \o << 128 >> \o Zeros(k)) = Len(m \o << 128 >>) + Len(Zeros(k))
  BY <1>2, <1>3, ConcatProperties
<1> QED BY <1>1, <1>2, <1>3, <1>4

(* finalize adds zeros until buf_used_ is 56, which is where the fewest     *)
(* zeros that make room for the length bring it.                           *)
LEMMA ZerosStop ==
  ASSUME NEW k \in 0 .. PadLength(Len(message)), ContextInv, step = "idle",
         message \o << 128 >> \o Zeros(k) = Taken
  PROVE  Len(buf) = PaddedTo <=> k = PadLength(Len(message))
<1> DEFINE n == Len(message)
           c == Len(compressed)
           b == Len(buf)
<1>1. /\ message \in Seq(Byte) /\ b < BLOCK_SIZE /\ Multiple(c)
  BY DEF ContextInv, Sha1TypeOK
<1>2. /\ n \in Nat /\ PadLength(n) \in 0 .. BLOCK_SIZE - 1
      /\ BLOCK_SIZE \in Nat \ {0} /\ LENGTH_SIZE \in Nat \ {0}
      /\ LENGTH_SIZE < BLOCK_SIZE
  BY <1>1, LenProperties, PadFacts, SizeFacts
<1>3. k \in Nat /\ k \in 0 .. BLOCK_SIZE - 1
  BY <1>2
<1>4. c \in Nat /\ b \in Nat /\ c + b = n + 1 + k
  BY <1>1, <1>3, TakenLength, MarkedLength
<1> HIDE DEF n, c, b
<1>5. n + 1 + k + LENGTH_SIZE = c + (b + LENGTH_SIZE)
  BY <1>2, <1>3, <1>4
<1>6. b = PaddedTo => k = PadLength(n)
  <2> HAVE b = PaddedTo
  <2>1. b + LENGTH_SIZE = BLOCK_SIZE
    BY <1>2 DEF PaddedTo
  <2>2. BLOCK_SIZE = BLOCK_SIZE * 1
    BY <1>2
  <2>3. Multiple(BLOCK_SIZE)
    BY <2>2 DEF Multiple
  <2>4. Multiple(n + 1 + k + LENGTH_SIZE)
    BY <2>1, <2>3, <1>1, <1>2, <1>4, <1>5, MultipleSum
  <2> QED BY <2>4, <1>2, <1>3, PadFacts
<1>7. k = PadLength(n) => b = PaddedTo
  <2> HAVE k = PadLength(n)
  <2>1. Multiple(c + (b + LENGTH_SIZE))
    BY <1>2, <1>5, PadFacts
  <2>2. /\ b + LENGTH_SIZE \in Nat /\ 0 < b + LENGTH_SIZE
        /\ b + LENGTH_SIZE < BLOCK_SIZE + BLOCK_SIZE
    BY <1>1, <1>2, <1>4
  <2>3. b + LENGTH_SIZE = BLOCK_SIZE
    BY <2>1, <2>2, <1>1, <1>4, MultipleGap
  <2> QED BY <2>3, <1>2, <1>4 DEF PaddedTo
<1> QED BY <1>6, <1>7 DEF n, b

(* finalize: the mark follows the message. *)
LEMMA Finalize_Inv ==
  ASSUME ShaInv, Finalize
  PROVE  ShaInv'
<1>1. /\ BeginUpdate(<< 128 >>) /\ phase = "data" /\ phase' = "pad"
      /\ bit_count' = BigEndian(count * 8) /\ message' = message
  BY DEF Finalize, BitCount
<1>2. /\ ContextInv /\ Taken = message /\ count = Len(message)
      /\ message \in Seq(Byte) /\ << 128 >> \in Seq(Byte) /\ Len(message) \in Nat
  BY <1>1, LenProperties DEF ShaInv, PhaseInv, ContextInv, Sha1TypeOK, Byte
<1>3. /\ bit_count' = BigEndian(Len(message') * 8)
      /\ bit_count' \in Seq(Byte) /\ Len(bit_count') = LENGTH_SIZE
  BY <1>1, <1>2, BigEndianType
<1>4. ContextInv'
  BY <1>1, <1>2, <1>3, BeginUpdate_Taken DEF ContextInv, Sha1TypeOK, Multiple
<1>5. Taken' = message' \o << 128 >> \o Zeros(0)
  <2>1. Taken' = message \o << 128 >>
    BY <1>1, <1>2, BeginUpdate_Taken
  <2>2. Zeros(0) = <<>>
    BY ZerosType, EmptySeq
  <2>3. (message \o << 128 >>) \o <<>> = message \o << 128 >>
    BY <1>2, MarkedLength, ConcatEmptySeq
  <2> QED BY <2>1, <2>2, <2>3, <1>1
<1>6. 0 \in 0 .. PadLength(Len(message'))
  BY <1>1, <1>2, PadFacts
<1>7. PhaseInv'
  BY <1>1, <1>3, <1>5, <1>6 DEF PhaseInv
<1> QED BY <1>4, <1>7 DEF ShaInv

(* finalize: a zero is added only while more are due. *)
LEMMA PadZero_Inv ==
  ASSUME ShaInv, PadZero
  PROVE  ShaInv'
<1>1. /\ BeginUpdate(<<0>>) /\ phase = "pad" /\ phase' = "pad" /\ step = "idle"
      /\ Len(buf) # PaddedTo
      /\ bit_count' = bit_count /\ message' = message
  BY DEF PadZero, BeginUpdate
<1>2. /\ ContextInv /\ bit_count = BigEndian(Len(message) * 8)
      /\ message \in Seq(Byte) /\ <<0>> \in Seq(Byte)
  BY <1>1 DEF ShaInv, PhaseInv, ContextInv, Sha1TypeOK, Byte
<1>3. PICK k \in 0 .. PadLength(Len(message)) :
        Taken = message \o << 128 >> \o Zeros(k)
  BY <1>1 DEF ShaInv, PhaseInv
<1>4. k # PadLength(Len(message)) /\ PadLength(Len(message)) \in Nat
  <2>1. Len(message) \in Nat
    BY <1>2, LenProperties
  <2>2. PadLength(Len(message)) \in Nat
    BY <2>1, PadFacts
  <2> QED BY <2>2, <1>1, <1>2, <1>3, ZerosStop
<1>5. k \in Nat /\ k + 1 \in 0 .. PadLength(Len(message))
  BY <1>4
<1>6. Taken' = message \o << 128 >> \o Zeros(k + 1)
  <2>1. Taken' = (message \o << 128 >> \o Zeros(k)) \o <<0>>
    BY <1>1, <1>2, <1>3, BeginUpdate_Taken
  <2>2. message \o << 128 >> \in Seq(Byte) /\ Zeros(k) \in Seq(Byte)
    BY <1>2, <1>5, MarkedLength
  <2>3. (message \o << 128 >> \o Zeros(k)) \o <<0>>
          = (message \o << 128 >>) \o (Zeros(k) \o <<0>>)
    BY <2>2, <1>2, Joined
  <2> QED BY <2>1, <2>3, <1>5, ZerosGrow
<1>7. ContextInv'
  BY <1>1, <1>2, BeginUpdate_Taken DEF ContextInv, Sha1TypeOK, Multiple
<1>8. PhaseInv'
  BY <1>1, <1>2, <1>5, <1>6 DEF PhaseInv
<1> QED BY <1>7, <1>8 DEF ShaInv

(* finalize: the bit count goes in where the last block has room for it. *)
LEMMA AppendLength_Inv ==
  ASSUME ShaInv, AppendLength
  PROVE  ShaInv'
<1>1. /\ BeginUpdate(bit_count) /\ phase = "pad" /\ phase' = "digest"
      /\ step = "idle" /\ Len(buf) = PaddedTo
      /\ bit_count' = bit_count /\ message' = message
  BY DEF AppendLength, BeginUpdate
<1>2. /\ ContextInv /\ bit_count = BigEndian(Len(message) * 8)
      /\ message \in Seq(Byte) /\ bit_count \in Seq(Byte)
  BY <1>1 DEF ShaInv, PhaseInv, ContextInv, Sha1TypeOK
<1>3. PICK k \in 0 .. PadLength(Len(message)) :
        Taken = message \o << 128 >> \o Zeros(k)
  BY <1>1 DEF ShaInv, PhaseInv
<1>4. k = PadLength(Len(message))
  BY <1>1, <1>2, <1>3, ZerosStop
<1>5. Taken' = Padded(message')
  <2>1. Taken' = Taken \o bit_count
    BY <1>1, <1>2, BeginUpdate_Taken
  <2> QED BY <2>1, <1>1, <1>2, <1>3, <1>4 DEF Padded
<1>6. ContextInv'
  BY <1>1, <1>2, BeginUpdate_Taken DEF ContextInv, Sha1TypeOK, Multiple
<1>7. PhaseInv'
  BY <1>1, <1>5 DEF PhaseInv
<1> QED BY <1>6, <1>7 DEF ShaInv

(* Every step of update or finalize. *)
LEMMA HashStep_Inv ==
  ASSUME ShaInv, HashStep
  PROVE  ShaInv'
<1>1. CASE UpdateStep
  <2>1. ContextInv' /\ Taken' = Taken
    BY <1>1, UpdateStep_Context DEF ShaInv
  <2>2. UNCHANGED <<count, bit_count, phase, message>>
    BY <1>1 DEF UpdateStep, FillBuffer, CompressFull, SaveTail
  <2> QED BY <2>1, <2>2 DEF ShaInv, PhaseInv
<1> QED BY <1>1, Finalize_Inv, PadZero_Inv, AppendLength_Inv DEF HashStep

(* A call from outside. *)
LEMMA Update_Inv ==
  ASSUME ShaInv, NEW d \in Seq(Byte), Update(d)
  PROVE  ShaInv'
<1>1. /\ BeginUpdate(d) /\ phase = "data" /\ phase' = "data"
      /\ message' = message \o d /\ bit_count' = bit_count
  BY DEF Update
<1>2. /\ ContextInv /\ Taken = message /\ count = Len(message)
      /\ bit_count = <<>> /\ message \in Seq(Byte)
  BY <1>1 DEF ShaInv, PhaseInv, ContextInv, Sha1TypeOK
<1>3. message' \in Seq(Byte) /\ Len(message') = Len(message) + Len(d)
  BY <1>1, <1>2, ConcatProperties
<1>4. ContextInv'
  BY <1>1, <1>2, <1>3, BeginUpdate_Taken DEF ContextInv, Sha1TypeOK, Multiple
<1>5. PhaseInv'
  BY <1>1, <1>2, <1>3, BeginUpdate_Taken DEF PhaseInv
<1> QED BY <1>4, <1>5 DEF ShaInv

(* A new message. *)
LEMMA reset_Inv ==
  ASSUME reset
  PROVE  ShaInv'
<1>1. (ShaInit => ShaInv)'
  BY ShaInit_Inv, PTL
<1>2. ShaInit'
  BY DEF reset, ShaInit
<1> QED BY <1>1, <1>2

(* The invariant holds in every state of every behaviour. *)
LEMMA ShaInvariant == ShaSpec => []ShaInv
<1>1. ShaInv /\ [ShaNext]_shaVars => ShaInv'
  <2> SUFFICES ASSUME ShaInv, [ShaNext]_shaVars PROVE ShaInv'
    OBVIOUS
  <2>1. CASE UNCHANGED shaVars
    BY <2>1 DEF shaVars, ShaInv, ContextInv, PhaseInv, Sha1TypeOK, Taken, Multiple
  <2> QED BY <2>1, HashStep_Inv, Update_Inv, reset_Inv DEF ShaNext
<1> QED BY <1>1, ShaInit_Inv, PTL DEF ShaSpec

(* Whatever is passed to update, no copy leaves buf_ and a partial block    *)
(* never waits full.                                                       *)
THEOREM Sha1TypeCorrect == ShaSpec => []Sha1TypeOK
<1>1. ShaInv => Sha1TypeOK
  BY DEF ShaInv, ContextInv
<1> QED BY <1>1, ShaInvariant, PTL

(* With whole blocks before it, an empty buffer ends the message. *)
LEMMA ShaInv_Digest == ShaInv => DigestOfPadded
<1> SUFFICES ASSUME ShaInv, phase = "digest", step = "idle"
             PROVE  compressed = Padded(message)
  BY DEF DigestOfPadded, DigestReady
<1>1. /\ ContextInv /\ Taken = Padded(message) /\ message \in Seq(Byte)
      /\ Multiple(Len(compressed)) /\ Len(buf) < BLOCK_SIZE
      /\ compressed \in Seq(Byte) /\ buf \in Seq(Byte)
  BY DEF ShaInv, ContextInv, PhaseInv, Sha1TypeOK
<1>2. /\ Taken = compressed \o buf
      /\ Len(compressed) \in Nat /\ Len(buf) \in Nat
      /\ Len(Taken) = Len(compressed) + Len(buf)
  BY <1>1, TakenLength
<1>3. Multiple(Len(compressed) + Len(buf))
  BY <1>1, <1>2, PaddedType
<1>4. Len(buf) = 0
  BY <1>1, <1>2, <1>3, MultipleGap
<1>5. buf = <<>>
  BY <1>1, <1>4, EmptySeq
<1> QED BY <1>1, <1>2, <1>5, ConcatEmptySeq

(* For every message, every way of cutting it into calls of update and      *)
(* every block size: when finalize returns, compress was given exactly the  *)
(* padded message.                                                         *)
THEOREM DigestCorrect == ShaSpec => []DigestOfPadded
BY ShaInv_Digest, ShaInvariant, PTL
=============================================================================
