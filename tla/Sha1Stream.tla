----------------------------- MODULE Sha1Stream -----------------------------
(***************************************************************************)
(* SHA1 (include/sha1.hpp) up to its compression function: how update cuts *)
(* the bytes it is given into blocks, and how finalize pads the message.   *)
(* The digest is a function of the blocks handed to compress, in order, so *)
(* the context is the bytes compressed so far and the partial block.       *)
(* Every call of update, those of finalize included, is a BeginUpdate and  *)
(* then its three phases.                                                  *)
(***************************************************************************)
EXTENDS Integers, Sequences

CONSTANTS
  BLOCK_SIZE,    \* BLOCK_SIZE: bytes of a block (64 in the code)
  LENGTH_SIZE    \* bytes of the bit count that ends the last block (8)

Byte == 0 .. 255

ASSUME Sha1Assumption ==
  /\ BLOCK_SIZE \in Nat
  /\ LENGTH_SIZE \in 1 .. BLOCK_SIZE - 1

(* Said for the provers, which know nothing of powers. *)
ASSUME PowersAssumption ==
  \A b \in 0 .. LENGTH_SIZE - 1 : 256 ^ b \in Nat \ {0}

VARIABLES
  compressed,    \* the bytes of all blocks given to compress, in order
  buf,           \* the first buf_used_ bytes of buf_
  count,         \* count_
  bit_count,     \* bit_count_be, as its bytes in memory
  rest,          \* ptr and len of update: bytes of the call not yet taken
  step,          \* where update is: "idle", "fill" or "full"
  phase,         \* where the caller is: "data", "pad" or "digest"
  message        \* what the callers have passed (not in the code)

shaVars == <<compressed, buf, count, bit_count, rest, step, phase, message>>

ShaInit ==
  /\ compressed = <<>> /\ buf = <<>> /\ count = 0 /\ bit_count = <<>>
  /\ rest = <<>> /\ step = "idle" /\ phase = "data" /\ message = <<>>

(* The constructor of the next context, or reset between two messages. *)
reset ==
  /\ step = "idle"
  /\ compressed' = <<>> /\ buf' = <<>> /\ count' = 0 /\ bit_count' = <<>>
  /\ rest' = <<>> /\ step' = "idle" /\ phase' = "data" /\ message' = <<>>

-----------------------------------------------------------------------------
(* update *)

BeginUpdate(data) ==
  /\ step  = "idle"
  /\ step' = "fill"
  /\ rest' = data
  /\ count' = count + Len(data)
  /\ UNCHANGED <<compressed, buf>>

Lesser(a, b) == IF a < b THEN a ELSE b

(* How many bytes go to complete a partial block. *)
Fill == IF buf = <<>> THEN 0 ELSE Lesser(BLOCK_SIZE - Len(buf), Len(rest))

FillBuffer ==
  LET filled == buf \o SubSeq(rest, 1, Fill) IN
  /\ step  = "fill"
  /\ step' = "full"
  /\ IF Len(filled) = BLOCK_SIZE
       THEN compressed' = compressed \o filled /\ buf' = <<>>
       ELSE buf' = filled /\ UNCHANGED compressed
  /\ rest' = SubSeq(rest, Fill + 1, Len(rest))
  /\ UNCHANGED <<count, bit_count, phase, message>>

MoreThanBlock == Len(rest) > BLOCK_SIZE   \* faulty: a last block is kept

FullBlock == Len(rest) >= BLOCK_SIZE

(* One turn of the loop over the full blocks of the input. *)
CompressFull ==
  /\ step = "full"
  /\ FullBlock
  /\ compressed' = compressed \o SubSeq(rest, 1, BLOCK_SIZE)
  /\ rest' = SubSeq(rest, BLOCK_SIZE + 1, Len(rest))
  /\ UNCHANGED <<buf, count, bit_count, step, phase, message>>

(* What is left is kept; a buffer that the call did not fill stays as it is.*)
SaveTail ==
  /\ step = "full"
  /\ ~FullBlock
  /\ buf'  = IF rest = <<>> THEN buf ELSE rest
  /\ rest' = <<>>
  /\ step' = "idle"
  /\ UNCHANGED <<compressed, count, bit_count, phase, message>>

UpdateStep == FillBuffer \/ CompressFull \/ SaveTail

(* A call from outside. *)
Update(data) ==
  /\ phase = "data"
  /\ BeginUpdate(data)
  /\ message' = message \o data
  /\ UNCHANGED <<bit_count, phase>>

-----------------------------------------------------------------------------
(* finalize *)

(* The bytes of to_big_endian_64(bits) in memory. *)
BigEndian(bits) ==
  [b \in 1 .. LENGTH_SIZE |-> (bits \div 256 ^ (LENGTH_SIZE - b)) % 256]

BitCountAfterMark == BigEndian((count + 1) * 8)   \* faulty: after update(pad)

BitCount == BigEndian(count * 8)

Finalize ==
  /\ phase = "data"
  /\ BeginUpdate(<<128>>)
  /\ bit_count' = BitCount
  /\ phase' = "pad"
  /\ UNCHANGED message

PaddedTo == BLOCK_SIZE - LENGTH_SIZE   \* 56 in the code

PadZero ==
  /\ phase = "pad"
  /\ Len(buf) # PaddedTo
  /\ BeginUpdate(<<0>>)
  /\ UNCHANGED <<bit_count, phase, message>>

AppendLength ==
  /\ phase = "pad"
  /\ Len(buf) = PaddedTo
  /\ BeginUpdate(bit_count)
  /\ phase' = "digest"
  /\ UNCHANGED <<bit_count, message>>

HashStep == UpdateStep \/ Finalize \/ PadZero \/ AppendLength

DigestReady == phase = "digest" /\ step = "idle"

ShaNext == HashStep \/ reset \/ \E data \in Seq(Byte) : Update(data)

ShaSpec == ShaInit /\ [][ShaNext]_shaVars

-----------------------------------------------------------------------------
(* Properties *)

(* No memcpy leaves buf_, and a partial block never waits full.            *)
Sha1TypeOK ==
  /\ compressed \in Seq(Byte) /\ buf \in Seq(Byte) /\ rest \in Seq(Byte)
  /\ Len(buf) < BLOCK_SIZE
  /\ count \in Nat
  /\ bit_count \in Seq(Byte) /\ Len(bit_count) \in {0, LENGTH_SIZE}
  /\ step \in {"idle", "fill", "full"}
  /\ phase \in {"data", "pad", "digest"}
  /\ message \in Seq(Byte)

Zeros(n) == [z \in 1 .. n |-> 0]

(* FIPS 180: a one bit, the fewest zeros that leave room for the length in  *)
(* the last block, and the length of the message in bits.                  *)
PadLength(n) ==
  CHOOSE k \in 0 .. BLOCK_SIZE - 1 : (n + 1 + k + LENGTH_SIZE) % BLOCK_SIZE = 0

Padded(m) ==
  m \o <<128>> \o Zeros(PadLength(Len(m))) \o BigEndian(Len(m) * 8)

(* However a message is cut into calls of update and whatever its length is *)
(* to the block size, compress has seen exactly the padded message when     *)
(* finalize returns: the digest is the message's.                           *)
DigestOfPadded == DigestReady => compressed = Padded(message)
=============================================================================
