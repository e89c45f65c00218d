------------------------------ MODULE PeerWire ------------------------------
(***************************************************************************)
(* PeerConnection (src/peer_wire.cpp): the handshake and the framing of    *)
(* messages over TCP.  A remote peer's bytes arrive in pieces of any size, *)
(* recv_raw collects what a field needs, and read_message turns fields     *)
(* into a message.                                                         *)
(*                                                                         *)
(* A message is the PeerMessage it is read as; data stands for bitfield,   *)
(* block or a payload of another kind.  Encode is how the send_ functions  *)
(* write it.  The remote peer uses the same encoding (BEP 3).              *)
(***************************************************************************)
EXTENDS Integers, Sequences

CONSTANTS
  Messages,      \* the messages the remote peer may send
  BadFrames,     \* frames with an impossible length that it may send instead:
                 \* records of type, length and data
  MaxMessages    \* bound on what it sends

(* enum class MsgType *)
Choke         == 0
Unchoke       == 1
Interested    == 2
NotInterested == 3
Have          == 4
Bitfield      == 5
Request       == 6
Piece         == 7
Cancel        == 8

Flags == {Choke, Unchoke, Interested, NotInterested}

PeerMessage(type, index, begin, length, data) ==
  [type |-> type, piece_index |-> index, begin |-> begin,
   length |-> length, data |-> data]

KeepAlive == PeerMessage(-1, 0, 0, 0, <<>>)   \* read_message returns nullopt
Malformed == PeerMessage(-2, 0, 0, 0, <<>>)   \* stands for a bad frame in sent

Byte == 0 .. 255
IsWord(v) == v \in Nat /\ v \div (256 * 256 * 256) \in Byte   \* uint32_t

VARIABLES
  sent,        \* what the remote peer has sent, as messages
  out,         \* bytes it has not yet written
  wire,        \* bytes in the TCP stream
  stage,       \* the field being read, or "closed"
  need, got,   \* recv_raw: bytes still to come, bytes collected
  msg_type, payload_len,   \* of the message being read
  read,        \* messages read_message has returned
  peer_choking, peer_interested   \* PeerState

senderVars == <<sent, out>>
frameVars  == <<msg_type, payload_len>>
stateVars  == <<peer_choking, peer_interested>>

vars == <<senderVars, wire, stage, need, got, frameVars, read, stateVars>>

-----------------------------------------------------------------------------
(* Encoding *)

write_u32(v) == <<v \div (256 * 256 * 256), (v \div (256 * 256)) % 256,
                  (v \div 256) % 256, v % 256>>

LittleEndian(p) ==   \* faulty variant: the other byte order
  p[1] + 256 * (p[2] + 256 * (p[3] + 256 * p[4]))

read_u32(p) == p[4] + 256 * (p[3] + 256 * (p[2] + 256 * p[1]))

Payload(m) ==
  CASE m.type = Have               -> write_u32(m.piece_index)
    [] m.type \in {Request, Cancel} -> write_u32(m.piece_index) \o
                                       write_u32(m.begin) \o write_u32(m.length)
    [] m.type = Piece              -> write_u32(m.piece_index) \o
                                       write_u32(m.begin) \o m.data
    [] OTHER                       -> m.data

Frame(type, payload_length, data) ==
  write_u32(1 + payload_length) \o <<type>> \o data

Encode(m) ==
  IF m = KeepAlive THEN write_u32(0)
  ELSE Frame(m.type, Len(Payload(m)), Payload(m))

LengthValid(type, n) ==
  /\ type = Have => n = 4
  /\ type \in {Request, Cancel} => n = 12
  /\ type = Piece => n >= 8

(* A message has the fields of its type, in range, and fits its length     *)
(* word; a bad frame announces a length its type cannot have.              *)
ASSUME PeerWireAssumption ==
  /\ MaxMessages \in Nat
  /\ \A m \in Messages :
       /\ m = PeerMessage(m.type, m.piece_index, m.begin, m.length, m.data)
       /\ m.type \in Byte \cup {-1}
       /\ IsWord(m.piece_index) /\ IsWord(m.begin) /\ IsWord(m.length)
       /\ m.data \in Seq(Byte) /\ IsWord(1 + Len(Payload(m)))
       /\ m.piece_index # 0 => m.type \in {Have, Request, Cancel, Piece}
       /\ m.begin # 0       => m.type \in {Request, Cancel, Piece}
       /\ m.length # 0      => m.type \in {Request, Cancel}
       /\ m.data # <<>>     => m.type \notin Flags \cup {-1, Have, Request, Cancel}
  /\ \A f \in BadFrames :
       /\ f.type \in Byte \ Flags
       /\ f.length \in Nat /\ IsWord(1 + f.length) /\ f.data \in Seq(Byte)
       /\ ~LengthValid(f.type, f.length)

(* The handshake's fields, one cell each for its 68 bytes: protocol name,   *)
(* info_hash, peer_id.                                                      *)
Protocol == 19
OurHash == 1
Handshakes == {<<p, h, 0>> : p \in {Protocol, 0}, h \in {OurHash, 0}}

HandshakeMatches(hs) == hs[1] = Protocol /\ hs[2] = OurHash

-----------------------------------------------------------------------------
Init ==
  /\ sent = <<>> /\ out \in Handshakes /\ wire = <<>>
  /\ stage = "handshake" /\ need = 3 /\ got = <<>>
  /\ msg_type = 0 /\ payload_len = 0
  /\ read = <<>>
  /\ peer_choking = TRUE /\ peer_interested = FALSE

(* The remote peer *)

SendFrame ==
  /\ out = <<>> /\ Len(sent) < MaxMessages
  /\ \/ \E m \in Messages : sent' = Append(sent, m) /\ out' = Encode(m)
     \/ \E f \in BadFrames : /\ sent' = Append(sent, Malformed)
                             /\ out'  = Frame(f.type, f.length, f.data)
  /\ UNCHANGED <<wire, stage, need, got, frameVars, read, stateVars>>

(* send takes some of the bytes; send_raw goes on with the rest. *)
SendSome ==
  /\ \E n \in 1 .. Len(out) :
       /\ wire' = wire \o SubSeq(out, 1, n)
       /\ out'  = SubSeq(out, n + 1, Len(out))
  /\ UNCHANGED <<sent, stage, need, got, frameVars, read, stateVars>>

-----------------------------------------------------------------------------
(* recv_raw *)

WholeBuffer(n) == n + Len(got)   \* faulty variant: asks for all of it again

Wanted(n) == n

RecvSome ==
  /\ stage # "closed"
  /\ \E n \in 1 .. Len(wire) :
       /\ need > 0 /\ n <= Wanted(need)
       /\ got'  = got \o SubSeq(wire, 1, n)
       /\ need' = need - n
       /\ wire' = SubSeq(wire, n + 1, Len(wire))
  /\ UNCHANGED <<senderVars, stage, frameVars, read, stateVars>>

(* recv returns 0 or fails, or memory is short: an exception ends the loop. *)
Break ==
  /\ stage # "closed"
  /\ stage' = "closed"
  /\ UNCHANGED <<senderVars, wire, need, got, frameVars, read, stateVars>>

Complete(field) == stage = field /\ need = 0

Await(field, n) == stage' = field /\ need' = n /\ got' = <<>>

Return(m) == read' = Append(read, m) /\ Await("length", 4)

-----------------------------------------------------------------------------
(* handshake and read_message *)

EndHandshake ==
  /\ Complete("handshake")
  /\ IF HandshakeMatches(got)
       THEN Await("length", 4)
       ELSE stage' = "closed" /\ UNCHANGED <<need, got>>
  /\ UNCHANGED <<senderVars, wire, frameVars, read, stateVars>>

ReadKeepAlive ==
  /\ Complete("length")
  /\ read_u32(got) = 0
  /\ Return(KeepAlive)
  /\ UNCHANGED <<senderVars, wire, frameVars, stateVars>>

ReadLength ==
  /\ Complete("length")
  /\ read_u32(got) # 0
  /\ payload_len' = read_u32(got) - 1
  /\ Await("type", 1)
  /\ UNCHANGED <<senderVars, wire, msg_type, read, stateVars>>

(* A flag message is returned at once: its payload, if any, stays in the    *)
(* stream.                                                                  *)
ReadFlag ==
  /\ Complete("type")
  /\ got[1] \in Flags
  /\ peer_choking' = IF got[1] \in {Choke, Unchoke} THEN got[1] = Choke
                                                    ELSE peer_choking
  /\ peer_interested' = IF got[1] \in {Interested, NotInterested}
                          THEN got[1] = Interested ELSE peer_interested
  /\ Return(PeerMessage(got[1], 0, 0, 0, <<>>))
  /\ UNCHANGED <<senderVars, wire, frameVars>>

RejectLength ==
  /\ Complete("type")
  /\ got[1] \notin Flags /\ ~LengthValid(got[1], payload_len)
  /\ stage' = "closed"
  /\ UNCHANGED <<senderVars, wire, need, got, frameVars, read, stateVars>>

KnownOnly(type, n) ==   \* faulty variant: an unknown payload stays unread
  IF type \in Flags \cup {Have, Bitfield, Request, Piece, Cancel} THEN n ELSE 0

PayloadToRead(type, n) == n

ReadType ==
  /\ Complete("type")
  /\ got[1] \notin Flags /\ LengthValid(got[1], payload_len)
  /\ msg_type' = got[1]
  /\ Await("payload", PayloadToRead(got[1], payload_len))
  /\ UNCHANGED <<senderVars, wire, payload_len, read, stateVars>>

Field(k) == read_u32(SubSeq(got, 4 * k - 3, 4 * k))

ParsedMessage ==
  CASE msg_type = Have     -> PeerMessage(Have, Field(1), 0, 0, <<>>)
    [] msg_type = Bitfield -> PeerMessage(Bitfield, 0, 0, 0, got)
    [] msg_type \in {Request, Cancel} ->
         PeerMessage(msg_type, Field(1), Field(2), Field(3), <<>>)
    [] msg_type = Piece    -> PeerMessage(Piece, Field(1), Field(2), 0,
                                      SubSeq(got, 9, Len(got)))
    [] OTHER               -> PeerMessage(msg_type, 0, 0, 0, <<>>)

ReadPayload ==
  /\ Complete("payload")
  /\ Return(ParsedMessage)
  /\ UNCHANGED <<senderVars, wire, frameVars, stateVars>>

-----------------------------------------------------------------------------
ReadStep ==
  \/ EndHandshake \/ ReadKeepAlive \/ ReadLength \/ ReadFlag
  \/ RejectLength \/ ReadType \/ ReadPayload

Next == SendFrame \/ SendSome \/ RecvSome \/ Break \/ ReadStep

Fairness == WF_vars(SendSome) /\ WF_vars(RecvSome) /\ WF_vars(ReadStep)

Spec == Init /\ [][Next]_vars /\ Fairness

-----------------------------------------------------------------------------
(* Properties *)

(* Shape of the state; recv_raw never collects more than it was asked for.  *)
PeerWireTypeOK ==
  /\ Len(sent) \in 0 .. MaxMessages
  /\ out \in Seq(Byte) /\ wire \in Seq(Byte) /\ got \in Seq(Byte)
  /\ stage \in {"handshake", "length", "type", "payload", "closed"}
  /\ need \in Nat /\ payload_len \in Nat
  /\ msg_type \in Byte
  /\ {peer_choking, peer_interested} \subseteq BOOLEAN

(* What read_message makes of a message: the payload of an unknown one is   *)
(* discarded.                                                               *)
Received(m) ==
  IF m.type \in {Bitfield, Piece} THEN m ELSE [m EXCEPT !.data = <<>>]

(* However TCP cuts the stream, messages come out whole, in order, once,    *)
(* with the fields they were sent with; what follows an unknown message is  *)
(* read in step, and a frame with an impossible length is never returned.   *)
Channel == INSTANCE MessageChannel WITH
  Message    <- {Received(m) : m \in Messages},
  Unreadable <- Malformed,
  sent       <- [k \in DOMAIN sent |-> Received(sent[k])]

ImplementsChannel == Channel!Spec

(* The reader never waits for bytes that nobody sends: every message sent   *)
(* is read in the end, unless the connection ends.                          *)
EverythingRead ==
  \A k \in 1 .. MaxMessages :
    Len(sent) >= k ~> (Len(read) >= k \/ stage = "closed")
=============================================================================
