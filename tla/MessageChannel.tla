--------------------------- MODULE MessageChannel ---------------------------
(***************************************************************************)
(* One direction of a connection as its users see it: whole messages, in   *)
(* the order they were sent, each at most once.  PeerLink is built on such *)
(* channels; PeerWire implements one over a stream of bytes.               *)
(***************************************************************************)
EXTENDS Integers, Sequences

CONSTANTS
  Message,      \* what can be sent and read
  Unreadable    \* what can be sent, but ends the connection when it is read

VARIABLES
  sent,   \* messages the sender has sent
  read    \* messages the receiver has been given

vars == <<sent, read>>

Init == sent = <<>> /\ read = <<>>

Send ==
  /\ \E m \in Message \cup {Unreadable} : sent' = Append(sent, m)
  /\ UNCHANGED read

Receive ==
  /\ Len(read) < Len(sent)
  /\ sent[Len(read) + 1] # Unreadable
  /\ read' = Append(read, sent[Len(read) + 1])
  /\ UNCHANGED sent

Next == Send \/ Receive

Spec == Init /\ [][Next]_vars
=============================================================================
