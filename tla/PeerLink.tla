------------------------------ MODULE PeerLink ------------------------------
(***************************************************************************)
(* Peer threads joined to remote peers that keep to the protocol (BEP 3):  *)
(* a remote peer announces only pieces it has, answers the requests it     *)
(* takes while it is unchoking and drops them when it chokes.  The socket  *)
(* of a connection is one FIFO channel in each direction, and here no      *)
(* connection breaks and nobody stops the session; PeerWorker covers peers *)
(* that send anything and connections that break.                          *)
(*                                                                         *)
(* A step of a thread is the PeerWorker action, joined with what it takes  *)
(* from or puts into the channels.  What remote peers ignore (keep-alives, *)
(* our Bitfield and our Have messages) is not put into the channel.        *)
(***************************************************************************)
EXTENDS PeerWorker, SequencesExt

CONSTANTS
  RemoteStart,   \* RemoteStart[w]: pieces the peer of w has at first
  RemoteEnd,     \* RemoteEnd[w]: pieces it has in the end
  MaxChokes,     \* bound on the Choke messages of each peer
  MaxBad         \* bound on the corrupt blocks of each peer

(* The requests there are, and how one may be answered. *)
Requests == UNION {{BlockRequest(i, b) : b \in Blocks(i)} : i \in PieceIndex}

Answer(r, right) ==
  [piece_index |-> r.piece_index, begin |-> r.begin, length |-> r.length,
   right |-> right]

RightAnswer(r) == Answer(r, r.begin .. r.begin + r.length - 1)

WrongAnswer(r) == Answer(r, {})

(* These peers are among those of PeerWorker, which may send more.          *)
ASSUME PeerLinkAssumption ==
  /\ RemoteStart \in [Worker -> SUBSET PieceIndex]
  /\ RemoteEnd   \in [Worker -> SUBSET PieceIndex]
  /\ \A w \in Worker : RemoteStart[w] \subseteq RemoteEnd[w]
  /\ MaxChokes \in Nat /\ MaxBad \in Nat
  /\ \A w \in Worker : RemoteStart[w] \in Bitfields /\ RemoteEnd[w] \subseteq HaveIndices
  /\ \A r \in Requests : {RightAnswer(r), WrongAnswer(r)} \subseteq PieceMessages

VARIABLES
  inbox,        \* messages on their way to the thread
  outbox,       \* messages on their way to the remote peer
  remote_has,   \* pieces the remote peer has
  interested,   \* the remote peer knows that we are interested
  unchoking,    \* the remote peer unchokes us
  pending,      \* requests the remote peer has taken and not answered
  chokes, bad   \* Choke messages and corrupt blocks so far

linkVars == <<inbox, outbox, remote_has, interested, unchoking, pending,
              chokes, bad>>

lvars == <<vars, linkVars>>

remoteVars == <<remote_has, interested, unchoking, pending, chokes, bad>>

LInit ==
  /\ Init
  /\ inbox      = [w \in Worker |-> <<[type |-> "Bitfield",
                                       pieces |-> RemoteStart[w]]>>]
  /\ outbox     = [w \in Worker |-> <<>>]
  /\ remote_has = RemoteStart
  /\ interested = [w \in Worker |-> FALSE]
  /\ unchoking  = [w \in Worker |-> FALSE]
  /\ pending    = [w \in Worker |-> <<>>]
  /\ chokes     = [w \in Worker |-> 0]
  /\ bad        = [w \in Worker |-> 0]

-----------------------------------------------------------------------------
(* The thread's side *)

Takes(w, type) ==
  /\ inbox[w] # <<>>
  /\ Head(inbox[w]).type = type
  /\ inbox' = [inbox EXCEPT ![w] = Tail(@)]

LGreet(w) ==
  /\ Greet(w)
  /\ outbox' = [outbox EXCEPT ![w] = Append(@, [type |-> "Interested"])]
  /\ UNCHANGED <<inbox, remoteVars>>

LRead(w) ==
  /\ \/ Takes(w, "Bitfield") /\ ReadBitfield(w)
                             /\ peer_bf'[w] = Head(inbox[w]).pieces
     \/ Takes(w, "Have")     /\ ReadHave(w)
                             /\ Head(inbox[w]).piece_index \in peer_bf'[w]
                             /\ peer_bf'[w] \subseteq peer_bf[w] \cup
                                              {Head(inbox[w]).piece_index}
     \/ Takes(w, "Unchoke")  /\ ReadUnchoke(w)
     \/ Takes(w, "Choke")    /\ ReadChoke(w)
     \/ Takes(w, "Piece")    /\ ReadPiece(w, Head(inbox[w]).block)
  /\ UNCHANGED <<outbox, remoteVars>>

LSendRequest(w) ==
  /\ SendRequest(w)
  /\ \E r \in next_request(peer_bf[w]) :
       outbox' = [outbox EXCEPT ![w] =
                    Append(@, [type |-> "Request", request |-> r])]
  /\ UNCHANGED <<inbox, remoteVars>>

LLocal(w) ==
  /\ CheckLoop(w) \/ Announce(w) \/ EndRequests(w)
  /\ UNCHANGED linkVars

ThreadStep(w) == LGreet(w) \/ LRead(w) \/ LSendRequest(w) \/ LLocal(w)

-----------------------------------------------------------------------------
(* The remote peer's side *)

Sends(w, m) == inbox' = [inbox EXCEPT ![w] = Append(@, m)]

RemoteObtain(w) ==
  /\ \E i \in RemoteEnd[w] \ remote_has[w] :
       /\ remote_has' = [remote_has EXCEPT ![w] = @ \cup {i}]
       /\ Sends(w, [type |-> "Have", piece_index |-> i])
  /\ UNCHANGED <<vars, outbox, interested, unchoking, pending, chokes, bad>>

RemoteUnchoke(w) ==
  /\ interested[w] /\ ~unchoking[w]
  /\ unchoking' = [unchoking EXCEPT ![w] = TRUE]
  /\ Sends(w, [type |-> "Unchoke"])
  /\ UNCHANGED <<vars, outbox, remote_has, interested, pending, chokes, bad>>

RemoteChoke(w) ==
  /\ unchoking[w] /\ chokes[w] < MaxChokes
  /\ unchoking' = [unchoking EXCEPT ![w] = FALSE]
  /\ pending' = [pending EXCEPT ![w] = <<>>]
  /\ chokes' = [chokes EXCEPT ![w] = @ + 1]
  /\ Sends(w, [type |-> "Choke"])
  /\ UNCHANGED <<vars, outbox, remote_has, interested, bad>>

RemoteTake(w) ==
  /\ outbox[w] # <<>>
  /\ outbox' = [outbox EXCEPT ![w] = Tail(@)]
  /\ interested' = [interested EXCEPT ![w] =
                      @ \/ Head(outbox[w]).type = "Interested"]
  /\ pending' = IF Head(outbox[w]).type = "Request" /\ unchoking[w]
                  THEN [pending EXCEPT ![w] =
                          Append(@, Head(outbox[w]).request)]
                  ELSE pending
  /\ UNCHANGED <<vars, inbox, remote_has, unchoking, chokes, bad>>

(* Answers may come in any order, and some of them are corrupt. *)
RemoteServe(w) ==
  \E k \in 1 .. Len(pending[w]) :
    /\ pending' = [pending EXCEPT ![w] = RemoveAt(@, k)]
    /\ \/ /\ Sends(w, [type |-> "Piece", block |-> RightAnswer(pending[w][k])])
          /\ UNCHANGED bad
       \/ /\ bad[w] < MaxBad
          /\ bad' = [bad EXCEPT ![w] = @ + 1]
          /\ Sends(w, [type |-> "Piece", block |-> WrongAnswer(pending[w][k])])
    /\ UNCHANGED <<vars, outbox, remote_has, interested, unchoking, chokes>>

LNext ==
  \E w \in Worker :
    \/ ThreadStep(w)
    \/ RemoteObtain(w) \/ RemoteUnchoke(w) \/ RemoteChoke(w)
    \/ RemoteTake(w) \/ RemoteServe(w)

(* Threads are scheduled; remote peers read, answer, unchoke in the end     *)
(* and obtain what they are to obtain.                                      *)
Fairness ==
  \A w \in Worker :
    /\ WF_lvars(ThreadStep(w))
    /\ WF_lvars(RemoteObtain(w)) /\ WF_lvars(RemoteUnchoke(w))
    /\ WF_lvars(RemoteTake(w))   /\ WF_lvars(RemoteServe(w))

LSpec == LInit /\ [][LNext]_lvars /\ Fairness

-----------------------------------------------------------------------------
(* Properties *)

Count(seq, type) == Cardinality({k \in DOMAIN seq : seq[k].type = type})

(* Requests on their way, taken by the remote peer, or answered.             *)
Outstanding(w) ==
  Count(outbox[w], "Request") + Len(pending[w]) + Count(inbox[w], "Piece")

(* No pipeline slot leaks: whatever a Choke does to requests in the         *)
(* channel, taken or answered, a thread with no Choke left to read never    *)
(* counts more requests in flight than are really on their way.  A leaked   *)
(* slot is never freed, and PIPELINE_DEPTH of them silence the connection.  *)
NoLeakedSlot ==
  \A w \in Worker :
    /\ Count(inbox[w], "Choke") = 0 => requests_in_flight[w] <= Outstanding(w)
    /\ chokes[w] = 0 => requests_in_flight[w] = Outstanding(w)

(* A download from peers that between them come to have every piece ends,   *)
(* through chokes, lost requests, corrupt blocks, pieces announced late,    *)
(* answers out of order and blocks asked for more than once.                *)
DownloadEnds == <>is_complete

=============================================================================
