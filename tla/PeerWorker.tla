----------------------------- MODULE PeerWorker -----------------------------
(***************************************************************************)
(* Session::peer_worker (src/session.cpp): one thread per peer, all of     *)
(* them over the one PieceManager.  A remote peer may send any message at  *)
(* any time and may drop the connection, so a read is a free choice here.  *)
(*                                                                         *)
(* A thread's handler of one message is cut where another thread can step  *)
(* in: at every call that takes the PieceManager's mutex, at the read of   *)
(* done_count_, and at the blocking read.                                  *)
(***************************************************************************)
EXTENDS PieceManager

CONSTANTS
  Worker,           \* the peer threads
  PIPELINE_DEPTH,   \* requests a thread keeps in flight
  Bitfields,        \* the Bitfield messages peers may send
  HaveIndices       \* the piece indices of Have messages

ASSUME PeerWorkerAssumption ==
  /\ PIPELINE_DEPTH \in Nat \ {0}
  /\ Bitfields \subseteq SUBSET Nat
  /\ HaveIndices \subseteq Nat

VARIABLES
  pc,                   \* where the thread is
  peer_bf,              \* pieces the peer says it has
  peer_choking,         \* PeerState::peer_choking
  requests_in_flight,   \* the thread's count of unanswered requests
  stop_requested        \* Session::stop_requested_

workerVars == <<pc, peer_bf, peer_choking, requests_in_flight, stop_requested>>

vars == <<pmVars, workerVars>>

(* start: connect .. send_interested   check: the loop's condition          *)
(* read: blocked in read_message       announce: after receive_block        *)
(* request: in maybe_request           done: returned or caught             *)
Location == {"start", "check", "read", "announce", "request", "done"}

Init ==
  /\ PMInit
  /\ pc                 = [w \in Worker |-> "start"]
  /\ peer_bf            = [w \in Worker |-> {}]
  /\ peer_choking       = [w \in Worker |-> TRUE]
  /\ requests_in_flight = [w \in Worker |-> 0]
  /\ stop_requested     = FALSE

Goto(w, from, to) == pc[w] = from /\ pc' = [pc EXCEPT ![w] = to]

-----------------------------------------------------------------------------
(* connect, handshake, send_bitfield(our_bitfield()), send_interested *)
Greet(w) ==
  /\ Goto(w, "start", "check")
  /\ UNCHANGED <<pmVars, peer_bf, peer_choking, requests_in_flight,
                 stop_requested>>

(* A socket call throws, or the handshake does not match. *)
Drop(w) ==
  /\ pc[w] \in {"start", "read", "announce", "request"}
  /\ pc' = [pc EXCEPT ![w] = "done"]
  /\ UNCHANGED <<pmVars, peer_bf, peer_choking, requests_in_flight,
                 stop_requested>>

CheckLoop(w) ==
  /\ Goto(w, "check", IF stop_requested \/ is_complete THEN "done" ELSE "read")
  /\ UNCHANGED <<pmVars, peer_bf, peer_choking, requests_in_flight,
                 stop_requested>>

(* Session::stop, from the thread of main. *)
Stop ==
  /\ ~stop_requested
  /\ stop_requested' = TRUE
  /\ UNCHANGED <<pmVars, pc, peer_bf, peer_choking, requests_in_flight>>

-----------------------------------------------------------------------------
(* read_message returns *)

(* A keep-alive, answered in kind, or a message the switch ignores. *)
ReadOther(w) ==
  /\ Goto(w, "read", "check")
  /\ UNCHANGED <<pmVars, peer_bf, peer_choking, requests_in_flight,
                 stop_requested>>

ReadBitfield(w) ==
  /\ Goto(w, "read", "request")
  /\ \E bf \in Bitfields : peer_bf' = [peer_bf EXCEPT ![w] = bf]
  /\ UNCHANGED <<pmVars, peer_choking, requests_in_flight,
                 stop_requested>>

AfterHaveIdle == "check"   \* faulty variant: no maybe_request after Have

AfterHave == "request"

ReadHave(w) ==
  /\ Goto(w, "read", AfterHave)
  /\ \E i \in HaveIndices : peer_bf' = [peer_bf EXCEPT ![w] = @ \cup {i}]
  /\ UNCHANGED <<pmVars, peer_choking, requests_in_flight,
                 stop_requested>>

ReadUnchoke(w) ==
  /\ Goto(w, "read", "request")
  /\ peer_choking' = [peer_choking EXCEPT ![w] = FALSE]
  /\ UNCHANGED <<pmVars, peer_bf, requests_in_flight,
                 stop_requested>>

KeptInFlight(n) == n   \* faulty variant: a choke leaves the count alone

InFlightAfterChoke(n) == 0

ReadChoke(w) ==
  /\ Goto(w, "read", "check")
  /\ peer_choking' = [peer_choking EXCEPT ![w] = TRUE]
  /\ requests_in_flight' = [requests_in_flight EXCEPT
                              ![w] = InFlightAfterChoke(@)]
  /\ UNCHANGED <<pmVars, peer_bf, stop_requested>>

DecrementAlways(n) == n - 1   \* faulty variant: the counter has no floor

KeptOnAnswer(n) == n   \* faulty variant: an answer frees no slot

Decrement(n) == IF n > 0 THEN n - 1 ELSE n

SwallowedError == "check"   \* faulty variant: the exception ends the message

AfterWriteError == "done"

(* case Piece, up to and including receive_block; a failed write throws.   *)
ReadPiece(w, m) ==
  /\ pc[w] = "read"
  /\ requests_in_flight' = [requests_in_flight EXCEPT ![w] = Decrement(@)]
  /\ \/ /\ \/ IgnoreBlock(m) \/ KeepBlock(m) \/ ResetPiece(m) \/ FlushPiece(m)
        /\ pc' = [pc EXCEPT ![w] = "announce"]
     \/ /\ FailToFlush(m)
        /\ pc' = [pc EXCEPT ![w] = AfterWriteError]
  /\ UNCHANGED <<peer_bf, peer_choking, stop_requested>>

(* case Piece, after receive_block: a Have is sent if pieces_done > 0,      *)
(* which changes nothing here but may throw (Drop).                         *)
Announce(w) ==
  /\ Goto(w, "announce", "request")
  /\ UNCHANGED <<pmVars, peer_bf, peer_choking, requests_in_flight,
                 stop_requested>>

-----------------------------------------------------------------------------
(* maybe_request: one round of its loop, or its end *)

CanRequest(w) ==
  /\ requests_in_flight[w] < PIPELINE_DEPTH
  /\ ~peer_choking[w]

SendRequest(w) ==
  /\ pc[w] = "request"
  /\ CanRequest(w)
  /\ next_request(peer_bf[w]) # {}
  /\ requests_in_flight' = [requests_in_flight EXCEPT ![w] = @ + 1]
  /\ UNCHANGED <<pmVars, pc, peer_bf, peer_choking,
                 stop_requested>>

EndRequests(w) ==
  /\ Goto(w, "request", "check")
  /\ CanRequest(w) => next_request(peer_bf[w]) = {}
  /\ UNCHANGED <<pmVars, peer_bf, peer_choking, requests_in_flight,
                 stop_requested>>

-----------------------------------------------------------------------------
Next ==
  \/ Stop
  \/ \E w \in Worker :
       \/ Greet(w) \/ Drop(w) \/ CheckLoop(w)
       \/ ReadOther(w) \/ ReadBitfield(w) \/ ReadHave(w)
       \/ ReadUnchoke(w) \/ ReadChoke(w)
       \/ \E m \in PieceMessages : ReadPiece(w, m)
       \/ Announce(w) \/ SendRequest(w) \/ EndRequests(w)

Spec == Init /\ [][Next]_vars

-----------------------------------------------------------------------------
(* Properties *)

(* Shape of the threads' locals; the pipeline counter stays within its     *)
(* bounds whatever unsolicited answers arrive (peer_worker, case Piece).   *)
WorkerTypeOK ==
  /\ pc                 \in [Worker -> Location]
  /\ peer_bf            \in [Worker -> SUBSET Nat]
  /\ peer_choking       \in [Worker -> BOOLEAN]
  /\ requests_in_flight \in [Worker -> 0 .. PIPELINE_DEPTH]
  /\ stop_requested     \in BOOLEAN

(* Waiting, or about to wait, for its peer although it could ask.            *)
Idle(w) == pc[w] \in {"check", "read"} /\ CanRequest(w)

(* No lost wake-up.  A thread only asks after a message of its own peer,   *)
(* while other threads complete, reset and refill pieces.  Nevertheless a  *)
(* thread that goes back to a blocking read, unchoked and with room in its *)
(* pipeline, has nothing to ask for now: otherwise it would sleep beside   *)
(* work until its peer happens to speak.  It takes a disk that never fails. *)
IdleMeansNothingUseful ==
  \A w \in Worker : Idle(w) => next_request(peer_bf[w]) = {}

(* A write error ends the thread that met it (the catch of peer_worker),   *)
(* and nothing else leaves a piece with all of its blocks and no verdict:  *)
(* so no more pieces are stranded than threads have ended.                 *)
StrandedPieces ==
  {i \in PieceIndex : status[i] # "Complete" /\ received[i] = Blocks(i)}

Ended == {w \in Worker : pc[w] = "done"}

StrandedCostsThread == Cardinality(StrandedPieces) <= Cardinality(Ended)

(* With a disk that fails a late wrong block may reset a stranded piece,    *)
(* and threads that wait already do not learn that there is work again.     *)
(* What they sleep beside is still paid for: with the pieces stranded now   *)
(* it is at most one piece for every thread that has ended, hence nothing   *)
(* as long as all threads live.                                             *)
IdleCostsThreads ==
  \A w \in Worker :
    Idle(w) => Cardinality(StrandedPieces \cup Useful(peer_bf[w])) <=
                 Cardinality(Ended)

=============================================================================
