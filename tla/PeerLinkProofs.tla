--------------------------- MODULE PeerLinkProofs ---------------------------
(***************************************************************************)
(* Proofs about PeerWorker, for any number of threads over one             *)
(* PieceManager, and about PeerLink, which joins the threads to remote     *)
(* peers that keep to the protocol.                                        *)
(***************************************************************************)
EXTENDS PeerLink, PieceManagerProofs, FunctionTheorems, SequenceTheorems

(* What is not complete and either has all its blocks or is of use to       *)
(* someone who asks a peer that has the pieces bf.                          *)
Unfinished(bf) ==
  {i \in PieceIndex : status[i] # "Complete" /\ (received[i] = Blocks(i) \/ i \in bf)}

(* The pieces stranded, and for every thread that waits those it could have *)
(* asked for, are paid for with ended threads.                              *)
LostWorkIsPaidFor ==
  /\ IsFiniteSet(Ended)
  /\ Cardinality(StrandedPieces) <= Cardinality(Ended)
  /\ \A w \in Worker :
       Idle(w) => Cardinality(Unfinished(peer_bf[w])) <= Cardinality(Ended)

(* A thread that has not spoken to its peer yet is choked. *)
ChokedAtFirst == \A w \in Worker : pc[w] = "start" => peer_choking[w]

WorkerInv == IInv /\ WorkerTypeOK /\ ChokedAtFirst /\ LostWorkIsPaidFor

-----------------------------------------------------------------------------
(* What a call of receive_block does to the work there is *)

(* A step that changes only the status and the blocks of piece i.           *)
Touches(i) ==
  \A j \in PieceIndex \ {i} : status'[j] = status[j] /\ received'[j] = received[j]

(* No outcome of receive_block but a failed write gives a piece all its     *)
(* blocks and no verdict, and none makes a piece unfinished that was not.   *)
LEMMA WorkStep ==
  ASSUME IInv, NEW m \in PieceMessages, NEW bf,
         IgnoreBlock(m) \/ KeepBlock(m) \/ ResetPiece(m) \/ FlushPiece(m)
  PROVE  /\ StrandedPieces' \subseteq StrandedPieces
         /\ Unfinished(bf)' \subseteq Unfinished(bf)
<1> DEFINE i == m.piece_index
<1>1. CASE IgnoreBlock(m)
  BY <1>1 DEF IgnoreBlock, pmVars, StrandedPieces, Unfinished
<1>2. CASE KeepBlock(m)
  <2>1. i \in PieceIndex /\ Accepts(m) /\ status[i] # "Complete"
    BY <1>2, AcceptedMessage DEF KeepBlock
  <2>2. /\ status' = [status EXCEPT ![i] = StatusWith(m)]
        /\ received' = [received EXCEPT ![i] = ReceivedWith(m)]
    BY <1>2 DEF KeepBlock
  <2>3. Cardinality(ReceivedWith(m)) # Cardinality(Blocks(i))
    BY <1>2, <2>1, DoneWithCounts, FiniteBlocks DEF KeepBlock, AllArrived, IInv
  <2>4. status'[i] # "Complete" /\ received'[i] # Blocks(i)
    BY <2>1, <2>2, <2>3, StatusWithIncomplete DEF IInv, PMTypeOK
  <2>5. Touches(i)
    BY <2>1, <2>2 DEF Touches, IInv, PMTypeOK
  <2> QED BY <2>1, <2>4, <2>5 DEF Touches, StrandedPieces, Unfinished
<1>3. CASE ResetPiece(m)
  <2>1. i \in PieceIndex /\ status[i] # "Complete" /\ Blocks(i) # {}
    BY <1>3, AcceptedMessage, BlockGeometry DEF ResetPiece, Blocks
  <2>2. received'[i] # Blocks(i)
    BY <1>3, <2>1 DEF ResetPiece, ClearedFlags, IInv, PMTypeOK
  <2>3. Touches(i)
    BY <1>3, <2>1 DEF ResetPiece, Touches, IInv, PMTypeOK
  <2> QED BY <2>1, <2>2, <2>3 DEF Touches, StrandedPieces, Unfinished
<1>4. CASE FlushPiece(m)
  <2>1. i \in PieceIndex
    BY <1>4, AcceptedMessage DEF FlushPiece
  <2>2. status'[i] = "Complete" /\ Touches(i)
    BY <1>4, <2>1 DEF FlushPiece, Touches, IInv, PMTypeOK
  <2> QED BY <2>1, <2>2 DEF Touches, StrandedPieces, Unfinished
<1> QED BY <1>1, <1>2, <1>3, <1>4

(* A failed write adds one such piece.                                      *)
LEMMA LostWork ==
  ASSUME IInv, NEW m \in PieceMessages, NEW bf, FailToFlush(m)
  PROVE  /\ StrandedPieces' \subseteq StrandedPieces \cup {m.piece_index}
         /\ Unfinished(bf)' \subseteq Unfinished(bf) \cup {m.piece_index}
<1> DEFINE i == m.piece_index
<1>1. i \in PieceIndex
  BY AcceptedMessage DEF FailToFlush
<1>2. Touches(i)
  BY <1>1 DEF FailToFlush, Touches, IInv, PMTypeOK
<1> QED BY <1>2 DEF Touches, StrandedPieces, Unfinished

(* Pieces are finitely many.                                                *)
LEMMA FiniteWork ==
  ASSUME NEW bf
  PROVE  /\ IsFiniteSet(StrandedPieces) /\ IsFiniteSet(Unfinished(bf))
         /\ Cardinality(StrandedPieces) \in Nat
         /\ Cardinality(Unfinished(bf)) \in Nat
         /\ StrandedPieces \subseteq Unfinished(bf)
         /\ StrandedPieces \cup Useful(bf) = Unfinished(bf)
<1>1. StrandedPieces \subseteq PieceIndex /\ Unfinished(bf) \subseteq PieceIndex
  BY DEF StrandedPieces, Unfinished
<1>2. IsFiniteSet(StrandedPieces) /\ IsFiniteSet(Unfinished(bf))
  BY <1>1, FinitePieces, FS_Subset
<1>3. StrandedPieces \subseteq Unfinished(bf)
  BY DEF StrandedPieces, Unfinished
<1>4. StrandedPieces \cup Useful(bf) = Unfinished(bf)
  BY DEF StrandedPieces, Unfinished, Useful
<1> QED BY <1>2, <1>3, <1>4, FS_CardinalityType

(* next_request has an answer as long as a piece is useful: the lowest      *)
(* useful piece has a lowest block that has not arrived.                    *)
LEMMA NothingToAsk ==
  ASSUME IInv, NEW bf, next_request(bf) = {}
  PROVE  Useful(bf) = {}
<1> SUFFICES ASSUME Useful(bf) # {} PROVE FALSE
  OBVIOUS
<1>1. Useful(bf) \in SUBSET Nat
  BY PieceGeometry DEF Useful, PieceIndex
<1>2. PICK i \in Useful(bf) : \A j \in Useful(bf) : i <= j
  BY <1>1, Least
<1>3. /\ i \in Lowest(Useful(bf)) /\ i \in PieceIndex
      /\ received[i] \subseteq Blocks(i) /\ received[i] # Blocks(i)
  BY <1>2 DEF Lowest, Useful, IInv, PMTypeOK
<1> DEFINE T == Blocks(i) \ received[i]
<1>4. T \in SUBSET Nat /\ T # {}
  BY <1>3, BlocksNat
<1>5. PICK b \in T : \A c \in T : b <= c
  BY <1>4, Least
<1>6. b \in Lowest(T)
  BY <1>5 DEF Lowest
<1>7. BlockRequest(i, b) \in next_request(bf)
  BY <1>3, <1>6 DEF next_request
<1> QED BY <1>7

(* And the other way round. *)
LEMMA NothingUsefulNoRequest ==
  ASSUME NEW bf, Useful(bf) = {}
  PROVE  next_request(bf) = {}
BY DEF next_request, Lowest

-----------------------------------------------------------------------------
(* The threads *)

(* A step of a thread changes the piece manager by one call of              *)
(* receive_block, if at all.                                                *)
LEMMA CallsOneAtATime == [Next]_vars => [PMNext]_pmVars
<1> SUFFICES ASSUME [Next]_vars PROVE [PMNext]_pmVars
  OBVIOUS
<1>1. CASE UNCHANGED vars \/ Stop
  BY <1>1 DEF vars, Stop
<1>2. ASSUME NEW w \in Worker, NEW m \in PieceMessages, ReadPiece(w, m)
      PROVE  PMNext
  BY <1>2 DEF ReadPiece, PMNext, receive_block
<1>3. ASSUME NEW w \in Worker,
             \/ Greet(w) \/ Drop(w) \/ CheckLoop(w)
             \/ ReadOther(w) \/ ReadBitfield(w) \/ ReadHave(w)
             \/ ReadUnchoke(w) \/ ReadChoke(w)
             \/ Announce(w) \/ SendRequest(w) \/ EndRequests(w)
      PROVE  UNCHANGED pmVars
  BY <1>3 DEF Greet, Drop, CheckLoop, ReadOther, ReadBitfield, ReadHave,
              ReadUnchoke, ReadChoke, Announce, SendRequest, EndRequests
<1> QED BY <1>1, <1>2, <1>3 DEF Next

(* Locals of the threads keep their types, and only a thread that has not   *)
(* greeted its peer is at the start.                                        *)
LEMMA LocalsStep ==
  ASSUME WorkerTypeOK, ChokedAtFirst, [Next]_vars
  PROVE  WorkerTypeOK' /\ ChokedAtFirst'
<1> USE DEF WorkerTypeOK, ChokedAtFirst, Location, Goto
<1>1. CASE UNCHANGED vars
  BY <1>1 DEF vars, workerVars
<1>2. CASE Stop
  BY <1>2 DEF Stop
<1>3. ASSUME NEW w \in Worker,
             Greet(w) \/ Drop(w) \/ CheckLoop(w) \/ ReadOther(w) \/ Announce(w)
               \/ EndRequests(w)
      PROVE  WorkerTypeOK' /\ ChokedAtFirst'
  BY <1>3 DEF Greet, Drop, CheckLoop, ReadOther, Announce, EndRequests
<1>4. ASSUME NEW w \in Worker, ReadBitfield(w) \/ ReadHave(w)
      PROVE  WorkerTypeOK' /\ ChokedAtFirst'
  <2>1. PICK bf \in SUBSET Nat : peer_bf' = [peer_bf EXCEPT ![w] = bf]
    <3>1. CASE ReadBitfield(w)
      BY <3>1, PeerWorkerAssumption DEF ReadBitfield
    <3>2. CASE ReadHave(w)
      <4>1. PICK i \in HaveIndices :
              peer_bf' = [peer_bf EXCEPT ![w] = peer_bf[w] \cup {i}]
        BY <3>2 DEF ReadHave
      <4>2. peer_bf[w] \cup {i} \in SUBSET Nat
        BY PeerWorkerAssumption
      <4> QED BY <4>1, <4>2
    <3> QED BY <1>4, <3>1, <3>2
  <2>2. /\ pc' = [pc EXCEPT ![w] = "request"]
        /\ UNCHANGED <<peer_choking, requests_in_flight, stop_requested>>
    BY <1>4 DEF ReadBitfield, ReadHave, AfterHave
  <2> QED BY <2>1, <2>2
<1>5. ASSUME NEW w \in Worker, ReadUnchoke(w) \/ ReadChoke(w)
      PROVE  WorkerTypeOK' /\ ChokedAtFirst'
  <2>1. CASE ReadUnchoke(w)
    BY <2>1 DEF ReadUnchoke
  <2>2. CASE ReadChoke(w)
    BY <2>2, PeerWorkerAssumption DEF ReadChoke, InFlightAfterChoke
  <2> QED BY <1>5, <2>1, <2>2
<1>6. ASSUME NEW w \in Worker, NEW m \in PieceMessages, ReadPiece(w, m)
      PROVE  WorkerTypeOK' /\ ChokedAtFirst'
  <2>1. Decrement(requests_in_flight[w]) \in 0 .. PIPELINE_DEPTH
    BY PeerWorkerAssumption DEF Decrement
  <2>2. /\ requests_in_flight' =
             [requests_in_flight EXCEPT ![w] = Decrement(requests_in_flight[w])]
        /\ UNCHANGED <<peer_bf, peer_choking, stop_requested>>
    BY <1>6 DEF ReadPiece
  <2>3. PICK l \in {"announce", "done"} : pc' = [pc EXCEPT ![w] = l]
    BY <1>6 DEF ReadPiece, AfterWriteError
  <2> QED BY <2>1, <2>2, <2>3
<1>7. ASSUME NEW w \in Worker, SendRequest(w)
      PROVE  WorkerTypeOK' /\ ChokedAtFirst'
  BY <1>7, PeerWorkerAssumption DEF SendRequest, CanRequest
<1> QED BY <1>1, <1>2, <1>3, <1>4, <1>5, <1>6, <1>7 DEF Next

(* A thread that ends is one more. *)
LEMMA ThreadEnds ==
  ASSUME WorkerTypeOK, IsFiniteSet(Ended), NEW w \in Worker,
         pc[w] # "done", pc' = [pc EXCEPT ![w] = "done"]
  PROVE  /\ IsFiniteSet(Ended')
         /\ Cardinality(Ended) \in Nat /\ Cardinality(Ended') \in Nat
         /\ Cardinality(Ended') = Cardinality(Ended) + 1
<1>1. Cardinality(Ended) \in Nat
  BY FS_CardinalityType
<1>2. Ended' = Ended \cup {w} /\ w \notin Ended
  BY DEF Ended, WorkerTypeOK
<1> QED BY <1>1, <1>2, FS_AddElement

(* A step that gives nobody more work and lets a thread wait only if it     *)
(* waited before or has nothing to ask for.                                 *)
Quiet ==
  /\ StrandedPieces' \subseteq StrandedPieces
  /\ \A bf : Unfinished(bf)' \subseteq Unfinished(bf)
  /\ \A v \in Worker : Idle(v)' =>
       /\ peer_bf'[v] = peer_bf[v]
       /\ Idle(v) \/ Useful(peer_bf[v]) = {}

(* A write fails while thread w handles message m. *)
WriteFails(w, m) ==
  /\ pc[w] = "read" /\ pc' = [pc EXCEPT ![w] = "done"]
  /\ FailToFlush(m)
  /\ \A v \in Worker : Idle(v)' => peer_bf'[v] = peer_bf[v] /\ Idle(v)

(* Every step is of one of these kinds: in particular a thread waits after  *)
(* maybe_request only when next_request had nothing for its peer.           *)
LEMMA StepKinds ==
  ASSUME WorkerInv, [Next]_vars
  PROVE  Quiet \/ \E w \in Worker, m \in PieceMessages : WriteFails(w, m)
<1> USE DEF WorkerInv
<1>1. CASE UNCHANGED vars \/ Stop
  <2>1. UNCHANGED <<pmVars, pc, peer_bf, peer_choking, requests_in_flight>>
    BY <1>1 DEF vars, workerVars, Stop
  <2> QED BY <2>1 DEF Quiet, StrandedPieces, Unfinished, Idle, CanRequest, pmVars
<1>2. ASSUME UNCHANGED pmVars,
             \A v \in Worker : Idle(v)' =>
               /\ peer_bf'[v] = peer_bf[v]
               /\ Idle(v) \/ Useful(peer_bf[v]) = {}
      PROVE  Quiet
  BY <1>2 DEF Quiet, pmVars, StrandedPieces, Unfinished
<1>3. ASSUME NEW w \in Worker, Greet(w) \/ Drop(w) PROVE Quiet
  <2>1. UNCHANGED pmVars
    BY <1>3 DEF Greet, Drop
  <2>2. \A v \in Worker : Idle(v)' => peer_bf'[v] = peer_bf[v] /\ Idle(v)
    BY <1>3 DEF Greet, Drop, Goto, Idle, CanRequest, ChokedAtFirst, WorkerTypeOK
  <2> QED BY <1>2, <2>1, <2>2
<1>4. ASSUME NEW w \in Worker,
             CheckLoop(w) \/ ReadOther(w) \/ Announce(w) \/ SendRequest(w)
      PROVE  Quiet
  <2>1. UNCHANGED pmVars
    BY <1>4 DEF CheckLoop, ReadOther, Announce, SendRequest
  <2>2. \A v \in Worker : Idle(v)' => peer_bf'[v] = peer_bf[v] /\ Idle(v)
    BY <1>4 DEF CheckLoop, ReadOther, Announce, SendRequest, Goto, Idle,
                CanRequest, WorkerTypeOK
  <2> QED BY <1>2, <2>1, <2>2
<1>5. ASSUME NEW w \in Worker,
             ReadBitfield(w) \/ ReadHave(w) \/ ReadUnchoke(w) \/ ReadChoke(w)
      PROVE  Quiet
  <2>1. UNCHANGED pmVars
    BY <1>5 DEF ReadBitfield, ReadHave, ReadUnchoke, ReadChoke
  <2>2. \A v \in Worker : Idle(v)' => peer_bf'[v] = peer_bf[v] /\ Idle(v)
    BY <1>5 DEF ReadBitfield, ReadHave, AfterHave, ReadUnchoke, ReadChoke, Goto,
                Idle, CanRequest, WorkerTypeOK
  <2> QED BY <1>2, <2>1, <2>2
<1>6. ASSUME NEW w \in Worker, NEW m \in PieceMessages, ReadPiece(w, m)
      PROVE  Quiet \/ WriteFails(w, m)
  <2>1. /\ pc[w] = "read" /\ UNCHANGED <<peer_bf, peer_choking>>
        /\ requests_in_flight' =
             [requests_in_flight EXCEPT ![w] = Decrement(requests_in_flight[w])]
    BY <1>6 DEF ReadPiece
  <2>2. CASE FailToFlush(m) /\ pc' = [pc EXCEPT ![w] = "done"]
    <3>1. \A v \in Worker : Idle(v)' => peer_bf'[v] = peer_bf[v] /\ Idle(v)
      BY <2>1, <2>2 DEF Idle, CanRequest, WorkerTypeOK
    <3> QED BY <2>1, <2>2, <3>1 DEF WriteFails
  <2>3. CASE /\ IgnoreBlock(m) \/ KeepBlock(m) \/ ResetPiece(m) \/ FlushPiece(m)
             /\ pc' = [pc EXCEPT ![w] = "announce"]
    <3>1. \A v \in Worker : Idle(v)' => peer_bf'[v] = peer_bf[v] /\ Idle(v)
      BY <2>1, <2>3 DEF Idle, CanRequest, WorkerTypeOK
    <3>2. \A bf : Unfinished(bf)' \subseteq Unfinished(bf)
      BY <2>3, WorkStep
    <3> QED BY <2>3, <3>1, <3>2, WorkStep DEF Quiet
  <2> QED BY <1>6, <2>2, <2>3 DEF ReadPiece, AfterWriteError
<1>7. ASSUME NEW w \in Worker, EndRequests(w) PROVE Quiet
  <2>1. CanRequest(w) => Useful(peer_bf[w]) = {}
    BY <1>7, NothingToAsk DEF EndRequests
  <2>2. \A v \in Worker : Idle(v)' =>
          /\ peer_bf'[v] = peer_bf[v]
          /\ Idle(v) \/ Useful(peer_bf[v]) = {}
    BY <1>7, <2>1 DEF EndRequests, Goto, Idle, CanRequest, WorkerTypeOK
  <2> QED BY <1>2, <1>7, <2>2 DEF EndRequests
<1> QED BY <1>1, <1>3, <1>4, <1>5, <1>6, <1>7 DEF Next

(* Threads end one at a time and never come back. *)
LEMMA EndedStep ==
  ASSUME WorkerTypeOK, IsFiniteSet(Ended), [Next]_vars
  PROVE  /\ IsFiniteSet(Ended')
         /\ Cardinality(Ended) \in Nat /\ Cardinality(Ended') \in Nat
         /\ Cardinality(Ended) <= Cardinality(Ended')
<1>1. ASSUME Ended' = Ended
      PROVE  /\ IsFiniteSet(Ended')
             /\ Cardinality(Ended) \in Nat /\ Cardinality(Ended') \in Nat
             /\ Cardinality(Ended) <= Cardinality(Ended')
  BY <1>1, FS_CardinalityType
<1>2. ASSUME NEW w \in Worker, NEW l, pc[w] # "done", pc' = [pc EXCEPT ![w] = l]
      PROVE  /\ IsFiniteSet(Ended')
             /\ Cardinality(Ended) \in Nat /\ Cardinality(Ended') \in Nat
             /\ Cardinality(Ended) <= Cardinality(Ended')
  <2>1. CASE l = "done"
    <3>1. pc' = [pc EXCEPT ![w] = "done"]
      BY <1>2, <2>1
    <3>2. /\ IsFiniteSet(Ended')
          /\ Cardinality(Ended) \in Nat /\ Cardinality(Ended') \in Nat
          /\ Cardinality(Ended') = Cardinality(Ended) + 1
      BY <1>2, <3>1, ThreadEnds, Zenon
    <3> QED BY <3>2
  <2>2. CASE l # "done"
    <3>1. Ended' = Ended
      BY <1>2, <2>2 DEF Ended, WorkerTypeOK
    <3> QED BY <1>1, <3>1
  <2> QED BY <2>1, <2>2
<1>3. CASE UNCHANGED vars \/ Stop
  <2>1. Ended' = Ended
    BY <1>3 DEF vars, workerVars, Stop, Ended
  <2> QED BY <1>1, <2>1
<1>4. ASSUME NEW w \in Worker, SendRequest(w)
      PROVE  Ended' = Ended
  BY <1>4 DEF SendRequest, Ended
<1>5. ASSUME NEW w \in Worker, NEW from, NEW to, from # "done", Goto(w, from, to)
      PROVE  pc[w] # "done" /\ \E l : pc' = [pc EXCEPT ![w] = l]
  BY <1>5 DEF Goto
<1>6. ASSUME NEW w \in Worker,
             \/ Greet(w) \/ CheckLoop(w)
             \/ ReadOther(w) \/ ReadBitfield(w) \/ ReadHave(w)
             \/ ReadUnchoke(w) \/ ReadChoke(w)
             \/ Announce(w) \/ EndRequests(w)
      PROVE  pc[w] # "done" /\ \E l : pc' = [pc EXCEPT ![w] = l]
  BY <1>5, <1>6 DEF Greet, CheckLoop, ReadOther, ReadBitfield, ReadHave,
                    ReadUnchoke, ReadChoke, Announce, EndRequests
<1>7. ASSUME NEW w \in Worker, Drop(w)
      PROVE  pc[w] # "done" /\ \E l : pc' = [pc EXCEPT ![w] = l]
  BY <1>7 DEF Drop
<1>8. ASSUME NEW w \in Worker, NEW m \in PieceMessages, ReadPiece(w, m)
      PROVE  pc[w] # "done" /\ \E l : pc' = [pc EXCEPT ![w] = l]
  BY <1>8 DEF ReadPiece
<1> QED BY <1>1, <1>2, <1>3, <1>4, <1>6, <1>7, <1>8 DEF Next

(* A step that is quiet leaves what is paid for paid for. *)
LEMMA StillPaidFor ==
  ASSUME WorkerInv, [Next]_vars, Quiet
  PROVE  LostWorkIsPaidFor'
<1>0. /\ IsFiniteSet(Ended')
      /\ Cardinality(Ended) \in Nat /\ Cardinality(Ended') \in Nat
      /\ Cardinality(Ended) <= Cardinality(Ended')
  BY EndedStep DEF WorkerInv, LostWorkIsPaidFor
<1>1. /\ IsFiniteSet(StrandedPieces) /\ Cardinality(StrandedPieces) \in Nat
      /\ IsFiniteSet(StrandedPieces') /\ Cardinality(StrandedPieces') \in Nat
      /\ Cardinality(StrandedPieces') <= Cardinality(StrandedPieces)
  <2>1. IsFiniteSet(StrandedPieces) /\ StrandedPieces' \subseteq StrandedPieces
    BY FiniteWork DEF Quiet
  <2> QED BY <2>1, FS_Subset, FS_CardinalityType
<1>2. Cardinality(StrandedPieces') <= Cardinality(Ended')
  BY <1>0, <1>1 DEF WorkerInv, LostWorkIsPaidFor
<1>3. ASSUME NEW v \in Worker, Idle(v)'
      PROVE  Cardinality(Unfinished(peer_bf[v])') <= Cardinality(Ended')
  <2> DEFINE bf == peer_bf[v]
             U  == Unfinished(bf)
             W  == {i \in PieceIndex : status'[i] # "Complete"
                                       /\ (received'[i] = Blocks(i) \/ i \in bf)}
  <2>1. peer_bf'[v] = bf /\ (Idle(v) \/ Useful(bf) = {})
    BY <1>3 DEF Quiet
  <2>2. Unfinished(peer_bf[v])' = W
    BY <2>1 DEF Unfinished
  <2>3. W \subseteq U
    BY DEF Quiet, Unfinished
  <2>4. IsFiniteSet(U) /\ Cardinality(U) \in Nat
        /\ StrandedPieces \cup Useful(bf) = U
    BY FiniteWork
  <2>5. Cardinality(W) \in Nat /\ Cardinality(W) <= Cardinality(U)
    BY <2>3, <2>4, FS_Subset, FS_CardinalityType
  <2>6. Cardinality(U) <= Cardinality(Ended)
    <3>1. CASE Idle(v)
      BY <3>1 DEF WorkerInv, LostWorkIsPaidFor
    <3>2. CASE Useful(bf) = {}
      <4>1. U = StrandedPieces
        BY <2>4, <3>2
      <4> QED BY <4>1 DEF WorkerInv, LostWorkIsPaidFor
    <3> QED BY <2>1, <3>1, <3>2
  <2> QED BY <1>0, <2>2, <2>4, <2>5, <2>6
<1> QED BY <1>0, <1>2, <1>3 DEF LostWorkIsPaidFor

(* A set with at most one element more. *)
LEMMA OneMore ==
  ASSUME NEW S, IsFiniteSet(S), NEW x, NEW W, W \subseteq S \cup {x}
  PROVE  /\ Cardinality(S) \in Nat /\ Cardinality(W) \in Nat
         /\ Cardinality(W) <= Cardinality(S) + 1
<1>1. Cardinality(S) \in Nat
  BY FS_CardinalityType
<1>2. /\ IsFiniteSet(S \cup {x})
      /\ Cardinality(S \cup {x}) =
           IF x \in S THEN Cardinality(S) ELSE Cardinality(S) + 1
  BY FS_AddElement
<1>3. Cardinality(W) \in Nat /\ Cardinality(W) <= Cardinality(S \cup {x})
  BY <1>2, FS_Subset, FS_CardinalityType
<1> QED BY <1>1, <1>2, <1>3

(* What is paid for stays so: a failed write strands one piece and ends the *)
(* thread, and no other step adds to the work.                              *)
LEMMA PaidForStep ==
  ASSUME WorkerInv, [Next]_vars
  PROVE  LostWorkIsPaidFor'
<1> USE DEF WorkerInv
<1>1. CASE Quiet
  BY <1>1, StillPaidFor
<1>2. ASSUME NEW w \in Worker, NEW m \in PieceMessages, WriteFails(w, m)
      PROVE  LostWorkIsPaidFor'
  <2> DEFINE i == m.piece_index
  <2>1. /\ IsFiniteSet(Ended') /\ Cardinality(Ended) \in Nat
        /\ Cardinality(Ended') = Cardinality(Ended) + 1
    BY <1>2, ThreadEnds DEF WriteFails, LostWorkIsPaidFor
  <2>2. Cardinality(StrandedPieces') <= Cardinality(Ended')
    <3>1. IsFiniteSet(StrandedPieces) /\ Cardinality(StrandedPieces) \in Nat
      BY FiniteWork
    <3>2. StrandedPieces' \subseteq StrandedPieces \cup {i}
      BY <1>2, LostWork DEF WriteFails
    <3>3. /\ Cardinality(StrandedPieces') \in Nat
          /\ Cardinality(StrandedPieces') <= Cardinality(StrandedPieces) + 1
      BY <3>1, <3>2, OneMore
    <3> QED BY <2>1, <3>1, <3>3 DEF LostWorkIsPaidFor
  <2>3. ASSUME NEW v \in Worker, Idle(v)'
        PROVE  Cardinality(Unfinished(peer_bf[v])') <= Cardinality(Ended')
    <3> DEFINE bf == peer_bf[v]
               U  == Unfinished(bf)
               W  == {j \in PieceIndex : status'[j] # "Complete"
                                         /\ (received'[j] = Blocks(j) \/ j \in bf)}
    <3>1. peer_bf'[v] = bf /\ Idle(v)
      BY <1>2, <2>3 DEF WriteFails
    <3>2. Unfinished(peer_bf[v])' = W
      BY <3>1 DEF Unfinished
    <3>3. W \subseteq U \cup {i}
      BY <1>2, LostWork DEF WriteFails, Unfinished
    <3>4. IsFiniteSet(U) /\ Cardinality(U) \in Nat
      BY FiniteWork
    <3>5. /\ Cardinality(W) \in Nat
          /\ Cardinality(W) <= Cardinality(U) + 1
      <4> HIDE DEF U, W
      <4> QED BY <3>3, <3>4, OneMore
    <3>6. Cardinality(U) <= Cardinality(Ended)
      BY <3>1 DEF LostWorkIsPaidFor
    <3> QED BY <2>1, <3>2, <3>4, <3>5, <3>6
  <2> QED BY <2>1, <2>2, <2>3 DEF LostWorkIsPaidFor
<1> QED BY <1>1, <1>2, StepKinds

(* The threads start with nothing asked for and nothing lost.               *)
LEMMA WorkerInit == Init => WorkerInv
<1> SUFFICES ASSUME Init PROVE WorkerInv
  OBVIOUS
<1> USE DEF Init
<1>1. IInv
  BY InitInv
<1>2. WorkerTypeOK /\ ChokedAtFirst
  <2>1. PIPELINE_DEPTH \in Nat /\ 0 \in 0 .. PIPELINE_DEPTH
    BY PeerWorkerAssumption
  <2>2. requests_in_flight \in [Worker -> 0 .. PIPELINE_DEPTH]
    BY <2>1
  <2> QED BY <2>2 DEF WorkerTypeOK, ChokedAtFirst, Location
<1>3. Ended = {} /\ \A w \in Worker : ~ Idle(w)
  BY DEF Ended, Idle
<1>4. StrandedPieces = {}
  BY BlockGeometry DEF StrandedPieces, PMInit, Blocks
<1>5. LostWorkIsPaidFor
  BY <1>3, <1>4, FS_EmptySet DEF LostWorkIsPaidFor
<1> QED BY <1>1, <1>2, <1>5 DEF WorkerInv

(* The inductive invariant of the peer threads.                             *)
THEOREM WorkerInvariant == Spec => []WorkerInv
<1>1. Init => WorkerInv
  BY WorkerInit
<1>2. WorkerInv /\ [Next]_vars => WorkerInv'
  BY CallsOneAtATime, StepInv, LocalsStep, PaidForStep DEF WorkerInv
<1> QED BY <1>1, <1>2, PTL DEF Spec

-----------------------------------------------------------------------------

(* The locals of every thread keep their shape, and its count of requests   *)
(* in flight stays between zero and the pipeline's depth (peer_worker).      *)
THEOREM WorkerTypeCorrect == Spec => []WorkerTypeOK
<1>1. WorkerInv => WorkerTypeOK
  BY DEF WorkerInv
<1> QED BY <1>1, WorkerInvariant, PTL

(* However many threads share the piece manager, no more pieces are left    *)
(* with all their blocks and no verdict than threads ended by an error.     *)
THEOREM StrandedIsPaidFor == Spec => []StrandedCostsThread
<1>1. WorkerInv => StrandedCostsThread
  BY DEF WorkerInv, LostWorkIsPaidFor, StrandedCostsThread
<1> QED BY <1>1, WorkerInvariant, PTL

(* However many threads there are and however the disk fails, what a thread *)
(* that waits sleeps beside costs a thread that has ended for every piece.  *)
THEOREM IdleIsPaidFor == Spec => []IdleCostsThreads
<1>1. WorkerInv => IdleCostsThreads
  BY FiniteWork DEF WorkerInv, LostWorkIsPaidFor, IdleCostsThreads
<1> QED BY <1>1, WorkerInvariant, PTL

(* The threads use the piece manager as its own module says it is used, so  *)
(* all that is proved of the manager holds with any number of threads.      *)
THEOREM ThreadsShareManager == Spec => PMSpec
<1>1. Init => PMInit
  BY DEF Init
<1>2. [Next]_vars => [PMNext]_pmVars
  BY CallsOneAtATime
<1> QED BY <1>1, <1>2, PTL DEF Spec, PMSpec

(* In particular a finished download is right on disk, byte for byte, and   *)
(* no thread takes back what another verified.                              *)
THEOREM ThreadsDownload ==
  Spec => []CountersAgree /\ []VerifiedOnDisk /\ NoRegress /\ ImplementsDownload
BY ThreadsShareManager, CountersCorrect, VerifiedCorrect, NeverRegresses,
   Refinement, PTL


(* With a disk that never fails nobody sleeps beside work at all: no thread *)
(* waits for its peer, unchoked and with room in its pipeline, while        *)
(* next_request would give it a block to ask for.                           *)
THEOREM NobodySleepsBesideWork ==
  ASSUME WritesMayFail = FALSE
  PROVE  Spec => []IdleMeansNothingUseful
<1> DEFINE Rested == \A w \in Worker : Idle(w) => Useful(peer_bf[w]) = {}
<1>1. Init => Rested
  BY DEF Init, Idle
<1>2. NoStrandedPiece /\ NoStrandedPiece' /\ WorkerInv /\ [Next]_vars /\ Rested
        => Rested'
  <2> SUFFICES ASSUME NoStrandedPiece, NoStrandedPiece', WorkerInv, [Next]_vars,
                      Rested, NEW v \in Worker, Idle(v)'
               PROVE  Useful(peer_bf[v])' = {}
    OBVIOUS
  <2>1. Quiet
    BY StepKinds DEF WriteFails, FailToFlush
  <2>2. peer_bf'[v] = peer_bf[v] /\ Useful(peer_bf[v]) = {}
    BY <2>1 DEF Quiet
  <2>3. Unfinished(peer_bf[v]) = {}
    BY <2>2 DEF Unfinished, Useful, NoStrandedPiece
  <2>4. \A j \in PieceIndex : status'[j] # "Complete" => j \notin peer_bf[v]
    BY <2>1, <2>3 DEF Quiet, Unfinished
  <2> QED BY <2>2, <2>4 DEF Useful
<1>3. Rested => IdleMeansNothingUseful
  BY NothingUsefulNoRequest DEF IdleMeansNothingUseful
<1>4. PMSpec => []NoStrandedPiece
  BY NothingStranded
<1> HIDE DEF Rested
<1> QED BY <1>1, <1>2, <1>3, <1>4, WorkerInvariant, ThreadsShareManager, PTL DEF Spec

-----------------------------------------------------------------------------
(* Counting messages of one type in a channel *)

(* The places of the messages counted. *)
Places(seq, type) == {k \in DOMAIN seq : seq[k].type = type}

(* A channel is finite. *)
LEMMA CountType ==
  ASSUME NEW S, NEW seq \in Seq(S), NEW type
  PROVE  /\ IsFiniteSet(Places(seq, type))
         /\ Count(seq, type) = Cardinality(Places(seq, type))
         /\ Count(seq, type) \in Nat
<1>1. Len(seq) \in Nat /\ DOMAIN seq = 1 .. Len(seq)
  BY LenProperties
<1>2. IsFiniteSet(1 .. Len(seq))
  BY <1>1, FS_Interval
<1>3. IsFiniteSet(Places(seq, type))
  BY <1>1, <1>2, FS_Subset DEF Places
<1>4. Count(seq, type) = Cardinality(Places(seq, type))
  BY DEF Count, Places
<1> QED BY <1>3, <1>4, FS_CardinalityType

(* A channel has no message of a type exactly when none is counted. *)
LEMMA CountZero ==
  ASSUME NEW S, NEW seq \in Seq(S), NEW type
  PROVE  Count(seq, type) = 0 <=> \A k \in 1 .. Len(seq) : seq[k].type # type
<1>1. Count(seq, type) = 0 <=> Places(seq, type) = {}
  BY CountType, FS_EmptySet
<1>2. DOMAIN seq = 1 .. Len(seq)
  BY LenProperties
<1> QED BY <1>1, <1>2 DEF Places

(* A message that is sent counts as one. *)
LEMMA CountAppend ==
  ASSUME NEW S, NEW seq \in Seq(S), NEW e \in S, NEW type
  PROVE  Count(Append(seq, e), type) =
           IF e.type = type THEN Count(seq, type) + 1 ELSE Count(seq, type)
<1> DEFINE n == Len(seq)
           A == Append(seq, e)
<1>1. n \in Nat /\ DOMAIN seq = 1 .. n
  BY LenProperties
<1>2. /\ A \in Seq(S) /\ Len(A) = n + 1 /\ A[n + 1] = e
      /\ \A k \in 1 .. n : A[k] = seq[k]
  BY AppendProperties
<1>3. DOMAIN A = 1 .. n + 1
  BY <1>2, LenProperties
<1>4. n + 1 \notin Places(seq, type)
  BY <1>1 DEF Places
<1>5. Places(A, type) = IF e.type = type THEN Places(seq, type) \cup {n + 1}
                                         ELSE Places(seq, type)
  <2> HIDE DEF A
  <2>1. \A k \in 1 .. n + 1 : k \in 1 .. n \/ k = n + 1
    BY <1>1
  <2>2. \A k \in 1 .. n : k \in 1 .. n + 1 /\ k # n + 1
    BY <1>1
  <2>3. n + 1 \in 1 .. n + 1
    BY <1>1
  <2> HIDE DEF n
  <2> QED BY <1>1, <1>2, <1>3, <2>1, <2>2, <2>3 DEF Places
<1>6. /\ IsFiniteSet(Places(seq, type))
      /\ Count(seq, type) = Cardinality(Places(seq, type))
      /\ Count(A, type) = Cardinality(Places(A, type))
  BY <1>2, CountType
<1>7. Cardinality(Places(seq, type) \cup {n + 1}) = Cardinality(Places(seq, type)) + 1
  BY <1>4, <1>6, FS_AddElement
<1> QED BY <1>5, <1>6, <1>7

(* The message that is taken no longer counts. *)
LEMMA CountTail ==
  ASSUME NEW S, NEW seq \in Seq(S), seq # <<>>, NEW type
  PROVE  Count(seq, type) =
           IF Head(seq).type = type THEN Count(Tail(seq), type) + 1
                                    ELSE Count(Tail(seq), type)
<1> DEFINE n == Len(seq)
           T == Tail(seq)
           P == Places(T, type)
           Q == {k \in 2 .. n : seq[k].type = type}
<1>1. n \in Nat \ {0} /\ DOMAIN seq = 1 .. n
  BY LenProperties, EmptySeq
<1>2. T \in Seq(S) /\ Len(T) = n - 1 /\ \A k \in 1 .. n - 1 : T[k] = seq[k + 1]
  BY HeadTailProperties
<1>3. DOMAIN T = 1 .. n - 1
  BY <1>2, LenProperties
<1>4. IsFiniteSet(Q) /\ Cardinality(Q) = Cardinality(P)
  <2> DEFINE f == [k \in P |-> k + 1]
  <2>1. \A k \in P : k \in 1 .. n - 1 /\ seq[k + 1].type = type
    BY <1>2, <1>3 DEF Places
  <2>2. f \in [P -> Q]
    BY <1>1, <2>1
  <2>3. \A a, b \in P : f[a] = f[b] => a = b
    BY <1>1, <2>1
  <2>4. \A q \in Q : \E p \in P : f[p] = q
    <3> SUFFICES ASSUME NEW q \in Q PROVE \E p \in P : f[p] = q
      OBVIOUS
    <3>1. q - 1 \in 1 .. n - 1 /\ q = (q - 1) + 1
      BY <1>1
    <3>2. q - 1 \in P
      BY <3>1, <1>2, <1>3 DEF Places
    <3> QED BY <3>1, <3>2
  <2>5. f \in Bijection(P, Q)
    BY <2>2, <2>3, <2>4, Fun_IsBij
  <2>6. ExistsBijection(P, Q)
    BY <2>5 DEF ExistsBijection
  <2>7. IsFiniteSet(P)
    BY <1>2, CountType
  <2> QED BY <2>6, <2>7, FS_Bijection
<1>5. Head(seq) = seq[1]
  BY <1>1
<1>6. 1 \notin Q
  OBVIOUS
<1>7. Places(seq, type) = IF Head(seq).type = type THEN Q \cup {1} ELSE Q
  BY <1>1, <1>5 DEF Places
<1>8. Cardinality(Q \cup {1}) = Cardinality(Q) + 1
  BY <1>4, <1>6, FS_AddElement
<1>9. Count(seq, type) = Cardinality(Places(seq, type)) /\ Count(T, type) = Cardinality(P)
  BY <1>2, CountType
<1> HIDE DEF P, Q, T
<1> QED BY <1>4, <1>7, <1>8, <1>9 DEF T

(* An answered request is one request less. *)
LEMMA OneServed ==
  ASSUME NEW S, NEW seq \in Seq(S), NEW k \in 1 .. Len(seq)
  PROVE  RemoveAt(seq, k) \in Seq(S) /\ Len(RemoveAt(seq, k)) = Len(seq) - 1
<1> DEFINE n == Len(seq)
<1>1. n \in Nat /\ k \in Int /\ 1 <= k /\ k <= n /\ \A i \in 1 .. n : seq[i] \in S
  BY LenProperties, ElementOfSeq
<1>2. SubSeq(seq, 1, k - 1) \in Seq(S) /\ Len(SubSeq(seq, 1, k - 1)) = k - 1
  <2>1. \A i \in 1 .. k - 1 : i \in 1 .. n
    BY <1>1
  <2> QED BY <1>1, <2>1, SubSeqProperties
<1>3. SubSeq(seq, k + 1, n) \in Seq(S) /\ Len(SubSeq(seq, k + 1, n)) = n - k
  <2>1. \A i \in k + 1 .. n : i \in 1 .. n
    BY <1>1
  <2> QED BY <1>1, <2>1, SubSeqProperties
<1> DEFINE a == SubSeq(seq, 1, k - 1)
           b == SubSeq(seq, k + 1, n)
<1>4. a \o b \in Seq(S) /\ Len(a \o b) = Len(a) + Len(b)
  <2> HIDE DEF a, b
  <2> QED BY <1>2, <1>3, ConcatProperties DEF a, b
<1>5. RemoveAt(seq, k) = a \o b
  BY DEF RemoveAt
<1>6. Len(a) = k - 1 /\ Len(b) = n - k
  BY <1>2, <1>3
<1> HIDE DEF a, b
<1>7. Len(a \o b) = n - 1
  BY <1>1, <1>4, <1>6
<1> QED BY <1>4, <1>5, <1>7

-----------------------------------------------------------------------------

(* The messages of the two directions. *)
ToThread ==
  [type : {"Bitfield"}, pieces : SUBSET PieceIndex]
    \cup [type : {"Have"}, piece_index : PieceIndex]
    \cup [type : {"Choke", "Unchoke"}]
    \cup [type : {"Piece"}, block : PieceMessages]

ToPeer == [type : {"Interested"}] \cup [type : {"Request"}, request : Requests]

LinkTypeOK ==
  /\ inbox   \in [Worker -> Seq(ToThread)]
  /\ outbox  \in [Worker -> Seq(ToPeer)]
  /\ pending \in [Worker -> Seq(Requests)]
  /\ unchoking \in [Worker -> BOOLEAN]
  /\ chokes \in [Worker -> Nat]

(* next_request asks for a block of a piece of the torrent. *)
LEMMA RequestsNamed ==
  ASSUME NEW bf, NEW r \in next_request(bf)
  PROVE  r \in Requests
BY DEF next_request, Requests, Lowest, Useful

(* A remote peer's answer is a message receive_block knows about. *)
LEMMA AnswersKnown ==
  ASSUME NEW r \in Requests
  PROVE  RightAnswer(r) \in PieceMessages /\ WrongAnswer(r) \in PieceMessages
BY PeerLinkAssumption

(* What is on its way, at first and after a step.                           *)
LEMMA LinkTypeInit == LInit => LinkTypeOK
<1> SUFFICES ASSUME LInit PROVE LinkTypeOK
  OBVIOUS
<1> USE DEF LInit
<1>1. ASSUME NEW w \in Worker PROVE inbox[w] \in Seq(ToThread)
  <2>1. [type |-> "Bitfield", pieces |-> RemoteStart[w]] \in ToThread
    BY PeerLinkAssumption DEF ToThread
  <2> QED BY <2>1
<1>2. /\ <<>> \in Seq(ToPeer) /\ <<>> \in Seq(Requests)
  BY EmptySeq
<1> QED BY <1>1, <1>2 DEF LinkTypeOK

LEMMA LinkTypeStep ==
  ASSUME LinkTypeOK, [LNext]_lvars
  PROVE  LinkTypeOK'
<1> USE DEF LinkTypeOK
<1>1. CASE UNCHANGED lvars
  BY <1>1 DEF lvars, linkVars
<1>2. ASSUME NEW w \in Worker, LGreet(w) PROVE LinkTypeOK'
  <2>1. [type |-> "Interested"] \in ToPeer
    BY DEF ToPeer
  <2>2. Append(outbox[w], [type |-> "Interested"]) \in Seq(ToPeer)
    BY <2>1, AppendProperties
  <2> QED BY <1>2, <2>2 DEF LGreet, remoteVars
<1>3. ASSUME NEW w \in Worker, LRead(w) PROVE LinkTypeOK'
  <2>1. inbox[w] # <<>> /\ inbox' = [inbox EXCEPT ![w] = Tail(inbox[w])]
    BY <1>3 DEF LRead, Takes
  <2>2. Tail(inbox[w]) \in Seq(ToThread)
    BY <2>1, HeadTailProperties
  <2> QED BY <1>3, <2>1, <2>2 DEF LRead, remoteVars
<1>4. ASSUME NEW w \in Worker, LSendRequest(w) PROVE LinkTypeOK'
  <2>1. PICK r \in next_request(peer_bf[w]) :
          outbox' = [outbox EXCEPT ![w] =
                       Append(outbox[w], [type |-> "Request", request |-> r])]
    BY <1>4 DEF LSendRequest
  <2>2. [type |-> "Request", request |-> r] \in ToPeer
    BY RequestsNamed DEF ToPeer
  <2>3. Append(outbox[w], [type |-> "Request", request |-> r]) \in Seq(ToPeer)
    BY <2>2, AppendProperties
  <2> QED BY <1>4, <2>1, <2>3 DEF LSendRequest, remoteVars
<1>5. ASSUME NEW w \in Worker, LLocal(w) PROVE LinkTypeOK'
  BY <1>5 DEF LLocal, linkVars
<1>6. ASSUME NEW w \in Worker, NEW m \in ToThread, Sends(w, m)
      PROVE  inbox' \in [Worker -> Seq(ToThread)]
  <2>1. Append(inbox[w], m) \in Seq(ToThread)
    BY AppendProperties
  <2> QED BY <1>6, <2>1 DEF Sends
<1>7. ASSUME NEW w \in Worker, RemoteObtain(w) PROVE LinkTypeOK'
  <2>1. PICK i \in RemoteEnd[w] : Sends(w, [type |-> "Have", piece_index |-> i])
    BY <1>7 DEF RemoteObtain
  <2>2. [type |-> "Have", piece_index |-> i] \in ToThread
    BY PeerLinkAssumption DEF ToThread
  <2> QED BY <1>6, <1>7, <2>1, <2>2 DEF RemoteObtain
<1>8. ASSUME NEW w \in Worker, RemoteUnchoke(w) PROVE LinkTypeOK'
  <2>1. [type |-> "Unchoke"] \in ToThread
    BY DEF ToThread
  <2> QED BY <1>6, <1>8, <2>1 DEF RemoteUnchoke
<1>9. ASSUME NEW w \in Worker, RemoteChoke(w) PROVE LinkTypeOK'
  <2>1. [type |-> "Choke"] \in ToThread
    BY DEF ToThread
  <2>2. <<>> \in Seq(Requests)
    BY EmptySeq
  <2> QED BY <1>6, <1>9, <2>1, <2>2 DEF RemoteChoke
<1>10. ASSUME NEW w \in Worker, RemoteTake(w) PROVE LinkTypeOK'
  <2>1. /\ outbox[w] # <<>>
        /\ outbox' = [outbox EXCEPT ![w] = Tail(outbox[w])]
        /\ UNCHANGED <<inbox, unchoking, chokes>>
    BY <1>10 DEF RemoteTake
  <2>2. Head(outbox[w]) \in ToPeer /\ Tail(outbox[w]) \in Seq(ToPeer)
    BY <2>1, HeadTailProperties
  <2>3. pending' \in [Worker -> Seq(Requests)]
    <3>1. CASE Head(outbox[w]).type = "Request" /\ unchoking[w]
      <4>1. Head(outbox[w]).request \in Requests
        BY <2>2, <3>1 DEF ToPeer
      <4>2. Append(pending[w], Head(outbox[w]).request) \in Seq(Requests)
        BY <4>1, AppendProperties
      <4> QED BY <1>10, <3>1, <4>2 DEF RemoteTake
    <3>2. CASE ~ (Head(outbox[w]).type = "Request" /\ unchoking[w])
      BY <1>10, <3>2 DEF RemoteTake
    <3> QED BY <3>1, <3>2
  <2> QED BY <2>1, <2>2, <2>3
<1>11. ASSUME NEW w \in Worker, RemoteServe(w) PROVE LinkTypeOK'
  <2>1. PICK k \in 1 .. Len(pending[w]) :
          /\ pending' = [pending EXCEPT ![w] = RemoveAt(pending[w], k)]
          /\ \/ Sends(w, [type |-> "Piece", block |-> RightAnswer(pending[w][k])])
             \/ Sends(w, [type |-> "Piece", block |-> WrongAnswer(pending[w][k])])
    BY <1>11 DEF RemoteServe
  <2>2. pending[w][k] \in Requests
    BY ElementOfSeq
  <2>3. /\ [type |-> "Piece", block |-> RightAnswer(pending[w][k])] \in ToThread
        /\ [type |-> "Piece", block |-> WrongAnswer(pending[w][k])] \in ToThread
    BY <2>2, AnswersKnown DEF ToThread
  <2>4. RemoveAt(pending[w], k) \in Seq(Requests)
    BY OneServed
  <2> QED BY <1>6, <1>11, <2>1, <2>3, <2>4 DEF RemoteServe
<1> QED BY <1>1, <1>2, <1>3, <1>4, <1>5, <1>7, <1>8, <1>9, <1>10, <1>11
        DEF LNext, ThreadStep

(* A step of a link is a step of a thread that may meet any peer, or none.  *)
LEMMA LinkUsesThread ==
  ASSUME LinkTypeOK, [LNext]_lvars
  PROVE  [Next]_vars
<1>1. CASE UNCHANGED lvars
  BY <1>1 DEF lvars
<1>2. ASSUME NEW w \in Worker, LRead(w) PROVE Next
  <2>1. CASE ReadBitfield(w) \/ ReadHave(w) \/ ReadUnchoke(w) \/ ReadChoke(w)
    BY <2>1 DEF Next
  <2>2. CASE Takes(w, "Piece") /\ ReadPiece(w, Head(inbox[w]).block)
    <3>1. Head(inbox[w]) \in ToThread /\ Head(inbox[w]).type = "Piece"
      BY <2>2, HeadTailProperties DEF Takes, LinkTypeOK
    <3>2. Head(inbox[w]).block \in PieceMessages
      BY <3>1 DEF ToThread
    <3> QED BY <2>2, <3>2 DEF Next
  <2> QED BY <1>2, <2>1, <2>2 DEF LRead
<1>3. ASSUME NEW w \in Worker, LGreet(w) \/ LSendRequest(w) \/ LLocal(w) PROVE Next
  BY <1>3 DEF LGreet, LSendRequest, LLocal, Next
<1>4. ASSUME NEW w \in Worker,
             \/ RemoteObtain(w) \/ RemoteUnchoke(w) \/ RemoteChoke(w)
             \/ RemoteTake(w) \/ RemoteServe(w)
      PROVE  UNCHANGED vars
  BY <1>4 DEF RemoteObtain, RemoteUnchoke, RemoteChoke, RemoteTake, RemoteServe
<1> QED BY <1>1, <1>2, <1>3, <1>4 DEF LNext, ThreadStep

(* The links of honest peers are among the behaviours of the threads with   *)
(* peers that send anything: what is proved of the threads holds of them.   *)
THEOREM LinksAreThreads == LSpec => Spec
<1>1. LInit => Init
  BY DEF LInit
<1>2. LInit => LinkTypeOK
  BY LinkTypeInit
<1>3. LinkTypeOK /\ [LNext]_lvars => LinkTypeOK'
  BY LinkTypeStep
<1>4. LinkTypeOK /\ [LNext]_lvars => [Next]_vars
  BY LinkUsesThread
<1>5. LSpec => LInit /\ [][LNext]_lvars
  BY DEF LSpec
<1> QED BY <1>1, <1>2, <1>3, <1>4, <1>5, PTL DEF Spec

-----------------------------------------------------------------------------
(* What the thread has yet to learn: in the end it is choked, because it is *)
(* choked now and no Unchoke is on its way, or because a Choke is and no    *)
(* Unchoke follows that.                                                    *)
EndsChoked(seq, choked) ==
  \E k \in 0 .. Len(seq) :
    /\ IF k = 0 THEN choked ELSE seq[k].type = "Choke"
    /\ \A j \in k + 1 .. Len(seq) : seq[j].type # "Unchoke"

(* Nothing that is sent but an Unchoke changes that. *)
LEMMA EndsChokedSend ==
  ASSUME NEW S, NEW seq \in Seq(S), NEW e \in S, NEW c,
         e.type # "Unchoke", EndsChoked(seq, c) \/ e.type = "Choke"
  PROVE  EndsChoked(Append(seq, e), c)
<1> DEFINE n == Len(seq)
           A == Append(seq, e)
<1>1. /\ n \in Nat /\ Len(A) = n + 1 /\ A[n + 1] = e
      /\ \A i \in 1 .. n : A[i] = seq[i]
  BY LenProperties, AppendProperties
<1> HIDE DEF A
<1>2. CASE e.type = "Choke"
  <2>1. n + 1 \in 0 .. n + 1 /\ n + 1 # 0 /\ A[n + 1].type = "Choke"
    BY <1>1, <1>2
  <2>2. \A j \in (n + 1) + 1 .. n + 1 : A[j].type # "Unchoke"
    BY <1>1
  <2> QED BY <1>1, <2>1, <2>2 DEF EndsChoked, A
<1>3. CASE EndsChoked(seq, c)
  <2>1. PICK k \in 0 .. n :
          /\ IF k = 0 THEN c ELSE seq[k].type = "Choke"
          /\ \A j \in k + 1 .. n : seq[j].type # "Unchoke"
    BY <1>3 DEF EndsChoked
  <2>2. k \in 0 .. n + 1 /\ (k = 0 \/ A[k].type = seq[k].type)
    BY <1>1
  <2>3. \A j \in k + 1 .. n + 1 : j \in k + 1 .. n \/ j = n + 1
    BY <1>1
  <2>4. \A j \in k + 1 .. n : j \in 1 .. n
    BY <1>1
  <2>5. \A j \in k + 1 .. n + 1 : A[j].type # "Unchoke"
    BY <1>1, <2>1, <2>3, <2>4
  <2>6. IF k = 0 THEN c ELSE A[k].type = "Choke"
    BY <2>1, <2>2
  <2> QED BY <1>1, <2>2, <2>5, <2>6 DEF EndsChoked, A
<1> QED BY <1>2, <1>3

(* Neither does reading, as long as a Choke that is read is believed.       *)
LEMMA EndsChokedRead ==
  ASSUME NEW S, NEW seq \in Seq(S), seq # <<>>, NEW c, NEW d,
         EndsChoked(seq, c),
         Head(seq).type = "Choke" => d,
         Head(seq).type # "Choke" => Head(seq).type = "Unchoke" \/ (c => d)
  PROVE  EndsChoked(Tail(seq), d)
<1> DEFINE n == Len(seq)
           T == Tail(seq)
<1>1. n \in Nat \ {0} /\ Head(seq) = seq[1]
  BY LenProperties, EmptySeq
<1>2. Len(T) = n - 1 /\ \A i \in 1 .. n - 1 : T[i] = seq[i + 1]
  BY HeadTailProperties
<1> HIDE DEF T
<1>3. PICK k \in 0 .. n :
        /\ IF k = 0 THEN c ELSE seq[k].type = "Choke"
        /\ \A j \in k + 1 .. n : seq[j].type # "Unchoke"
  BY DEF EndsChoked
<1>4. CASE k = 0 \/ k = 1
  <2>1. d
    <3>1. CASE k = 1
      BY <1>1, <1>3, <3>1
    <3>2. CASE k = 0
      <4>1. seq[1].type # "Unchoke" /\ c
        BY <1>1, <1>3, <3>2
      <4> QED BY <1>1, <4>1
    <3> QED BY <1>4, <3>1, <3>2
  <2>2. \A j \in 1 .. n - 1 : T[j].type # "Unchoke"
    <3> SUFFICES ASSUME NEW j \in 1 .. n - 1 PROVE T[j].type # "Unchoke"
      OBVIOUS
    <3>1. j + 1 \in k + 1 .. n
      BY <1>1, <1>4
    <3> QED BY <1>2, <1>3, <3>1
  <2>3. 0 \in 0 .. n - 1 /\ \A j \in 0 + 1 .. n - 1 : j \in 1 .. n - 1
    BY <1>1
  <2> QED BY <1>2, <2>1, <2>2, <2>3 DEF EndsChoked, T
<1>5. CASE k # 0 /\ k # 1
  <2>1. k - 1 \in 0 .. n - 1 /\ k - 1 # 0 /\ k - 1 \in 1 .. n - 1
    BY <1>1, <1>5
  <2>2. T[k - 1].type = "Choke"
    <3>1. T[k - 1] = seq[(k - 1) + 1]
      BY <1>2, <2>1
    <3>2. (k - 1) + 1 = k
      OBVIOUS
    <3>3. seq[k].type = "Choke"
      BY <1>3, <1>5
    <3> QED BY <3>1, <3>2, <3>3
  <2>3. \A j \in (k - 1) + 1 .. n - 1 : T[j].type # "Unchoke"
    <3> SUFFICES ASSUME NEW j \in (k - 1) + 1 .. n - 1 PROVE T[j].type # "Unchoke"
      OBVIOUS
    <3>1. j + 1 \in k + 1 .. n /\ j \in 1 .. n - 1
      BY <1>1, <1>5
    <3> QED BY <1>2, <1>3, <3>1
  <2> QED BY <1>2, <2>1, <2>2, <2>3 DEF EndsChoked, T
<1> QED BY <1>4, <1>5

(* With no Choke on its way it is choked already. *)
LEMMA EndsChokedNow ==
  ASSUME NEW S, NEW seq \in Seq(S), NEW c,
         EndsChoked(seq, c), Count(seq, "Choke") = 0
  PROVE  c
<1>1. \A k \in 1 .. Len(seq) : seq[k].type # "Choke"
  BY CountZero
<1>2. Len(seq) \in Nat
  BY LenProperties
<1> QED BY <1>1, <1>2 DEF EndsChoked

-----------------------------------------------------------------------------
(* One connection                                                           *)

(* A choked thread counts nothing in flight; a peer that never choked has   *)
(* no Choke on its way; a peer that chokes us has told us or is about to;   *)
(* and then the slots of the pipeline are accounted for.                    *)
ConnectionInv(w) ==
  /\ peer_choking[w] => requests_in_flight[w] = 0
  /\ chokes[w] = 0 => Count(inbox[w], "Choke") = 0
  /\ ~ unchoking[w] => EndsChoked(inbox[w], peer_choking[w])
  /\ Count(inbox[w], "Choke") = 0 => requests_in_flight[w] <= Outstanding(w)
  /\ chokes[w] = 0 => requests_in_flight[w] = Outstanding(w)

LinkInv == WorkerTypeOK /\ LinkTypeOK /\ \A w \in Worker : ConnectionInv(w)

(* What ConnectionInv is about. *)
Untouched(w) ==
  /\ inbox'[w] = inbox[w] /\ outbox'[w] = outbox[w] /\ pending'[w] = pending[w]
  /\ unchoking'[w] = unchoking[w] /\ chokes'[w] = chokes[w]
  /\ peer_choking'[w] = peer_choking[w]
  /\ requests_in_flight'[w] = requests_in_flight[w]

LEMMA UntouchedInv ==
  ASSUME NEW w, ConnectionInv(w), Untouched(w)
  PROVE  ConnectionInv(w)'
BY DEF ConnectionInv, Untouched, Outstanding

(* The numbers of a connection. *)
LEMMA Numbers ==
  ASSUME LinkInv, NEW w \in Worker
  PROVE  /\ requests_in_flight[w] \in Nat /\ chokes[w] \in Nat
         /\ Len(pending[w]) \in Nat
         /\ Count(outbox[w], "Request") \in Nat
         /\ Count(inbox[w], "Piece") \in Nat
         /\ Count(inbox[w], "Choke") \in Nat
<1>1. inbox[w] \in Seq(ToThread) /\ outbox[w] \in Seq(ToPeer)
      /\ pending[w] \in Seq(Requests) /\ chokes[w] \in Nat
  BY DEF LinkInv, LinkTypeOK
<1>2. requests_in_flight[w] \in Nat
  BY PeerWorkerAssumption DEF LinkInv, WorkerTypeOK
<1> QED BY <1>1, <1>2, CountType, LenProperties

(* A message other than an Unchoke is sent to the thread, and at the remote *)
(* peer's side at most the requests taken change.                           *)
LEMMA SentInv ==
  ASSUME LinkInv, NEW w \in Worker, NEW m \in ToThread, Sends(w, m),
         UNCHANGED <<vars, outbox, unchoking, chokes>>,
         Len(pending'[w]) \in Nat,
         \/ m.type = "Have"  /\ Len(pending[w]) = Len(pending'[w])
         \/ m.type = "Piece" /\ Len(pending[w]) = Len(pending'[w]) + 1
  PROVE  ConnectionInv(w)'
<1>1. inbox[w] \in Seq(ToThread) /\ inbox'[w] = Append(inbox[w], m)
  BY DEF Sends, LinkInv, LinkTypeOK
<1>2. /\ outbox' = outbox /\ unchoking' = unchoking /\ chokes' = chokes
      /\ peer_choking' = peer_choking /\ requests_in_flight' = requests_in_flight
  BY DEF vars, workerVars
<1>3. /\ Count(inbox'[w], "Choke") = Count(inbox[w], "Choke")
      /\ m.type = "Have"  => Count(inbox'[w], "Piece") = Count(inbox[w], "Piece")
      /\ m.type = "Piece" => Count(inbox'[w], "Piece") = Count(inbox[w], "Piece") + 1
  BY <1>1, CountAppend
<1>4. EndsChoked(inbox[w], peer_choking[w]) => EndsChoked(inbox'[w], peer_choking[w])
  BY <1>1, EndsChokedSend
<1>5. Outstanding(w)' = Outstanding(w)
  <2>1. Outstanding(w)' =
          Count(outbox[w], "Request") + Len(pending'[w]) + Count(inbox'[w], "Piece")
    BY <1>2 DEF Outstanding
  <2>2. Outstanding(w) =
          Count(outbox[w], "Request") + Len(pending[w]) + Count(inbox[w], "Piece")
    BY DEF Outstanding
  <2>3. /\ Count(outbox[w], "Request") \in Nat /\ Len(pending[w]) \in Nat
        /\ Count(inbox[w], "Piece") \in Nat
    BY Numbers
  <2>4. CASE m.type = "Have" /\ Len(pending[w]) = Len(pending'[w])
    BY <2>1, <2>2, <2>4, <1>3
  <2>5. CASE m.type = "Piece" /\ Len(pending[w]) = Len(pending'[w]) + 1
    BY <2>1, <2>2, <2>3, <2>5, <1>3
  <2> QED BY <2>4, <2>5
<1> QED BY <1>2, <1>3, <1>4, <1>5 DEF LinkInv, ConnectionInv

(* The thread takes a message that is not a block and keeps its count.      *)
LEMMA TakenInv ==
  ASSUME LinkInv, NEW w \in Worker, inbox[w] # <<>>, inbox'[w] = Tail(inbox[w]),
         Head(inbox[w]).type \notin {"Choke", "Piece"},
         UNCHANGED <<outbox, pending, unchoking, chokes, requests_in_flight>>,
         \/ peer_choking'[w] = peer_choking[w]
         \/ Head(inbox[w]).type = "Unchoke" /\ ~ peer_choking'[w]
  PROVE  ConnectionInv(w)'
<1>1. inbox[w] \in Seq(ToThread)
  BY DEF LinkInv, LinkTypeOK
<1>2. /\ Count(inbox'[w], "Choke") = Count(inbox[w], "Choke")
      /\ Count(inbox'[w], "Piece") = Count(inbox[w], "Piece")
  BY <1>1, CountTail
<1>3. EndsChoked(inbox[w], peer_choking[w]) => EndsChoked(inbox'[w], peer_choking'[w])
  BY <1>1, EndsChokedRead
<1>4. Outstanding(w)' = Outstanding(w)
  BY <1>2 DEF Outstanding
<1> QED BY <1>2, <1>3, <1>4 DEF LinkInv, ConnectionInv

(* A Choke is read: whatever was on its way, nothing is counted any more.   *)
LEMMA ChokedInv ==
  ASSUME LinkInv, LinkTypeOK', NEW w \in Worker,
         inbox[w] # <<>>, inbox'[w] = Tail(inbox[w]),
         Head(inbox[w]).type = "Choke",
         UNCHANGED <<outbox, pending, unchoking, chokes>>,
         requests_in_flight'[w] = 0, peer_choking'[w]
  PROVE  ConnectionInv(w)'
<1>1. inbox[w] \in Seq(ToThread)
  BY DEF LinkInv, LinkTypeOK
<1>2. Count(inbox[w], "Choke") = Count(inbox'[w], "Choke") + 1
      /\ Count(inbox'[w], "Choke") \in Nat
  <2>1. Tail(inbox[w]) \in Seq(ToThread)
    BY <1>1, HeadTailProperties
  <2> QED BY <1>1, <2>1, CountTail, CountType
<1>3. EndsChoked(inbox[w], peer_choking[w]) => EndsChoked(inbox'[w], peer_choking'[w])
  BY <1>1, EndsChokedRead
<1>4. chokes[w] # 0
  BY <1>2 DEF LinkInv, ConnectionInv
<1>5. Outstanding(w)' \in Nat
  <2>1. /\ inbox'[w] \in Seq(ToThread) /\ outbox'[w] \in Seq(ToPeer)
        /\ pending'[w] \in Seq(Requests)
    BY DEF LinkTypeOK
  <2>2. /\ Count(outbox'[w], "Request") \in Nat /\ Len(pending'[w]) \in Nat
        /\ Count(inbox'[w], "Piece") \in Nat
    BY <2>1, CountType, LenProperties
  <2> QED BY <2>2 DEF Outstanding
<1>6. requests_in_flight'[w] <= Outstanding(w)'
  BY <1>5
<1>7. ~ unchoking'[w] => EndsChoked(inbox'[w], peer_choking'[w])
  BY <1>3, Zenon DEF LinkInv, ConnectionInv
<1>8. chokes'[w] # 0
  BY <1>4
<1> QED BY <1>6, <1>7, <1>8 DEF ConnectionInv

(* An answer is read: it is one less on its way and one less in the count,  *)
(* unless the count was reset before.                                       *)
LEMMA AnsweredInv ==
  ASSUME LinkInv, NEW w \in Worker, inbox[w] # <<>>, inbox'[w] = Tail(inbox[w]),
         Head(inbox[w]).type = "Piece",
         UNCHANGED <<outbox, pending, unchoking, chokes, peer_choking>>,
         requests_in_flight'[w] = Decrement(requests_in_flight[w])
  PROVE  ConnectionInv(w)'
<1>1. inbox[w] \in Seq(ToThread)
  BY DEF LinkInv, LinkTypeOK
<1>2. Tail(inbox[w]) \in Seq(ToThread)
  BY <1>1, HeadTailProperties
<1>3. /\ Count(inbox'[w], "Choke") = Count(inbox[w], "Choke")
      /\ Count(inbox[w], "Piece") = Count(inbox'[w], "Piece") + 1
      /\ Count(inbox'[w], "Piece") \in Nat
  BY <1>1, <1>2, CountTail, CountType
<1>4. EndsChoked(inbox[w], peer_choking[w]) => EndsChoked(inbox'[w], peer_choking[w])
  BY <1>1, EndsChokedRead
<1>5. Outstanding(w) = Outstanding(w)' + 1 /\ Outstanding(w)' \in Nat
  <2>1. Outstanding(w)' =
          Count(outbox[w], "Request") + Len(pending[w]) + Count(inbox'[w], "Piece")
    BY DEF Outstanding
  <2>2. Outstanding(w) =
          Count(outbox[w], "Request") + Len(pending[w]) + Count(inbox[w], "Piece")
    BY DEF Outstanding
  <2>3. Count(outbox[w], "Request") \in Nat /\ Len(pending[w]) \in Nat
    BY Numbers
  <2> QED BY <2>1, <2>2, <2>3, <1>3
<1>6. /\ requests_in_flight[w] = 0 => requests_in_flight'[w] = 0
      /\ requests_in_flight[w] # 0 =>
           requests_in_flight'[w] = requests_in_flight[w] - 1
  BY Numbers DEF Decrement
<1>7. requests_in_flight[w] \in Nat
  BY Numbers
<1> DEFINE O == Outstanding(w)
           P == Outstanding(w)'
<1>8. /\ requests_in_flight[w] <= O => requests_in_flight'[w] <= P
      /\ requests_in_flight[w] = O => requests_in_flight'[w] = P
  <2> HIDE DEF O, P
  <2> QED BY <1>5, <1>6, <1>7 DEF O, P
<1> QED BY <1>3, <1>4, <1>6, <1>8 DEF LinkInv, ConnectionInv

(* Every step of thread w keeps the invariant of its connection. *)
LEMMA ThreadStepInv ==
  ASSUME LinkInv, LinkTypeOK', NEW w \in Worker, ThreadStep(w)
  PROVE  ConnectionInv(w)'
<1>1. CASE LGreet(w)
  <2>1. /\ outbox[w] \in Seq(ToPeer) /\ [type |-> "Interested"] \in ToPeer
        /\ outbox'[w] = Append(outbox[w], [type |-> "Interested"])
    BY <1>1 DEF LGreet, LinkInv, LinkTypeOK, ToPeer
  <2>2. Count(outbox'[w], "Request") = Count(outbox[w], "Request")
    BY <2>1, CountAppend
  <2> QED BY <1>1, <2>2
          DEF LGreet, Greet, remoteVars, LinkInv, ConnectionInv, Outstanding
<1>2. CASE LRead(w)
  <2>1. /\ inbox[w] # <<>> /\ inbox'[w] = Tail(inbox[w])
        /\ UNCHANGED <<outbox, pending, unchoking, chokes>>
    BY <1>2 DEF LRead, Takes, remoteVars, LinkInv, LinkTypeOK
  <2>2. CASE Takes(w, "Bitfield") /\ ReadBitfield(w)
    BY <2>1, <2>2, TakenInv DEF Takes, ReadBitfield
  <2>3. CASE Takes(w, "Have") /\ ReadHave(w)
    BY <2>1, <2>3, TakenInv DEF Takes, ReadHave
  <2>4. CASE Takes(w, "Unchoke") /\ ReadUnchoke(w)
    <3>1. ~ peer_choking'[w] /\ UNCHANGED requests_in_flight
      BY <2>4 DEF ReadUnchoke, LinkInv, WorkerTypeOK
    <3> QED BY <2>1, <2>4, <3>1, TakenInv DEF Takes
  <2>5. CASE Takes(w, "Choke") /\ ReadChoke(w)
    <3>1. peer_choking'[w] /\ requests_in_flight'[w] = 0
      BY <2>5 DEF ReadChoke, InFlightAfterChoke, LinkInv, WorkerTypeOK
    <3> QED BY <2>1, <2>5, <3>1, ChokedInv DEF Takes
  <2>6. CASE Takes(w, "Piece") /\ ReadPiece(w, Head(inbox[w]).block)
    <3>1. /\ UNCHANGED peer_choking
          /\ requests_in_flight'[w] = Decrement(requests_in_flight[w])
      BY <2>6 DEF ReadPiece, LinkInv, WorkerTypeOK
    <3> QED BY <2>1, <2>6, <3>1, AnsweredInv DEF Takes
  <2> QED BY <1>2, <2>2, <2>3, <2>4, <2>5, <2>6 DEF LRead
<1>3. CASE LSendRequest(w)
  <2>1. PICK r \in next_request(peer_bf[w]) :
          outbox' = [outbox EXCEPT ![w] =
                       Append(outbox[w], [type |-> "Request", request |-> r])]
    BY <1>3 DEF LSendRequest
  <2>2. /\ outbox[w] \in Seq(ToPeer)
        /\ [type |-> "Request", request |-> r] \in ToPeer
        /\ outbox'[w] = Append(outbox[w], [type |-> "Request", request |-> r])
    BY <2>1, RequestsNamed DEF LinkInv, LinkTypeOK, ToPeer
  <2>3. Count(outbox'[w], "Request") = Count(outbox[w], "Request") + 1
    BY <2>2, CountAppend
  <2>4. /\ UNCHANGED <<inbox, pending, unchoking, chokes, peer_choking>>
        /\ requests_in_flight'[w] = requests_in_flight[w] + 1
        /\ ~ peer_choking[w]
    BY <1>3 DEF LSendRequest, SendRequest, CanRequest, remoteVars, LinkInv,
                WorkerTypeOK
  <2>5. Outstanding(w)' = Outstanding(w) + 1 /\ Outstanding(w) \in Nat
    <3>1. Outstanding(w)' =
            Count(outbox'[w], "Request") + Len(pending[w]) + Count(inbox[w], "Piece")
      BY <2>4 DEF Outstanding
    <3>2. Outstanding(w) =
            Count(outbox[w], "Request") + Len(pending[w]) + Count(inbox[w], "Piece")
      BY DEF Outstanding
    <3>3. /\ Count(outbox[w], "Request") \in Nat /\ Len(pending[w]) \in Nat
          /\ Count(inbox[w], "Piece") \in Nat
      BY Numbers
    <3> QED BY <2>3, <3>1, <3>2, <3>3
  <2>6. requests_in_flight[w] \in Nat
    BY Numbers
  <2> QED BY <2>4, <2>5, <2>6 DEF LinkInv, ConnectionInv
<1>4. CASE LLocal(w)
  <2>1. Untouched(w)
    BY <1>4 DEF LLocal, linkVars, CheckLoop, Announce, EndRequests, Untouched
  <2> QED BY <2>1, UntouchedInv DEF LinkInv
<1> QED BY <1>1, <1>2, <1>3, <1>4 DEF ThreadStep

(* So does every step of its remote peer.  A request that reaches a peer    *)
(* which chokes us is lost; then a Choke is still to be read, or the thread *)
(* has read it and counts nothing.                                          *)
LEMMA RemoteStepInv ==
  ASSUME LinkInv, NEW w \in Worker,
         \/ RemoteObtain(w) \/ RemoteUnchoke(w) \/ RemoteChoke(w)
         \/ RemoteTake(w) \/ RemoteServe(w)
  PROVE  ConnectionInv(w)'
<1>0. /\ inbox[w] \in Seq(ToThread) /\ outbox[w] \in Seq(ToPeer)
      /\ pending[w] \in Seq(Requests) /\ unchoking[w] \in BOOLEAN
  BY DEF LinkInv, LinkTypeOK
<1>1. CASE RemoteObtain(w)
  <2>1. PICK i \in RemoteEnd[w] : Sends(w, [type |-> "Have", piece_index |-> i])
    BY <1>1 DEF RemoteObtain
  <2>2. [type |-> "Have", piece_index |-> i] \in ToThread
    BY PeerLinkAssumption DEF ToThread
  <2>3. pending' = pending /\ UNCHANGED <<vars, outbox, unchoking, chokes>>
    BY <1>1 DEF RemoteObtain
  <2>4. Len(pending[w]) \in Nat
    BY Numbers
  <2> DEFINE m == [type |-> "Have", piece_index |-> i]
  <2>5. m \in ToThread /\ Sends(w, m) /\ m.type = "Have"
    BY <2>1, <2>2
  <2> HIDE DEF m
  <2> QED BY <2>3, <2>4, <2>5, SentInv
<1>2. CASE RemoteUnchoke(w)
  <2>1. /\ inbox'[w] = Append(inbox[w], [type |-> "Unchoke"])
        /\ [type |-> "Unchoke"] \in ToThread
        /\ unchoking'[w]
        /\ UNCHANGED <<outbox, pending, chokes, peer_choking, requests_in_flight>>
    BY <1>2 DEF RemoteUnchoke, Sends, vars, workerVars, ToThread, LinkInv, LinkTypeOK
  <2>2. /\ Count(inbox'[w], "Choke") = Count(inbox[w], "Choke")
        /\ Count(inbox'[w], "Piece") = Count(inbox[w], "Piece")
    BY <1>0, <2>1, CountAppend
  <2>3. Outstanding(w)' = Outstanding(w)
    BY <2>1, <2>2 DEF Outstanding
  <2> QED BY <2>1, <2>2, <2>3 DEF LinkInv, ConnectionInv
<1>3. CASE RemoteChoke(w)
  <2>1. /\ inbox'[w] = Append(inbox[w], [type |-> "Choke"])
        /\ [type |-> "Choke"] \in ToThread
        /\ chokes'[w] = chokes[w] + 1
        /\ UNCHANGED <<peer_choking, requests_in_flight>>
    BY <1>3 DEF RemoteChoke, Sends, vars, workerVars, ToThread, LinkInv, LinkTypeOK
  <2>2. Count(inbox'[w], "Choke") # 0 /\ chokes'[w] # 0
    <3>1. Count(inbox'[w], "Choke") = Count(inbox[w], "Choke") + 1
      BY <1>0, <2>1, CountAppend
    <3> QED BY <2>1, <3>1, Numbers
  <2>3. EndsChoked(inbox'[w], peer_choking[w])
    BY <1>0, <2>1, EndsChokedSend
  <2> QED BY <2>1, <2>2, <2>3 DEF LinkInv, ConnectionInv
<1>4. CASE RemoteTake(w)
  <2>1. /\ outbox[w] # <<>> /\ outbox'[w] = Tail(outbox[w])
        /\ UNCHANGED <<inbox, unchoking, chokes, peer_choking, requests_in_flight>>
    BY <1>4 DEF RemoteTake, vars, workerVars, LinkInv, LinkTypeOK
  <2>2. Head(outbox[w]) \in ToPeer /\ Tail(outbox[w]) \in Seq(ToPeer)
    BY <1>0, <2>1, HeadTailProperties
  <2>3. Count(outbox[w], "Request") =
          IF Head(outbox[w]).type = "Request" THEN Count(outbox'[w], "Request") + 1
                                              ELSE Count(outbox'[w], "Request")
    BY <1>0, <2>1, CountTail
  <2>4. /\ Outstanding(w)' =
             Count(outbox'[w], "Request") + Len(pending'[w]) + Count(inbox[w], "Piece")
        /\ Outstanding(w) =
             Count(outbox[w], "Request") + Len(pending[w]) + Count(inbox[w], "Piece")
        /\ Len(pending[w]) \in Nat /\ Count(inbox[w], "Piece") \in Nat
    BY <2>1, Numbers DEF Outstanding
  <2>5. Count(outbox'[w], "Request") \in Nat
    BY <2>1, <2>2, CountType
  <2>6. CASE Head(outbox[w]).type = "Request" /\ unchoking[w]
    <3>1. pending'[w] = Append(pending[w], Head(outbox[w]).request)
          /\ Head(outbox[w]).request \in Requests
      BY <1>4, <2>2, <2>6 DEF RemoteTake, ToPeer, LinkInv, LinkTypeOK
    <3>2. Len(pending'[w]) = Len(pending[w]) + 1
      BY <1>0, <3>1, AppendProperties
    <3>3. Outstanding(w)' = Outstanding(w)
      BY <2>3, <2>4, <2>5, <2>6, <3>2
    <3> QED BY <2>1, <3>3 DEF LinkInv, ConnectionInv
  <2>7. CASE Head(outbox[w]).type # "Request"
    <3>1. pending'[w] = pending[w]
      BY <1>4, <2>7 DEF RemoteTake
    <3>2. Outstanding(w)' = Outstanding(w)
      BY <2>3, <2>4, <2>7, <3>1
    <3> QED BY <2>1, <3>2 DEF LinkInv, ConnectionInv
  <2>8. CASE Head(outbox[w]).type = "Request" /\ ~ unchoking[w]
    <3>1. pending'[w] = pending[w]
      BY <1>4, <2>8 DEF RemoteTake
    <3>2. Outstanding(w) = Outstanding(w)' + 1 /\ Outstanding(w)' \in Nat
      BY <2>3, <2>4, <2>5, <2>8, <3>1
    <3>3. EndsChoked(inbox[w], peer_choking[w])
      BY <2>8 DEF LinkInv, ConnectionInv
    <3>4. Count(inbox[w], "Choke") = 0 => requests_in_flight[w] = 0
      BY <1>0, <3>3, EndsChokedNow DEF LinkInv, ConnectionInv
    <3>5. chokes[w] # 0
      BY <3>2, <3>4 DEF LinkInv, ConnectionInv
    <3> QED BY <2>1, <3>2, <3>3, <3>4, <3>5 DEF LinkInv, ConnectionInv
  <2> QED BY <2>6, <2>7, <2>8
<1>5. CASE RemoteServe(w)
  <2>1. PICK k \in 1 .. Len(pending[w]) :
          /\ pending' = [pending EXCEPT ![w] = RemoveAt(pending[w], k)]
          /\ \/ Sends(w, [type |-> "Piece", block |-> RightAnswer(pending[w][k])])
             \/ Sends(w, [type |-> "Piece", block |-> WrongAnswer(pending[w][k])])
    BY <1>5 DEF RemoteServe
  <2>2. pending[w][k] \in Requests
    BY <1>0, ElementOfSeq
  <2>3. PICK m \in ToThread : m.type = "Piece" /\ Sends(w, m)
    BY <2>1, <2>2, AnswersKnown DEF ToThread
  <2>4. pending'[w] = RemoveAt(pending[w], k)
    BY <2>1 DEF LinkInv, LinkTypeOK
  <2>5. Len(pending'[w]) = Len(pending[w]) - 1 /\ Len(pending[w]) \in Nat \ {0}
    <3>1. Len(RemoveAt(pending[w], k)) = Len(pending[w]) - 1
      BY <1>0, OneServed, Zenon
    <3>2. Len(pending[w]) \in Nat
      BY Numbers
    <3> QED BY <2>4, <3>1, <3>2
  <2>6. UNCHANGED <<vars, outbox, unchoking, chokes>>
    BY <1>5 DEF RemoteServe
  <2>7. Len(pending'[w]) \in Nat /\ Len(pending[w]) = Len(pending'[w]) + 1
    BY <2>5
  <2> QED BY <2>3, <2>6, <2>7, SentInv
<1> QED BY <1>1, <1>2, <1>3, <1>4, <1>5

(* A step of one connection leaves the others alone. *)
LEMMA OthersUntouched ==
  ASSUME LinkInv, NEW w \in Worker, NEW v \in Worker, v # w,
         \/ ThreadStep(w)
         \/ RemoteObtain(w) \/ RemoteUnchoke(w) \/ RemoteChoke(w)
         \/ RemoteTake(w) \/ RemoteServe(w)
  PROVE  Untouched(v)
<1> USE DEF LinkInv, LinkTypeOK, WorkerTypeOK, Untouched
<1>1. CASE LGreet(w)
  BY <1>1 DEF LGreet, Greet, remoteVars
<1>2. CASE LRead(w)
  <2>1. inbox'[v] = inbox[v] /\ UNCHANGED <<outbox, pending, unchoking, chokes>>
    BY <1>2 DEF LRead, Takes, remoteVars
  <2>2. /\ peer_choking'[v] = peer_choking[v]
        /\ requests_in_flight'[v] = requests_in_flight[v]
    BY <1>2 DEF LRead, ReadBitfield, ReadHave, ReadUnchoke, ReadChoke, ReadPiece
  <2> QED BY <2>1, <2>2
<1>3. CASE LSendRequest(w)
  BY <1>3 DEF LSendRequest, SendRequest, remoteVars
<1>4. CASE LLocal(w)
  BY <1>4 DEF LLocal, linkVars, CheckLoop, Announce, EndRequests
<1>5. CASE \/ RemoteObtain(w) \/ RemoteUnchoke(w) \/ RemoteChoke(w)
           \/ RemoteTake(w) \/ RemoteServe(w)
  BY <1>5 DEF RemoteObtain, RemoteUnchoke, RemoteChoke, RemoteTake, RemoteServe,
              Sends, vars, workerVars
<1> QED BY <1>1, <1>2, <1>3, <1>4, <1>5 DEF ThreadStep

(* The inductive invariant of the links.                                    *)
THEOREM LinkInvariant == LSpec => []LinkInv
<1>1. LInit => LinkInv
  <2> SUFFICES ASSUME LInit PROVE LinkInv
    OBVIOUS
  <2>1. WorkerInv /\ LinkTypeOK
    BY WorkerInit, LinkTypeInit DEF LInit
  <2>2. ASSUME NEW w \in Worker PROVE ConnectionInv(w)
    <3> DEFINE first == [type |-> "Bitfield", pieces |-> RemoteStart[w]]
    <3>1. /\ inbox[w] = <<first>> /\ outbox[w] = <<>> /\ pending[w] = <<>>
          /\ chokes[w] = 0 /\ peer_choking[w] /\ requests_in_flight[w] = 0
      BY DEF LInit, Init
    <3>2. inbox[w] \in Seq(ToThread) /\ outbox[w] \in Seq(ToPeer)
      BY <2>1 DEF LinkTypeOK
    <3>3. Len(inbox[w]) = 1 /\ Len(outbox[w]) = 0 /\ inbox[w][1].type = "Bitfield"
      BY <3>1
    <3>4. /\ Count(inbox[w], "Choke") = 0 /\ Count(inbox[w], "Piece") = 0
          /\ Count(outbox[w], "Request") = 0
      BY <3>2, <3>3, CountZero
    <3>5. Outstanding(w) = 0
      BY <3>1, <3>4 DEF Outstanding
    <3>6. EndsChoked(inbox[w], peer_choking[w])
      <4>1. 0 \in 0 .. Len(inbox[w])
        BY <3>3
      <4>2. \A j \in 0 + 1 .. Len(inbox[w]) : inbox[w][j].type # "Unchoke"
        BY <3>3
      <4> QED BY <3>1, <4>1, <4>2 DEF EndsChoked
    <3>7. requests_in_flight[w] = Outstanding(w) /\ requests_in_flight[w] <= Outstanding(w)
      BY <3>1, <3>5
    <3> QED BY <3>1, <3>4, <3>6, <3>7, Zenon DEF ConnectionInv
  <2> QED BY <2>1, <2>2 DEF LinkInv, WorkerInv
<1>2. LinkInv /\ WorkerTypeOK' /\ [LNext]_lvars => LinkInv'
  <2> SUFFICES ASSUME LinkInv, WorkerTypeOK', [LNext]_lvars PROVE LinkInv'
    OBVIOUS
  <2>1. LinkTypeOK'
    BY LinkTypeStep DEF LinkInv
  <2>2. ASSUME NEW v \in Worker PROVE ConnectionInv(v)'
    <3>1. CASE UNCHANGED lvars
      <4>1. Untouched(v)
        BY <3>1 DEF lvars, linkVars, vars, workerVars, Untouched
      <4> QED BY <4>1, UntouchedInv DEF LinkInv
    <3>2. ASSUME NEW w \in Worker,
                 \/ ThreadStep(w)
                 \/ RemoteObtain(w) \/ RemoteUnchoke(w) \/ RemoteChoke(w)
                 \/ RemoteTake(w) \/ RemoteServe(w)
          PROVE  ConnectionInv(v)'
      <4>1. CASE v = w
        BY <2>1, <3>2, <4>1, ThreadStepInv, RemoteStepInv
      <4>2. CASE v # w
        BY <3>2, <4>2, OthersUntouched, UntouchedInv DEF LinkInv
      <4> QED BY <4>1, <4>2
    <3> QED BY <3>1, <3>2 DEF LNext
  <2> QED BY <2>1, <2>2 DEF LinkInv
<1>3. LSpec => LInit /\ [][LNext]_lvars
  BY DEF LSpec
<1> QED BY <1>1, <1>2, <1>3, LinksAreThreads, WorkerTypeCorrect, PTL

(* No slot of a pipeline leaks, whatever number of connections there are,   *)
(* of chokes, of requests lost on their way and of corrupt blocks.          *)
THEOREM SlotsAccountedFor == LSpec => []NoLeakedSlot
<1>1. LinkInv => NoLeakedSlot
  BY DEF LinkInv, ConnectionInv, NoLeakedSlot
<1> QED BY <1>1, LinkInvariant, PTL

(* Between honest peers and a disk that never fails no thread sleeps beside *)
(* work, and no piece is left without a verdict.                            *)
THEOREM LinksNeverIdle ==
  ASSUME WritesMayFail = FALSE
  PROVE  LSpec => []IdleMeansNothingUseful /\ []NoStrandedPiece
<1>1. Spec => []IdleMeansNothingUseful
  BY NobodySleepsBesideWork
<1>2. PMSpec => []NoStrandedPiece
  BY NothingStranded
<1> QED BY <1>1, <1>2, LinksAreThreads, ThreadsShareManager, PTL
=============================================================================
