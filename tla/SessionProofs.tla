---------------------------- MODULE SessionProofs ----------------------------
(***************************************************************************)
(* Proofs about Session, for every pool limit and every number of          *)
(* addresses: how the threads of a download begin, what they know of each  *)
(* other, and in which order they may end.                                 *)
(***************************************************************************)
EXTENDS Session, FiniteSetTheorems, TLAPS

(* Threads inside peer_worker. *)
ActiveWorkers == {p \in Peer : InWorker(p)}

(* The two reasons why a download ends other than by an exception of start. *)
Over == complete \/ cancelled

(* The pool takes the addresses in order, each once. *)
SpawnedInOrder == \A p \in Peer : worker[p] # "none" => p <= peer_idx

BeforeTracker == {"begin", "reset", "announce", "tracker", "threw"}
BeforePool    == BeforeTracker \cup {"progress"}
AfterPool     == {"join", "signal", "join_aux", "leave", "returned"}
AfterWorkers  == AfterPool \ {"join"}
AfterThreads  == {"leave", "returned"}

(* Where start is tells which threads exist.  An exception of start leaves  *)
(* before any of them was created.                                          *)
ThreadsOfStart ==
  /\ start_pc \in BeforeTracker => tracker_pc = "none"
  /\ start_pc \in BeforePool    => progress_pc = "none" /\ peer_idx = 0
  /\ start_pc \in AfterWorkers  => WorkersJoined
  /\ start_pc \in AfterThreads  => tracker_pc = "ended" /\ progress_pc = "ended"
  /\ main_pc = "screen"         => StartEnded

(* stop_requested_ is also set by start itself, but only once the pool has  *)
(* seen the end: so whichever flag a thread leaves its loop by, the         *)
(* download is complete or the user has cancelled it.                       *)
EndIsKnown ==
  /\ stop_requested => Over
  /\ start_pc \in AfterPool => Over
  /\ tracker_pc \in {"final", "goodbye", "ended"} => Over
  /\ progress_pc \in {"final", "ended"} => Over
  /\ tracker_pc \in {"goodbye", "ended"} /\ ~cancelled =>
       final_event = "completed"
  /\ progress_pc = "ended" /\ ~cancelled => told_done

(* The screen is shown last and then nothing it says changes any more.      *)
ScreenIsLast == TruthfulScreen /\ (screen # "none" => main_pc = "screen")

SessionInv ==
  /\ SessionTypeOK
  /\ ActivePeersCounted
  /\ SpawnedInOrder
  /\ ThreadsOfStart
  /\ EndIsKnown
  /\ ScreenIsLast

-----------------------------------------------------------------------------
(* Facts about the state *)

(* The initial state. *)
LEMMA InitSession == Init => SessionInv
<1> SUFFICES ASSUME Init PROVE SessionInv
  OBVIOUS
<1>1. MaxListed \in Nat
  BY SessionAssumption
<1>2. SessionTypeOK
  <2>1. {cancelled, running, stop_requested, complete, told_done} \subseteq BOOLEAN
    BY Zenon DEF Init
  <2>2. /\ peer_count \in 0 .. MaxListed /\ peer_idx \in 0 .. peer_count
        /\ listed \in peer_count .. MaxListed /\ peers_active \in 0 .. MaxListed
    BY <1>1 DEF Init
  <2> QED BY <2>1, <2>2 DEF Init, SessionTypeOK
<1>3. ActivePeersCounted
  <2>1. {p \in Peer : InWorker(p)} = {}
    BY DEF Init, InWorker
  <2> QED BY <2>1, FS_EmptySet DEF Init, ActivePeersCounted
<1>4. SpawnedInOrder
  BY DEF Init, SpawnedInOrder
<1>5. ThreadsOfStart
  BY DEF Init, ThreadsOfStart, AfterWorkers, AfterPool, AfterThreads
<1>6. EndIsKnown
  BY DEF Init, EndIsKnown, AfterPool
<1>7. ScreenIsLast
  BY DEF Init, ScreenIsLast, TruthfulScreen
<1> QED BY <1>2, <1>3, <1>4, <1>5, <1>6, <1>7 DEF SessionInv

(* Threads of addresses are counted by the addresses, so never too many.    *)
LEMMA WorkersCounted ==
  ASSUME SessionInv
  PROVE  /\ IsFiniteSet(ActiveWorkers)
         /\ peers_active = Cardinality(ActiveWorkers)
         /\ Cardinality(ActiveWorkers) \in 0 .. MaxListed
<1>1. IsFiniteSet(Peer) /\ Cardinality(Peer) = MaxListed
  <2>1. MaxListed \in Nat
    BY SessionAssumption
  <2> QED BY <2>1, FS_Interval DEF Peer
<1>2. ActiveWorkers \subseteq Peer
  BY DEF ActiveWorkers
<1>3. /\ IsFiniteSet(ActiveWorkers)
      /\ Cardinality(ActiveWorkers) <= MaxListed
  BY <1>1, <1>2, FS_Subset
<1>4. peers_active = Cardinality(ActiveWorkers)
  BY DEF SessionInv, ActivePeersCounted, ActiveWorkers
<1> QED BY <1>3, <1>4, FS_CardinalityType, SessionAssumption

(* What a step leaves alone when it leaves the pool alone. *)
LEMMA PoolFrame ==
  ASSUME SessionInv, UNCHANGED <<peer_idx, peers_active, worker>>
  PROVE  ActivePeersCounted' /\ SpawnedInOrder'
<1>1. {p \in Peer : InWorker(p)}' = {p \in Peer : InWorker(p)}
  BY DEF InWorker
<1> QED BY <1>1 DEF SessionInv, ActivePeersCounted, SpawnedInOrder

-----------------------------------------------------------------------------
(* main *)

(* Steps of main.  When it shows a screen, start has ended: nothing that    *)
(* the screen was computed from changes any more.                           *)
LEMMA MainStep == ASSUME SessionInv, Main PROVE SessionInv'
<1> USE DEF mainVars, flagVars, poolVars, trackVars, progVars
<1>1. UNCHANGED <<start_pc, running, complete, peer_count, peer_idx,
                  peers_active, worker, tracker_pc, listed, final_event,
                  progress_pc, told_done>>
  BY DEF Main, MainPoll, MainNoCancel, MainCancel, MainJoin
<1>2. ActivePeersCounted' /\ SpawnedInOrder'
  BY <1>1, PoolFrame
<1>3. CASE MainPoll
  BY <1>1, <1>2, <1>3 DEF MainPoll, SessionInv, SessionTypeOK, ThreadsOfStart,
     EndIsKnown, ScreenIsLast, TruthfulScreen, Over, WorkersJoined, StartEnded
<1>4. CASE MainNoCancel
  BY <1>1, <1>2, <1>4 DEF MainNoCancel, SessionInv, SessionTypeOK, ThreadsOfStart,
     EndIsKnown, ScreenIsLast, TruthfulScreen, Over, WorkersJoined, StartEnded
<1>5. CASE MainCancel
  BY <1>1, <1>2, <1>5 DEF MainCancel, SessionInv, SessionTypeOK, ThreadsOfStart,
     EndIsKnown, ScreenIsLast, TruthfulScreen, Over, WorkersJoined, StartEnded
<1>6. CASE MainJoin
  BY <1>1, <1>2, <1>6 DEF MainJoin, FinalScreen, SessionInv, SessionTypeOK,
     ThreadsOfStart, EndIsKnown, ScreenIsLast, TruthfulScreen, Over, AfterPool,
     WorkersJoined, StartEnded
<1> QED BY <1>3, <1>4, <1>5, <1>6 DEF Main

-----------------------------------------------------------------------------
(* Session::start outside the pool *)

(* Steps of start that leave the pool alone.                                *)
LEMMA StartStep ==
  ASSUME SessionInv,
         \/ SetRunning \/ ResetStop \/ SpawnTracker \/ SpawnProgress
         \/ PoolCheck \/ PoolSleep \/ JoinWorkers
         \/ SignalThreads \/ JoinThreads \/ StartReturns
  PROVE  SessionInv'
<1> USE DEF mainVars, flagVars, poolVars, trackVars, progVars, StartGoto
<1>1. UNCHANGED <<main_pc, cancelled, screen, complete, peer_count, peer_idx,
                  peers_active, worker, listed, final_event, told_done>>
  BY DEF SetRunning, ResetStop, SpawnTracker, SpawnProgress, PoolCheck, PoolSleep,
     JoinWorkers, SignalThreads, JoinThreads, StartReturns
<1>2. ActivePeersCounted' /\ SpawnedInOrder'
  BY <1>1, PoolFrame
<1>3. CASE SetRunning
  BY <1>1, <1>2, <1>3 DEF SetRunning, BeforeTracker, BeforePool, AfterPool,
     AfterWorkers, AfterThreads, SessionInv, SessionTypeOK, ThreadsOfStart,
     EndIsKnown, ScreenIsLast, TruthfulScreen, Over, WorkersJoined, StartEnded
<1>4. CASE ResetStop
  BY <1>1, <1>2, <1>4 DEF ResetStop, BeforeTracker, BeforePool, AfterPool,
     AfterWorkers, AfterThreads, SessionInv, SessionTypeOK, ThreadsOfStart,
     EndIsKnown, ScreenIsLast, TruthfulScreen, Over, WorkersJoined, StartEnded
<1>5. CASE SpawnTracker
  BY <1>1, <1>2, <1>5 DEF SpawnTracker, BeforeTracker, BeforePool, AfterPool,
     AfterWorkers, AfterThreads, SessionInv, SessionTypeOK, ThreadsOfStart,
     EndIsKnown, ScreenIsLast, TruthfulScreen, Over, WorkersJoined, StartEnded
<1>6. CASE SpawnProgress
  BY <1>1, <1>2, <1>6 DEF SpawnProgress, BeforeTracker, BeforePool, AfterPool,
     AfterWorkers, AfterThreads, SessionInv, SessionTypeOK, ThreadsOfStart,
     EndIsKnown, ScreenIsLast, TruthfulScreen, Over, WorkersJoined, StartEnded
<1>7. CASE PoolCheck
  BY <1>1, <1>2, <1>7 DEF PoolCheck, BeforeTracker, BeforePool, AfterPool,
     AfterWorkers, AfterThreads, SessionInv, SessionTypeOK, ThreadsOfStart,
     EndIsKnown, ScreenIsLast, TruthfulScreen, Over, WorkersJoined, StartEnded
<1>8. CASE PoolSleep
  BY <1>1, <1>2, <1>8 DEF PoolSleep, BeforeTracker, BeforePool, AfterPool,
     AfterWorkers, AfterThreads, SessionInv, SessionTypeOK, ThreadsOfStart,
     EndIsKnown, ScreenIsLast, TruthfulScreen, Over, WorkersJoined, StartEnded
<1>9. CASE JoinWorkers
  BY <1>1, <1>2, <1>9 DEF JoinWorkers, BeforeTracker, BeforePool, AfterPool,
     AfterWorkers, AfterThreads, SessionInv, SessionTypeOK, ThreadsOfStart,
     EndIsKnown, ScreenIsLast, TruthfulScreen, Over, WorkersJoined, StartEnded
<1>10. CASE SignalThreads
  BY <1>1, <1>2, <1>10 DEF SignalThreads, BeforeTracker, BeforePool, AfterPool,
     AfterWorkers, AfterThreads, SessionInv, SessionTypeOK, ThreadsOfStart,
     EndIsKnown, ScreenIsLast, TruthfulScreen, Over, WorkersJoined, StartEnded
<1>11. CASE JoinThreads
  BY <1>1, <1>2, <1>11 DEF JoinThreads, BeforeTracker, BeforePool, AfterPool,
     AfterWorkers, AfterThreads, SessionInv, SessionTypeOK, ThreadsOfStart,
     EndIsKnown, ScreenIsLast, TruthfulScreen, Over, WorkersJoined, StartEnded
<1>12. CASE StartReturns
  <2>1. {cancelled, running, stop_requested, complete, told_done}' \subseteq BOOLEAN
    BY <1>12, Zenon DEF StartReturns, SessionInv, SessionTypeOK
  <2> QED BY <1>1, <1>2, <1>12, <2>1 DEF StartReturns, BeforeTracker, BeforePool,
     AfterPool, AfterWorkers, AfterThreads, SessionInv, SessionTypeOK,
     ThreadsOfStart, EndIsKnown, ScreenIsLast, TruthfulScreen, Over,
     WorkersJoined, StartEnded
<1> QED BY <1>3, <1>4, <1>5, <1>6, <1>7, <1>8, <1>9, <1>10, <1>11, <1>12

(* The first announce, whichever way it ends.                               *)
LEMMA FirstAnnounceStep ==
  ASSUME SessionInv, FirstAnnounce \/ FirstAnnounceFails
  PROVE  SessionInv'
<1> USE DEF mainVars, flagVars, poolVars, trackVars, progVars, StartGoto
<1>1. UNCHANGED <<main_pc, cancelled, screen, running, stop_requested, complete,
                  peer_idx, peers_active, worker, tracker_pc, final_event,
                  progress_pc, told_done>>
  BY DEF FirstAnnounce, FirstAnnounceFails
<1>2. ActivePeersCounted' /\ SpawnedInOrder'
  BY <1>1, PoolFrame
<1>3. CASE FirstAnnounce
  BY <1>1, <1>2, <1>3 DEF FirstAnnounce, BeforeTracker, BeforePool, AfterPool,
     AfterWorkers, AfterThreads, SessionInv, SessionTypeOK, ThreadsOfStart,
     EndIsKnown, ScreenIsLast, TruthfulScreen, Over, WorkersJoined, StartEnded
<1>4. CASE FirstAnnounceFails
  BY <1>1, <1>2, <1>4 DEF FirstAnnounceFails, BeforeTracker, BeforePool,
     AfterPool, AfterWorkers, AfterThreads, SessionInv, SessionTypeOK,
     ThreadsOfStart, EndIsKnown, ScreenIsLast, TruthfulScreen, Over,
     WorkersJoined, StartEnded
<1> QED BY <1>3, <1>4

-----------------------------------------------------------------------------
(* tracker_thread and progress_thread *)

(* Steps of the tracker thread: its final event tells how the download      *)
(* ended, whichever flag made it leave its loop.                            *)
LEMMA TrackerStep ==
  ASSUME SessionInv,
         Tracker \/ TrackerAnnounced \/ TrackerFails \/ TrackerEnds
  PROVE  SessionInv'
<1> USE DEF mainVars, flagVars, poolVars, trackVars, progVars, TrackerGoto
<1>1. UNCHANGED <<main_pc, cancelled, screen, start_pc, running, stop_requested,
                  complete, peer_count, peer_idx, peers_active, worker,
                  progress_pc, told_done>>
  BY DEF Tracker, TrackerLoop, TrackerWakes, TrackerFinal, TrackerLastAnnounce,
     TrackerAnnounced, TrackerFails, TrackerEnds
<1>2. ActivePeersCounted' /\ SpawnedInOrder'
  BY <1>1, PoolFrame
<1>3. CASE TrackerLoop
  BY <1>1, <1>2, <1>3 DEF TrackerLoop, FinalEvent, AfterThreads, SessionInv,
     SessionTypeOK, ThreadsOfStart, EndIsKnown, ScreenIsLast, TruthfulScreen,
     Over, WorkersJoined, StartEnded
<1>4. CASE TrackerAnnounced
  BY <1>1, <1>2, <1>4 DEF TrackerAnnounced, FinalEvent, AfterThreads, SessionInv,
     SessionTypeOK, ThreadsOfStart, EndIsKnown, ScreenIsLast, TruthfulScreen,
     Over, WorkersJoined, StartEnded
<1>5. CASE TrackerFails
  BY <1>1, <1>2, <1>5 DEF TrackerFails, FinalEvent, AfterThreads, SessionInv,
     SessionTypeOK, ThreadsOfStart, EndIsKnown, ScreenIsLast, TruthfulScreen,
     Over, WorkersJoined, StartEnded
<1>6. CASE TrackerWakes
  BY <1>1, <1>2, <1>6 DEF TrackerWakes, FinalEvent, AfterThreads, SessionInv,
     SessionTypeOK, ThreadsOfStart, EndIsKnown, ScreenIsLast, TruthfulScreen,
     Over, WorkersJoined, StartEnded
<1>7. CASE TrackerFinal
  BY <1>1, <1>2, <1>7 DEF TrackerFinal, FinalEvent, AfterThreads, SessionInv,
     SessionTypeOK, ThreadsOfStart, EndIsKnown, ScreenIsLast, TruthfulScreen,
     Over, WorkersJoined, StartEnded
<1>8. CASE TrackerLastAnnounce
  BY <1>1, <1>2, <1>8 DEF TrackerLastAnnounce, FinalEvent, AfterThreads,
     SessionInv, SessionTypeOK, ThreadsOfStart, EndIsKnown, ScreenIsLast,
     TruthfulScreen, Over, WorkersJoined, StartEnded
<1>9. CASE TrackerEnds
  BY <1>1, <1>2, <1>9 DEF TrackerEnds, FinalEvent, AfterThreads, SessionInv,
     SessionTypeOK, ThreadsOfStart, EndIsKnown, ScreenIsLast, TruthfulScreen,
     Over, WorkersJoined, StartEnded
<1> QED BY <1>3, <1>4, <1>5, <1>6, <1>7, <1>8, <1>9 DEF Tracker

(* Steps of the progress thread: it leaves its loop only at the end, and    *)
(* tells the user of a complete download before it ends.                    *)
LEMMA ProgressStep == ASSUME SessionInv, Progress PROVE SessionInv'
<1> USE DEF mainVars, flagVars, poolVars, trackVars, progVars, ProgressGoto
<1>1. UNCHANGED <<main_pc, cancelled, screen, start_pc, running, stop_requested,
                  complete, peer_count, peer_idx, peers_active, worker,
                  tracker_pc, listed, final_event>>
  BY DEF Progress, ProgressLoop, ProgressReports, ProgressFinal
<1>2. ActivePeersCounted' /\ SpawnedInOrder'
  BY <1>1, PoolFrame
<1>3. CASE ProgressLoop
  BY <1>1, <1>2, <1>3 DEF ProgressLoop, AfterThreads, SessionInv, SessionTypeOK,
     ThreadsOfStart, EndIsKnown, ScreenIsLast, TruthfulScreen, Over,
     WorkersJoined, StartEnded
<1>4. CASE ProgressReports
  BY <1>1, <1>2, <1>4 DEF ProgressReports, AfterThreads, SessionInv,
     SessionTypeOK, ThreadsOfStart, EndIsKnown, ScreenIsLast, TruthfulScreen,
     Over, WorkersJoined, StartEnded
<1>5. CASE ProgressFinal
  BY <1>1, <1>2, <1>5 DEF ProgressFinal, AfterThreads, SessionInv, SessionTypeOK,
     ThreadsOfStart, EndIsKnown, ScreenIsLast, TruthfulScreen, Over,
     WorkersJoined, StartEnded
<1> QED BY <1>3, <1>4, <1>5 DEF Progress

-----------------------------------------------------------------------------
(* The pool and the threads of peer_worker *)

(* The next address has no thread yet, and gets one that is not counted     *)
(* before it enters peer_worker.                                            *)
LEMMA SpawnStep == ASSUME SessionInv, SpawnWorker PROVE SessionInv'
<1> DEFINE p == peer_idx + 1
<1> USE DEF mainVars, flagVars, trackVars, progVars
<1>1. p \in Peer /\ peer_idx \in Nat /\ p \in 1 .. peer_count
  BY SessionAssumption DEF SpawnWorker, HasRoom, SessionInv, SessionTypeOK, Peer
<1>2. worker[p] = "none"
  BY <1>1 DEF SessionInv, SpawnedInOrder
<1>3. /\ worker' = [worker EXCEPT ![p] = "created"] /\ peer_idx' = p
      /\ worker' \in [Peer -> {"none", "created", "greet", "check", "recv",
                               "exited"}]
  BY <1>1 DEF SpawnWorker, SessionInv, SessionTypeOK
<1>4. UNCHANGED <<main_pc, cancelled, screen, start_pc, running, stop_requested,
                  complete, peer_count, peers_active, tracker_pc, listed,
                  final_event, progress_pc, told_done>>
  BY DEF SpawnWorker
<1>5. SessionTypeOK'
  BY <1>1, <1>3, <1>4 DEF SessionInv, SessionTypeOK
<1>6. ActivePeersCounted'
  <2>1. {q \in Peer : InWorker(q)}' = {q \in Peer : InWorker(q)}
    BY <1>1, <1>2, <1>3 DEF InWorker, SessionInv, SessionTypeOK
  <2> QED BY <2>1, <1>4 DEF SessionInv, ActivePeersCounted
<1>7. SpawnedInOrder'
  <2> SUFFICES ASSUME NEW q \in Peer, worker'[q] # "none" PROVE q <= peer_idx'
    BY DEF SpawnedInOrder
  <2>1. CASE q = p
    BY <2>1, <1>1, <1>3
  <2>2. CASE q # p
    <3>1. q <= peer_idx
      BY <2>2, <1>3 DEF SessionInv, SessionTypeOK, SpawnedInOrder
    <3> QED BY <3>1, <1>1, <1>3 DEF Peer
  <2> QED BY <2>1, <2>2
<1>8. ThreadsOfStart'
  BY <1>4 DEF SpawnWorker, SessionInv, ThreadsOfStart, BeforeTracker, BeforePool,
     AfterPool, AfterWorkers, AfterThreads, StartEnded
<1>9. EndIsKnown' /\ ScreenIsLast'
  BY <1>4 DEF SessionInv, EndIsKnown, Over, ScreenIsLast, TruthfulScreen
<1> QED BY <1>5, <1>6, <1>7, <1>8, <1>9 DEF SessionInv

(* A thread that is not over keeps start in the pool, before it joins.      *)
LEMMA LiveWorker ==
  ASSUME SessionInv, NEW p \in Peer, worker[p] \notin {"none", "exited"}
  PROVE  /\ start_pc \in {"pool", "spawn", "join"}
         /\ main_pc # "screen" /\ screen = "none"
<1>1. peer_idx # 0
  BY SessionAssumption DEF SessionInv, SessionTypeOK, SpawnedInOrder, Peer
<1>2. start_pc \notin BeforePool
  BY <1>1 DEF SessionInv, ThreadsOfStart
<1>3. start_pc \notin AfterWorkers
  BY DEF SessionInv, ThreadsOfStart, WorkersJoined
<1>4. start_pc \in {"pool", "spawn", "join"}
  BY <1>2, <1>3
     DEF SessionInv, SessionTypeOK, BeforePool, BeforeTracker, AfterWorkers, AfterPool
<1> QED BY <1>4 DEF SessionInv, ThreadsOfStart, StartEnded, ScreenIsLast

(* One thread moves: what that does to the set of those inside.             *)
LEMMA OneMoves ==
  ASSUME SessionInv, NEW p \in Peer,
         NEW to \in {"greet", "check", "recv", "exited"},
         worker' = [worker EXCEPT ![p] = to]
  PROVE  ActiveWorkers' = IF to = "exited" THEN ActiveWorkers \ {p}
                                           ELSE ActiveWorkers \cup {p}
<1>1. \A q \in Peer : worker'[q] = IF q = p THEN to ELSE worker[q]
  BY DEF SessionInv, SessionTypeOK
<1> QED BY <1>1 DEF ActiveWorkers, InWorker

(* What the steps of peer_worker share: a thread enters, moves on or ends,  *)
(* and the counter changes with the set of the threads inside.              *)
LEMMA WorkerMoves ==
  ASSUME SessionInv, NEW p \in Peer, worker[p] \notin {"none", "exited"},
         NEW to \in {"greet", "check", "recv", "exited"},
         worker' = [worker EXCEPT ![p] = to],
         complete' \in {complete, TRUE},
         peers_active' = IF to = "exited" THEN peers_active - 1
                         ELSE IF worker[p] = "created" THEN peers_active + 1
                         ELSE peers_active,
         to = "exited" => worker[p] # "created",
         UNCHANGED <<main_pc, cancelled, screen, start_pc, running, stop_requested,
                     peer_count, peer_idx, tracker_pc, listed, final_event,
                     progress_pc, told_done>>
  PROVE  SessionInv'
<1>1. /\ worker \in [Peer -> {"none", "created", "greet", "check", "recv", "exited"}]
      /\ worker' \in [Peer -> {"none", "created", "greet", "check", "recv", "exited"}]
  BY DEF SessionInv, SessionTypeOK
<1>2. /\ IsFiniteSet(ActiveWorkers) /\ Cardinality(ActiveWorkers) \in Nat
      /\ peers_active = Cardinality(ActiveWorkers)
  BY WorkersCounted, FS_CardinalityType
<1>3. peers_active' = Cardinality(ActiveWorkers')
  <2>1. p \in ActiveWorkers <=> worker[p] # "created"
    BY <1>1 DEF ActiveWorkers, InWorker
  <2>2. CASE to = "exited"
    <3>1. ActiveWorkers' = ActiveWorkers \ {p}
      BY <2>2, OneMoves
    <3> QED BY <3>1, <2>1, <2>2, <1>2, FS_RemoveElement
  <2>3. CASE to # "exited"
    <3>1. ActiveWorkers' = ActiveWorkers \cup {p}
      BY <2>3, OneMoves
    <3> QED BY <3>1, <2>1, <2>3, <1>2, FS_AddElement
  <2> QED BY <2>2, <2>3
<1>4. ActivePeersCounted'
  BY <1>3 DEF ActivePeersCounted, ActiveWorkers
<1>5. peers_active' \in 0 .. MaxListed
  <2>1. IsFiniteSet(Peer) /\ Cardinality(Peer) = MaxListed
    BY FS_Interval, SessionAssumption DEF Peer
  <2>2. ActiveWorkers' \subseteq Peer
    BY DEF ActiveWorkers
  <2>3. /\ IsFiniteSet(ActiveWorkers')
        /\ Cardinality(ActiveWorkers') <= MaxListed
    BY <2>1, <2>2, FS_Subset
  <2>4. Cardinality(ActiveWorkers') \in Nat
    BY <2>3, FS_CardinalityType
  <2> QED BY <1>3, <2>3, <2>4, SessionAssumption
<1>6. complete' \in BOOLEAN /\ (complete => complete')
  <2>1. complete \in BOOLEAN
    BY Zenon DEF SessionInv, SessionTypeOK
  <2>2. CASE complete' = complete
    BY <2>1, <2>2
  <2>3. CASE complete' = TRUE
    BY <2>3
  <2> QED BY <2>2, <2>3
<1>7. SessionTypeOK'
  <2>1. {cancelled, running, stop_requested, complete, told_done}' \subseteq BOOLEAN
    BY <1>6, Zenon DEF SessionInv, SessionTypeOK
  <2> QED BY <1>1, <1>5, <2>1 DEF SessionInv, SessionTypeOK
<1>8. SpawnedInOrder'
  BY <1>1 DEF SessionInv, SpawnedInOrder
<1>9. start_pc \in {"pool", "spawn", "join"} /\ main_pc # "screen" /\ screen = "none"
  BY LiveWorker
<1>10. ThreadsOfStart'
  BY <1>9 DEF SessionInv, ThreadsOfStart, BeforeTracker, BeforePool, AfterPool,
     AfterWorkers, AfterThreads, StartEnded
<1>11. EndIsKnown'
  BY <1>6 DEF SessionInv, EndIsKnown, Over
<1>12. ScreenIsLast'
  BY <1>9 DEF ScreenIsLast, TruthfulScreen
<1> QED BY <1>4, <1>7, <1>8, <1>10, <1>11, <1>12 DEF SessionInv

(* Every step of peer_worker is such a move.                                *)
LEMMA WorkerStep ==
  ASSUME SessionInv, NEW p \in Peer, PeerSpeaks(p) \/ WorkerRuns(p)
  PROVE  SessionInv'
<1> USE DEF mainVars, flagVars, trackVars, progVars
<1>1. CASE WorkerEnters(p)
  BY <1>1, WorkerMoves DEF WorkerEnters
<1>2. CASE WorkerGreets(p)
  BY <1>2, WorkerMoves DEF WorkerGreets
<1>3. CASE WorkerContinues(p)
  BY <1>3, WorkerMoves DEF WorkerContinues
<1>4. CASE WorkerHandles(p)
  BY <1>4, WorkerMoves DEF WorkerHandles
<1>5. CASE WorkerFinishes(p)
  BY <1>5, WorkerMoves DEF WorkerFinishes
<1>6. CASE WorkerThrows(p)
  BY <1>6, WorkerMoves DEF WorkerThrows, ActiveAfterExit
<1> QED BY <1>1, <1>2, <1>3, <1>4, <1>5, <1>6 DEF PeerSpeaks, WorkerRuns

-----------------------------------------------------------------------------
(* The theorems *)

(* Every step of every thread keeps the inductive invariant.                *)
LEMMA SessionStep ==
  ASSUME SessionInv, [Next]_vars
  PROVE  SessionInv'
<1>1. CASE Main
  BY <1>1, MainStep
<1>2. CASE Start
  BY <1>2, StartStep, SpawnStep DEF Start, Pool
<1>3. CASE Tracker \/ TrackerAnswers
  BY <1>3, TrackerStep, FirstAnnounceStep DEF TrackerAnswers
<1>4. CASE Progress
  BY <1>4, ProgressStep
<1>5. ASSUME NEW p \in Peer, PeerSpeaks(p) \/ WorkerRuns(p) PROVE SessionInv'
  BY <1>5, WorkerStep
<1>6. CASE UNCHANGED vars
  <2> USE <1>6 DEF vars, mainVars, flagVars, poolVars, trackVars, progVars
  <2>1. ActivePeersCounted' /\ SpawnedInOrder'
    BY PoolFrame
  <2>2. SessionTypeOK'
    <3>1. {cancelled, running, stop_requested, complete, told_done}' \subseteq BOOLEAN
      BY Zenon DEF SessionInv, SessionTypeOK
    <3> QED BY <3>1 DEF SessionInv, SessionTypeOK
  <2>3. ThreadsOfStart' /\ EndIsKnown' /\ ScreenIsLast'
    BY Zenon DEF SessionInv, ThreadsOfStart, WorkersJoined, EndIsKnown, Over,
       ScreenIsLast, TruthfulScreen, StartEnded
  <2> QED BY <2>1, <2>2, <2>3 DEF SessionInv
<1> QED BY <1>1, <1>2, <1>3, <1>4, <1>5, <1>6 DEF Next

(* The inductive invariant of the threads and flags of a download.          *)
THEOREM SessionInvariant == Spec => []SessionInv
<1>1. Init => SessionInv
  BY InitSession
<1>2. SessionInv /\ [Next]_vars => SessionInv'
  BY SessionStep
<1>3. Spec => Init /\ [][Next]_vars
  BY DEF Spec
<1> QED BY <1>1, <1>2, <1>3, PTL

(* The flags, threads and counters keep their shape, and the pool never     *)
(* takes an address beyond the end of the tracker's list.                   *)
THEOREM SessionTypeCorrect == Spec => []SessionTypeOK
<1>1. SessionInv => SessionTypeOK
  BY DEF SessionInv
<1> QED BY <1>1, SessionInvariant, PTL

(* peers_active_ counts the threads inside peer_worker, however they leave. *)
THEOREM PeersCounted == Spec => []ActivePeersCounted
<1>1. SessionInv => ActivePeersCounted
  BY DEF SessionInv
<1> QED BY <1>1, SessionInvariant, PTL

(* Once main shows its screen and the Session dies no thread uses it: start *)
(* either threw before it made any, or joined them all.                     *)
THEOREM NoThreadOutlives == Spec => []NoThreadOutlivesSession
<1>1. SessionInv => NoThreadOutlivesSession
  <2> SUFFICES ASSUME SessionInv, main_pc = "screen"
               PROVE  /\ \A p \in Peer : worker[p] \in {"none", "exited"}
                      /\ tracker_pc \in {"none", "ended"}
                      /\ progress_pc \in {"none", "ended"}
    BY DEF NoThreadOutlivesSession
  <2>1. CASE start_pc = "returned"
    BY <2>1 DEF SessionInv, ThreadsOfStart, WorkersJoined, AfterWorkers,
       AfterPool, AfterThreads
  <2>2. CASE start_pc = "threw"
    <3>1. peer_idx = 0 /\ tracker_pc = "none" /\ progress_pc = "none"
      BY <2>2 DEF SessionInv, ThreadsOfStart, BeforePool, BeforeTracker
    <3>2. \A p \in Peer : worker[p] = "none"
      BY <3>1, SessionAssumption DEF SessionInv, SpawnedInOrder, Peer
    <3> QED BY <3>1, <3>2
  <2> QED BY <2>1, <2>2 DEF SessionInv, ThreadsOfStart, StartEnded
<1> QED BY <1>1, SessionInvariant, PTL

(* The final screen says what happened, however the threads race on the     *)
(* flags it is computed from.                                               *)
THEOREM ScreenIsTrue == Spec => []TruthfulScreen
<1>1. SessionInv => TruthfulScreen
  BY DEF SessionInv, ScreenIsLast
<1> QED BY <1>1, SessionInvariant, PTL

(* A download that nobody cancelled returns only complete, and has told     *)
(* both the tracker and the user.                                           *)
THEOREM FinishIsClean == Spec => []CleanFinish
<1>1. SessionInv => CleanFinish
  BY DEF SessionInv, CleanFinish, ThreadsOfStart, EndIsKnown, Over, AfterThreads,
     AfterPool
<1> QED BY <1>1, SessionInvariant, PTL
=============================================================================
