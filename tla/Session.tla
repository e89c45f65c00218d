------------------------------- MODULE Session -------------------------------
(***************************************************************************)
(* Session (src/session.cpp) and main (src/main.cpp): the threads of a     *)
(* download and the flags they share.  main starts one thread that runs    *)
(* Session::start, polls the cancel button and joins it; start announces   *)
(* to the tracker, starts the tracker and progress threads, runs the pool  *)
(* of peer threads and joins them all.                                     *)
(*                                                                         *)
(* The pieces are abstracted to one bit, complete: a peer thread that      *)
(* handles a message may complete the download (PieceManager).  Sockets    *)
(* are abstracted to steps that may throw; the properties say which of     *)
(* them must return.                                                       *)
(***************************************************************************)
EXTENDS Integers, FiniteSets

CONSTANTS
  MAX_PEERS,   \* limit the pool compares peers_active_ with
  MaxListed    \* bound on the peer addresses all tracker responses list

ASSUME SessionAssumption == MAX_PEERS \in Nat \ {0} /\ MaxListed \in Nat

Peer == 1 .. MaxListed   \* addresses in the order the tracker lists them

VARIABLES
  main_pc,          \* main, from the creation of the download thread on
  cancelled,        \* main has called stop()
  screen,           \* the final screen
  start_pc,         \* Session::start and run_peer_pool
  running,          \* running_
  stop_requested,   \* stop_requested_
  complete,         \* pm_->is_complete()
  peer_count,       \* addresses in the response start got
  peer_idx,         \* addresses the pool has used
  peers_active,     \* peers_active_
  worker,           \* worker[p]: the thread of address p
  tracker_pc,       \* tracker_thread
  listed,           \* addresses in the tracker's responses so far
  final_event,      \* event of tracker_thread's final announce
  progress_pc,      \* progress_thread
  told_done         \* the last callback said 100%

mainVars  == <<main_pc, cancelled, screen>>
flagVars  == <<running, stop_requested, complete>>
poolVars  == <<peer_count, peer_idx, peers_active, worker>>
trackVars == <<tracker_pc, listed, final_event>>
progVars  == <<progress_pc, told_done>>

vars == <<mainVars, start_pc, flagVars, poolVars, trackVars, progVars>>

Init ==
  /\ main_pc = "poll" /\ cancelled = FALSE /\ screen = "none"
  /\ start_pc = "begin"
  /\ running = FALSE /\ stop_requested = FALSE
  /\ complete \in BOOLEAN   \* a torrent of no pieces is complete
  /\ peer_count = 0 /\ peer_idx = 0 /\ peers_active = 0
  /\ worker = [p \in Peer |-> "none"]
  /\ tracker_pc = "none" /\ listed = 0 /\ final_event = "none"
  /\ progress_pc = "none" /\ told_done = FALSE

-----------------------------------------------------------------------------
(* main *)

StartEnded == start_pc \in {"returned", "threw"}

MainPoll ==
  /\ main_pc = "poll"
  /\ main_pc' = IF running /\ ~complete THEN "sleep" ELSE "join"
  /\ UNCHANGED <<cancelled, screen, start_pc, flagVars, poolVars, trackVars,
                 progVars>>

(* The Circle button is not pressed. *)
MainNoCancel ==
  /\ main_pc = "sleep"
  /\ main_pc' = "poll"
  /\ UNCHANGED <<cancelled, screen, start_pc, flagVars, poolVars, trackVars,
                 progVars>>

(* It is: Session::stop. *)
MainCancel ==
  /\ main_pc = "sleep"
  /\ main_pc' = "join"
  /\ cancelled' = TRUE
  /\ stop_requested' = TRUE
  /\ UNCHANGED <<screen, start_pc, running, complete, poolVars, trackVars,
                 progVars>>

ScreenByFlag ==   \* faulty variant: the flag start sets itself
  IF start_pc = "threw" THEN "error"
  ELSE IF stop_requested THEN "cancelled" ELSE "complete"

FinalScreen ==
  IF start_pc = "threw" THEN "error"
  ELSE IF complete THEN "complete" ELSE "cancelled"

MainJoin ==
  /\ main_pc = "join"
  /\ StartEnded
  /\ main_pc' = "screen"
  /\ screen' = FinalScreen
  /\ UNCHANGED <<cancelled, start_pc, flagVars, poolVars, trackVars, progVars>>

-----------------------------------------------------------------------------
(* Session::start and run_peer_pool *)

StartGoto(from, to) == start_pc = from /\ start_pc' = to

SetRunning ==
  /\ StartGoto("begin", "reset")
  /\ running' = TRUE
  /\ UNCHANGED <<mainVars, stop_requested, complete, poolVars, trackVars,
                 progVars>>

ResetStop ==
  /\ StartGoto("reset", "announce")
  /\ stop_requested' = FALSE
  /\ UNCHANGED <<mainVars, running, complete, poolVars, trackVars, progVars>>

(* The first announce succeeds with a list of peers. *)
FirstAnnounce ==
  /\ StartGoto("announce", "tracker")
  /\ \E n \in 0 .. MaxListed : peer_count' = n /\ listed' = n
  /\ UNCHANGED <<mainVars, flagVars, peer_idx, peers_active, worker,
                 tracker_pc, final_event, progVars>>

(* It throws, or start throws because the tracker reports a failure.       *)
FirstAnnounceFails ==
  /\ StartGoto("announce", "threw")
  /\ UNCHANGED <<mainVars, flagVars, poolVars, trackVars, progVars>>

SpawnTracker ==
  /\ StartGoto("tracker", "progress")
  /\ tracker_pc' = "loop"
  /\ UNCHANGED <<mainVars, flagVars, poolVars, listed, final_event, progVars>>

SpawnProgress ==
  /\ StartGoto("progress", "pool")
  /\ progress_pc' = "loop"
  /\ UNCHANGED <<mainVars, flagVars, poolVars, trackVars, told_done>>

PoolCheck ==
  /\ StartGoto("pool", IF stop_requested \/ complete THEN "join" ELSE "spawn")
  /\ UNCHANGED <<mainVars, flagVars, poolVars, trackVars, progVars>>

RoomPastEnd ==   \* faulty variant: one address too many
  peers_active < MAX_PEERS /\ peer_idx <= peer_count

HasRoom == peers_active < MAX_PEERS /\ peer_idx < peer_count

SpawnWorker ==
  /\ start_pc = "spawn"
  /\ HasRoom
  /\ peer_idx' = peer_idx + 1
  /\ worker' = [worker EXCEPT ![peer_idx + 1] = "created"]
  /\ UNCHANGED <<mainVars, start_pc, flagVars, peer_count, peers_active,
                 trackVars, progVars>>

(* The sleeps at the end of a round of the pool. *)
PoolSleep ==
  /\ StartGoto("spawn", "pool")
  /\ ~HasRoom
  /\ UNCHANGED <<mainVars, flagVars, poolVars, trackVars, progVars>>

WorkersDetached == TRUE   \* faulty variant: detach instead of join

WorkersJoined == \A p \in Peer : worker[p] \in {"none", "exited"}

JoinWorkers ==
  /\ StartGoto("join", "signal")
  /\ WorkersJoined
  /\ UNCHANGED <<mainVars, flagVars, poolVars, trackVars, progVars>>

SignalThreads ==
  /\ StartGoto("signal", "join_aux")
  /\ stop_requested' = TRUE
  /\ UNCHANGED <<mainVars, running, complete, poolVars, trackVars, progVars>>

JoinThreads ==
  /\ StartGoto("join_aux", "leave")
  /\ tracker_pc = "ended" /\ progress_pc = "ended"
  /\ UNCHANGED <<mainVars, flagVars, poolVars, trackVars, progVars>>

StartReturns ==
  /\ StartGoto("leave", "returned")
  /\ running' = FALSE
  /\ UNCHANGED <<mainVars, stop_requested, complete, poolVars, trackVars,
                 progVars>>

-----------------------------------------------------------------------------
(* peer_worker of one address *)

InWorker(p) == worker[p] \in {"greet", "check", "recv"}

WorkerEnters(p) ==
  /\ worker[p] = "created"
  /\ worker' = [worker EXCEPT ![p] = "greet"]
  /\ peers_active' = peers_active + 1
  /\ UNCHANGED <<mainVars, start_pc, flagVars, peer_count, peer_idx,
                 trackVars, progVars>>

(* connect, handshake, send_bitfield and send_interested succeed.           *)
WorkerGreets(p) ==
  /\ worker[p] = "greet"
  /\ worker' = [worker EXCEPT ![p] = "check"]
  /\ UNCHANGED <<mainVars, start_pc, flagVars, peer_count, peer_idx,
                 peers_active, trackVars, progVars>>

WorkerStopsWhenComplete == complete   \* faulty variant: stop is not looked at

WorkerStops == stop_requested \/ complete

WorkerContinues(p) ==
  /\ worker[p] = "check"
  /\ ~WorkerStops
  /\ worker' = [worker EXCEPT ![p] = "recv"]
  /\ UNCHANGED <<mainVars, start_pc, flagVars, peer_count, peer_idx,
                 peers_active, trackVars, progVars>>

(* read_message returns and the message is handled. *)
WorkerHandles(p) ==
  /\ worker[p] = "recv"
  /\ worker' = [worker EXCEPT ![p] = "check"]
  /\ complete' \in {complete, TRUE}
  /\ UNCHANGED <<mainVars, start_pc, running, stop_requested, peer_count,
                 peer_idx, peers_active, trackVars, progVars>>

ActiveAfterThrow(n) == n   \* faulty variant: only the normal end counts down

ActiveAfterExit(n) == n - 1

WorkerFinishes(p) ==
  /\ worker[p] = "check"
  /\ WorkerStops
  /\ worker' = [worker EXCEPT ![p] = "exited"]
  /\ peers_active' = peers_active - 1
  /\ UNCHANGED <<mainVars, start_pc, flagVars, peer_count, peer_idx,
                 trackVars, progVars>>

(* A socket call or write_piece throws, or the handshake fails.             *)
WorkerThrows(p) ==
  /\ worker[p] \in {"greet", "recv"}
  /\ worker' = [worker EXCEPT ![p] = "exited"]
  /\ peers_active' = ActiveAfterExit(peers_active)
  /\ UNCHANGED <<mainVars, start_pc, flagVars, peer_count, peer_idx,
                 trackVars, progVars>>

-----------------------------------------------------------------------------
(* tracker_thread *)

TrackerGoto(from, to) == tracker_pc = from /\ tracker_pc' = to

EventByFlag == IF stop_requested THEN "stopped" ELSE "completed"
                         \* faulty variant: the flag start sets itself

FinalEvent == IF complete THEN "completed" ELSE "stopped"

(* The event, "started" or none, is not recorded. *)
TrackerLoop ==
  /\ ~(stop_requested \/ complete)
  /\ TrackerGoto("loop", "announce")
  /\ UNCHANGED <<mainVars, start_pc, flagVars, poolVars, listed, final_event,
                 progVars>>

TrackerAnnounced ==
  /\ TrackerGoto("announce", "wait")
  /\ listed' \in listed .. MaxListed
  /\ UNCHANGED <<mainVars, start_pc, flagVars, poolVars, final_event, progVars>>

TrackerFails ==
  /\ TrackerGoto("announce", "wait")
  /\ UNCHANGED <<mainVars, start_pc, flagVars, poolVars, listed, final_event,
                 progVars>>

(* The interval has elapsed, or stop_requested_ is seen during it.          *)
TrackerWakes ==
  /\ TrackerGoto("wait", "loop")
  /\ UNCHANGED <<mainVars, start_pc, flagVars, poolVars, listed, final_event,
                 progVars>>

TrackerFinal ==
  /\ stop_requested \/ complete
  /\ TrackerGoto("loop", "final")
  /\ UNCHANGED <<mainVars, start_pc, flagVars, poolVars, listed, final_event,
                 progVars>>

(* The event is chosen; the announce then returns or throws.                *)
TrackerLastAnnounce ==
  /\ TrackerGoto("final", "goodbye")
  /\ final_event' = FinalEvent
  /\ UNCHANGED <<mainVars, start_pc, flagVars, poolVars, listed, progVars>>

TrackerEnds ==
  /\ TrackerGoto("goodbye", "ended")
  /\ UNCHANGED <<mainVars, start_pc, flagVars, poolVars, listed, final_event,
                 progVars>>

-----------------------------------------------------------------------------
(* progress_thread *)

ProgressGoto(from, to) == progress_pc = from /\ progress_pc' = to

ProgressLoop ==
  /\ ProgressGoto("loop", IF stop_requested \/ complete THEN "final"
                                                        ELSE "sleep")
  /\ UNCHANGED <<mainVars, start_pc, flagVars, poolVars, trackVars, told_done>>

(* 500 ms pass; the callback reports the state of the moment. *)
ProgressReports ==
  /\ ProgressGoto("sleep", "loop")
  /\ told_done' = complete
  /\ UNCHANGED <<mainVars, start_pc, flagVars, poolVars, trackVars>>

ProgressFinal ==
  /\ ProgressGoto("final", "ended")
  /\ told_done' = (told_done \/ complete)
  /\ UNCHANGED <<mainVars, start_pc, flagVars, poolVars, trackVars>>

-----------------------------------------------------------------------------
Main == MainPoll \/ MainNoCancel \/ MainCancel \/ MainJoin

Pool == PoolCheck \/ SpawnWorker \/ PoolSleep \/ JoinWorkers

Start ==
  \/ SetRunning \/ ResetStop \/ SpawnTracker \/ SpawnProgress \/ Pool
  \/ SignalThreads \/ JoinThreads \/ StartReturns

PeerSpeaks(p) == WorkerGreets(p) \/ WorkerHandles(p) \/ WorkerThrows(p)

WorkerRuns(p) == WorkerEnters(p) \/ WorkerContinues(p) \/ WorkerFinishes(p)

Tracker ==
  TrackerLoop \/ TrackerWakes \/ TrackerFinal \/ TrackerLastAnnounce

(* An announce of start or of tracker_thread returns or throws. *)
TrackerAnswers ==
  \/ FirstAnnounce \/ FirstAnnounceFails
  \/ TrackerAnnounced \/ TrackerFails \/ TrackerEnds

Progress == ProgressLoop \/ ProgressReports \/ ProgressFinal

Next ==
  \/ Main \/ Start \/ Tracker \/ TrackerAnswers \/ Progress
  \/ \E p \in Peer : PeerSpeaks(p) \/ WorkerRuns(p)

(* Threads are scheduled. *)
ThreadFairness ==
  /\ WF_vars(Main) /\ WF_vars(Start) /\ WF_vars(Tracker) /\ WF_vars(Progress)
  /\ \A p \in Peer : WF_vars(WorkerRuns(p))

(* The tracker and every peer send something, or the connection breaks,     *)
(* again and again; no read in the code has a timeout.                      *)
TrackerFairness ==
  /\ WF_vars(FirstAnnounce \/ FirstAnnounceFails)
  /\ WF_vars(TrackerAnnounced \/ TrackerFails \/ TrackerEnds)

PeerFairness == \A p \in Peer : WF_vars(PeerSpeaks(p))

Spec ==
  Init /\ [][Next]_vars /\ ThreadFairness /\ TrackerFairness /\ PeerFairness

-----------------------------------------------------------------------------
(* Properties *)

(* The shape of the variables; the pool never indexes past the address list *)
(* (run_peer_pool).                                                         *)
SessionTypeOK ==
  /\ main_pc \in {"poll", "sleep", "join", "screen"}
  /\ screen \in {"none", "error", "complete", "cancelled"}
  /\ start_pc \in {"begin", "reset", "announce", "tracker", "progress", "pool",
                   "spawn", "join", "signal", "join_aux", "leave", "returned",
                   "threw"}
  /\ {cancelled, running, stop_requested, complete, told_done} \subseteq BOOLEAN
  /\ peer_count \in 0 .. MaxListed /\ peer_idx \in 0 .. peer_count
  /\ listed \in peer_count .. MaxListed
  /\ peers_active \in 0 .. MaxListed
  /\ worker \in [Peer -> {"none", "created", "greet", "check", "recv", "exited"}]
  /\ tracker_pc \in {"none", "loop", "announce", "wait", "final", "goodbye",
                     "ended"}
  /\ final_event \in {"none", "completed", "stopped"}
  /\ progress_pc \in {"none", "loop", "sleep", "final", "ended"}

(* peers_active_ is the number of threads inside peer_worker whichever way  *)
(* they leave it: the pool spawns by this number, and one that is too high  *)
(* starves the download for good.                                           *)
ActivePeersCounted ==
  peers_active = Cardinality({p \in Peer : InWorker(p)})

(* When main shows its final screen, and destroys the Session on return, no *)
(* thread that uses the Session is left, whether start returned or threw.   *)
NoThreadOutlivesSession ==
  main_pc = "screen" =>
    /\ \A p \in Peer : worker[p] \in {"none", "exited"}
    /\ tracker_pc \in {"none", "ended"} /\ progress_pc \in {"none", "ended"}

(* The final screen is true although main, start and the peer threads race  *)
(* on the flags it is computed from: a user who reads "cancelled by user"   *)
(* did cancel, and a download shown as complete is.                         *)
TruthfulScreen ==
  /\ screen = "cancelled" => cancelled /\ ~complete
  /\ screen = "complete" => complete
  /\ screen = "error" => start_pc = "threw"

(* A download nobody cancelled returns only complete, with "completed" told *)
(* to the tracker and 100% told to the user, in whatever order the threads  *)
(* notice the end.                                                          *)
CleanFinish ==
  start_pc = "returned" /\ ~cancelled =>
    complete /\ told_done /\ final_event = "completed"

(* When a download ends, or is cancelled after start has reset its flag,    *)
(* every thread ends and main reaches its final screen, provided neither a  *)
(* peer nor the tracker stays connected and silent for ever.                *)
ShutdownEnds ==
  (complete \/ (stop_requested /\ start_pc \notin {"begin", "reset"}))
    ~> main_pc = "screen"

-----------------------------------------------------------------------------
(* What comments of the code say, and the code does not do *)

(* session.hpp, start: "Blocks the calling thread until the download        *)
(* completes, a fatal error occurs, or stop() is called from another        *)
(* thread".  Here for stop().                                               *)
StopEndsStart == cancelled ~> StartEnded

(* session.hpp, run_peer_pool: "Replaces finished peers with new ones as    *)
(* they become available".                                                  *)
NewPeersTried ==
  \A p \in Peer :
    listed >= p ~> (worker[p] # "none" \/ stop_requested \/ complete)
=============================================================================
