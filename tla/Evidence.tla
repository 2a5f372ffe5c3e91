------------------------------ MODULE Evidence ------------------------------
(***************************************************************************)
(* The producers of a run's evidence side by side: one camera's video, the *)
(* ROS bag, the Docker logs and Gazebo's native state and server log.      *)
(*                                                                         *)
(* They share the run directory and nothing in it: each writes names of    *)
(* its own, in directories it opened itself, and none reads what another   *)
(* wrote.  So a behaviour of all four is four behaviours in parallel, and  *)
(* here one of them is looked at while the others have not started.        *)
(***************************************************************************)
EXTENDS VideoRecorder, BagRecorder, LogCapture, GazeboServer

VARIABLE producer   \* the one that runs; it never changes

evidenceVars == <<producer, videoVars, bagVars, logVars, gzVars>>

Producers == {"video", "bag", "logs", "server"}

EvidenceTypeOK ==
    /\ producer \in Producers
    /\ VideoTypeOK /\ BagTypeOK /\ LogTypeOK /\ GzTypeOK

EvidenceInit ==
    /\ producer \in Producers
    /\ VideoInit /\ BagInit /\ LogInit /\ GzInit
    /\ producer # "video" => outcome = "COMPLETED"
    /\ producer # "bag" => ruleset = "descent_v1"

OnlyVideo == producer = "video" /\ UNCHANGED <<producer, bagVars, logVars, gzVars>>
OnlyBag == producer = "bag" /\ UNCHANGED <<producer, videoVars, logVars, gzVars>>
OnlyLogs == producer = "logs" /\ UNCHANGED <<producer, videoVars, bagVars, gzVars>>
OnlyServer == producer = "server" /\ UNCHANGED <<producer, videoVars, bagVars, logVars>>

EvidenceNext ==
    \/ OnlyVideo /\ VideoNext
    \/ OnlyBag /\ BagNext
    \/ OnlyLogs /\ LogNext
    \/ OnlyServer /\ GzNext

\* Threads run, clocks go on, and a process that was sent SIGKILL dies.
EvidenceFairness ==
    /\ WF_evidenceVars(OnlyVideo /\ VideoThread)
    /\ WF_evidenceVars(OnlyVideo /\ VideoWorker)
    /\ WF_evidenceVars(OnlyVideo /\ VideoClock)
    /\ WF_evidenceVars(OnlyVideo /\ FfmpegExits /\ ffmpeg = "killed")
    /\ WF_evidenceVars(OnlyServer /\ GzOwner)
    /\ WF_evidenceVars(OnlyServer /\ GzTimePasses)
    /\ WF_evidenceVars(OnlyServer /\ Killed)

EvidenceSpec == EvidenceInit /\ [][EvidenceNext]_evidenceVars /\ EvidenceFairness

-----------------------------------------------------------------------------
(* Properties.                                                              *)

\* start() and finalize() of a recorder return, and no FFmpeg outlives a start() that
\* failed or a finalize() that gave up on it.  A stop() of the server returns or raises,
\* even if the group ignores SIGTERM and whatever the file system does.
ProducersEnd ==
    /\ vpc \notin {"new", "recording"} ~>
         (vpc = "recording" \/ (vpc \in {"startFailed", "done"} /\ ffmpeg \in Gone))
    /\ gpc = "probe" ~> gpc \in {"stopped", "failed"}
=============================================================================
