------------------------------ MODULE RunPeers ------------------------------
(***************************************************************************)
(* The five peers of the lifecycle as the run directory sees them: which   *)
(* facts each writes, what it waits for, how it fails and how it becomes   *)
(* quiescent.  Sources: CompanionLifecycle and the mission loops,          *)
(* RuntimeModel and ActionExecutor of gazebo, _ScoreFinalizer and the poll *)
(* loop of scorekeeper, main and _finalize of ardupilot_sitl,              *)
(* ScenarioController.finalize of electromagnet.                           *)
(*                                                                         *)
(* In the phase2 profile the peers are synthetic services that write only  *)
(* source-finished, failures and quiescence markers.                       *)
(***************************************************************************)
EXTENDS RunStore

VARIABLES
    gazebo,       \* RuntimeModel._lifecycle_state, or "STUCK": _server_stop_failed
    gazeboFailed, \* RuntimeModel._failure_reason is set
    scored        \* _ScoreFinalizer._result is set

peerVars == <<gazebo, gazeboFailed, scored>>

PeersTypeOK ==
    /\ gazebo \in {"STARTING", "READY", "RUNNING", "FINALIZING", "STUCK"}
    /\ gazeboFailed \in BOOLEAN
    /\ scored \in BOOLEAN

PeersInit ==
    /\ gazebo = "STARTING"
    /\ gazeboFailed = FALSE
    /\ scored = FALSE

-----------------------------------------------------------------------------
(* Facts on the way to RUNNING and to the end of the mission.               *)

\* RuntimeModel._ready: the recorders are ready and a flight exchange was seen.
GazeboReady ==
    /\ Flight /\ "gazebo" \in running /\ ~gazeboFailed
    /\ gazebo = "STARTING" /\ "gazebo-ready" \notin facts
    /\ "artifacts-ready" \in facts
    /\ WriteStatus("gazebo-ready")
    /\ UNCHANGED <<controlVars, running, topicVars, peerVars>>

\* The samples _accept_run_state follows; any other new one is a failure.
GazeboFollows ==
    \/ ~Flight
    \/ runState = "FINALIZING"
    \/ runState = "READY" /\ gazebo = "STARTING" /\ "gazebo-ready" \in facts
    \/ runState = "RUNNING" /\ gazebo = "READY"

GazeboSeesState ==
    /\ "gazebo" \in running /\ ~gazeboFailed
    /\ runState \notin {"CREATED", gazebo}
    /\ IF GazeboFollows
       THEN gazebo' = runState /\ UNCHANGED <<statusVars, gazeboFailed>>
       ELSE /\ WriteStatus("runtime-failure")
            /\ gazeboFailed' = TRUE
            /\ gazebo' = gazebo
    /\ UNCHANGED <<controlVars, running, topicVars, scored>>

\* SITL answers on its JSON and MAVLink ports; the companion has connected.
PassiveReady(p, name) ==
    /\ Flight /\ p \in running /\ name \notin facts
    /\ WriteStatus(name)
    /\ UNCHANGED <<controlVars, running, topicVars, peerVars>>

ArduPilotReady == PassiveReady("ardupilot_sitl", "ardupilot-ready")
CompanionReady == PassiveReady("companion", "companion-ready")

\* observe_mission_readiness: heartbeats and pre-arm health come from a vehicle
\* whose world steps, which Gazebo lets it do once it has seen READY.
MissionReady ==
    /\ Flight /\ "companion" \in running /\ "mission-ready" \notin facts
    /\ "companion-ready" \in facts
    /\ gazebo \in {"READY", "RUNNING"}
    /\ WriteStatus("mission-ready")
    /\ UNCHANGED <<controlVars, running, topicVars, peerVars>>

\* _accept_completion: the last public frame was published.
SourceFinished ==
    /\ "gazebo" \in running /\ ~gazeboFailed
    /\ gazebo = "RUNNING" /\ "source-finished" \notin facts
    /\ \E t \in 1 .. MaxStamp : WriteStamped("source-finished", t)
    /\ UNCHANGED <<controlVars, running, topicVars, peerVars>>

\* observe_terminal, landed: the mission starts with RUNNING.
MissionFinished ==
    /\ Flight /\ "companion" \in running
    /\ "runtime-running" \in facts /\ "mission-finished" \notin facts
    /\ \E t \in 1 .. MaxStamp : WriteStamped("mission-finished", t)
    /\ UNCHANGED <<controlVars, running, topicVars, peerVars>>

\* accept_source_finished: a score stamped with anything but the source's last
\* timestamp has failed before it is written.
ScoreFinished ==
    /\ Flight /\ "scorekeeper" \in running /\ ~scored
    /\ "source-finished" \in facts
    /\ \/ WriteStamped("score-finished", stamps["source-finished"])
       \/ "service" \in Faults /\ WriteStatus("runtime-failure")
    /\ scored' = TRUE
    /\ UNCHANGED <<controlVars, running, topicVars, gazebo, gazeboFailed>>

-----------------------------------------------------------------------------
(* Failure and quiescence.                                                  *)

\* RuntimeModel._failure: Gazebo reports and keeps looping for the request.
GazeboFails ==
    /\ "gazebo" \in running /\ ~gazeboFailed
    /\ "service" \in Faults
    /\ WriteStatus("runtime-failure")
    /\ gazeboFailed' = TRUE
    /\ UNCHANGED <<controlVars, running, topicVars, gazebo, scored>>

\* The companion and SITL report a failure, stop, mark quiescence and exit.
PeerFails(p) ==
    /\ p \in running \cap {"companion", "ardupilot_sitl"}
    /\ "service" \in Faults
    /\ WriteFailureAndQuiescence(p)
    /\ running' = running \ {p}
    /\ UNCHANGED <<controlVars, topicVars, peerVars>>

\* An exception ends the loop of gazebo or electromagnet: their cleanup marks
\* quiescence although nothing was requested and no failure is written.
PeerRaises(p) ==
    /\ p \in running \cap {"gazebo", "electromagnet"}
    /\ "service" \in Faults
    /\ WriteQuiescence(p)
    /\ running' = running \ {p}
    /\ UNCHANGED <<controlVars, topicVars, peerVars>>

\* A process that ends without writing anything.
PeerCrashes(p) ==
    /\ p \in running \cap Peers
    /\ "crash" \in Faults
    /\ running' = running \ {p}
    /\ UNCHANGED <<statusVars, controlVars, topicVars, peerVars>>

\* quiesce() scores what there is before it marks quiescence.
ScoreAtFinalization ==
    /\ Flight /\ "scorekeeper" \in running /\ ~scored
    /\ request # "none"
    /\ \/ "source-finished" \in facts /\ \E t \in 1 .. MaxStamp : WriteStamped("score-finished", t)
       \/ WriteStatus("runtime-failure")
    /\ scored' = TRUE
    /\ UNCHANGED <<controlVars, running, topicVars, gazebo, gazeboFailed>>

\* Marks the scorekeeper quiescent before it has scored.
QuiesceUnscored(p) ==
    /\ p \in (running \cap Peers) \ quiescence
    /\ request # "none"
    /\ p = "gazebo" => gazebo # "STUCK"
    /\ WriteQuiescence(p)
    /\ running' = IF p = "scorekeeper" THEN running ELSE running \ {p}
    /\ UNCHANGED <<controlVars, topicVars, peerVars>>

\* The finalize request stops a peer; the scorekeeper stays until the commit.
Quiesce(p) ==
    /\ p \in (running \cap Peers) \ quiescence
    /\ request # "none"
    /\ p = "gazebo" => gazebo # "STUCK"
    /\ p = "scorekeeper" => scored \/ ~Flight
    /\ WriteQuiescence(p)
    /\ running' = IF p = "scorekeeper" THEN running ELSE running \ {p}
    /\ UNCHANGED <<controlVars, topicVars, peerVars>>

\* SITL, the Gazebo server or the mission worker does not stop: a failure and
\* no quiescence marker.  The loop of the Gazebo runtime never ends then.
StopFails(p) ==
    /\ p \in (running \cap {"companion", "ardupilot_sitl", "gazebo"}) \ quiescence
    /\ request # "none"
    /\ "stop" \in Faults
    /\ WriteStatus("runtime-failure")
    /\ IF p = "gazebo"
       THEN gazebo' = "STUCK" /\ gazeboFailed' = TRUE /\ running' = running
       ELSE running' = running \ {p} /\ UNCHANGED <<gazebo, gazeboFailed>>
    /\ UNCHANGED <<controlVars, topicVars, scored>>

ScorekeeperExits ==
    /\ "scorekeeper" \in running \cap quiescence
    /\ committed # "none"
    /\ running' = running \ {"scorekeeper"}
    /\ UNCHANGED <<statusVars, controlVars, topicVars, peerVars>>

PeersNext ==
    \/ GazeboReady \/ GazeboSeesState \/ ArduPilotReady \/ CompanionReady
    \/ MissionReady \/ SourceFinished \/ MissionFinished \/ ScoreFinished
    \/ GazeboFails \/ ScoreAtFinalization \/ ScorekeeperExits
    \/ \E p \in Peers : PeerFails(p) \/ PeerRaises(p) \/ PeerCrashes(p) \/ Quiesce(p) \/ StopFails(p)
=============================================================================
