----------------------- MODULE OrchestrationRuntime -----------------------
(***************************************************************************)
(* The orchestration container (orchestration/runtime_node.py): the        *)
(* run-state transport barrier and the lifecycle node that publishes       *)
(* /simulation/run_state and writes runtime-running and runtime-frozen.    *)
(***************************************************************************)
EXTENDS RunStore

VARIABLES
    node,           \* "barrier" or "loop"
    subscribed,     \* every required run-state subscriber and rosbag is discovered
    artifactsReady  \* OrchestrationRuntime._artifacts_ready

orchestrationVars == <<node, subscribed, artifactsReady>>

OrchestrationTypeOK ==
    /\ node \in {"barrier", "loop"}
    /\ subscribed \in BOOLEAN
    /\ artifactsReady \in BOOLEAN

OrchestrationInit ==
    /\ node = "barrier"
    /\ subscribed = FALSE
    /\ artifactsReady = FALSE

-----------------------------------------------------------------------------
(* RunStateTransportBarrier.poll, with finalization tested first.           *)

\* Mutant: STARTING also waits for the recorders, which wait for STARTING.
BarrierAwaitsRecorders ==
    /\ "orchestration" \in running /\ node = "barrier"
    /\ request = "none"
    /\ subscribed /\ "artifacts-ready" \in facts
    /\ node' = "loop"
    /\ runState' = "STARTING"
    /\ UNCHANGED <<statusVars, controlVars, running, artifactStatus,
                   subscribed, artifactsReady>>

\* The subscribers of the run state are there.
BarrierPasses ==
    /\ "orchestration" \in running /\ node = "barrier"
    /\ request = "none"
    /\ subscribed
    /\ node' = "loop"
    /\ runState' = "STARTING"
    /\ UNCHANGED <<statusVars, controlVars, running, artifactStatus,
                   subscribed, artifactsReady>>

\* main() returns: no FINALIZING is published and no quiescence marker written.
BarrierPreempted ==
    /\ "orchestration" \in running /\ node = "barrier"
    /\ request # "none"
    /\ running' = running \ {"orchestration"}
    /\ UNCHANGED <<statusVars, controlVars, topicVars, orchestrationVars>>

BarrierExpires ==
    /\ "orchestration" \in running /\ node = "barrier"
    /\ "deadline" \in Faults
    /\ request = "none"
    /\ ~subscribed
    /\ WriteStatus("runtime-failure")
    /\ running' = running \ {"orchestration"}
    /\ UNCHANGED <<controlVars, topicVars, orchestrationVars>>

-----------------------------------------------------------------------------
(* OrchestrationRuntime.                                                    *)

GazeboIsReady == Flight => "gazebo-ready" \in facts

\* accept_artifact_status; a sample is dropped in every state but STARTING.
AcceptArtifactStatus ==
    /\ "orchestration" \in running
    /\ artifactStatus # "none"
    /\ artifactStatus' = "none"
    /\ artifactsReady' = (artifactsReady \/ (runState = "STARTING" /\ artifactStatus = "ready"))
    /\ runState' = IF runState = "STARTING" /\ artifactStatus = "ready" /\ GazeboIsReady
                   THEN "READY"
                   ELSE runState
    /\ UNCHANGED <<statusVars, controlVars, running, node, subscribed>>

\* accept_clock: the first clock after READY starts a phase2 run; any other
\* clock is only remembered for the time stamps.
AcceptClock ==
    /\ "orchestration" \in running /\ node = "loop"
    /\ runState = "READY" /\ ~Flight
    /\ runState' = "RUNNING"
    /\ WriteStatus("runtime-running")
    /\ UNCHANGED <<controlVars, running, artifactStatus, orchestrationVars>>

\* _flight_peers_ready: vacuously true without required readiness facts.
FlightPeersReady ==
    Flight => {"ardupilot-ready", "companion-ready", "mission-ready"} \subseteq facts

Looping == "orchestration" \in running /\ node = "loop"

\* poll() before finalization.
PollReady ==
    /\ Looping
    /\ request = "none"
    /\ runState = "STARTING" /\ artifactsReady /\ GazeboIsReady
    /\ runState' = "READY"
    /\ UNCHANGED <<statusVars, controlVars, running, artifactStatus, orchestrationVars>>

PollRunning ==
    /\ Looping
    /\ request = "none"
    /\ runState = "READY" /\ FlightPeersReady
    /\ runState' = "RUNNING"
    /\ WriteStatus("runtime-running")
    /\ UNCHANGED <<controlVars, running, artifactStatus, orchestrationVars>>

\* poll() when the request is there: publish FINALIZING, then the marker.
PollFinalizing ==
    /\ Looping
    /\ request # "none"
    /\ runState \in {"STARTING", "READY", "RUNNING"}
    /\ runState' = "FINALIZING"
    /\ WriteQuiescence("orchestration")
    /\ UNCHANGED <<controlVars, running, artifactStatus, orchestrationVars>>

\* poll() in FINALIZING: all six markers, then runtime-frozen.
PollFreeze ==
    /\ Looping
    /\ runState = "FINALIZING"
    /\ "runtime-frozen" \notin facts
    /\ Modules \subseteq quiescence
    /\ WriteStatus("runtime-frozen")
    /\ UNCHANGED <<controlVars, running, topicVars, orchestrationVars>>

\* The terminal commit ends the node.
PollTerminal ==
    /\ Looping
    /\ "runtime-frozen" \in facts
    /\ committed # "none"
    /\ running' = running \ {"orchestration"}
    /\ UNCHANGED <<statusVars, controlVars, topicVars, orchestrationVars>>

OrchestrationNext ==
    \/ BarrierPasses \/ BarrierPreempted \/ BarrierExpires
    \/ AcceptArtifactStatus \/ AcceptClock
    \/ PollReady \/ PollRunning \/ PollFinalizing \/ PollFreeze \/ PollTerminal
=============================================================================
