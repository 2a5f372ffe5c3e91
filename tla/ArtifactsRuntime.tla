------------------------- MODULE ArtifactsRuntime -------------------------
(***************************************************************************)
(* The artifacts container: AggregateArtifactsRuntime and the loop of      *)
(* main() in artifacts/runtime_node.py.  The rosbag and video recorders    *)
(* behind it are reduced to whether they run, stop and validate.           *)
(***************************************************************************)
EXTENDS RunStore

VARIABLES
    recorder,      \* how far AggregateArtifactsRuntime has come
    sawStarting,   \* main(): saw_current_run_starting
    failureWritten \* _failure_written: the recorders have reported a failure

artifactsVars == <<recorder, sawStarting, failureWritten>>

RecorderStates == {"created", "recording", "announced", "ready", "blocked",
                   "final", "notified"}

ArtifactsTypeOK ==
    /\ recorder \in RecorderStates
    /\ sawStarting \in BOOLEAN
    /\ failureWritten \in BOOLEAN

ArtifactsInit ==
    /\ recorder = "created"
    /\ sawStarting = FALSE
    /\ failureWritten = FALSE

-----------------------------------------------------------------------------

\* start(): a recorder that does not start is reported, and the loop runs on.
StartRecorders ==
    /\ "artifacts" \in running /\ recorder = "created"
    /\ recorder' = "recording"
    /\ \/ UNCHANGED <<statusVars, failureWritten>>
       \/ /\ "recorder" \in Faults
          /\ WriteStatus("runtime-failure")
          /\ failureWritten' = TRUE
    /\ UNCHANGED <<controlVars, running, topicVars, sawStarting>>

\* state_callback: the subscription keeps one sample, the latest.
SeeStarting ==
    /\ "artifacts" \in running /\ recorder # "notified"
    /\ runState = "STARTING"
    /\ sawStarting' = TRUE
    /\ UNCHANGED <<storeVars, recorder, failureWritten>>

\* check_ready, first pass: the initial status tells that nothing is ready.
AnnounceRecording ==
    /\ "artifacts" \in running /\ recorder = "recording"
    /\ ~failureWritten
    /\ recorder' = "announced"
    /\ artifactStatus' = "recording"
    /\ UNCHANGED <<statusVars, controlVars, running, runState, sawStarting, failureWritten>>

\* check_ready, later pass: publish readiness and write artifacts-ready.
BecomeReady ==
    /\ "artifacts" \in running /\ recorder = "announced"
    /\ ~failureWritten
    /\ sawStarting
    /\ recorder' = "ready"
    /\ artifactStatus' = "ready"
    /\ WriteStatus("artifacts-ready")
    /\ UNCHANGED <<controlVars, running, runState, sawStarting, failureWritten>>

\* report_failure from check_health, a recorder callback or the delivery
\* deadline of check_ready.
RecorderFails ==
    /\ "artifacts" \in running /\ recorder \in {"recording", "announced", "ready"}
    /\ "recorder" \in Faults
    /\ ~failureWritten
    /\ WriteStatus("runtime-failure")
    /\ failureWritten' = TRUE
    /\ UNCHANGED <<controlVars, running, topicVars, recorder, sawStarting>>

\* finalize: only after runtime-frozen are the recorders stopped and their
\* outputs validated.
Finalize ==
    /\ "artifacts" \in running /\ recorder \in {"recording", "announced", "ready"}
    /\ request # "none"
    /\ "runtime-frozen" \in facts
    /\ \E valid \in BOOLEAN :
         /\ ~valid => recorder # "ready" \/ failureWritten \/ "artifact" \in Faults
         /\ WriteArtifactsFinal(valid)
    /\ recorder' = "final"
    /\ UNCHANGED <<controlVars, running, topicVars, sawStarting, failureWritten>>

\* A bag recorder that exited early or does not stop blocks finalization for
\* good: artifacts-final is never written.
FinalizeBlocked ==
    /\ "artifacts" \in running /\ recorder \in {"recording", "announced", "ready"}
    /\ request # "none"
    /\ "runtime-frozen" \in facts
    /\ "recorder" \in Faults
    /\ WriteStatus("runtime-failure")
    /\ failureWritten' = TRUE
    /\ recorder' = "blocked"
    /\ UNCHANGED <<controlVars, running, topicVars, sawStarting>>

\* Takes the manifest for the commit marker.
NotifyOnManifest ==
    /\ "artifacts" \in running /\ recorder = "final"
    /\ manifest # "none"
    /\ WriteStatus("terminal-notified")
    /\ recorder' = "notified"
    /\ running' = running \ {"artifacts"}
    /\ UNCHANGED <<controlVars, topicVars, sawStarting, failureWritten>>

\* poll_terminal: the last status goes out and the process ends.
NotifyTerminal ==
    /\ "artifacts" \in running /\ recorder = "final"
    /\ committed # "none"
    /\ WriteStatus("terminal-notified")
    /\ recorder' = "notified"
    /\ running' = running \ {"artifacts"}
    /\ UNCHANGED <<controlVars, topicVars, sawStarting, failureWritten>>

ArtifactsNext ==
    \/ StartRecorders \/ SeeStarting \/ AnnounceRecording \/ BecomeReady
    \/ RecorderFails \/ Finalize \/ FinalizeBlocked \/ NotifyTerminal
=============================================================================
