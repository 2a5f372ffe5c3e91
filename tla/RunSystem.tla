----------------------------- MODULE RunSystem -----------------------------
(***************************************************************************)
(* One run: the host controller, the operator's commands, the              *)
(* orchestration and artifacts containers and the five peers, interleaved  *)
(* around the run directory.                                               *)
(***************************************************************************)
EXTENDS RunController, OrchestrationRuntime, ArtifactsRuntime, RunPeers

runVars == <<scenario, storeVars, hostVars, commandVars, orchestrationVars, artifactsVars, peerVars>>

\* DDS discovery: the run-state subscribers exist once their containers run, the
\* rosbag recorder's once the artifacts runtime has started it.
Discover ==
    /\ running = Services
    /\ recorder # "created"
    /\ subscribed' = TRUE
    /\ UNCHANGED <<storeVars, node, artifactsReady>>

RunInit ==
    /\ StoreInit
    /\ ControllerInit
    /\ OrchestrationInit
    /\ ArtifactsInit
    /\ PeersInit

RunNext ==
    \/ HostNext /\ UNCHANGED <<scenario, commandVars, orchestrationVars, artifactsVars, peerVars>>
    \/ CommandNext /\ UNCHANGED <<scenario, hostVars, orchestrationVars, artifactsVars, peerVars>>
    \/ (OrchestrationNext \/ Discover) /\ UNCHANGED <<scenario, controllerVars, artifactsVars, peerVars>>
    \/ ArtifactsNext /\ UNCHANGED <<scenario, controllerVars, orchestrationVars, peerVars>>
    \/ PeersNext /\ UNCHANGED <<scenario, controllerVars, orchestrationVars, artifactsVars>>

RunSpec == RunInit /\ [][RunNext]_runVars

-----------------------------------------------------------------------------
(* Fairness.  The host process is scheduled and the monotonic clock reaches *)
(* every deadline; RunFairSpec adds the loops of the containers.  Operator  *)
(* commands and failures owe nothing.                                       *)

HostProgress ==
    \/ Begin \/ Prepare \/ ComposeUp \/ UpReturns
    \/ ObserveRequest \/ InspectServices \/ ReadStatus \/ WaitTimesOut
    \/ RequestFinalization \/ EnterFinalizing \/ AwaitFrozen \/ AwaitArtifactsFinal
    \/ CaptureLogs \/ ReadReport \/ CollectProvenance \/ CommitManifest \/ CommitRaises
    \/ PublishTerminal \/ AwaitNotified \/ Close \/ Teardown

OrchestrationProgress ==
    \/ BarrierPasses \/ BarrierPreempted \/ PollReady \/ PollRunning
    \/ PollFinalizing \/ PollFreeze \/ PollTerminal

ArtifactsProgress ==
    StartRecorders \/ AnnounceRecording \/ BecomeReady \/ Finalize \/ NotifyTerminal

GazeboProgress == GazeboReady \/ GazeboSeesState \/ SourceFinished

OtherPeersProgress ==
    \/ ArduPilotReady \/ CompanionReady \/ MissionReady \/ MissionFinished
    \/ ScoreFinished \/ ScoreAtFinalization \/ ScorekeeperExits

HostFairSpec ==
    /\ RunSpec
    /\ WF_runVars(HostProgress /\ UNCHANGED <<scenario, commandVars, orchestrationVars, artifactsVars, peerVars>>)
    /\ \A d \in Deadlines :
         WF_runVars(DeadlinePasses(d) /\ UNCHANGED <<scenario, commandVars, orchestrationVars,
                                                     artifactsVars, peerVars>>)

ContainersAreFair ==
    /\ WF_runVars(OrchestrationProgress /\ UNCHANGED <<scenario, controllerVars, artifactsVars, peerVars>>)
    /\ WF_runVars(AcceptArtifactStatus /\ UNCHANGED <<scenario, controllerVars, artifactsVars, peerVars>>)
    /\ WF_runVars(Discover /\ UNCHANGED <<scenario, controllerVars, artifactsVars, peerVars>>)
    /\ WF_runVars(ArtifactsProgress /\ UNCHANGED <<scenario, controllerVars, orchestrationVars, peerVars>>)
    /\ WF_runVars(SeeStarting /\ UNCHANGED <<scenario, controllerVars, orchestrationVars, peerVars>>)
    /\ WF_runVars(GazeboProgress /\ UNCHANGED <<scenario, controllerVars, orchestrationVars, artifactsVars>>)
    /\ WF_runVars(OtherPeersProgress /\ UNCHANGED <<scenario, controllerVars, orchestrationVars, artifactsVars>>)
    /\ \A p \in Peers :
         WF_runVars(Quiesce(p) /\ UNCHANGED <<scenario, controllerVars, orchestrationVars, artifactsVars>>)

RunFairSpec == HostFairSpec /\ ContainersAreFair

-----------------------------------------------------------------------------
(* Properties.                                                              *)

\* Every variable of the run keeps its type; the lifecycle is never asked for a
\* transition it does not have (transition_to raises, and start() would end there).
RunTypeOK ==
    /\ StoreTypeOK
    /\ ControllerTypeOK
    /\ OrchestrationTypeOK
    /\ ArtifactsTypeOK
    /\ PeersTypeOK

\* A manifest says COMPLETED only if no one asked for anything else first, every
\* fact start() waits for was written, the stamped ones agree, all six modules were
\* quiescent before the recorders were closed and every recorder output is valid
\* (controller.start with ArtifactSession.finalize_with_result).
CompletedIsEarned ==
    manifest = "COMPLETED" =>
        /\ request = "COMPLETED"
        /\ AwaitedFacts \cup {"runtime-frozen", "artifacts-final"} \subseteq facts
        /\ \A name \in AwaitedFacts : StampsAgree(name)
        /\ Modules \subseteq quiescence
        /\ recordsValid

\* The file-backed handshake of finalization happens in its order, whoever is
\* slow, dead or interrupted: markers before runtime-frozen, runtime-frozen before
\* artifacts-final, the manifest before terminal-committed, and that before
\* terminal-notified (poll, finalize, start, poll_terminal).
HandshakeOrder ==
    /\ "runtime-frozen" \in facts => Modules \subseteq quiescence /\ request # "none"
    /\ "artifacts-final" \in facts => "runtime-frozen" \in facts
    /\ manifest # "none" => request # "none"
    /\ committed # "none" => manifest = committed
    /\ "terminal-notified" \in facts => committed # "none" /\ "artifacts-final" \in facts

\* An abort that was persisted first is never overruled: the run cannot end in any
\* other terminal state (request_finalization with FIRST_WINS, then start).
AbortWins ==
    request = "ABORTED" => manifest \in {"none", "ABORTED"}

\* What start() returns and what it leaves in the operator status agree with the
\* manifest, if there is one (controller.start from the commit on).
ForegroundAgrees ==
    manifest # "none" =>
        /\ result \in Terminals => result = manifest
        /\ operator \in Terminals => operator = manifest

\* A terminal state that abort or status printed is the manifest's, whatever was
\* committed while the command ran (controller.status and controller.abort).
AnswersAgree ==
    answer \in Terminals /\ manifest # "none" => answer = manifest

\* Everyone who reports how the run ended reports what the manifest says.  The
\* foreground of a run whose directory could not be synced is the exception (see
\* ForegroundAgrees), and abort repeats what it left in the operator status: it looks
\* for the manifest before it reads the status, and not again, which status does.
ResultsAgree ==
    /\ "fsync" \notin Faults => ForegroundAgrees
    /\ ~ ({"abort", "fsync"} \subseteq Faults) => AnswersAgree

\* Once runtime-frozen is written no peer adds evidence: what is written after it
\* comes from the artifacts runtime alone (the markers stand for silence).
SilentAfterFreeze ==
    [][ "runtime-frozen" \in facts =>
          /\ stamps' = stamps
          /\ facts' \ facts \subseteq {"artifacts-ready", "artifacts-final",
                                   "terminal-notified", "runtime-failure"}
          /\ "runtime-failure" \in facts' \ facts => recorder' = "blocked" \/ failureWritten'
      ]_runVars

\* Where deadlines can pass, start() comes to an end whatever the containers do.
StartReturns == "deadline" \in Faults => <>(pc \in Stops)

\* When the containers run too and nothing fails, the mutual waits of startup and of
\* finalization all resolve: the run ends with a COMPLETED manifest and an
\* acknowledged commit.
RunCompletes ==
    ContainersAreFair =>
        (Faults = {} => <>(pc = "done" /\ manifest = "COMPLETED" /\ "terminal-notified" \in facts))

\* A persisted finalize request leads to the runtime-frozen marker.
RequestLeadsToFreeze == request # "none" ~> "runtime-frozen" \in facts
=============================================================================
