-------------------------- MODULE RunSystemProofs --------------------------
(***************************************************************************)
(* Theorems about a run, for every set of scenarios: whatever combination  *)
(* of operator commands and failures a run meets, and whatever the         *)
(* simulation timestamps.                                                  *)
(***************************************************************************)
EXTENDS RunSystem, TLAPS

\* Stretches of start().
Before == {"created", "prepare", "up"}
Startup == Before \cup {"starting"} \cup Waits
Finals == FinalWaits \cup {"capture", "report", "provenance", "commit"}
Ending == {"publish", "notify", "close"}
Over == {"teardown"} \cup Stops

Live == {"STARTING", "READY", "RUNNING"}

\* Where MODULES_READY and CLOCK_STARTED stand in WaitPlan, and how long it is.
ReadyAt == IF Flight THEN 2 ELSE 1
RunningAt == IF Flight THEN 6 ELSE 2
PlanLength == IF Flight THEN 9 ELSE 3

\* The state of the lifecycle while start() waits.
Stage == IF at <= ReadyAt THEN "STARTING" ELSE IF at <= RunningAt THEN "READY" ELSE "RUNNING"

\* The fact that stands at i in the plan was accepted, and stays acceptable: what is
\* compared with the source's timestamp comes after it in the plan.
Settled(i) ==
    /\ WaitPlan[i] \in facts /\ StampsAgree(WaitPlan[i])
    /\ WaitPlan[i] \in {"mission-finished", "score-finished"} => "source-finished" \in facts

\* The lifecycle follows start(), so that apply() is asked for transitions it has.
LifecycleInv ==
    /\ pc = "created" => lifecycle = In("CREATED")
    /\ pc \in {"prepare", "up", "starting"} => lifecycle = In("STARTING")
    /\ pc \in Before \cup {"starting"} => at = 1
    /\ pc \in Waits => lifecycle = In(Stage)
    /\ pc \in {"request", "finalizing"} => lifecycle \in {In(s) : s \in Live}
    /\ \/ pc = "request" /\ requested = "none"
       \/ pc = "finalizing" /\ requested = "COMPLETED"
       => lifecycle = In("RUNNING")
    /\ pc \in Finals => lifecycle = [state |-> "FINALIZING", pending |-> request]

\* COMPLETED is asked for by a host that has seen the whole plan; what was asked
\* for first decides what a finalization may still reach.
RequestInv ==
    /\ pc \in Startup => requested = "none"
    /\ pc \in Waits => \A i \in 1..PlanLength : i < at => Settled(i)
    /\ \/ pc = "request" /\ requested = "none"
       \/ request = "COMPLETED"
       => \A i \in 1..PlanLength : Settled(i)
    /\ request = "COMPLETED" => pc \notin Startup \cup {"request"}
    /\ pc = "request" => requested # "COMPLETED"
    /\ pc \in Finals \cup Ending \cup {"finalizing"} => request # "none" /\ requested # "none"
    /\ pc = "finalizing" => requested = request
    /\ pc \in Finals => /\ requested = "COMPLETED" => request = "COMPLETED"
                        /\ request = "ABORTED" => requested = "ABORTED"
    /\ reportOk => "artifacts-final" \in facts /\ recordsValid

\* The manifest is written once, from the request, and everything after it repeats it.
ManifestInv ==
    /\ pc \notin Ending \cup Over => manifest = "none"
    /\ pc \notin {"notify", "close"} \cup Over => committed = "none"
    /\ manifest # "none" => request # "none"
    /\ manifest = "COMPLETED" => request = "COMPLETED" /\ reportOk
    /\ request = "ABORTED" => manifest \in {"none", "ABORTED"}
    /\ committed # "none" => committed = manifest
    /\ pc \in {"publish", "notify"} => requested = manifest
    /\ "fsync" \notin Faults /\ manifest # "none" =>
         /\ pc \in Ending => requested = manifest
         /\ operator \in Terminals => operator = manifest
         /\ result \in Terminals => result = manifest
    /\ operator \in Terminals \/ result \in Terminals => pc \in Over

\* What the containers know of each other.
ContainerInv ==
    /\ pc \in Before => running = {} /\ quiescence = {}
    /\ "runtime-frozen" \in facts => Modules \subseteq quiescence /\ request # "none"
    /\ runState = "FINALIZING" => request # "none"
    /\ "orchestration" \in quiescence => node = "loop" /\ runState = "FINALIZING"
    /\ \A p \in Peers \ {"scorekeeper"} : p \in quiescence => p \notin running
    /\ "scorekeeper" \in quiescence => scored \/ ~ Flight
    /\ "score-finished" \in facts => scored
    /\ "artifacts-final" \in facts <=> recorder \in {"final", "notified"}
    /\ "artifacts-final" \in facts => "runtime-frozen" \in facts
    /\ "terminal-notified" \in facts => committed # "none" /\ "artifacts-final" \in facts

\* What the operator's commands may have seen.
CommandInv ==
    /\ command \in {"requesting", "recheck", "reading"} => "abort" \in Faults
    /\ cached \in Terminals => pc \in Over
    /\ answer \in Terminals /\ ~ ({"abort", "fsync"} \subseteq Faults)
       => (pc \in Over /\ manifest = "none") \/ answer = manifest

RunInv ==
    /\ RunTypeOK
    /\ LifecycleInv
    /\ RequestInv
    /\ ManifestInv
    /\ ContainerInv
    /\ CommandInv

-----------------------------------------------------------------------------
(* The lifecycle and the plan. *)

\* RunLifecycle.apply, along the way start() takes.
LEMMA LifecycleSteps ==
    /\ Apply(In("CREATED"), "START") = In("STARTING")
    /\ Apply(In("STARTING"), "MODULES_READY") = In("READY")
    /\ Apply(In("READY"), "CLOCK_STARTED") = In("RUNNING")
    /\ \A s \in Live : \A t \in Terminals :
         t # "COMPLETED" \/ s = "RUNNING" =>
           Apply(In(s), EventOf(t)) = [state |-> "FINALIZING", pending |-> t]
    /\ \A t \in Terminals :
         LET ending == [state |-> "FINALIZING", pending |-> t]
         IN /\ Apply(ending, "ARTIFACTS_FINALIZED") = In(t)
            /\ Apply(ending, "FINALIZATION_FAILED") = In("FAILED")
  BY DEF Apply, In, EventOf, TerminalOf, Live, Terminals

\* The plan, fact by fact.
LEMMA PlanFacts ==
    /\ DOMAIN WaitPlan = 1..PlanLength /\ Len(WaitPlan) = PlanLength
    /\ PlanLength \in {3, 9} /\ ReadyAt \in {1, 2} /\ RunningAt \in {2, 6}
    /\ \A i \in 1..PlanLength :
         /\ WaitPlan[i] \in StatusNames
         /\ WaitPlan[i] = (IF Flight THEN "gazebo-ready" ELSE "artifacts-ready") <=> i = ReadyAt
         /\ WaitPlan[i] = "runtime-running" <=> i = RunningAt
         /\ WaitPlan[i] \in {"mission-finished", "score-finished"} =>
              \E j \in 1..PlanLength : j < i /\ WaitPlan[j] = "source-finished"
<1>1. CASE Flight
  BY <1>1 DEF WaitPlan, PlanLength, ReadyAt, RunningAt, StatusNames
<1>2. CASE ~ Flight
  BY <1>2 DEF WaitPlan, PlanLength, ReadyAt, RunningAt, StatusNames
<1>3. QED
  BY <1>1, <1>2

-----------------------------------------------------------------------------
(* Steps of the containers. *)

\* The status files only grow, what is stamped stays so, and so do the records.
StatusGrows ==
    /\ facts \subseteq facts'
    /\ \A name \in Stamped : name \in facts => stamps'[name] = stamps[name]
    /\ "artifacts-final" \in facts => recordsValid' = recordsValid

\* The step that SilentAfterFreeze allows.
Silent ==
    "runtime-frozen" \in facts =>
      /\ stamps' = stamps
      /\ facts' \ facts \subseteq {"artifacts-ready", "artifacts-final",
                               "terminal-notified", "runtime-failure"}
      /\ "runtime-failure" \in facts' \ facts => recorder' = "blocked" \/ failureWritten'

\* What a step of a container does to what it does not own.
ContainerStep ==
    /\ StoreTypeOK' /\ ContainerInv' /\ StatusGrows /\ Silent
    /\ UNCHANGED <<scenario, controllerVars, controlVars>>

\* A fact that start() accepted stays acceptable.
LEMMA SettledStays ==
    ASSUME StatusGrows, UNCHANGED scenario
    PROVE  /\ PlanLength' = PlanLength /\ Len(WaitPlan)' = Len(WaitPlan)
           /\ \A i \in 1..PlanLength : Settled(i) => Settled(i)'
<1>1. Flight' = Flight /\ WaitPlan' = WaitPlan
  BY DEF Flight, WaitPlan
<1>2. ASSUME NEW i \in 1..PlanLength, Settled(i) PROVE Settled(i)'
  <2>1. WaitPlan'[i] \in facts'
    BY <1>1, <1>2 DEF Settled, StatusGrows
  <2>2. StampsAgree(WaitPlan[i])'
    BY <1>1, <1>2 DEF Settled, StatusGrows, StampsAgree, Stamped
  <2>3. WaitPlan'[i] \in {"mission-finished", "score-finished"} => "source-finished" \in facts'
    BY <1>1, <1>2 DEF Settled, StatusGrows
  <2>4. QED
    BY <1>1, <2>1, <2>2, <2>3 DEF Settled
<1>3. QED
  BY <1>1, <1>2 DEF PlanLength

LEMMA OrchestrationStep ==
    ASSUME StoreTypeOK, OrchestrationTypeOK, ContainerInv,
           OrchestrationNext \/ Discover, UNCHANGED <<scenario, controllerVars, artifactsVars, peerVars>>
    PROVE  OrchestrationTypeOK' /\ ContainerStep
<1> USE DEF StoreTypeOK, OrchestrationTypeOK, StatusGrows, Silent, ContainerStep,
            statusVars, controlVars, topicVars, storeVars, orchestrationVars, artifactsVars,
            peerVars, controllerVars, hostVars, commandVars,
            WriteStatus, WriteQuiescence
<1>1. CASE BarrierPasses
  BY <1>1 DEF BarrierPasses, ContainerInv, Flight
<1>2. CASE BarrierPreempted
  BY <1>2 DEF BarrierPreempted, ContainerInv, Flight
<1>3. CASE BarrierExpires
  BY <1>3 DEF BarrierExpires, ContainerInv, Flight, Modules, StatusNames
<1>4. CASE AcceptArtifactStatus
  BY <1>4 DEF AcceptArtifactStatus, ContainerInv, Flight
<1>5. CASE AcceptClock
  BY <1>5 DEF AcceptClock, ContainerInv, Flight, Modules, StatusNames
<1>6. CASE PollReady
  BY <1>6 DEF PollReady, Looping, ContainerInv, Flight
<1>7. CASE PollRunning
  BY <1>7 DEF PollRunning, Looping, ContainerInv, Flight, Modules, StatusNames
<1>8. CASE PollFinalizing
  BY <1>8 DEF PollFinalizing, Looping, ContainerInv, Flight, Modules, Peers
<1>9. CASE PollFreeze
  BY <1>9 DEF PollFreeze, Looping, ContainerInv, Flight, StatusNames
<1>10. CASE PollTerminal
  BY <1>10 DEF PollTerminal, Looping, ContainerInv, Flight
<1>11. CASE Discover
  BY <1>11 DEF Discover, ContainerInv, Flight
<1>12. QED
  BY <1>1, <1>2, <1>3, <1>4, <1>5, <1>6, <1>7, <1>8, <1>9, <1>10, <1>11 DEF OrchestrationNext

LEMMA ArtifactsStep ==
    ASSUME StoreTypeOK, ArtifactsTypeOK, ContainerInv,
           ArtifactsNext, UNCHANGED <<scenario, controllerVars, orchestrationVars, peerVars>>
    PROVE  ArtifactsTypeOK' /\ ContainerStep
<1> USE DEF StoreTypeOK, ArtifactsTypeOK, RecorderStates, StatusGrows, Silent, ContainerStep,
            statusVars, controlVars, topicVars, storeVars, orchestrationVars, artifactsVars,
            peerVars, controllerVars, hostVars, commandVars,
            WriteStatus, WriteArtifactsFinal
<1>1. CASE StartRecorders
  <2>1. /\ recorder = "created" /\ recorder' = "recording" /\ failureWritten' \in BOOLEAN
        /\ \/ facts' = facts
           \/ facts' = facts \cup {"runtime-failure"} /\ failureWritten'
        /\ UNCHANGED <<stamps, recordsValid, quiescence, controlVars, running, topicVars, sawStarting>>
    BY <1>1 DEF StartRecorders
  <2>2. ArtifactsTypeOK' /\ StoreTypeOK'
    BY <2>1 DEF StatusNames
  <2>3. ContainerInv'
    BY <2>1 DEF ContainerInv, Flight
  <2>4. QED
    BY <2>1, <2>2, <2>3
<1>2. CASE SeeStarting
  BY <1>2 DEF SeeStarting, ContainerInv, Flight
<1>3. CASE AnnounceRecording
  BY <1>3 DEF AnnounceRecording, ContainerInv, Flight
<1>4. CASE BecomeReady
  BY <1>4 DEF BecomeReady, ContainerInv, Flight, StatusNames
<1>5. CASE RecorderFails
  BY <1>5 DEF RecorderFails, ContainerInv, Flight, StatusNames
<1>6. CASE Finalize
  BY <1>6 DEF Finalize, ContainerInv, Flight, StatusNames
<1>7. CASE FinalizeBlocked
  BY <1>7 DEF FinalizeBlocked, ContainerInv, Flight, StatusNames
<1>8. CASE NotifyTerminal
  BY <1>8 DEF NotifyTerminal, ContainerInv, Flight, StatusNames
<1>9. QED
  BY <1>1, <1>2, <1>3, <1>4, <1>5, <1>6, <1>7, <1>8 DEF ArtifactsNext

LEMMA PeersStep ==
    ASSUME StoreTypeOK, PeersTypeOK, ContainerInv,
           PeersNext, UNCHANGED <<scenario, controllerVars, orchestrationVars, artifactsVars>>
    PROVE  PeersTypeOK' /\ ContainerStep
<1> USE DEF StoreTypeOK, PeersTypeOK, StatusGrows, Silent, ContainerStep, Stamped,
            statusVars, controlVars, topicVars, storeVars, orchestrationVars, artifactsVars,
            peerVars, controllerVars, hostVars, commandVars,
            WriteStatus, WriteStamped, WriteQuiescence, WriteFailureAndQuiescence
<1>1. CASE GazeboReady
  BY <1>1 DEF GazeboReady, ContainerInv, Flight, Modules, Peers, StatusNames
<1>2. CASE GazeboSeesState
  <2>1. /\ "gazebo" \in running /\ gazebo' \in {gazebo, runState} /\ runState # "CREATED"
        /\ gazeboFailed' \in BOOLEAN /\ facts' \in {facts, facts \cup {"runtime-failure"}}
        /\ UNCHANGED <<stamps, recordsValid, quiescence, controlVars, running, topicVars, scored>>
        /\ gazebo' = gazebo \/ gazebo' = runState
    BY <1>2 DEF GazeboSeesState
  <2>2. PeersTypeOK' /\ StoreTypeOK'
    BY <2>1 DEF StatusNames
  <2>3. ContainerInv' /\ "runtime-frozen" \notin facts
    BY <2>1 DEF ContainerInv, Flight, Modules, Peers
  <2>4. QED
    BY <2>1, <2>2, <2>3
<1>3. CASE ArduPilotReady \/ CompanionReady
  <2>1. ASSUME NEW p \in {"ardupilot_sitl", "companion"},
               NEW name \in {"ardupilot-ready", "companion-ready"}, PassiveReady(p, name)
        PROVE  PeersTypeOK' /\ ContainerStep
    BY <2>1 DEF PassiveReady, ContainerInv, Flight, Modules, Peers, StatusNames
  <2>2. QED
    BY <1>3, <2>1 DEF ArduPilotReady, CompanionReady
<1>4. CASE MissionReady
  BY <1>4 DEF MissionReady, ContainerInv, Flight, Modules, Peers, StatusNames
<1>5. CASE SourceFinished
  BY <1>5 DEF SourceFinished, ContainerInv, Flight, Modules, Peers, StatusNames
<1>6. CASE MissionFinished
  BY <1>6 DEF MissionFinished, ContainerInv, Flight, Modules, Peers, StatusNames
<1>7. CASE ScoreFinished
  <2>1. /\ Flight /\ ~ scored /\ scored' = TRUE
        /\ \/ /\ facts' = facts \cup {"score-finished"}
              /\ \E t \in 0..MaxStamp : stamps' = [stamps EXCEPT !["score-finished"] = t]
           \/ facts' = facts \cup {"runtime-failure"} /\ stamps' = stamps
        /\ UNCHANGED <<recordsValid, quiescence, controlVars, running, topicVars, gazebo,
                       gazeboFailed>>
    <3>1. stamps["source-finished"] \in 0..MaxStamp
      OBVIOUS
    <3>2. QED
      BY <1>7, <3>1 DEF ScoreFinished
  <2>2. PeersTypeOK' /\ StoreTypeOK'
    <3>1. stamps' \in [Stamped -> 0..MaxStamp]
      BY <2>1
    <3>2. facts' \subseteq StatusNames
      BY <2>1 DEF StatusNames
    <3>3. QED
      BY <2>1, <3>1, <3>2
  <2>3. /\ ContainerInv' /\ "runtime-frozen" \notin facts /\ "score-finished" \notin facts
    BY <2>1 DEF ContainerInv, Flight, Modules, Peers
  <2>4. \A name \in Stamped : name \in facts => stamps'[name] = stamps[name]
    BY <2>1, <2>3
  <2>5. QED
    BY <2>1, <2>2, <2>3, <2>4
<1>8. CASE GazeboFails
  BY <1>8 DEF GazeboFails, ContainerInv, Flight, Modules, Peers, StatusNames
<1>9. CASE ScoreAtFinalization
  <2>1. /\ Flight /\ ~ scored /\ scored' = TRUE
        /\ \/ /\ facts' = facts \cup {"score-finished"}
              /\ \E t \in 0..MaxStamp : stamps' = [stamps EXCEPT !["score-finished"] = t]
           \/ facts' = facts \cup {"runtime-failure"} /\ stamps' = stamps
        /\ UNCHANGED <<recordsValid, quiescence, controlVars, running, topicVars, gazebo,
                       gazeboFailed>>
    <3>1. \A t \in 1..MaxStamp : t \in 0..MaxStamp
      BY StoreAssumption
    <3>2. CASE /\ "source-finished" \in facts
               /\ \E t \in 1..MaxStamp : WriteStamped("score-finished", t)
      BY <1>9, <3>1, <3>2 DEF ScoreAtFinalization
    <3>3. CASE WriteStatus("runtime-failure")
      BY <1>9, <3>3 DEF ScoreAtFinalization
    <3>4. QED
      BY <1>9, <3>2, <3>3 DEF ScoreAtFinalization
  <2>2. PeersTypeOK' /\ StoreTypeOK'
    <3>1. stamps' \in [Stamped -> 0..MaxStamp]
      BY <2>1
    <3>2. facts' \subseteq StatusNames
      BY <2>1 DEF StatusNames
    <3>3. QED
      BY <2>1, <3>1, <3>2
  <2>3. /\ ContainerInv' /\ "runtime-frozen" \notin facts /\ "score-finished" \notin facts
    BY <2>1 DEF ContainerInv, Flight, Modules, Peers
  <2>4. \A name \in Stamped : name \in facts => stamps'[name] = stamps[name]
    BY <2>1, <2>3
  <2>5. QED
    BY <2>1, <2>2, <2>3, <2>4
<1>10. CASE ScorekeeperExits
  BY <1>10 DEF ScorekeeperExits, ContainerInv, Flight
<1>11. ASSUME NEW p \in Peers, PeerFails(p) PROVE PeersTypeOK' /\ ContainerStep
  BY <1>11 DEF PeerFails, ContainerInv, Flight, Modules, Peers, StatusNames
<1>12. ASSUME NEW p \in Peers, PeerRaises(p) PROVE PeersTypeOK' /\ ContainerStep
  BY <1>12 DEF PeerRaises, ContainerInv, Flight, Modules, Peers
<1>13. ASSUME NEW p \in Peers, PeerCrashes(p) PROVE PeersTypeOK' /\ ContainerStep
  BY <1>13 DEF PeerCrashes, ContainerInv, Flight
<1>14. ASSUME NEW p \in Peers, Quiesce(p) PROVE PeersTypeOK' /\ ContainerStep
  BY <1>14 DEF Quiesce, ContainerInv, Flight, Modules, Peers
<1>15. ASSUME NEW p \in Peers, StopFails(p) PROVE PeersTypeOK' /\ ContainerStep
  <2>1. /\ p \in {"companion", "ardupilot_sitl", "gazebo"} /\ p \in running
        /\ facts' = facts \cup {"runtime-failure"} /\ running' \subseteq running
        /\ gazebo' \in {gazebo, "STUCK"} /\ gazeboFailed' \in BOOLEAN
        /\ UNCHANGED <<stamps, recordsValid, quiescence, controlVars, topicVars, scored>>
    BY <1>15 DEF StopFails
  <2>2. PeersTypeOK' /\ StoreTypeOK'
    BY <2>1 DEF StatusNames
  <2>3. ContainerInv' /\ "runtime-frozen" \notin facts
    BY <2>1 DEF ContainerInv, Flight, Modules, Peers
  <2>4. QED
    BY <2>1, <2>2, <2>3
<1>16. QED
  BY <1>1, <1>2, <1>3, <1>4, <1>5, <1>6, <1>7, <1>8, <1>9, <1>10, <1>11, <1>12, <1>13,
     <1>14, <1>15 DEF PeersNext

-----------------------------------------------------------------------------
(* The host's side of the invariant. *)

HostInv == LifecycleInv /\ RequestInv /\ ManifestInv /\ CommandInv

\* A container's step leaves it alone.
LEMMA ContainersKeepHost ==
    ASSUME ControllerTypeOK, HostInv, ContainerStep
    PROVE  ControllerTypeOK' /\ HostInv'
<1>1. /\ Flight' = Flight /\ WaitPlan' = WaitPlan /\ Faults' = Faults
      /\ ReadyAt' = ReadyAt /\ RunningAt' = RunningAt /\ Stage' = Stage
  BY DEF ContainerStep, Flight, WaitPlan, Faults, ReadyAt, RunningAt, Stage,
         controllerVars, hostVars
<1>2. /\ PlanLength' = PlanLength
      /\ \A i \in 1..PlanLength : Settled(i) => Settled(i)'
  BY SettledStays DEF ContainerStep
<1>3. UNCHANGED <<pc, at, composeStarted, requested, lifecycle, reportOk, expired, result,
                  command, cached, answer, request, committed, manifest, operator>>
  BY DEF ContainerStep, controllerVars, hostVars, commandVars, controlVars
<1>4. ControllerTypeOK'
  BY <1>1, <1>3 DEF ControllerTypeOK
<1>5. LifecycleInv'
  BY <1>1, <1>3 DEF HostInv, LifecycleInv
<1>6. RequestInv'
  BY <1>2, <1>3 DEF HostInv, RequestInv, ContainerStep, StatusGrows
<1>7. ManifestInv'
  BY <1>1, <1>3 DEF HostInv, ManifestInv
<1>8. CommandInv'
  BY <1>1, <1>3 DEF HostInv, CommandInv
<1>9. QED
  BY <1>4, <1>5, <1>6, <1>7, <1>8 DEF HostInv

\* What a step of start() leaves alone.
HostFrame ==
    UNCHANGED <<scenario, commandVars, orchestrationVars, artifactsVars, peerVars>>

\* What follows from the frame and from unchanged status files.
LEMMA FrameFacts ==
    ASSUME HostFrame, UNCHANGED statusVars
    PROVE  /\ Flight' = Flight /\ Faults' = Faults /\ WaitPlan' = WaitPlan
           /\ ReadyAt' = ReadyAt /\ RunningAt' = RunningAt /\ PlanLength' = PlanLength
           /\ \A i \in 1..PlanLength : Settled(i) => Settled(i)'
<1>1. UNCHANGED <<scenario, facts, stamps, recordsValid>>
  BY DEF HostFrame, statusVars
<1>2. StatusGrows
  BY <1>1 DEF StatusGrows
<1>3. QED
  BY <1>1, <1>2, SettledStays DEF Flight, Faults, WaitPlan, ReadyAt, RunningAt

\* Lifecycle values are told apart by their state, and have their type.
LEMMA LifecycleValues ==
    /\ \A s : In(s).state = s /\ In(s).pending = "none"
    /\ \A s \in LifecycleStates :
         In(s) \in [state : LifecycleStates, pending : Terminals \cup {"none"}]
    /\ \A t \in Terminals : [state |-> "FINALIZING", pending |-> t]
         \in [state : LifecycleStates, pending : Terminals \cup {"none"}]
    /\ Live \subseteq LifecycleStates /\ Terminals \subseteq LifecycleStates
    /\ "CREATED" \in LifecycleStates /\ "FINALIZING" \in LifecycleStates
    /\ \A t \in Terminals : t \notin Live \cup {"CREATED", "FINALIZING", "none"}
  BY DEF In, LifecycleStates, Terminals, Live

\* Startup, up to the containers.
LEMMA StartupStep ==
    ASSUME RunInv, HostFrame, Begin \/ Prepare \/ ComposeUp \/ UpReturns
    PROVE  RunInv'
<1> USE DEF HostInv, HostFrame, Before, Startup, Waits, Finals, FinalWaits, Ending, Over, Stops,
            statusVars, controlVars, topicVars, storeVars, commandVars, orchestrationVars,
            artifactsVars, peerVars, hostVars, controllerVars
<1>a. StoreTypeOK /\ ControllerTypeOK /\ LifecycleInv /\ RequestInv /\ ManifestInv
      /\ ContainerInv /\ CommandInv
  BY DEF RunInv, RunTypeOK
<1>b. OrchestrationTypeOK' /\ ArtifactsTypeOK' /\ PeersTypeOK'
  BY DEF RunInv, RunTypeOK, OrchestrationTypeOK, ArtifactsTypeOK, PeersTypeOK
<1>1. CASE Begin
  <2>1. UNCHANGED statusVars
    BY <1>1 DEF Begin
  <2>2. LifecycleInv'
    BY <1>a, <1>1, <2>1, FrameFacts, LifecycleSteps, LifecycleValues
       DEF Begin, LifecycleInv, RequestInv, StoreTypeOK, ControllerTypeOK, Stage, Terminals,
           Live
  <2>3. RequestInv'
    BY <1>a, <1>1, <2>1, FrameFacts
       DEF Begin, RequestInv, StoreTypeOK, ControllerTypeOK, Terminals
  <2>4. ManifestInv'
    BY <1>a, <1>1, <2>1, FrameFacts, LifecycleValues
       DEF Begin, ManifestInv, LifecycleInv, RequestInv, StoreTypeOK, ControllerTypeOK,
           Terminals, Live
  <2>5. ContainerInv' /\ CommandInv'
    BY <1>a, <1>1, <2>1, FrameFacts
       DEF Begin, ManifestInv, RequestInv, ContainerInv, CommandInv, StoreTypeOK
  <2>6. StoreTypeOK' /\ ControllerTypeOK'
    BY <1>a, <1>1, <2>1, FrameFacts, LifecycleSteps, LifecycleValues, PlanFacts
       DEF Begin, LifecycleInv, RequestInv, StoreTypeOK, ControllerTypeOK, ProgramPoints,
           Terminals, Live
  <2>7. QED
    BY <1>b, <2>2, <2>3, <2>4, <2>5, <2>6 DEF RunInv, RunTypeOK
<1>2. CASE Prepare
  <2>1. UNCHANGED statusVars
    BY <1>2 DEF Prepare
  <2>2. LifecycleInv'
    BY <1>a, <1>2, <2>1, FrameFacts, LifecycleSteps, LifecycleValues
       DEF Prepare, LifecycleInv, RequestInv, StoreTypeOK, ControllerTypeOK, Stage, Terminals,
           Live
  <2>3. RequestInv'
    BY <1>a, <1>2, <2>1, FrameFacts
       DEF Prepare, RequestInv, StoreTypeOK, ControllerTypeOK, Terminals
  <2>4. ManifestInv'
    BY <1>a, <1>2, <2>1, FrameFacts, LifecycleValues
       DEF Prepare, ManifestInv, LifecycleInv, RequestInv, StoreTypeOK, ControllerTypeOK,
           Terminals, Live
  <2>5. ContainerInv' /\ CommandInv'
    BY <1>a, <1>2, <2>1, FrameFacts
       DEF Prepare, ManifestInv, RequestInv, ContainerInv, CommandInv, StoreTypeOK
  <2>6. StoreTypeOK' /\ ControllerTypeOK'
    BY <1>a, <1>2, <2>1, FrameFacts, LifecycleSteps, LifecycleValues, PlanFacts
       DEF Prepare, LifecycleInv, RequestInv, StoreTypeOK, ControllerTypeOK, ProgramPoints,
           Terminals, Live
  <2>7. QED
    BY <1>b, <2>2, <2>3, <2>4, <2>5, <2>6 DEF RunInv, RunTypeOK
<1>3. CASE ComposeUp
  <2>1. UNCHANGED statusVars
    BY <1>3 DEF ComposeUp
  <2>2. LifecycleInv'
    BY <1>a, <1>3, <2>1, FrameFacts, LifecycleSteps, LifecycleValues
       DEF ComposeUp, LifecycleInv, RequestInv, StoreTypeOK, ControllerTypeOK, Stage,
           Terminals, Live
  <2>3. RequestInv'
    BY <1>a, <1>3, <2>1, FrameFacts
       DEF ComposeUp, RequestInv, StoreTypeOK, ControllerTypeOK, Terminals
  <2>4. ManifestInv'
    BY <1>a, <1>3, <2>1, FrameFacts, LifecycleValues
       DEF ComposeUp, ManifestInv, LifecycleInv, RequestInv, StoreTypeOK, ControllerTypeOK,
           Terminals, Live
  <2>5. ContainerInv' /\ CommandInv'
    BY <1>a, <1>3, <2>1, FrameFacts
       DEF ComposeUp, ManifestInv, RequestInv, ContainerInv, CommandInv, StoreTypeOK
  <2>6. StoreTypeOK' /\ ControllerTypeOK'
    BY <1>a, <1>3, <2>1, FrameFacts, LifecycleSteps, LifecycleValues, PlanFacts
       DEF ComposeUp, LifecycleInv, RequestInv, StoreTypeOK, ControllerTypeOK, ProgramPoints,
           Terminals, Live
  <2>7. QED
    BY <1>b, <2>2, <2>3, <2>4, <2>5, <2>6 DEF RunInv, RunTypeOK
<1>4. CASE UpReturns
  <2>1. UNCHANGED statusVars
    BY <1>4 DEF UpReturns
  <2>2. LifecycleInv'
    BY <1>a, <1>4, <2>1, FrameFacts, LifecycleSteps, LifecycleValues, PlanFacts
       DEF UpReturns, LifecycleInv, RequestInv, StoreTypeOK, ControllerTypeOK, Stage,
           Terminals, Live
  <2>3. RequestInv'
    BY <1>a, <1>4, <2>1, FrameFacts, PlanFacts
       DEF UpReturns, LifecycleInv, RequestInv, StoreTypeOK, ControllerTypeOK, Terminals
  <2>4. ManifestInv'
    BY <1>a, <1>4, <2>1, FrameFacts, LifecycleValues
       DEF UpReturns, ManifestInv, LifecycleInv, RequestInv, StoreTypeOK, ControllerTypeOK,
           Terminals, Live
  <2>5. ContainerInv' /\ CommandInv'
    BY <1>a, <1>4, <2>1, FrameFacts
       DEF UpReturns, ManifestInv, RequestInv, ContainerInv, CommandInv, StoreTypeOK
  <2>6. StoreTypeOK' /\ ControllerTypeOK'
    <3>1. composeStarted' \in BOOLEAN
      BY <1>a, <1>4 DEF UpReturns, ControllerTypeOK
    <3>2. StoreTypeOK'
      BY <1>a, <1>4, <2>1, FrameFacts DEF UpReturns, StoreTypeOK
    <3>3. ControllerTypeOK'
      BY <1>a, <1>4, <3>1, FrameFacts DEF UpReturns, ControllerTypeOK, ProgramPoints, Terminals
    <3>4. QED
      BY <3>2, <3>3
  <2>7. QED
    BY <1>b, <2>2, <2>3, <2>4, <2>5, <2>6 DEF RunInv, RunTypeOK
<1>5. QED
  BY <1>1, <1>2, <1>3, <1>4

\* The lifecycle transition that follows the fact at the place start() has reached.
LEMMA ProgressSteps ==
    ASSUME at \in 1..PlanLength, lifecycle = In(Stage)
    PROVE  Progress(Awaited) =
             In(IF at < ReadyAt THEN "STARTING" ELSE IF at < RunningAt THEN "READY" ELSE "RUNNING")
<1>1. /\ Awaited = (IF Flight THEN "gazebo-ready" ELSE "artifacts-ready") <=> at = ReadyAt
      /\ Awaited = "runtime-running" <=> at = RunningAt
      /\ ReadyAt \in Nat /\ RunningAt \in Nat /\ at \in Nat /\ ReadyAt < RunningAt
  <2>1. ReadyAt < RunningAt
    BY DEF ReadyAt, RunningAt
  <2>2. QED
    BY <2>1, PlanFacts DEF Awaited
<1>2. CASE at = ReadyAt
  BY <1>1, <1>2, LifecycleSteps DEF Progress, Stage
<1>3. CASE at = RunningAt
  BY <1>1, <1>3, LifecycleSteps DEF Progress, Stage
<1>4. CASE at # ReadyAt /\ at # RunningAt
  BY <1>1, <1>4 DEF Progress, Stage
<1>5. QED
  BY <1>2, <1>3, <1>4

\* Reading the awaited fact.
LEMMA ReadStatusStep ==
    ASSUME RunInv, HostFrame, ReadStatus
    PROVE  RunInv'
<1> USE DEF HostInv, HostFrame, Before, Startup, Waits, Finals, FinalWaits, Ending, Over, Stops,
            statusVars, controlVars, topicVars, storeVars, commandVars, orchestrationVars,
            artifactsVars, peerVars, hostVars, controllerVars
<1>a. StoreTypeOK /\ ControllerTypeOK /\ LifecycleInv /\ RequestInv /\ ManifestInv
      /\ ContainerInv /\ CommandInv
  BY DEF RunInv, RunTypeOK
<1>b. OrchestrationTypeOK' /\ ArtifactsTypeOK' /\ PeersTypeOK'
  BY DEF RunInv, RunTypeOK, OrchestrationTypeOK, ArtifactsTypeOK, PeersTypeOK
<1>1. /\ pc = "read" /\ requested = "none" /\ lifecycle = In(Stage) /\ at \in 1..PlanLength
      /\ \A i \in 1..PlanLength : i < at => Settled(i)
      /\ request # "COMPLETED" /\ manifest = "none"
      /\ PlanLength \in Nat /\ ReadyAt \in Nat /\ RunningAt \in Nat
      /\ ReadyAt < RunningAt /\ RunningAt < PlanLength
  <2>1. ReadyAt < RunningAt /\ RunningAt < PlanLength
    BY DEF ReadyAt, RunningAt, PlanLength
  <2>2. QED
    BY <1>a, <2>1, PlanFacts
       DEF ReadStatus, LifecycleInv, RequestInv, ManifestInv, ControllerTypeOK
<1>2. /\ UNCHANGED <<statusVars, request, committed, manifest, running, topicVars, composeStarted,
                     reportOk, expired, result>>
      /\ UNCHANGED <<scenario, commandVars>>
  BY DEF ReadStatus
<1>3. \/ pc' = "observe" /\ UNCHANGED <<at, requested, lifecycle, operator>>
      \/ /\ lifecycle' = Progress(Awaited) /\ operator' = lifecycle'.state
         /\ pc' = "request" /\ requested' = "FAILED" /\ at' = at
      \/ /\ lifecycle' = Progress(Awaited) /\ operator' = lifecycle'.state
         /\ pc' = "request" /\ requested' = requested /\ at' = at
         /\ Settled(at) /\ at = PlanLength
      \/ /\ lifecycle' = Progress(Awaited) /\ operator' = lifecycle'.state
         /\ pc' = "observe" /\ requested' = requested /\ at' = at + 1
         /\ Settled(at) /\ at # PlanLength
  <2>1. ASSUME Awaited \in facts, StampsAgree(Awaited) PROVE Settled(at)
    <3>1. CASE WaitPlan[at] \in {"mission-finished", "score-finished"}
      <4>1. PICK j \in 1..PlanLength : j < at /\ WaitPlan[j] = "source-finished"
        BY <1>1, <3>1, PlanFacts
      <4>2. "source-finished" \in facts
        BY <1>1, <4>1 DEF Settled
      <4>3. QED
        BY <2>1, <4>2 DEF Settled, Awaited
    <3>2. CASE WaitPlan[at] \notin {"mission-finished", "score-finished"}
      BY <2>1, <3>2 DEF Settled, Awaited
    <3>3. QED
      BY <3>1, <3>2
  <2>2. QED
    BY <1>1, <2>1, PlanFacts DEF ReadStatus, WaitEnds
<1>4. \/ UNCHANGED <<lifecycle, operator>>
      \/ lifecycle' = Progress(Awaited) /\ lifecycle' \in {In(s) : s \in Live} /\ operator' \in Live
  BY <1>1, <1>3, ProgressSteps, LifecycleValues DEF Live
<1>5. LifecycleInv'
  <2>1. CASE pc' = "observe" /\ UNCHANGED <<at, requested, lifecycle, operator>>
    BY <1>1, <1>2, <2>1, FrameFacts DEF LifecycleInv, Stage
  <2>2. CASE pc' = "request"
    <3>1. lifecycle' \in {In(s) : s \in Live}
      BY <1>1, <1>4 DEF Stage, Live
    <3>2. requested' = "none" => lifecycle' = In("RUNNING")
      BY <1>1, <1>3, <2>2, ProgressSteps
    <3>3. QED
      BY <2>2, <3>1, <3>2 DEF LifecycleInv
  <2>3. CASE pc' = "observe" /\ at' = at + 1 /\ lifecycle' = Progress(Awaited)
    <3>1. lifecycle' = In(Stage')
      BY <1>1, <1>2, <2>3, FrameFacts, ProgressSteps DEF Stage
    <3>2. QED
      BY <2>3, <3>1 DEF LifecycleInv
  <2>4. QED
    BY <1>3, <2>1, <2>2, <2>3
<1>6. RequestInv'
  <2>1. /\ PlanLength' = PlanLength
        /\ \A i \in 1..PlanLength : Settled(i) => Settled(i)'
    BY <1>2, FrameFacts
  <2>2. pc' \in Waits => \A i \in 1..PlanLength : i < at' => Settled(i)'
    BY <1>1, <1>3, <2>1
  <2>3. pc' = "request" /\ requested' = "none" => \A i \in 1..PlanLength : Settled(i)'
    BY <1>1, <1>3, <2>1
  <2>4. QED
    BY <1>a, <1>1, <1>2, <1>3, <2>1, <2>2, <2>3 DEF RequestInv
<1>7. ManifestInv'
  <2>1. operator' \in Terminals => operator \in Terminals
    BY <1>4, LifecycleValues
  <2>2. QED
    BY <1>a, <1>1, <1>2, <1>3, <2>1, FrameFacts DEF ManifestInv
<1>8. ContainerInv' /\ CommandInv'
  BY <1>a, <1>1, <1>2, <1>3, FrameFacts DEF ManifestInv, ContainerInv, CommandInv
<1>9. StoreTypeOK' /\ ControllerTypeOK'
  <2>1. lifecycle' \in [state : LifecycleStates, pending : Terminals \cup {"none"}]
    BY <1>a, <1>4, LifecycleValues DEF ControllerTypeOK
  <2>2. operator' \in LifecycleStates
    BY <1>a, <1>4, LifecycleValues DEF StoreTypeOK
  <2>3. at' \in DOMAIN WaitPlan'
    BY <1>1, <1>2, <1>3, FrameFacts, PlanFacts
  <2>4. StoreTypeOK'
    BY <1>a, <1>2, <2>2, FrameFacts DEF StoreTypeOK
  <2>5. QED
    BY <1>a, <1>1, <1>2, <1>3, <2>1, <2>3, <2>4 DEF ControllerTypeOK, ProgramPoints, Terminals
<1>10. QED
  BY <1>b, <1>5, <1>6, <1>7, <1>8, <1>9 DEF RunInv, RunTypeOK

\* The waits of startup and mission.
LEMMA WaitStep ==
    ASSUME RunInv, HostFrame,
           ObserveRequest \/ InspectServices \/ ReadStatus \/ WaitTimesOut \/ WaitInterrupted
    PROVE  RunInv'
<1> USE DEF HostInv, HostFrame, Before, Startup, Waits, Finals, FinalWaits, Ending, Over, Stops,
            statusVars, controlVars, topicVars, storeVars, commandVars, orchestrationVars,
            artifactsVars, peerVars, hostVars, controllerVars
<1>a. StoreTypeOK /\ ControllerTypeOK /\ LifecycleInv /\ RequestInv /\ ManifestInv
      /\ ContainerInv /\ CommandInv
  BY DEF RunInv, RunTypeOK
<1>b. OrchestrationTypeOK' /\ ArtifactsTypeOK' /\ PeersTypeOK'
  BY DEF RunInv, RunTypeOK, OrchestrationTypeOK, ArtifactsTypeOK, PeersTypeOK
<1>1. CASE ObserveRequest
  <2>1. UNCHANGED statusVars
    BY <1>1 DEF ObserveRequest, WaitEnds, CauseForRequest
  <2>2. LifecycleInv'
    BY <1>a, <1>1, <2>1, FrameFacts, LifecycleSteps, LifecycleValues
       DEF ObserveRequest, WaitEnds, CauseForRequest, LifecycleInv, RequestInv, StoreTypeOK,
           ControllerTypeOK, Stage, Terminals, Live
  <2>3. RequestInv'
    BY <1>a, <1>1, <2>1, FrameFacts
       DEF ObserveRequest, WaitEnds, CauseForRequest, RequestInv, StoreTypeOK,
           ControllerTypeOK, Terminals
  <2>4. ManifestInv'
    BY <1>a, <1>1, <2>1, FrameFacts, LifecycleValues
       DEF ObserveRequest, WaitEnds, CauseForRequest, ManifestInv, LifecycleInv, RequestInv,
           StoreTypeOK, ControllerTypeOK, Terminals, Live
  <2>5. ContainerInv' /\ CommandInv'
    BY <1>a, <1>1, <2>1, FrameFacts
       DEF ObserveRequest, WaitEnds, CauseForRequest, ManifestInv, RequestInv, ContainerInv,
           CommandInv, StoreTypeOK
  <2>6. StoreTypeOK' /\ ControllerTypeOK'
    BY <1>a, <1>1, <2>1, FrameFacts, LifecycleSteps, LifecycleValues, PlanFacts
       DEF ObserveRequest, WaitEnds, CauseForRequest, LifecycleInv, RequestInv, StoreTypeOK,
           ControllerTypeOK, ProgramPoints, Terminals, Live
  <2>7. QED
    BY <1>b, <2>2, <2>3, <2>4, <2>5, <2>6 DEF RunInv, RunTypeOK
<1>2. CASE InspectServices
  <2>1. UNCHANGED statusVars
    BY <1>2 DEF InspectServices, WaitEnds
  <2>2. LifecycleInv'
    BY <1>a, <1>2, <2>1, FrameFacts, LifecycleSteps, LifecycleValues
       DEF InspectServices, WaitEnds, LifecycleInv, RequestInv, StoreTypeOK, ControllerTypeOK,
           Stage, Terminals, Live
  <2>3. RequestInv'
    BY <1>a, <1>2, <2>1, FrameFacts
       DEF InspectServices, WaitEnds, RequestInv, StoreTypeOK, ControllerTypeOK, Terminals
  <2>4. ManifestInv'
    BY <1>a, <1>2, <2>1, FrameFacts, LifecycleValues
       DEF InspectServices, WaitEnds, ManifestInv, LifecycleInv, RequestInv, StoreTypeOK,
           ControllerTypeOK, Terminals, Live
  <2>5. ContainerInv' /\ CommandInv'
    BY <1>a, <1>2, <2>1, FrameFacts
       DEF InspectServices, WaitEnds, ManifestInv, RequestInv, ContainerInv, CommandInv,
           StoreTypeOK
  <2>6. StoreTypeOK' /\ ControllerTypeOK'
    BY <1>a, <1>2, <2>1, FrameFacts, LifecycleSteps, LifecycleValues, PlanFacts
       DEF InspectServices, WaitEnds, LifecycleInv, RequestInv, StoreTypeOK, ControllerTypeOK,
           ProgramPoints, Terminals, Live
  <2>7. QED
    BY <1>b, <2>2, <2>3, <2>4, <2>5, <2>6 DEF RunInv, RunTypeOK
<1>3. CASE ReadStatus
  BY <1>3, ReadStatusStep
<1>4. CASE WaitTimesOut
  <2>1. UNCHANGED statusVars
    BY <1>4 DEF WaitTimesOut, WaitEnds
  <2>2. LifecycleInv'
    BY <1>a, <1>4, <2>1, FrameFacts, LifecycleSteps, LifecycleValues
       DEF WaitTimesOut, WaitEnds, LifecycleInv, RequestInv, StoreTypeOK, ControllerTypeOK,
           Stage, Terminals, Live
  <2>3. RequestInv'
    BY <1>a, <1>4, <2>1, FrameFacts
       DEF WaitTimesOut, WaitEnds, RequestInv, StoreTypeOK, ControllerTypeOK, Terminals
  <2>4. ManifestInv'
    BY <1>a, <1>4, <2>1, FrameFacts, LifecycleValues
       DEF WaitTimesOut, WaitEnds, ManifestInv, LifecycleInv, RequestInv, StoreTypeOK,
           ControllerTypeOK, Terminals, Live
  <2>5. ContainerInv' /\ CommandInv'
    BY <1>a, <1>4, <2>1, FrameFacts
       DEF WaitTimesOut, WaitEnds, ManifestInv, RequestInv, ContainerInv, CommandInv,
           StoreTypeOK
  <2>6. StoreTypeOK' /\ ControllerTypeOK'
    BY <1>a, <1>4, <2>1, FrameFacts, LifecycleSteps, LifecycleValues, PlanFacts
       DEF WaitTimesOut, WaitEnds, LifecycleInv, RequestInv, StoreTypeOK, ControllerTypeOK,
           ProgramPoints, Terminals, Live
  <2>7. QED
    BY <1>b, <2>2, <2>3, <2>4, <2>5, <2>6 DEF RunInv, RunTypeOK
<1>5. CASE WaitInterrupted
  <2>1. UNCHANGED statusVars
    BY <1>5 DEF WaitInterrupted, WaitEnds
  <2>2. LifecycleInv'
    BY <1>a, <1>5, <2>1, FrameFacts, LifecycleSteps, LifecycleValues
       DEF WaitInterrupted, WaitEnds, LifecycleInv, RequestInv, StoreTypeOK, ControllerTypeOK,
           Stage, Terminals, Live
  <2>3. RequestInv'
    BY <1>a, <1>5, <2>1, FrameFacts
       DEF WaitInterrupted, WaitEnds, RequestInv, StoreTypeOK, ControllerTypeOK, Terminals
  <2>4. ManifestInv'
    BY <1>a, <1>5, <2>1, FrameFacts, LifecycleValues
       DEF WaitInterrupted, WaitEnds, ManifestInv, LifecycleInv, RequestInv, StoreTypeOK,
           ControllerTypeOK, Terminals, Live
  <2>5. ContainerInv' /\ CommandInv'
    BY <1>a, <1>5, <2>1, FrameFacts
       DEF WaitInterrupted, WaitEnds, ManifestInv, RequestInv, ContainerInv, CommandInv,
           StoreTypeOK
  <2>6. StoreTypeOK' /\ ControllerTypeOK'
    BY <1>a, <1>5, <2>1, FrameFacts, LifecycleSteps, LifecycleValues, PlanFacts
       DEF WaitInterrupted, WaitEnds, LifecycleInv, RequestInv, StoreTypeOK, ControllerTypeOK,
           ProgramPoints, Terminals, Live
  <2>7. QED
    BY <1>b, <2>2, <2>3, <2>4, <2>5, <2>6 DEF RunInv, RunTypeOK
<1>6. QED
  BY <1>1, <1>2, <1>3, <1>4, <1>5

\* The request and FINALIZING.
LEMMA RequestStep ==
    ASSUME RunInv, HostFrame, RequestFinalization \/ EnterFinalizing
    PROVE  RunInv'
<1> USE DEF HostInv, HostFrame, Before, Startup, Waits, Finals, FinalWaits, Ending, Over, Stops,
            statusVars, controlVars, topicVars, storeVars, commandVars, orchestrationVars,
            artifactsVars, peerVars, hostVars, controllerVars
<1>a. StoreTypeOK /\ ControllerTypeOK /\ LifecycleInv /\ RequestInv /\ ManifestInv
      /\ ContainerInv /\ CommandInv
  BY DEF RunInv, RunTypeOK
<1>b. OrchestrationTypeOK' /\ ArtifactsTypeOK' /\ PeersTypeOK'
  BY DEF RunInv, RunTypeOK, OrchestrationTypeOK, ArtifactsTypeOK, PeersTypeOK
<1>1. CASE RequestFinalization
  <2>1. UNCHANGED statusVars
    BY <1>1 DEF RequestFinalization, FirstWins
  <2>2. LifecycleInv'
    BY <1>a, <1>1, <2>1, FrameFacts, LifecycleSteps, LifecycleValues
       DEF RequestFinalization, FirstWins, LifecycleInv, RequestInv, StoreTypeOK,
           ControllerTypeOK, Stage, Terminals, Live
  <2>3. RequestInv'
    BY <1>a, <1>1, <2>1, FrameFacts
       DEF RequestFinalization, FirstWins, RequestInv, StoreTypeOK, ControllerTypeOK, Terminals
  <2>4. ManifestInv'
    BY <1>a, <1>1, <2>1, FrameFacts, LifecycleValues
       DEF RequestFinalization, FirstWins, ManifestInv, LifecycleInv, RequestInv, StoreTypeOK,
           ControllerTypeOK, Terminals, Live
  <2>5. ContainerInv' /\ CommandInv'
    BY <1>a, <1>1, <2>1, FrameFacts
       DEF RequestFinalization, FirstWins, ManifestInv, RequestInv, ContainerInv, CommandInv,
           StoreTypeOK
  <2>6. StoreTypeOK' /\ ControllerTypeOK'
    BY <1>a, <1>1, <2>1, FrameFacts, LifecycleSteps, LifecycleValues, PlanFacts
       DEF RequestFinalization, FirstWins, LifecycleInv, RequestInv, StoreTypeOK,
           ControllerTypeOK, ProgramPoints, Terminals, Live
  <2>7. QED
    BY <1>b, <2>2, <2>3, <2>4, <2>5, <2>6 DEF RunInv, RunTypeOK
<1>2. CASE EnterFinalizing
  <2>1. UNCHANGED statusVars
    BY <1>2 DEF EnterFinalizing
  <2>2. LifecycleInv'
    BY <1>a, <1>2, <2>1, FrameFacts, LifecycleSteps, LifecycleValues
       DEF EnterFinalizing, LifecycleInv, RequestInv, StoreTypeOK, ControllerTypeOK, Stage,
           Terminals, Live
  <2>3. RequestInv'
    BY <1>a, <1>2, <2>1, FrameFacts
       DEF EnterFinalizing, RequestInv, StoreTypeOK, ControllerTypeOK, Terminals
  <2>4. ManifestInv'
    BY <1>a, <1>2, <2>1, FrameFacts, LifecycleSteps, LifecycleValues
       DEF EnterFinalizing, ManifestInv, LifecycleInv, RequestInv, StoreTypeOK,
           ControllerTypeOK, Terminals, Live
  <2>5. ContainerInv' /\ CommandInv'
    BY <1>a, <1>2, <2>1, FrameFacts
       DEF EnterFinalizing, ManifestInv, RequestInv, ContainerInv, CommandInv, StoreTypeOK
  <2>6. StoreTypeOK' /\ ControllerTypeOK'
    BY <1>a, <1>2, <2>1, FrameFacts, LifecycleSteps, LifecycleValues, PlanFacts
       DEF EnterFinalizing, LifecycleInv, RequestInv, StoreTypeOK, ControllerTypeOK,
           ProgramPoints, Terminals, Live
  <2>7. QED
    BY <1>b, <2>2, <2>3, <2>4, <2>5, <2>6 DEF RunInv, RunTypeOK
<1>3. QED
  BY <1>1, <1>2

\* Finalization up to the commit.
LEMMA FinalStep ==
    ASSUME RunInv, HostFrame,
           AwaitFrozen \/ AwaitArtifactsFinal \/ CaptureLogs \/ ReadReport \/ CollectProvenance
    PROVE  RunInv'
<1> USE DEF HostInv, HostFrame, Before, Startup, Waits, Finals, FinalWaits, Ending, Over, Stops,
            statusVars, controlVars, topicVars, storeVars, commandVars, orchestrationVars,
            artifactsVars, peerVars, hostVars, controllerVars
<1>a. StoreTypeOK /\ ControllerTypeOK /\ LifecycleInv /\ RequestInv /\ ManifestInv
      /\ ContainerInv /\ CommandInv
  BY DEF RunInv, RunTypeOK
<1>b. OrchestrationTypeOK' /\ ArtifactsTypeOK' /\ PeersTypeOK'
  BY DEF RunInv, RunTypeOK, OrchestrationTypeOK, ArtifactsTypeOK, PeersTypeOK
<1>1. CASE AwaitFrozen
  <2>1. UNCHANGED statusVars
    BY <1>1 DEF AwaitFrozen, AwaitFinalFact, Downgrade
  <2>2. LifecycleInv'
    BY <1>a, <1>1, <2>1, FrameFacts, LifecycleSteps, LifecycleValues
       DEF AwaitFrozen, AwaitFinalFact, Downgrade, LifecycleInv, RequestInv, StoreTypeOK,
           ControllerTypeOK, Stage, Terminals, Live
  <2>3. RequestInv'
    BY <1>a, <1>1, <2>1, FrameFacts
       DEF AwaitFrozen, AwaitFinalFact, Downgrade, RequestInv, StoreTypeOK, ControllerTypeOK,
           Terminals
  <2>4. ManifestInv'
    BY <1>a, <1>1, <2>1, FrameFacts, LifecycleValues
       DEF AwaitFrozen, AwaitFinalFact, Downgrade, ManifestInv, LifecycleInv, RequestInv,
           StoreTypeOK, ControllerTypeOK, Terminals, Live
  <2>5. ContainerInv' /\ CommandInv'
    BY <1>a, <1>1, <2>1, FrameFacts
       DEF AwaitFrozen, AwaitFinalFact, Downgrade, ManifestInv, RequestInv, ContainerInv,
           CommandInv, StoreTypeOK
  <2>6. StoreTypeOK' /\ ControllerTypeOK'
    BY <1>a, <1>1, <2>1, FrameFacts, LifecycleSteps, LifecycleValues, PlanFacts
       DEF AwaitFrozen, AwaitFinalFact, Downgrade, LifecycleInv, RequestInv, StoreTypeOK,
           ControllerTypeOK, ProgramPoints, Terminals, Live
  <2>7. QED
    BY <1>b, <2>2, <2>3, <2>4, <2>5, <2>6 DEF RunInv, RunTypeOK
<1>2. CASE AwaitArtifactsFinal
  <2>1. UNCHANGED statusVars
    BY <1>2 DEF AwaitArtifactsFinal, AwaitFinalFact, Downgrade
  <2>2. LifecycleInv'
    BY <1>a, <1>2, <2>1, FrameFacts, LifecycleSteps, LifecycleValues
       DEF AwaitArtifactsFinal, AwaitFinalFact, Downgrade, LifecycleInv, RequestInv,
           StoreTypeOK, ControllerTypeOK, Stage, Terminals, Live
  <2>3. RequestInv'
    BY <1>a, <1>2, <2>1, FrameFacts
       DEF AwaitArtifactsFinal, AwaitFinalFact, Downgrade, RequestInv, StoreTypeOK,
           ControllerTypeOK, Terminals
  <2>4. ManifestInv'
    BY <1>a, <1>2, <2>1, FrameFacts, LifecycleValues
       DEF AwaitArtifactsFinal, AwaitFinalFact, Downgrade, ManifestInv, LifecycleInv,
           RequestInv, StoreTypeOK, ControllerTypeOK, Terminals, Live
  <2>5. ContainerInv' /\ CommandInv'
    BY <1>a, <1>2, <2>1, FrameFacts
       DEF AwaitArtifactsFinal, AwaitFinalFact, Downgrade, ManifestInv, RequestInv,
           ContainerInv, CommandInv, StoreTypeOK
  <2>6. StoreTypeOK' /\ ControllerTypeOK'
    BY <1>a, <1>2, <2>1, FrameFacts, LifecycleSteps, LifecycleValues, PlanFacts
       DEF AwaitArtifactsFinal, AwaitFinalFact, Downgrade, LifecycleInv, RequestInv,
           StoreTypeOK, ControllerTypeOK, ProgramPoints, Terminals, Live
  <2>7. QED
    BY <1>b, <2>2, <2>3, <2>4, <2>5, <2>6 DEF RunInv, RunTypeOK
<1>3. CASE CaptureLogs
  <2>1. UNCHANGED statusVars
    BY <1>3 DEF CaptureLogs, Downgrade
  <2>2. LifecycleInv'
    BY <1>a, <1>3, <2>1, FrameFacts, LifecycleSteps, LifecycleValues
       DEF CaptureLogs, Downgrade, LifecycleInv, RequestInv, StoreTypeOK, ControllerTypeOK,
           Stage, Terminals, Live
  <2>3. RequestInv'
    BY <1>a, <1>3, <2>1, FrameFacts
       DEF CaptureLogs, Downgrade, RequestInv, StoreTypeOK, ControllerTypeOK, Terminals
  <2>4. ManifestInv'
    BY <1>a, <1>3, <2>1, FrameFacts, LifecycleValues
       DEF CaptureLogs, Downgrade, ManifestInv, LifecycleInv, RequestInv, StoreTypeOK,
           ControllerTypeOK, Terminals, Live
  <2>5. ContainerInv' /\ CommandInv'
    BY <1>a, <1>3, <2>1, FrameFacts
       DEF CaptureLogs, Downgrade, ManifestInv, RequestInv, ContainerInv, CommandInv,
           StoreTypeOK
  <2>6. StoreTypeOK' /\ ControllerTypeOK'
    BY <1>a, <1>3, <2>1, FrameFacts, LifecycleSteps, LifecycleValues, PlanFacts
       DEF CaptureLogs, Downgrade, LifecycleInv, RequestInv, StoreTypeOK, ControllerTypeOK,
           ProgramPoints, Terminals, Live
  <2>7. QED
    BY <1>b, <2>2, <2>3, <2>4, <2>5, <2>6 DEF RunInv, RunTypeOK
<1>4. CASE ReadReport
  <2>1. UNCHANGED statusVars
    BY <1>4 DEF ReadReport, Downgrade
  <2>2. LifecycleInv'
    BY <1>a, <1>4, <2>1, FrameFacts, LifecycleSteps, LifecycleValues
       DEF ReadReport, Downgrade, LifecycleInv, RequestInv, StoreTypeOK, ControllerTypeOK,
           Stage, Terminals, Live
  <2>3. RequestInv'
    BY <1>a, <1>4, <2>1, FrameFacts
       DEF ReadReport, Downgrade, RequestInv, StoreTypeOK, ControllerTypeOK, Terminals
  <2>4. ManifestInv'
    BY <1>a, <1>4, <2>1, FrameFacts, LifecycleValues
       DEF ReadReport, Downgrade, ManifestInv, LifecycleInv, RequestInv, StoreTypeOK,
           ControllerTypeOK, Terminals, Live
  <2>5. ContainerInv' /\ CommandInv'
    BY <1>a, <1>4, <2>1, FrameFacts
       DEF ReadReport, Downgrade, ManifestInv, RequestInv, ContainerInv, CommandInv,
           StoreTypeOK
  <2>6. StoreTypeOK' /\ ControllerTypeOK'
    <3>1. reportOk' \in BOOLEAN
      BY <1>a, <1>4 DEF ReadReport, ControllerTypeOK
    <3>2. StoreTypeOK'
      BY <1>a, <1>4, <2>1, FrameFacts DEF ReadReport, StoreTypeOK
    <3>3. ControllerTypeOK'
      BY <1>a, <1>4, <3>1, FrameFacts
         DEF ReadReport, Downgrade, ControllerTypeOK, ProgramPoints, Terminals
    <3>4. QED
      BY <3>2, <3>3
  <2>7. QED
    BY <1>b, <2>2, <2>3, <2>4, <2>5, <2>6 DEF RunInv, RunTypeOK
<1>5. CASE CollectProvenance
  <2>1. UNCHANGED statusVars
    BY <1>5 DEF CollectProvenance, Downgrade
  <2>2. LifecycleInv'
    BY <1>a, <1>5, <2>1, FrameFacts, LifecycleSteps, LifecycleValues
       DEF CollectProvenance, Downgrade, LifecycleInv, RequestInv, StoreTypeOK,
           ControllerTypeOK, Stage, Terminals, Live
  <2>3. RequestInv'
    BY <1>a, <1>5, <2>1, FrameFacts
       DEF CollectProvenance, Downgrade, RequestInv, StoreTypeOK, ControllerTypeOK, Terminals
  <2>4. ManifestInv'
    BY <1>a, <1>5, <2>1, FrameFacts, LifecycleValues
       DEF CollectProvenance, Downgrade, ManifestInv, LifecycleInv, RequestInv, StoreTypeOK,
           ControllerTypeOK, Terminals, Live
  <2>5. ContainerInv' /\ CommandInv'
    BY <1>a, <1>5, <2>1, FrameFacts
       DEF CollectProvenance, Downgrade, ManifestInv, RequestInv, ContainerInv, CommandInv,
           StoreTypeOK
  <2>6. StoreTypeOK' /\ ControllerTypeOK'
    BY <1>a, <1>5, <2>1, FrameFacts, LifecycleSteps, LifecycleValues, PlanFacts
       DEF CollectProvenance, Downgrade, LifecycleInv, RequestInv, StoreTypeOK,
           ControllerTypeOK, ProgramPoints, Terminals, Live
  <2>7. QED
    BY <1>b, <2>2, <2>3, <2>4, <2>5, <2>6 DEF RunInv, RunTypeOK
<1>6. QED
  BY <1>1, <1>2, <1>3, <1>4, <1>5

\* The commit of the manifest.
LEMMA CommitStep ==
    ASSUME RunInv, HostFrame, CommitManifest \/ CommitRaises
    PROVE  RunInv'
<1> USE DEF HostInv, HostFrame, Before, Startup, Waits, Finals, FinalWaits, Ending, Over, Stops,
            statusVars, controlVars, topicVars, storeVars, commandVars, orchestrationVars,
            artifactsVars, peerVars, hostVars, controllerVars
<1>a. StoreTypeOK /\ ControllerTypeOK /\ LifecycleInv /\ RequestInv /\ ManifestInv
      /\ ContainerInv /\ CommandInv
  BY DEF RunInv, RunTypeOK
<1>b. OrchestrationTypeOK' /\ ArtifactsTypeOK' /\ PeersTypeOK'
  BY DEF RunInv, RunTypeOK, OrchestrationTypeOK, ArtifactsTypeOK, PeersTypeOK
<1>1. CASE CommitManifest
  <2>1. UNCHANGED statusVars
    BY <1>1 DEF CommitManifest, EffectiveTerminal, RequiredArtifacts, Downgrade
  <2>2. LifecycleInv'
    BY <1>a, <1>1, <2>1, FrameFacts, LifecycleSteps, LifecycleValues
       DEF CommitManifest, EffectiveTerminal, RequiredArtifacts, Downgrade, LifecycleInv,
           RequestInv, StoreTypeOK, ControllerTypeOK, Stage, Terminals, Live
  <2>3. RequestInv'
    BY <1>a, <1>1, <2>1, FrameFacts
       DEF CommitManifest, EffectiveTerminal, RequiredArtifacts, Downgrade, RequestInv,
           StoreTypeOK, ControllerTypeOK, Terminals
  <2>4. ManifestInv'
    BY <1>a, <1>1, <2>1, FrameFacts, LifecycleValues
       DEF CommitManifest, EffectiveTerminal, RequiredArtifacts, Downgrade, ManifestInv,
           LifecycleInv, RequestInv, StoreTypeOK, ControllerTypeOK, Terminals, Live
  <2>5. ContainerInv' /\ CommandInv'
    BY <1>a, <1>1, <2>1, FrameFacts
       DEF CommitManifest, ManifestInv, ContainerInv, CommandInv, Terminals
  <2>6. StoreTypeOK' /\ ControllerTypeOK'
    <3>1. requested \in Terminals /\ request \in Terminals
          /\ lifecycle = [state |-> "FINALIZING", pending |-> request]
      BY <1>a, <1>1 DEF CommitManifest, LifecycleInv, RequestInv, StoreTypeOK, ControllerTypeOK
    <3>2. manifest' \in Terminals
      BY <1>1, <3>1 DEF CommitManifest, EffectiveTerminal, Downgrade, Terminals
    <3>3. lifecycle' \in {In(t) : t \in Terminals}
      BY <1>1, <3>1, LifecycleSteps DEF CommitManifest, Terminals
    <3>4. lifecycle' \in [state : LifecycleStates, pending : Terminals \cup {"none"}]
      BY <3>3, LifecycleValues
    <3>5. StoreTypeOK'
      BY <1>a, <1>1, <2>1, <3>2, FrameFacts DEF CommitManifest, StoreTypeOK
    <3>6. ControllerTypeOK'
      BY <1>a, <1>1, <3>2, <3>4, FrameFacts DEF CommitManifest, ControllerTypeOK, ProgramPoints
    <3>7. QED
      BY <3>5, <3>6
  <2>7. QED
    BY <1>b, <2>2, <2>3, <2>4, <2>5, <2>6 DEF RunInv, RunTypeOK
<1>2. CASE CommitRaises
  <2>1. UNCHANGED statusVars
    BY <1>2 DEF CommitRaises, EffectiveTerminal, RequiredArtifacts, Downgrade
  <2>2. LifecycleInv'
    BY <1>a, <1>2, <2>1, FrameFacts, LifecycleSteps, LifecycleValues
       DEF CommitRaises, EffectiveTerminal, RequiredArtifacts, Downgrade, LifecycleInv,
           RequestInv, StoreTypeOK, ControllerTypeOK, Stage, Terminals, Live
  <2>3. RequestInv'
    BY <1>a, <1>2, <2>1, FrameFacts
       DEF CommitRaises, EffectiveTerminal, RequiredArtifacts, Downgrade, RequestInv,
           StoreTypeOK, ControllerTypeOK, Terminals
  <2>4. ManifestInv'
    BY <1>a, <1>2, <2>1, FrameFacts, LifecycleValues
       DEF CommitRaises, EffectiveTerminal, RequiredArtifacts, Downgrade, ManifestInv,
           LifecycleInv, RequestInv, StoreTypeOK, ControllerTypeOK, Terminals, Live
  <2>5. ContainerInv' /\ CommandInv'
    BY <1>a, <1>2, <2>1, FrameFacts
       DEF CommitRaises, ManifestInv, ContainerInv, CommandInv, Terminals
  <2>6. StoreTypeOK' /\ ControllerTypeOK'
    <3>1. requested \in Terminals /\ lifecycle' = In("FAILED") /\ requested' = "FAILED"
      BY <1>a, <1>2 DEF CommitRaises, RequestInv, ControllerTypeOK
    <3>2. manifest' \in Terminals \cup {"none"}
      BY <1>a, <1>2, <3>1
         DEF CommitRaises, EffectiveTerminal, Downgrade, StoreTypeOK, Terminals
    <3>3. lifecycle' \in [state : LifecycleStates, pending : Terminals \cup {"none"}]
      BY <3>1, LifecycleValues DEF Terminals
    <3>4. StoreTypeOK'
      BY <1>a, <1>2, <2>1, <3>2, FrameFacts DEF CommitRaises, StoreTypeOK
    <3>5. ControllerTypeOK'
      BY <1>a, <1>2, <3>1, <3>3, FrameFacts
         DEF CommitRaises, ControllerTypeOK, ProgramPoints, Terminals
    <3>6. QED
      BY <3>4, <3>5
  <2>7. QED
    BY <1>b, <2>2, <2>3, <2>4, <2>5, <2>6 DEF RunInv, RunTypeOK
<1>3. QED
  BY <1>1, <1>2

\* After the commit, and the ways out.
LEMMA EndStep ==
    ASSUME RunInv, HostFrame,
           PublishTerminal \/ AwaitNotified \/ Close \/ Teardown \/ Unwind \/ Die
    PROVE  RunInv'
<1> USE DEF HostInv, HostFrame, Before, Startup, Waits, Finals, FinalWaits, Ending, Over, Stops,
            statusVars, controlVars, topicVars, storeVars, commandVars, orchestrationVars,
            artifactsVars, peerVars, hostVars, controllerVars
<1>a. StoreTypeOK /\ ControllerTypeOK /\ LifecycleInv /\ RequestInv /\ ManifestInv
      /\ ContainerInv /\ CommandInv
  BY DEF RunInv, RunTypeOK
<1>b. OrchestrationTypeOK' /\ ArtifactsTypeOK' /\ PeersTypeOK'
  BY DEF RunInv, RunTypeOK, OrchestrationTypeOK, ArtifactsTypeOK, PeersTypeOK
<1>1. CASE PublishTerminal
  <2>1. UNCHANGED statusVars
    BY <1>1 DEF PublishTerminal, FirstWins
  <2>2. LifecycleInv'
    BY <1>a, <1>1, <2>1, FrameFacts, LifecycleSteps, LifecycleValues
       DEF PublishTerminal, FirstWins, LifecycleInv, RequestInv, StoreTypeOK, ControllerTypeOK,
           Stage, Terminals, Live
  <2>3. RequestInv'
    BY <1>a, <1>1, <2>1, FrameFacts
       DEF PublishTerminal, FirstWins, RequestInv, StoreTypeOK, ControllerTypeOK, Terminals
  <2>4. ManifestInv'
    BY <1>a, <1>1, <2>1, FrameFacts, LifecycleValues
       DEF PublishTerminal, FirstWins, ManifestInv, LifecycleInv, RequestInv, StoreTypeOK,
           ControllerTypeOK, Terminals, Live
  <2>5. ContainerInv' /\ CommandInv'
    BY <1>a, <1>1, <2>1, FrameFacts
       DEF PublishTerminal, FirstWins, ManifestInv, RequestInv, ContainerInv, CommandInv,
           StoreTypeOK
  <2>6. StoreTypeOK' /\ ControllerTypeOK'
    BY <1>a, <1>1, <2>1, FrameFacts, LifecycleSteps, LifecycleValues, PlanFacts
       DEF PublishTerminal, FirstWins, LifecycleInv, RequestInv, StoreTypeOK, ControllerTypeOK,
           ProgramPoints, Terminals, Live
  <2>7. QED
    BY <1>b, <2>2, <2>3, <2>4, <2>5, <2>6 DEF RunInv, RunTypeOK
<1>2. CASE AwaitNotified
  <2>1. UNCHANGED statusVars
    BY <1>2 DEF AwaitNotified
  <2>2. LifecycleInv'
    BY <1>a, <1>2, <2>1, FrameFacts, LifecycleSteps, LifecycleValues
       DEF AwaitNotified, LifecycleInv, RequestInv, StoreTypeOK, ControllerTypeOK, Stage,
           Terminals, Live
  <2>3. RequestInv'
    BY <1>a, <1>2, <2>1, FrameFacts
       DEF AwaitNotified, RequestInv, StoreTypeOK, ControllerTypeOK, Terminals
  <2>4. ManifestInv'
    BY <1>a, <1>2, <2>1, FrameFacts, LifecycleValues
       DEF AwaitNotified, ManifestInv, LifecycleInv, RequestInv, StoreTypeOK, ControllerTypeOK,
           Terminals, Live
  <2>5. ContainerInv' /\ CommandInv'
    BY <1>a, <1>2, <2>1, FrameFacts
       DEF AwaitNotified, ManifestInv, RequestInv, ContainerInv, CommandInv, StoreTypeOK
  <2>6. StoreTypeOK' /\ ControllerTypeOK'
    BY <1>a, <1>2, <2>1, FrameFacts, LifecycleSteps, LifecycleValues, PlanFacts
       DEF AwaitNotified, LifecycleInv, RequestInv, StoreTypeOK, ControllerTypeOK,
           ProgramPoints, Terminals, Live
  <2>7. QED
    BY <1>b, <2>2, <2>3, <2>4, <2>5, <2>6 DEF RunInv, RunTypeOK
<1>3. CASE Close
  <2>1. UNCHANGED statusVars
    BY <1>3 DEF Close
  <2>2. LifecycleInv'
    BY <1>a, <1>3, <2>1, FrameFacts, LifecycleSteps, LifecycleValues
       DEF Close, LifecycleInv, RequestInv, StoreTypeOK, ControllerTypeOK, Stage, Terminals,
           Live
  <2>3. RequestInv'
    BY <1>a, <1>3, <2>1, FrameFacts
       DEF Close, RequestInv, StoreTypeOK, ControllerTypeOK, Terminals
  <2>4. ManifestInv'
    BY <1>a, <1>3, <2>1, FrameFacts, LifecycleValues
       DEF Close, ManifestInv, LifecycleInv, RequestInv, StoreTypeOK, ControllerTypeOK,
           Terminals, Live
  <2>5. ContainerInv' /\ CommandInv'
    BY <1>a, <1>3, <2>1, FrameFacts
       DEF Close, ManifestInv, RequestInv, ContainerInv, CommandInv, StoreTypeOK
  <2>6. StoreTypeOK' /\ ControllerTypeOK'
    BY <1>a, <1>3, <2>1, FrameFacts, LifecycleSteps, LifecycleValues, PlanFacts
       DEF Close, LifecycleInv, RequestInv, StoreTypeOK, ControllerTypeOK, ProgramPoints,
           Terminals, Live
  <2>7. QED
    BY <1>b, <2>2, <2>3, <2>4, <2>5, <2>6 DEF RunInv, RunTypeOK
<1>4. CASE Teardown
  <2>1. UNCHANGED statusVars
    BY <1>4 DEF Teardown
  <2>2. LifecycleInv'
    BY <1>a, <1>4, <2>1, FrameFacts, LifecycleSteps, LifecycleValues
       DEF Teardown, LifecycleInv, RequestInv, StoreTypeOK, ControllerTypeOK, Stage, Terminals,
           Live
  <2>3. RequestInv'
    BY <1>a, <1>4, <2>1, FrameFacts
       DEF Teardown, RequestInv, StoreTypeOK, ControllerTypeOK, Terminals
  <2>4. ManifestInv'
    BY <1>a, <1>4, <2>1, FrameFacts, LifecycleValues
       DEF Teardown, ManifestInv, LifecycleInv, RequestInv, StoreTypeOK, ControllerTypeOK,
           Terminals, Live
  <2>5. ContainerInv' /\ CommandInv'
    BY <1>a, <1>4, <2>1, FrameFacts
       DEF Teardown, ManifestInv, RequestInv, ContainerInv, CommandInv, StoreTypeOK
  <2>6. StoreTypeOK' /\ ControllerTypeOK'
    BY <1>a, <1>4, <2>1, FrameFacts, LifecycleSteps, LifecycleValues, PlanFacts
       DEF Teardown, LifecycleInv, RequestInv, StoreTypeOK, ControllerTypeOK, ProgramPoints,
           Terminals, Live
  <2>7. QED
    BY <1>b, <2>2, <2>3, <2>4, <2>5, <2>6 DEF RunInv, RunTypeOK
<1>5. CASE Unwind
  <2>1. UNCHANGED statusVars
    BY <1>5 DEF Unwind
  <2>2. LifecycleInv'
    BY <1>a, <1>5, <2>1, FrameFacts, LifecycleSteps, LifecycleValues
       DEF Unwind, LifecycleInv, RequestInv, StoreTypeOK, ControllerTypeOK, Stage, Terminals,
           Live
  <2>3. RequestInv'
    BY <1>a, <1>5, <2>1, FrameFacts
       DEF Unwind, RequestInv, StoreTypeOK, ControllerTypeOK, Terminals
  <2>4. ManifestInv'
    BY <1>a, <1>5, <2>1, FrameFacts, LifecycleValues
       DEF Unwind, ManifestInv, LifecycleInv, RequestInv, StoreTypeOK, ControllerTypeOK,
           Terminals, Live
  <2>5. ContainerInv' /\ CommandInv'
    BY <1>a, <1>5, <2>1, FrameFacts
       DEF Unwind, ManifestInv, RequestInv, ContainerInv, CommandInv, StoreTypeOK
  <2>6. StoreTypeOK' /\ ControllerTypeOK'
    BY <1>a, <1>5, <2>1, FrameFacts, LifecycleSteps, LifecycleValues, PlanFacts
       DEF Unwind, LifecycleInv, RequestInv, StoreTypeOK, ControllerTypeOK, ProgramPoints,
           Terminals, Live
  <2>7. QED
    BY <1>b, <2>2, <2>3, <2>4, <2>5, <2>6 DEF RunInv, RunTypeOK
<1>6. CASE Die
  <2>1. UNCHANGED statusVars
    BY <1>6 DEF Die
  <2>2. LifecycleInv'
    BY <1>a, <1>6, <2>1, FrameFacts, LifecycleSteps, LifecycleValues
       DEF Die, LifecycleInv, RequestInv, StoreTypeOK, ControllerTypeOK, Stage, Terminals, Live
  <2>3. RequestInv'
    BY <1>a, <1>6, <2>1, FrameFacts
       DEF Die, RequestInv, StoreTypeOK, ControllerTypeOK, Terminals
  <2>4. ManifestInv'
    BY <1>a, <1>6, <2>1, FrameFacts, LifecycleValues
       DEF Die, ManifestInv, LifecycleInv, RequestInv, StoreTypeOK, ControllerTypeOK,
           Terminals, Live
  <2>5. ContainerInv' /\ CommandInv'
    BY <1>a, <1>6, <2>1, FrameFacts
       DEF Die, ManifestInv, RequestInv, ContainerInv, CommandInv, StoreTypeOK
  <2>6. StoreTypeOK' /\ ControllerTypeOK'
    BY <1>a, <1>6, <2>1, FrameFacts, LifecycleSteps, LifecycleValues, PlanFacts
       DEF Die, LifecycleInv, RequestInv, StoreTypeOK, ControllerTypeOK, ProgramPoints,
           Terminals, Live
  <2>7. QED
    BY <1>b, <2>2, <2>3, <2>4, <2>5, <2>6 DEF RunInv, RunTypeOK
<1>7. QED
  BY <1>1, <1>2, <1>3, <1>4, <1>5, <1>6

\* A deadline that passes.
LEMMA DeadlineStep ==
    ASSUME RunInv, HostFrame, NEW d \in Deadlines, DeadlinePasses(d)
    PROVE  RunInv'
<1> USE DEF HostFrame, commandVars, orchestrationVars, artifactsVars, peerVars, storeVars,
            statusVars, controlVars, topicVars
<1>1. /\ UNCHANGED <<scenario, statusVars, controlVars, running, topicVars, pc, at, composeStarted,
                     requested, lifecycle, reportOk, result, commandVars, orchestrationVars,
                     artifactsVars, peerVars>>
      /\ expired' \subseteq expired \cup {"work", d}
  BY DEF DeadlinePasses
<1>2. RunTypeOK'
  <2>1. expired' \subseteq Deadlines
    BY <1>1 DEF RunInv, RunTypeOK, ControllerTypeOK, Deadlines
  <2>2. QED
    BY <1>1, <2>1, FrameFacts
       DEF RunInv, RunTypeOK, StoreTypeOK, ControllerTypeOK, OrchestrationTypeOK,
           ArtifactsTypeOK,
           PeersTypeOK
<1>3. LifecycleInv'
  BY <1>1, FrameFacts DEF RunInv, LifecycleInv, Stage
<1>4. RequestInv'
  BY <1>1, FrameFacts DEF RunInv, RequestInv
<1>5. ManifestInv' /\ ContainerInv' /\ CommandInv'
  BY <1>1, FrameFacts DEF RunInv, ManifestInv, ContainerInv, CommandInv
<1>6. QED
  BY <1>2, <1>3, <1>4, <1>5 DEF RunInv

-----------------------------------------------------------------------------
(* The operator's commands. *)

\* What a command leaves alone.
CommandFrame ==
    UNCHANGED <<scenario, statusVars, committed, manifest, operator, running, topicVars, hostVars,
                orchestrationVars, artifactsVars, peerVars>>

\* A command that only looks.
LEMMA LookStep ==
    ASSUME RunInv, CommandFrame, request' = request,
           Abort \/ Status \/ AbortRechecks \/ AbortReads \/ StatusReads \/ StatusConfirms
    PROVE  RunInv'
<1> USE DEF CommandFrame, hostVars, orchestrationVars, artifactsVars, peerVars, statusVars, topicVars
<1>1. /\ Flight' = Flight /\ Faults' = Faults /\ WaitPlan' = WaitPlan
      /\ ReadyAt' = ReadyAt /\ RunningAt' = RunningAt /\ PlanLength' = PlanLength
      /\ Stage' = Stage
      /\ \A i \in 1..PlanLength : Settled(i) => Settled(i)'
  BY SettledStays
     DEF StatusGrows, Flight, Faults, WaitPlan, ReadyAt, RunningAt, PlanLength, Stage
<1>2. LifecycleInv' /\ RequestInv' /\ ManifestInv' /\ ContainerInv'
  <2>1. LifecycleInv'
    BY <1>1 DEF RunInv, LifecycleInv
  <2>2. RequestInv'
    BY <1>1 DEF RunInv, RequestInv
  <2>3. ManifestInv' /\ ContainerInv'
    BY <1>1 DEF RunInv, ManifestInv, ContainerInv
  <2>4. QED
    BY <2>1, <2>2, <2>3
<1>3. /\ operator \in LifecycleStates /\ manifest \in Terminals \cup {"none"}
      /\ cached \in LifecycleStates /\ answer \in LifecycleStates \cup {"none"}
      /\ Terminals \subseteq LifecycleStates /\ "none" \notin Terminals
      /\ command \in {"idle", "requesting", "recheck", "cache", "reading", "confirm"}
  BY LifecycleValues DEF RunInv, RunTypeOK, StoreTypeOK, ControllerTypeOK, Terminals
<1>4. CommandInv' /\ command' \in {"idle", "requesting", "recheck", "cache", "reading", "confirm"}
      /\ cached' \in LifecycleStates /\ answer' \in LifecycleStates \cup {"none"}
  <2> USE DEF RunInv, CommandInv, ManifestInv
  <2>1. CASE Abort \/ Status
    BY <1>1, <1>3, <2>1 DEF Abort, Status, AskCommand
  <2>2. CASE AbortRechecks
    BY <1>1, <1>3, <2>2 DEF AbortRechecks
  <2>3. CASE AbortReads
    BY <1>1, <1>3, <2>3 DEF AbortReads
  <2>4. CASE StatusReads
    BY <1>1, <1>3, <2>4 DEF StatusReads
  <2>5. CASE StatusConfirms
    BY <1>1, <1>3, <2>5 DEF StatusConfirms
  <2>6. QED
    BY <2>1, <2>2, <2>3, <2>4, <2>5
<1>5. RunTypeOK'
  BY <1>1, <1>4
     DEF RunInv, RunTypeOK, StoreTypeOK, ControllerTypeOK, OrchestrationTypeOK,
         ArtifactsTypeOK,
         PeersTypeOK
<1>6. QED
  BY <1>2, <1>4, <1>5 DEF RunInv

\* The command that asks for an end: it changes the request only where there is none.
LEMMA AbortRequestStep ==
    ASSUME RunInv, CommandFrame, AbortRequests
    PROVE  RunInv'
<1> USE DEF CommandFrame, hostVars, orchestrationVars, artifactsVars, peerVars, statusVars, topicVars
<1>1. /\ Flight' = Flight /\ Faults' = Faults /\ WaitPlan' = WaitPlan
      /\ ReadyAt' = ReadyAt /\ RunningAt' = RunningAt /\ PlanLength' = PlanLength
      /\ Stage' = Stage
      /\ \A i \in 1..PlanLength : Settled(i) => Settled(i)'
  BY SettledStays
     DEF StatusGrows, Flight, Faults, WaitPlan, ReadyAt, RunningAt, PlanLength, Stage
<1>2. /\ command = "requesting" /\ command' = "recheck" /\ UNCHANGED <<cached, answer>>
      /\ request' = request \/ (request = "none" /\ request' = "ABORTED")
  BY DEF AbortRequests, FirstWins
<1>3. /\ pc \in Finals \cup Ending \cup {"finalizing"} => request' = request
      /\ manifest # "none" => request' = request
      /\ request' = "COMPLETED" => request = "COMPLETED"
      /\ request # "none" => request' = request
      /\ request' # "ABORTED" => request' = request
  BY <1>2 DEF RunInv, RequestInv, ManifestInv
<1>4. LifecycleInv'
  BY <1>1, <1>3 DEF RunInv, LifecycleInv
<1>5. RequestInv'
  BY <1>1, <1>3 DEF RunInv, RequestInv
<1>6. ManifestInv'
  BY <1>1, <1>3 DEF RunInv, ManifestInv
<1>7. ContainerInv' /\ CommandInv'
  BY <1>1, <1>2, <1>3 DEF RunInv, ContainerInv, CommandInv
<1>8. RunTypeOK'
  <2>1. request' \in Terminals \cup {"none"}
    BY <1>2 DEF RunInv, RunTypeOK, StoreTypeOK, Terminals
  <2>2. QED
    BY <1>1, <1>2, <2>1
       DEF RunInv, RunTypeOK, StoreTypeOK, ControllerTypeOK, OrchestrationTypeOK,
           ArtifactsTypeOK,
           PeersTypeOK
<1>9. QED
  BY <1>4, <1>5, <1>6, <1>7, <1>8 DEF RunInv

-----------------------------------------------------------------------------
(* The theorems. *)

LEMMA RunInvInit ==
    RunInit => RunInv
<1> SUFFICES ASSUME RunInit PROVE RunInv
  OBVIOUS
<1> USE DEF RunInit, StoreInit, ControllerInit, OrchestrationInit, ArtifactsInit, PeersInit
<1>1. StoreTypeOK
  <2>1. 0 \in 0..MaxStamp
    BY StoreAssumption
  <2>2. stamps \in [Stamped -> 0..MaxStamp]
    BY <2>1
  <2>3. QED
    BY <2>2 DEF StoreTypeOK, Terminals, LifecycleStates
<1>2. ControllerTypeOK
  <2>1. 1 \in DOMAIN WaitPlan
    BY PlanFacts
  <2>2. QED
    BY <2>1 DEF ControllerTypeOK, ProgramPoints, Terminals, LifecycleStates
<1>3. OrchestrationTypeOK /\ ArtifactsTypeOK /\ PeersTypeOK
  BY DEF OrchestrationTypeOK, ArtifactsTypeOK, RecorderStates, PeersTypeOK
<1>4. LifecycleInv
  BY DEF LifecycleInv, In, Before, Waits, Finals, FinalWaits
<1>5. RequestInv
  BY DEF RequestInv, Startup, Before, Waits, Finals, FinalWaits, Ending
<1>6. ManifestInv
  BY DEF ManifestInv, Ending, Over, Stops, Terminals
<1>7. ContainerInv
  BY DEF ContainerInv
<1>8. CommandInv
  BY DEF CommandInv, Terminals
<1>9. QED
  BY <1>1, <1>2, <1>3, <1>4, <1>5, <1>6, <1>7, <1>8 DEF RunInv, RunTypeOK

LEMMA RunInvStep ==
    RunInv /\ [RunNext]_runVars => RunInv'
<1> SUFFICES ASSUME RunInv, [RunNext]_runVars PROVE RunInv'
  OBVIOUS
<1>a. /\ StoreTypeOK /\ ControllerTypeOK /\ OrchestrationTypeOK /\ ArtifactsTypeOK /\ PeersTypeOK
      /\ ContainerInv /\ HostInv
  BY DEF RunInv, RunTypeOK, HostInv
<1>1. CASE HostNext /\ UNCHANGED <<scenario, commandVars, orchestrationVars, artifactsVars, peerVars>>
  <2>1. HostFrame
    BY <1>1 DEF HostFrame
  <2>2. QED
    BY <1>1, <2>1, StartupStep, WaitStep, RequestStep, FinalStep, CommitStep, EndStep,
       DeadlineStep
       DEF HostNext
<1>2. CASE CommandNext /\ UNCHANGED <<scenario, hostVars, orchestrationVars, artifactsVars, peerVars>>
  <2>1. CASE AbortRequests
    <3>1. CommandFrame
      BY <1>2, <2>1 DEF AbortRequests, CommandFrame
    <3>2. QED
      BY <2>1, <3>1, AbortRequestStep
  <2>2. CASE Abort \/ Status \/ AbortRechecks \/ AbortReads \/ StatusReads \/ StatusConfirms
    <3>1. CommandFrame /\ request' = request
      BY <1>2, <2>2
         DEF Abort, Status, AskCommand, AbortRechecks, AbortReads, StatusReads, StatusConfirms,
             CommandFrame, storeVars, controlVars
    <3>2. QED
      BY <2>2, <3>1, LookStep
  <2>3. QED
    BY <1>2, <2>1, <2>2 DEF CommandNext
<1>3. CASE (OrchestrationNext \/ Discover) /\ UNCHANGED <<scenario, controllerVars, artifactsVars, peerVars>>
  <2>1. OrchestrationTypeOK' /\ ContainerStep
    BY <1>a, <1>3, OrchestrationStep
  <2>2. ArtifactsTypeOK' /\ PeersTypeOK'
    BY <1>a, <1>3 DEF ArtifactsTypeOK, PeersTypeOK, artifactsVars, peerVars
  <2>3. QED
    BY <1>a, <2>1, <2>2, ContainersKeepHost DEF RunInv, RunTypeOK, HostInv, ContainerStep
<1>4. CASE ArtifactsNext /\ UNCHANGED <<scenario, controllerVars, orchestrationVars, peerVars>>
  <2>1. ArtifactsTypeOK' /\ ContainerStep
    BY <1>a, <1>4, ArtifactsStep
  <2>2. OrchestrationTypeOK' /\ PeersTypeOK'
    BY <1>a, <1>4 DEF OrchestrationTypeOK, PeersTypeOK, orchestrationVars, peerVars
  <2>3. QED
    BY <1>a, <2>1, <2>2, ContainersKeepHost DEF RunInv, RunTypeOK, HostInv, ContainerStep
<1>5. CASE PeersNext /\ UNCHANGED <<scenario, controllerVars, orchestrationVars, artifactsVars>>
  <2>1. PeersTypeOK' /\ ContainerStep
    BY <1>a, <1>5, PeersStep
  <2>2. OrchestrationTypeOK' /\ ArtifactsTypeOK'
    BY <1>a, <1>5 DEF OrchestrationTypeOK, ArtifactsTypeOK, orchestrationVars, artifactsVars
  <2>3. QED
    BY <1>a, <2>1, <2>2, ContainersKeepHost DEF RunInv, RunTypeOK, HostInv, ContainerStep
<1>6. CASE UNCHANGED runVars
  <2>1. UNCHANGED <<scenario, storeVars, controllerVars, orchestrationVars, artifactsVars, peerVars>>
    BY <1>6 DEF runVars, controllerVars
  <2>2. ContainerStep
    BY <1>a, <2>1
       DEF ContainerStep, StoreTypeOK, ContainerInv, StatusGrows, Silent, Flight, storeVars,
           statusVars, controlVars, topicVars, controllerVars, hostVars, commandVars,
           orchestrationVars, artifactsVars, peerVars
  <2>3. OrchestrationTypeOK' /\ ArtifactsTypeOK' /\ PeersTypeOK'
    BY <1>a, <2>1
       DEF OrchestrationTypeOK, ArtifactsTypeOK, PeersTypeOK, orchestrationVars, artifactsVars,
           peerVars
  <2>4. QED
    BY <1>a, <2>2, <2>3, ContainersKeepHost DEF RunInv, RunTypeOK, HostInv, ContainerStep
<1>7. QED
  BY <1>1, <1>2, <1>3, <1>4, <1>5, <1>6 DEF RunNext

\* The inductive invariant: what start(), the commands and the containers know of
\* each other at every point of start() (controller.py, runtime_protocol.py).
THEOREM RunInvariant ==
    RunSpec => []RunInv
<1>1. QED
  BY RunInvInit, RunInvStep, PTL DEF RunSpec

\* Every document of the run directory, every local of start() and every flag of a
\* container keeps its type, and transition_to is never asked for a transition the
\* lifecycle does not have (lifecycle.py, RunLifecycle.apply), with any faults.
THEOREM RunTypeCorrect ==
    RunSpec => []RunTypeOK
<1>1. RunInv => RunTypeOK
  BY DEF RunInv
<1>2. QED
  BY <1>1, RunInvariant, PTL

\* A COMPLETED manifest was asked for as such, rests on every awaited fact, on six
\* quiescent modules and on valid records (controller.start).
THEOREM CompletedEarned ==
    RunSpec => []CompletedIsEarned
<1>1. RunInv => CompletedIsEarned
  <2> SUFFICES ASSUME RunInv, manifest = "COMPLETED" PROVE CompletedIsEarned
    BY DEF CompletedIsEarned
  <2>1. request = "COMPLETED" /\ "artifacts-final" \in facts /\ recordsValid
    BY DEF RunInv, ManifestInv, RequestInv
  <2>2. "runtime-frozen" \in facts /\ Modules \subseteq quiescence
    BY <2>1 DEF RunInv, ContainerInv
  <2>3. \A name \in AwaitedFacts : name \in facts /\ StampsAgree(name)
    <3>1. \A i \in 1..PlanLength : Settled(i)
      BY <2>1 DEF RunInv, RequestInv
    <3>2. QED
      BY <3>1, PlanFacts DEF AwaitedFacts, Settled
  <2>4. QED
    BY <2>1, <2>2, <2>3 DEF CompletedIsEarned
<1>2. QED
  BY <1>1, RunInvariant, PTL

\* The handshake of finalization keeps its order whatever fails, is killed or is
\* interrupted (runtime_node.poll, finalize, controller.start, poll_terminal).
THEOREM HandshakeOrdered ==
    RunSpec => []HandshakeOrder
<1>1. RunInv => HandshakeOrder
  BY DEF RunInv, ContainerInv, ManifestInv, HandshakeOrder
<1>2. QED
  BY <1>1, RunInvariant, PTL

\* A persisted abort is never overruled (StatusStore.request_finalization, start).
THEOREM AbortedWins ==
    RunSpec => []AbortWins
<1>1. RunInv => AbortWins
  BY DEF RunInv, ManifestInv, AbortWins
<1>2. QED
  BY <1>1, RunInvariant, PTL

\* The result, the operator status and what abort and status print repeat the
\* manifest, but for a run whose directory could not be synced (controller.start
\* from the commit on, controller.abort, controller.status).
THEOREM ResultsAgreed ==
    RunSpec => []ResultsAgree
<1>1. RunInv => ResultsAgree
  <2> SUFFICES ASSUME RunInv PROVE ResultsAgree
    OBVIOUS
  <2>1. "fsync" \notin Faults => ForegroundAgrees
    BY DEF RunInv, ManifestInv, ForegroundAgrees
  <2>2. ~ ({"abort", "fsync"} \subseteq Faults) => AnswersAgree
    BY DEF RunInv, CommandInv, AnswersAgree
  <2>3. QED
    BY <2>1, <2>2 DEF ResultsAgree
<1>2. QED
  BY <1>1, RunInvariant, PTL

\* After runtime-frozen only the artifacts runtime writes: the markers stood for
\* silence (runtime_node.poll writes it once every marker is there).
THEOREM SilentAfterFrozen ==
    RunSpec => SilentAfterFreeze
<1>1. ASSUME RunInv, [RunNext]_runVars PROVE [Silent]_runVars
  <2>a. /\ StoreTypeOK /\ OrchestrationTypeOK /\ ArtifactsTypeOK /\ PeersTypeOK /\ ContainerInv
    BY <1>1 DEF RunInv, RunTypeOK
  <2>1. CASE HostNext
    <3>1. UNCHANGED statusVars
      BY <2>1
         DEF HostNext, storeVars, Begin, Prepare, ComposeUp, UpReturns, ObserveRequest,
             InspectServices, ReadStatus, WaitTimesOut, WaitInterrupted, RequestFinalization,
             EnterFinalizing, AwaitFrozen, AwaitArtifactsFinal, AwaitFinalFact, CaptureLogs,
             ReadReport, CollectProvenance, CommitManifest, CommitRaises, PublishTerminal,
             AwaitNotified, Close, Teardown, Unwind, Die, DeadlinePasses
    <3>2. QED
      BY <3>1 DEF statusVars, Silent
  <2>2. CASE CommandNext
    <3>1. UNCHANGED statusVars
      BY <2>2
         DEF CommandNext, storeVars, Abort, Status, AskCommand, AbortRequests, AbortRechecks,
             AbortReads, StatusReads, StatusConfirms
    <3>2. QED
      BY <3>1 DEF statusVars, Silent
  <2>3. CASE (OrchestrationNext \/ Discover) /\ UNCHANGED <<scenario, controllerVars, artifactsVars, peerVars>>
    BY <2>a, <2>3, OrchestrationStep DEF ContainerStep
  <2>4. CASE ArtifactsNext /\ UNCHANGED <<scenario, controllerVars, orchestrationVars, peerVars>>
    BY <2>a, <2>4, ArtifactsStep DEF ContainerStep
  <2>5. CASE PeersNext /\ UNCHANGED <<scenario, controllerVars, orchestrationVars, artifactsVars>>
    BY <2>a, <2>5, PeersStep DEF ContainerStep
  <2>6. CASE UNCHANGED runVars
    BY <2>6
  <2>7. QED
    BY <1>1, <2>1, <2>2, <2>3, <2>4, <2>5, <2>6 DEF RunNext
<1>2. QED
  BY <1>1, RunInvariant, PTL DEF RunSpec, SilentAfterFreeze, Silent
=============================================================================
