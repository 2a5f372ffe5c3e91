--------------------------- MODULE RunController ---------------------------
(***************************************************************************)
(* RunController.start (controller.py) with the lifecycle it drives        *)
(* (lifecycle.py), and the operator's abort and status commands, which run *)
(* in processes of their own beside it.                                    *)
(*                                                                         *)
(* pc is the point start() has reached; every durable read or write is a   *)
(* step, so the containers and the operator interleave between any two.    *)
(* requested is the local of that name: before the request is persisted it *)
(* is the terminal that the observed cause asks for ("none" without one),  *)
(* afterwards the terminal the run is heading for.  Causes, reasons and    *)
(* diagnostics are reduced to the terminal they lead to.                   *)
(***************************************************************************)
EXTENDS RunStore

VARIABLES
    pc,             \* where start() is
    at,             \* index into WaitPlan
    composeStarted, \* compose_started
    requested,      \* requested
    lifecycle,      \* [state, pending]: the RunLifecycle value
    reportOk,       \* the artifacts-final report passed the host's checks
    expired,        \* deadlines that have passed
    result,         \* the RunResult start() returned, "raised", or "none"
    command,        \* where the operator's abort or status command is
    cached,         \* the operator state a status command has read
    answer          \* what the last operator command printed

hostVars == <<pc, at, composeStarted, requested, lifecycle, reportOk, expired, result>>
commandVars == <<command, cached, answer>>
controllerVars == <<hostVars, commandVars>>

Waits == {"observe", "inspect", "read"}
FinalWaits == {"frozen", "final"}
Stops == {"done", "dead"}
ProgramPoints ==
    Waits \cup FinalWaits \cup Stops \cup
    {"created", "prepare", "up", "starting", "request", "finalizing", "capture",
     "report", "provenance", "commit", "publish", "notify", "close", "teardown"}

Deadlines == {"startup", "overall", "work", "manifest"}

\* The facts start() waits for, in order.
WaitPlan ==
    IF Flight
    THEN <<"artifacts-ready", "gazebo-ready", "ardupilot-ready", "companion-ready",
           "mission-ready", "runtime-running", "source-finished",
           "mission-finished", "score-finished">>
    ELSE <<"artifacts-ready", "runtime-running", "source-finished">>

AwaitedFacts == {WaitPlan[i] : i \in DOMAIN WaitPlan}
Awaited == WaitPlan[at]

DeadlineOf(name) ==
    IF name \in {"artifacts-ready", "gazebo-ready", "ardupilot-ready", "companion-ready"}
    THEN "startup"
    ELSE "overall"

ControllerTypeOK ==
    /\ pc \in ProgramPoints
    /\ at \in DOMAIN WaitPlan
    /\ composeStarted \in BOOLEAN
    /\ requested \in Terminals \cup {"none"}
    /\ lifecycle \in [state : LifecycleStates,
                      pending : Terminals \cup {"none"}]
    /\ reportOk \in BOOLEAN
    /\ expired \subseteq Deadlines
    /\ result \in Terminals \cup {"none", "raised"}
    /\ command \in {"idle", "requesting", "recheck", "cache", "reading", "confirm"}
    /\ cached \in LifecycleStates
    /\ answer \in LifecycleStates \cup {"none"}

ControllerInit ==
    /\ pc = "created"
    /\ at = 1
    /\ composeStarted = FALSE
    /\ requested = "none"
    /\ lifecycle = [state |-> "CREATED", pending |-> "none"]
    /\ reportOk = FALSE
    /\ expired = {}
    /\ result = "none"
    /\ command = "idle"
    /\ cached = "CREATED"
    /\ answer = "none"

-----------------------------------------------------------------------------
(* RunLifecycle.apply; the state "INVALID" stands for InvalidTransition.    *)

In(state) == [state |-> state, pending |-> "none"]

TerminalOf(event) ==
    CASE event = "COMPLETE" -> "COMPLETED"
      [] event = "FAIL" -> "FAILED"
      [] event = "ABORT" -> "ABORTED"

\* _terminal_event
EventOf(terminal) ==
    CASE terminal = "COMPLETED" -> "COMPLETE"
      [] terminal = "FAILED" -> "FAIL"
      [] terminal = "ABORTED" -> "ABORT"

Apply(lc, event) ==
    CASE lc.state = "CREATED" /\ event = "START" -> In("STARTING")
      [] lc.state = "STARTING" /\ event = "MODULES_READY" -> In("READY")
      [] lc.state = "READY" /\ event = "CLOCK_STARTED" -> In("RUNNING")
      [] \/ lc.state \in {"STARTING", "READY", "RUNNING"} /\ event \in {"FAIL", "ABORT"}
         \/ lc.state = "RUNNING" /\ event = "COMPLETE"
           -> [state |-> "FINALIZING", pending |-> TerminalOf(event)]
      [] lc.state = "FINALIZING" /\ event = "ARTIFACTS_FINALIZED" /\ lc.pending # "none"
           -> In(lc.pending)
      [] lc.state = "FINALIZING" /\ event = "FINALIZATION_FAILED" -> In("FAILED")
      [] OTHER -> In("INVALID")

-----------------------------------------------------------------------------
(* Startup.                                                                 *)

\* The run configuration is written and START applied.
Begin ==
    /\ pc = "created"
    /\ lifecycle' = Apply(lifecycle, "START")
    /\ operator' = "STARTING"
    /\ pc' = "prepare"
    /\ UNCHANGED <<statusVars, request, committed, manifest, running, topicVars,
                   at, composeStarted, requested, reportOk, expired, result>>

\* compose_factory and the provenance checks; a failure of either skips up().
Prepare ==
    /\ pc = "prepare"
    /\ \/ pc' = "up" /\ requested' = requested
       \/ "host" \in Faults /\ pc' = "request" /\ requested' = "FAILED"
    /\ UNCHANGED <<storeVars, at, composeStarted, lifecycle, reportOk, expired, result>>

\* compose.up: the containers start to run while the command still blocks.
ComposeUp ==
    /\ pc = "up"
    /\ running' = Services
    /\ pc' = "starting"
    /\ UNCHANGED <<statusVars, controlVars, topicVars, at, composeStarted, requested, lifecycle,
                   reportOk, expired, result>>

UpReturns ==
    /\ pc = "starting"
    /\ \/ pc' = "observe" /\ composeStarted' = TRUE /\ requested' = requested
       \/ /\ \/ "host" \in Faults /\ requested' = "FAILED"
             \/ "interrupt" \in Faults /\ requested' = "ABORTED"
          /\ pc' = "request"
          /\ composeStarted' = composeStarted
    /\ UNCHANGED <<storeVars, at, lifecycle, reportOk, expired, result>>

-----------------------------------------------------------------------------
(* _wait_for with observe_causes: look for a request, then for a failure    *)
(* and the state of the containers, then for the awaited fact.              *)

WaitEnds(terminal) ==
    /\ requested' = terminal
    /\ pc' = "request"

\* _cause_for_request: only ABORTED maps to operator_abort.
CauseForRequest(terminal) == IF terminal = "ABORTED" THEN "ABORTED" ELSE "FAILED"

\* A pre-existing request ends the wait.
ObserveRequest ==
    /\ pc = "observe"
    /\ DeadlineOf(Awaited) \notin expired
    /\ IF request = "none"
       THEN pc' = "inspect" /\ requested' = requested
       ELSE WaitEnds(CauseForRequest(request))
    /\ UNCHANGED <<storeVars, at, composeStarted, lifecycle, reportOk, expired, result>>

\* A runtime-failure, or a container that is not running, ends the wait.  A
\* compose ps that times out is no cause.
InspectServices ==
    /\ pc = "inspect"
    /\ \/ /\ "runtime-failure" \notin facts
          /\ pc' = "read"
          /\ requested' = requested
       \/ /\ "runtime-failure" \in facts \/ running # Services \/ "host" \in Faults
          /\ WaitEnds("FAILED")
    /\ UNCHANGED <<storeVars, at, composeStarted, lifecycle, reportOk, expired, result>>

\* The timestamp checks that follow mission-finished and score-finished.
StampsAgree(name) ==
    /\ name = "mission-finished" => stamps[name] <= stamps["source-finished"]
    /\ name = "score-finished" => stamps[name] = stamps["source-finished"]

\* MODULES_READY applied for each readiness fact.
ProgressEarly(name) ==
    IF name = "artifacts-ready" THEN Apply(lifecycle, "MODULES_READY")
    ELSE IF name = "gazebo-ready" THEN Apply(lifecycle, "MODULES_READY")
    ELSE IF name = "runtime-running" THEN Apply(lifecycle, "CLOCK_STARTED")
    ELSE lifecycle

\* The lifecycle transition that follows an awaited fact.
Progress(name) ==
    CASE name = (IF Flight THEN "gazebo-ready" ELSE "artifacts-ready")
           -> Apply(lifecycle, "MODULES_READY")
      [] name = "runtime-running" -> Apply(lifecycle, "CLOCK_STARTED")
      [] OTHER -> lifecycle

ReadStatus ==
    /\ pc = "read"
    /\ IF Awaited \notin facts
       THEN pc' = "observe" /\ UNCHANGED <<at, requested, lifecycle, operator>>
       ELSE /\ lifecycle' = Progress(Awaited)
            /\ operator' = lifecycle'.state
            /\ IF ~StampsAgree(Awaited)
               THEN WaitEnds("FAILED") /\ at' = at
               ELSE IF at = Len(WaitPlan)
               THEN pc' = "request" /\ UNCHANGED <<at, requested>>
               ELSE pc' = "observe" /\ at' = at + 1 /\ requested' = requested
    /\ UNCHANGED <<statusVars, request, committed, manifest, running, topicVars,
                   composeStarted, reportOk, expired, result>>

WaitTimesOut ==
    /\ pc \in Waits
    /\ DeadlineOf(Awaited) \in expired
    /\ WaitEnds("FAILED")
    /\ UNCHANGED <<storeVars, at, composeStarted, lifecycle, reportOk, expired, result>>

WaitInterrupted ==
    /\ pc \in Waits
    /\ "interrupt" \in Faults
    /\ WaitEnds("ABORTED")
    /\ UNCHANGED <<storeVars, at, composeStarted, lifecycle, reportOk, expired, result>>

-----------------------------------------------------------------------------
(* Finalization.                                                            *)

\* A request that ignores what another process persisted first.
RequestOwnTerminal ==
    /\ pc = "request"
    /\ requested' = (IF requested = "none" THEN "COMPLETED" ELSE requested)
    /\ request' = FirstWins(request, requested')
    /\ pc' = "finalizing"
    /\ UNCHANGED <<statusVars, committed, manifest, operator, running, topicVars,
                   at, composeStarted, lifecycle, reportOk, expired, result>>

\* request_finalization: whatever request was persisted first is followed.
RequestFinalization ==
    /\ pc = "request"
    /\ request' = FirstWins(request, IF requested = "none" THEN "COMPLETED" ELSE requested)
    /\ requested' = request'
    /\ pc' = "finalizing"
    /\ UNCHANGED <<statusVars, committed, manifest, operator, running, topicVars,
                   at, composeStarted, lifecycle, reportOk, expired, result>>

\* FINALIZING is shown from here to the end, and the budget of finalization starts.
EnterFinalizing ==
    /\ pc = "finalizing"
    /\ lifecycle' = Apply(lifecycle, EventOf(requested))
    /\ operator' = lifecycle'.state
    /\ pc' = IF composeStarted THEN "frozen" ELSE "capture"
    /\ UNCHANGED <<statusVars, request, committed, manifest, running, topicVars,
                   at, composeStarted, requested, reportOk, expired, result>>

\* Keeps the requested terminal through a failed step.
DowngradeNever == requested

\* A step of finalization that goes wrong turns COMPLETED into FAILED and
\* leaves FAILED and ABORTED as they are.
Downgrade == IF requested = "COMPLETED" THEN "FAILED" ELSE requested

\* Waits without a budget.
AwaitForever(point, name, next) ==
    /\ pc = point
    /\ name \in facts /\ pc' = next
    /\ UNCHANGED <<storeVars, at, composeStarted, requested, lifecycle, reportOk,
                   expired, result>>

\* _wait_for(RuntimeFrozenStatus), then _wait_for(ArtifactsFinalStatus).
AwaitFinalFact(point, name, next) ==
    /\ pc = point
    /\ \/ name \in facts /\ pc' = next /\ requested' = requested
       \/ /\ "work" \in expired \/ "interrupt" \in Faults
          /\ pc' = "capture"
          /\ requested' = Downgrade
    /\ UNCHANGED <<storeVars, at, composeStarted, lifecycle, reportOk, expired, result>>

AwaitFrozen == AwaitFinalFact("frozen", "runtime-frozen", "final")
AwaitArtifactsFinal == AwaitFinalFact("final", "artifacts-final", "capture")

CaptureLogs ==
    /\ pc = "capture"
    /\ pc' = "report"
    /\ \/ "work" \notin expired /\ requested' = requested
       \/ ("work" \in expired \/ "host" \in Faults) /\ requested' = Downgrade
       \/ "interrupt" \in Faults /\ requested' = "ABORTED"
    /\ UNCHANGED <<storeVars, at, composeStarted, lifecycle, reportOk, expired, result>>

\* The report is read again; each record is checked against the file it names.
ReadReport ==
    /\ pc = "report"
    /\ pc' = "provenance"
    /\ \/ /\ "artifacts-final" \in facts /\ recordsValid /\ "work" \notin expired
          /\ reportOk' = TRUE
          /\ requested' = requested
       \/ /\ \/ "artifacts-final" \notin facts
             \/ ~recordsValid
             \/ "work" \in expired
             \/ "artifact" \in Faults
          /\ reportOk' = FALSE
          /\ requested' = Downgrade
    /\ UNCHANGED <<storeVars, at, composeStarted, lifecycle, expired, result>>

\* Image digests and the score.
CollectProvenance ==
    /\ pc = "provenance"
    /\ pc' = "commit"
    /\ \/ "work" \notin expired /\ requested' = requested
       \/ /\ "work" \in expired \/ Faults \cap {"host", "artifact"} # {}
          /\ requested' = Downgrade
    /\ UNCHANGED <<storeVars, at, composeStarted, lifecycle, reportOk, expired, result>>

\* ArtifactSession._required_records: every required path is validated again,
\* with the report's validators for the recorder outputs.
RequiredArtifacts(complete) ==
    /\ complete => reportOk /\ "work" \notin expired
    /\ ~complete => ~reportOk \/ "work" \in expired \/ "artifact" \in Faults

\* The terminal finalize_with_result puts into the manifest.
EffectiveTerminal(complete) == IF complete THEN requested ELSE Downgrade

\* finalize_with_result returned: its terminal is authoritative.
CommitManifest ==
    /\ pc = "commit"
    /\ "manifest" \notin expired
    /\ \E complete \in BOOLEAN :
         RequiredArtifacts(complete) /\ manifest' = EffectiveTerminal(complete)
    /\ requested' = manifest'
    /\ lifecycle' = Apply(lifecycle,
                          IF manifest' = "FAILED" /\ lifecycle.pending = "COMPLETED"
                          THEN "FINALIZATION_FAILED"
                          ELSE "ARTIFACTS_FINALIZED")
    /\ pc' = "publish"
    /\ UNCHANGED <<statusVars, request, committed, operator, running, topicVars,
                   at, composeStarted, reportOk, expired, result>>

\* finalize_with_result raised.  The fsync of the run directory comes after the
\* link that publishes manifest.json, so the exception does not tell whether
\* there is a manifest.
CommitRaises ==
    /\ pc = "commit"
    /\ \/ ("manifest" \in expired \/ "host" \in Faults) /\ manifest' = manifest
       \/ /\ "fsync" \in Faults
          /\ "manifest" \notin expired
          /\ \E complete \in BOOLEAN :
               RequiredArtifacts(complete) /\ manifest' = EffectiveTerminal(complete)
    /\ requested' = "FAILED"
    /\ lifecycle' = In("FAILED")
    /\ pc' = "close"
    /\ UNCHANGED <<statusVars, request, committed, operator, running, topicVars,
                   at, composeStarted, reportOk, expired, result>>

\* write_terminal_committed; its failure is only a diagnostic.
PublishTerminal ==
    /\ pc = "publish"
    /\ \/ committed' = FirstWins(committed, requested)
       \/ "host" \in Faults /\ committed' = committed
    /\ pc' = IF composeStarted THEN "notify" ELSE "close"
    /\ UNCHANGED <<statusVars, request, manifest, operator, running, topicVars,
                   at, composeStarted, requested, lifecycle, reportOk, expired, result>>

AwaitNotified ==
    /\ pc = "notify"
    /\ \/ "terminal-notified" \in facts
       \/ "manifest" \in expired
       \/ "host" \in Faults
    /\ pc' = "close"
    /\ UNCHANGED <<storeVars, at, composeStarted, requested, lifecycle, reportOk,
                   expired, result>>

\* Reports the persisted request instead of the committed terminal.
CloseWithRequest ==
    /\ pc = "close"
    /\ operator' = request
    /\ result' = request
    /\ pc' = "teardown"
    /\ UNCHANGED <<statusVars, request, committed, manifest, running, topicVars,
                   at, composeStarted, requested, lifecycle, reportOk, expired>>

\* The final operator status, whose failure is ignored, and the RunResult.
Close ==
    /\ pc = "close"
    /\ \/ operator' = requested
       \/ "host" \in Faults /\ operator' = operator
    /\ result' = requested
    /\ pc' = "teardown"
    /\ UNCHANGED <<statusVars, request, committed, manifest, running, topicVars,
                   at, composeStarted, requested, lifecycle, reportOk, expired>>

\* compose.down in the finally block; its failure adds a diagnostic to the
\* operator status and leaves the containers running.
Teardown ==
    /\ pc = "teardown"
    /\ \/ running' = {}
       \/ "host" \in Faults /\ running' = running
    /\ pc' = "done"
    /\ UNCHANGED <<statusVars, controlVars, topicVars, at, composeStarted, requested, lifecycle,
                   reportOk, expired, result>>

\* An exception start() does not catch: a failed write of the operator status
\* or of the request, or an interrupt outside the guarded regions.
Unwind ==
    /\ pc \in {"created", "prepare", "request", "finalizing", "report", "provenance",
               "commit", "publish", "notify", "close"}
    /\ Faults \cap {"interrupt", "host"} # {}
    /\ result' = "raised"
    /\ pc' = "teardown"
    /\ UNCHANGED <<storeVars, at, composeStarted, requested, lifecycle, reportOk, expired>>

\* The host process is killed.
Die ==
    /\ "crash" \in Faults
    /\ pc \notin Stops
    /\ pc' = "dead"
    /\ UNCHANGED <<storeVars, at, composeStarted, requested, lifecycle, reportOk,
                   expired, result>>

\* The monotonic clock passes a deadline: the startup deadline is never later
\* than the overall one, and the manifest reserve follows the work deadline.
DeadlinePasses(d) ==
    /\ "deadline" \in Faults
    /\ d \notin expired
    /\ d = "startup" => pc \in Waits
    /\ d = "overall" => pc \in Waits /\ "startup" \in expired
    /\ d = "work" => pc \in FinalWaits \cup {"capture", "report", "provenance", "commit"}
    /\ d = "manifest" => /\ pc \in {"commit", "publish", "notify"} \/ "work" \in expired
                         /\ pc \in FinalWaits \cup {"capture", "report", "provenance",
                                                    "commit", "publish", "notify"}
    /\ expired' = expired \cup (IF d = "manifest" THEN {"work", d} ELSE {d})
    /\ UNCHANGED <<storeVars, pc, at, composeStarted, requested, lifecycle, reportOk, result>>

HostNext ==
    \/ Begin \/ Prepare \/ ComposeUp \/ UpReturns
    \/ ObserveRequest \/ InspectServices \/ ReadStatus \/ WaitTimesOut \/ WaitInterrupted
    \/ RequestFinalization \/ EnterFinalizing \/ AwaitFrozen \/ AwaitArtifactsFinal
    \/ CaptureLogs \/ ReadReport \/ CollectProvenance \/ CommitManifest \/ CommitRaises
    \/ PublishTerminal \/ AwaitNotified \/ Close \/ Teardown \/ Unwind \/ Die
    \/ \E d \in Deadlines : DeadlinePasses(d)

-----------------------------------------------------------------------------
(* The operator's commands.                                                 *)

\* abort and status first look for a committed manifest.
AskCommand(next) ==
    /\ command = "idle"
    /\ IF manifest # "none"
       THEN answer' = manifest /\ command' = command
       ELSE command' = next /\ answer' = answer
    /\ UNCHANGED <<storeVars, cached>>

Abort == "abort" \in Faults /\ AskCommand("requesting")
Status == "status" \in Faults /\ AskCommand("cache")

AbortRequests ==
    /\ command = "requesting"
    /\ request' = FirstWins(request, "ABORTED")
    /\ command' = "recheck"
    /\ UNCHANGED <<statusVars, committed, manifest, operator, running, topicVars,
                   cached, answer>>

AbortRechecks ==
    /\ command = "recheck"
    /\ IF manifest # "none"
       THEN answer' = manifest /\ command' = "idle"
       ELSE command' = "reading" /\ answer' = answer
    /\ UNCHANGED <<storeVars, cached>>

AbortReads ==
    /\ command = "reading"
    /\ answer' = operator
    /\ command' = "idle"
    /\ UNCHANGED <<storeVars, cached>>

StatusReads ==
    /\ command = "cache"
    /\ cached' = operator
    /\ command' = "confirm"
    /\ UNCHANGED <<storeVars, answer>>

StatusConfirms ==
    /\ command = "confirm"
    /\ answer' = IF manifest # "none" THEN manifest ELSE cached
    /\ command' = "idle"
    /\ UNCHANGED <<storeVars, cached>>

CommandNext ==
    \/ Abort \/ Status \/ AbortRequests \/ AbortRechecks \/ AbortReads
    \/ StatusReads \/ StatusConfirms
=============================================================================
