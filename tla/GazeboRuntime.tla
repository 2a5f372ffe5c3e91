--------------------------- MODULE GazeboRuntime ---------------------------
(***************************************************************************)
(* The process that owns the Gazebo server (gazebo/runtime): the main loop *)
(* of runtime_node.py, the pure RuntimeModel it feeds, the ActionExecutor, *)
(* the PublicEpochRendezvous with its unpause thread, and of the adapter   *)
(* the gate that opens public output at the epoch.  Around it, external:   *)
(* the Gazebo world, the run-state topic and the files other modules write.*)
(***************************************************************************)
EXTENDS Naturals, Sequences

CONSTANT Troubles  \* the kinds of failure that may happen

ASSUME GazeboAssumption ==
    Troubles \subseteq {"child", "adapter", "call", "write", "probe", "stop", "late"}

RunStates == {"STARTING", "READY", "RUNNING", "FINALIZING", "TERMINAL"}
Requests == {"COMPLETED", "OTHER"}
Events == {"ARTIFACTS", "EXCHANGE", "EXITED", "STOPPED", "STOP_FAILED",
           "VALID_SUMMARY", "INVALID_SUMMARY"} \cup RunStates \cup Requests
Writes == {"gazebo-ready", "source-finished", "runtime-failure", "quiescence"}
Effects == Writes \cup {"warmup", "pause", "activate", "begin", "stop"}
Flags == {"artifactsReady", "exchange", "readyPublished", "paused", "source", "failed",
          "preempted", "begun", "stopRequested", "stopFailed", "frozen"}

VARIABLES
    flags,      \* RuntimeModel: the flags that are set
    lifecycle,  \* RuntimeModel._lifecycle_state
    pc,         \* the point the main loop has reached
    inbox,      \* events not yet accepted
    todo,       \* effects of the last event not yet applied
    handling,   \* in the exception handler of main()
    seen,       \* the *_seen flags of main(), ChildSupervisor._first_failure
    adapter,    \* GazeboAdapterNode: the flags that are set
    epoch,      \* PublicEpochRendezvous; call: its last unpause
    world,      \* the Gazebo world: where its time is, whether it advances
    children,   \* the bridge processes: "up", "dead" (one exited) or "stopped"
    server,     \* the Gazebo server: "up" or "stopped"
    facts,      \* status files; "exchange": SITL answers through Gazebo
    topic,      \* last sample of /simulation/run_state, which keeps only one
    heard,      \* last sample taken from it
    request     \* the finalize request

modelVars == <<flags, lifecycle>>
loopVars == <<pc, inbox, todo, handling, seen>>
processVars == <<children, server>>
peerVars == <<topic, request>>
gazeboVars == <<modelVars, loopVars, adapter, epoch, world, processVars, facts,
                peerVars, heard>>

GazeboTypeOK ==
    /\ flags \subseteq Flags
    /\ lifecycle \in RunStates \ {"TERMINAL"}
    /\ pc \in {"spin", "release", "probe", "artifacts", "children", "request",
               "drain", "apply", "quiescent", "failed"}
    /\ inbox \in Seq(Events)
    /\ todo \in Seq(Effects)
    /\ handling \in BOOLEAN
    /\ seen \subseteq {"exchange", "artifacts", "child", "request"}
    /\ adapter \subseteq {"armed", "latched", "requested", "active", "faulted", "completed"}
    /\ epoch \in [begun : BOOLEAN, runTo : BOOLEAN, released : BOOLEAN,
                  call : {"none", "calling", "ok", "error"}]
    /\ world \in [place : {"before", "window", "held", "beyond"},
                  running : BOOLEAN, target : BOOLEAN]
    /\ children \in {"up", "dead", "stopped"} /\ server \in {"up", "stopped"}
    /\ facts \subseteq Writes \cup {"artifacts-ready", "exchange", "delivered"}
    /\ topic \in RunStates /\ heard \in RunStates \cup {"none"}
    /\ request \in Requests \cup {"none"}

GazeboInit ==
    /\ flags = {"paused"} /\ lifecycle = "STARTING"
    /\ pc = "spin" /\ inbox = <<>> /\ todo = <<>> /\ handling = FALSE /\ seen = {}
    /\ adapter = {}
    /\ epoch = [begun |-> FALSE, runTo |-> FALSE, released |-> FALSE,
                call |-> "none"]
    /\ world = [place |-> "before", running |-> FALSE, target |-> FALSE]
    /\ children = "up" /\ server = "up"
    /\ facts = {} /\ topic = "STARTING" /\ heard = "none" /\ request = "none"

-----------------------------------------------------------------------------
(* RuntimeModel: what an event does to the flags, and the effects it asks for. *)

Has(sequence, x) == \E k \in 1..Len(sequence) : sequence[k] = x

Unchanged == [flags |-> flags, lifecycle |-> lifecycle, effects |-> <<>>]

With(r, set, effects) == [r EXCEPT !.flags = @ \cup set, !.effects = @ \o effects]

Pause(r) == IF "paused" \in r.flags THEN r ELSE With(r, {"paused"}, <<"pause">>)

Begin(r) == IF "begun" \in r.flags THEN r ELSE With(r, {"begun"}, <<"begin">>)

\* _failure
Failure(r) ==
    IF "failed" \in r.flags THEN r
    ELSE Begin(Pause(With(r, {"failed", "preempted"}, <<"runtime-failure">>)))

\* _ready
Ready(r) ==
    IF {"artifactsReady", "exchange"} \subseteq r.flags /\ "readyPublished" \notin r.flags
    THEN With(r, {"readyPublished"}, <<"gazebo-ready">>)
    ELSE r

\* Mutant: the terminal states are entered like FINALIZING.
AcceptRunStateTerminal(state) ==
    CASE state = lifecycle /\ state # "FINALIZING" -> Unchanged
      [] state = "READY" /\ lifecycle = "STARTING" /\ "readyPublished" \in flags ->
           [flags |-> flags \ {"paused"}, lifecycle |-> "READY", effects |-> <<"warmup">>]
      [] state = "RUNNING" /\ lifecycle = "READY" ->
           [flags |-> flags, lifecycle |-> "RUNNING", effects |-> <<"activate">>]
      [] state \in {"FINALIZING", "TERMINAL"} ->
           Pause(With([Unchanged EXCEPT !.lifecycle = state], {"preempted"}, <<>>))
      [] OTHER -> Failure(Unchanged)

\* _accept_run_state
AcceptRunState(state) ==
    CASE state = lifecycle /\ state # "FINALIZING" -> Unchanged
      [] state = "READY" /\ lifecycle = "STARTING" /\ "readyPublished" \in flags ->
           [flags |-> flags \ {"paused"}, lifecycle |-> "READY", effects |-> <<"warmup">>]
      [] state = "RUNNING" /\ lifecycle = "READY" ->
           [flags |-> flags, lifecycle |-> "RUNNING", effects |-> <<"activate">>]
      [] state = "FINALIZING" ->
           Pause(With([Unchanged EXCEPT !.lifecycle = "FINALIZING"], {"preempted"}, <<>>))
      [] OTHER -> Failure(Unchanged)

\* _accept_completion; the adapter completes at most once.
AcceptCompletion(valid) ==
    IF lifecycle = "RUNNING" /\ valid
    THEN LET r == Pause(With(Unchanged, {"source"}, <<>>))
         IN With(r, {}, <<"source-finished">>)
    ELSE Failure(Unchanged)

\* _accept_finalization
AcceptFinalization(terminal) ==
    LET checked == IF terminal = "COMPLETED" /\ "source" \notin flags
                   THEN Failure(Unchanged) ELSE Unchanged
        stopping == With([checked EXCEPT !.lifecycle = "FINALIZING"],
                         {"preempted", "stopRequested"}, <<>>)
    IN IF "stopRequested" \in flags THEN Unchanged
       ELSE With(Begin(Pause(stopping)), {}, <<"stop">>)

\* _accept_stopped, of the server the model asked to stop.
AcceptStopped ==
    IF "stopFailed" \in flags THEN Unchanged
    ELSE With(Unchanged, {"frozen"}, <<"quiescence">>)

\* A frozen model refuses all but repetitions of what it knows.
Refused(event) ==
    /\ "frozen" \in flags
    /\ event \notin {"STOPPED", "FINALIZING", "TERMINAL"} \cup Requests

\* Mutant: a failed model ignores everything.
AcceptFailedFirst(event) ==
    CASE "frozen" \in flags \/ "failed" \in flags -> Unchanged
      [] event \in Requests -> AcceptFinalization(event)
      [] event = "STOP_FAILED" -> With(Failure(Unchanged), {"stopFailed"}, <<>>)
      [] event = "STOPPED" -> AcceptStopped
      [] event = "EXITED" -> Failure(Unchanged)
      [] event \in RunStates -> AcceptRunState(event)
      [] "preempted" \in flags -> Unchanged
      [] event = "ARTIFACTS" -> Ready(With(Unchanged, {"artifactsReady"}, <<>>))
      [] event = "EXCHANGE" -> Ready(With(Unchanged, {"exchange"}, <<>>))
      [] OTHER -> AcceptCompletion(event = "VALID_SUMMARY")

\* accept
Accept(event) ==
    CASE "frozen" \in flags -> Unchanged
      [] event \in Requests -> AcceptFinalization(event)
      [] event = "STOP_FAILED" -> With(Failure(Unchanged), {"stopFailed"}, <<>>)
      [] event = "STOPPED" -> AcceptStopped
      [] event = "EXITED" -> Failure(Unchanged)
      [] "failed" \in flags -> Unchanged
      [] event \in RunStates -> AcceptRunState(event)
      [] "preempted" \in flags -> Unchanged
      [] event = "ARTIFACTS" -> Ready(With(Unchanged, {"artifactsReady"}, <<>>))
      [] event = "EXCHANGE" -> Ready(With(Unchanged, {"exchange"}, <<>>))
      [] OTHER -> AcceptCompletion(event = "VALID_SUMMARY")

-----------------------------------------------------------------------------
(* Exceptions.  main() catches everything; unless the finalize request was    *)
(* seen, the handler finalizes the model and stops the server itself.         *)

\* Mutant: the output stays active.
FreezeLatches == adapter \cup {"faulted"}

\* freeze_output
Freeze == (adapter \ {"active"}) \cup {"faulted"}

Raise ==
    IF handling \/ "request" \in seen
    THEN /\ pc' = "failed" /\ inbox' = <<>> /\ todo' = <<>>
         /\ UNCHANGED <<modelVars, handling, adapter>>
    ELSE LET r == AcceptFinalization("OTHER")
         IN /\ flags' = r.flags /\ lifecycle' = r.lifecycle
            /\ todo' = r.effects /\ inbox' = <<>>
            /\ handling' = TRUE /\ adapter' = Freeze
            /\ pc' = IF r.effects = <<>> THEN "failed" ELSE "apply"

-----------------------------------------------------------------------------
(* The main loop, step by step. *)

Go(next) == pc' = next /\ UNCHANGED <<todo, handling>>

Post(event) == inbox' = Append(inbox, event)

\* spin_once: no callback, or one of a subscription.
SpinTimeout ==
    /\ pc = "spin" /\ Go("release")
    /\ UNCHANGED <<modelVars, inbox, seen, adapter, epoch, world, processVars, facts,
                   peerVars, heard>>

TakeRunState ==
    /\ pc = "spin" /\ Go("release")
    /\ topic # heard
    /\ heard' = topic
    /\ Post(topic)
    /\ UNCHANGED <<modelVars, seen, adapter, epoch, world, processVars, facts, peerVars>>

\* _accept_clock: the first clock at or after the epoch latches it, and opens
\* the output if that is requested and the clock is exactly at the epoch.
LatchEpoch(exact) ==
    /\ pc = "spin" /\ Go("release")
    /\ world.place # "before"
    /\ "armed" \in adapter
    /\ adapter \cap {"latched", "faulted", "completed"} = {}
    /\ exact \/ "late" \in Troubles
    /\ adapter' = adapter \cup {"latched"}
                          \cup IF exact /\ "requested" \in adapter THEN {"active"} ELSE {}
    /\ UNCHANGED <<modelVars, inbox, seen, epoch, world, processVars, facts, peerVars, heard>>

\* _maybe_complete
Complete(valid) ==
    /\ pc = "spin" /\ Go("release")
    /\ world.place = "beyond" /\ "active" \in adapter
    /\ adapter' = (adapter \ {"active"}) \cup {"completed"}
    /\ Post(IF valid THEN "VALID_SUMMARY" ELSE "INVALID_SUMMARY")
    /\ UNCHANGED <<modelVars, seen, epoch, world, processVars, facts, peerVars, heard>>

\* _fail, from any sample that breaks the adapter's contract.
AdapterFails ==
    /\ pc = "spin" /\ Go("release")
    /\ "adapter" \in Troubles
    /\ adapter \cap {"faulted", "completed"} = {}
    /\ adapter' = Freeze
    /\ Post("EXITED")
    /\ UNCHANGED <<modelVars, seen, epoch, world, processVars, facts, peerVars, heard>>

\* Mutant: the release status is not read.
ReleaseWaitsNot ==
    \/ ~ epoch.begun \/ ~ epoch.runTo \/ epoch.released
    \/ epoch.call = "calling"
    \/ epoch.call = "ok" /\ "latched" \notin adapter

\* release_if_delivered: the first unpause, its failure, and the second one, which
\* releases.  No attempt was made while call is "none".
ReleaseWaits ==
    \/ ~ epoch.begun \/ ~ epoch.runTo \/ epoch.released
    \/ "delivered" \notin facts
    \/ epoch.call = "calling"
    \/ epoch.call = "ok" /\ "latched" \notin adapter

Release ==
    /\ pc = "release"
    /\ \/ ReleaseWaits /\ Go("probe") /\ UNCHANGED <<modelVars, inbox, adapter, epoch>>
       \/ /\ ~ ReleaseWaits /\ epoch.call = "none"
          /\ epoch' = [epoch EXCEPT !.call = "calling"]
          /\ Go("probe") /\ UNCHANGED <<modelVars, inbox, adapter>>
       \/ /\ ~ ReleaseWaits /\ epoch.call # "none" /\ "latched" \in adapter
          /\ epoch' = [epoch EXCEPT !.call = "calling", !.released = TRUE]
          /\ Go("probe") /\ UNCHANGED <<modelVars, inbox, adapter>>
       \/ /\ ~ ReleaseWaits
          /\ epoch.call = "error" /\ "latched" \notin adapter
          /\ Raise /\ UNCHANGED epoch
    /\ UNCHANGED <<seen, world, processVars, facts, peerVars, heard>>

\* The flight-exchange probe, until it succeeds: it may find nothing, and it
\* raises past the startup deadline and on a malformed answer.
Probe ==
    /\ pc = "probe"
    /\ \/ /\ "exchange" \in facts \ seen
          /\ seen' = seen \cup {"exchange"} /\ Post("EXCHANGE")
          /\ Go("artifacts") /\ UNCHANGED <<modelVars, adapter>>
       \/ Go("artifacts") /\ UNCHANGED <<modelVars, inbox, seen, adapter>>
       \/ /\ "exchange" \notin seen /\ "probe" \in Troubles
          /\ Raise /\ UNCHANGED seen
    /\ UNCHANGED <<epoch, world, processVars, facts, peerVars, heard>>

PollArtifacts ==
    /\ pc = "artifacts" /\ Go("children")
    /\ IF "artifacts-ready" \in facts /\ "artifacts" \notin seen
       THEN seen' = seen \cup {"artifacts"} /\ Post("ARTIFACTS")
       ELSE UNCHANGED <<seen, inbox>>
    /\ UNCHANGED <<modelVars, adapter, epoch, world, processVars, facts, peerVars, heard>>

\* poll_failure: the first failure is reported in every round.
PollChildren ==
    /\ pc = "children" /\ Go("request")
    /\ IF "child" \in seen \/ children = "dead"
       THEN seen' = seen \cup {"child"} /\ Post("EXITED")
       ELSE UNCHANGED <<seen, inbox>>
    /\ UNCHANGED <<modelVars, adapter, epoch, world, processVars, facts, peerVars, heard>>

PollRequest ==
    /\ pc = "request" /\ Go("drain")
    /\ IF request # "none" /\ "request" \notin seen
       THEN seen' = seen \cup {"request"} /\ Post(request)
       ELSE UNCHANGED <<seen, inbox>>
    /\ UNCHANGED <<modelVars, adapter, epoch, world, processVars, facts, peerVars, heard>>

\* Accept one event; the output is frozen before the effects are applied.
Drain ==
    /\ pc = "drain" /\ inbox # <<>>
    /\ IF Refused(Head(inbox))
       THEN Raise
       ELSE LET r == Accept(Head(inbox))
            IN /\ flags' = r.flags /\ lifecycle' = r.lifecycle /\ todo' = r.effects
               /\ adapter' = IF Has(r.effects, "begin") THEN Freeze ELSE adapter
               /\ pc' = IF r.effects = <<>> THEN "drain" ELSE "apply"
               /\ inbox' = Tail(inbox) /\ UNCHANGED handling
    /\ UNCHANGED <<seen, epoch, world, processVars, facts, peerVars, heard>>

Drained ==
    /\ pc = "drain" /\ inbox = <<>>
    /\ Go(CASE handling -> "failed" [] "frozen" \in flags -> "quiescent" [] OTHER -> "spin")
    /\ UNCHANGED <<modelVars, inbox, seen, adapter, epoch, world, processVars, facts,
                   peerVars, heard>>

-----------------------------------------------------------------------------
(* ActionExecutor.apply, one effect at a time. *)

Applied ==
    /\ todo' = Tail(todo)
    /\ pc' = IF Len(todo) = 1 THEN "drain" ELSE "apply"
    /\ UNCHANGED <<modelVars, handling>>

ApplyWrite ==
    /\ pc = "apply" /\ Head(todo) \in Writes
    /\ \/ Applied /\ facts' = facts \cup {Head(todo)} /\ UNCHANGED <<inbox, adapter>>
       \/ "write" \in Troubles /\ Raise /\ UNCHANGED facts
    /\ UNCHANGED <<seen, epoch, world, processVars, peerVars, heard>>

\* start_warmup, once: arm the epoch, then run to it; a failure of the call is
\* ignored, and it may or may not have taken effect.
ApplyWarmup ==
    /\ pc = "apply" /\ Head(todo) = "warmup" /\ Applied
    /\ adapter' = IF epoch.runTo \/ "faulted" \in adapter THEN adapter
                  ELSE adapter \cup {"armed"}
    /\ \/ world' = IF epoch.runTo THEN world
                   ELSE [place |-> world.place, running |-> TRUE, target |-> TRUE]
       \/ "call" \in Troubles /\ UNCHANGED world
    /\ epoch' = [epoch EXCEPT !.runTo = TRUE]
    /\ UNCHANGED <<inbox, seen, processVars, facts, peerVars, heard>>

\* set_paused(True)
ApplyPause ==
    /\ pc = "apply" /\ Head(todo) = "pause"
    /\ \/ Applied /\ world' = [world EXCEPT !.running = FALSE] /\ UNCHANGED <<inbox, adapter>>
       \/ /\ "call" \in Troubles /\ Raise
          /\ world' \in {world, [world EXCEPT !.running = FALSE]}
    /\ UNCHANGED <<seen, epoch, processVars, facts, peerVars, heard>>

\* begin, once: activate_output
ApplyActivate ==
    /\ pc = "apply" /\ Head(todo) = "activate" /\ Applied
    /\ adapter' = IF epoch.begun \/ adapter \cap {"faulted", "active", "completed"} # {}
                  THEN adapter
                  ELSE adapter \cup {"requested", "armed"}
                               \cup IF "latched" \in adapter THEN {"active"} ELSE {}
    /\ epoch' = [epoch EXCEPT !.begun = TRUE]
    /\ UNCHANGED <<inbox, seen, world, processVars, facts, peerVars, heard>>

\* BeginFinalization has no effect of its own.
ApplyBegin ==
    /\ pc = "apply" /\ Head(todo) = "begin" /\ Applied
    /\ UNCHANGED <<inbox, seen, adapter, epoch, world, processVars, facts, peerVars, heard>>

\* Mutant: the result of the server hides a child that did not stop.
ApplyStopServerOnly ==
    /\ pc = "apply" /\ Head(todo) = "stop" /\ Applied
    /\ \/ children' = "stopped" /\ server' = "stopped" /\ Post("STOPPED")
       \/ /\ "stop" \in Troubles
          /\ children' \in {children, "stopped"} /\ server' \in {server, "stopped"}
          /\ Post(IF server' = "stopped" THEN "STOPPED" ELSE "STOP_FAILED")
    /\ UNCHANGED <<seen, adapter, epoch, world, facts, peerVars, heard>>

\* The children first, then the server; the server is stopped also when a child
\* does not stop.
ApplyStop ==
    /\ pc = "apply" /\ Head(todo) = "stop" /\ Applied
    /\ \/ children' = "stopped" /\ server' = "stopped" /\ Post("STOPPED")
       \/ /\ "stop" \in Troubles
          /\ children' \in {children, "stopped"} /\ server' \in {server, "stopped"}
          /\ Post("STOP_FAILED")
    /\ UNCHANGED <<seen, adapter, epoch, world, facts, peerVars, heard>>

LoopNext ==
    \/ SpinTimeout \/ TakeRunState \/ AdapterFails
    \/ \E exact \in BOOLEAN : LatchEpoch(exact)
    \/ \E valid \in BOOLEAN : Complete(valid)
    \/ Release \/ Probe \/ PollArtifacts \/ PollChildren \/ PollRequest
    \/ Drain \/ Drained
    \/ ApplyWrite \/ ApplyWarmup \/ ApplyPause \/ ApplyActivate \/ ApplyBegin \/ ApplyStop

-----------------------------------------------------------------------------
(* The surroundings: the call of the unpause thread, Gazebo, the peers.      *)

\* The world control call of the unpause thread reaches the server; its answer
\* may be lost, or the call itself.
UnpauseLands ==
    /\ epoch.call = "calling" /\ server = "up"
    /\ world' = [world EXCEPT !.running = TRUE]
    /\ epoch' \in {[epoch EXCEPT !.call = answer] :
                    answer \in {"ok"} \cup IF "call" \in Troubles THEN {"error"} ELSE {}}
    /\ UNCHANGED <<modelVars, loopVars, adapter, processVars, facts, peerVars, heard>>

UnpauseLost ==
    /\ epoch.call = "calling" /\ (server = "stopped" \/ "call" \in Troubles)
    /\ epoch' = [epoch EXCEPT !.call = "error"]
    /\ UNCHANGED <<modelVars, loopVars, adapter, world, processVars, facts, peerVars, heard>>

\* Simulated time passes; a run-to ends one lookahead after the epoch, paused.
Tick ==
    /\ world.running /\ server = "up" /\ world.place # "beyond"
    /\ world' = CASE world.place = "before" -> [world EXCEPT !.place = "window"]
                  [] world.place = "window" /\ world.target ->
                       [place |-> "held", running |-> FALSE, target |-> FALSE]
                  [] OTHER -> [world EXCEPT !.place = "beyond"]
    /\ UNCHANGED <<modelVars, loopVars, adapter, epoch, processVars, facts, peerVars, heard>>

ChildDies ==
    /\ "child" \in Troubles /\ children = "up"
    /\ children' = "dead"
    /\ UNCHANGED <<modelVars, loopVars, adapter, epoch, world, server, facts, peerVars, heard>>

\* The recorders, SITL and the mission write or show their facts.
PeerWrites(fact) ==
    /\ fact \notin facts
    /\ fact = "delivered" => topic \in {"READY", "RUNNING"}
    /\ facts' = facts \cup {fact}
    /\ UNCHANGED <<modelVars, loopVars, adapter, epoch, world, processVars, peerVars, heard>>

\* The host asks for finalization, for COMPLETED only after source-finished.
RequestFinalization(terminal) ==
    /\ request = "none"
    /\ terminal = "COMPLETED" => "source-finished" \in facts
    /\ request' = terminal
    /\ UNCHANGED <<modelVars, loopVars, adapter, epoch, world, processVars, facts, topic, heard>>

\* The orchestration node publishes the lifecycle.
PublishState(state) ==
    /\ CASE state = "READY" -> /\ topic = "STARTING" /\ request = "none"
                               /\ {"gazebo-ready", "artifacts-ready"} \subseteq facts
         [] state = "RUNNING" -> topic = "READY" /\ request = "none"
         [] state = "FINALIZING" -> /\ topic \in {"STARTING", "READY", "RUNNING"}
                                    /\ request # "none"
         [] OTHER -> topic = "FINALIZING"
    /\ topic' = state
    /\ UNCHANGED <<modelVars, loopVars, adapter, epoch, world, processVars, facts, request, heard>>

GazeboNext ==
    \/ LoopNext
    \/ UnpauseLands \/ UnpauseLost \/ Tick \/ ChildDies
    \/ \E fact \in {"artifacts-ready", "exchange", "delivered"} : PeerWrites(fact)
    \/ \E terminal \in Requests : RequestFinalization(terminal)
    \/ \E state \in RunStates \ {"STARTING"} : PublishState(state)

GazeboSpec == GazeboInit /\ [][GazeboNext]_gazeboVars

\* Fairness of the main loop only: every call it makes has a timeout.
GazeboFairSpec == GazeboSpec /\ WF_gazeboVars(LoopNext)

-----------------------------------------------------------------------------
(* Properties. *)

\* PublicEpochRendezvous: physics never passes the public epoch before the
\* first command was delivered, whatever becomes of the world control calls.
HeldUntilDelivered == world.place = "beyond" => "delivered" \in facts

\* Once the failure or the quiescence of the runtime is on record the adapter
\* publishes nothing, although its callbacks still run.
EvidenceIsClosed ==
    facts \cap {"runtime-failure", "quiescence"} # {} => "active" \notin adapter

\* The quiescence marker is written only when every process was stopped, and no
\* event is left for the model that froze with it.
QuiescenceIsEarned ==
    /\ "quiescence" \in facts => children = "stopped" /\ server = "stopped"
    /\ "frozen" \in flags => inbox = <<>>

\* A finalize request ends in quiescence, in the failed exit of the process or in
\* a stop failure, after which the host's deadline decides.
RequestIsAnswered ==
    request # "none" ~> \/ "quiescence" \in facts \/ pc = "failed"
                        \/ "stopFailed" \in flags

\* gazebo/README.md: "late activation or a skipped target faults closed".  Once the
\* epoch is latched for requested output, the output is open, faulted or complete.
SkippedTargetFaults ==
    {"latched", "requested"} \subseteq adapter =>
        adapter \cap {"active", "faulted", "completed"} # {}
=============================================================================
