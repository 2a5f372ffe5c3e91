# A TLA+ model of drone_sim

drone_sim runs a simulated drone competition: Gazebo, ArduPilot SITL and a
companion computer fly a mission, an electromagnet service picks up payloads, a
scorekeeper judges, and an artifacts service records. A host controller starts
the services with Docker Compose, watches them through a run directory, and ends
a run by committing `manifest.json`. This directory models the parts of that
system where the order of steps of several processes decides whether the result
is right, checks the models with TLC and proves some of the results with TLAPS.

## 1. Inventory

| Component | State it keeps | Operations | Talks to | Hard part |
| --- | --- | --- | --- | --- |
| Host controller (`orchestration/controller.py`, `lifecycle.py`) | point in `start`, `RunLifecycle`, `requested`, deadlines | `start`, `status`, `abort`, `collect_results` | run directory, Compose | interrupts, failures of any step, races with `abort` |
| Run directory (`artifacts/protocol_files.py`, `runtime_protocol.py`, `runtime_status.py`, `orchestration/status_store.py`) | status files, quiescence markers, finalize request, commit marker, operator cache, manifest | atomic write with policy REPLACE, IDENTICAL, FIRST_WINS; validated read | everyone | concurrent writers, crash between link and fsync |
| Orchestration node (`orchestration/runtime_node.py`) | barrier, state, artifacts-ready flag | barrier poll, two callbacks, `poll` | run_state topic, status files | mutual waits of startup, request during the barrier |
| Artifacts node (`artifacts/runtime_node.py`) | recorder state, failure latch | `start`, `check_ready`, `check_health`, `finalize`, `poll_terminal` | status files, artifact_status topic | recorder that dies or does not stop |
| Recorders and log capture (`artifacts/_adapters/video.py`, `rosbag.py`, `docker_logs.py`) | child processes, pairing buffer, `.partial` files | start, feed, finalize, validate, publish | FFmpeg, rosbag2, Docker, run directory | process or thread that ends late, a call that fails between two names of a file |
| Bundle (`artifacts/session.py`, `manifest.py`, `validation.py`) | none | validate, build and link the manifest | run directory | publication boundary |
| Gazebo runtime (`gazebo/runtime`) | `RuntimeModel` flags, epoch rendezvous, children | `accept`, `apply`, main loop | Gazebo server, run_state | lifecycle samples out of order, server that does not stop |
| Gazebo server (`gazebo/server`) | process group, native state, server log | `start`, `stop` | the simulator | a pid that is somebody else's, a member that survives its leader |
| Gazebo adapter (`gazebo/ros_adapter`) | pending frames by timestamp, epoch gate | accept per stream, join, publish | ROS topics | streams of one frame arrive in any order, some messages never |
| Payload coordinator and joints (`gazebo/plugin`, vendored `DetachableJoint`) | queue, active command, physical state seen, joint and its requests | `OnCommand`, `OnPhysicalState`, `PreUpdate` | electromagnet | stale states and triggers under way, two joints on one parent |
| Electromagnet (`electromagnet/controller.py`, `payload.py`) | truth histories, ledger, pending results, event counter | truth callbacks, service, result callback, finalize | Gazebo, companion, scorekeeper | blocking service in a thread pool, retries, late answers |
| Scorekeeper (`scorekeeper`) | judge, epoch join, evidence, result | accept per stream, decide, score, flush, quiesce | status files, topics | topics without a common order, scoring exactly up to the last frame, a flush that times out |
| Companion (`companion`) | mission, operation, recovery, failure latch, vision threads | missions, tools, readiness, shutdown | MAVLink, electromagnet, scorekeeper | threads, late telemetry, shutdown of a worker that flies |
| Nested `comp2026` stack (`companion/comp2026/src/drone`) | attempt ledger, supervisor, command queue, authority, vehicle as seen | prepare, admit, begin, finish, abort, phases, recovery | MAVLink, ground station | abort against the owner thread, an attempt across a crash, recovery on late telemetry |
| SITL supervisor (`ardupilot_sitl`) | process, output facts | main loop, `_finalize` | status files | process that does not stop |

What makes each correct: the controller ends every run with exactly one terminal
state that everybody reads the same way and COMPLETED is earned; the directory
never changes what was promised; the nodes keep the order of the handshake; a
payload command has at most one physical effect however often it is retried; a file
that carries its final name is whole and has no writer; a score is what the rules say
of what was flown, whatever the topics did to the evidence; the companion commands the
vehicle from one place at a time, never after it gave up, and reports only what it flew.

## 2. Modules

| Module | Models |
| --- | --- |
| `PayloadGateway` | electromagnet: `PayloadGateway`, `PayloadAuthority`, the loop of `_competition_main` |
| `MCPayloadGateway` | the places, zones, requests and truth samples of its run |
| `PayloadGatewayProofs` | its theorems |
| `PayloadMagnet` | what the Gazebo side promises: one exclusive magnet that serves commands in order |
| `PayloadPlant` | the Gazebo side: `PayloadCommandCoordinator` and `DetachableJoint` of every payload |
| `PayloadPlantProofs` | its theorems, with the refinement of `PayloadMagnet` |
| `GazeboRuntime` | the process that owns the Gazebo server: main loop, `RuntimeModel`, `ActionExecutor`, epoch rendezvous, the adapter's output gate |
| `GazeboRuntimeProofs` | its theorems |
| `RunStore` | the run directory and the two lifecycle topics |
| `RunController` | `RunController.start`, `RunLifecycle`, the `abort` and `status` commands |
| `OrchestrationRuntime` | barrier and `OrchestrationRuntime.poll` |
| `ArtifactsRuntime` | `AggregateArtifactsRuntime` |
| `RunPeers` | companion, SITL, Gazebo, electromagnet and scorekeeper as the directory sees them |
| `RunSystem` | the composition of the five above, its properties and its fairness |
| `RunSystemProofs` | its theorems |
| `VideoRecorder` | `FaultAwareRecorder`, `VideoStreamRecorder` with its FFmpeg process, MP4 validation |
| `BagRecorder` | `RosbagRecorder` and the validator of the bag |
| `LogCapture` | `DockerLogCapture.capture` |
| `GazeboServer` | `GazeboServer.start` and `stop` |
| `Evidence` | the four above, one at a time, their properties and their fairness |
| `EvidenceProofs` | its theorems |
| `EpochAdapter` | `GazeboAdapterNode`: joins of the native streams, epoch gate, public output |
| `VfsJudging` | the 2027 scorekeeper: epoch join, `VfsJudge`, `VfsScorer` |
| `CompetitionScore` | the 2026 scorekeeper: `CompetitionScorer` and its runtime |
| `DescentScore` | the descent: `DescentScorer` and its runtime |
| `ScoreFinalizer` | `_ScoreFinalizer`, `ScorekeeperDriver.poll`, the handler of `main()` |
| `Scoring` | the adapter and the scorekeepers, one at a time, and the flights they are checked on |
| `ScoringProofs` | its theorems |
| `CompanionHost` | `_run_comp2026`: main loop, worker, callbacks, start gate, failure coordinator |
| `VehicleControl` | comp2026: `DroneControl` and `FlightState`, over an external vehicle |
| `SupervisedAttempt` | comp2026: `AttemptLedger`, `MissionSupervisor`, `CommandExecutionOwner`, the listener, FM1 and FM2 |
| `CompanionEntries` | the host and the listener, one at a time, and their fairness |
| `CompanionEntriesProofs` | its theorems |
| `ConfiguredRun` | `run_configured`: `ConfiguredHost`, `ConfiguredMission`, `DroneOperations` |
| `MarkerVision` | `RosFrameSource`, `CameraManager`, `ConfiguredVision` |
| `PrecisionLanding` | `find_marker` and `precision_land` |
| `DirectMission` | the controlled descent, the roll tuning and the hover check |
| `Companion` | a configured run, a landing and the direct missions, one unit at a time |
| `CompanionProofs` | its theorems |

### The payload gateway

A caller is a client's call of `/simulation/payload_command`; its `phase` is the
point the service callback has reached. The callback runs in a pool of executor
threads (`NumThreads`), serialised by the operation lock from `Lookup` on, and
releases the state lock between `Lookup`, `Authorize`, `PublishCommand`, the wait,
`Resolve` and `RecordSuccess`; truth and results are delivered between any two of
these. Gazebo is unconstrained: a result may be early, late, duplicated,
contradictory, for another command, or never come. Truth is a timestamp, a place,
grounded and attached; the geometry (`PickupZone.contains`, the pickup radius) is
reduced to `ZonesAt` and `CloseTo` over a few places. Message wording and run-id
syntax are left out.

The end follows `_competition_main`: `StopLoop` is the end of the loop, `Quiesce` the
marker, which is written when every callback has returned or when the shutdown of the
executor gave up on one that waits; `DestroyNode` takes publisher and service away. The
executor gives up only if a wait ran out behind the loop (`expired`) and a call queued behind
it then went out and waits in its turn; a third call of that queue may still send its command
between the marker and `DestroyNode`. No result is delivered by then, so no call succeeds.
`SilentAfterQuiescence` says exactly that.

`wires[i]` counts how often id `i` was sent; it is the only history variable.

### The payload plant

Each payload has a coordinator (`queue`, `active`, `view` for `physicalState`,
`completed`) and a joint (`isAttached`, two requested flags). Three threads act on
them: `Command` is `OnCommand` on the thread for remote messages; `DeliverState` and
`DeliverTrigger` are `OnPhysicalState` and the trigger callbacks, on the thread that
delivers what this process published, in order of publication (`mail`); `Step` is
`PreUpdate` of all joints in one simulation step. A state is published when the
simulation time is a new multiple of the period (`tick`), so it may be stale when it
is delivered, and triggers of an answered command may still be under way.
`Attaches` says which joint gets the shared parent: the first of those requested, and
only if no joint was on it when the step began. `StartNext` is the loop of
`StartNextLocked`: the commands it answers on the spot, the one it starts and the
trigger it publishes. Commands come only after the first states were published,
because the electromagnet service needs physical truth first; the model of that
service is not composed with this one yet. Results on the wire are derived from
`completed` and left out, like the repeated or conflicting result that `OnCommand`
publishes for a known id without changing its state.

`PayloadMagnet` has a set `holding` of at most one payload, a `line` of commands per
payload and the `answered` ones. It lets a payload move only for the first command of
its line, and lets that command be confirmed only if the payload is then where the
command wants it. `ImplementsMagnet` maps `holding` to the attached joints, `line` to
`active` followed by `queue`, and `answered` to `completed`.

### The Gazebo runtime

`pc` is the point of the main loop: `spin` (one ROS callback or none), `release`
(`release_if_delivered`), the four polls, `drain` (one event given to `RuntimeModel`)
and `apply` (one effect of `ActionExecutor`). `Accept` and the operators before it are
the pure model: they map an event to new flags and a sequence of effects, in the order
of the code, because the order in which a failure is written, the world paused and the
output frozen is what the properties are about. `Raise` is the exception handler of
`main()`: it freezes the output, finalizes the model and stops the server, unless the
finalize request was already seen. `epoch` is the rendezvous; `epoch.call` is the call of
its unpause thread, which lands, loses its answer or is lost (`UnpauseLands`,
`UnpauseLost`) at any time relative to the loop. Time of the world is a place relative to
the public epoch: `before`, the lookahead `window` behind it, `held` at the end of the
run-to, `beyond`. A run-to that is scheduled pauses the world at its end also after an
unpause, which is what the comment in `release_if_delivered` assumes of Gazebo. A
failure is possible where the `Troubles` constant allows it: a dead child, an adapter
fault, a lost call, a failed write, a failed probe, a failed stop, a clock sample that
skips the exact epoch (`late`). Events lose their texts; FAILED and ABORTED requests
are one, and so are the terminal states.

### The run

Every durable read or write of `start()` is one step, so containers and operator
commands interleave between any two. `pc` names the point, `at` the fact of
`WaitPlan` that is awaited. `requested` follows the local of that name. Causes,
reasons and diagnostics are reduced to the terminal they lead to. A failure is
possible where the code catches (or fails to catch) it and the scenario allows it:

| Fault | Meaning |
| --- | --- |
| `abort`, `status` | operator commands in processes of their own |
| `interrupt` | Ctrl-C in the foreground process |
| `host` | a host-side call (Compose, provenance, a write) raises |
| `fsync` | the directory fsync after the manifest's link raises |
| `crash` | the host or a peer dies without a trace |
| `deadline` | the monotonic clock reaches a deadline |
| `service` | a peer reports a failure or raises |
| `recorder`, `artifact` | a recorder fails; an output is invalid |
| `stop` | a supervised process does not stop |

`Scenarios` is a set of such sets; a behaviour has one of them. "phase3" in a scenario
selects the phase3 profile (nine awaited facts), without it the run is phase2 (three).
Timestamps are `1..MaxStamp`; only their order and equality matter. DDS discovery
(`Discover`) is external.

### The evidence

A recorder is a sequence of system calls and waits, each of which may fail, return late
or pass a deadline, beside the threads and processes it started. A file is the inode it
is linked to: `VideoRecorder` and `LogCapture` follow a file from the anonymous or
`.partial` candidate through the seal and the link to the final name, because most of
what can go wrong lies between two of these. Time is how many of a call's deadlines have
passed. `BagRecorder` runs the process and then judges a bag whose samples were lost or
damaged in every way the validator tells apart. `GazeboServer` has a leader, one more
member of its group, and a stranger that may get a pid once it is free.

`Evidence` starts one of the four and leaves the others where they began. That loses
nothing: the producers share the run directory and nothing in it. Each writes its own
names, in directories it opened itself, and none reads what another wrote, so a
behaviour of all four is an interleaving of four independent ones.

### Scoring

`EpochAdapter` takes the native streams (cameras, odometry, leg contact, range, pose,
payload contact, joint) in any order between streams, loses what best effort may lose,
and publishes the truth of an epoch with its camera pair. `missed` and `overtaken` are
there for the properties.

The scorekeepers get their topics with any lag between them. `VfsJudging` joins three of
them by epoch under a patience of `JudgePatience`, holds the epochs behind a check that
waits, and scores what the judge approves. A flight is a sequence of legs; a leg with a
check lasts until that is approved. `CompetitionScore` keeps the evidence and evaluates
it at the end; `ContestIsEarned` evaluates the same rules on all that was sent, so what is
checked is what arrival order, the moment the start is heard and a lost sample do to the
verdict. The rules themselves are transcribed: a wrong rule in the code would be a wrong
rule here. `DescentScore` is similar; `DescentIsEarned` states two of
its rules independently of the scorer.
`ScoreFinalizer` is the end they share: result, events, acknowledgement, status, and a
second attempt after an acknowledgement that timed out.

A run has one scorekeeper, and the adapter does not hear from it, so `Scoring` runs one of
the four at a time.

### The companion

`CompanionHost` is the process of a competition: the main loop, the worker that flies, and
the callbacks, step by step between two acquisitions of a lock. The mission of the worker
flies, blocks, is woken or raises. `ConfiguredRun` is one thread: callback, telemetry, host,
plan, operation; telemetry grows stale and is `fresh` or `newer` than the operation, which
is what the guards of the code are about. A landing on a marker is an operation in it; its
inner steps, on the owner's thread against two vision threads, are `PrecisionLanding` over
`MarkerVision`. `DirectMission` has the three missions that own the link themselves, over
an external vehicle that obeys, refuses, climbs, sinks and reports late; an action of its
policies is an override and an order, done in that sequence, either of which may be the one
that raises.

`SupervisedAttempt` is the listener of comp2026. `radio` is what the radio thread has
admitted and not yet queued (`AdmitFM1`, `Enqueue`); `sup` is `MissionSupervisor` with the
latched abort (`latched`) apart from its application (`Apply`), because only a thread that
gets the supervisor's lock applies it; `owner` is `CommandExecutionOwner`: `TakeCommand`,
`BeginCommand`, the handler (`NextOperation`, `FlyOperation`, `FlightFails`), `FinishCommand`,
`Idle`, `Turn`; `rec` is the stage of `MissionSupervisor.recover`. The process may die at any
step (`SessionEnds`), also while it writes the ledger in place (`DieConsuming`), and another
process may prepare the next attempt meanwhile (`Prepare`). `VehicleControl` has the
operations both use: `OpBegins` is the look at the vehicle before an order, `OpOrders` the
second look in the moment it leaves, under the locks of supervisor and flight state,
`OpConfirms` its acknowledgement with evidence newer than the order. Heartbeat and landed
state come apart and late; orders on their way (`told`) keep their order, of more than two
the oldest is lost.

Abstractions: coordinate commands are one `SET`, which may be given again and again; a
place is `H`, where the attempt began, or `L`; altitude, stability and payload geometry are
reached or not;
what takes the authority away (pilot, failsafe, stale evidence) is not told apart, so the
recovery outcomes for it are one, `YIELDED`. What is seen after the authority is lost, or
the owner is done, changes nothing the properties speak about, and stops. `flown` counts the
admissions of an attempt for the property.

Host and listener are processes of their own that never run together; `CompanionEntries`
takes one of them, and with it gives their fairness and the one liveness property of both.

A companion process is a competition, a configured run or a direct mission. While a
landing is the operation of a configured run, no other tool runs and nothing of the rest
is read, so `Companion` takes the configured run, the direct missions and the landing one
at a time.

## 3. Runs

| Run | Bounds | Shows |
| --- | --- | --- |
| `gateway` | 2 callers, 2 ids, 2 markers, a request of another run, no new call after 2 numbered answers, fairness | one physical command per id, stable replies, truthful events, silence after the quiescence marker but for a command of a queued call; every call returns |
| `plant` | 2 payloads, one held at first, 2 ids per payload, `MaxMail` 2, fairness | the hardpoint is exclusive, an idle payload is at rest, ids are answered once, the refinement of `PayloadMagnet`; a detach is answered, a free hardpoint is taken |
| `gazebo` | all troubles, fairness of the loop | physics is held at the epoch until delivery, output closes before failure or quiescence is on record, quiescence is earned, a finalize request is answered |
| `gazebo_skipped_epoch` (violation) | only a late clock sample | finding 3 |
| `run_faults` | two stamps; four scenarios: phase3 with service, recorder and artifact faults; phase2 with host faults and Ctrl-C; phase2 with operator commands; phase2 with crashes and a failing fsync | COMPLETED is earned, the handshake keeps its order, an abort that comes first wins, foreground result, status, abort and manifest agree (after a directory sync that failed only `abort` may repeat the FAILED of the foreground), only the recorders write after the freeze |
| `run_terminates` | one stamp; phase3 without faults, phase2 with deadlines and stuck processes; `HostFairSpec` | `start()` ends whatever the containers do, and with fair containers a run without faults ends COMPLETED |
| `run_fsync` (violation) | phase2, fsync | finding 1 |
| `run_abort_in_barrier` (violation) | phase2, abort, fairness | finding 2 |
| `evidence` | 2 expected frames of 3, 3 bag frames, 2 log services, one failing call per producer (two for the logs), fairness | what has its final name is whole and has no writer; what does not is kept or reported; no signal to a stranger; every producer ends |
| `scoring` | flights of 2 and 3 epochs, 9 epochs of 2027, 20 samples of 2026, 5 of a descent; one lost message | the published truth is that of its epoch; each verdict is that of what was flown; nothing told is taken back |
| `companion_host` | host: 2 stamps, 2 mission events, one mishap; listener: 2 attempts; fairness | one commander of the vehicle; nothing after a failure or quiescence that they exclude; an attempt is flown once, on frozen waypoints, across crashes; after an abort only the recovery commands; what recovery reports is so; every finalize request and every abort ends |
| `companion` | two plans, one mishap per unit, 4 ticks, 2 marker requests | one operation and one open command at a time; a mission reported finished was flown and landed; no descent without the marker in sight; nothing after the end |

Bounds. Two callers with two ids reach every race of the gateway: a retry of the
same id, a reuse of it with another request and a second id in flight; calls under
way when the second answer is numbered still give a third. `MaxMail` bounds how far
the delivery thread may fall behind the simulation: with two waiting messages a stale
state, a stale trigger and the answer to the command they are stale for are under way
together. `GazeboRuntime` has no bound: its
state is finite, since a round of the loop posts a few events and then drains them. The
lifecycle has fixed sets of services; one stamp suffices for order-free runs, two make
unequal stamps possible where they are compared. Each fault may strike at every step it
can, together with the others of its scenario.

In `evidence`, `Sent` is one more than `Expected`, so a stream may be short, exact or too
long; with three frames a bag has a first, an inner and a last sample to lose; one failing
call per producer may be any call (`MaxMishaps`, `MaxFaults`, `MaxGzFaults`), two for the
logs (`MaxLogMishaps`), where the second may hit the clean-up of the first.

In `scoring`, `AdapterCapacity` 2 makes a buffer overflow reachable; `MaxLead` 1 lets an
epoch pass before the gate latches; `JudgePatience` 2 with `MaxBacklog` 4 lets one topic
fall behind by more than the patience, which is the only thing a longer backlog would
show; `LastEpoch` 9 is the longest course plus the epoch its last check waits for;
`Losable` holds one sample before and one after the start of the contest, `MaxLag` 1 lets
each of its topics be behind any other by one sample, so every pair of neighbouring
messages is exchanged. `MaxFlushFailures` 1 is the one attempt `main()` repeats. The
flights, courses and contests are written out in `Scoring`: a good one, and variants with
one thing wrong.

In `companion`, `LastTick` 4 lets a frame expire and another come; `MaxRequests` 2 lets a
late worker of the first request meet the second; `AnchorFrames` 1, `ReacquireFrames` 2
and `HoldTicks` 1 are the counts of the code cut to the smallest that still count.
`MaxWire` 1 is one report on its way: what the loop acts on is one report old.

In `companion_host`, `MaxAttempts` 2, the consumed ones counted twice, lets a second attempt
be prepared while a session of the first is up, which unpins its ledger. No attempt can be
prepared after one was consumed, so each behaviour flies one at most; that a used attempt is
not flown again is checked by every restart after the consumption.

Fairness. `HostFairSpec`: the host process is scheduled and the monotonic clock
reaches its deadlines; nothing is asked of containers, whose fairness is the hypothesis
`ContainersAreFair` of `RunCompletes`. `RunFairSpec` has the polling
loops of the containers too, which are `while` loops with a 50 ms spin. Failures and
operator commands are never fair. `GatewayFairSpec`: a callback that has a thread
continues and `Event.wait` times out. `PlantFairSpec`: the simulation keeps reaching
multiples of the publication period and the delivery thread runs; commands owe nothing.
`GazeboFairSpec`: the main loop continues, as every call in it has a timeout; Gazebo, the
unpause thread and the peers owe nothing. `EvidenceSpec`: a recorder's thread continues,
clocks reach deadlines, and a process that got SIGKILL dies; a process that got SIGTERM
owes nothing. `EntriesSpec`: the host's main thread, its worker and a thread on the failure path are
scheduled; messages and the simulated clock may cease, and a mission that blocks owes
nothing until it is woken. The listener's owner thread is scheduled, and as each of its
waits has a deadline (`_wait`, the poll of the queue, the recovery's own), it always has a
step; radio, telemetry, vehicle and ground station owe nothing.

The runs allow deadlock (`CHECK_DEADLOCK FALSE`) because a run ends.

## 4. Findings

1. `run_fsync`: `write_manifest_atomic` publishes by `link` and then fsyncs the
   directory. An error of the fsync is reported as a failed commit although
   `manifest.json`, which may say COMPLETED, is visible; foreground and operator
   status say FAILED. `status` and `abort` read the manifest and disagree.
2. `run_abort_in_barrier`: a request that arrives while the orchestration node is
   in its transport barrier ends the node without FINALIZING, marker or
   `runtime-frozen`; the host waits for its work deadline.
3. `gazebo_skipped_epoch`: the epoch gate accepts a first clock sample up to one frame
   after the epoch, the adapter opens its output only on the epoch itself. Output that was
   requested before such a sample is neither opened nor faulted, and the run ends only by
   its timeout.

Modelling showed more that no document of the repository contradicts, so no run calls it
a violation. The models contain these behaviours; the properties are stated so that they
allow them.

- `DroneOperations.recover_land` with an expired attempt: `start("land")` fails by the
  expiry and starts the recovery home, then `_recovery_id` is overwritten by the id of the
  failed landing, and the host does not wait for the recovery that runs.
- `CameraManager`: a frame that expires is a `TimeoutError`, so it ends the acquisition;
  a request that comes while the old thread stops finds no new one and waits a full timeout.
- `LiveAdapter` is "callback-order-independent", but an epoch loses its contact if the next
  odometry overtakes it; the judge then counts a takeoff. `TruthIsKept` excludes exactly
  that case.
- `VfsScorekeeperRuntime`: STARTED and payload events count when they arrive, not in their
  epoch; a status that a busy companion skips leaves an epoch incomplete, and the run fails
  after 500 ms; a check that is off the 50 ms grid cannot be approved.
- `CompetitionScorekeeperRuntime.source_inputs_observed_through` asks for five payload
  events: a sixth, which would make the sequence invalid, races with the score.
- `ScorekeeperRuntime._finalize`: after a flush that timed out with a failed scenario, the
  second attempt raises, which `main()` swallows: neither status nor quiescence is written.
- comp2026: an ARM order whose acknowledgement is missing, or that an abort overtakes, may
  reach the vehicle after recovery saw it disarmed on the ground and reported LOCAL_LANDED;
  the vehicle is then armed with nobody in charge. `AttemptSteps` asks for disarmed only with
  HOME_LANDED, where no such order can be left.
- `_run_autotune_roll` records `mission-command-delivered` at its first observation also
  when no GUIDED was sent; `_run_controlled_descent` can be quiescent without an outcome if
  `request_telemetry` raises.

## 5. Proofs

Every theorem holds for every value of the constants that satisfies the assumptions of the
module (`GatewayAssumption`, `PlantAssumption`, ...), which ask for natural bounds and, for
the payloads, integer ids of which at most one is held at first; the assumptions of the
scoring and of the bag say a little more, see below. TLC evaluates them on the
instance of each run. Each argument is an inductive invariant, named below, that adds to
the property what makes it survive a step; lemmas say what an operator of the code does to
it, and the proof of a step cites one lemma per action.

`PayloadGatewayProofs`: type correctness, `OneWirePerCommand`, `AcceptedWasSent`,
`LedgerIsWriteOnce`, `RepliesAreStable`, `EventsAreTruthful` and `SilentAfterQuiescence`.
`OneWirePerCommand` alone is not inductive: `GatewayInv` adds that at most one caller is past
the lookup (the operation lock), that a caller between lookup and answer has an id without
ledger entry, that such an id has not been sent before the publish step and at most once
after it, and that an id which was sent is in the ledger or held by the one caller in flight.
`AnswersInv` ties every answer to the ledger: it is the entry of its id, or a conflict with
it, and a sequence number is given once. `EventsInv` speaks of an event from the moment it is
recorded, not only once it is out. `QuietInv` says that with the marker written nobody is in a
call, or a wait ran out behind the loop and no call can succeed any more.

`PayloadPlantProofs`: type correctness, `Exclusive`, `IdleIsAtRest`, `AnsweredOnce` and the
refinement `PlantSpec => ImplementsMagnet`. `PlantInv` puts every payload in one of the phases
`Starting` (nothing published), `Idle` (every state under way is the true one and every trigger
asks for what is already so), `Waiting` (the payload has yet to move for the active command;
triggers of earlier commands are ahead of its own, all states under way are the old one) and
`Arrived` (it has moved; old states are ahead of new ones in the queue). Each action takes a
payload from a phase to a phase and leaves the other payloads in theirs. From `Waiting` and
`Arrived` follows that a state which answers a command is the true one when it is delivered,
which is what the refinement asks of `Serve`; that two joints never attach in one step follows
from the order of the payload ids. `AnsweredOnce` is proved of the abstract magnet's line and
answers (`OnceInv`) and holds of the plant because every step of it is one of the magnet.

`GazeboRuntimeProofs`: type correctness, `HeldUntilDelivered`, `EvidenceIsClosed` and
`QuiescenceIsEarned`. For the first, `WorldIsHeld` adds that an unpause is made only after
delivery and after the run-to, that the world has not moved before the run-to, and that before
delivery it moves only while a run-to is scheduled. For the second, `FreezeComesFirst` follows
the chain from a stop or a failure through the effects and the inbox to the record: each link
comes after BeginFinalization, which comes with the freeze. For the third, `QuietInv` follows
the request to stop and its answer: it is asked for once, stands last among the effects, its
answer last in the inbox, and what follows it finds the model frozen.

`RunSystemProofs`: type correctness, `CompletedIsEarned`, `HandshakeOrder`, `AbortWins`,
`ResultsAgree` and `SilentAfterFreeze`, for every set of scenarios. `RunInv` says at each point
of `start()` what the lifecycle is (`LifecycleInv`), which facts the host has settled and what
its request rests on (`RequestInv`), that the manifest is written once, from the request, and
repeated (`ManifestInv`), in which order the containers wrote (`ContainerInv`), and what an
operator command may have seen (`CommandInv`). A step of a container leaves the host's part
alone and the other way round (`ContainersKeepHost`).

`EvidenceProofs`: type correctness of all four producers, `VideoIsEvidence`, `BagIsEvidence`,
`LogsAreEvidence` and `ServerIsEvidence`. `ServerInv` has the group empty from the moment its leader is reaped and
the names in the order `stop()` makes them; `LogInv` follows a file from candidate to sealed
name; `VideoInv` says who owns FFmpeg while it is handed over between threads and that every
frame fed is the next image with its own metadata. For the bag, whatever the ruleset, the
number of frames and of faults, `Whole` writes down what a topic holds of a run of which
nothing was lost. `IntactInv` says that the bag is just that while no fault struck, and a whole
bag passes every check (`WholeIsValid`). The other way round, `OnlyScheduled` says that nothing
is in the bag that was not published, and `FaultsInv` that what happened to a sample can be seen:
a lost one is missing (`IsMissing`; no other has its stamp and number, `SamplesApart`), a damaged
one does not parse, an early clock is known. A valid bag then lacks nothing that is counted
(`NothingMissing`): the checks fix stamps and numbers of each such topic, and the missing sample
would leave a hole.

`CompanionEntriesProofs`: `HostIsOrderly` and `AttemptIsSafe`. `HostInv` has the one latched
failure and the thread that carries it, and what the main thread has waited for on its way out.
`AttemptInv` relates ledger, queue, supervisor and owner (one command on its way; a recovery is
started once and has an outcome) and, for what a landing is worth, the orders under way to what
is seen of the vehicle: a late view is true of a vehicle that has no order which could undo it.

`CompanionProofs`: `CommandsAreSafe` and `EndIsFinal`, for every set of plans. `VisionInv` has the
exposures ordered along the way from the buffer to the latest observation, `LandingInv` adds
that the modes sent alternate and that a descent goes on only as long as the clock stands still
since a frame or a look at the ground. `DirectInv` relates the phase of a mission to the orders
and reports under way: one command is open, the vehicle is armed once, and after it reported to
be armed a report that it is not is the truth. `ConfiguredInv` has the newest operation as the
only one that runs; at most one operation that commanded after a failure, a recovery that is
then on record; and while the mission runs, one operation for every step so far, all but the
last of them succeeded.

`ScoringProofs`: type correctness, `TruthIsKept`, `VerdictsAreEarned` and `VerdictsAreFinal`,
for every flight, course and contest; the parts of the third are theorems of their own
(`StatusIsTrue`, `JudgeIsFair`, `VfsIsFair`, `ContestIsEarned`, `DescentIsEarned`). The steps
of the four units are apart, so each has its invariant:

- `AdapterInv`: the truths published are faithful (`Faithful`), and while the adapter works,
  its buffers hold all that has still to be joined (`AtWork`): every contact that arrived is
  known or belongs to a completed epoch, every odometry waits only for a contact that may yet
  come, the states of the payload are in order. A callback loops over the epochs it can
  complete; `Sound` and `Fine` say what holds after each round of such a loop, and that a
  recursive function of the rounds keeps it is shown by a least counterexample (the induction
  theorems of the library take an operator and cannot be used; that the numbers are
  well-founded can). `AllOut` says what a completed run has published.
- `VfsInv` has the truth of the last joined epoch in the judge, the clock of the attempt
  within the epochs since its start (`Clock`), every decision on the facts of its epoch
  (`Timely`), and every point with the approvals it rests on (`Deserved`). `CourseInv` adds
  what the order of the missions gives: a pause only after a takeoff that was judged
  (`FlightInv`), and FM2 never approved after FM3 (`OrderInv`).
- `ContestInv` has in the evidence of the scorer all that came by since the start, with a gap
  on record exactly if one arose since then. `ContestEarned` compares, rule by rule, the
  verdict on that evidence with the verdict on all that was sent: what was heard before the
  start is shown not to matter to any of them.
- `DescentInv` relates the samples that are kept to those that came by, so that a flight of
  which nothing was lost is judged by the rules that `DescentIsEarned` states without the
  scorer's buffers.
- `FinalizerInv` has the first result as the one on disk, and a score that counts once it is
  acknowledged.

Three assumptions say more than that a bound is a number. `CourseAssumption` (`InOrder`):
FM2 is checked after a takeoff and not any more once FM3 is checked, which is the order of
`src/config/configured-vfs-2027-run.json`; without it, an approval of FM2 could stop the clock
of a vehicle that never flew. `CompetitionAssumption` (`Reported`): the companion says FM1
first and nothing of the mission after HOME, and there are at most the five payload commands
that its missions give. `BagAssumption`: `Freshness` is at least two frames (the 500 ms of the
code are ten), since a decision may come as long after the status it rests on.

What stays with TLC, and why:

- everything under fairness (`OperationCompletes`, `CommandsAreServed`, `RequestIsAnswered`,
  `StartReturns`, `RunCompletes`, `ProducersEnd`, `CompanionEnds`):
  liveness and ENABLED are out of the prover's reach;
- the violations of section 4, which are counterexamples.

Every other property of a run, invariant or action property, is a theorem.
`LedgerIsWriteOnce` and the inductive invariants are proved and have no run of their own.

## 6. Not modelled, and the plan

Left out for good: configuration parsing, Compose command lines, JSON encoding, checksums,
static worlds, guidance (how a heading or a speed is computed) and image processing: they
are sequential functions or data, and their outcomes are inputs of the models.

Left out so far, of the nested `comp2026` stack: FM3, the stability window before a release
(`hold_waypoint_until_stable` is one wait here), the verification of startup telemetry, the
decoding of radio frames, the clean-up of a startup that failed. The SITL process is external.

Planned, in this order:

1. Gateway and plant composed: the results the gateway sees are those the coordinators
   give, and an accepted command moved the payload.
2. `ProtocolFile`: one write at system-call granularity, shown to implement the atomic
   registers of `RunStore`.

Runs are kept few: a new component gets one run with its safety and its liveness
properties together.
