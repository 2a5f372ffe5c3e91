--------------------------- MODULE CompanionHost ---------------------------
(***************************************************************************)
(* The companion process of a competition run: the main loop, the thread   *)
(* that flies the mission, and the callbacks of the ROS executor, around   *)
(* the start gate, the shutdown admission and the failure coordinator.     *)
(*                                                                         *)
(* A thread that fails latches the reason under the coordinator's lock,    *)
(* then stops the attempt (first what the mission waits for, then the      *)
(* event emitter), then writes the failure.  The first failure wins, so    *)
(* there is one thread at most on that path.  A stamp is a multiple of the *)
(* 50 ms the initial command may take.                                     *)
(***************************************************************************)
EXTENDS Naturals, FiniteSets

CONSTANTS
    LastStamp,        \* bound: the simulation clock stops here
    MaxEvents,        \* bound: mission events
    MaxHostMishaps    \* bound: bad inputs, failing calls, waits that time out

ASSUME HostAssumption ==
    /\ LastStamp \in Nat /\ MaxEvents \in Nat \ {0} /\ MaxHostMishaps \in Nat

NoStamp == LastStamp + 1

VARIABLES
    hpc,         \* where the main thread is
    wpc,         \* where the mission worker is
    simClock,    \* SimulationClock's stamp
    running,     \* a RUNNING state arrived
    gate,        \* the marks of the start gate
    sensed,      \* the sensors that have delivered; off: their subscriptions are destroyed
    failedBy,    \* the thread whose failure was latched
    failing,     \* how far it is: none, inputs, emitter, write, done
    inputsDown,  \* gate, frame source, payload client and clock are stopped
    emitterDown, \* the emitter is stopped
    admission,   \* what asked for the end: finalizing, signal
    executor,    \* the ROS executor runs
    guided,      \* the stamps at which GUIDED was commanded
    payloadCalls,\* payload commands sent
    missionEvents, \* mission events published
    recovery,    \* none, claimed, done: recover_once
    late,        \* a wait of the finalization timed out
    hostFacts,   \* the files the companion wrote
    hostMishaps

threadVars == <<hpc, wpc>>
inputHostVars == <<simClock, running, gate, sensed>>
failureVars == <<failedBy, failing, inputsDown, emitterDown>>
outputVars == <<guided, payloadCalls, missionEvents, recovery>>
hostVars == <<threadVars, inputHostVars, failureVars, admission, executor, outputVars, late,
              hostFacts, hostMishaps>>

Failed == failedBy # "nobody"
StartMarks == {"process", "running", "clock", "command", "live"}

HostTypeOK ==
    /\ hpc \in {"connect", "loop", "deliver", "housekeep", "recover", "recoverLast", "stop", "emitter", "join",
                "shutdown", "close", "finalize", "done"}
    /\ wpc \in {"none", "waiting", "flying", "blocked", "paying", "retrying", "home", "raised",
                "failing", "dead"}
    /\ simClock \in 0 .. NoStamp /\ running \in BOOLEAN
    /\ gate \subseteq StartMarks /\ sensed \subseteq {"frame", "range", "off"}
    /\ failedBy \in {"nobody", "main", "worker", "ros"}
    /\ failing \in {"none", "inputs", "emitter", "write", "done"}
    /\ inputsDown \in BOOLEAN /\ emitterDown \in BOOLEAN
    /\ admission \subseteq {"finalizing", "signal"} /\ executor \in BOOLEAN
    /\ guided \subseteq 0 .. LastStamp
    /\ payloadCalls \in Nat /\ missionEvents \in 0 .. MaxEvents
    /\ recovery \in {"none", "claimed", "done"} /\ late \in BOOLEAN
    /\ hostFacts \subseteq {"mission-ready", "delivered", "finished", "failure", "quiescence"}
    /\ hostMishaps \in 0 .. MaxHostMishaps

HostInit ==
    /\ hpc = "connect" /\ wpc = "none"
    /\ simClock = NoStamp /\ running = FALSE /\ gate = {} /\ sensed = {}
    /\ failedBy = "nobody" /\ failing = "none"
    /\ inputsDown = FALSE /\ emitterDown = FALSE
    /\ admission = {} /\ executor = TRUE
    /\ guided = {} /\ payloadCalls = 0 /\ missionEvents = 0 /\ recovery = "none"
    /\ late = FALSE /\ hostFacts = {} /\ hostMishaps = 0

HostMishap == hostMishaps < MaxHostMishaps /\ hostMishaps' = hostMishaps + 1

\* A thread that is on the failure path does nothing else.
Free(thread) == ~(failedBy = thread /\ failing \in {"inputs", "emitter", "write"})

-----------------------------------------------------------------------------
(* AttemptFailureCoordinator.                                               *)

\* fail() and guard_input(): the first reason is kept.
Latch(thread) ==
    IF Failed THEN UNCHANGED <<failedBy, failing>>
    ELSE failedBy' = thread /\ failing' = "inputs"

\* Mutant: the failure is on record before the attempt is stopped.
CompleteFailureWritesFirst ==
    /\ failing \in {"inputs", "emitter", "write"}
    /\ \/ failing = "inputs" /\ failing' = "emitter" /\ hostFacts' = hostFacts \cup {"failure"}
          /\ UNCHANGED <<inputsDown, emitterDown>>
       \/ failing = "emitter" /\ failing' = "write" /\ inputsDown' = TRUE
          /\ UNCHANGED <<emitterDown, hostFacts>>
       \/ failing = "write" /\ failing' = "done" /\ emitterDown' = TRUE
          /\ UNCHANGED <<inputsDown, hostFacts>>
    /\ UNCHANGED <<threadVars, inputHostVars, failedBy, admission, executor, outputVars, late,
                   hostMishaps>>

\* _complete_failure: stop_attempt, then record_attempt_failure.
CompleteFailure ==
    /\ failing \in {"inputs", "emitter", "write"}
    /\ \/ failing = "inputs" /\ failing' = "emitter" /\ inputsDown' = TRUE
          /\ UNCHANGED <<emitterDown, hostFacts>>
       \/ failing = "emitter" /\ failing' = "write" /\ emitterDown' = TRUE
          /\ UNCHANGED <<inputsDown, hostFacts>>
       \/ failing = "write" /\ failing' = "done" /\ hostFacts' = hostFacts \cup {"failure"}
          /\ UNCHANGED <<inputsDown, emitterDown>>
    /\ UNCHANGED <<threadVars, inputHostVars, failedBy, admission, executor, outputVars, late,
                   hostMishaps>>

\* When the main thread calls recover_once(), and it does recover.
RecoveryDue == Failed /\ recovery = "none" /\ wpc \in {"none", "dead"}

-----------------------------------------------------------------------------
(* Callbacks of the ROS executor.                                           *)

StateCallback ==
    /\ executor
    /\ \/ ~running /\ running' = TRUE /\ gate' = gate \cup {"running"} /\ UNCHANGED admission
       \/ admission' = admission \cup {"finalizing"} /\ UNCHANGED <<running, gate>>
    /\ UNCHANGED <<threadVars, simClock, sensed, failureVars, executor, outputVars, late,
                   hostFacts, hostMishaps>>

\* A stamp that goes back fails the attempt.
ClockCallback ==
    /\ executor /\ running /\ ~Failed
    /\ \/ /\ simClock # LastStamp
          /\ simClock' = (IF simClock = NoStamp THEN 0 ELSE simClock + 1)
          /\ gate' = gate \cup {"clock"}
          /\ UNCHANGED <<failedBy, failing, hostMishaps>>
       \/ /\ HostMishap /\ Latch("ros")
          /\ UNCHANGED <<simClock, gate>>
    /\ UNCHANGED <<threadVars, running, sensed, inputsDown, emitterDown, admission, executor,
                   outputVars, late, hostFacts>>

\* Images and ranges; a malformed one fails the attempt.
SensorCallback ==
    /\ executor /\ running /\ ~Failed /\ "off" \notin sensed
    /\ \/ \E s \in {"frame", "range"} \ sensed :
            sensed' = sensed \cup {s} /\ UNCHANGED <<failedBy, failing, hostMishaps>>
       \/ HostMishap /\ Latch("ros") /\ UNCHANGED sensed
    /\ UNCHANGED <<threadVars, simClock, running, gate, inputsDown, emitterDown, admission,
                   executor, outputVars, late, hostFacts>>

\* SIGTERM or SIGINT, handled on the main thread between two of its steps.
Signal ==
    /\ hpc # "done" /\ "signal" \notin admission
    /\ admission' = admission \cup {"signal"}
    /\ UNCHANGED <<threadVars, inputHostVars, failureVars, executor, outputVars, late, hostFacts,
                   hostMishaps>>

-----------------------------------------------------------------------------
(* The mission worker.                                                      *)

\* wait_until_ready: a stop is reported even if the gate is open.
WorkerStarts ==
    /\ wpc = "waiting"
    /\ \/ inputsDown /\ wpc' = "raised"
       \/ ~inputsDown /\ gate = StartMarks /\ wpc' = "flying"
    /\ UNCHANGED <<hpc, inputHostVars, failureVars, admission, executor, outputVars, late,
                   hostFacts, hostMishaps>>

\* The mission emits an event, waits for the clock or a frame, sends a payload command,
\* or raises.
Fly ==
    /\ wpc = "flying"
    /\ \/ /\ missionEvents < MaxEvents
          /\ IF emitterDown THEN wpc' = "raised" /\ UNCHANGED missionEvents
             ELSE /\ missionEvents' = missionEvents + 1
                  /\ wpc' = IF missionEvents' = MaxEvents THEN "home" ELSE "flying"
          /\ UNCHANGED <<payloadCalls, hostMishaps>>
       \/ wpc' = "blocked" /\ UNCHANGED <<payloadCalls, missionEvents, hostMishaps>>
       \/ /\ payloadCalls = 0
          /\ IF inputsDown THEN wpc' = "raised" /\ UNCHANGED payloadCalls
             ELSE wpc' = "paying" /\ payloadCalls' = payloadCalls + 1
          /\ UNCHANGED <<missionEvents, hostMishaps>>
       \/ wpc' = "raised" /\ HostMishap /\ UNCHANGED <<payloadCalls, missionEvents>>
    /\ UNCHANGED <<hpc, inputHostVars, failureVars, admission, executor, guided, recovery, late,
                   hostFacts>>

\* SimulationClock.sleep and RosFrameSource.capture_frame: woken by a tick or by stop().
WorkerWakesUp ==
    /\ wpc = "blocked"
    /\ wpc' = IF inputsDown THEN "raised" ELSE "flying"
    /\ UNCHANGED <<hpc, inputHostVars, failureVars, admission, executor, outputVars, late,
                   hostFacts, hostMishaps>>

\* PayloadDropper._command: a stale release is sent once more under a new id after
\* 100 ms; any other rejection, or a stop while it waits, raises.
PayloadAnswer ==
    /\ wpc \in {"paying", "retrying"}
    /\ \/ executor /\ wpc' = "flying" /\ UNCHANGED <<payloadCalls, hostMishaps>>
       \/ /\ executor /\ wpc = "paying" /\ ~inputsDown
          /\ wpc' = "retrying" /\ payloadCalls' = payloadCalls + 1
          /\ UNCHANGED hostMishaps
       \/ executor /\ wpc' = "raised" /\ HostMishap /\ UNCHANGED payloadCalls
       \/ inputsDown /\ wpc' = "raised" /\ UNCHANGED <<payloadCalls, hostMishaps>>
    /\ UNCHANGED <<hpc, inputHostVars, failureVars, admission, executor, guided, missionEvents,
                   recovery, late, hostFacts>>

\* finish_success: the mission is finished unless a failure came first.
FinishSuccess ==
    /\ wpc = "home"
    /\ wpc' = "dead"
    /\ hostFacts' = IF Failed THEN hostFacts ELSE hostFacts \cup {"finished"}
    /\ UNCHANGED <<hpc, inputHostVars, failureVars, admission, executor, outputVars, late,
                   hostMishaps>>

\* run_original_attempt's except: a shutdown explains the exception, else it is a failure.
WorkerRaises ==
    /\ wpc = "raised"
    /\ IF admission # {} THEN wpc' = "dead" /\ UNCHANGED <<failedBy, failing>>
       ELSE wpc' = "failing" /\ Latch("worker")
    /\ UNCHANGED <<hpc, inputHostVars, inputsDown, emitterDown, admission, executor, outputVars,
                   late, hostFacts, hostMishaps>>

WorkerDies ==
    /\ wpc = "failing" /\ Free("worker")
    /\ wpc' = "dead"
    /\ UNCHANGED <<hpc, inputHostVars, failureVars, admission, executor, outputVars, late,
                   hostFacts, hostMishaps>>

-----------------------------------------------------------------------------
(* The main thread.                                                         *)

\* DroneControl connects and the worker starts, or the attempt has failed already.
Connect ==
    /\ hpc = "connect"
    /\ \/ /\ wpc' = "waiting" /\ gate' = gate \cup {"process"}
          /\ hostFacts' = hostFacts \cup {"mission-ready"}
          /\ UNCHANGED <<failedBy, failing, hostMishaps>>
       \/ /\ HostMishap /\ Latch("main")
          /\ UNCHANGED <<wpc, gate, hostFacts>>
    /\ hpc' = "loop"
    /\ UNCHANGED <<simClock, running, sensed, inputsDown, emitterDown, admission, executor,
                   outputVars, late>>

\* The top of the loop: it ends on a request; while the gate is closed its live marks
\* are refreshed (sensors, payload service, heartbeat, armable).
PollGate ==
    /\ hpc = "loop" /\ Free("main")
    /\ IF admission # {} THEN hpc' = "stop" /\ UNCHANGED gate
       ELSE IF running /\ gate # StartMarks /\ ~Failed /\ wpc # "none"
            THEN /\ \/ gate' = gate \ {"live"}
                    \/ {"frame", "range"} \subseteq sensed /\ gate' = gate \cup {"live"}
                 /\ hpc' = "deliver"
            ELSE hpc' = "housekeep" /\ UNCHANGED gate
    /\ UNCHANGED <<wpc, simClock, running, sensed, failureVars, admission, executor, outputVars,
                   late, hostFacts, hostMishaps>>

\* _deliver_comp2026_initial_command, under the locks of the coordinator, the admission
\* and the clock: GUIDED goes out within the first 50 ms, or the attempt has failed.
DeliverInitialCommand ==
    /\ hpc = "deliver" /\ Free("main")
    /\ IF "command" \in gate \/ Failed \/ admission # {} \/ simClock = NoStamp
       THEN UNCHANGED <<guided, gate, hostFacts, failedBy, failing>>
       ELSE IF simClock > 1
       THEN Latch("main") /\ UNCHANGED <<guided, gate, hostFacts>>
       ELSE /\ guided' = guided \cup {simClock}
            /\ gate' = gate \cup {"command"} /\ hostFacts' = hostFacts \cup {"delivered"}
            /\ UNCHANGED <<failedBy, failing>>
    /\ hpc' = "housekeep"
    /\ UNCHANGED <<wpc, simClock, running, sensed, inputsDown, emitterDown, admission, executor,
                   payloadCalls, missionEvents, recovery, late, hostMishaps>>

\* The rest of the loop: the sensors a dead worker needs no more, recovery, the finalize
\* request, the wall failsafe.
Housekeep ==
    /\ hpc = "housekeep" /\ Free("main")
    /\ sensed' = IF running /\ wpc = "dead" THEN sensed \cup {"off"} ELSE sensed
    /\ \/ RecoveryDue /\ recovery' = "claimed" /\ hpc' = "recover"
          /\ UNCHANGED <<admission, failedBy, failing, hostMishaps>>
       \/ ~RecoveryDue /\ hpc' = "loop" /\ UNCHANGED recovery
          /\ \/ admission' \in {admission, admission \cup {"finalizing"}}
                /\ UNCHANGED <<failedBy, failing, hostMishaps>>
             \/ "failure" \notin hostFacts /\ HostMishap /\ Latch("main") /\ UNCHANGED admission
    /\ UNCHANGED <<wpc, simClock, running, gate, inputsDown, emitterDown, executor, guided,
                   payloadCalls, missionEvents, late, hostFacts>>

\* best_effort_recovery: RTL, LAND and DISARM, each whatever became of the one before.
Recover ==
    /\ hpc \in {"recover", "recoverLast"}
    /\ recovery' = "done"
    /\ hpc' = IF hpc = "recover" THEN "loop" ELSE "finalize"
    /\ UNCHANGED <<wpc, inputHostVars, failureVars, admission, executor, guided, payloadCalls,
                   missionEvents, late, hostFacts, hostMishaps>>

\* Mutant: the finalization does not stop what the mission waits for.
StopEmitterOnly ==
    /\ hpc \in {"stop", "emitter"}
    /\ \/ hpc = "stop" /\ hpc' = "emitter" /\ UNCHANGED <<inputsDown, emitterDown>>
       \/ hpc = "emitter" /\ emitterDown' = TRUE /\ hpc' = "join" /\ UNCHANGED inputsDown
    /\ UNCHANGED <<wpc, inputHostVars, failedBy, failing, admission, executor, outputVars, late,
                   hostFacts, hostMishaps>>

\* quiesce_comp2026_runtime: stop_attempt("finalization") ...
StopAttempt ==
    /\ hpc \in {"stop", "emitter"}
    /\ \/ hpc = "stop" /\ inputsDown' = TRUE /\ hpc' = "emitter" /\ UNCHANGED emitterDown
       \/ hpc = "emitter" /\ emitterDown' = TRUE /\ hpc' = "join" /\ UNCHANGED inputsDown
    /\ UNCHANGED <<wpc, inputHostVars, failedBy, failing, admission, executor, outputVars, late,
                   hostFacts, hostMishaps>>

\* ... join the worker, or give up on it ...
JoinWorker ==
    /\ hpc = "join"
    /\ \/ wpc \in {"none", "dead"} /\ UNCHANGED <<late, hostMishaps>>
       \/ wpc \notin {"none", "dead"} /\ HostMishap /\ late' = TRUE
    /\ hpc' = "shutdown"
    /\ UNCHANGED <<wpc, inputHostVars, failureVars, admission, executor, outputVars, hostFacts>>

\* ... stop the executor, whose callbacks end first ...
ShutdownExecutor ==
    /\ hpc = "shutdown"
    /\ \/ Free("ros") /\ executor' = FALSE /\ UNCHANGED <<late, hostMishaps>>
       \/ HostMishap /\ late' = TRUE /\ UNCHANGED executor
    /\ hpc' = "close"
    /\ UNCHANGED <<wpc, inputHostVars, failureVars, admission, outputVars, hostFacts>>

\* ... close the outputs, after a last chance to recover ...
CloseOutputs ==
    /\ hpc = "close"
    /\ IF RecoveryDue THEN recovery' = "claimed" /\ hpc' = "recoverLast"
       ELSE hpc' = "finalize" /\ UNCHANGED recovery
    /\ UNCHANGED <<wpc, inputHostVars, failureVars, admission, executor, guided, payloadCalls,
                   missionEvents, late, hostFacts, hostMishaps>>

\* ... and write the marker, or the failure.
FinalizeCompanion ==
    /\ hpc = "finalize" /\ Free("main")
    /\ IF late /\ ~Failed
       THEN Latch("main") /\ UNCHANGED <<hpc, hostFacts>>
       ELSE /\ hpc' = "done"
            /\ hostFacts' = (IF late THEN hostFacts ELSE hostFacts \cup {"quiescence"})
            /\ UNCHANGED <<failedBy, failing>>
    /\ UNCHANGED <<wpc, inputHostVars, inputsDown, emitterDown, admission, executor, outputVars,
                   late, hostMishaps>>

-----------------------------------------------------------------------------

HostMain ==
    \/ Connect \/ PollGate \/ DeliverInitialCommand \/ Housekeep \/ Recover \/ StopAttempt
    \/ JoinWorker \/ ShutdownExecutor \/ CloseOutputs \/ FinalizeCompanion

HostWorker ==
    \/ WorkerStarts \/ Fly \/ WorkerWakesUp \/ PayloadAnswer \/ FinishSuccess
    \/ WorkerRaises \/ WorkerDies

HostNext ==
    \/ HostMain \/ HostWorker \/ CompleteFailure
    \/ StateCallback \/ ClockCallback \/ SensorCallback \/ Signal

-----------------------------------------------------------------------------
(* Properties.                                                              *)

\* Once the failure is on record the attempt is over: no mission event follows it and
\* the mission is not declared finished (_complete_failure, finish_success).  Nothing at
\* all follows the quiescence marker (quiesce_comp2026_runtime).
OverIsOver ==
    /\ "failure" \in hostFacts =>
         missionEvents' = missionEvents /\ "finished" \notin hostFacts' \ hostFacts
    /\ "quiescence" \in hostFacts => UNCHANGED <<outputVars, hostFacts>>

\* The vehicle has one commander at a time: GUIDED is commanded once, in the window the
\* simulator waits for it and before the mission flies; the recovery commands wait
\* until the worker is dead; and the companion is called quiescent only when the worker
\* and the executor are gone (_deliver_comp2026_initial_command, recover_once).
OneCommander ==
    /\ Cardinality(guided) <= 1 /\ \A t \in guided : t <= 1
    /\ wpc \in {"flying", "blocked", "paying", "retrying", "home"} => guided # {}
    /\ recovery # "none" => wpc \in {"none", "dead"} /\ Failed
    /\ "quiescence" \in hostFacts => wpc \in {"none", "dead"} /\ ~executor

\* The threads of the host keep out of each other's way: each state has its types and one
\* commander, and what is over stays over.
HostIsOrderly == [][HostTypeOK' /\ OneCommander' /\ OverIsOver]_hostVars

\* The end was asked for; the process has ended with the quiescence marker.  Only a wait
\* that times out leaves the marker out.
EndAsked == admission # {}
HostEnded == hpc = "done" /\ ("quiescence" \in hostFacts \/ late)
=============================================================================
