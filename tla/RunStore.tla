------------------------------ MODULE RunStore ------------------------------
(***************************************************************************)
(* The run directory: the durable facts through which the host controller, *)
(* the container runtimes and the operator's commands talk to each other.  *)
(*                                                                         *)
(* Containers write .status/<name>.json and .status/quiescence/<m>.json    *)
(* through RuntimeProtocol; the host writes .control/finalize-request.json,*)
(* .control/terminal-committed.json, .status/operator-state.json and       *)
(* manifest.json through StatusStore and ArtifactSession.  A write is      *)
(* atomic to its readers, so each is one step here.  Reasons, diagnostics  *)
(* and run ids are left out; of the contents of a file only what some      *)
(* reader branches on is kept.  The two retained ROS topics of the         *)
(* lifecycle stand beside the files.                                       *)
(***************************************************************************)
EXTENDS Naturals, FiniteSets, Sequences

CONSTANTS
    MaxStamp,  \* bound: simulation timestamps are 1..MaxStamp
    Scenarios  \* each one a profile and what may happen in a run with it

\* The operator commands and the kinds of failure.
FaultKinds == {"abort", "status", "interrupt", "crash", "deadline", "host", "service",
               "recorder", "stop", "artifact", "fsync"}

ASSUME StoreAssumption ==
    /\ MaxStamp \in Nat \ {0}
    /\ Scenarios \subseteq SUBSET (FaultKinds \cup {"phase3"})

\* _QUIESCENCE_MODULES and _QUIESCENCE_PEERS.
Peers == {"companion", "ardupilot_sitl", "gazebo", "electromagnet", "scorekeeper"}
Modules == Peers \cup {"orchestration"}

Services == Modules \cup {"artifacts"}

StatusNames ==
    {"artifacts-ready", "gazebo-ready", "ardupilot-ready", "companion-ready",
     "mission-ready", "runtime-running", "source-finished", "mission-finished",
     "score-finished", "runtime-failure", "runtime-frozen", "artifacts-final",
     "terminal-notified"}

Stamped == {"source-finished", "mission-finished", "score-finished"}

Terminals == {"COMPLETED", "FAILED", "ABORTED"}
LifecycleStates == {"CREATED", "STARTING", "READY", "RUNNING", "FINALIZING"} \cup Terminals

VARIABLES
    scenario,     \* the member of Scenarios this run is in, chosen at the start
    facts,        \* the .status files that exist
    stamps,       \* sim_timestamp_ns of the stamped facts, 0 before the write
    recordsValid, \* artifacts-final: every recorder record is valid
    quiescence,   \* the modules whose quiescence marker exists
    request,      \* finalize-request: requested_terminal, or "none"
    committed,    \* terminal-committed: terminal_status, or "none"
    manifest,     \* manifest.json: terminal_status, or "none"
    operator,     \* operator-state.json: the state it shows
    running,      \* the services of the Compose project that are running
    runState,     \* the retained sample of /simulation/run_state
    artifactStatus \* the undelivered sample of /simulation/artifact_status

\* What the containers write, and what the host writes.
statusVars == <<facts, stamps, recordsValid, quiescence>>
controlVars == <<request, committed, manifest, operator>>
topicVars == <<runState, artifactStatus>>
storeVars == <<statusVars, controlVars, running, topicVars>>

\* The phase3 profile flies a mission, phase2 does not.
Flight == "phase3" \in scenario

\* What may happen in this run.
Faults == scenario \ {"phase3"}

StoreTypeOK ==
    /\ scenario \in Scenarios
    /\ facts \subseteq StatusNames
    /\ stamps \in [Stamped -> 0 .. MaxStamp]
    /\ recordsValid \in BOOLEAN
    /\ quiescence \subseteq Modules
    /\ request \in Terminals \cup {"none"}
    /\ committed \in Terminals \cup {"none"}
    /\ manifest \in Terminals \cup {"none"}
    /\ operator \in LifecycleStates
    /\ running \subseteq Services
    /\ runState \in {"CREATED", "STARTING", "READY", "RUNNING", "FINALIZING"}
    /\ artifactStatus \in {"none", "recording", "ready"}

\* allocate, and the operator status start() writes first.
StoreInit ==
    /\ scenario \in Scenarios
    /\ facts = {}
    /\ stamps = [s \in Stamped |-> 0]
    /\ recordsValid = FALSE
    /\ quiescence = {}
    /\ request = "none"
    /\ committed = "none"
    /\ manifest = "none"
    /\ operator = "CREATED"
    /\ running = {}
    /\ runState = "CREATED"
    /\ artifactStatus = "none"

-----------------------------------------------------------------------------

\* WritePolicy.FIRST_WINS: the document that is in force after the write.
FirstWins(current, new) == IF current = "none" THEN new ELSE current

\* RuntimeProtocol.write_status for a fact without contents.  Every status but
\* runtime-failure has policy IDENTICAL, and runtime-failure is FIRST_WINS: once
\* the file exists a further write leaves it alone.
WriteStatus(name) ==
    /\ facts' = facts \cup {name}
    /\ UNCHANGED <<stamps, recordsValid, quiescence>>

WriteStamped(name, stamp) ==
    /\ facts' = facts \cup {name}
    /\ stamps' = [stamps EXCEPT ![name] = stamp]
    /\ UNCHANGED <<recordsValid, quiescence>>

WriteArtifactsFinal(valid) ==
    /\ facts' = facts \cup {"artifacts-final"}
    /\ recordsValid' = valid
    /\ UNCHANGED <<stamps, quiescence>>

WriteQuiescence(m) ==
    /\ quiescence' = quiescence \cup {m}
    /\ UNCHANGED <<facts, stamps, recordsValid>>

\* A module that fails and still stops cleanly leaves both files.
WriteFailureAndQuiescence(m) ==
    /\ facts' = facts \cup {"runtime-failure"}
    /\ quiescence' = quiescence \cup {m}
    /\ UNCHANGED <<stamps, recordsValid>>
=============================================================================
