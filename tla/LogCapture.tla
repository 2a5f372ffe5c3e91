----------------------------- MODULE LogCapture -----------------------------
(***************************************************************************)
(* DockerLogCapture.capture: the raw log of every Compose service is       *)
(* fetched and published under logs/docker/, then, if every raw log is     *)
(* there and every line that claims to be an event is a valid one, the     *)
(* structured log of every module under logs/.  Each file is a candidate:  *)
(* written under a .partial name, sealed, linked to its final name, and    *)
(* the .partial name removed.                                              *)
(*                                                                         *)
(* A service owns one module, so one name stands for both; a file is a     *)
(* pair of a kind and a name.  Of an output only the kinds of lines in it  *)
(* are kept.                                                               *)
(***************************************************************************)
EXTENDS Naturals, FiniteSets

CONSTANTS
    LogServices,   \* the services of the project, each with the module it owns
    HostModule,    \* the module host-events.jsonl belongs to
    MaxLogMishaps  \* bound: system calls and commands that fail

ASSUME LogAssumption == HostModule \in LogServices /\ MaxLogMishaps \in Nat

LogFiles == {"raw", "structured"} \X LogServices

\* An event of the service's module, something that claims to be an event and is not a
\* valid one, any other text (which is skipped in the output of a service).
LineKinds == {"event", "claim", "text"}

VARIABLES
    lpc,          \* where capture() is
    outputs,      \* the kinds of lines in each service's output
    commandFails, \* the services whose log command failed
    host,         \* host-events.jsonl: not requested, or the kinds of lines in it
    hostBad,      \* reading it left a diagnostic
    made,         \* the files whose candidate was created
    tried,        \* the candidates whose publication was tried
    sealed,       \* the candidates with published = True
    partials,     \* the .partial names that exist
    finals,       \* the final names that exist
    pathsOut,     \* raw_paths and structured_paths
    leftovers,    \* leftover_partials
    cleaned,      \* the candidates that were closed and cleaned
    logLate,      \* the capture deadline has passed
    captured,     \* the outcome: none, ok, error
    logMishaps

inputVars == <<outputs, commandFails, host, hostBad>>
fileVars == <<made, tried, sealed, partials, finals, pathsOut, leftovers, cleaned>>
logVars == <<lpc, inputVars, fileVars, logLate, captured, logMishaps>>

LogTypeOK ==
    /\ lpc \in {"new", "collect", "create", "publish", "gate", "createStructured", "publishStructured",
                "clean", "done"}
    /\ outputs \in [LogServices -> SUBSET {"event", "claim"}]
    /\ commandFails \subseteq LogServices
    /\ host \in SUBSET LineKinds /\ hostBad \in BOOLEAN
    /\ \A files \in {made, tried, sealed, partials, finals, pathsOut, leftovers, cleaned} :
         files \subseteq LogFiles
    /\ tried \subseteq made /\ sealed \subseteq tried /\ cleaned \subseteq made
    /\ logLate \in BOOLEAN
    /\ captured \in {"none", "ok", "error"}
    /\ logMishaps \in 0 .. MaxLogMishaps

LogInit ==
    /\ lpc = "new"
    /\ outputs = [s \in LogServices |-> {}]
    /\ commandFails = {}
    /\ host = {} /\ hostBad = FALSE
    /\ made = {} /\ tried = {} /\ sealed = {} /\ partials = {} /\ finals = {}
    /\ pathsOut = {} /\ leftovers = {} /\ cleaned = {}
    /\ logLate = FALSE
    /\ captured = "none"
    /\ logMishaps = 0

LogMishap == logMishaps < MaxLogMishaps /\ logMishaps' = logMishaps + 1

\* A step that raises has met a mishap of its own, unless the deadline stopped it.
OwnFault == IF logLate THEN 0 ELSE 1

\* _check_deadline raises from now on.
LogDeadline ==
    /\ lpc \notin {"new", "clean", "done"} /\ ~logLate
    /\ logLate' = TRUE
    /\ UNCHANGED <<lpc, inputVars, fileVars, captured, logMishaps>>

\* A check of the deadline between two steps raises TimeoutError.
DeadlineStops ==
    /\ logLate
    /\ lpc \in {"collect", "create", "publish", "createStructured", "publishStructured"}
    /\ captured' = "error" /\ lpc' = "clean"
    /\ UNCHANGED <<inputVars, fileVars, logLate, logMishaps>>

-----------------------------------------------------------------------------
(* Inputs.                                                                  *)

\* _validate_inputs, _open_directories and _preflight_targets: a name that exists already,
\* or a directory that is not the run's own, ends the capture before it has begun.
OpenRunDirectories ==
    /\ lpc = "new"
    /\ \/ lpc' = "collect" /\ UNCHANGED <<captured, logMishaps>>
       \/ lpc' = "clean" /\ captured' = "error" /\ LogMishap
    /\ UNCHANGED <<inputVars, fileVars, logLate>>

\* _collect_commands: one failing command does not stop the others, and what it printed
\* is kept.
Collect ==
    /\ lpc = "collect"
    /\ outputs' \in [LogServices -> SUBSET {"event", "claim"}]
    /\ \/ commandFails' = {} /\ UNCHANGED logMishaps
       \/ LogMishap /\ \E s \in LogServices : commandFails' = {s}
    /\ lpc' = "create"
    /\ UNCHANGED <<host, hostBad, fileVars, logLate, captured>>

\* _read_host_events: the file is missing, changes its inode while it is read, or is
\* kept; every line of it has to be an event (strict).
ReadHost ==
    /\ lpc = "create" /\ {"raw"} \X LogServices \subseteq made
    /\ \/ host' \in SUBSET LineKinds /\ hostBad' = FALSE /\ UNCHANGED logMishaps
       \/ host' = {} /\ hostBad' = TRUE /\ LogMishap
    /\ lpc' = "publish"
    /\ UNCHANGED <<outputs, commandFails, fileVars, logLate, captured>>

\* _validated_line over one output: a text line of a service is skipped, in the host's
\* file it is an error.
EventDiagnostics ==
    \/ \E s \in LogServices : "claim" \in outputs[s]
    \/ host \cap {"claim", "text"} # {}

\* _partition: the modules no event was routed to.
MissingModules ==
    {s \in LogServices : "event" \notin outputs[s] /\ ~(s = HostModule /\ "event" \in host)}

-----------------------------------------------------------------------------
(* Candidates.                                                              *)

\* _Candidate.create.  On an error the name is removed again; what cannot be removed, or
\* cannot be looked at, is a leftover.  The capture stops.
Create(f) ==
    \/ /\ ~logLate
       /\ made' = made \cup {f} /\ partials' = partials \cup {f}
       /\ UNCHANGED <<leftovers, captured, lpc, logMishaps>>
    \/ /\ \/ LogMishap /\ UNCHANGED <<partials, leftovers>>
          \/ logLate /\ UNCHANGED <<logMishaps, partials, leftovers>>
          \/ /\ logMishaps' = logMishaps + OwnFault + 1 /\ logMishaps' <= MaxLogMishaps
             /\ partials' = partials \cup {f} /\ leftovers' = leftovers \cup {f}
       /\ captured' = "error" /\ lpc' = "clean"
       /\ UNCHANGED made

CreateRaw ==
    /\ lpc = "create"
    /\ \E f \in ({"raw"} \X LogServices) \ made : Create(f)
    /\ UNCHANGED <<inputVars, tried, sealed, finals, pathsOut, cleaned, logLate>>

\* Mutant: a publication that raised is taken for one that did not happen.
PublishUnseen(f) ==
    \/ /\ ~logLate
       /\ finals' = finals \cup {f} /\ partials' = partials \ {f}
       /\ sealed' = sealed \cup {f} /\ pathsOut' = pathsOut \cup {f}
       /\ UNCHANGED logMishaps
    \/ /\ finals' \in {finals, finals \cup {f}}
       /\ partials' \in (IF f \in finals' THEN {partials, partials \ {f}} ELSE {partials})
       /\ IF logLate THEN UNCHANGED logMishaps ELSE LogMishap
       /\ UNCHANGED <<sealed, pathsOut>>

\* _Candidate.publish: verify, link, verify, unlink the .partial name, verify, fsync.  It
\* may fail before the link, between link and unlink, or after the unlink, by a call of
\* its own or by a check of the deadline.  final_is_linked decides what is reported; an
\* error of its own system calls counts as not linked.
PublishCandidate(f) ==
    \/ /\ ~logLate
       /\ finals' = finals \cup {f} /\ partials' = partials \ {f}
       /\ sealed' = sealed \cup {f} /\ pathsOut' = pathsOut \cup {f}
       /\ UNCHANGED logMishaps
    \/ /\ finals' \in {finals, finals \cup {f}}
       /\ partials' \in (IF f \in finals' THEN {partials, partials \ {f}} ELSE {partials})
       /\ \E looks \in BOOLEAN :
            /\ logMishaps' = logMishaps + OwnFault + IF looks THEN 0 ELSE 1
            /\ pathsOut' = IF looks /\ f \in finals' THEN pathsOut \cup {f} ELSE pathsOut
       /\ logMishaps' <= MaxLogMishaps
       /\ UNCHANGED sealed

\* The raw candidates are tried one after the other, whatever happens to one of them.
PublishRaw ==
    /\ lpc = "publish"
    /\ \E f \in made \ tried : PublishCandidate(f) /\ tried' = tried \cup {f}
    /\ lpc' = IF tried' = made THEN "gate" ELSE lpc
    /\ UNCHANGED <<inputVars, made, leftovers, cleaned, logLate, captured>>

\* The gate between the raw and the structured logs.
RawGate ==
    /\ lpc = "gate"
    /\ IF commandFails # {} \/ hostBad \/ EventDiagnostics \/ MissingModules # {}
            \/ tried # sealed \/ pathsOut # {"raw"} \X LogServices
       THEN captured' = "error" /\ lpc' = "clean"
       ELSE lpc' = "createStructured" /\ UNCHANGED captured
    /\ UNCHANGED <<inputVars, fileVars, logLate, logMishaps>>

CreateStructured ==
    /\ lpc = "createStructured"
    /\ IF made = LogFiles
       THEN lpc' = "publishStructured" /\ UNCHANGED <<made, partials, leftovers, captured, logMishaps>>
       ELSE \E f \in LogFiles \ made : Create(f)
    /\ UNCHANGED <<inputVars, tried, sealed, finals, pathsOut, cleaned, logLate>>

\* The first structured log that fails ends the capture.
PublishStructured ==
    /\ lpc = "publishStructured"
    /\ \E f \in made \ tried : PublishCandidate(f) /\ tried' = tried \cup {f}
    /\ IF tried' # sealed' THEN captured' = "error" /\ lpc' = "clean"
       ELSE IF tried' = LogFiles THEN captured' = "ok" /\ lpc' = "clean"
       ELSE UNCHANGED <<captured, lpc>>
    /\ UNCHANGED <<inputVars, made, leftovers, cleaned, logLate>>

\* close_and_clean: the .partial name of a candidate that was not published is removed
\* if it is still this candidate's; what remains is a leftover, and any diagnostic of
\* the cleanup turns a success into an error.
CloseAndClean(f) ==
    \/ f \notin sealed /\ partials' = partials \ {f} /\ UNCHANGED <<leftovers, captured, logMishaps>>
    \/ f \in sealed /\ UNCHANGED <<partials, leftovers, captured, logMishaps>>
    \/ /\ LogMishap
       /\ partials' \in (IF f \in sealed THEN {partials} ELSE {partials, partials \ {f}})
       /\ leftovers' = IF f \in partials' THEN leftovers \cup {f} ELSE leftovers
       /\ captured' = "error"

\* The finally block, and the last decision of capture().
CleanUp ==
    /\ lpc = "clean"
    /\ \/ /\ \E f \in made \ cleaned : CloseAndClean(f) /\ cleaned' = cleaned \cup {f}
          /\ UNCHANGED lpc
       \/ /\ cleaned = made
          /\ lpc' = "done"
          /\ UNCHANGED <<partials, leftovers, captured, logMishaps, cleaned>>
    /\ UNCHANGED <<inputVars, made, tried, sealed, finals, pathsOut, logLate>>

LogNext ==
    \/ LogDeadline \/ DeadlineStops \/ OpenRunDirectories \/ Collect \/ CreateRaw \/ ReadHost
    \/ PublishRaw \/ RawGate \/ CreateStructured \/ PublishStructured \/ CleanUp

-----------------------------------------------------------------------------
(* Properties.                                                              *)

\* The result names only files that are there; every .partial name that survives is
\* listed as a leftover; and it takes two failures, the publication's and that of
\* final_is_linked, for a published file to be missing from the result (capture,
\* close_and_clean).
ReportIsTrue ==
    /\ pathsOut \subseteq finals
    /\ logMishaps < 1 + OwnFault => finals \subseteq pathsOut
    /\ lpc = "done" => partials \subseteq leftovers

\* A structured log exists only beside the raw log of every service, and only of
\* outputs without a failed command, a bad claim or a silent module (the gate of
\* capture: structured logs only if valid).
StructuredMeansAll ==
    (\E s \in LogServices : <<"structured", s>> \in finals) =>
        /\ {"raw"} \X LogServices \subseteq finals
        /\ commandFails = {} /\ ~hostBad
        /\ \A s \in LogServices : "claim" \notin outputs[s]
        /\ \A s \in LogServices \ {HostModule} : "event" \in outputs[s]

\* A capture that returns has published every file and left no other name behind.
CaptureIsComplete ==
    lpc = "done" /\ captured = "ok" =>
        finals = LogFiles /\ pathsOut = LogFiles /\ partials = {} /\ leftovers = {}

\* The log capture never claims a file that is not there, nor leaves one unclaimed.
LogsAreEvidence == ReportIsTrue /\ StructuredMeansAll /\ CaptureIsComplete
=============================================================================
