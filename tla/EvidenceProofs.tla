--------------------------- MODULE EvidenceProofs ---------------------------
(***************************************************************************)
(* Theorems about the producers of a run's evidence, for every number of   *)
(* frames, services and failing calls.  Each producer is proved by itself; *)
(* a step of one leaves the others where they are.                         *)
(***************************************************************************)
EXTENDS Evidence, FiniteSetTheorems, SequenceTheorems, NaturalsInduction,
        WellFoundedInduction, TLAPS

-----------------------------------------------------------------------------
(* Gazebo's server. *)

\* Past the group: the leader was reaped.
Reaped ==
    {"seal", "state", "zstd", "zlink", "zclean", "zremove", "compressed", "slink", "commit",
     "stopped"}

\* stop() goes on to the evidence only when the group is empty, and an empty group stays
\* empty: a member needs a living leader while the server runs.
GroupInv ==
    /\ gpc = "new" => leader = "none"
    /\ leader = "none" => ~ member
    /\ reused => leader = "reaped"
    /\ gpc \in {"new", "reap"} \cup Reaped => ~ member
    /\ gpc = "reap" => leader # "alive"
    /\ gpc \in Reaped => leader = "reaped"

\* The names on the way from the open files to the published ones.
NamesInv ==
    /\ gpc \notin Reaped \cup {"failed"} => zst = "none" /\ serverLog \in {"none", "partial"}
    /\ gpc \in {"seal", "state", "zstd"} => zst \in {"none", "partial"}
    /\ gpc = "zlink" => zst = "partial"
    /\ gpc = "zclean" => zst = "linked"
    /\ gpc \in {"zremove", "compressed", "slink", "commit", "stopped"} => zst = "final"
    /\ gpc \in {"compressed", "slink", "commit", "stopped"} => tlog = "removed"
    /\ gpc \in {"slink", "commit"} => serverLog = "linked"
    /\ gpc = "stopped" <=> serverLog = "final"
    /\ leader # "reaped" \/ member => zst = "none" /\ serverLog \in {"none", "partial"}

ServerInv ==
    /\ GzTypeOK
    /\ GroupInv
    /\ NamesInv
    /\ ServerIsEvidence

LEMMA ServerInvInit ==
    GzInit => ServerInv
<1> SUFFICES ASSUME GzInit PROVE ServerInv
  OBVIOUS
<1>1. GzTypeOK
  <2>1. 0 \in 0 .. MaxGzFaults
    BY GzAssumption
  <2>2. 0 \in 0 .. 2
    OBVIOUS
  <2>3. QED
    BY <2>1, <2>2 DEF GzInit, GzTypeOK, GzStopping
<1>2. GroupInv /\ NamesInv
  BY DEF GzInit, GroupInv, NamesInv, Reaped
<1>3. ServerIsEvidence
  BY DEF GzInit, ServerIsEvidence, NoStrangerSignalled, EvidenceIsQuiet, StateIsKept, CommitIsFinal
<1>4. QED
  BY <1>1, <1>2, <1>3 DEF ServerInv

LEMMA ServerInvStep ==
    ASSUME ServerInv, GzNext
    PROVE  ServerInv'
<1> USE DEF ServerInv, GzTypeOK, GroupInv, NamesInv, Reaped, GzStopping, ServerIsEvidence,
            NoStrangerSignalled, EvidenceIsQuiet, StateIsKept, CommitIsFinal, groupVars,
            gzFileVars, GzFault
<1>1. CASE StartServer
  BY <1>1, GzAssumption DEF StartServer
<1>2. CASE StopServer
  BY <1>2, GzAssumption DEF StopServer
<1>3. CASE StopFails
  BY <1>3, GzAssumption DEF StopFails
<1>4. CASE ProbeGroup
  BY <1>4, GzAssumption DEF ProbeGroup, GroupExists
<1>5. CASE SignalGroup
  BY <1>5, GzAssumption DEF SignalGroup, GroupExists
<1>6. CASE WaitForGroupEmpty
  BY <1>6, GzAssumption DEF WaitForGroupEmpty, GroupExists
<1>7. CASE Quiescence
  BY <1>7, GzAssumption DEF Quiescence, GroupExists
<1>8. CASE ReapLeader
  BY <1>8, GzAssumption DEF ReapLeader
<1>9. CASE SealServerLog
  BY <1>9, GzAssumption DEF SealServerLog
<1>10. CASE ValidateNativeState
  BY <1>10, GzAssumption DEF ValidateNativeState
<1>11. CASE RunZstd
  BY <1>11, GzAssumption DEF RunZstd
<1>12. CASE LinkCompressed
  BY <1>12, GzAssumption DEF LinkCompressed
<1>13. CASE PublishLog
  BY <1>13, GzAssumption DEF PublishLog
<1>14. CASE SimulatorActs
  BY <1>14, GzAssumption DEF SimulatorActs
<1>15. CASE MemberExits
  BY <1>15, GzAssumption DEF MemberExits
<1>16. CASE Killed
  BY <1>16, GzAssumption DEF Killed
<1>17. CASE PidIsReused
  BY <1>17, GzAssumption DEF PidIsReused
<1>18. CASE GzTimePasses
  BY <1>18, GzAssumption DEF GzTimePasses
<1>19. QED
  BY <1>1, <1>2, <1>3, <1>4, <1>5, <1>6, <1>7, <1>8, <1>9, <1>10,
     <1>11, <1>12, <1>13, <1>14, <1>15, <1>16, <1>17, <1>18 DEF GzNext, GzOwner

-----------------------------------------------------------------------------
(* The log capture. *)

RawFiles == {"raw"} \X LogServices

\* What the gate between the raw and the structured logs lets pass.
Gated ==
    /\ RawFiles \subseteq pathsOut
    /\ commandFails = {} /\ ~ hostBad
    /\ ~ EventDiagnostics /\ MissingModules = {}

\* Where no structured log has a candidate yet.
BeforeGate == {"new", "collect", "create", "publish", "gate"}

\* What is in a file's name, and what the result says of it.
FilesInv ==
    /\ sealed \subseteq pathsOut /\ pathsOut \subseteq finals /\ finals \subseteq tried
    /\ sealed \cap partials = {}
    /\ partials \subseteq made \cup leftovers
    /\ cleaned \cap partials \subseteq leftovers
    /\ finals \subseteq pathsOut \/ logMishaps >= 1 + OwnFault
    /\ cleaned # {} => lpc \in {"clean", "done"}
    /\ lpc = "done" => cleaned = made

\* No structured log without the gate.
GateInv ==
    /\ lpc \in BeforeGate => made \subseteq RawFiles
    /\ lpc \in {"createStructured", "publishStructured"} => Gated
    /\ made \subseteq RawFiles \/ Gated

\* A capture that is called a success sealed every file, and left nothing over.
SuccessInv ==
    /\ captured = "none" <=> lpc \notin {"clean", "done"}
    /\ captured = "ok" => sealed = LogFiles
    /\ leftovers # {} => captured = "error"

LogInv ==
    /\ LogTypeOK
    /\ FilesInv
    /\ GateInv
    /\ SuccessInv

LEMMA LogInvEarns ==
    LogInv => LogsAreEvidence
<1> SUFFICES ASSUME LogInv PROVE LogsAreEvidence
  OBVIOUS
<1>1. ReportIsTrue
  BY DEF LogInv, LogTypeOK, FilesInv, ReportIsTrue, OwnFault
<1>2. StructuredMeansAll
  <2> SUFFICES ASSUME NEW s \in LogServices, <<"structured", s>> \in finals
               PROVE  Gated /\ RawFiles \subseteq finals
    BY DEF StructuredMeansAll, Gated, RawFiles, EventDiagnostics, MissingModules
  <2>1. <<"structured", s>> \notin RawFiles
    BY DEF RawFiles
  <2>2. QED
    BY <2>1 DEF LogInv, LogTypeOK, FilesInv, GateInv, Gated
<1>3. CaptureIsComplete
  BY DEF LogInv, LogTypeOK, FilesInv, SuccessInv, CaptureIsComplete
<1>4. QED
  BY <1>1, <1>2, <1>3 DEF LogsAreEvidence

LEMMA LogInvInit ==
    LogInit => LogInv
<1> SUFFICES ASSUME LogInit PROVE LogInv
  OBVIOUS
<1>1. LogTypeOK
  <2>1. 0 \in 0 .. MaxLogMishaps
    BY LogAssumption
  <2>2. QED
    BY <2>1 DEF LogInit, LogTypeOK
<1>2. FilesInv /\ GateInv /\ SuccessInv
  BY DEF LogInit, FilesInv, GateInv, BeforeGate, SuccessInv
<1>3. QED
  BY <1>1, <1>2 DEF LogInv

\* What publishing one candidate does, whatever fails.
LEMMA PublishEffects ==
    ASSUME LogInv, NEW f \in made \ tried, PublishCandidate(f), tried' = tried \cup {f},
           lpc \in {"publish", "publishStructured"}, lpc' # "done",
           UNCHANGED <<inputVars, made, leftovers, cleaned, logLate>>
    PROVE  /\ FilesInv' /\ pathsOut \subseteq pathsOut'
           /\ partials' \subseteq partials /\ logMishaps' \in 0 .. MaxLogMishaps
           /\ tried' \subseteq made' /\ sealed' \subseteq tried'
<1>1. /\ logMishaps \in Nat /\ MaxLogMishaps \in Nat /\ logMishaps <= MaxLogMishaps
      /\ OwnFault \in {0, 1} /\ OwnFault' = OwnFault /\ cleaned = {}
      /\ f \in made /\ f \notin tried /\ tried \subseteq made
  BY LogAssumption DEF LogInv, LogTypeOK, FilesInv, OwnFault
<1>2. /\ finals \subseteq finals' /\ finals' \subseteq finals \cup {f} /\ partials' \subseteq partials
      /\ pathsOut \subseteq pathsOut' /\ pathsOut' \subseteq finals' /\ sealed' \subseteq sealed \cup {f}
      /\ f \in sealed' => f \notin partials' /\ f \in pathsOut'
      /\ logMishaps' \in Nat /\ logMishaps' >= logMishaps /\ logMishaps' <= MaxLogMishaps
      /\ f \in finals' /\ f \notin pathsOut' => logMishaps' >= 1 + OwnFault
  <2>1. CASE ~ logLate /\ finals' = finals \cup {f} /\ pathsOut' = pathsOut \cup {f}
    BY <1>1, <2>1 DEF PublishCandidate, LogInv, FilesInv
  <2>2. CASE /\ finals' \in {finals, finals \cup {f}} /\ sealed' = sealed
             /\ logMishaps' <= MaxLogMishaps /\ partials' \subseteq partials
             /\ \/ /\ logMishaps' = logMishaps + OwnFault
                   /\ pathsOut' = IF f \in finals' THEN pathsOut \cup {f} ELSE pathsOut
                \/ logMishaps' = logMishaps + OwnFault + 1 /\ pathsOut' = pathsOut
    BY <1>1, <2>2 DEF LogInv, LogTypeOK, FilesInv
  <2>3. QED
    BY <1>1, <2>1, <2>2 DEF PublishCandidate
<1>3. FilesInv'
  BY <1>1, <1>2 DEF LogInv, LogTypeOK, FilesInv
<1>4. QED
  BY <1>1, <1>2, <1>3 DEF LogInv, LogTypeOK

\* What creating one candidate does, whatever fails.
LEMMA CreateEffects ==
    ASSUME LogInv, NEW f \in LogFiles \ made, Create(f),
           lpc \in {"create", "createStructured"},
           UNCHANGED <<inputVars, tried, sealed, finals, pathsOut, cleaned, logLate>>
    PROVE  /\ FilesInv' /\ SuccessInv' /\ LogTypeOK'
           /\ made' \subseteq made \cup {f} /\ lpc' \in {lpc, "clean"}
<1>1. /\ logMishaps \in Nat /\ MaxLogMishaps \in Nat /\ logMishaps <= MaxLogMishaps
      /\ OwnFault \in {0, 1} /\ OwnFault' = OwnFault /\ cleaned = {}
      /\ f \in LogFiles /\ f \notin made
      /\ captured = "none"
  BY LogAssumption DEF LogInv, LogTypeOK, FilesInv, SuccessInv, OwnFault
<1>2. /\ \/ made' = made \cup {f} /\ partials' = partials \cup {f}
            /\ UNCHANGED <<leftovers, captured, lpc>>
         \/ /\ \/ UNCHANGED <<partials, leftovers>>
               \/ partials' = partials \cup {f} /\ leftovers' = leftovers \cup {f}
            /\ captured' = "error" /\ lpc' = "clean" /\ made' = made
      /\ logMishaps' \in Nat /\ logMishaps' >= logMishaps /\ logMishaps' <= MaxLogMishaps
  BY <1>1 DEF Create, LogMishap
<1>3. FilesInv'
  BY <1>1, <1>2 DEF LogInv, LogTypeOK, FilesInv
<1>4. SuccessInv'
  BY <1>1, <1>2 DEF LogInv, LogTypeOK, SuccessInv
<1>5. LogTypeOK'
  BY <1>1, <1>2 DEF LogInv, LogTypeOK, inputVars
<1>6. QED
  BY <1>2, <1>3, <1>4, <1>5

LEMMA LogInvStep ==
    ASSUME LogInv, LogNext
    PROVE  LogInv'
<1> USE DEF inputVars, fileVars, LogMishap, BeforeGate
<1>a. LogTypeOK /\ FilesInv /\ GateInv /\ SuccessInv
  BY DEF LogInv
<1>b. /\ logMishaps \in Nat /\ MaxLogMishaps \in Nat /\ logMishaps <= MaxLogMishaps
      /\ OwnFault \in {0, 1}
  BY <1>a, LogAssumption DEF LogTypeOK, OwnFault
<1>c. UNCHANGED inputVars /\ pathsOut \subseteq pathsOut' /\ Gated => Gated'
  BY DEF Gated, EventDiagnostics, MissingModules
<1>1. CASE LogDeadline
  <2>1. LogTypeOK' /\ SuccessInv'
    BY <1>a, <1>1 DEF LogDeadline, LogTypeOK, SuccessInv
  <2>2. FilesInv'
    BY <1>a, <1>b, <1>1 DEF LogDeadline, FilesInv, OwnFault
  <2>3. GateInv'
    BY <1>a, <1>c, <1>1 DEF LogDeadline, GateInv
  <2>4. QED
    BY <2>1, <2>2, <2>3 DEF LogInv
<1>2. CASE DeadlineStops
  <2>1. LogTypeOK' /\ SuccessInv'
    BY <1>a, <1>2 DEF DeadlineStops, LogTypeOK, SuccessInv
  <2>2. FilesInv'
    BY <1>a, <1>b, <1>2 DEF DeadlineStops, FilesInv, OwnFault
  <2>3. GateInv'
    BY <1>a, <1>c, <1>2 DEF DeadlineStops, GateInv
  <2>4. QED
    BY <2>1, <2>2, <2>3 DEF LogInv
<1>3. CASE OpenRunDirectories
  <2>1. LogTypeOK' /\ SuccessInv'
    BY <1>a, <1>b, <1>3 DEF OpenRunDirectories, LogTypeOK, SuccessInv
  <2>2. FilesInv'
    BY <1>a, <1>b, <1>3 DEF OpenRunDirectories, FilesInv, OwnFault
  <2>3. GateInv'
    BY <1>a, <1>c, <1>3 DEF OpenRunDirectories, GateInv
  <2>4. QED
    BY <2>1, <2>2, <2>3 DEF LogInv
<1>4. CASE Collect
  <2>1. LogTypeOK' /\ SuccessInv'
    BY <1>a, <1>b, <1>4 DEF Collect, LogTypeOK, SuccessInv
  <2>2. FilesInv'
    BY <1>a, <1>b, <1>4 DEF Collect, FilesInv, OwnFault
  <2>3. GateInv'
    BY <1>a, <1>4 DEF Collect, GateInv
  <2>4. QED
    BY <2>1, <2>2, <2>3 DEF LogInv
<1>5. CASE ReadHost
  <2>1. LogTypeOK' /\ SuccessInv'
    <3>1. host' \in SUBSET LineKinds /\ hostBad' \in BOOLEAN /\ logMishaps' \in 0 .. MaxLogMishaps
      <4>1. host' \in SUBSET LineKinds
        BY <1>5 DEF ReadHost
      <4>2. hostBad' \in BOOLEAN
        BY <1>5 DEF ReadHost
      <4>3. logMishaps' \in 0 .. MaxLogMishaps
        BY <1>b, <1>5 DEF ReadHost
      <4>4. QED
        BY <4>1, <4>2, <4>3
    <3>2. QED
      BY <1>a, <1>5, <3>1 DEF ReadHost, LogTypeOK, SuccessInv
  <2>2. FilesInv'
    BY <1>a, <1>b, <1>5 DEF ReadHost, FilesInv, OwnFault
  <2>3. GateInv'
    BY <1>a, <1>5 DEF ReadHost, GateInv
  <2>4. QED
    BY <2>1, <2>2, <2>3 DEF LogInv
<1>6. CASE CreateRaw
  <2>1. PICK f \in RawFiles \ made : Create(f)
    BY <1>6 DEF CreateRaw, RawFiles
  <2>2. f \in LogFiles \ made /\ lpc = "create"
    BY <1>6, <2>1 DEF CreateRaw, RawFiles, LogFiles
  <2>3. /\ FilesInv' /\ SuccessInv' /\ LogTypeOK'
        /\ made' \subseteq made \cup {f} /\ lpc' \in {lpc, "clean"}
    BY <1>6, <2>1, <2>2, CreateEffects DEF CreateRaw
  <2>4. GateInv'
    BY <1>a, <2>1, <2>2, <2>3 DEF GateInv
  <2>5. QED
    BY <2>3, <2>4 DEF LogInv
<1>7. CASE PublishRaw
  <2>1. PICK f \in made \ tried : PublishCandidate(f) /\ tried' = tried \cup {f}
    BY <1>7 DEF PublishRaw
  <2>2. lpc = "publish" /\ lpc' \in {"publish", "gate"}
    BY <1>7 DEF PublishRaw
  <2>3. /\ FilesInv' /\ pathsOut \subseteq pathsOut'
        /\ partials' \subseteq partials /\ logMishaps' \in 0 .. MaxLogMishaps
        /\ tried' \subseteq made' /\ sealed' \subseteq tried'
    BY <1>7, <2>1, <2>2, PublishEffects DEF PublishRaw
  <2>4. GateInv' /\ SuccessInv'
    BY <1>a, <1>7, <2>2 DEF GateInv, SuccessInv, PublishRaw
  <2>5. finals' \subseteq LogFiles /\ pathsOut' \subseteq LogFiles
    BY <1>a, <1>7, <2>3 DEF LogTypeOK, FilesInv, PublishRaw
  <2>6. LogTypeOK'
    BY <1>a, <1>7, <2>2, <2>3, <2>5 DEF LogTypeOK, PublishRaw
  <2>7. QED
    BY <2>3, <2>4, <2>6 DEF LogInv
<1>8. CASE RawGate
  <2>1. LogTypeOK' /\ SuccessInv'
    BY <1>a, <1>8 DEF RawGate, LogTypeOK, SuccessInv
  <2>2. FilesInv'
    BY <1>a, <1>b, <1>8 DEF RawGate, FilesInv, OwnFault
  <2>3. GateInv'
    BY <1>a, <1>c, <1>8 DEF RawGate, GateInv, Gated, RawFiles
  <2>4. QED
    BY <2>1, <2>2, <2>3 DEF LogInv
<1>9. CASE CreateStructured
  <2>1. CASE made = LogFiles
    <3>1. LogTypeOK' /\ SuccessInv'
      BY <1>a, <1>9, <2>1 DEF CreateStructured, LogTypeOK, SuccessInv
    <3>2. FilesInv'
      BY <1>a, <1>b, <1>9, <2>1 DEF CreateStructured, FilesInv, OwnFault
    <3>3. GateInv'
      BY <1>a, <1>c, <1>9, <2>1 DEF CreateStructured, GateInv
    <3>4. QED
      BY <3>1, <3>2, <3>3 DEF LogInv
  <2>2. CASE made # LogFiles
    <3>1. PICK f \in LogFiles \ made : Create(f)
      BY <1>9, <2>2 DEF CreateStructured
    <3>2. lpc = "createStructured"
      BY <1>9 DEF CreateStructured
    <3>3. /\ FilesInv' /\ SuccessInv' /\ LogTypeOK'
          /\ made' \subseteq made \cup {f} /\ lpc' \in {lpc, "clean"}
      BY <1>9, <3>1, <3>2, CreateEffects DEF CreateStructured
    <3>4. GateInv'
      BY <1>a, <1>c, <1>9, <3>2, <3>3 DEF GateInv, CreateStructured
    <3>5. QED
      BY <3>3, <3>4 DEF LogInv
  <2>3. QED
    BY <2>1, <2>2
<1>10. CASE PublishStructured
  <2>1. PICK f \in made \ tried : PublishCandidate(f) /\ tried' = tried \cup {f}
    BY <1>10 DEF PublishStructured
  <2>2. lpc = "publishStructured" /\ lpc' \in {"publishStructured", "clean"}
    BY <1>10 DEF PublishStructured
  <2>3. /\ FilesInv' /\ pathsOut \subseteq pathsOut'
        /\ partials' \subseteq partials /\ logMishaps' \in 0 .. MaxLogMishaps
        /\ tried' \subseteq made' /\ sealed' \subseteq tried'
    BY <1>10, <2>1, <2>2, PublishEffects DEF PublishStructured
  <2>4. Gated'
    BY <1>a, <1>c, <1>10, <2>2, <2>3 DEF GateInv, PublishStructured
  <2>5. GateInv' /\ SuccessInv'
    BY <1>a, <1>10, <2>2, <2>4 DEF GateInv, SuccessInv, PublishStructured
  <2>6. finals' \subseteq LogFiles /\ pathsOut' \subseteq LogFiles
    BY <1>a, <1>10, <2>3 DEF LogTypeOK, FilesInv, PublishStructured
  <2>7. LogTypeOK'
    BY <1>a, <1>10, <2>2, <2>3, <2>6 DEF LogTypeOK, PublishStructured
  <2>8. QED
    BY <2>3, <2>5, <2>7 DEF LogInv
<1>11. CASE CleanUp
  <2>1. CASE lpc' = "done" /\ cleaned = made
    <3>1. LogTypeOK' /\ SuccessInv'
      BY <1>a, <1>11, <2>1 DEF CleanUp, LogTypeOK, SuccessInv
    <3>2. FilesInv'
      BY <1>a, <1>b, <1>11, <2>1 DEF CleanUp, FilesInv, OwnFault
    <3>3. GateInv'
      BY <1>a, <1>c, <1>11, <2>1 DEF CleanUp, GateInv
    <3>4. QED
      BY <3>1, <3>2, <3>3 DEF LogInv
  <2>2. ASSUME NEW f \in made \ cleaned, CloseAndClean(f), cleaned' = cleaned \cup {f},
               lpc = "clean", lpc' = lpc,
               UNCHANGED <<inputVars, made, tried, sealed, finals, pathsOut, logLate>>
        PROVE  LogInv'
    <3>1. /\ partials' \subseteq partials
          /\ f \in partials' => f \in leftovers'
          /\ leftovers \subseteq leftovers' /\ leftovers' \subseteq leftovers \cup {f}
          /\ captured' \in {captured, "error"} /\ (leftovers' # leftovers => captured' = "error")
          /\ logMishaps' \in Nat /\ logMishaps' >= logMishaps /\ logMishaps' <= MaxLogMishaps
      BY <1>a, <1>b, <2>2 DEF CloseAndClean, FilesInv
    <3>2. LogTypeOK'
      BY <1>a, <1>b, <2>2, <3>1 DEF LogTypeOK
    <3>3. FilesInv'
      BY <1>a, <1>b, <2>2, <3>1 DEF FilesInv, OwnFault
    <3>4. GateInv'
      BY <1>a, <1>c, <2>2 DEF GateInv
    <3>5. SuccessInv'
      BY <1>a, <2>2, <3>1 DEF SuccessInv
    <3>6. QED
      BY <3>2, <3>3, <3>4, <3>5 DEF LogInv
  <2>3. QED
    BY <1>11, <2>1, <2>2 DEF CleanUp
<1>12. QED
  BY <1>1, <1>2, <1>3, <1>4, <1>5, <1>6, <1>7, <1>8, <1>9, <1>10, <1>11 DEF LogNext

-----------------------------------------------------------------------------
(* The video of one camera. *)

\* Every frame that was fed is an image with its own metadata, in order, without a gap.
FedInv == \A i \in DOMAIN fed : fed[i] = <<i - 1, i - 1>>

Starting == {"new", "opened", "spawning", "cancelled", "startFailed"}
Sealing == {"sealLog", "linkLog", "judge", "publish", "preserve", "recovering"}

\* Who owns the process, while it is handed over and when finalize() is at its files.
ProcessInv ==
    /\ worker \in {"idle", "spawning"} => ffmpeg = "none" /\ handoff \in {"spawning", "cancelled"}
    /\ vpc \in {"new", "opened"} => worker = "idle"
    /\ handoff \in {"ready", "claimed"} => ffmpeg # "none"
    /\ vpc \notin Starting => handoff = "claimed"
    /\ vpc \in Sealing => ffmpeg \in Gone

\* What the descriptors and names are on the way through finalize().
FileInv ==
    /\ vpc \notin {"judge", "publish", "preserve", "done"} => names["log"] = "none"
    /\ vpc # "done" => names["mp4"] = "none" /\ names["partial"] = "none"
    /\ vpc \in {"linkLog", "judge", "publish", "preserve"} => logFd = "readonly"
    /\ vpc = "done" => videoFd = "closed" /\ logFd = "closed"
    /\ vpc \in {"judge", "publish"} => ~ failed /\ ffmpeg = "zero"
    /\ vpc = "publish" => Valid(Len(fed))

VideoInv ==
    /\ VideoTypeOK
    /\ FedInv
    /\ ProcessInv
    /\ FileInv
    /\ VideoIsEvidence

\* What a counted mishap leaves of the bound.
LEMMA MishapBound ==
    ASSUME mishaps \in 0 .. MaxMishaps, Works \/ Mishap
    PROVE  mishaps' \in 0 .. MaxMishaps
<1>1. QED
  BY VideoAssumption DEF Works, Mishap

\* The pairs that leave the buffers are the next ones, however many of them are accepted.
LEMMA PairsAreNext ==
    ASSUME NEW ims, NEW mds, fed \in Seq((0 .. Sent) \X (0 .. Sent)),
           NEW n \in 0 .. Cardinality(Drainable(ims, mds)), NEW i \in 1 .. n
    PROVE  /\ Len(fed) + i - 1 \in Drainable(ims, mds)
           /\ Len(fed) + i - 1 \in 0 .. Sent
           /\ ImageOf(ims, Len(fed) + i - 1).frame = Len(fed) + i - 1
<1> DEFINE k == Len(fed) + i - 1
           ready == Drainable(ims, mds)
<1>1. Len(fed) \in Nat /\ Sent \in Nat
  BY VideoAssumption
<1>2. ready \subseteq Len(fed) .. Sent /\ IsFiniteSet(ready) /\ Cardinality(ready) \in Nat
  <2>1. ready \subseteq Len(fed) .. Sent
    BY DEF Drainable
  <2>2. IsFiniteSet(Len(fed) .. Sent)
    BY <1>1, FS_Interval
  <2>3. IsFiniteSet(ready)
    BY <2>1, <2>2, FS_Subset
  <2>4. QED
    BY <2>1, <2>3, FS_CardinalityType
<1>3. n \in Nat /\ i \in Nat /\ 1 <= i /\ i <= n /\ n <= Cardinality(ready)
  BY <1>2
<1>4. k \in ready
  <2> SUFFICES ASSUME k \notin ready PROVE FALSE
    OBVIOUS
  <2>1. ASSUME NEW m \in ready PROVE m < k
    <3>1. m \in Len(fed) .. Sent /\ \A j \in Len(fed) .. m : j \in mds /\ \E im \in ims : im.frame = j
      BY <2>1 DEF Drainable
    <3>2. SUFFICES ASSUME k <= m PROVE FALSE
      BY <1>1, <1>3, <3>1
    <3>3. k \in Len(fed) .. Sent /\ \A j \in Len(fed) .. k : j \in Len(fed) .. m
      BY <1>1, <1>3, <3>1, <3>2
    <3>4. k \in ready
      BY <3>1, <3>3 DEF Drainable
    <3>5. QED
      BY <3>4
  <2>2. ready \subseteq Len(fed) .. (k - 1)
    BY <1>1, <1>2, <1>3, <2>1
  <2>3. IsFiniteSet(Len(fed) .. (k - 1)) /\ Cardinality(Len(fed) .. (k - 1)) = i - 1
    <3> DEFINE lo == Len(fed)
               hi == k - 1
    <3>1. lo \in Int /\ hi \in Int /\ lo <= hi + 1 /\ hi - lo + 1 = i - 1
      BY <1>1, <1>3
    <3> HIDE DEF lo, hi
    <3>2. /\ IsFiniteSet(lo .. hi)
          /\ Cardinality(lo .. hi) = IF lo > hi THEN 0 ELSE hi - lo + 1
      BY <3>1, FS_Interval
    <3>3. Cardinality(lo .. hi) = i - 1
      BY <1>3, <3>1, <3>2
    <3>4. QED
      BY <3>2, <3>3 DEF lo, hi
  <2>4. Cardinality(ready) <= i - 1
    BY <2>2, <2>3, FS_Subset
  <2>5. QED
    BY <1>2, <1>3, <2>4
<1>5. \E im \in ims : im.frame = k
  <2>1. k \in Len(fed) .. k
    BY <1>1, <1>3
  <2>2. \A j \in Len(fed) .. k : \E im \in ims : im.frame = j
    BY <1>4 DEF Drainable
  <2> HIDE DEF k
  <2>3. QED
    BY <2>1, <2>2
<1>6. ImageOf(ims, k).frame = k
  BY <1>5 DEF ImageOf
<1>7. QED
  BY <1>1, <1>2, <1>3, <1>4, <1>6

\* A delivery feeds whole pairs in order, and keeps the buffers what they are.
LEMMA DrainEffects ==
    ASSUME VideoTypeOK, FedInv, NEW ims \in SUBSET [frame : 0 .. Sent, ok : BOOLEAN],
           NEW mds \in SUBSET (0 .. Sent), DrainPairs(ims, mds)
    PROVE  /\ fed' \in Seq((0 .. Sent) \X (0 .. Sent)) /\ FedInv'
           /\ images' \subseteq [frame : 0 .. Sent, ok : BOOLEAN] /\ metadata' \subseteq 0 .. Sent
           /\ failed' \in BOOLEAN /\ mishaps' \in 0 .. MaxMishaps
<1> DEFINE ready == Drainable(ims, mds)
           S == (0 .. Sent) \X (0 .. Sent)
<1>1. PICK n \in 0 .. Cardinality(ready) :
        LET taken == {k \in ready : k <= Len(fed) + n}
        IN  /\ \/ Works
               \/ Mishap
            /\ fed' = fed \o [i \in 1 .. n |->
                                <<ImageOf(ims, Len(fed) + i - 1).frame, Len(fed) + i - 1>>]
            /\ images' = {im \in ims : im.frame \notin taken}
            /\ metadata' = mds \ taken
            /\ failed' = (failed \/ n < Cardinality(ready))
  <2> HIDE DEF ready
  <2>1. QED
    BY Zenon DEF DrainPairs, ready
<1>2. fed \in Seq(S) /\ Len(fed) \in Nat /\ DOMAIN fed = 1 .. Len(fed)
  BY DEF VideoTypeOK
<1>3. n \in Nat
  OBVIOUS
<1> DEFINE new == [i \in 1 .. n |-> <<ImageOf(ims, Len(fed) + i - 1).frame, Len(fed) + i - 1>>]
<1>4. \A i \in 1 .. n : new[i] = <<Len(fed) + i - 1, Len(fed) + i - 1>> /\ new[i] \in S
  BY <1>2, PairsAreNext
<1>5. new \in Seq(S) /\ Len(new) = n
  <2>1. new \in [1 .. n -> S]
    BY <1>4
  <2> HIDE DEF new, S
  <2>2. new \in Seq(S)
    BY <1>3, <2>1, SeqDef
  <2>3. DOMAIN new = 1 .. n
    BY <2>1
  <2>4. QED
    BY <1>3, <2>2, <2>3, LenProperties
<1>6. fed' = fed \o new
  BY <1>1
<1> HIDE DEF new, S
<1>7. fed' \in Seq(S) /\ Len(fed') = Len(fed) + n
      /\ \A i \in 1 .. Len(fed) + n : fed'[i] = IF i <= Len(fed) THEN fed[i] ELSE new[i - Len(fed)]
  BY <1>2, <1>5, <1>6, ConcatProperties
<1>8. FedInv'
  <2> SUFFICES ASSUME NEW i \in 1 .. Len(fed) + n PROVE fed'[i] = <<i - 1, i - 1>>
    BY <1>7, LenProperties DEF FedInv
  <2>1. CASE i <= Len(fed)
    BY <1>2, <1>7, <2>1 DEF FedInv
  <2>2. CASE i > Len(fed)
    <3>1. i - Len(fed) \in 1 .. n /\ Len(fed) + (i - Len(fed)) - 1 = i - 1
      BY <1>2, <1>3, <2>2
    <3>2. new[i - Len(fed)] = <<i - 1, i - 1>>
      BY <1>4, <3>1
    <3>3. QED
      BY <1>2, <1>3, <1>7, <2>2, <3>2
  <2>3. QED
    BY <1>2, <1>3, <2>1, <2>2
<1>9. failed' \in BOOLEAN
  BY <1>1
<1>10. mishaps' \in 0 .. MaxMishaps
  <2>1. mishaps \in 0 .. MaxMishaps
    BY DEF VideoTypeOK
  <2>2. Works \/ Mishap
    BY <1>1
  <2>3. QED
    BY <2>1, <2>2, MishapBound
<1>11. QED
  BY <1>1, <1>7, <1>8, <1>9, <1>10 DEF S

LEMMA VideoInvInit ==
    VideoInit => VideoInv
<1> SUFFICES ASSUME VideoInit PROVE VideoInv
  OBVIOUS
<1>1. 0 \in 0 .. MaxMishaps /\ 0 \in 0 .. Sent /\ 0 \in 0 .. 2 /\ 0 \in 0 .. 3
  BY VideoAssumption
<1>2. fed \in Seq((0 .. Sent) \X (0 .. Sent)) /\ DOMAIN fed = {}
  BY DEF VideoInit
<1>3. nextFrame \in [Topics -> 0 .. Sent]
  BY <1>1 DEF VideoInit
<1>4. names \in [{"mp4", "partial", "log"} -> {"none", "inode", "copy"}]
      /\ \A n \in DOMAIN names : names[n] = "none"
  BY DEF VideoInit
<1>5. VideoTypeOK
  BY <1>1, <1>2, <1>3, <1>4 DEF VideoInit, VideoTypeOK, Gone
<1>6. FedInv
  BY <1>2 DEF FedInv
<1>7. ProcessInv
  BY DEF VideoInit, ProcessInv, Starting, Sealing, Gone
<1>8. FileInv
  BY <1>4 DEF VideoInit, FileInv
<1>9. VideoIsEvidence
  BY <1>4 DEF VideoInit, VideoIsEvidence, PublishedIsWhole, NamedIsImmutable, NotLostInSilence
<1>10. QED
  BY <1>5, <1>6, <1>7, <1>8, <1>9 DEF VideoInv

\* A step that leaves the names alone, ends nothing, and revives no process keeps what
\* the names promise.
LEMMA NamesKept ==
    ASSUME VideoTypeOK, ProcessInv, FileInv, VideoIsEvidence, UNCHANGED <<names, outcome, published>>,
           vpc \notin Starting /\ ffmpeg \in Gone => ffmpeg' = ffmpeg,
           vpc = "done" => UNCHANGED <<vpc, videoFd, logFd, fed, failed, time, recovery>>,
           vpc' = "done" => vpc = "done",
           names["log"] = "inode" => logFd' \in {logFd, "readonly", "closed"},
           FedInv'
    PROVE  VideoIsEvidence'
<1>1. names["mp4"] # "none" => vpc = "done"
  BY DEF FileInv
<1>2. names["partial"] # "none" => vpc = "done"
  BY DEF FileInv
<1>3. PublishedIsWhole'
  BY <1>1 DEF VideoIsEvidence, PublishedIsWhole, FedInv, Gone, Starting
<1>4. DOMAIN names = {"mp4", "partial", "log"}
  BY DEF VideoTypeOK
<1>5. NamedIsImmutable'
  <2>1. ASSUME NEW n \in DOMAIN names, names[n] = "inode"
        PROVE  ffmpeg' \in Gone /\ (IF n = "log" THEN logFd' ELSE videoFd') # "writable"
    <3>1. ffmpeg \in Gone /\ (IF n = "log" THEN logFd ELSE videoFd) # "writable"
      BY <2>1 DEF VideoIsEvidence, NamedIsImmutable, Fd
    <3>a. vpc \notin Starting
      BY <1>1, <1>2, <1>4, <2>1 DEF FileInv, Starting
    <3>2. CASE n = "log"
      BY <2>1, <3>1, <3>a, <3>2
    <3>3. CASE n # "log"
      BY <1>1, <1>2, <1>4, <2>1, <3>1, <3>a, <3>3
    <3>4. QED
      BY <3>2, <3>3
  <2>2. QED
    BY <2>1 DEF VideoIsEvidence, NamedIsImmutable, Fd
<1>6. NotLostInSilence'
  BY DEF VideoIsEvidence, NotLostInSilence
<1>7. QED
  BY <1>3, <1>5, <1>6 DEF VideoIsEvidence

\* The steps that leave every name alone and end no recording.
VideoQuietNext ==
    \/ Disturb \/ StartTimePasses \/ FinalizeTimePasses \/ Open \/ StartWorker \/ Claim
    \/ GiveUpStart \/ VideoWorker \/ FfmpegExits \/ Freeze \/ CloseStdin \/ CloserFinishes \/ Reap
    \/ SealOutput \/ SealLog \/ Judge

LEMMA VideoQuietStep ==
    ASSUME VideoInv, VideoQuietNext
    PROVE  VideoInv'
<1> USE DEF startVars, frameVars, diskVars
<1>a. VideoTypeOK /\ FedInv /\ ProcessInv /\ FileInv /\ VideoIsEvidence
  BY DEF VideoInv
<1>b. Works \/ Mishap => mishaps' \in 0 .. MaxMishaps
  BY <1>a, MishapBound DEF VideoTypeOK
<1>1. CASE Disturb
  <2>0. eof' \in BOOLEAN /\ accepting' \in BOOLEAN /\ failed' \in BOOLEAN
        /\ reported' \in BOOLEAN /\ safe' \in BOOLEAN
    BY <1>a, <1>1 DEF Disturb, VideoTypeOK
  <2>1. VideoTypeOK'
    BY <1>a, <1>b, <1>1, <2>0 DEF Disturb, VideoTypeOK, Gone
  <2>2. FedInv'
    BY <1>a, <1>1 DEF Disturb, FedInv
  <2>3. ProcessInv'
    BY <1>a, <1>1 DEF Disturb, VideoTypeOK, ProcessInv, Starting, Sealing, Gone
  <2>4. FileInv'
    BY <1>a, <1>1 DEF Disturb, VideoTypeOK, ProcessInv, FileInv, Starting, Sealing, Gone, Valid
  <2>5. VideoIsEvidence'
    BY <1>a, <1>1, <2>2, NamesKept DEF Disturb, FileInv, ProcessInv, Starting, Gone
  <2>6. QED
    BY <2>1, <2>2, <2>3, <2>4, <2>5 DEF VideoInv
<1>2. CASE StartTimePasses
  <2>1. VideoTypeOK'
    BY <1>a, <1>b, <1>2 DEF StartTimePasses, VideoTypeOK, Gone
  <2>2. FedInv'
    BY <1>a, <1>2 DEF StartTimePasses, FedInv
  <2>3. ProcessInv'
    BY <1>a, <1>2 DEF StartTimePasses, VideoTypeOK, ProcessInv, Starting, Sealing, Gone
  <2>4. FileInv'
    BY <1>a, <1>2 DEF StartTimePasses, VideoTypeOK, ProcessInv, FileInv, Starting, Sealing, Gone, Valid
  <2>5. VideoIsEvidence'
    BY <1>a, <1>2, <2>2, NamesKept DEF StartTimePasses, FileInv, ProcessInv, Starting, Gone
  <2>6. QED
    BY <2>1, <2>2, <2>3, <2>4, <2>5 DEF VideoInv
<1>3. CASE FinalizeTimePasses
  <2>1. VideoTypeOK'
    BY <1>a, <1>b, <1>3 DEF FinalizeTimePasses, VideoTypeOK, Gone
  <2>2. FedInv'
    BY <1>a, <1>3 DEF FinalizeTimePasses, FedInv
  <2>3. ProcessInv'
    BY <1>a, <1>3 DEF FinalizeTimePasses, VideoTypeOK, ProcessInv, Starting, Sealing, Gone
  <2>4. FileInv'
    BY <1>a, <1>3 DEF FinalizeTimePasses, VideoTypeOK, ProcessInv, FileInv, Starting, Sealing, Gone, Valid
  <2>5. VideoIsEvidence'
    BY <1>a, <1>3, <2>2, NamesKept DEF FinalizeTimePasses, FileInv, ProcessInv, Starting, Gone
  <2>6. QED
    BY <2>1, <2>2, <2>3, <2>4, <2>5 DEF VideoInv
<1>4. CASE Open
  <2>1. VideoTypeOK'
    BY <1>a, <1>b, <1>4 DEF Open, VideoTypeOK, Gone
  <2>2. FedInv'
    BY <1>a, <1>4 DEF Open, FedInv
  <2>3. ProcessInv'
    BY <1>a, <1>4 DEF Open, VideoTypeOK, ProcessInv, Starting, Sealing, Gone
  <2>4. FileInv'
    BY <1>a, <1>4 DEF Open, VideoTypeOK, ProcessInv, FileInv, Starting, Sealing, Gone, Valid
  <2>5. VideoIsEvidence'
    BY <1>a, <1>4, <2>2, NamesKept DEF Open, FileInv, ProcessInv, Starting, Gone
  <2>6. QED
    BY <2>1, <2>2, <2>3, <2>4, <2>5 DEF VideoInv
<1>5. CASE StartWorker
  <2>1. VideoTypeOK'
    BY <1>a, <1>b, <1>5 DEF StartWorker, VideoTypeOK, Gone
  <2>2. FedInv'
    BY <1>a, <1>5 DEF StartWorker, FedInv
  <2>3. ProcessInv'
    BY <1>a, <1>5 DEF StartWorker, VideoTypeOK, ProcessInv, Starting, Sealing, Gone
  <2>4. FileInv'
    BY <1>a, <1>5 DEF StartWorker, VideoTypeOK, ProcessInv, FileInv, Starting, Sealing, Gone, Valid
  <2>5. VideoIsEvidence'
    BY <1>a, <1>5, <2>2, NamesKept DEF StartWorker, FileInv, ProcessInv, Starting, Gone
  <2>6. QED
    BY <2>1, <2>2, <2>3, <2>4, <2>5 DEF VideoInv
<1>6. CASE WorkerSpawns
  <2>1. VideoTypeOK'
    BY <1>a, <1>b, <1>6 DEF WorkerSpawns, VideoTypeOK, Gone
  <2>2. FedInv'
    BY <1>a, <1>6 DEF WorkerSpawns, FedInv
  <2>3. ProcessInv'
    BY <1>a, <1>6 DEF WorkerSpawns, VideoTypeOK, ProcessInv, Starting, Sealing, Gone
  <2>4. FileInv'
    BY <1>a, <1>6 DEF WorkerSpawns, VideoTypeOK, ProcessInv, FileInv, Starting, Sealing, Gone, Valid
  <2>5. VideoIsEvidence'
    BY <1>a, <1>6, <2>2, NamesKept DEF WorkerSpawns, FileInv, ProcessInv, Gone
  <2>6. QED
    BY <2>1, <2>2, <2>3, <2>4, <2>5 DEF VideoInv
<1>7. CASE WorkerWakes
  <2>1. VideoTypeOK'
    BY <1>a, <1>b, <1>7 DEF WorkerWakes, VideoTypeOK, Gone
  <2>2. FedInv'
    BY <1>a, <1>7 DEF WorkerWakes, FedInv
  <2>3. ProcessInv'
    BY <1>a, <1>7 DEF WorkerWakes, VideoTypeOK, ProcessInv, Starting, Sealing, Gone
  <2>4. FileInv'
    BY <1>a, <1>7 DEF WorkerWakes, VideoTypeOK, ProcessInv, FileInv, Starting, Sealing, Gone, Valid
  <2>5. VideoIsEvidence'
    BY <1>a, <1>7, <2>2, NamesKept DEF WorkerWakes, FileInv, ProcessInv, Starting, Gone
  <2>6. QED
    BY <2>1, <2>2, <2>3, <2>4, <2>5 DEF VideoInv
<1>8. CASE WorkerKills
  <2>1. VideoTypeOK'
    BY <1>a, <1>b, <1>8 DEF WorkerKills, VideoTypeOK, Gone
  <2>2. FedInv'
    BY <1>a, <1>8 DEF WorkerKills, FedInv
  <2>3. ProcessInv'
    BY <1>a, <1>8 DEF WorkerKills, VideoTypeOK, ProcessInv, Starting, Sealing, Gone
  <2>4. FileInv'
    BY <1>a, <1>8 DEF WorkerKills, VideoTypeOK, ProcessInv, FileInv, Starting, Sealing, Gone, Valid
  <2>5. VideoIsEvidence'
    BY <1>a, <1>8, <2>2, NamesKept DEF WorkerKills, FileInv, ProcessInv, Starting, Gone
  <2>6. QED
    BY <2>1, <2>2, <2>3, <2>4, <2>5 DEF VideoInv
<1>9. CASE WorkerReaps
  <2>1. VideoTypeOK'
    BY <1>a, <1>b, <1>9 DEF WorkerReaps, VideoTypeOK, Gone
  <2>2. FedInv'
    BY <1>a, <1>9 DEF WorkerReaps, FedInv
  <2>3. ProcessInv'
    BY <1>a, <1>9 DEF WorkerReaps, VideoTypeOK, ProcessInv, Starting, Sealing, Gone
  <2>4. FileInv'
    BY <1>a, <1>9 DEF WorkerReaps, VideoTypeOK, ProcessInv, FileInv, Starting, Sealing, Gone, Valid
  <2>5. VideoIsEvidence'
    BY <1>a, <1>9, <2>2, NamesKept DEF WorkerReaps, FileInv, ProcessInv, Starting, Gone
  <2>6. QED
    BY <2>1, <2>2, <2>3, <2>4, <2>5 DEF VideoInv
<1>10. CASE Claim
  <2>1. VideoTypeOK'
    BY <1>a, <1>b, <1>10 DEF Claim, VideoTypeOK, Gone
  <2>2. FedInv'
    BY <1>a, <1>10 DEF Claim, FedInv
  <2>3. ProcessInv'
    BY <1>a, <1>10 DEF Claim, VideoTypeOK, ProcessInv, Starting, Sealing, Gone
  <2>4. FileInv'
    BY <1>a, <1>10 DEF Claim, VideoTypeOK, ProcessInv, FileInv, Starting, Sealing, Gone, Valid
  <2>5. VideoIsEvidence'
    BY <1>a, <1>10, <2>2, NamesKept DEF Claim, FileInv, ProcessInv, Starting, Gone
  <2>6. QED
    BY <2>1, <2>2, <2>3, <2>4, <2>5 DEF VideoInv
<1>11. CASE GiveUpStart
  <2>1. VideoTypeOK'
    BY <1>a, <1>b, <1>11 DEF GiveUpStart, VideoTypeOK, Gone
  <2>2. FedInv'
    BY <1>a, <1>11 DEF GiveUpStart, FedInv
  <2>3. ProcessInv'
    BY <1>a, <1>11 DEF GiveUpStart, VideoTypeOK, ProcessInv, Starting, Sealing, Gone
  <2>4. FileInv'
    BY <1>a, <1>11 DEF GiveUpStart, VideoTypeOK, ProcessInv, FileInv, Starting, Sealing, Gone, Valid
  <2>5. VideoIsEvidence'
    BY <1>a, <1>11, <2>2, NamesKept DEF GiveUpStart, FileInv, ProcessInv, Starting, Gone
  <2>6. QED
    BY <2>1, <2>2, <2>3, <2>4, <2>5 DEF VideoInv
<1>12. CASE FfmpegExits
  <2>1. VideoTypeOK'
    BY <1>a, <1>b, <1>12 DEF FfmpegExits, VideoTypeOK, Gone
  <2>2. FedInv'
    BY <1>a, <1>12 DEF FfmpegExits, FedInv
  <2>3. ProcessInv'
    BY <1>a, <1>12 DEF FfmpegExits, VideoTypeOK, ProcessInv, Starting, Sealing, Gone
  <2>4. FileInv'
    BY <1>a, <1>12 DEF FfmpegExits, VideoTypeOK, ProcessInv, FileInv, Starting, Sealing, Gone, Valid
  <2>5. VideoIsEvidence'
    BY <1>a, <1>12, <2>2, NamesKept DEF FfmpegExits, FileInv, ProcessInv, Starting, Gone
  <2>6. QED
    BY <2>1, <2>2, <2>3, <2>4, <2>5 DEF VideoInv
<1>13. CASE Freeze
  <2>0. eof' \in BOOLEAN /\ accepting' \in BOOLEAN /\ failed' \in BOOLEAN
        /\ reported' \in BOOLEAN /\ safe' \in BOOLEAN
    BY <1>a, <1>13 DEF Freeze, VideoTypeOK
  <2>1. VideoTypeOK'
    BY <1>a, <1>b, <1>13, <2>0 DEF Freeze, VideoTypeOK, Gone
  <2>2. FedInv'
    BY <1>a, <1>13 DEF Freeze, FedInv
  <2>3. ProcessInv'
    BY <1>a, <1>13 DEF Freeze, VideoTypeOK, ProcessInv, Starting, Sealing, Gone
  <2>4. FileInv'
    BY <1>a, <1>13 DEF Freeze, VideoTypeOK, ProcessInv, FileInv, Starting, Sealing, Gone, Valid
  <2>5. VideoIsEvidence'
    BY <1>a, <1>13, <2>2, NamesKept DEF Freeze, FileInv, ProcessInv, Starting, Gone
  <2>6. QED
    BY <2>1, <2>2, <2>3, <2>4, <2>5 DEF VideoInv
<1>14. CASE CloseStdin
  <2>0. eof' \in BOOLEAN /\ accepting' \in BOOLEAN /\ failed' \in BOOLEAN
        /\ reported' \in BOOLEAN /\ safe' \in BOOLEAN
    BY <1>a, <1>14 DEF CloseStdin, VideoTypeOK
  <2>1. VideoTypeOK'
    BY <1>a, <1>b, <1>14, <2>0 DEF CloseStdin, VideoTypeOK, Gone
  <2>2. FedInv'
    BY <1>a, <1>14 DEF CloseStdin, FedInv
  <2>3. ProcessInv'
    BY <1>a, <1>14 DEF CloseStdin, VideoTypeOK, ProcessInv, Starting, Sealing, Gone
  <2>4. FileInv'
    BY <1>a, <1>14 DEF CloseStdin, VideoTypeOK, ProcessInv, FileInv, Starting, Sealing, Gone, Valid
  <2>5. VideoIsEvidence'
    BY <1>a, <1>14, <2>2, NamesKept DEF CloseStdin, FileInv, ProcessInv, Starting, Gone
  <2>6. QED
    BY <2>1, <2>2, <2>3, <2>4, <2>5 DEF VideoInv
<1>15. CASE CloserFinishes
  <2>1. VideoTypeOK'
    BY <1>a, <1>b, <1>15 DEF CloserFinishes, VideoTypeOK, Gone
  <2>2. FedInv'
    BY <1>a, <1>15 DEF CloserFinishes, FedInv
  <2>3. ProcessInv'
    BY <1>a, <1>15 DEF CloserFinishes, VideoTypeOK, ProcessInv, Starting, Sealing, Gone
  <2>4. FileInv'
    BY <1>a, <1>15 DEF CloserFinishes, VideoTypeOK, ProcessInv, FileInv, Starting, Sealing, Gone, Valid
  <2>5. VideoIsEvidence'
    BY <1>a, <1>15, <2>2, NamesKept DEF CloserFinishes, FileInv, ProcessInv, Starting, Gone
  <2>6. QED
    BY <2>1, <2>2, <2>3, <2>4, <2>5 DEF VideoInv
<1>16. CASE Reap
  <2>0. eof' \in BOOLEAN /\ accepting' \in BOOLEAN /\ failed' \in BOOLEAN
        /\ reported' \in BOOLEAN /\ safe' \in BOOLEAN
    BY <1>a, <1>16 DEF Reap, VideoTypeOK
  <2>1. VideoTypeOK'
    BY <1>a, <1>b, <1>16, <2>0 DEF Reap, VideoTypeOK, Gone
  <2>2. FedInv'
    BY <1>a, <1>16 DEF Reap, FedInv
  <2>3. ProcessInv'
    BY <1>a, <1>16 DEF Reap, VideoTypeOK, ProcessInv, Starting, Sealing, Gone
  <2>4. FileInv'
    BY <1>a, <1>16 DEF Reap, VideoTypeOK, ProcessInv, FileInv, Starting, Sealing, Gone, Valid
  <2>5. VideoIsEvidence'
    BY <1>a, <1>16, <2>2, NamesKept DEF Reap, FileInv, ProcessInv, Starting, Gone
  <2>6. QED
    BY <2>1, <2>2, <2>3, <2>4, <2>5 DEF VideoInv
<1>17. CASE SealOutput
  <2>0. eof' \in BOOLEAN /\ accepting' \in BOOLEAN /\ failed' \in BOOLEAN
        /\ reported' \in BOOLEAN /\ safe' \in BOOLEAN
    BY <1>a, <1>17 DEF SealOutput, VideoTypeOK
  <2>1. VideoTypeOK'
    BY <1>a, <1>b, <1>17, <2>0 DEF SealOutput, VideoTypeOK, Gone
  <2>2. FedInv'
    BY <1>a, <1>17 DEF SealOutput, FedInv
  <2>3. ProcessInv'
    BY <1>a, <1>17 DEF SealOutput, VideoTypeOK, ProcessInv, Starting, Sealing, Gone
  <2>4. FileInv'
    BY <1>a, <1>17 DEF SealOutput, VideoTypeOK, ProcessInv, FileInv, Starting, Sealing, Gone, Valid
  <2>5. VideoIsEvidence'
    BY <1>a, <1>17, <2>2, NamesKept DEF SealOutput, FileInv, ProcessInv, Starting, Gone
  <2>6. QED
    BY <2>1, <2>2, <2>3, <2>4, <2>5 DEF VideoInv
<1>18. CASE SealLog
  <2>0. eof' \in BOOLEAN /\ accepting' \in BOOLEAN /\ failed' \in BOOLEAN
        /\ reported' \in BOOLEAN /\ safe' \in BOOLEAN
    BY <1>a, <1>18 DEF SealLog, VideoTypeOK
  <2>1. VideoTypeOK'
    BY <1>a, <1>b, <1>18, <2>0 DEF SealLog, VideoTypeOK, Gone
  <2>2. FedInv'
    BY <1>a, <1>18 DEF SealLog, FedInv
  <2>3. ProcessInv'
    BY <1>a, <1>18 DEF SealLog, VideoTypeOK, ProcessInv, Starting, Sealing, Gone
  <2>4. FileInv'
    BY <1>a, <1>18 DEF SealLog, VideoTypeOK, ProcessInv, FileInv, Starting, Sealing, Gone, Valid
  <2>5. VideoIsEvidence'
    BY <1>a, <1>18, <2>2, NamesKept DEF SealLog, FileInv, ProcessInv, Starting, Gone
  <2>6. QED
    BY <2>1, <2>2, <2>3, <2>4, <2>5 DEF VideoInv
<1>19. CASE Judge
  <2>0. eof' \in BOOLEAN /\ accepting' \in BOOLEAN /\ failed' \in BOOLEAN
        /\ reported' \in BOOLEAN /\ safe' \in BOOLEAN
    BY <1>a, <1>19 DEF Judge, VideoTypeOK
  <2>1. VideoTypeOK'
    BY <1>a, <1>b, <1>19, <2>0 DEF Judge, VideoTypeOK, Gone
  <2>2. FedInv'
    BY <1>a, <1>19 DEF Judge, FedInv
  <2>3. ProcessInv'
    BY <1>a, <1>19 DEF Judge, VideoTypeOK, ProcessInv, Starting, Sealing, Gone
  <2>4. FileInv'
    BY <1>a, <1>19 DEF Judge, VideoTypeOK, ProcessInv, FileInv, Starting, Sealing, Gone, Valid
  <2>5. VideoIsEvidence'
    BY <1>a, <1>19, <2>2, NamesKept DEF Judge, FileInv, ProcessInv, Starting, Gone
  <2>6. QED
    BY <2>1, <2>2, <2>3, <2>4, <2>5 DEF VideoInv
<1>20. QED
  BY <1>1, <1>2, <1>3, <1>4, <1>5, <1>6, <1>7, <1>8, <1>9, <1>10, <1>11, <1>12, <1>13, <1>14, <1>15, <1>16, <1>17, <1>18, <1>19 DEF VideoQuietNext, VideoWorker

\* The steps that link a name: each is told from what it links to what it promises.
LEMMA VideoEndStep ==
    ASSUME VideoInv, AbandonProcess \/ LinkLog \/ Publish \/ PreserveOutput \/ Recover
    PROVE  VideoInv'
<1> USE DEF startVars, frameVars, diskVars
<1> DEFINE N == {"mp4", "partial", "log"}
<1>a. VideoTypeOK /\ FedInv /\ ProcessInv /\ FileInv /\ VideoIsEvidence
  BY DEF VideoInv
<1>b. Works \/ Mishap => mishaps' \in 0 .. MaxMishaps
  BY <1>a, MishapBound DEF VideoTypeOK
<1>c. /\ names \in [N -> {"none", "inode", "copy"}] /\ DOMAIN names = N
      /\ UNCHANGED <<nextFrame, images, metadata, accepting, fed, outcome, safe, ffmpeg, handoff>>
      /\ failed \in BOOLEAN /\ recovery \in BOOLEAN /\ published \in BOOLEAN
  BY <1>a DEF VideoTypeOK, AbandonProcess, LinkLog, Publish, PreserveOutput, Recover
<1>d. FedInv'
  BY <1>a, <1>c DEF FedInv
<1>1. CASE AbandonProcess
  <2>1. vpc = "reaped" /\ ffmpeg \notin Gone /\ names = [n \in N |-> "none"]
    BY <1>a, <1>c, <1>1 DEF AbandonProcess, FileInv
  <2>2. PICK kept \in SUBSET {"partial", "log"} :
          /\ Works \/ Mishap
          /\ names' = [n \in DOMAIN names |-> IF n \in kept THEN "copy" ELSE names[n]]
          /\ recovery' = (recovery \/ kept # {"partial", "log"})
    BY <1>1 DEF AbandonProcess
  <2>3. /\ failed' = TRUE /\ recovery' \in BOOLEAN
        /\ worker' = "killing" /\ Leave
        /\ UNCHANGED <<handoff, startTime, eof, time, reap, reported, published>>
    BY <1>1, <2>2 DEF AbandonProcess
  <2>4. /\ names' \in [N -> {"none", "copy"}] /\ DOMAIN names' = N
        /\ names'["mp4"] = "none" /\ \A n \in N : names'[n] \in {"none", "copy"}
    BY <1>c, <2>1, <2>2
  <2>5. names'["partial"] # "none" \/ recovery'
    BY <1>c, <2>2
  <2>6. VideoTypeOK'
    BY <1>a, <1>b, <1>c, <2>2, <2>3, <2>4 DEF VideoTypeOK, Leave
  <2>7. ProcessInv'
    BY <1>a, <1>c, <2>1, <2>3 DEF ProcessInv, Leave, Starting, Sealing
  <2>8. FileInv'
    BY <2>3 DEF FileInv, Leave
  <2>9. VideoIsEvidence'
    BY <2>4, <2>5 DEF VideoIsEvidence, PublishedIsWhole, NamedIsImmutable, NotLostInSilence
  <2>10. QED
    BY <1>d, <2>6, <2>7, <2>8, <2>9 DEF VideoInv
<1>2. CASE LinkLog
  <2>1. vpc = "linkLog" /\ names = [n \in N |-> "none"] /\ logFd = "readonly" /\ ffmpeg \in Gone
    BY <1>a, <1>c, <1>2 DEF LinkLog, FileInv, ProcessInv, Sealing
  <2>2. /\ failed' \in BOOLEAN
        /\ UNCHANGED <<startVars, eof, time, reap, reported, videoFd, logFd, recovery, published>>
        /\ Works \/ Mishap
    BY <1>a, <1>2 DEF LinkLog, VideoTypeOK
  <2>3. /\ names' \in [N -> {"none", "inode"}] /\ DOMAIN names' = N
        /\ names'["mp4"] = "none" /\ names'["partial"] = "none"
    BY <1>2, <1>c, <2>1 DEF LinkLog
  <2>4. \/ vpc' = "preserve"
        \/ vpc' = "judge" /\ ~failed' /\ ffmpeg # "bad"
        \/ vpc' = "recovering" /\ names'["log"] = "none"
    BY <1>2, <2>1 DEF LinkLog
  <2>5. ffmpeg # "none"
    BY <1>a, <2>1 DEF ProcessInv, Starting
  <2>6. VideoTypeOK'
    BY <1>a, <1>b, <1>c, <2>2, <2>3, <2>4 DEF VideoTypeOK
  <2>7. ProcessInv'
    BY <1>a, <1>c, <2>1, <2>2, <2>4 DEF ProcessInv, Starting, Sealing
  <2>8. FileInv'
    BY <1>a, <1>c, <2>1, <2>2, <2>3, <2>4, <2>5 DEF FileInv, Gone
  <2>9. VideoIsEvidence'
    BY <1>c, <2>1, <2>2, <2>3, <2>4
    DEF VideoIsEvidence, PublishedIsWhole, NamedIsImmutable, NotLostInSilence, Fd
  <2>10. QED
    BY <1>d, <2>6, <2>7, <2>8, <2>9 DEF VideoInv
<1>3. CASE Publish
  <2>1. /\ vpc = "publish" /\ names["mp4"] = "none" /\ names["partial"] = "none"
        /\ logFd = "readonly" /\ ~failed /\ ffmpeg = "zero" /\ Valid(Len(fed))
    BY <1>a, <1>3 DEF Publish, FileInv
  <2>2. /\ UNCHANGED <<startVars, eof, time, reap, reported, recovery>>
        /\ Works \/ Mishap
    BY <1>3 DEF Publish
  <2>3. CASE /\ names' = [names EXCEPT !["mp4"] = "inode"] /\ published' = TRUE
             /\ Leave /\ UNCHANGED failed
    <3>1. /\ names' \in [N -> {"none", "inode", "copy"}] /\ DOMAIN names' = N
          /\ names'["mp4"] = "inode" /\ names'["partial"] = "none"
      BY <1>c, <2>1, <2>3
    <3>2. VideoTypeOK'
      BY <1>a, <1>b, <1>c, <2>2, <2>3, <3>1 DEF VideoTypeOK, Leave
    <3>3. ProcessInv'
      BY <1>a, <1>c, <2>1, <2>2, <2>3 DEF ProcessInv, Leave, Starting, Sealing
    <3>4. FileInv'
      BY <2>3 DEF FileInv, Leave
    <3>5. PublishedIsWhole'
      BY <1>a, <1>c, <2>1, <2>3 DEF PublishedIsWhole, FedInv, Valid
    <3>6. NamedIsImmutable'
      BY <1>c, <2>1, <2>3, <3>1 DEF NamedIsImmutable, Leave, Fd, Gone
    <3>7. NotLostInSilence'
      BY <3>1 DEF NotLostInSilence
    <3>8. QED
      BY <1>d, <3>2, <3>3, <3>4, <3>5, <3>6, <3>7 DEF VideoInv, VideoIsEvidence
  <2>4. CASE vpc' = "preserve" /\ failed' = TRUE /\ UNCHANGED <<names, published, videoFd, logFd>>
    <3>1. VideoTypeOK'
      BY <1>a, <1>b, <1>c, <2>2, <2>4 DEF VideoTypeOK
    <3>2. ProcessInv'
      BY <1>a, <1>c, <2>1, <2>2, <2>4 DEF ProcessInv, Starting, Sealing, Gone
    <3>3. FileInv'
      BY <1>a, <2>1, <2>4 DEF FileInv
    <3>4. VideoIsEvidence'
      BY <1>a, <1>c, <1>d, <2>1, <2>4, NamesKept
    <3>5. QED
      BY <1>d, <3>1, <3>2, <3>3, <3>4 DEF VideoInv
  <2>5. QED
    BY <1>3, <2>3, <2>4 DEF Publish
<1>4. CASE PreserveOutput
  <2>1. /\ vpc = "preserve" /\ names["mp4"] = "none" /\ names["partial"] = "none"
        /\ ffmpeg \in Gone
    BY <1>a, <1>4 DEF PreserveOutput, FileInv, ProcessInv, Sealing
  <2>2. /\ UNCHANGED <<startVars, eof, time, reap, reported, failed, published>>
        /\ Works \/ Mishap
        /\ Leave
    BY <1>4 DEF PreserveOutput
  <2>3. /\ names' \in [N -> {"none", "inode", "copy"}] /\ DOMAIN names' = N
        /\ names'["mp4"] = "none"
    BY <1>c, <1>4, <2>1 DEF PreserveOutput
  <2>4. recovery' \in BOOLEAN /\ (names'["partial"] # "none" \/ recovery' \/ time = 3)
    <3>1. CASE names' = [names EXCEPT !["partial"] = "inode"] /\ UNCHANGED recovery
      BY <1>c, <3>1
    <3>2. CASE recovery' = (recovery \/ time < 3)
      <4>1. time \in 0 .. 3
        BY <1>a DEF VideoTypeOK
      <4>2. recovery' \in BOOLEAN /\ (time < 3 => recovery' = TRUE)
        BY <3>2
      <4>3. QED
        BY <4>1, <4>2
    <3>3. QED
      BY <1>4, <3>1, <3>2 DEF PreserveOutput
  <2>5. VideoTypeOK'
    BY <1>a, <1>b, <1>c, <2>2, <2>3, <2>4 DEF VideoTypeOK, Leave
  <2>6. ProcessInv'
    BY <1>a, <1>c, <2>1, <2>2 DEF ProcessInv, Leave, Starting, Sealing
  <2>7. FileInv'
    BY <2>2 DEF FileInv, Leave
  <2>8. NamedIsImmutable'
    BY <1>c, <2>1, <2>2, <2>3 DEF NamedIsImmutable, Leave, Fd
  <2>9. QED
    BY <1>d, <2>2, <2>3, <2>4, <2>5, <2>6, <2>7, <2>8
    DEF VideoInv, VideoIsEvidence, PublishedIsWhole, NotLostInSilence
<1>5. CASE Recover
  <2>1. vpc = "recovering" /\ names = [n \in N |-> "none"] /\ ffmpeg \in Gone
    BY <1>a, <1>c, <1>5 DEF Recover, FileInv, ProcessInv, Sealing
  <2>2. PICK kept \in SUBSET {"partial", "log"} :
          /\ Works \/ Mishap
          /\ names' = [n \in DOMAIN names |-> IF n \in kept THEN Rescued(n) ELSE names[n]]
          /\ recovery' = (recovery \/ (kept # {"partial", "log"} /\ time < 3))
    BY <1>5 DEF Recover
  <2>3. UNCHANGED <<startVars, eof, time, reap, reported, failed, published>> /\ Leave
    BY <1>5 DEF Recover
  <2>4. /\ names' \in [N -> {"none", "inode", "copy"}] /\ DOMAIN names' = N
        /\ names'["mp4"] = "none"
    BY <1>c, <2>1, <2>2 DEF Rescued
  <2>5. recovery' \in BOOLEAN
    BY <2>2
  <2>6. names'["partial"] # "none" \/ recovery' \/ time = 3
    <3>1. CASE "partial" \in kept
      BY <1>c, <2>2, <3>1 DEF Rescued
    <3>2. CASE "partial" \notin kept
      <4>1. time \in 0 .. 3
        BY <1>a DEF VideoTypeOK
      <4>2. time < 3 => recovery' = TRUE
        BY <2>2, <3>2
      <4>3. QED
        BY <4>1, <4>2
    <3>3. QED
      BY <3>1, <3>2
  <2>7. VideoTypeOK'
    BY <1>a, <1>b, <1>c, <2>2, <2>3, <2>4, <2>5 DEF VideoTypeOK, Leave
  <2>8. ProcessInv'
    BY <1>a, <1>c, <2>1, <2>3 DEF ProcessInv, Leave, Starting, Sealing
  <2>9. FileInv'
    BY <2>3 DEF FileInv, Leave
  <2>10. NamedIsImmutable'
    BY <1>c, <2>1, <2>3, <2>4 DEF NamedIsImmutable, Leave, Fd
  <2>11. QED
    BY <1>d, <2>3, <2>4, <2>6, <2>7, <2>8, <2>9, <2>10
    DEF VideoInv, VideoIsEvidence, PublishedIsWhole, NotLostInSilence
<1>6. QED
  BY <1>1, <1>2, <1>3, <1>4, <1>5

\* A camera's samples come in, or are dropped.
LEMMA VideoFrameStep ==
    ASSUME VideoInv, NEW t \in Topics, Deliver(t) \/ Lose(t)
    PROVE  VideoInv'
<1> USE DEF startVars, frameVars, diskVars
<1>a. VideoTypeOK /\ FedInv /\ ProcessInv /\ FileInv /\ VideoIsEvidence
  BY DEF VideoInv
<1>1. /\ vpc = "recording" /\ nextFrame[t] < Sent /\ nextFrame[t] \in 0 .. Sent
      /\ nextFrame' \in [Topics -> 0 .. Sent]
      /\ UNCHANGED <<vpc, startVars, ffmpeg, eof, time, reap, outcome, diskVars, recovery, published>>
  <2>1. nextFrame \in [Topics -> 0 .. Sent]
    BY <1>a DEF VideoTypeOK
  <2>2. nextFrame' = [nextFrame EXCEPT ![t] = @ + 1] /\ nextFrame[t] < Sent
    BY DEF Deliver, Lose
  <2>3. nextFrame[t] + 1 \in 0 .. Sent
    BY <2>1, <2>2, VideoAssumption
  <2>4. QED
    BY <2>1, <2>2, <2>3 DEF Deliver, Lose
<1>2. /\ fed' \in Seq((0 .. Sent) \X (0 .. Sent)) /\ FedInv'
      /\ images' \subseteq [frame : 0 .. Sent, ok : BOOLEAN] /\ metadata' \subseteq 0 .. Sent
      /\ failed' \in BOOLEAN /\ mishaps' \in 0 .. MaxMishaps
      /\ accepting' \in BOOLEAN /\ reported' \in BOOLEAN
  <2>1. CASE /\ UNCHANGED <<fed, failed, images, metadata, mishaps>>
             /\ accepting' \in BOOLEAN /\ reported' \in BOOLEAN
    BY <1>a, <2>1 DEF VideoTypeOK, FedInv
  <2>2. CASE t = "image" /\ UNCHANGED <<accepting, reported>>
             /\ \E ok \in BOOLEAN :
                  DrainPairs(images \cup {[frame |-> nextFrame[t], ok |-> ok]}, metadata)
    <3>1. PICK ok \in BOOLEAN :
                  DrainPairs(images \cup {[frame |-> nextFrame[t], ok |-> ok]}, metadata)
      BY <2>2
    <3>2. /\ images \cup {[frame |-> nextFrame[t], ok |-> ok]} \in SUBSET [frame : 0 .. Sent, ok : BOOLEAN]
          /\ metadata \in SUBSET (0 .. Sent)
          /\ accepting \in BOOLEAN /\ reported \in BOOLEAN
      BY <1>a, <1>1 DEF VideoTypeOK
    <3>3. QED
      BY <1>a, <2>2, <3>1, <3>2, DrainEffects
  <2>3. CASE /\ DrainPairs(images, metadata \cup {nextFrame[t]})
             /\ UNCHANGED <<accepting, reported>>
    <3>1. /\ images \in SUBSET [frame : 0 .. Sent, ok : BOOLEAN]
          /\ metadata \cup {nextFrame[t]} \in SUBSET (0 .. Sent)
          /\ accepting \in BOOLEAN /\ reported \in BOOLEAN
      BY <1>a, <1>1 DEF VideoTypeOK
    <3>2. QED
      BY <1>a, <2>3, <3>1, DrainEffects
  <2>4. CASE Lose(t)
    BY <1>a, <2>1, <2>4 DEF Lose, VideoTypeOK
  <2>5. CASE Deliver(t)
    <3>1. CASE UNCHANGED <<images, metadata, fed, failed, accepting, reported, mishaps>>
      BY <1>a, <2>1, <3>1 DEF VideoTypeOK
    <3>2. CASE /\ accepting' = FALSE /\ reported' = TRUE
               /\ UNCHANGED <<images, metadata, fed, failed, mishaps>>
      BY <2>1, <3>2
    <3>3. QED
      BY <2>2, <2>3, <2>5, <3>1, <3>2 DEF Deliver
  <2>6. QED
    BY <2>4, <2>5
<1>3. VideoTypeOK'
  BY <1>a, <1>1, <1>2 DEF VideoTypeOK
<1>4. ProcessInv'
  BY <1>a, <1>1 DEF ProcessInv, Starting, Sealing
<1>5. FileInv'
  BY <1>a, <1>1 DEF FileInv
<1>6. VideoIsEvidence'
  BY <1>a, <1>1, <1>2, NamesKept
<1>7. QED
  BY <1>2, <1>3, <1>4, <1>5, <1>6 DEF VideoInv

LEMMA VideoInvStep ==
    ASSUME VideoInv, VideoNext
    PROVE  VideoInv'
<1>1. CASE VideoQuietNext
  BY <1>1, VideoQuietStep
<1>2. CASE AbandonProcess \/ LinkLog \/ Publish \/ PreserveOutput \/ Recover
  BY <1>2, VideoEndStep
<1>3. CASE \E t \in Topics : Deliver(t) \/ Lose(t)
  BY <1>3, VideoFrameStep
<1>4. QED
  BY <1>1, <1>2, <1>3 DEF VideoNext, VideoThread, VideoClock, VideoQuietNext

-----------------------------------------------------------------------------
(* The bag's types. *)

\* What the type invariant of the bag needs to be inductive.
BagInv ==
    /\ BagTypeOK
    /\ bag \in [VfsTopics -> Seq(Samples)]
    /\ IsFiniteSet(faults)

\* A sample within the run is a sample.
LEMMA AtIsSample ==
    ASSUME NEW t \in 0 .. Frames + 1, NEW id \in Nat, NEW ref \in Nat
    PROVE  At(t, id, ref) \in Samples
<1>1. QED
  BY DEF At, Samples

\* Whatever the ruleset, what is published at a stamp are samples.
LEMMA ScheduleSamples ==
    ASSUME ruleset \in Rulesets, NEW topic \in VfsTopics, NEW k \in 0 .. Frames + 1
    PROVE  Schedule(topic, k) \in Seq(Samples)
<1> DEFINE result == Schedule(topic, k)
<1>0. Frames \in Nat /\ Frames > 0 /\ k \in Nat
  BY BagAssumption
<1>a. \A t \in 0 .. Frames + 1, id \in Nat, ref \in Nat : At(t, id, ref) \in Samples
  BY AtIsSample
<1>b. <<>> \in Seq(Samples)
  OBVIOUS
<1>c. /\ \A a \in Samples : <<a>> \in Seq(Samples)
      /\ \A a, b \in Samples : <<a, b>> \in Seq(Samples)
      /\ \A a, b, c \in Samples : <<a, b, c>> \in Seq(Samples)
  OBVIOUS
<1>d. 0 \in 0 .. Frames + 1 /\ Frames \in 0 .. Frames + 1 /\ k \in 0 .. Frames + 1
  BY <1>0
<1>e. \A n \in 0 .. 4 : At(0, n, 0) \in Samples /\ At(k, n, 0) \in Samples /\ At(Frames, n, 0) \in Samples
  BY <1>a, <1>d
<1>1. CASE topic = "artifact_status"
  <2>1. result = IF k = 0 THEN <<At(0, 0, 0), At(0, 1, 0)>> ELSE <<>>
    BY <1>1 DEF Schedule
  <2>2. QED
    BY <1>b, <1>c, <1>e, <2>1
<1>2. CASE topic = "clock"
  <2>1. result = IF k <= Frames THEN <<At(k, 0, 0)>> ELSE <<>>
    BY <1>2 DEF Schedule
  <2>2. QED
    BY <1>b, <1>c, <1>e, <2>1
<1>3. CASE topic = "run_state"
  <2>1. result = IF k = 0 THEN <<At(0, 1, 0), At(0, 2, 0), At(0, 3, 0)>>
                 ELSE IF k = Frames + 1 THEN <<At(Frames, 4, 0)>> ELSE <<>>
    BY <1>3 DEF Schedule
  <2>2. QED
    BY <1>b, <1>c, <1>e, <2>1
<1>4. CASE topic \in {"onboard", "observer", "ground_truth", "range", "attempt_status"}
  <2>1. result = IF k \in 1 .. Frames THEN <<At(k, k - 1, 0)>> ELSE <<>>
    BY <1>4 DEF Schedule
  <2>2. k \in 1 .. Frames => At(k, k - 1, 0) \in Samples
    BY <1>0, <1>a, <1>d
  <2>3. QED
    BY <1>b, <1>c, <2>1, <2>2
<1>5. CASE topic = "payload_state"
  <2>1. result = IF k \in 1 .. Frames THEN <<At(k, 2, 0), At(k, 3, 0), At(k, 4, 0)>> ELSE <<>>
    BY <1>5 DEF Schedule
  <2>2. QED
    BY <1>b, <1>c, <1>e, <2>1
<1>6. CASE topic = "vehicle_status"
  <2>1. result = IF k \in 1 .. Frames /\ k % 2 = 1 THEN <<At(k, k \div 2, 0)>> ELSE <<>>
    BY <1>6 DEF Schedule
  <2>2. k \div 2 \in Nat
    BY <1>0
  <2>3. At(k, k \div 2, 0) \in Samples
    BY <1>a, <1>d, <2>2
  <2>4. QED
    BY <1>b, <1>c, <2>1, <2>3
<1>7. CASE topic = "scenario_events"
  <2>1. result = IF k = 0 /\ ruleset = "descent_v1" THEN <<At(0, 0, 0)>> ELSE <<>>
    BY <1>7 DEF Schedule
  <2>2. QED
    BY <1>b, <1>c, <1>e, <2>1
<1>8. CASE topic = "score_events"
  <2>1. result = IF k = Frames + 1 THEN [i \in 1 .. ScoreCount |-> At(Frames, i - 1, i)] ELSE <<>>
    BY <1>8 DEF Schedule
  <2>2. ScoreCount \in Nat
    BY DEF ScoreCount, Rulesets
  <2>3. \A i \in 1 .. ScoreCount : At(Frames, i - 1, i) \in Samples
    BY <1>a, <1>d, <2>2
  <2>4. [i \in 1 .. ScoreCount |-> At(Frames, i - 1, i)] \in [1 .. ScoreCount -> Samples]
    BY <2>3
  <2>5. [i \in 1 .. ScoreCount |-> At(Frames, i - 1, i)] \in Seq(Samples)
    BY <2>2, <2>4, SeqDef
  <2>6. QED
    BY <1>b, <2>1, <2>5
<1>9. CASE topic \in {"mission_events", "payload_events"}
  <2>1. result = IF k \in {1, 2} THEN <<At(k, k - 1, k)>> ELSE <<>>
    BY <1>9 DEF Schedule
  <2>2. k \in {1, 2} => At(k, k - 1, k) \in Samples
    BY <1>0, <1>a, <1>d
  <2>3. QED
    BY <1>b, <1>c, <2>1, <2>2
<1>10. CASE topic = "judge_decisions"
  <2>1. result = IF k = 2 THEN <<At(2, 0, 0)>>
                 ELSE IF k = 3 THEN <<At(2, 0, 0), At(3, 1, 1)>> ELSE <<>>
    BY <1>10 DEF Schedule
  <2>2. k \in {2, 3} => At(2, 0, 0) \in Samples /\ At(k, 1, 1) \in Samples
    BY <1>0, <1>a, <1>d
  <2>3. QED
    BY <1>b, <1>c, <2>1, <2>2
<1>11. QED
  BY <1>1, <1>2, <1>3, <1>4, <1>5, <1>6, <1>7, <1>8, <1>9, <1>10
  DEF VfsTopics, CompetitionTopics, BaseTopics

\* Damage leaves samples.
LEMMA DamagedSamples ==
    ASSUME NEW samples \in Seq(Samples), NEW i \in DOMAIN samples, NEW kind \in Damage
    PROVE  Damaged(samples, i, kind) \in Seq(Samples)
<1>1. i \in 1 .. Len(samples) /\ Len(samples) \in Nat
  OBVIOUS
<1>2. CASE kind = "lost"
  <2>1. SubSeq(samples, 1, i - 1) \in Seq(Samples) /\ SubSeq(samples, i + 1, Len(samples)) \in Seq(Samples)
    BY <1>1, SubSeqProperties
  <2>2. QED
    BY <1>2, <2>1, ConcatProperties DEF Damaged
<1>3. CASE kind # "lost"
  <2>1. samples[i] \in Samples
    BY <1>1
  <2>2. [samples[i] EXCEPT !.whole = (kind # "damaged")] \in Samples
    BY <2>1 DEF Samples
  <2>3. QED
    BY <1>1, <1>3, <2>2, ExceptSeq DEF Damaged
<1>4. QED
  BY <1>2, <1>3

LEMMA BagInvInit ==
    BagInit => BagInv
<1> SUFFICES ASSUME BagInit PROVE BagInv
  OBVIOUS
<1>1. bag \in [VfsTopics -> Seq(Samples)] /\ \A topic \in VfsTopics : DOMAIN bag[topic] = {}
  BY DEF BagInit
<1>2. IsFiniteSet(faults) /\ Cardinality(faults) = 0
  BY FS_EmptySet DEF BagInit
<1>3. 0 \in 0 .. Frames + 2 /\ 0 <= MaxFaults
  BY BagAssumption
<1>4. /\ DOMAIN bag = VfsTopics
      /\ \A topic \in VfsTopics : \A i \in DOMAIN bag[topic] : bag[topic][i] \in Samples
  BY <1>1
<1>5. /\ faults \subseteq [topic : VfsTopics, id : Nat, kind : Damage]
      /\ Cardinality(faults) <= MaxFaults
  BY <1>2, <1>3 DEF BagInit
<1>6. /\ frame = 0 /\ 0 \in 0 .. Frames + 2 /\ signals = 0 /\ clockFirst = FALSE
      /\ verdict = "none" /\ bpc = "new" /\ bagProcess = "none" /\ ruleset \in Rulesets
  BY <1>3 DEF BagInit
<1>7. BagTypeOK
  <2>1. frame \in 0 .. Frames + 2 /\ signals \in 0 .. 3
    BY <1>6
  <2>2. clockFirst \in BOOLEAN
    BY <1>6
  <2>3. /\ ruleset \in Rulesets /\ bpc \in {"new", "recording", "stopping", "stopped", "done"}
        /\ bagProcess \in {"none", "alive", "clean", "killed"}
        /\ verdict \in {"none", "VALID", "INVALID"}
    BY <1>6
  <2>4. QED
    BY <1>4, <1>5, <2>1, <2>2, <2>3 DEF BagTypeOK
<1>8. QED
  BY <1>1, <1>2, <1>7 DEF BagInv

LEMMA BagInvStep ==
    ASSUME BagInv, BagNext
    PROVE  BagInv'
<1>a. BagTypeOK /\ bag \in [VfsTopics -> Seq(Samples)] /\ IsFiniteSet(faults)
  BY DEF BagInv
<1>1. CASE PublishFrame
  <2>1. /\ frame \in 0 .. Frames + 1 /\ frame' \in 0 .. Frames + 2
        /\ UNCHANGED <<ruleset, bpc, bagProcess, signals, verdict>>
    BY <1>a, <1>1, BagAssumption DEF PublishFrame, BagTypeOK
  <2> DEFINE recorded(topic) ==
               IF bagProcess = "alive" /\ topic \in BagTopics THEN Schedule(topic, frame) ELSE <<>>
  <2>2. \A topic \in VfsTopics : recorded(topic) \in Seq(Samples)
    <3>1. <<>> \in Seq(Samples)
      OBVIOUS
    <3>2. \A topic \in VfsTopics : Schedule(topic, frame) \in Seq(Samples)
      BY <1>a, <2>1, ScheduleSamples DEF BagTypeOK
    <3>3. QED
      BY <3>1, <3>2
  <2>3. \/ /\ bag' = [topic \in VfsTopics |-> bag[topic] \o recorded(topic)]
           /\ UNCHANGED <<faults, clockFirst>>
        \/ \E topic \in BagTopics, kind \in Damage :
             \E i \in DOMAIN recorded(topic) :
               /\ Cardinality(faults) < MaxFaults
               /\ faults' = faults \cup
                    {[topic |-> topic, id |-> recorded(topic)[i].id, kind |-> kind]}
               /\ clockFirst' = (clockFirst \/ kind = "early")
               /\ bag' = [other \in VfsTopics |->
                            bag[other] \o IF other = topic
                                          THEN Damaged(recorded(other), i, kind)
                                          ELSE recorded(other)]
    BY <1>1 DEF PublishFrame
  <2>4. BagTopics \subseteq VfsTopics
    BY <1>a DEF BagTopics, BagTypeOK, Rulesets, VfsTopics, CompetitionTopics
  <2> HIDE DEF recorded
  <2>5. /\ bag' \in [VfsTopics -> Seq(Samples)] /\ clockFirst' \in BOOLEAN
        /\ faults' \subseteq [topic : VfsTopics, id : Nat, kind : Damage]
        /\ IsFiniteSet(faults') /\ Cardinality(faults') <= MaxFaults
    <3>1. CASE /\ bag' = [topic \in VfsTopics |-> bag[topic] \o recorded(topic)]
               /\ UNCHANGED <<faults, clockFirst>>
      <4>1. \A topic \in VfsTopics : bag[topic] \o recorded(topic) \in Seq(Samples)
        BY <1>a, <2>2, ConcatProperties
      <4>2. QED
        BY <1>a, <3>1, <4>1 DEF BagTypeOK
    <3>2. CASE \E topic \in BagTopics, kind \in Damage :
                 \E i \in DOMAIN recorded(topic) :
                   /\ Cardinality(faults) < MaxFaults
                   /\ faults' = faults \cup
                        {[topic |-> topic, id |-> recorded(topic)[i].id, kind |-> kind]}
                   /\ clockFirst' = (clockFirst \/ kind = "early")
                   /\ bag' = [other \in VfsTopics |->
                                bag[other] \o IF other = topic
                                              THEN Damaged(recorded(other), i, kind)
                                              ELSE recorded(other)]
      <4>0. PICK topic \in BagTopics, kind \in Damage :
                 \E i \in DOMAIN recorded(topic) :
                   /\ Cardinality(faults) < MaxFaults
                   /\ faults' = faults \cup
                        {[topic |-> topic, id |-> recorded(topic)[i].id, kind |-> kind]}
                   /\ clockFirst' = (clockFirst \/ kind = "early")
                   /\ bag' = [other \in VfsTopics |->
                                bag[other] \o IF other = topic
                                              THEN Damaged(recorded(other), i, kind)
                                              ELSE recorded(other)]
        BY <3>2
      <4>1. PICK i \in DOMAIN recorded(topic) :
              /\ Cardinality(faults) < MaxFaults
              /\ faults' = faults \cup
                   {[topic |-> topic, id |-> recorded(topic)[i].id, kind |-> kind]}
              /\ clockFirst' = (clockFirst \/ kind = "early")
              /\ bag' = [other \in VfsTopics |->
                           bag[other] \o IF other = topic
                                         THEN Damaged(recorded(other), i, kind)
                                         ELSE recorded(other)]
        BY <4>0
      <4> DEFINE f == [topic |-> topic, id |-> recorded(topic)[i].id, kind |-> kind]
      <4>2. topic \in VfsTopics /\ recorded(topic) \in Seq(Samples)
        BY <2>2, <2>4
      <4>3. recorded(topic)[i] \in Samples
        BY <4>2
      <4>4. f \in [topic : VfsTopics, id : Nat, kind : Damage]
        BY <4>2, <4>3 DEF Samples
      <4>5. Damaged(recorded(topic), i, kind) \in Seq(Samples)
        BY <4>2, DamagedSamples
      <4>6. \A other \in VfsTopics :
              bag[other] \o (IF other = topic THEN Damaged(recorded(other), i, kind)
                             ELSE recorded(other)) \in Seq(Samples)
        <5> SUFFICES ASSUME NEW other \in VfsTopics
                     PROVE  bag[other] \o (IF other = topic THEN Damaged(recorded(other), i, kind)
                                           ELSE recorded(other)) \in Seq(Samples)
          OBVIOUS
        <5>1. bag[other] \in Seq(Samples)
          BY <1>a
        <5>2. (IF other = topic THEN Damaged(recorded(other), i, kind) ELSE recorded(other))
                \in Seq(Samples)
          BY <2>2, <4>5
        <5>3. QED
          BY <5>1, <5>2, ConcatProperties
      <4>7. bag' \in [VfsTopics -> Seq(Samples)]
        BY <4>1, <4>6
      <4>8. clockFirst' \in BOOLEAN
        BY <4>1
      <4>9. /\ IsFiniteSet(faults \cup {f})
            /\ Cardinality(faults \cup {f}) \in {Cardinality(faults), Cardinality(faults) + 1}
            /\ Cardinality(faults) \in Nat
        BY <1>a, FS_AddElement, FS_CardinalityType
      <4>10. faults' = faults \cup {f}
        BY <4>1
      <4>11. IsFiniteSet(faults') /\ Cardinality(faults') <= MaxFaults
        BY <4>1, <4>9, <4>10, BagAssumption
      <4>12. faults' \subseteq [topic : VfsTopics, id : Nat, kind : Damage]
        BY <1>a, <4>4, <4>10 DEF BagTypeOK
      <4>13. QED
        BY <4>7, <4>8, <4>11, <4>12
    <3>3. QED
      BY <2>3, <3>1, <3>2
  <2>6. \A topic \in VfsTopics : \A i \in DOMAIN bag'[topic] : bag'[topic][i] \in Samples
    BY <2>5
  <2>7. QED
    BY <1>a, <2>1, <2>5, <2>6 DEF BagInv, BagTypeOK
<1>2. CASE StartBag \/ FinalizeBag \/ SignalBag \/ BagProcessExits \/ BagFinalized \/ ValidateBag
  <2>1. UNCHANGED <<ruleset, frame, bag, clockFirst, faults>>
    BY <1>2 DEF StartBag, FinalizeBag, SignalBag, BagProcessExits, BagFinalized, ValidateBag
  <2>2. /\ bpc' \in {"new", "recording", "stopping", "stopped", "done"}
        /\ bagProcess' \in {"none", "alive", "clean", "killed"}
        /\ signals' \in 0 .. 3 /\ verdict' \in {"none", "VALID", "INVALID"}
    BY <1>a, <1>2
    DEF BagTypeOK, StartBag, FinalizeBag, SignalBag, BagProcessExits, BagFinalized, ValidateBag
  <2>3. QED
    BY <1>a, <2>1, <2>2 DEF BagInv, BagTypeOK
<1>3. QED
  BY <1>1, <1>2 DEF BagNext

LEMMA BagInvStutter ==
    ASSUME BagInv, UNCHANGED bagVars
    PROVE  BagInv'
<1>1. QED
  BY DEF BagInv, BagTypeOK, bagVars

-----------------------------------------------------------------------------
(* The bag as evidence. *)

\* Of the frames' own samples, how many are out when n stamps are.
Grid(n) == IF n = 0 THEN 0 ELSE IF n = Frames + 2 THEN Frames ELSE n - 1

\* A topic of which nothing was lost or damaged, after n stamps.
Whole(topic, n) ==
    CASE topic = "artifact_status" -> IF n = 0 THEN <<>> ELSE <<At(0, 0, 0), At(0, 1, 0)>>
      [] topic = "clock" ->
           [i \in 1 .. (IF n = Frames + 2 THEN Frames + 1 ELSE n) |-> At(i - 1, 0, 0)]
      [] topic = "run_state" ->
           IF n = 0 THEN <<>>
           ELSE IF n = Frames + 2 THEN <<At(0, 1, 0), At(0, 2, 0), At(0, 3, 0), At(Frames, 4, 0)>>
           ELSE <<At(0, 1, 0), At(0, 2, 0), At(0, 3, 0)>>
      [] topic \in {"onboard", "observer", "ground_truth", "range", "attempt_status"} ->
           [i \in 1 .. Grid(n) |-> At(i, i - 1, 0)]
      [] topic = "payload_state" ->
           [i \in 1 .. 3 * Grid(n) |-> At((i + 2) \div 3, 2 + ((i - 1) % 3), 0)]
      [] topic = "vehicle_status" ->
           [i \in 1 .. (Grid(n) + 1) \div 2 |-> At(2 * i - 1, i - 1, 0)]
      [] topic = "scenario_events" ->
           IF n # 0 /\ ruleset = "descent_v1" THEN <<At(0, 0, 0)>> ELSE <<>>
      [] topic = "score_events" ->
           IF n = Frames + 2 THEN [i \in 1 .. ScoreCount |-> At(Frames, i - 1, i)] ELSE <<>>
      [] topic \in {"mission_events", "payload_events"} ->
           IF n <= 1 THEN <<>> ELSE IF n = 2 THEN <<At(1, 0, 1)>> ELSE <<At(1, 0, 1), At(2, 1, 2)>>
      [] topic = "judge_decisions" ->
           IF n <= 2 THEN <<>> ELSE IF n = 3 THEN <<At(2, 0, 0)>>
           ELSE <<At(2, 0, 0), At(2, 0, 0), At(3, 1, 1)>>

\* As long as the recorder lives and nothing happened to a sample, the bag is all that was
\* published.
IntactInv ==
    faults = {} /\ bagProcess # "killed" =>
      /\ ~clockFirst
      /\ \A topic \in VfsTopics :
           bag[topic] = IF topic \in BagTopics THEN Whole(topic, frame) ELSE <<>>

SameSample(a, b) == a.t = b.t /\ a.id = b.id

\* Nothing is in the bag that was not published.
OnlyScheduled ==
    \A topic \in VfsTopics : \A j \in DOMAIN bag[topic] :
      \E k \in 0 .. frame - 1 : \E i \in DOMAIN Schedule(topic, k) :
        SameSample(bag[topic][j], Schedule(topic, k)[i])

\* A sample that was lost is missing from then on: no other has its stamp and its number.
IsMissing(f) ==
    \E k \in 0 .. frame - 1 : \E i \in DOMAIN Schedule(f.topic, k) :
      /\ Schedule(f.topic, k)[i].id = f.id
      /\ \A j \in DOMAIN bag[f.topic] : ~ SameSample(bag[f.topic][j], Schedule(f.topic, k)[i])

\* What happened to a sample can be seen in the bag; a decision is sent twice.
FaultsInv ==
    \A f \in faults :
      /\ f.topic \in BagTopics
      /\ f.kind = "lost" /\ f.topic # "judge_decisions" => IsMissing(f)
      /\ f.kind = "damaged" => \E j \in DOMAIN bag[f.topic] : ~ bag[f.topic][j].whole
      /\ f.kind = "early" => clockFirst

\* The recorder lives from start() on, and writes its metadata only after the last frame.
PhaseInv ==
    /\ bagProcess = "none" <=> bpc = "new"
    /\ bpc = "new" => faults = {}
    /\ bagProcess = "clean" => bpc \in {"stopping", "stopped", "done"}
    /\ verdict # "none" => bpc = "done"

BagEvidenceInv ==
    /\ BagInv /\ IntactInv /\ OnlyScheduled /\ FaultsInv /\ PhaseInv /\ BagIsEvidence

-----------------------------------------------------------------------------
(* What is published, topic by topic. *)

GridTopics == {"onboard", "observer", "ground_truth", "range", "attempt_status"}
EventTopics == {"mission_events", "payload_events"}

\* The schedule without its case distinction.
LEMMA ScheduleIs ==
    ASSUME NEW topic \in VfsTopics, NEW k \in 0 .. Frames + 1
    PROVE  /\ topic = "artifact_status" =>
                Schedule(topic, k) = IF k = 0 THEN <<At(0, 0, 0), At(0, 1, 0)>> ELSE <<>>
           /\ topic = "clock" =>
                Schedule(topic, k) = IF k <= Frames THEN <<At(k, 0, 0)>> ELSE <<>>
           /\ topic = "run_state" =>
                Schedule(topic, k) =
                  IF k = 0 THEN <<At(0, 1, 0), At(0, 2, 0), At(0, 3, 0)>>
                  ELSE IF k = Frames + 1 THEN <<At(Frames, 4, 0)>> ELSE <<>>
           /\ topic \in GridTopics =>
                Schedule(topic, k) = IF k \in 1 .. Frames THEN <<At(k, k - 1, 0)>> ELSE <<>>
           /\ topic = "payload_state" =>
                Schedule(topic, k) =
                  IF k \in 1 .. Frames THEN <<At(k, 2, 0), At(k, 3, 0), At(k, 4, 0)>> ELSE <<>>
           /\ topic = "vehicle_status" =>
                Schedule(topic, k) =
                  IF k \in 1 .. Frames /\ k % 2 = 1 THEN <<At(k, k \div 2, 0)>> ELSE <<>>
           /\ topic = "scenario_events" =>
                Schedule(topic, k) =
                  IF k = 0 /\ ruleset = "descent_v1" THEN <<At(0, 0, 0)>> ELSE <<>>
           /\ topic = "score_events" =>
                Schedule(topic, k) =
                  IF k = Frames + 1 THEN [i \in 1 .. ScoreCount |-> At(Frames, i - 1, i)] ELSE <<>>
           /\ topic \in EventTopics =>
                Schedule(topic, k) = IF k \in {1, 2} THEN <<At(k, k - 1, k)>> ELSE <<>>
           /\ topic = "judge_decisions" =>
                Schedule(topic, k) =
                  IF k = 2 THEN <<At(2, 0, 0)>>
                  ELSE IF k = 3 THEN <<At(2, 0, 0), At(3, 1, 1)>> ELSE <<>>
<1>1. topic = "artifact_status" =>
        Schedule(topic, k) = IF k = 0 THEN <<At(0, 0, 0), At(0, 1, 0)>> ELSE <<>>
  BY DEF Schedule
<1>2. topic = "clock" => Schedule(topic, k) = IF k <= Frames THEN <<At(k, 0, 0)>> ELSE <<>>
  BY DEF Schedule
<1>3. topic = "run_state" =>
        Schedule(topic, k) =
          IF k = 0 THEN <<At(0, 1, 0), At(0, 2, 0), At(0, 3, 0)>>
          ELSE IF k = Frames + 1 THEN <<At(Frames, 4, 0)>> ELSE <<>>
  BY DEF Schedule
<1>4. topic \in GridTopics =>
        Schedule(topic, k) = IF k \in 1 .. Frames THEN <<At(k, k - 1, 0)>> ELSE <<>>
  BY DEF Schedule, GridTopics
<1>5. topic = "payload_state" =>
        Schedule(topic, k) =
          IF k \in 1 .. Frames THEN <<At(k, 2, 0), At(k, 3, 0), At(k, 4, 0)>> ELSE <<>>
  BY DEF Schedule
<1>6. topic = "vehicle_status" =>
        Schedule(topic, k) =
          IF k \in 1 .. Frames /\ k % 2 = 1 THEN <<At(k, k \div 2, 0)>> ELSE <<>>
  BY DEF Schedule
<1>7. topic = "scenario_events" =>
        Schedule(topic, k) = IF k = 0 /\ ruleset = "descent_v1" THEN <<At(0, 0, 0)>> ELSE <<>>
  BY DEF Schedule
<1>8. topic = "score_events" =>
        Schedule(topic, k) =
          IF k = Frames + 1 THEN [i \in 1 .. ScoreCount |-> At(Frames, i - 1, i)] ELSE <<>>
  BY DEF Schedule
<1>9. topic \in EventTopics =>
        Schedule(topic, k) = IF k \in {1, 2} THEN <<At(k, k - 1, k)>> ELSE <<>>
  BY DEF Schedule, EventTopics
<1>10. topic = "judge_decisions" =>
         Schedule(topic, k) =
           IF k = 2 THEN <<At(2, 0, 0)>>
           ELSE IF k = 3 THEN <<At(2, 0, 0), At(3, 1, 1)>> ELSE <<>>
  BY DEF Schedule
<1>11. QED
  BY <1>1, <1>2, <1>3, <1>4, <1>5, <1>6, <1>7, <1>8, <1>9, <1>10

\* The topics, group by group (RosbagValidator.__init__).
LEMMA TopicIs ==
    ASSUME NEW topic \in VfsTopics
    PROVE  \/ topic \in GridTopics \/ topic \in EventTopics
           \/ topic \in {"artifact_status", "clock", "run_state", "payload_state",
                         "vehicle_status", "scenario_events", "score_events", "judge_decisions"}
BY DEF VfsTopics, CompetitionTopics, BaseTopics, GridTopics, EventTopics

\* No two samples of a topic have the same stamp and number, but for the decision that is
\* sent again.
LEMMA SamplesApart ==
    ASSUME ruleset \in Rulesets, NEW topic \in VfsTopics, topic # "judge_decisions",
           NEW k \in 0 .. Frames + 1, NEW l \in 0 .. Frames + 1,
           NEW i \in DOMAIN Schedule(topic, k), NEW j \in DOMAIN Schedule(topic, l),
           SameSample(Schedule(topic, k)[i], Schedule(topic, l)[j])
    PROVE  k = l /\ i = j
<1>0. Frames \in Nat /\ Frames > 0 /\ k \in Nat /\ l \in Nat
  BY BagAssumption
<1> USE DEF SameSample, At
<1>1. CASE topic = "artifact_status"
  BY <1>0, <1>1, ScheduleIs
<1>2. CASE topic = "clock"
  BY <1>0, <1>2, ScheduleIs
<1>3. CASE topic = "run_state"
  BY <1>0, <1>3, ScheduleIs
<1>4. CASE topic \in GridTopics
  BY <1>0, <1>4, ScheduleIs
<1>5. CASE topic = "payload_state"
  <2>1. \A n \in 0 .. Frames + 1 :
          Schedule(topic, n) =
            IF n \in 1 .. Frames THEN <<At(n, 2, 0), At(n, 3, 0), At(n, 4, 0)>> ELSE <<>>
    BY <1>5, ScheduleIs
  <2>2. k \in 1 .. Frames /\ l \in 1 .. Frames /\ i \in 1 .. 3 /\ j \in 1 .. 3
    BY <2>1
  <2>3. Schedule(topic, k)[i] = At(k, i + 1, 0) /\ Schedule(topic, l)[j] = At(l, j + 1, 0)
    BY <2>1, <2>2
  <2>4. QED
    BY <2>2, <2>3
<1>6. CASE topic = "vehicle_status"
  BY <1>0, <1>6, ScheduleIs
<1>7. CASE topic = "scenario_events"
  BY <1>0, <1>7, ScheduleIs
<1>8. CASE topic = "score_events"
  <2>1. ScoreCount \in Nat
    BY DEF ScoreCount, Rulesets
  <2>2. \A m \in 0 .. Frames + 1 :
          Schedule(topic, m) =
            IF m = Frames + 1 THEN [n \in 1 .. ScoreCount |-> At(Frames, n - 1, n)] ELSE <<>>
    BY <1>8, ScheduleIs
  <2>3. k = Frames + 1 /\ l = Frames + 1
    BY <2>2
  <2> DEFINE scores == [n \in 1 .. ScoreCount |-> At(Frames, n - 1, n)]
  <2>a. Schedule(topic, k) = scores /\ Schedule(topic, l) = scores
    BY <2>2, <2>3
  <2>b. i \in 1 .. ScoreCount /\ j \in 1 .. ScoreCount
    BY <2>a
  <2>4. scores[i] = At(Frames, i - 1, i) /\ scores[j] = At(Frames, j - 1, j)
    BY <2>b
  <2>5. QED
    BY <2>1, <2>3, <2>a, <2>b, <2>4
<1>9. CASE topic \in EventTopics
  BY <1>0, <1>9, ScheduleIs
<1>10. QED
  BY <1>1, <1>2, <1>3, <1>4, <1>5, <1>6, <1>7, <1>8, <1>9, TopicIs

\* A topic that is whole, without its case distinction.
LEMMA WholeIs ==
    ASSUME NEW topic \in VfsTopics, NEW n \in 0 .. Frames + 2
    PROVE  /\ topic = "artifact_status" =>
                Whole(topic, n) = IF n = 0 THEN <<>> ELSE <<At(0, 0, 0), At(0, 1, 0)>>
           /\ topic = "clock" =>
                Whole(topic, n) =
                  [i \in 1 .. (IF n = Frames + 2 THEN Frames + 1 ELSE n) |-> At(i - 1, 0, 0)]
           /\ topic = "run_state" =>
                Whole(topic, n) =
                  IF n = 0 THEN <<>>
                  ELSE IF n = Frames + 2
                  THEN <<At(0, 1, 0), At(0, 2, 0), At(0, 3, 0), At(Frames, 4, 0)>>
                  ELSE <<At(0, 1, 0), At(0, 2, 0), At(0, 3, 0)>>
           /\ topic \in GridTopics => Whole(topic, n) = [i \in 1 .. Grid(n) |-> At(i, i - 1, 0)]
           /\ topic = "payload_state" =>
                Whole(topic, n) =
                  [i \in 1 .. 3 * Grid(n) |-> At((i + 2) \div 3, 2 + ((i - 1) % 3), 0)]
           /\ topic = "vehicle_status" =>
                Whole(topic, n) = [i \in 1 .. (Grid(n) + 1) \div 2 |-> At(2 * i - 1, i - 1, 0)]
           /\ topic = "scenario_events" =>
                Whole(topic, n) =
                  IF n # 0 /\ ruleset = "descent_v1" THEN <<At(0, 0, 0)>> ELSE <<>>
           /\ topic = "score_events" =>
                Whole(topic, n) =
                  IF n = Frames + 2 THEN [i \in 1 .. ScoreCount |-> At(Frames, i - 1, i)] ELSE <<>>
           /\ topic \in EventTopics =>
                Whole(topic, n) =
                  IF n <= 1 THEN <<>> ELSE IF n = 2 THEN <<At(1, 0, 1)>>
                  ELSE <<At(1, 0, 1), At(2, 1, 2)>>
           /\ topic = "judge_decisions" =>
                Whole(topic, n) =
                  IF n <= 2 THEN <<>> ELSE IF n = 3 THEN <<At(2, 0, 0)>>
                  ELSE <<At(2, 0, 0), At(2, 0, 0), At(3, 1, 1)>>
<1>1. topic = "artifact_status" =>
        Whole(topic, n) = IF n = 0 THEN <<>> ELSE <<At(0, 0, 0), At(0, 1, 0)>>
  BY DEF Whole
<1>2. topic = "clock" =>
        Whole(topic, n) =
          [i \in 1 .. (IF n = Frames + 2 THEN Frames + 1 ELSE n) |-> At(i - 1, 0, 0)]
  BY DEF Whole
<1>3. topic = "run_state" =>
        Whole(topic, n) =
          IF n = 0 THEN <<>>
          ELSE IF n = Frames + 2
          THEN <<At(0, 1, 0), At(0, 2, 0), At(0, 3, 0), At(Frames, 4, 0)>>
          ELSE <<At(0, 1, 0), At(0, 2, 0), At(0, 3, 0)>>
  BY DEF Whole
<1>4. topic \in GridTopics => Whole(topic, n) = [i \in 1 .. Grid(n) |-> At(i, i - 1, 0)]
  BY DEF Whole, GridTopics
<1>5. topic = "payload_state" =>
        Whole(topic, n) = [i \in 1 .. 3 * Grid(n) |-> At((i + 2) \div 3, 2 + ((i - 1) % 3), 0)]
  BY DEF Whole
<1>6. topic = "vehicle_status" =>
        Whole(topic, n) = [i \in 1 .. (Grid(n) + 1) \div 2 |-> At(2 * i - 1, i - 1, 0)]
  BY DEF Whole
<1>7. topic = "scenario_events" =>
        Whole(topic, n) = IF n # 0 /\ ruleset = "descent_v1" THEN <<At(0, 0, 0)>> ELSE <<>>
  BY DEF Whole
<1>8. topic = "score_events" =>
        Whole(topic, n) =
          IF n = Frames + 2 THEN [i \in 1 .. ScoreCount |-> At(Frames, i - 1, i)] ELSE <<>>
  BY DEF Whole
<1>9. topic \in EventTopics =>
        Whole(topic, n) =
          IF n <= 1 THEN <<>> ELSE IF n = 2 THEN <<At(1, 0, 1)>>
          ELSE <<At(1, 0, 1), At(2, 1, 2)>>
  BY DEF Whole, EventTopics
<1>10. topic = "judge_decisions" =>
         Whole(topic, n) =
           IF n <= 2 THEN <<>> ELSE IF n = 3 THEN <<At(2, 0, 0)>>
           ELSE <<At(2, 0, 0), At(2, 0, 0), At(3, 1, 1)>>
  BY DEF Whole
<1>11. QED
  BY <1>1, <1>2, <1>3, <1>4, <1>5, <1>6, <1>7, <1>8, <1>9, <1>10

\* A function on 1 .. n is a sequence.
LEMMA FunctionIsSeq ==
    ASSUME NEW S, NEW m \in Nat, NEW s \in [1 .. m -> S]
    PROVE  s \in Seq(S)
BY SeqDef

\* What a concatenation is, element by element.
LEMMA ConcatIs ==
    ASSUME NEW S, NEW s \in Seq(S), NEW u \in Seq(S), NEW w \in Seq(S),
           Len(w) = Len(s) + Len(u),
           \A i \in 1 .. Len(w) : w[i] = IF i <= Len(s) THEN s[i] ELSE u[i - Len(s)]
    PROVE  w = s \o u
<1> DEFINE v == s \o u
<1>1. /\ v \in Seq(S) /\ Len(v) = Len(s) + Len(u)
      /\ \A i \in 1 .. Len(v) : v[i] = IF i <= Len(s) THEN s[i] ELSE u[i - Len(s)]
  BY ConcatProperties
<1> HIDE DEF v
<1>2. w = v
  BY <1>1, SeqEqual
<1>3. QED
  BY <1>2 DEF v

\* Short sequences one after the other.
LEMMA OneAndOne ==
    ASSUME NEW S, NEW a \in S, NEW b \in S
    PROVE  <<a>> \in Seq(S) /\ <<a, b>> \in Seq(S) /\ <<a>> \o <<b>> = <<a, b>>
<1> DEFINE s == <<a>>
           u == <<b>>
           w == <<a, b>>
<1>1. s \in Seq(S) /\ Len(s) = 1 /\ s[1] = a
  OBVIOUS
<1>2. u \in Seq(S) /\ Len(u) = 1 /\ u[1] = b
  OBVIOUS
<1>3. w \in Seq(S) /\ Len(w) = 2 /\ w[1] = a /\ w[2] = b
  OBVIOUS
<1> HIDE DEF s, u, w
<1>4. ASSUME NEW i \in 1 .. Len(w)
      PROVE  w[i] = IF i <= Len(s) THEN s[i] ELSE u[i - Len(s)]
  <2>1. CASE i = 1
    BY <1>1, <1>2, <1>3, <2>1
  <2>2. CASE i = 2
    BY <1>1, <1>2, <1>3, <2>2
  <2>3. QED
    BY <1>3, <2>1, <2>2
<1>5. s \in Seq(S) /\ u \in Seq(S) /\ w \in Seq(S) /\ Len(w) = Len(s) + Len(u)
  BY <1>1, <1>2, <1>3
<1>6. w = s \o u
  BY <1>4, <1>5, ConcatIs
<1>7. QED
  BY <1>5, <1>6 DEF s, u, w

LEMMA OneAndTwo ==
    ASSUME NEW S, NEW a \in S, NEW b \in S, NEW c \in S
    PROVE  /\ <<a>> \in Seq(S) /\ <<b, c>> \in Seq(S) /\ <<a, b, c>> \in Seq(S)
           /\ <<a>> \o <<b, c>> = <<a, b, c>>
<1> DEFINE s == <<a>>
           u == <<b, c>>
           w == <<a, b, c>>
<1>1. s \in Seq(S) /\ Len(s) = 1 /\ s[1] = a
  OBVIOUS
<1>2. u \in Seq(S) /\ Len(u) = 2 /\ u[1] = b /\ u[2] = c
  OBVIOUS
<1>3. w \in Seq(S) /\ Len(w) = 3 /\ w[1] = a /\ w[2] = b /\ w[3] = c
  OBVIOUS
<1> HIDE DEF s, u, w
<1>4. ASSUME NEW i \in 1 .. Len(w)
      PROVE  w[i] = IF i <= Len(s) THEN s[i] ELSE u[i - Len(s)]
  <2>1. CASE i = 1
    BY <1>1, <1>2, <1>3, <2>1
  <2>2. CASE i = 2
    BY <1>1, <1>2, <1>3, <2>2
  <2>3. CASE i = 3
    BY <1>1, <1>2, <1>3, <2>3
  <2>4. QED
    BY <1>3, <2>1, <2>2, <2>3
<1>5. s \in Seq(S) /\ u \in Seq(S) /\ w \in Seq(S) /\ Len(w) = Len(s) + Len(u)
  BY <1>1, <1>2, <1>3
<1>6. w = s \o u
  BY <1>4, <1>5, ConcatIs
<1>7. QED
  BY <1>5, <1>6 DEF s, u, w

LEMMA ThreeAndOne ==
    ASSUME NEW S, NEW a \in S, NEW b \in S, NEW c \in S, NEW d \in S
    PROVE  /\ <<a, b, c>> \in Seq(S) /\ <<d>> \in Seq(S) /\ <<a, b, c, d>> \in Seq(S)
           /\ <<a, b, c>> \o <<d>> = <<a, b, c, d>>
<1> DEFINE s == <<a, b, c>>
           u == <<d>>
           w == <<a, b, c, d>>
<1>1. s \in Seq(S) /\ Len(s) = 3 /\ s[1] = a /\ s[2] = b /\ s[3] = c
  OBVIOUS
<1>2. u \in Seq(S) /\ Len(u) = 1 /\ u[1] = d
  OBVIOUS
<1>3. w \in Seq(S) /\ Len(w) = 4 /\ w[1] = a /\ w[2] = b /\ w[3] = c /\ w[4] = d
  OBVIOUS
<1> HIDE DEF s, u, w
<1>4. ASSUME NEW i \in 1 .. Len(w)
      PROVE  w[i] = IF i <= Len(s) THEN s[i] ELSE u[i - Len(s)]
  <2>1. CASE i = 1
    BY <1>1, <1>2, <1>3, <2>1
  <2>2. CASE i = 2
    BY <1>1, <1>2, <1>3, <2>2
  <2>3. CASE i = 3
    BY <1>1, <1>2, <1>3, <2>3
  <2>4. CASE i = 4
    BY <1>1, <1>2, <1>3, <2>4
  <2>5. QED
    BY <1>3, <2>1, <2>2, <2>3, <2>4
<1>5. s \in Seq(S) /\ u \in Seq(S) /\ w \in Seq(S) /\ Len(w) = Len(s) + Len(u)
  BY <1>1, <1>2, <1>3
<1>6. w = s \o u
  BY <1>4, <1>5, ConcatIs
<1>7. QED
  BY <1>5, <1>6 DEF s, u, w

\* A sequence is its start and what follows.
LEMMA GrowsByOne ==
    ASSUME NEW S, NEW m \in Nat, NEW s \in [1 .. m -> S], NEW u \in [1 .. m + 1 -> S],
           \A i \in 1 .. m : s[i] = u[i]
    PROVE  u = s \o <<u[m + 1]>>
<1>1. s \in Seq(S) /\ Len(s) = m /\ u \in Seq(S) /\ Len(u) = m + 1 /\ u[m + 1] \in S
  BY SeqDef
<1> DEFINE v == s \o <<u[m + 1]>>
<1>2. v \in Seq(S) /\ Len(v) = m + 1 /\ v[m + 1] = u[m + 1] /\ \A i \in 1 .. m : v[i] = s[i]
  BY <1>1
<1>3. \A i \in 1 .. m + 1 : v[i] = u[i]
  BY <1>2
<1>4. v = u
  BY <1>1, <1>2, <1>3, SeqEqual
<1>5. QED
  BY <1>4

LEMMA GrowsByThree ==
    ASSUME NEW S, NEW m \in Nat, NEW s \in [1 .. m -> S], NEW u \in [1 .. m + 3 -> S],
           \A i \in 1 .. m : s[i] = u[i]
    PROVE  u = s \o <<u[m + 1], u[m + 2], u[m + 3]>>
<1>1. /\ s \in Seq(S) /\ Len(s) = m /\ u \in Seq(S) /\ Len(u) = m + 3
      /\ u[m + 1] \in S /\ u[m + 2] \in S /\ u[m + 3] \in S
  BY SeqDef
<1> DEFINE w == <<u[m + 1], u[m + 2], u[m + 3]>>
<1>2. w \in Seq(S) /\ Len(w) = 3 /\ w[1] = u[m + 1] /\ w[2] = u[m + 2] /\ w[3] = u[m + 3]
  BY <1>1
<1> HIDE DEF w
<1>3. ASSUME NEW i \in 1 .. Len(u)
      PROVE  u[i] = IF i <= Len(s) THEN s[i] ELSE w[i - Len(s)]
  <2>1. CASE i <= m
    BY <1>1, <2>1
  <2>2. CASE i \in {m + 1, m + 2, m + 3}
    BY <1>1, <1>2, <2>2
  <2>3. QED
    BY <1>1, <2>1, <2>2
<1>4. u = s \o w
  BY <1>1, <1>2, <1>3, ConcatIs
<1>5. QED
  BY <1>4 DEF w

\* Each stamp within the run adds one to the frames' own samples.
LEMMA GridGrows ==
    ASSUME NEW n \in 0 .. Frames + 1
    PROVE  /\ Grid(n) \in 0 .. Frames /\ Grid(n + 1) \in 0 .. Frames
           /\ n \in 1 .. Frames => Grid(n + 1) = n /\ Grid(n) = n - 1
           /\ n \notin 1 .. Frames => Grid(n + 1) = Grid(n)
BY BagAssumption DEF Grid

\* The next stamp adds what is published at it.
LEMMA WholeGrows ==
    ASSUME ruleset \in Rulesets, NEW topic \in VfsTopics, NEW n \in 0 .. Frames + 1
    PROVE  Whole(topic, n + 1) = Whole(topic, n) \o Schedule(topic, n)
<1>0. Frames \in Nat /\ Frames > 0 /\ n \in Nat /\ n \in 0 .. Frames + 2 /\ n + 1 \in 0 .. Frames + 2
  BY BagAssumption
<1>a. /\ Grid(n) \in 0 .. Frames /\ Grid(n + 1) \in 0 .. Frames
      /\ n \in 1 .. Frames => Grid(n + 1) = n /\ Grid(n) = n - 1
      /\ n \notin 1 .. Frames => Grid(n + 1) = Grid(n)
  BY GridGrows
<1>b. /\ \A t \in 0 .. Frames + 1, id \in Nat : At(t, id, 0) \in Samples
      /\ \A s \in Seq(Samples) : s \o <<>> = s /\ <<>> \o s = s
  BY AtIsSample, ConcatEmptySeq
<1>1. CASE topic = "artifact_status"
  <2>1. /\ Whole(topic, n) = IF n = 0 THEN <<>> ELSE <<At(0, 0, 0), At(0, 1, 0)>>
        /\ Whole(topic, n + 1) = <<At(0, 0, 0), At(0, 1, 0)>>
    BY <1>0, <1>1, WholeIs
  <2>2. Schedule(topic, n) = IF n = 0 THEN <<At(0, 0, 0), At(0, 1, 0)>> ELSE <<>>
    BY <1>1, ScheduleIs
  <2>3. <<At(0, 0, 0), At(0, 1, 0)>> \in Seq(Samples)
    BY <1>0, <1>b
  <2>4. QED
    BY <1>b, <2>1, <2>2, <2>3
<1>2. CASE topic = "clock"
  <2> DEFINE m == IF n = Frames + 2 THEN Frames + 1 ELSE n
             s == [i \in 1 .. n |-> At(i - 1, 0, 0)]
             u == [i \in 1 .. n + 1 |-> At(i - 1, 0, 0)]
  <2>1. Whole(topic, n) = s /\ Whole(topic, n + 1) = IF n + 1 = Frames + 2 THEN s ELSE u
    <3>1. Whole(topic, n) = s
      BY <1>0, <1>2, WholeIs
    <3>2. Whole(topic, n + 1) =
            [i \in 1 .. (IF n + 1 = Frames + 2 THEN Frames + 1 ELSE n + 1) |-> At(i - 1, 0, 0)]
      BY <1>0, <1>2, WholeIs
    <3>3. n + 1 = Frames + 2 => Frames + 1 = n
      BY <1>0
    <3>4. QED
      BY <3>1, <3>2, <3>3
  <2>2. Schedule(topic, n) = IF n <= Frames THEN <<At(n, 0, 0)>> ELSE <<>>
    BY <1>2, ScheduleIs
  <2>3. s \in [1 .. n -> Samples] /\ (n <= Frames => u \in [1 .. n + 1 -> Samples])
    BY <1>0, <1>b
  <2>4. s \in Seq(Samples)
    BY <1>0, <2>3, FunctionIsSeq
  <2>5. u[n + 1] = At(n, 0, 0) /\ \A i \in 1 .. n : s[i] = u[i]
    BY <1>0
  <2> HIDE DEF s, u
  <2>6. n <= Frames => u = s \o <<At(n, 0, 0)>>
    BY <1>0, <2>3, <2>5, GrowsByOne
  <2>7. n <= Frames <=> n + 1 # Frames + 2
    BY <1>0
  <2>8. QED
    BY <1>b, <2>1, <2>2, <2>4, <2>6, <2>7
<1>3. CASE topic = "run_state"
  <2> DEFINE s == <<At(0, 1, 0), At(0, 2, 0), At(0, 3, 0)>>
             u == <<At(0, 1, 0), At(0, 2, 0), At(0, 3, 0), At(Frames, 4, 0)>>
  <2>1. /\ Whole(topic, n) = IF n = 0 THEN <<>> ELSE s
        /\ Whole(topic, n + 1) = IF n + 1 = Frames + 2 THEN u ELSE s
    BY <1>0, <1>3, WholeIs
  <2>2. Schedule(topic, n) = IF n = 0 THEN s ELSE IF n = Frames + 1 THEN <<At(Frames, 4, 0)>> ELSE <<>>
    BY <1>3, ScheduleIs
  <2>3. /\ At(0, 1, 0) \in Samples /\ At(0, 2, 0) \in Samples /\ At(0, 3, 0) \in Samples
        /\ At(Frames, 4, 0) \in Samples
    BY <1>0, <1>b
  <2>4. s \in Seq(Samples) /\ u = s \o <<At(Frames, 4, 0)>>
    BY <2>3, ThreeAndOne
  <2> HIDE DEF s, u
  <2>5. s \o <<>> = s /\ <<>> \o s = s
    BY <2>4, ConcatEmptySeq
  <2>6. CASE n = 0
    BY <1>0, <2>1, <2>2, <2>5, <2>6
  <2>7. CASE n = Frames + 1
    BY <1>0, <2>1, <2>2, <2>4, <2>7
  <2>8. CASE n \in 1 .. Frames
    <3>1. n # 0 /\ n # Frames + 1 /\ n + 1 # Frames + 2
      BY <1>0, <2>8
    <3>2. QED
      BY <2>1, <2>2, <2>5, <3>1
  <2>9. QED
    BY <1>0, <2>6, <2>7, <2>8
<1>4. CASE topic \in GridTopics
  <2> DEFINE s == [i \in 1 .. Grid(n) |-> At(i, i - 1, 0)]
             u == [i \in 1 .. Grid(n + 1) |-> At(i, i - 1, 0)]
  <2>1. Whole(topic, n) = s /\ Whole(topic, n + 1) = u
    BY <1>0, <1>4, WholeIs
  <2>2. Schedule(topic, n) = IF n \in 1 .. Frames THEN <<At(n, n - 1, 0)>> ELSE <<>>
    BY <1>4, ScheduleIs
  <2>3. s \in [1 .. Grid(n) -> Samples] /\ u \in [1 .. Grid(n + 1) -> Samples]
    BY <1>0, <1>a, <1>b
  <2>4. s \in Seq(Samples)
    BY <1>a, <2>3, FunctionIsSeq
  <2>5. n \in 1 .. Frames => u[n] = At(n, n - 1, 0) /\ \A i \in 1 .. n - 1 : s[i] = u[i]
    BY <1>0, <1>a
  <2>6. n \notin 1 .. Frames => u = s
    BY <1>a
  <2> HIDE DEF s, u
  <2>7. n \in 1 .. Frames => u = s \o <<At(n, n - 1, 0)>>
    <3> SUFFICES ASSUME n \in 1 .. Frames PROVE u = s \o <<At(n, n - 1, 0)>>
      OBVIOUS
    <3>1. n - 1 \in Nat /\ (n - 1) + 1 = n
      BY <1>0
    <3>2. s \in [1 .. n - 1 -> Samples] /\ u \in [1 .. (n - 1) + 1 -> Samples]
      BY <1>a, <2>3, <3>1
    <3>3. u = s \o <<u[(n - 1) + 1]>>
      BY <2>5, <3>1, <3>2, GrowsByOne
    <3>4. QED
      BY <2>5, <3>1, <3>3
  <2>8. QED
    BY <1>b, <2>1, <2>2, <2>4, <2>6, <2>7
<1>5. CASE topic = "payload_state"
  <2> DEFINE s == [i \in 1 .. 3 * Grid(n) |-> At((i + 2) \div 3, 2 + ((i - 1) % 3), 0)]
             u == [i \in 1 .. 3 * Grid(n + 1) |-> At((i + 2) \div 3, 2 + ((i - 1) % 3), 0)]
  <2>1. Whole(topic, n) = s /\ Whole(topic, n + 1) = u
    BY <1>0, <1>5, WholeIs
  <2>2. Schedule(topic, n) =
          IF n \in 1 .. Frames THEN <<At(n, 2, 0), At(n, 3, 0), At(n, 4, 0)>> ELSE <<>>
    BY <1>5, ScheduleIs
  <2>a. ASSUME NEW g \in 0 .. Frames, NEW i \in 1 .. 3 * g
        PROVE  At((i + 2) \div 3, 2 + ((i - 1) % 3), 0) \in Samples
    <3>1. (i + 2) \div 3 \in 0 .. Frames + 1
      BY <1>0
    <3>2. 2 + ((i - 1) % 3) \in Nat
      BY <1>0
    <3>3. QED
      BY <1>b, <3>1, <3>2
  <2>3. s \in [1 .. 3 * Grid(n) -> Samples] /\ u \in [1 .. 3 * Grid(n + 1) -> Samples]
    BY <1>a, <2>a
  <2>4. s \in Seq(Samples)
    <3>1. 3 * Grid(n) \in Nat
      BY <1>a
    <3>2. QED
      BY <2>3, <3>1, FunctionIsSeq
  <2>5. n \in 1 .. Frames =>
          LET m == 3 * (n - 1)
          IN  /\ m \in Nat /\ 3 * Grid(n) = m /\ 3 * Grid(n + 1) = m + 3
              /\ u[m + 1] = At(n, 2, 0) /\ u[m + 2] = At(n, 3, 0) /\ u[m + 3] = At(n, 4, 0)
              /\ \A i \in 1 .. m : s[i] = u[i]
    <3> SUFFICES ASSUME n \in 1 .. Frames
                 PROVE  LET m == 3 * (n - 1)
                        IN  /\ m \in Nat /\ 3 * Grid(n) = m /\ 3 * Grid(n + 1) = m + 3
                            /\ u[m + 1] = At(n, 2, 0) /\ u[m + 2] = At(n, 3, 0)
                            /\ u[m + 3] = At(n, 4, 0)
                            /\ \A i \in 1 .. m : s[i] = u[i]
      OBVIOUS
    <3> DEFINE m == 3 * (n - 1)
    <3>1. m \in Nat /\ 3 * Grid(n) = m /\ 3 * Grid(n + 1) = m + 3
      BY <1>0, <1>a
    <3>2. /\ ((m + 1) + 2) \div 3 = n /\ ((m + 1) - 1) % 3 = 0
          /\ ((m + 2) + 2) \div 3 = n /\ ((m + 2) - 1) % 3 = 1
          /\ ((m + 3) + 2) \div 3 = n /\ ((m + 3) - 1) % 3 = 2
      BY <1>0
    <3>3. m + 1 \in 1 .. 3 * Grid(n + 1) /\ m + 2 \in 1 .. 3 * Grid(n + 1) /\ m + 3 \in 1 .. 3 * Grid(n + 1)
      BY <3>1
    <3>4. u[m + 1] = At(n, 2, 0) /\ u[m + 2] = At(n, 3, 0) /\ u[m + 3] = At(n, 4, 0)
      BY <3>2, <3>3
    <3>5. \A i \in 1 .. m : s[i] = u[i]
      BY <3>1
    <3>6. QED
      BY <3>1, <3>4, <3>5
  <2>6. n \notin 1 .. Frames => u = s
    BY <1>a
  <2> HIDE DEF s, u
  <2>7. n \in 1 .. Frames => u = s \o <<At(n, 2, 0), At(n, 3, 0), At(n, 4, 0)>>
    <3> SUFFICES ASSUME n \in 1 .. Frames
                 PROVE  u = s \o <<At(n, 2, 0), At(n, 3, 0), At(n, 4, 0)>>
      OBVIOUS
    <3> DEFINE m == 3 * (n - 1)
    <3>1. /\ m \in Nat /\ 3 * Grid(n) = m /\ 3 * Grid(n + 1) = m + 3
          /\ u[m + 1] = At(n, 2, 0) /\ u[m + 2] = At(n, 3, 0) /\ u[m + 3] = At(n, 4, 0)
          /\ \A i \in 1 .. m : s[i] = u[i]
      BY <2>5
    <3> HIDE DEF m
    <3>2. s \in [1 .. m -> Samples] /\ u \in [1 .. m + 3 -> Samples]
      BY <2>3, <3>1
    <3>3. m \in Nat /\ \A i \in 1 .. m : s[i] = u[i]
      BY <3>1
    <3>4. u = s \o <<u[m + 1], u[m + 2], u[m + 3]>>
      BY <3>2, <3>3, GrowsByThree
    <3>5. QED
      BY <3>1, <3>4
  <2>8. QED
    BY <1>b, <2>1, <2>2, <2>4, <2>6, <2>7
<1>6. CASE topic = "vehicle_status"
  <2> DEFINE h(g) == (g + 1) \div 2
             s == [i \in 1 .. h(Grid(n)) |-> At(2 * i - 1, i - 1, 0)]
             u == [i \in 1 .. h(Grid(n + 1)) |-> At(2 * i - 1, i - 1, 0)]
  <2>1. Whole(topic, n) = s /\ Whole(topic, n + 1) = u
    BY <1>0, <1>6, WholeIs
  <2>2. Schedule(topic, n) =
          IF n \in 1 .. Frames /\ n % 2 = 1 THEN <<At(n, n \div 2, 0)>> ELSE <<>>
    BY <1>6, ScheduleIs
  <2>a. ASSUME NEW g \in 0 .. Frames, NEW i \in 1 .. h(g)
        PROVE  At(2 * i - 1, i - 1, 0) \in Samples
    <3>1. 2 * i - 1 \in 0 .. Frames + 1 /\ i - 1 \in Nat
      BY <1>0
    <3>2. QED
      BY <1>b, <3>1
  <2>b. h(Grid(n)) \in Nat /\ h(Grid(n + 1)) \in Nat
    BY <1>0, <1>a
  <2>3. s \in [1 .. h(Grid(n)) -> Samples] /\ u \in [1 .. h(Grid(n + 1)) -> Samples]
    BY <1>a, <2>a
  <2>4. s \in Seq(Samples)
    BY <2>b, <2>3, FunctionIsSeq
  <2>5. n \in 1 .. Frames /\ n % 2 = 1 =>
          /\ n \div 2 \in Nat /\ h(Grid(n)) = n \div 2 /\ h(Grid(n + 1)) = (n \div 2) + 1
          /\ 2 * ((n \div 2) + 1) - 1 = n
    BY <1>0, <1>a
  <2>6. ~ (n \in 1 .. Frames /\ n % 2 = 1) => u = s
    <3>1. ~ (n \in 1 .. Frames /\ n % 2 = 1) => h(Grid(n + 1)) = h(Grid(n))
      BY <1>0, <1>a
    <3>2. QED
      BY <3>1
  <2>7. n \in 1 .. Frames /\ n % 2 = 1 => u = s \o <<At(n, n \div 2, 0)>>
    <3> SUFFICES ASSUME n \in 1 .. Frames /\ n % 2 = 1
                 PROVE  u = s \o <<At(n, n \div 2, 0)>>
      OBVIOUS
    <3> DEFINE m == n \div 2
    <3>1. /\ m \in Nat /\ h(Grid(n)) = m /\ h(Grid(n + 1)) = m + 1 /\ 2 * (m + 1) - 1 = n
          /\ (m + 1) - 1 = m
      BY <2>5
    <3> HIDE DEF m, h
    <3>2. u[m + 1] = At(n, m, 0) /\ \A i \in 1 .. m : s[i] = u[i]
      BY <3>1
    <3>3. s \in [1 .. m -> Samples] /\ u \in [1 .. m + 1 -> Samples]
      BY <2>3, <3>1
    <3>4. u = s \o <<u[m + 1]>>
      BY <3>1, <3>2, <3>3, GrowsByOne
    <3>5. QED
      BY <3>2, <3>4 DEF m
  <2> HIDE DEF s, u
  <2>8. QED
    BY <1>b, <2>1, <2>2, <2>4, <2>6, <2>7
<1>7. CASE topic = "scenario_events"
  <2>1. /\ Whole(topic, n) = IF n # 0 /\ ruleset = "descent_v1" THEN <<At(0, 0, 0)>> ELSE <<>>
        /\ Whole(topic, n + 1) = IF ruleset = "descent_v1" THEN <<At(0, 0, 0)>> ELSE <<>>
    BY <1>0, <1>7, WholeIs
  <2>2. Schedule(topic, n) = IF n = 0 /\ ruleset = "descent_v1" THEN <<At(0, 0, 0)>> ELSE <<>>
    BY <1>7, ScheduleIs
  <2>3. <<At(0, 0, 0)>> \in Seq(Samples) /\ <<>> \in Seq(Samples)
    BY <1>0, <1>b
  <2>4. QED
    BY <1>b, <2>1, <2>2, <2>3
<1>8. CASE topic = "score_events"
  <2> DEFINE scores == [i \in 1 .. ScoreCount |-> At(Frames, i - 1, i)]
  <2>1. Whole(topic, n) = <<>> /\ Whole(topic, n + 1) = IF n + 1 = Frames + 2 THEN scores ELSE <<>>
    <3>1. Whole(topic, n) = IF n = Frames + 2 THEN scores ELSE <<>>
      BY <1>0, <1>8, WholeIs
    <3>2. Whole(topic, n + 1) = IF n + 1 = Frames + 2 THEN scores ELSE <<>>
      BY <1>0, <1>8, WholeIs
    <3> HIDE DEF scores
    <3>3. n # Frames + 2
      BY <1>0
    <3>4. QED
      BY <3>1, <3>2, <3>3
  <2>2. Schedule(topic, n) = IF n = Frames + 1 THEN scores ELSE <<>>
    BY <1>8, ScheduleIs
  <2>3. Schedule(topic, n) \in Seq(Samples)
    BY ScheduleSamples
  <2>4. <<>> \o Schedule(topic, n) = Schedule(topic, n)
    BY <2>3, ConcatEmptySeq
  <2>5. QED
    BY <1>0, <2>1, <2>2, <2>4
<1>9. CASE topic \in EventTopics
  <2>1. /\ Whole(topic, n) =
             IF n <= 1 THEN <<>> ELSE IF n = 2 THEN <<At(1, 0, 1)>>
             ELSE <<At(1, 0, 1), At(2, 1, 2)>>
        /\ Whole(topic, n + 1) =
             IF n + 1 <= 1 THEN <<>> ELSE IF n + 1 = 2 THEN <<At(1, 0, 1)>>
             ELSE <<At(1, 0, 1), At(2, 1, 2)>>
    BY <1>0, <1>9, WholeIs
  <2>2. Schedule(topic, n) = IF n \in {1, 2} THEN <<At(n, n - 1, n)>> ELSE <<>>
    BY <1>9, ScheduleIs
  <2>3. At(1, 0, 1) \in Samples /\ At(2, 1, 2) \in Samples
    BY <1>0, AtIsSample
  <2>4. /\ <<At(1, 0, 1)>> \in Seq(Samples) /\ <<At(1, 0, 1), At(2, 1, 2)>> \in Seq(Samples)
        /\ <<At(1, 0, 1)>> \o <<At(2, 1, 2)>> = <<At(1, 0, 1), At(2, 1, 2)>>
        /\ <<>> \in Seq(Samples)
    BY <2>3, OneAndOne
  <2>5. CASE n = 0
    BY <1>b, <2>1, <2>2, <2>4, <2>5
  <2>6. CASE n = 1
    BY <1>b, <2>1, <2>2, <2>4, <2>6
  <2>7. CASE n = 2
    BY <1>b, <2>1, <2>2, <2>4, <2>7
  <2>8. CASE n > 2
    <3> DEFINE both == <<At(1, 0, 1), At(2, 1, 2)>>
    <3>1. ~ n <= 1 /\ n # 2 /\ ~ n + 1 <= 1 /\ n + 1 # 2 /\ n \notin {1, 2}
      BY <1>0, <2>8
    <3>2. Whole(topic, n) = both /\ Whole(topic, n + 1) = both /\ Schedule(topic, n) = <<>>
      BY <2>1, <2>2, <3>1
    <3>3. both \o <<>> = both
      BY <2>4, ConcatEmptySeq
    <3>4. QED
      BY <3>2, <3>3
  <2>9. QED
    BY <1>0, <2>5, <2>6, <2>7, <2>8
<1>10. CASE topic = "judge_decisions"
  <2>1. /\ Whole(topic, n) =
             IF n <= 2 THEN <<>> ELSE IF n = 3 THEN <<At(2, 0, 0)>>
             ELSE <<At(2, 0, 0), At(2, 0, 0), At(3, 1, 1)>>
        /\ Whole(topic, n + 1) =
             IF n + 1 <= 2 THEN <<>> ELSE IF n + 1 = 3 THEN <<At(2, 0, 0)>>
             ELSE <<At(2, 0, 0), At(2, 0, 0), At(3, 1, 1)>>
    BY <1>0, <1>10, WholeIs
  <2>2. Schedule(topic, n) =
          IF n = 2 THEN <<At(2, 0, 0)>> ELSE IF n = 3 THEN <<At(2, 0, 0), At(3, 1, 1)>> ELSE <<>>
    BY <1>10, ScheduleIs
  <2>3. Schedule(topic, n) \in Seq(Samples) /\ (n = 3 => At(3, 1, 1) \in Samples)
    BY <1>0, ScheduleSamples, AtIsSample
  <2>4. At(2, 0, 0) \in Samples
    BY <1>0, <1>b
  <2>5. /\ <<At(2, 0, 0)>> \in Seq(Samples)
        /\ n >= 3 => /\ <<At(2, 0, 0), At(2, 0, 0), At(3, 1, 1)>> \in Seq(Samples)
                     /\ <<At(2, 0, 0)>> \o <<At(2, 0, 0), At(3, 1, 1)>> =
                          <<At(2, 0, 0), At(2, 0, 0), At(3, 1, 1)>>
    <3>1. n >= 3 => At(3, 1, 1) \in Samples
      BY <1>0, AtIsSample
    <3>2. QED
      BY <2>4, <3>1, OneAndOne, OneAndTwo
  <2>6. CASE n < 2
    <3>1. n <= 2 /\ n + 1 <= 2 /\ n # 2 /\ n # 3
      BY <1>0, <2>6
    <3>2. Whole(topic, n) = <<>> /\ Whole(topic, n + 1) = <<>> /\ Schedule(topic, n) = <<>>
      BY <2>1, <2>2, <3>1
    <3>3. QED
      BY <3>2
  <2>7. CASE n = 2
    BY <1>b, <2>1, <2>2, <2>5, <2>7
  <2>8. CASE n = 3
    <3>1. ~ n <= 2 /\ ~ n + 1 <= 2 /\ n + 1 # 3 /\ n # 2 /\ n >= 3
      BY <2>8
    <3>2. QED
      BY <2>1, <2>2, <2>5, <2>8, <3>1
  <2>9. CASE n > 3
    <3> DEFINE three == <<At(2, 0, 0), At(2, 0, 0), At(3, 1, 1)>>
    <3>1. ~ n <= 2 /\ ~ n + 1 <= 2 /\ n # 3 /\ n + 1 # 3 /\ n # 2 /\ n >= 3
      BY <1>0, <2>9
    <3>2. Whole(topic, n) = three /\ Whole(topic, n + 1) = three /\ Schedule(topic, n) = <<>>
      BY <2>1, <2>2, <3>1
    <3>3. three \o <<>> = three
      BY <2>5, <3>1, ConcatEmptySeq
    <3>4. QED
      BY <3>2, <3>3
  <2>10. QED
    BY <1>0, <2>6, <2>7, <2>8, <2>9
<1>11. QED
  BY <1>1, <1>2, <1>3, <1>4, <1>5, <1>6, <1>7, <1>8, <1>9, <1>10, TopicIs

-----------------------------------------------------------------------------
(* A bag that is whole is valid. *)

\* Everything that was published is in the bag.
WholeBag ==
    /\ ruleset \in Rulesets /\ ~clockFirst
    /\ \A topic \in BagTopics : bag[topic] = Whole(topic, Frames + 2)

\* Which topics the ruleset has.
LEMMA TopicsOf ==
    ASSUME ruleset \in Rulesets
    PROVE  /\ BaseTopics \subseteq BagTopics /\ BagTopics \subseteq VfsTopics
           /\ ruleset # "descent_v1" => CompetitionTopics \subseteq BagTopics
           /\ ruleset = "competition_2027_v1" => BagTopics = VfsTopics
BY DEF BagTopics, Rulesets, VfsTopics, CompetitionTopics

\* The bag of a whole run, topic by topic.
LEMMA WholeBagIs ==
    ASSUME WholeBag
    PROVE  /\ bag["artifact_status"] = <<At(0, 0, 0), At(0, 1, 0)>>
           /\ bag["clock"] = [i \in 1 .. Frames + 1 |-> At(i - 1, 0, 0)]
           /\ bag["run_state"] = <<At(0, 1, 0), At(0, 2, 0), At(0, 3, 0), At(Frames, 4, 0)>>
           /\ \A topic \in GridTopics \cap BagTopics :
                bag[topic] = [i \in 1 .. Frames |-> At(i, i - 1, 0)]
           /\ "payload_state" \in BagTopics =>
                bag["payload_state"] =
                  [i \in 1 .. 3 * Frames |-> At((i + 2) \div 3, 2 + ((i - 1) % 3), 0)]
           /\ "vehicle_status" \in BagTopics =>
                bag["vehicle_status"] =
                  [i \in 1 .. (Frames + 1) \div 2 |-> At(2 * i - 1, i - 1, 0)]
           /\ bag["scenario_events"] =
                IF ruleset = "descent_v1" THEN <<At(0, 0, 0)>> ELSE <<>>
           /\ bag["score_events"] = [i \in 1 .. ScoreCount |-> At(Frames, i - 1, i)]
           /\ \A topic \in EventTopics \cap BagTopics : bag[topic] = <<At(1, 0, 1), At(2, 1, 2)>>
           /\ "judge_decisions" \in BagTopics =>
                bag["judge_decisions"] =
                  IF Frames = 1 THEN <<At(2, 0, 0)>>
                  ELSE <<At(2, 0, 0), At(2, 0, 0), At(3, 1, 1)>>
<1> DEFINE n == Frames + 2
<1>1. Frames \in Nat /\ Frames > 0 /\ n \in 0 .. Frames + 2
  BY BagAssumption
<1>2. /\ BaseTopics \subseteq BagTopics /\ BagTopics \subseteq VfsTopics
      /\ \A topic \in BagTopics : bag[topic] = Whole(topic, n)
  BY TopicsOf DEF WholeBag
<1>3. n # 0 /\ ~ n <= 1 /\ ~ n <= 2 /\ n # 2 /\ (n = 3 <=> Frames = 1) /\ Grid(n) = Frames
  BY <1>1 DEF Grid
<1>4. n = Frames + 2
  OBVIOUS
<1> HIDE DEF n
<1>5. {"artifact_status", "clock", "run_state", "scenario_events", "score_events"} \subseteq BagTopics
  BY <1>2 DEF BaseTopics
<1>6. bag["artifact_status"] = <<At(0, 0, 0), At(0, 1, 0)>>
  <2>1. Whole("artifact_status", n) = IF n = 0 THEN <<>> ELSE <<At(0, 0, 0), At(0, 1, 0)>>
    BY <1>1, <1>2, <1>5, WholeIs
  <2>2. QED
    BY <1>2, <1>3, <1>5, <2>1
<1>7. bag["clock"] = [i \in 1 .. Frames + 1 |-> At(i - 1, 0, 0)]
  <2>1. Whole("clock", n) =
          [i \in 1 .. (IF n = Frames + 2 THEN Frames + 1 ELSE n) |-> At(i - 1, 0, 0)]
    BY <1>1, <1>2, <1>5, WholeIs
  <2>2. QED
    BY <1>2, <1>4, <1>5, <2>1
<1>8. bag["run_state"] = <<At(0, 1, 0), At(0, 2, 0), At(0, 3, 0), At(Frames, 4, 0)>>
  <2>1. Whole("run_state", n) =
          IF n = 0 THEN <<>>
          ELSE IF n = Frames + 2
          THEN <<At(0, 1, 0), At(0, 2, 0), At(0, 3, 0), At(Frames, 4, 0)>>
          ELSE <<At(0, 1, 0), At(0, 2, 0), At(0, 3, 0)>>
    BY <1>1, <1>2, <1>5, WholeIs
  <2>2. QED
    BY <1>2, <1>3, <1>4, <1>5, <2>1
<1>9. \A topic \in GridTopics \cap BagTopics : bag[topic] = [i \in 1 .. Frames |-> At(i, i - 1, 0)]
  BY <1>1, <1>2, <1>3, WholeIs
<1>10. "payload_state" \in BagTopics =>
         bag["payload_state"] =
           [i \in 1 .. 3 * Frames |-> At((i + 2) \div 3, 2 + ((i - 1) % 3), 0)]
  <2>1. "payload_state" \in BagTopics =>
          Whole("payload_state", n) =
            [i \in 1 .. 3 * Grid(n) |-> At((i + 2) \div 3, 2 + ((i - 1) % 3), 0)]
    BY <1>1, <1>2, WholeIs
  <2>2. QED
    BY <1>2, <1>3, <2>1
<1>11. "vehicle_status" \in BagTopics =>
         bag["vehicle_status"] = [i \in 1 .. (Frames + 1) \div 2 |-> At(2 * i - 1, i - 1, 0)]
  <2>1. "vehicle_status" \in BagTopics =>
          Whole("vehicle_status", n) =
            [i \in 1 .. (Grid(n) + 1) \div 2 |-> At(2 * i - 1, i - 1, 0)]
    BY <1>1, <1>2, WholeIs
  <2>2. QED
    BY <1>2, <1>3, <2>1
<1>12. bag["scenario_events"] = IF ruleset = "descent_v1" THEN <<At(0, 0, 0)>> ELSE <<>>
  <2>1. Whole("scenario_events", n) =
          IF n # 0 /\ ruleset = "descent_v1" THEN <<At(0, 0, 0)>> ELSE <<>>
    BY <1>1, <1>2, <1>5, WholeIs
  <2>2. QED
    BY <1>2, <1>3, <1>5, <2>1
<1>13. bag["score_events"] = [i \in 1 .. ScoreCount |-> At(Frames, i - 1, i)]
  <2>1. Whole("score_events", n) =
          IF n = Frames + 2 THEN [i \in 1 .. ScoreCount |-> At(Frames, i - 1, i)] ELSE <<>>
    BY <1>1, <1>2, <1>5, WholeIs
  <2>2. QED
    BY <1>2, <1>4, <1>5, <2>1
<1>14. \A topic \in EventTopics \cap BagTopics : bag[topic] = <<At(1, 0, 1), At(2, 1, 2)>>
  <2> SUFFICES ASSUME NEW topic \in EventTopics \cap BagTopics
               PROVE  bag[topic] = <<At(1, 0, 1), At(2, 1, 2)>>
    OBVIOUS
  <2>1. Whole(topic, n) =
          IF n <= 1 THEN <<>> ELSE IF n = 2 THEN <<At(1, 0, 1)>>
          ELSE <<At(1, 0, 1), At(2, 1, 2)>>
    BY <1>1, <1>2, WholeIs
  <2>2. QED
    BY <1>2, <1>3, <2>1
<1>15. "judge_decisions" \in BagTopics =>
         bag["judge_decisions"] =
           IF Frames = 1 THEN <<At(2, 0, 0)>> ELSE <<At(2, 0, 0), At(2, 0, 0), At(3, 1, 1)>>
  <2> SUFFICES ASSUME "judge_decisions" \in BagTopics
               PROVE  bag["judge_decisions"] =
                        IF Frames = 1 THEN <<At(2, 0, 0)>>
                        ELSE <<At(2, 0, 0), At(2, 0, 0), At(3, 1, 1)>>
    OBVIOUS
  <2>1. Whole("judge_decisions", n) =
          IF n <= 2 THEN <<>> ELSE IF n = 3 THEN <<At(2, 0, 0)>>
          ELSE <<At(2, 0, 0), At(2, 0, 0), At(3, 1, 1)>>
    BY <1>1, <1>2, WholeIs
  <2>2. QED
    BY <1>2, <1>3, <2>1
<1>16. QED
  BY <1>6, <1>7, <1>8, <1>9, <1>10, <1>11, <1>12, <1>13, <1>14, <1>15

\* Every ruleset publishes at least five score events.
LEMMA ScoreCountIs ==
    ASSUME ruleset \in Rulesets
    PROVE  ScoreCount \in Nat /\ ScoreCount > 4
BY DEF ScoreCount, Rulesets

\* All of it parses, and is in the order of time; only the events of a scenario may be none.
LEMMA WholeReads ==
    ASSUME WholeBag, NEW topic \in BagTopics
    PROVE  /\ \A i \in DOMAIN bag[topic] : bag[topic][i].whole
           /\ \A i, j \in DOMAIN bag[topic] : i < j => bag[topic][i].t <= bag[topic][j].t
           /\ bag[topic] = <<>> => topic = "scenario_events" /\ ruleset # "descent_v1"
<1>0. Frames \in Nat /\ Frames > 0 /\ topic \in VfsTopics
  BY BagAssumption, TopicsOf DEF WholeBag
<1> USE DEF At
<1>1. CASE topic = "artifact_status"
  BY <1>1, WholeBagIs
<1>2. CASE topic = "clock"
  <2>1. bag[topic] = [i \in 1 .. Frames + 1 |-> At(i - 1, 0, 0)]
    BY <1>2, WholeBagIs
  <2>2. /\ DOMAIN bag[topic] = 1 .. Frames + 1 /\ 1 \in 1 .. Frames + 1
        /\ \A i \in 1 .. Frames + 1 : bag[topic][i].t = i - 1 /\ bag[topic][i].whole
    BY <1>0, <2>1
  <2>3. QED
    BY <1>0, <2>2
<1>3. CASE topic = "run_state"
  <2>1. bag[topic] = <<At(0, 1, 0), At(0, 2, 0), At(0, 3, 0), At(Frames, 4, 0)>>
    BY <1>3, WholeBagIs
  <2>2. QED
    BY <1>0, <2>1
<1>4. CASE topic \in GridTopics
  <2>1. bag[topic] = [i \in 1 .. Frames |-> At(i, i - 1, 0)]
    BY <1>4, WholeBagIs
  <2>2. QED
    BY <1>0, <2>1
<1>5. CASE topic = "payload_state"
  <2>1. bag[topic] = [i \in 1 .. 3 * Frames |-> At((i + 2) \div 3, 2 + ((i - 1) % 3), 0)]
    BY <1>5, WholeBagIs
  <2>2. /\ DOMAIN bag[topic] = 1 .. 3 * Frames /\ 1 \in 1 .. 3 * Frames
        /\ \A i \in 1 .. 3 * Frames : bag[topic][i].t = (i + 2) \div 3 /\ bag[topic][i].whole
    BY <1>0, <2>1
  <2>3. \A i, j \in 1 .. 3 * Frames : i < j => (i + 2) \div 3 <= (j + 2) \div 3
    BY <1>0
  <2>4. \A i, j \in DOMAIN bag[topic] : i < j => bag[topic][i].t <= bag[topic][j].t
    <3> SUFFICES ASSUME NEW i \in 1 .. 3 * Frames, NEW j \in 1 .. 3 * Frames, i < j
                 PROVE  bag[topic][i].t <= bag[topic][j].t
      BY <2>2
    <3>1. (i + 2) \div 3 <= (j + 2) \div 3
      BY <2>3
    <3>2. QED
      BY <2>2, <3>1
  <2>5. bag[topic] # <<>>
    <3>1. 1 \in DOMAIN bag[topic] /\ DOMAIN <<>> = {}
      BY <2>2
    <3>2. QED
      BY <3>1
  <2>6. QED
    BY <2>2, <2>4, <2>5
<1>6. CASE topic = "vehicle_status"
  <2>1. bag[topic] = [i \in 1 .. (Frames + 1) \div 2 |-> At(2 * i - 1, i - 1, 0)]
    BY <1>6, WholeBagIs
  <2>2. (Frames + 1) \div 2 \in Nat /\ 1 \in 1 .. (Frames + 1) \div 2
    BY <1>0
  <2>3. QED
    BY <2>1, <2>2
<1>7. CASE topic = "scenario_events"
  <2>1. bag[topic] = IF ruleset = "descent_v1" THEN <<At(0, 0, 0)>> ELSE <<>>
    BY <1>7, WholeBagIs
  <2>2. QED
    BY <1>7, <2>1
<1>8. CASE topic = "score_events"
  <2>1. bag[topic] = [i \in 1 .. ScoreCount |-> At(Frames, i - 1, i)]
    BY <1>8, WholeBagIs
  <2>2. ScoreCount \in Nat /\ 1 \in 1 .. ScoreCount
    BY ScoreCountIs DEF WholeBag
  <2>3. QED
    BY <1>0, <2>1, <2>2
<1>9. CASE topic \in EventTopics
  <2>1. bag[topic] = <<At(1, 0, 1), At(2, 1, 2)>>
    BY <1>9, WholeBagIs
  <2>2. QED
    BY <2>1
<1>10. CASE topic = "judge_decisions"
  <2>1. bag[topic] = IF Frames = 1 THEN <<At(2, 0, 0)>>
                     ELSE <<At(2, 0, 0), At(2, 0, 0), At(3, 1, 1)>>
    BY <1>10, WholeBagIs
  <2>2. QED
    BY <2>1
<1>11. QED
  BY <1>0, <1>1, <1>2, <1>3, <1>4, <1>5, <1>6, <1>7, <1>8, <1>9, <1>10, TopicIs

\* Every payload has its state at every stamp (_validate_payload_grid).
LEMMA WholePayloads ==
    ASSUME WholeBag, ruleset # "descent_v1"
    PROVE  PayloadGrid
<1>0. Frames \in Nat /\ Frames > 0
  BY BagAssumption
<1>1. {"payload_state", "range", "ground_truth"} \subseteq BagTopics
  BY TopicsOf DEF WholeBag, CompetitionTopics, BaseTopics
<1> DEFINE ps == bag["payload_state"]
           gt == bag["ground_truth"]
<1>2. ps = [i \in 1 .. 3 * Frames |-> At((i + 2) \div 3, 2 + ((i - 1) % 3), 0)]
  BY <1>1, WholeBagIs
<1>3. gt = [i \in 1 .. Frames |-> At(i, i - 1, 0)] /\ bag["range"] = gt
  BY <1>1, WholeBagIs DEF GridTopics
<1>4. /\ DOMAIN ps = 1 .. 3 * Frames
      /\ \A i \in 1 .. 3 * Frames : ps[i].t = (i + 2) \div 3 /\ ps[i].id = 2 + ((i - 1) % 3)
  BY <1>2 DEF At
<1>5. DOMAIN gt = 1 .. Frames /\ \A i \in 1 .. Frames : gt[i].t = i
  BY <1>3 DEF At
<1> HIDE DEF ps, gt
<1>6. Stamps("range") = Stamps("ground_truth")
  BY <1>3 DEF Stamps, gt
<1>7. ASSUME NEW t \in 1 .. Frames, NEW i \in 1 .. 3 * Frames
      PROVE  ps[i].t = t <=> i \in {3 * t - 2, 3 * t - 1, 3 * t}
  BY <1>0, <1>4
<1>8. \A t \in 1 .. Frames : {j \in DOMAIN ps : ps[j].t = t} = {3 * t - 2, 3 * t - 1, 3 * t}
  <2> SUFFICES ASSUME NEW t \in 1 .. Frames
               PROVE  {j \in DOMAIN ps : ps[j].t = t} = {3 * t - 2, 3 * t - 1, 3 * t}
    OBVIOUS
  <2>1. {3 * t - 2, 3 * t - 1, 3 * t} \subseteq 1 .. 3 * Frames
    BY <1>0
  <2>2. QED
    BY <1>4, <1>7, <2>1
<1>9. {ps[i].t : i \in DOMAIN ps} = {gt[i].t : i \in DOMAIN gt}
  <2>1. \A i \in 1 .. 3 * Frames : (i + 2) \div 3 \in 1 .. Frames
    BY <1>0
  <2>2. \A t \in 1 .. Frames : 3 * t \in 1 .. 3 * Frames /\ ((3 * t) + 2) \div 3 = t
    BY <1>0
  <2>3. \A x : x \in {ps[i].t : i \in DOMAIN ps} <=> x \in 1 .. Frames
    BY <1>4, <2>1, <2>2
  <2>4. \A x : x \in {gt[i].t : i \in DOMAIN gt} <=> x \in 1 .. Frames
    BY <1>5
  <2>5. QED
    BY <2>3, <2>4
<1>10. {ps[i].t : i \in DOMAIN ps} = 1 .. Frames
  <2>1. \A x : x \in {gt[i].t : i \in DOMAIN gt} <=> x \in 1 .. Frames
    BY <1>5
  <2>2. QED
    BY <1>9, <2>1
<1>11. ASSUME NEW t \in 1 .. Frames
       PROVE  /\ {ps[i].id : i \in {j \in DOMAIN ps : ps[j].t = t}} = {2, 3, 4}
              /\ Cardinality({j \in DOMAIN ps : ps[j].t = t}) = 3
  <2>1. {j \in DOMAIN ps : ps[j].t = t} = {3 * t - 2, 3 * t - 1, 3 * t}
    BY <1>8
  <2>2. /\ 3 * t - 2 \in 1 .. 3 * Frames /\ ((3 * t - 2) - 1) % 3 = 0
        /\ 3 * t - 1 \in 1 .. 3 * Frames /\ ((3 * t - 1) - 1) % 3 = 1
        /\ 3 * t \in 1 .. 3 * Frames /\ ((3 * t) - 1) % 3 = 2
    BY <1>0
  <2>3. ps[3 * t - 2].id = 2 /\ ps[3 * t - 1].id = 3 /\ ps[3 * t].id = 4
    BY <1>4, <2>2
  <2>4. {ps[i].id : i \in {3 * t - 2, 3 * t - 1, 3 * t}} = {2, 3, 4}
    BY <2>3
  <2>5. Cardinality({3 * t - 2, 3 * t - 1, 3 * t}) = 3
    <3> DEFINE a == 3 * t - 2
               b == 3 * t - 1
               c == 3 * t
    <3>1. a # b /\ a # c /\ b # c
      OBVIOUS
    <3> HIDE DEF a, b, c
    <3>2. Cardinality({a, b, c}) = 3
      <4>1. IsFiniteSet({}) /\ Cardinality({}) = 0
        BY FS_EmptySet
      <4>2. IsFiniteSet({} \cup {a}) /\ Cardinality({} \cup {a}) = 1
        BY <4>1, FS_AddElement
      <4>3. {} \cup {a} = {a}
        OBVIOUS
      <4>4. IsFiniteSet({a} \cup {b}) /\ Cardinality({a} \cup {b}) = 2
        BY <3>1, <4>2, <4>3, FS_AddElement
      <4>5. {a} \cup {b} = {a, b}
        OBVIOUS
      <4>6. Cardinality({a, b} \cup {c}) = 3
        BY <3>1, <4>4, <4>5, FS_AddElement
      <4>7. {a, b} \cup {c} = {a, b, c}
        OBVIOUS
      <4>8. QED
        BY <4>6, <4>7
    <3>3. QED
      BY <3>2 DEF a, b, c
  <2>6. QED
    BY <2>1, <2>4, <2>5
<1>12. QED
  BY <1>6, <1>9, <1>10, <1>11 DEF PayloadGrid, StampSet, ps, gt

\* The frames are contiguous and as many as configured, and the clock covers them.
LEMMA WholeFrames ==
    ASSUME WholeBag
    PROVE  StartupSequence /\ FrameSequence /\ PhysicalLifecycle /\ ConfiguredGrid
<1>0. Frames \in Nat /\ Frames > 0
  BY BagAssumption
<1>1. {"onboard", "observer", "ground_truth"} \subseteq GridTopics \cap BagTopics
  BY TopicsOf DEF WholeBag, BaseTopics, GridTopics
<1>2. \A topic \in {"onboard", "observer", "ground_truth"} :
        /\ bag[topic] = [i \in 1 .. Frames |-> At(i, i - 1, 0)]
        /\ Len(bag[topic]) = Frames /\ DOMAIN bag[topic] = 1 .. Frames
        /\ \A i \in 1 .. Frames : bag[topic][i].t = i /\ bag[topic][i].id = i - 1
  <2> SUFFICES ASSUME NEW topic \in {"onboard", "observer", "ground_truth"}
               PROVE  /\ bag[topic] = [i \in 1 .. Frames |-> At(i, i - 1, 0)]
                      /\ Len(bag[topic]) = Frames /\ DOMAIN bag[topic] = 1 .. Frames
                      /\ \A i \in 1 .. Frames : bag[topic][i].t = i /\ bag[topic][i].id = i - 1
    OBVIOUS
  <2>1. bag[topic] = [i \in 1 .. Frames |-> At(i, i - 1, 0)]
    BY <1>1, WholeBagIs
  <2>2. QED
    BY <1>0, <2>1 DEF At
<1>3. /\ DOMAIN bag["clock"] = 1 .. Frames + 1 /\ Len(bag["clock"]) = Frames + 1
      /\ \A i \in 1 .. Frames + 1 : bag["clock"][i].t = i - 1
  <2>1. bag["clock"] = [i \in 1 .. Frames + 1 |-> At(i - 1, 0, 0)]
    BY WholeBagIs
  <2>2. QED
    BY <1>0, <2>1 DEF At
<1>4. StartupSequence
  <2>1. bag["artifact_status"] = <<At(0, 0, 0), At(0, 1, 0)>>
    BY WholeBagIs
  <2>2. Ids("artifact_status") = <<0, 1>> /\ Stamps("artifact_status") = <<0, 0>>
    BY <2>1 DEF Ids, Stamps, At
  <2>3. ~clockFirst
    BY DEF WholeBag
  <2>4. QED
    BY <2>2, <2>3 DEF StartupSequence
<1>5. FrameSequence
  <2> SUFFICES ASSUME NEW stream \in {"onboard", "observer"}
               PROVE  /\ \A i \in DOMAIN bag[stream] : bag[stream][i].id = i - 1
                      /\ \A i \in 1 .. Len(bag[stream]) - 1 : bag[stream][i + 1].t = bag[stream][i].t + 1
    BY DEF FrameSequence
  <2> DEFINE b == bag[stream]
  <2>1. /\ Len(b) = Frames /\ DOMAIN b = 1 .. Frames
        /\ \A i \in 1 .. Frames : b[i].t = i /\ b[i].id = i - 1
    BY <1>2
  <2> HIDE DEF b
  <2>2. \A i \in DOMAIN b : b[i].id = i - 1
    BY <2>1
  <2>3. ASSUME NEW i \in 1 .. Len(b) - 1
        PROVE  b[i + 1].t = b[i].t + 1
    <3>1. i \in 1 .. Frames /\ i + 1 \in 1 .. Frames
      BY <1>0, <2>1
    <3>2. b[i].t = i /\ b[i + 1].t = i + 1
      BY <2>1, <3>1
    <3>3. QED
      BY <3>2
  <2>4. QED
    BY <2>2, <2>3 DEF b
<1>6. /\ Ids("run_state") = <<1, 2, 3, 4>> /\ Stamps("run_state") = <<0, 0, 0, Frames>>
  <2>1. bag["run_state"] = <<At(0, 1, 0), At(0, 2, 0), At(0, 3, 0), At(Frames, 4, 0)>>
    BY WholeBagIs
  <2> DEFINE rs == bag["run_state"]
  <2>2. /\ DOMAIN rs = 1 .. 4
        /\ rs[1].id = 1 /\ rs[2].id = 2 /\ rs[3].id = 3 /\ rs[4].id = 4
        /\ rs[1].t = 0 /\ rs[2].t = 0 /\ rs[3].t = 0 /\ rs[4].t = Frames
    BY <2>1 DEF At
  <2> HIDE DEF rs
  <2>3. [i \in DOMAIN rs |-> rs[i].id] = <<1, 2, 3, 4>>
    BY <2>2
  <2>4. [i \in DOMAIN rs |-> rs[i].t] = <<0, 0, 0, Frames>>
    BY <2>2
  <2>5. Ids("run_state") = <<1, 2, 3, 4>>
    BY <2>3 DEF Ids, rs
  <2>6. Stamps("run_state") = <<0, 0, 0, Frames>>
    BY <2>4 DEF Stamps, rs
  <2>7. QED
    BY <2>5, <2>6
<1>7. PhysicalLifecycle
  <2>1. \A i \in 1 .. Len(bag["clock"]) - 1 : bag["clock"][i].t <= bag["clock"][i + 1].t
    <3> SUFFICES ASSUME NEW i \in 1 .. Frames PROVE bag["clock"][i].t <= bag["clock"][i + 1].t
      BY <1>0, <1>3
    <3>1. i \in 1 .. Frames + 1 /\ i + 1 \in 1 .. Frames + 1
      BY <1>0
    <3>2. bag["clock"][i].t = i - 1 /\ bag["clock"][i + 1].t = (i + 1) - 1
      BY <1>3, <3>1
    <3>3. QED
      BY <3>2
  <2>2. ASSUME NEW topic \in {"onboard", "observer"}
        PROVE  StampSet(topic) \subseteq StampSet("clock")
    <3>1. \A i \in 1 .. Frames : i + 1 \in 1 .. Frames + 1 /\ bag["clock"][i + 1].t = i
      BY <1>0, <1>3
    <3>2. /\ StampSet(topic) = {bag[topic][i].t : i \in 1 .. Frames}
          /\ StampSet("clock") = {bag["clock"][i].t : i \in 1 .. Frames + 1}
      BY <1>2, <1>3 DEF StampSet
    <3>3. \A i \in 1 .. Frames : bag[topic][i].t = i
      BY <1>2
    <3>4. QED
      BY <3>1, <3>2, <3>3
  <2>3. QED
    BY <1>6, <2>1, <2>2 DEF PhysicalLifecycle
<1>8. ConfiguredGrid
  <2>1. \A topic \in {"onboard", "observer", "ground_truth"} : Stamps(topic) = [i \in 1 .. Frames |-> i]
    BY <1>2 DEF Stamps
  <2>2. bag["clock"][1].t = 0 /\ bag["clock"][Len(bag["clock"])].t = Frames
    BY <1>0, <1>3
  <2>3. QED
    BY <1>6, <2>1, <2>2 DEF ConfiguredGrid
<1>9. QED
  BY <1>4, <1>5, <1>7, <1>8

\* The events are all there.
LEMMA WholeEvents ==
    ASSUME WholeBag
    PROVE  /\ ScoreSequence
           /\ \A topic \in EventTopics \cap BagTopics : EventSequence(topic)
<1>0. Frames \in Nat /\ Frames > 0 /\ ScoreCount \in Nat
  BY BagAssumption, ScoreCountIs DEF WholeBag
<1>1. ScoreSequence
  <2>1. bag["score_events"] = [i \in 1 .. ScoreCount |-> At(Frames, i - 1, i)]
    BY WholeBagIs
  <2>2. /\ Len(bag["score_events"]) = ScoreCount
        /\ \A i \in DOMAIN bag["score_events"] :
             bag["score_events"][i].id = i - 1 /\ bag["score_events"][i].ref = i
    BY <1>0, <2>1 DEF At
  <2>3. bag["scenario_events"] = IF ruleset = "descent_v1" THEN <<At(0, 0, 0)>> ELSE <<>>
    BY WholeBagIs
  <2>4. ruleset = "descent_v1" => Ids("scenario_events") = <<0>>
    BY <2>3 DEF Ids, At
  <2>5. QED
    BY <2>2, <2>4 DEF ScoreSequence
<1>2. ASSUME NEW topic \in EventTopics \cap BagTopics
      PROVE  EventSequence(topic)
  <2>1. bag[topic] = <<At(1, 0, 1), At(2, 1, 2)>>
    BY WholeBagIs
  <2>2. QED
    BY <2>1 DEF EventSequence, At
<1>3. QED
  BY <1>1, <1>2

\* The statuses of 2027 stand on their grids, and its decisions answer what was asked, on a
\* status that is fresh.
LEMMA WholeVfs ==
    ASSUME WholeBag, ruleset = "competition_2027_v1"
    PROVE  VfsGrid /\ DecisionsCorrelated
<1>0. Frames \in Nat /\ Frames > 0 /\ Freshness \in Nat /\ Freshness >= 2
  BY BagAssumption
<1>1. BagTopics = VfsTopics
  BY TopicsOf DEF WholeBag
<1>2. /\ {"attempt_status", "ground_truth"} \subseteq GridTopics \cap BagTopics
      /\ {"vehicle_status", "judge_decisions"} \subseteq BagTopics
      /\ "mission_events" \in EventTopics \cap BagTopics
  BY <1>1 DEF VfsTopics, CompetitionTopics, BaseTopics, GridTopics, EventTopics
<1>3. /\ bag["attempt_status"] = bag["ground_truth"]
      /\ DOMAIN bag["attempt_status"] = 1 .. Frames /\ Len(bag["attempt_status"]) = Frames
      /\ \A i \in 1 .. Frames : bag["attempt_status"][i].id = i - 1
  <2>1. /\ bag["attempt_status"] = [i \in 1 .. Frames |-> At(i, i - 1, 0)]
        /\ bag["ground_truth"] = [i \in 1 .. Frames |-> At(i, i - 1, 0)]
    BY <1>2, WholeBagIs
  <2>2. QED
    BY <1>0, <2>1 DEF At
<1> DEFINE half == (Frames + 1) \div 2
           vs == bag["vehicle_status"]
<1>4. /\ half \in Nat /\ half > 0 /\ DOMAIN vs = 1 .. half /\ Len(vs) = half
      /\ \A i \in 1 .. half : vs[i].t = 2 * i - 1 /\ vs[i].id = i - 1
  <2>1. half \in Nat /\ half > 0
    BY <1>0
  <2>2. vs = [i \in 1 .. half |-> At(2 * i - 1, i - 1, 0)]
    BY <1>2, WholeBagIs
  <2> HIDE DEF half
  <2>3. QED
    BY <2>1, <2>2 DEF At
<1>5. VfsGrid
  <2>1. Stamps("attempt_status") = Stamps("ground_truth")
    BY <1>3 DEF Stamps
  <2>2. \A i \in 1 .. Len(bag["attempt_status"]) - 1 :
          bag["attempt_status"][i + 1].id = bag["attempt_status"][i].id + 1
    BY <1>0, <1>3
  <2>3. Len(vs) = (Frames + 1) \div 2
    BY <1>4
  <2> HIDE DEF half, vs
  <2>4. 1 \in DOMAIN vs /\ vs[1].t = 1
    BY <1>4
  <2>5. vs # <<>>
    <3>1. DOMAIN <<>> = {}
      OBVIOUS
    <3>2. QED
      BY <2>4, <3>1
  <2>6. ASSUME NEW i \in 1 .. Len(vs) - 1
        PROVE  vs[i + 1].t = vs[i].t + 2 /\ vs[i + 1].id = vs[i].id + 1
    <3>1. i \in 1 .. half /\ i + 1 \in 1 .. half
      BY <1>4
    <3>2. /\ vs[i].t = 2 * i - 1 /\ vs[i].id = i - 1
          /\ vs[i + 1].t = 2 * (i + 1) - 1 /\ vs[i + 1].id = (i + 1) - 1
      BY <1>4, <3>1
    <3>3. QED
      BY <3>2
  <2>7. QED
    BY <2>1, <2>2, <2>3, <2>4, <2>5, <2>6 DEF VfsGrid, vs
<1>6. DecisionsCorrelated
  <2> DEFINE decisions == {bag["judge_decisions"][i] : i \in DOMAIN bag["judge_decisions"]}
             requests == {bag["mission_events"][i].id : i \in DOMAIN bag["mission_events"]}
             d0 == At(2, 0, 0)
             d1 == At(3, 1, 1)
  <2>1. 0 \in requests /\ 1 \in requests
    <3>1. bag["mission_events"] = <<At(1, 0, 1), At(2, 1, 2)>>
      BY <1>2, WholeBagIs
    <3>2. /\ DOMAIN bag["mission_events"] = 1 .. 2
          /\ bag["mission_events"][1].id = 0 /\ bag["mission_events"][2].id = 1
      BY <3>1 DEF At
    <3>3. QED
      BY <3>2
  <2>2. decisions = IF Frames = 1 THEN {d0} ELSE {d0, d1}
    <3>1. bag["judge_decisions"] =
            IF Frames = 1 THEN <<d0>> ELSE <<d0, d0, d1>>
      BY <1>2, WholeBagIs
    <3> HIDE DEF d0, d1
    <3>2. CASE Frames = 1
      BY <3>1, <3>2
    <3>3. CASE Frames # 1
      <4>1. bag["judge_decisions"] = <<d0, d0, d1>>
        BY <3>1, <3>3
      <4>2. /\ DOMAIN bag["judge_decisions"] = {1, 2, 3}
            /\ bag["judge_decisions"][1] = d0 /\ bag["judge_decisions"][2] = d0
            /\ bag["judge_decisions"][3] = d1
        BY <4>1
      <4>3. QED
        BY <3>3, <4>2
    <3>4. QED
      BY <3>2, <3>3
  <2>3. /\ d0.t = 2 /\ d0.id = 0 /\ d0.ref = 0 /\ d1.t = 3 /\ d1.id = 1 /\ d1.ref = 1
    BY DEF At
  <2>4. /\ 1 \in StampSet("vehicle_status")
        /\ 1 <= 2 /\ 2 <= 1 + Freshness /\ 1 <= 3 /\ 3 <= 1 + Freshness
    <3>1. 1 \in DOMAIN vs /\ vs[1].t = 1
      BY <1>4
    <3>2. QED
      BY <1>0, <3>1 DEF StampSet
  <2> HIDE DEF decisions, requests, d0, d1
  <2>5. decisions \subseteq {d0, d1} /\ decisions # {} /\ d0 # d1
    BY <2>2, <2>3
  <2>6. \A d, e \in decisions : d.id = e.id => d = e
    BY <2>3, <2>5
  <2>7. {d.id : d \in decisions} = 0 .. Cardinality(decisions) - 1
    <3>1. CASE Frames = 1
      <4>1. decisions = {d0} /\ Cardinality({d0}) = 1
        BY <2>2, <3>1, FS_Singleton
      <4>2. {d.id : d \in decisions} = {0} /\ 0 .. 1 - 1 = {0}
        BY <2>3, <4>1
      <4>3. QED
        BY <4>1, <4>2
    <3>2. CASE Frames # 1
      <4>1. decisions = {d0, d1}
        BY <2>2, <3>2
      <4>2. IsFiniteSet({d0}) /\ Cardinality({d0}) = 1
        BY FS_Singleton
      <4>3. Cardinality({d0} \cup {d1}) = 2
        BY <2>5, <4>2, FS_AddElement
      <4>4. {d0} \cup {d1} = {d0, d1}
        OBVIOUS
      <4>5. {d.id : d \in decisions} = {0, 1} /\ 0 .. 2 - 1 = {0, 1}
        BY <2>3, <4>1
      <4>6. QED
        BY <4>1, <4>3, <4>4, <4>5
    <3>3. QED
      BY <3>1, <3>2
  <2>8. ASSUME NEW d \in decisions
        PROVE  /\ d.ref \in requests
               /\ \E t \in StampSet("vehicle_status") : t <= d.t /\ d.t <= t + Freshness
    BY <2>1, <2>3, <2>4, <2>5
  <2>9. QED
    BY <2>5, <2>6, <2>7, <2>8 DEF DecisionsCorrelated, decisions, requests
<1>7. QED
  BY <1>5, <1>6

\* A bag that holds all of the run passes every check (_validate_semantics).
LEMMA WholeIsValid ==
    ASSUME WholeBag
    PROVE  BagValid
<1>1. Inventory /\ Readable
  <2>1. Inventory
    BY WholeReads DEF Inventory
  <2>2. Readable
    BY WholeReads DEF Readable, Parses
  <2>3. QED
    BY <2>1, <2>2
<1>2. ruleset # "descent_v1" => PayloadGrid /\ EventSequence("payload_events") /\ EventSequence("mission_events")
  <2>1. ruleset # "descent_v1" => {"payload_events", "mission_events"} \subseteq EventTopics \cap BagTopics
    BY TopicsOf DEF WholeBag, EventTopics, CompetitionTopics
  <2>2. QED
    BY <2>1, WholePayloads, WholeEvents
<1>3. QED
  BY <1>1, <1>2, WholeFrames, WholeEvents, WholeVfs DEF BagValid

-----------------------------------------------------------------------------
(* A bag that is valid is whole, but for what nobody counts. *)

\* Every nonempty set of numbers has a least one.
LEMMA LeastExists ==
    ASSUME NEW T \in SUBSET Nat, T # {}
    PROVE  \E t \in T : \A u \in T : t <= u
<1>1. IsWellFoundedOn(OpToRel(<, Nat), Nat)
  BY NatLessThanWellFounded
<1>2. PICK t \in T : \A u \in T : ~ (<<u, t>> \in OpToRel(<, Nat))
  BY <1>1, WFMin
<1>3. ASSUME NEW u \in T PROVE t <= u
  <2>1. ~ (u < t)
    BY <1>2 DEF OpToRel
  <2>2. u \in Nat /\ t \in Nat
    OBVIOUS
  <2>3. QED
    BY <2>1, <2>2
<1>4. QED
  BY <1>3

\* Stamp and number of what is in the bag belong together, as they were published.
LEMMA InTheBag ==
    ASSUME BagInv, OnlyScheduled, NEW topic \in VfsTopics, NEW j \in DOMAIN bag[topic]
    PROVE  /\ topic = "clock" => bag[topic][j].id = 0
           /\ topic \in GridTopics => bag[topic][j].id = bag[topic][j].t - 1
           /\ topic = "vehicle_status" =>
                bag[topic][j].t % 2 = 1 /\ bag[topic][j].id = bag[topic][j].t \div 2
           /\ topic = "scenario_events" => bag[topic][j].t = 0
           /\ topic = "score_events" => bag[topic][j].t = Frames /\ frame = Frames + 2
           /\ topic \in EventTopics =>
                bag[topic][j].id \in {0, 1} /\ bag[topic][j].t = bag[topic][j].id + 1
<1>0. Frames \in Nat /\ Frames > 0 /\ frame \in 0 .. Frames + 2
  BY BagAssumption DEF BagInv, BagTypeOK
<1>1. PICK k \in 0 .. frame - 1 : \E i \in DOMAIN Schedule(topic, k) :
             SameSample(bag[topic][j], Schedule(topic, k)[i])
  BY DEF OnlyScheduled
<1>2. PICK i \in DOMAIN Schedule(topic, k) : SameSample(bag[topic][j], Schedule(topic, k)[i])
  BY <1>1
<1>3. k \in 0 .. Frames + 1 /\ k \in Nat /\ k < frame
  BY <1>0
<1> DEFINE s == Schedule(topic, k)[i]
<1>4. bag[topic][j].t = s.t /\ bag[topic][j].id = s.id
  BY <1>2 DEF SameSample
<1>5. topic = "clock" => s.id = 0
  BY <1>3, ScheduleIs DEF At
<1>6. topic \in GridTopics => s.id = s.t - 1
  BY <1>3, ScheduleIs DEF At
<1>7. topic = "vehicle_status" => s.t % 2 = 1 /\ s.id = s.t \div 2
  BY <1>3, ScheduleIs DEF At
<1>8. topic = "scenario_events" => s.t = 0
  BY <1>3, ScheduleIs DEF At
<1>9. topic = "score_events" => s.t = Frames /\ frame = Frames + 2
  <2> SUFFICES ASSUME topic = "score_events" PROVE s.t = Frames /\ frame = Frames + 2
    OBVIOUS
  <2>1. Schedule(topic, k) =
          IF k = Frames + 1 THEN [n \in 1 .. ScoreCount |-> At(Frames, n - 1, n)] ELSE <<>>
    BY <1>3, ScheduleIs
  <2>2. k = Frames + 1
    BY <2>1
  <2>3. s.t = Frames
    <3>1. Schedule(topic, k) = [n \in 1 .. ScoreCount |-> At(Frames, n - 1, n)]
      BY <2>1, <2>2
    <3>2. s = At(Frames, i - 1, i)
      BY <3>1
    <3>3. QED
      BY <3>2 DEF At
  <2>4. QED
    BY <1>0, <1>3, <2>2, <2>3
<1>10. topic \in EventTopics => s.id \in {0, 1} /\ s.t = s.id + 1
  BY <1>3, ScheduleIs DEF At
<1> HIDE DEF s
<1>11. QED
  BY <1>4, <1>5, <1>6, <1>7, <1>8, <1>9, <1>10

\* The vehicle's status has its stamps every second frame from the first on.
LEMMA VehicleStamps ==
    ASSUME BagInv, OnlyScheduled, VfsGrid
    PROVE  /\ Len(bag["vehicle_status"]) = (Frames + 1) \div 2
           /\ \A i \in 1 .. Len(bag["vehicle_status"]) : bag["vehicle_status"][i].t = 2 * i - 1
<1> DEFINE vs == bag["vehicle_status"]
<1>0. Frames \in Nat /\ Frames > 0
  BY BagAssumption
<1>1. /\ vs \in Seq(Samples) /\ Len(vs) = (Frames + 1) \div 2 /\ vs[1].t \in {1, 2}
      /\ \A i \in 1 .. Len(vs) - 1 : vs[i + 1].t = vs[i].t + 2
  BY DEF BagInv, VfsGrid, VfsTopics
<1>2. \A i \in DOMAIN vs : vs[i].t % 2 = 1
  BY InTheBag DEF VfsTopics
<1> HIDE DEF vs
<1>3. Len(vs) \in Nat /\ DOMAIN vs = 1 .. Len(vs)
  BY <1>1
<1> DEFINE Off == {i \in 1 .. Len(vs) : vs[i].t # 2 * i - 1}
<1>4. ASSUME Off # {}
      PROVE  FALSE
  <2>0. Off \in SUBSET Nat
    BY <1>3
  <2>1. PICK i \in Off : \A u \in Off : i <= u
    BY <1>4, <2>0, LeastExists
  <2>2. CASE i = 1
    BY <1>1, <1>2, <1>3, <2>1, <2>2
  <2>3. CASE i # 1
    <3>1. i - 1 \in 1 .. Len(vs) - 1 /\ i - 1 \in 1 .. Len(vs) /\ (i - 1) + 1 = i
      BY <1>3, <2>1, <2>3
    <3>2. i - 1 \notin Off
      BY <1>3, <2>1, <3>1
    <3>3. vs[i - 1].t = 2 * (i - 1) - 1
      BY <3>1, <3>2
    <3>4. vs[i].t = vs[i - 1].t + 2
      BY <1>1, <3>1
    <3>5. QED
      BY <2>1, <3>1, <3>3, <3>4
  <2>4. QED
    BY <2>2, <2>3
<1>5. QED
  BY <1>1, <1>4 DEF vs

\* In a valid bag nothing is missing of a topic that is counted.
LEMMA NothingMissing ==
    ASSUME BagInv, OnlyScheduled, BagValid,
           NEW topic \in BagTopics, topic \notin EventTopics, topic # "judge_decisions",
           NEW k \in 0 .. Frames + 1, NEW i \in DOMAIN Schedule(topic, k)
    PROVE  \E j \in DOMAIN bag[topic] : SameSample(bag[topic][j], Schedule(topic, k)[i])
<1> DEFINE sample == Schedule(topic, k)[i]
<1>0. Frames \in Nat /\ Frames > 0 /\ k \in Nat /\ ruleset \in Rulesets /\ topic \in VfsTopics
  BY BagAssumption, TopicsOf DEF BagInv, BagTypeOK
<1>a. /\ bag[topic] \in Seq(Samples) /\ DOMAIN bag[topic] = 1 .. Len(bag[topic])
      /\ Len(bag[topic]) \in Nat
  BY <1>0 DEF BagInv
<1>b. ASSUME NEW j \in DOMAIN bag[topic], bag[topic][j].t = sample.t, bag[topic][j].id = sample.id
      PROVE  \E n \in DOMAIN bag[topic] : SameSample(bag[topic][n], Schedule(topic, k)[i])
  BY <1>b DEF SameSample
<1>c. ASSUME NEW seq, [n \in DOMAIN bag[topic] |-> bag[topic][n].t] = seq,
             NEW n \in DOMAIN seq
      PROVE  n \in DOMAIN bag[topic] /\ bag[topic][n].t = seq[n]
  BY <1>c
<1>d. ASSUME NEW seq, [n \in DOMAIN bag[topic] |-> bag[topic][n].id] = seq,
             NEW n \in DOMAIN seq
      PROVE  n \in DOMAIN bag[topic] /\ bag[topic][n].id = seq[n]
  BY <1>d
<1>1. CASE topic = "artifact_status"
  <2>1. k = 0 /\ i \in 1 .. 2 /\ sample.t = 0 /\ sample.id = i - 1
    BY <1>1, ScheduleIs, <1>0 DEF At
  <2>2. Ids(topic) = <<0, 1>> /\ Stamps(topic) = <<0, 0>>
    BY <1>1 DEF BagValid, StartupSequence
  <2>3. i \in DOMAIN bag[topic] /\ bag[topic][i].t = 0
    <3>1. i \in DOMAIN <<0, 0>> /\ <<0, 0>>[i] = 0
      BY <2>1
    <3>2. QED
      BY <1>c, <2>2, <3>1 DEF Stamps
  <2>4. bag[topic][i].id = i - 1
    <3>1. i \in DOMAIN <<0, 1>> /\ <<0, 1>>[i] = i - 1
      BY <2>1
    <3>2. QED
      BY <1>d, <2>2, <3>1 DEF Ids
  <2>5. QED
    BY <1>b, <2>1, <2>3, <2>4
<1>2. CASE topic = "clock"
  <2>1. k \in 0 .. Frames /\ sample.t = k /\ sample.id = 0
    BY <1>0, <1>2, ScheduleIs DEF At
  <2>2. \A j \in DOMAIN bag[topic] : bag[topic][j].id = 0
    BY <1>0, <1>2, InTheBag
  <2>3. \E j \in DOMAIN bag[topic] : bag[topic][j].t = k
    <3>1. CASE k = 0
      <4>1. bag[topic] # <<>> /\ bag[topic][1].t = 0
        BY <1>2 DEF BagValid, Inventory, ConfiguredGrid
      <4>2. 1 \in DOMAIN bag[topic]
        BY <1>a, <4>1
      <4>3. QED
        BY <3>1, <4>1, <4>2
    <3>2. CASE k # 0
      <4>1. Stamps("onboard") = [n \in 1 .. Frames |-> n]
        BY DEF BagValid, ConfiguredGrid
      <4>2. k \in 1 .. Frames
        BY <2>1, <3>2
      <4>3. k \in DOMAIN bag["onboard"] /\ bag["onboard"][k].t = k
        BY <4>1, <4>2 DEF Stamps
      <4>4. k \in StampSet("onboard")
        BY <4>3 DEF StampSet
      <4>5. k \in StampSet("clock")
        BY <4>4 DEF BagValid, PhysicalLifecycle
      <4>6. QED
        BY <1>2, <4>5 DEF StampSet
    <3>3. QED
      BY <3>1, <3>2
  <2>4. QED
    BY <1>b, <2>1, <2>2, <2>3
<1>3. CASE topic = "run_state"
  <2>1. Schedule(topic, k) =
          IF k = 0 THEN <<At(0, 1, 0), At(0, 2, 0), At(0, 3, 0)>>
          ELSE IF k = Frames + 1 THEN <<At(Frames, 4, 0)>> ELSE <<>>
    BY <1>0, <1>3, ScheduleIs
  <2>2. \/ sample.t = 0 /\ sample.id \in 1 .. 3
        \/ sample.t = Frames /\ sample.id = 4
    BY <1>0, <2>1 DEF At
  <2>3. Ids(topic) = <<1, 2, 3, 4>> /\ Stamps(topic) = <<0, 0, 0, Frames>>
    BY <1>3 DEF BagValid, PhysicalLifecycle, ConfiguredGrid
  <2> DEFINE n == sample.id
  <2>4. n \in 1 .. 4 /\ sample.t = <<0, 0, 0, Frames>>[n] /\ <<1, 2, 3, 4>>[n] = n
    BY <2>2
  <2>5. n \in DOMAIN <<1, 2, 3, 4>> /\ n \in DOMAIN <<0, 0, 0, Frames>>
    BY <2>4
  <2>6. n \in DOMAIN bag[topic] /\ bag[topic][n].t = <<0, 0, 0, Frames>>[n]
    BY <1>c, <2>3, <2>5 DEF Stamps
  <2>7. bag[topic][n].id = <<1, 2, 3, 4>>[n]
    BY <1>d, <2>3, <2>5 DEF Ids
  <2>8. QED
    BY <1>b, <2>4, <2>6, <2>7
<1>4. CASE topic \in GridTopics
  <2>1. k \in 1 .. Frames /\ sample.t = k /\ sample.id = k - 1
    BY <1>0, <1>4, ScheduleIs DEF At
  <2>2. \A j \in DOMAIN bag[topic] : bag[topic][j].id = bag[topic][j].t - 1
    BY <1>0, <1>4, InTheBag
  <2>3. Stamps(topic) = [n \in 1 .. Frames |-> n]
    <3>1. \A t \in {"onboard", "observer", "ground_truth"} : Stamps(t) = [n \in 1 .. Frames |-> n]
      BY DEF BagValid, ConfiguredGrid
    <3>2. topic = "range" => Stamps(topic) = Stamps("ground_truth")
      <4>1. topic = "range" => ruleset # "descent_v1"
        BY DEF BagTopics, BaseTopics
      <4>2. QED
        BY <4>1 DEF BagValid, PayloadGrid
    <3>3. topic = "attempt_status" => Stamps(topic) = Stamps("ground_truth")
      <4>1. topic = "attempt_status" => ruleset = "competition_2027_v1"
        BY <1>0 DEF BagTopics, BaseTopics, CompetitionTopics, Rulesets
      <4>2. QED
        BY <4>1 DEF BagValid, VfsGrid
    <3>4. QED
      BY <1>4, <3>1, <3>2, <3>3 DEF GridTopics
  <2>4. k \in DOMAIN bag[topic] /\ bag[topic][k].t = k
    BY <2>1, <2>3 DEF Stamps
  <2>5. QED
    BY <1>b, <2>1, <2>2, <2>4
<1>5. CASE topic = "payload_state"
  <2>1. k \in 1 .. Frames /\ i \in 1 .. 3 /\ sample.t = k /\ sample.id = i + 1
    <3>1. Schedule(topic, k) =
            IF k \in 1 .. Frames THEN <<At(k, 2, 0), At(k, 3, 0), At(k, 4, 0)>> ELSE <<>>
      BY <1>0, <1>5, ScheduleIs
    <3>2. QED
      BY <3>1 DEF At
  <2>2. PayloadGrid
    <3>1. ruleset # "descent_v1"
      BY <1>5 DEF BagTopics, BaseTopics
    <3>2. QED
      BY <3>1 DEF BagValid
  <2>3. k \in StampSet("payload_state")
    <3>1. Stamps("ground_truth") = [n \in 1 .. Frames |-> n]
      BY DEF BagValid, ConfiguredGrid
    <3>2. k \in DOMAIN bag["ground_truth"] /\ bag["ground_truth"][k].t = k
      BY <2>1, <3>1 DEF Stamps
    <3>3. k \in StampSet("ground_truth")
      BY <3>2 DEF StampSet
    <3>4. QED
      BY <2>2, <3>3 DEF PayloadGrid
  <2>4. {bag[topic][n].id : n \in {j \in DOMAIN bag[topic] : bag[topic][j].t = k}} = {2, 3, 4}
    <3>1. \A t \in StampSet("payload_state") :
            {bag["payload_state"][n].id : n \in {j \in DOMAIN bag["payload_state"] :
                                                   bag["payload_state"][j].t = t}} = {2, 3, 4}
      BY <2>2 DEF PayloadGrid
    <3>2. QED
      BY <1>5, <2>3, <3>1
  <2>5. i + 1 \in {2, 3, 4}
    BY <2>1
  <2>6. PICK n \in {j \in DOMAIN bag[topic] : bag[topic][j].t = k} : bag[topic][n].id = i + 1
    BY <2>4, <2>5
  <2>7. QED
    BY <1>b, <2>1, <2>6
<1>6. CASE topic = "vehicle_status"
  <2>1. k \in 1 .. Frames /\ k % 2 = 1 /\ sample.t = k /\ sample.id = k \div 2
    BY <1>0, <1>6, ScheduleIs DEF At
  <2>2. VfsGrid
    <3>1. ruleset = "competition_2027_v1"
      BY <1>0, <1>6 DEF BagTopics, BaseTopics, CompetitionTopics, Rulesets
    <3>2. QED
      BY <3>1 DEF BagValid
  <2> DEFINE n == (k \div 2) + 1
  <2>3. n \in 1 .. (Frames + 1) \div 2 /\ 2 * n - 1 = k
    BY <1>0, <2>1
  <2>4. n \in DOMAIN bag[topic] /\ bag[topic][n].t = k
    BY <1>6, <1>a, <2>2, <2>3, VehicleStamps
  <2>5. bag[topic][n].id = k \div 2
    BY <1>0, <1>6, <2>4, InTheBag
  <2>6. QED
    BY <1>b, <2>1, <2>4, <2>5
<1>7. CASE topic = "scenario_events"
  <2>1. ruleset = "descent_v1" /\ sample.t = 0 /\ sample.id = 0
    BY <1>0, <1>7, ScheduleIs DEF At
  <2>2. Ids(topic) = <<0>>
    BY <1>7, <2>1 DEF BagValid, ScoreSequence
  <2>3. 1 \in DOMAIN bag[topic] /\ bag[topic][1].id = 0
    BY <2>2 DEF Ids
  <2>4. bag[topic][1].t = 0
    BY <1>0, <1>7, <2>3, InTheBag
  <2>5. QED
    BY <1>b, <2>1, <2>3, <2>4
<1>8. CASE topic = "score_events"
  <2> DEFINE scores == [n \in 1 .. ScoreCount |-> At(Frames, n - 1, n)]
  <2>1. Schedule(topic, k) = IF k = Frames + 1 THEN scores ELSE <<>>
    BY <1>0, <1>8, ScheduleIs
  <2>2. i \in 1 .. ScoreCount /\ Schedule(topic, k) = scores
    BY <2>1
  <2>3. sample.t = Frames /\ sample.id = i - 1
    BY <2>2 DEF At
  <2>4. /\ Len(bag[topic]) = ScoreCount
        /\ \A n \in DOMAIN bag[topic] : bag[topic][n].id = n - 1
    BY <1>8 DEF BagValid, ScoreSequence
  <2>5. i \in DOMAIN bag[topic]
    BY <1>a, <2>2, <2>4
  <2>6. bag[topic][i].t = Frames
    BY <1>0, <1>8, <2>5, InTheBag
  <2>7. QED
    BY <1>b, <2>3, <2>4, <2>5, <2>6
<1>9. QED
  BY <1>0, <1>1, <1>2, <1>3, <1>4, <1>5, <1>6, <1>7, <1>8, TopicIs

\* What is wrong with a valid bag is that it lacks the last events of a mission or a payload,
\* or a decision.
LEMMA ValidIsEvidence ==
    ASSUME BagInv, OnlyScheduled, FaultsInv, BagValid
    PROVE  /\ frame = Frames + 2
           /\ \A f \in faults :
                /\ f.kind = "lost"
                /\ f.topic \in {"mission_events", "payload_events", "judge_decisions"}
                /\ \A i \in DOMAIN bag[f.topic] :
                     bag[f.topic][i].id < f.id \/ f.topic = "judge_decisions"
<1>0. /\ Frames \in Nat /\ Frames > 0 /\ ruleset \in Rulesets /\ frame \in 0 .. Frames + 2
      /\ faults \subseteq [topic : VfsTopics, id : Nat, kind : Damage]
  BY BagAssumption DEF BagInv, BagTypeOK
<1>1. frame = Frames + 2
  <2>1. "score_events" \in BagTopics /\ "score_events" \in VfsTopics
    BY <1>0, TopicsOf DEF BaseTopics
  <2>2. bag["score_events"] # <<>> /\ bag["score_events"] \in Seq(Samples)
    BY <2>1 DEF BagValid, Inventory, BagInv
  <2>3. 1 \in DOMAIN bag["score_events"]
    BY <2>2
  <2>4. QED
    BY <2>1, <2>3, InTheBag
<1>2. ASSUME NEW f \in faults
      PROVE  /\ f.kind = "lost"
             /\ f.topic \in {"mission_events", "payload_events", "judge_decisions"}
             /\ \A i \in DOMAIN bag[f.topic] :
                  bag[f.topic][i].id < f.id \/ f.topic = "judge_decisions"
  <2>1. f.kind \in Damage /\ f.topic \in BagTopics /\ f.topic \in VfsTopics /\ f.id \in Nat
    BY <1>0 DEF FaultsInv
  <2>2. f.kind # "early"
    <3>1. ~clockFirst
      BY DEF BagValid, StartupSequence
    <3>2. f.kind = "early" => clockFirst
      BY DEF FaultsInv
    <3>3. QED
      BY <3>1, <3>2
  <2>3. f.kind # "damaged"
    BY <2>1 DEF FaultsInv, BagValid, Readable, Parses
  <2>4. f.kind = "lost"
    BY <2>1, <2>2, <2>3 DEF Damage
  <2>5. CASE f.topic = "judge_decisions"
    BY <2>4, <2>5
  <2>6. CASE f.topic # "judge_decisions"
    <3>1. PICK k \in 0 .. frame - 1 : \E i \in DOMAIN Schedule(f.topic, k) :
            /\ Schedule(f.topic, k)[i].id = f.id
            /\ \A j \in DOMAIN bag[f.topic] :
                 ~ SameSample(bag[f.topic][j], Schedule(f.topic, k)[i])
      BY <2>4, <2>6 DEF FaultsInv, IsMissing
    <3>2. PICK i \in DOMAIN Schedule(f.topic, k) :
            /\ Schedule(f.topic, k)[i].id = f.id
            /\ \A j \in DOMAIN bag[f.topic] :
                 ~ SameSample(bag[f.topic][j], Schedule(f.topic, k)[i])
      BY <3>1
    <3>3. k \in 0 .. Frames + 1
      BY <1>0
    <3>4. f.topic \in EventTopics
      BY <2>1, <2>6, <3>2, <3>3, NothingMissing
    <3>5. k \in {1, 2} /\ f.id = k - 1 /\ Schedule(f.topic, k)[i].t = k
      BY <2>1, <3>2, <3>3, <3>4, ScheduleIs DEF At
    <3>6. \A j \in DOMAIN bag[f.topic] :
            /\ bag[f.topic][j].id \in {0, 1} /\ bag[f.topic][j].t = bag[f.topic][j].id + 1
            /\ bag[f.topic][j].id # f.id
      BY <2>1, <3>2, <3>4, <3>5, InTheBag DEF SameSample
    <3>7. EventSequence(f.topic)
      <4>1. ruleset # "descent_v1"
        BY <2>1, <3>4 DEF BagTopics, BaseTopics, EventTopics
      <4>2. QED
        BY <3>4, <4>1 DEF BagValid, EventTopics
    <3>8. bag[f.topic] \in Seq(Samples) /\ bag[f.topic] # <<>>
      BY <2>1, <3>7 DEF EventSequence, BagInv
    <3>9. 1 \in DOMAIN bag[f.topic] /\ bag[f.topic][1].id = 0
      BY <3>7, <3>8 DEF EventSequence
    <3>10. f.id = 1
      BY <3>5, <3>6, <3>9
    <3>11. QED
      BY <2>4, <3>4, <3>6, <3>10 DEF EventTopics
  <2>7. QED
    BY <2>5, <2>6
<1>3. QED
  BY <1>1, <1>2

-----------------------------------------------------------------------------
(* How the bag grows. *)

\* What a run publishes depends on its ruleset only.
LEMMA ScheduleStays ==
    ASSUME ruleset' = ruleset
    PROVE  /\ BagTopics' = BagTopics
           /\ \A topic \in VfsTopics, k \in 0 .. Frames + 1 : Schedule(topic, k)' = Schedule(topic, k)
<1>1. BagTopics' = BagTopics
  BY DEF BagTopics
<1>2. ScoreCount' = ScoreCount
  BY DEF ScoreCount
<1>3. \A topic \in VfsTopics, k \in 0 .. Frames + 1 : Schedule(topic, k)' = Schedule(topic, k)
  BY <1>2 DEF Schedule
<1>4. QED
  BY <1>1, <1>3

\* So do the topics that are whole.
LEMMA WholeStays ==
    ASSUME ruleset' = ruleset, NEW topic \in VfsTopics, NEW n \in 0 .. Frames + 2, frame' = n
    PROVE  Whole(topic, frame)' = Whole(topic, n)
<1>1. ScoreCount' = ScoreCount
  BY DEF ScoreCount
<1>2. Grid(frame)' = Grid(n)
  BY DEF Grid
<1>3. QED
  BY <1>1, <1>2 DEF Whole

\* What is left of a stamp's samples when one of them is damaged.
LEMMA DamagedIs ==
    ASSUME NEW samples \in Seq(Samples), NEW i \in DOMAIN samples, NEW kind \in Damage
    PROVE  /\ \A j \in DOMAIN Damaged(samples, i, kind) : \E n \in DOMAIN samples :
                /\ SameSample(Damaged(samples, i, kind)[j], samples[n])
                /\ kind = "lost" => n # i
           /\ kind = "damaged" =>
                \E j \in DOMAIN Damaged(samples, i, kind) : ~ Damaged(samples, i, kind)[j].whole
<1>0. i \in 1 .. Len(samples) /\ Len(samples) \in Nat /\ DOMAIN samples = 1 .. Len(samples)
  OBVIOUS
<1>1. CASE kind = "lost"
  <2> DEFINE before == SubSeq(samples, 1, i - 1)
             after == SubSeq(samples, i + 1, Len(samples))
             d == before \o after
  <2>1. d = Damaged(samples, i, kind)
    BY <1>1 DEF Damaged
  <2>2. /\ before \in Seq(Samples) /\ Len(before) = i - 1
        /\ \A m \in 1 .. i - 1 : before[m] = samples[m]
    BY <1>0, SubSeqProperties
  <2>3. /\ after \in Seq(Samples) /\ Len(after) = Len(samples) - i
        /\ \A m \in 1 .. Len(samples) - i : after[m] = samples[i + m]
    BY <1>0, SubSeqProperties
  <2> HIDE DEF before, after
  <2>4. /\ d \in Seq(Samples) /\ Len(d) = Len(samples) - 1
        /\ \A m \in 1 .. Len(d) : d[m] = IF m <= Len(before) THEN before[m] ELSE after[m - Len(before)]
    <3>1. /\ d \in Seq(Samples) /\ Len(d) = Len(before) + Len(after)
          /\ \A m \in 1 .. Len(before) + Len(after) :
               d[m] = IF m <= Len(before) THEN before[m] ELSE after[m - Len(before)]
      BY <2>2, <2>3, ConcatProperties
    <3>2. Len(before) + Len(after) = Len(samples) - 1
      BY <1>0, <2>2, <2>3
    <3> HIDE DEF d
    <3>3. QED
      BY <3>1, <3>2
  <2> HIDE DEF d
  <2>5. ASSUME NEW m \in DOMAIN d
        PROVE  \E n \in DOMAIN samples : d[m] = samples[n] /\ n # i
    <3>1. m \in 1 .. Len(samples) - 1
      BY <1>0, <2>4
    <3>2. CASE m <= i - 1
      <4>1. d[m] = samples[m] /\ m \in DOMAIN samples /\ m # i
        BY <1>0, <2>2, <2>4, <3>1, <3>2
      <4>2. QED
        BY <4>1
    <3>3. CASE ~ m <= i - 1
      <4>1. m - (i - 1) \in 1 .. Len(samples) - i /\ i + (m - (i - 1)) = m + 1
        BY <1>0, <3>1, <3>3
      <4>2. d[m] = after[m - (i - 1)]
        BY <1>0, <2>2, <2>4, <3>1, <3>3
      <4>3. d[m] = samples[m + 1] /\ m + 1 \in DOMAIN samples /\ m + 1 # i
        BY <1>0, <2>3, <3>1, <3>3, <4>1, <4>2
      <4>4. QED
        BY <4>3
    <3>4. QED
      BY <3>2, <3>3
  <2>6. QED
    BY <1>1, <2>1, <2>5 DEF SameSample
<1>2. CASE kind # "lost"
  <2> DEFINE d == [samples EXCEPT ![i] = [@ EXCEPT !.whole = (kind # "damaged")]]
  <2>1. d = Damaged(samples, i, kind)
    BY <1>2 DEF Damaged
  <2>2. DOMAIN d = DOMAIN samples /\ \A j \in DOMAIN samples : j # i => d[j] = samples[j]
    OBVIOUS
  <2>3. /\ d[i].t = samples[i].t /\ d[i].id = samples[i].id
        /\ kind = "damaged" => ~ d[i].whole
    <3>1. samples[i] \in Samples
      BY <1>0
    <3>2. d[i] = [samples[i] EXCEPT !.whole = (kind # "damaged")]
      BY <1>0
    <3> HIDE DEF d
    <3>3. QED
      BY <3>1, <3>2 DEF Samples
  <2> HIDE DEF d
  <2>4. \A j \in DOMAIN d : SameSample(d[j], samples[j])
    BY <2>2, <2>3 DEF SameSample
  <2>5. QED
    BY <1>2, <2>1, <2>2, <2>3, <2>4
<1>3. QED
  BY <1>1, <1>2

\* A stamp adds samples of its schedule: all of them, or, with a fault recorded, what the
\* fault leaves.
Added(add) ==
    /\ add \in [VfsTopics -> Seq(Samples)]
    /\ \A topic \in VfsTopics : bag'[topic] = bag[topic] \o add[topic]
    /\ \A topic \in VfsTopics : \A j \in DOMAIN add[topic] :
         \E n \in DOMAIN Schedule(topic, frame) :
           SameSample(add[topic][j], Schedule(topic, frame)[n])

\* Nothing happened to what was added.
AddedAll(add) ==
    /\ UNCHANGED <<faults, clockFirst>>
    /\ bagProcess = "alive" =>
         \A topic \in VfsTopics :
           add[topic] = IF topic \in BagTopics THEN Schedule(topic, frame) ELSE <<>>

\* Something happened to one sample, and it can be seen.
AddedRest(add, topic, kind, i) ==
    /\ faults' = faults \cup
         {[topic |-> topic, id |-> Schedule(topic, frame)[i].id, kind |-> kind]}
    /\ clockFirst \/ kind = "early" => clockFirst'
    /\ kind = "lost" =>
         \A j \in DOMAIN add[topic] : \E n \in DOMAIN Schedule(topic, frame) :
           n # i /\ SameSample(add[topic][j], Schedule(topic, frame)[n])
    /\ kind = "damaged" => \E j \in DOMAIN add[topic] : ~ add[topic][j].whole

LEMMA BagGrows ==
    ASSUME BagInv, PublishFrame
    PROVE  \E add : /\ Added(add)
                    /\ \/ AddedAll(add)
                       \/ \E topic \in BagTopics, kind \in Damage :
                            \E i \in DOMAIN Schedule(topic, frame) : AddedRest(add, topic, kind, i)
<1>0. /\ frame \in 0 .. Frames + 1 /\ ruleset \in Rulesets /\ BagTopics \subseteq VfsTopics
      /\ bag \in [VfsTopics -> Seq(Samples)]
  BY BagAssumption, TopicsOf DEF BagInv, BagTypeOK, PublishFrame
<1> DEFINE recorded(topic) ==
             IF bagProcess = "alive" /\ topic \in BagTopics THEN Schedule(topic, frame) ELSE <<>>
<1>1. \/ /\ bag' = [topic \in VfsTopics |-> bag[topic] \o recorded(topic)]
         /\ UNCHANGED <<faults, clockFirst>>
      \/ \E topic \in BagTopics, kind \in Damage :
           \E i \in DOMAIN recorded(topic) :
             /\ faults' = faults \cup
                  {[topic |-> topic, id |-> recorded(topic)[i].id, kind |-> kind]}
             /\ clockFirst' = (clockFirst \/ kind = "early")
             /\ bag' = [other \in VfsTopics |->
                          bag[other] \o IF other = topic
                                        THEN Damaged(recorded(other), i, kind)
                                        ELSE recorded(other)]
  BY DEF PublishFrame
<1>2. \A topic \in VfsTopics : recorded(topic) \in Seq(Samples)
  <2>1. \A topic \in VfsTopics : Schedule(topic, frame) \in Seq(Samples)
    BY <1>0, ScheduleSamples
  <2>2. <<>> \in Seq(Samples)
    OBVIOUS
  <2>3. QED
    BY <2>1, <2>2
<1>3. \A topic : DOMAIN recorded(topic) # {} => recorded(topic) = Schedule(topic, frame)
  OBVIOUS
<1>4. bagProcess = "alive" =>
        \A topic \in VfsTopics :
          recorded(topic) = IF topic \in BagTopics THEN Schedule(topic, frame) ELSE <<>>
  OBVIOUS
<1> HIDE DEF recorded
<1>5. \A topic \in VfsTopics : \A j \in DOMAIN recorded(topic) :
        \E n \in DOMAIN Schedule(topic, frame) :
          SameSample(recorded(topic)[j], Schedule(topic, frame)[n])
  BY <1>3 DEF SameSample
<1>6. CASE /\ bag' = [topic \in VfsTopics |-> bag[topic] \o recorded(topic)]
           /\ UNCHANGED <<faults, clockFirst>>
  <2> DEFINE add == [topic \in VfsTopics |-> recorded(topic)]
  <2>1. add \in [VfsTopics -> Seq(Samples)] /\ \A topic \in VfsTopics : add[topic] = recorded(topic)
    BY <1>2
  <2> HIDE DEF add
  <2>2. \A topic \in VfsTopics : bag'[topic] = bag[topic] \o add[topic]
    BY <1>6, <2>1
  <2>3. Added(add)
    BY <1>5, <2>1, <2>2 DEF Added
  <2>4. AddedAll(add)
    BY <1>4, <1>6, <2>1 DEF AddedAll
  <2>5. QED
    BY <2>3, <2>4
<1>7. CASE \E topic \in BagTopics, kind \in Damage :
             \E i \in DOMAIN recorded(topic) :
               /\ faults' = faults \cup
                    {[topic |-> topic, id |-> recorded(topic)[i].id, kind |-> kind]}
               /\ clockFirst' = (clockFirst \/ kind = "early")
               /\ bag' = [other \in VfsTopics |->
                            bag[other] \o IF other = topic
                                          THEN Damaged(recorded(other), i, kind)
                                          ELSE recorded(other)]
  <2>1. PICK topic \in BagTopics, kind \in Damage :
             \E i \in DOMAIN recorded(topic) :
               /\ faults' = faults \cup
                    {[topic |-> topic, id |-> recorded(topic)[i].id, kind |-> kind]}
               /\ clockFirst' = (clockFirst \/ kind = "early")
               /\ bag' = [other \in VfsTopics |->
                            bag[other] \o IF other = topic
                                          THEN Damaged(recorded(other), i, kind)
                                          ELSE recorded(other)]
    BY <1>7
  <2>2. PICK i \in DOMAIN recorded(topic) :
               /\ faults' = faults \cup
                    {[topic |-> topic, id |-> recorded(topic)[i].id, kind |-> kind]}
               /\ clockFirst' = (clockFirst \/ kind = "early")
               /\ bag' = [other \in VfsTopics |->
                            bag[other] \o IF other = topic
                                          THEN Damaged(recorded(other), i, kind)
                                          ELSE recorded(other)]
    BY <2>1
  <2> DEFINE left == Damaged(recorded(topic), i, kind)
             add == [other \in VfsTopics |-> IF other = topic THEN left ELSE recorded(other)]
  <2>3. topic \in VfsTopics /\ recorded(topic) \in Seq(Samples)
    BY <1>0, <1>2
  <2>4. recorded(topic) = Schedule(topic, frame)
    BY <1>3
  <2>5. left \in Seq(Samples)
    BY <2>3, DamagedSamples
  <2>6. /\ \A j \in DOMAIN left : \E n \in DOMAIN recorded(topic) :
             SameSample(left[j], recorded(topic)[n]) /\ (kind = "lost" => n # i)
        /\ kind = "damaged" => \E j \in DOMAIN left : ~ left[j].whole
    BY <2>3, DamagedIs
  <2>7. bag' = [other \in VfsTopics |->
                  bag[other] \o IF other = topic THEN left ELSE recorded(other)]
    BY <2>2
  <2> HIDE DEF left
  <2>8. /\ add \in [VfsTopics -> Seq(Samples)] /\ add[topic] = left
        /\ \A other \in VfsTopics : add[other] = IF other = topic THEN left ELSE recorded(other)
    BY <1>2, <2>3, <2>5
  <2> HIDE DEF add
  <2>9. \A other \in VfsTopics : bag'[other] = bag[other] \o add[other]
    BY <2>7, <2>8
  <2>10. \A other \in VfsTopics : \A j \in DOMAIN add[other] :
           \E n \in DOMAIN Schedule(other, frame) :
             SameSample(add[other][j], Schedule(other, frame)[n])
    <3> SUFFICES ASSUME NEW other \in VfsTopics, NEW j \in DOMAIN add[other]
                 PROVE  \E n \in DOMAIN Schedule(other, frame) :
                          SameSample(add[other][j], Schedule(other, frame)[n])
      OBVIOUS
    <3>1. CASE other = topic
      BY <2>4, <2>6, <2>8, <3>1
    <3>2. CASE other # topic
      BY <1>5, <2>8, <3>2
    <3>3. QED
      BY <3>1, <3>2
  <2>11. Added(add)
    BY <2>8, <2>9, <2>10 DEF Added
  <2>12. i \in DOMAIN Schedule(topic, frame) /\ AddedRest(add, topic, kind, i)
    <3>1. clockFirst \/ kind = "early" => clockFirst'
      BY <2>2
    <3>2. faults' = faults \cup
            {[topic |-> topic, id |-> Schedule(topic, frame)[i].id, kind |-> kind]}
      BY <2>2, <2>4
    <3>3. i \in DOMAIN Schedule(topic, frame)
      BY <2>4
    <3>4. kind = "lost" =>
            \A j \in DOMAIN add[topic] : \E n \in DOMAIN Schedule(topic, frame) :
              n # i /\ SameSample(add[topic][j], Schedule(topic, frame)[n])
      BY <2>4, <2>6, <2>8
    <3>5. kind = "damaged" => \E j \in DOMAIN add[topic] : ~ add[topic][j].whole
      BY <2>6, <2>8
    <3>6. QED
      BY <3>1, <3>2, <3>3, <3>4, <3>5 DEF AddedRest
  <2>13. QED
    BY <2>11, <2>12
<1>8. QED
  BY <1>1, <1>6, <1>7

\* An empty bag is all that was published before the first stamp.
LEMMA BagEvidenceInit ==
    BagInit => BagEvidenceInv
<1> SUFFICES ASSUME BagInit PROVE BagEvidenceInv
  OBVIOUS
<1>1. BagInv
  BY BagInvInit
<1>2. /\ frame = 0 /\ faults = {} /\ clockFirst = FALSE /\ bpc = "new" /\ bagProcess = "none"
      /\ verdict = "none" /\ bag = [topic \in VfsTopics |-> <<>>] /\ ruleset \in Rulesets
  BY DEF BagInit
<1>3. \A topic \in VfsTopics : Whole(topic, 0) = <<>>
  <2> SUFFICES ASSUME NEW topic \in VfsTopics PROVE Whole(topic, 0) = <<>>
    OBVIOUS
  <2>0. Frames \in Nat /\ 0 \in 0 .. Frames + 2 /\ 0 # Frames + 2 /\ Grid(0) = 0
    BY BagAssumption DEF Grid
  <2>1. CASE topic = "clock"
    <3>1. Whole(topic, 0) = [i \in 1 .. (IF 0 = Frames + 2 THEN Frames + 1 ELSE 0) |-> At(i - 1, 0, 0)]
      BY <2>0, <2>1, WholeIs
    <3>2. QED
      BY <2>0, <3>1
  <2>2. CASE topic \in GridTopics
    <3>1. Whole(topic, 0) = [i \in 1 .. Grid(0) |-> At(i, i - 1, 0)]
      BY <2>0, <2>2, WholeIs
    <3>2. QED
      BY <2>0, <3>1
  <2>3. CASE topic = "payload_state"
    <3> DEFINE sample(i) == At((i + 2) \div 3, 2 + ((i - 1) % 3), 0)
    <3>1. Whole(topic, 0) = [i \in 1 .. 3 * Grid(0) |-> sample(i)]
      BY <2>0, <2>3, WholeIs
    <3>2. 3 * Grid(0) = 0
      BY <2>0
    <3> HIDE DEF sample
    <3>3. Whole(topic, 0) = [i \in 1 .. 0 |-> sample(i)]
      BY <3>1, <3>2
    <3>4. [i \in 1 .. 0 |-> sample(i)] = <<>>
      OBVIOUS
    <3>5. QED
      BY <3>3, <3>4
  <2>4. CASE topic = "vehicle_status"
    <3> DEFINE sample(i) == At(2 * i - 1, i - 1, 0)
    <3>1. Whole(topic, 0) = [i \in 1 .. (Grid(0) + 1) \div 2 |-> sample(i)]
      BY <2>0, <2>4, WholeIs
    <3>2. (Grid(0) + 1) \div 2 = 0
      BY <2>0
    <3> HIDE DEF sample
    <3>3. Whole(topic, 0) = [i \in 1 .. 0 |-> sample(i)]
      BY <3>1, <3>2
    <3>4. [i \in 1 .. 0 |-> sample(i)] = <<>>
      OBVIOUS
    <3>5. QED
      BY <3>3, <3>4
  <2>5. CASE topic = "score_events"
    <3>1. Whole(topic, 0) =
            IF 0 = Frames + 2 THEN [i \in 1 .. ScoreCount |-> At(Frames, i - 1, i)] ELSE <<>>
      BY <2>0, <2>5, WholeIs
    <3>2. QED
      BY <2>0, <3>1
  <2>6. CASE topic \in EventTopics
    BY <2>0, <2>6, WholeIs
  <2>7. CASE topic \in {"artifact_status", "run_state", "scenario_events", "judge_decisions"}
    BY <2>0, <2>7, WholeIs
  <2>8. QED
    BY <2>1, <2>2, <2>3, <2>4, <2>5, <2>6, <2>7, TopicIs
<1>4. IntactInv
  BY <1>2, <1>3 DEF IntactInv
<1>5. OnlyScheduled /\ FaultsInv /\ PhaseInv /\ BagIsEvidence
  BY <1>2 DEF OnlyScheduled, FaultsInv, PhaseInv, BagIsEvidence
<1>6. QED
  BY <1>1, <1>4, <1>5 DEF BagEvidenceInv

\* A stamp is published (PublishFrame).
LEMMA PublishKeeps ==
    ASSUME BagEvidenceInv, PublishFrame
    PROVE  IntactInv' /\ OnlyScheduled' /\ FaultsInv' /\ PhaseInv' /\ BagIsEvidence'
<1>0. /\ BagInv /\ IntactInv /\ OnlyScheduled /\ FaultsInv /\ PhaseInv /\ BagIsEvidence
      /\ Frames \in Nat /\ Frames > 0 /\ ruleset \in Rulesets /\ BagTopics \subseteq VfsTopics
      /\ bag \in [VfsTopics -> Seq(Samples)]
  BY BagAssumption, TopicsOf DEF BagEvidenceInv, BagInv, BagTypeOK
<1>1. /\ frame \in 0 .. Frames + 1 /\ frame' = frame + 1 /\ frame + 1 \in 0 .. Frames + 2
      /\ bpc = "recording" /\ UNCHANGED <<ruleset, bpc, bagProcess, verdict>>
  BY <1>0, BagAssumption DEF PublishFrame, BagInv, BagTypeOK
<1>2. PICK add : /\ Added(add)
                 /\ \/ AddedAll(add)
                    \/ \E topic \in BagTopics, kind \in Damage :
                         \E i \in DOMAIN Schedule(topic, frame) : AddedRest(add, topic, kind, i)
  BY <1>0, BagGrows
<1>3. /\ add \in [VfsTopics -> Seq(Samples)]
      /\ \A topic \in VfsTopics : bag'[topic] = bag[topic] \o add[topic]
  BY <1>2 DEF Added
<1>4. \A topic \in VfsTopics : \A j \in DOMAIN add[topic] :
        \E n \in DOMAIN Schedule(topic, frame) :
          SameSample(add[topic][j], Schedule(topic, frame)[n])
  BY <1>2 DEF Added
<1>5. /\ BagTopics' = BagTopics
      /\ \A topic \in VfsTopics, k \in 0 .. Frames + 1 : Schedule(topic, k)' = Schedule(topic, k)
  BY <1>1, ScheduleStays
<1>6. ASSUME NEW topic \in VfsTopics, NEW j \in DOMAIN bag'[topic]
      PROVE  \/ j \in DOMAIN bag[topic] /\ bag'[topic][j] = bag[topic][j]
             \/ \E m \in DOMAIN add[topic] : bag'[topic][j] = add[topic][m]
  <2> DEFINE s == bag[topic]
             u == add[topic]
  <2>1. s \in Seq(Samples) /\ u \in Seq(Samples) /\ bag'[topic] = s \o u
    BY <1>0, <1>3
  <2> HIDE DEF s, u
  <2>2. /\ s \o u \in Seq(Samples) /\ Len(s \o u) = Len(s) + Len(u)
        /\ \A n \in 1 .. Len(s) + Len(u) :
             (s \o u)[n] = IF n <= Len(s) THEN s[n] ELSE u[n - Len(s)]
    BY <2>1, ConcatProperties
  <2>3. j \in 1 .. Len(s) + Len(u)
    BY <2>1, <2>2
  <2>4. CASE j <= Len(s)
    <3>1. j \in DOMAIN s
      BY <2>1, <2>3, <2>4
    <3>2. bag'[topic][j] = s[j]
      BY <2>1, <2>2, <2>3, <2>4
    <3>3. QED
      BY <3>1, <3>2 DEF s
  <2>5. CASE ~ j <= Len(s)
    <3>1. j - Len(s) \in DOMAIN u
      BY <2>1, <2>3, <2>5
    <3>2. bag'[topic][j] = u[j - Len(s)]
      BY <2>1, <2>2, <2>3, <2>5
    <3>3. QED
      BY <3>1, <3>2 DEF u
  <2>6. QED
    BY <2>4, <2>5
<1>7. ASSUME NEW topic \in VfsTopics
      PROVE  /\ \A j \in DOMAIN bag[topic] : j \in DOMAIN bag'[topic] /\ bag'[topic][j] = bag[topic][j]
             /\ \A m \in DOMAIN add[topic] : \E j \in DOMAIN bag'[topic] : bag'[topic][j] = add[topic][m]
  <2> DEFINE s == bag[topic]
             u == add[topic]
  <2>1. s \in Seq(Samples) /\ u \in Seq(Samples) /\ bag'[topic] = s \o u
    BY <1>0, <1>3
  <2> HIDE DEF s, u
  <2>2. /\ s \o u \in Seq(Samples) /\ Len(s \o u) = Len(s) + Len(u)
        /\ \A n \in 1 .. Len(s) + Len(u) :
             (s \o u)[n] = IF n <= Len(s) THEN s[n] ELSE u[n - Len(s)]
    BY <2>1, ConcatProperties
  <2>3. ASSUME NEW j \in DOMAIN s
        PROVE  j \in DOMAIN bag'[topic] /\ bag'[topic][j] = s[j]
    BY <2>1, <2>2
  <2>4. ASSUME NEW m \in DOMAIN u
        PROVE  \E j \in DOMAIN bag'[topic] : bag'[topic][j] = u[m]
    <3>1. /\ Len(s) + m \in 1 .. Len(s) + Len(u) /\ ~ Len(s) + m <= Len(s)
          /\ (Len(s) + m) - Len(s) = m
      BY <2>1
    <3>2. (s \o u)[Len(s) + m] = u[m] /\ Len(s) + m \in DOMAIN (s \o u)
      BY <2>2, <3>1
    <3>3. QED
      BY <2>1, <3>2
  <2>5. QED
    BY <2>3, <2>4 DEF s, u
<1>8. PhaseInv'
  <2>1. bpc # "new" /\ bpc # "done"
    BY <1>1
  <2>2. verdict = "none" /\ bagProcess \notin {"none", "clean"}
    BY <1>0, <1>1 DEF PhaseInv
  <2>3. QED
    BY <1>1, <2>1, <2>2 DEF PhaseInv
<1>9. BagIsEvidence'
  BY <1>1, <1>8 DEF PhaseInv, BagIsEvidence
<1>10. OnlyScheduled'
  <2> SUFFICES ASSUME NEW topic \in VfsTopics, NEW j \in DOMAIN bag'[topic]
               PROVE  \E k \in 0 .. frame' - 1 : \E i \in DOMAIN Schedule(topic, k)' :
                        SameSample(bag'[topic][j], Schedule(topic, k)'[i])
    BY DEF OnlyScheduled, SameSample
  <2>1. CASE j \in DOMAIN bag[topic] /\ bag'[topic][j] = bag[topic][j]
    <3>1. PICK k \in 0 .. frame - 1 : \E i \in DOMAIN Schedule(topic, k) :
                 SameSample(bag[topic][j], Schedule(topic, k)[i])
      BY <1>0, <2>1 DEF OnlyScheduled
    <3>2. k \in 0 .. frame' - 1 /\ Schedule(topic, k)' = Schedule(topic, k)
      BY <1>0, <1>1, <1>5
    <3>3. QED
      BY <2>1, <3>1, <3>2
  <2>2. CASE \E m \in DOMAIN add[topic] : bag'[topic][j] = add[topic][m]
    <3>1. PICK n \in DOMAIN Schedule(topic, frame) :
                 SameSample(bag'[topic][j], Schedule(topic, frame)[n])
      BY <1>4, <2>2
    <3>2. PICK k \in 0 .. frame' - 1 : k = frame
      BY <1>0, <1>1
    <3>3. k \in 0 .. Frames + 1
      BY <1>1, <3>2
    <3>4. Schedule(topic, k)' = Schedule(topic, k)
      BY <1>5, <3>3
    <3>5. n \in DOMAIN Schedule(topic, k)' /\ SameSample(bag'[topic][j], Schedule(topic, k)'[n])
      BY <3>1, <3>2, <3>4
    <3>6. QED
      BY <3>5
  <2>3. QED
    BY <1>6, <2>1, <2>2
<1>11. IntactInv'
  <2> SUFFICES ASSUME faults' = {}, bagProcess' # "killed"
               PROVE  /\ ~clockFirst'
                      /\ \A topic \in VfsTopics :
                           bag'[topic] = IF topic \in BagTopics' THEN Whole(topic, frame)' ELSE <<>>
    BY DEF IntactInv
  <2>1. AddedAll(add)
    BY <1>2 DEF AddedRest
  <2>2. bagProcess = "alive"
    <3>1. bagProcess \in {"none", "alive", "clean", "killed"}
      BY <1>0 DEF BagInv, BagTypeOK
    <3>2. QED
      BY <1>0, <1>1, <3>1 DEF PhaseInv
  <2>3. faults = {} /\ clockFirst' = clockFirst
    BY <2>1 DEF AddedAll
  <2>4. /\ ~clockFirst
        /\ \A topic \in VfsTopics :
             bag[topic] = IF topic \in BagTopics THEN Whole(topic, frame) ELSE <<>>
    BY <1>0, <2>2, <2>3 DEF IntactInv
  <2>5. \A topic \in VfsTopics :
          add[topic] = IF topic \in BagTopics THEN Schedule(topic, frame) ELSE <<>>
    BY <2>1, <2>2 DEF AddedAll
  <2>6. ASSUME NEW topic \in VfsTopics
        PROVE  bag'[topic] = IF topic \in BagTopics' THEN Whole(topic, frame)' ELSE <<>>
    <3>1. CASE topic \in BagTopics
      <4>1. bag'[topic] = Whole(topic, frame) \o Schedule(topic, frame)
        BY <1>3, <2>4, <2>5, <3>1
      <4>2. PICK n \in 0 .. Frames + 1 : n = frame
        BY <1>1
      <4>3. Whole(topic, n + 1) = Whole(topic, n) \o Schedule(topic, n)
        BY <1>0, WholeGrows
      <4>4. n + 1 \in 0 .. Frames + 2 /\ frame' = n + 1
        BY <1>1, <4>2
      <4>5. Whole(topic, frame)' = Whole(topic, n + 1)
        BY <1>1, <4>4, WholeStays
      <4>6. QED
        BY <1>5, <3>1, <4>1, <4>2, <4>3, <4>5
    <3>2. CASE topic \notin BagTopics
      <4>1. bag'[topic] = <<>> \o <<>>
        BY <1>3, <2>4, <2>5, <3>2
      <4>2. QED
        BY <1>5, <3>2, <4>1
    <3>3. QED
      BY <3>1, <3>2
  <2>7. QED
    BY <2>3, <2>4, <2>6
<1>12. ASSUME NEW f \in faults
       PROVE  /\ f.topic \in BagTopics
              /\ f.kind = "lost" /\ f.topic # "judge_decisions" =>
                   \E k \in 0 .. frame : \E i \in DOMAIN Schedule(f.topic, k) :
                     /\ Schedule(f.topic, k)[i].id = f.id
                     /\ \A j \in DOMAIN bag'[f.topic] :
                          ~ SameSample(bag'[f.topic][j], Schedule(f.topic, k)[i])
              /\ f.kind = "damaged" => \E j \in DOMAIN bag'[f.topic] : ~ bag'[f.topic][j].whole
              /\ f.kind = "early" => clockFirst'
  <2>1. f.topic \in BagTopics /\ f.topic \in VfsTopics
    BY <1>0 DEF FaultsInv
  <2>2. ASSUME f.kind = "lost", f.topic # "judge_decisions"
        PROVE  \E k \in 0 .. frame : \E i \in DOMAIN Schedule(f.topic, k) :
                 /\ Schedule(f.topic, k)[i].id = f.id
                 /\ \A j \in DOMAIN bag'[f.topic] :
                      ~ SameSample(bag'[f.topic][j], Schedule(f.topic, k)[i])
    <3>1. IsMissing(f)
      BY <1>0, <2>2 DEF FaultsInv
    <3>2. PICK k \in 0 .. frame - 1 : \E i \in DOMAIN Schedule(f.topic, k) :
            /\ Schedule(f.topic, k)[i].id = f.id
            /\ \A j \in DOMAIN bag[f.topic] :
                 ~ SameSample(bag[f.topic][j], Schedule(f.topic, k)[i])
      BY <3>1 DEF IsMissing
    <3>3. PICK i \in DOMAIN Schedule(f.topic, k) :
            /\ Schedule(f.topic, k)[i].id = f.id
            /\ \A j \in DOMAIN bag[f.topic] :
                 ~ SameSample(bag[f.topic][j], Schedule(f.topic, k)[i])
      BY <3>2
    <3>4. k \in 0 .. frame /\ k \in 0 .. Frames + 1 /\ k # frame
      BY <1>0, <1>1
    <3>5. ASSUME NEW j \in DOMAIN bag'[f.topic],
                 SameSample(bag'[f.topic][j], Schedule(f.topic, k)[i])
          PROVE  FALSE
      <4>1. PICK m \in DOMAIN add[f.topic] : bag'[f.topic][j] = add[f.topic][m]
        BY <1>6, <2>1, <3>3, <3>5
      <4>2. PICK n \in DOMAIN Schedule(f.topic, frame) :
                   SameSample(add[f.topic][m], Schedule(f.topic, frame)[n])
        BY <1>4, <2>1
      <4>3. SameSample(Schedule(f.topic, k)[i], Schedule(f.topic, frame)[n])
        BY <3>5, <4>1, <4>2 DEF SameSample
      <4>4. k = frame
        BY <1>0, <1>1, <2>1, <2>2, <3>4, <4>3, SamplesApart
      <4>5. QED
        BY <3>4, <4>4
    <3>6. QED
      BY <3>3, <3>4, <3>5
  <2>3. f.kind = "damaged" => \E j \in DOMAIN bag'[f.topic] : ~ bag'[f.topic][j].whole
    <3> SUFFICES ASSUME f.kind = "damaged"
                 PROVE  \E j \in DOMAIN bag'[f.topic] : ~ bag'[f.topic][j].whole
      OBVIOUS
    <3>1. PICK j \in DOMAIN bag[f.topic] : ~ bag[f.topic][j].whole
      BY <1>0 DEF FaultsInv
    <3>2. j \in DOMAIN bag'[f.topic] /\ bag'[f.topic][j] = bag[f.topic][j]
      BY <1>7, <2>1
    <3>3. QED
      BY <3>1, <3>2
  <2>4. f.kind = "early" => clockFirst'
    <3>1. f.kind = "early" => clockFirst
      BY <1>0 DEF FaultsInv
    <3>2. clockFirst => clockFirst'
      BY <1>2 DEF AddedAll, AddedRest
    <3>3. QED
      BY <3>1, <3>2
  <2>5. QED
    BY <2>1, <2>2, <2>3, <2>4
<1>13. ASSUME NEW topic \in BagTopics, NEW kind \in Damage, NEW i \in DOMAIN Schedule(topic, frame),
              AddedRest(add, topic, kind, i)
       PROVE  /\ kind = "lost" /\ topic # "judge_decisions" =>
                   \A j \in DOMAIN bag'[topic] :
                     ~ SameSample(bag'[topic][j], Schedule(topic, frame)[i])
              /\ kind = "damaged" => \E j \in DOMAIN bag'[topic] : ~ bag'[topic][j].whole
              /\ kind = "early" => clockFirst'
  <2>1. topic \in VfsTopics
    BY <1>0
  <2>2. ASSUME kind = "lost", topic # "judge_decisions",
               NEW j \in DOMAIN bag'[topic], SameSample(bag'[topic][j], Schedule(topic, frame)[i])
        PROVE  FALSE
    <3>1. CASE j \in DOMAIN bag[topic] /\ bag'[topic][j] = bag[topic][j]
      <4>1. PICK k \in 0 .. frame - 1 : \E n \in DOMAIN Schedule(topic, k) :
                   SameSample(bag[topic][j], Schedule(topic, k)[n])
        BY <1>0, <2>1, <3>1 DEF OnlyScheduled
      <4>2. PICK n \in DOMAIN Schedule(topic, k) : SameSample(bag[topic][j], Schedule(topic, k)[n])
        BY <4>1
      <4>3. SameSample(Schedule(topic, k)[n], Schedule(topic, frame)[i])
        BY <2>2, <3>1, <4>2 DEF SameSample
      <4>4. k \in 0 .. Frames + 1 /\ k # frame
        BY <1>0, <1>1
      <4>5. k = frame
        BY <1>0, <1>1, <2>1, <2>2, <4>3, <4>4, SamplesApart
      <4>6. QED
        BY <4>4, <4>5
    <3>2. CASE \E m \in DOMAIN add[topic] : bag'[topic][j] = add[topic][m]
      <4>1. PICK m \in DOMAIN add[topic] : bag'[topic][j] = add[topic][m]
        BY <3>2
      <4>2. PICK n \in DOMAIN Schedule(topic, frame) :
                   n # i /\ SameSample(add[topic][m], Schedule(topic, frame)[n])
        BY <1>13, <2>2 DEF AddedRest
      <4>3. SameSample(Schedule(topic, frame)[n], Schedule(topic, frame)[i])
        BY <2>2, <4>1, <4>2 DEF SameSample
      <4>4. n = i
        BY <1>0, <1>1, <2>1, <2>2, <4>3, SamplesApart
      <4>5. QED
        BY <4>2, <4>4
    <3>3. QED
      BY <1>6, <2>1, <3>1, <3>2
  <2>3. kind = "damaged" => \E j \in DOMAIN bag'[topic] : ~ bag'[topic][j].whole
    <3> SUFFICES ASSUME kind = "damaged"
                 PROVE  \E j \in DOMAIN bag'[topic] : ~ bag'[topic][j].whole
      OBVIOUS
    <3>1. PICK m \in DOMAIN add[topic] : ~ add[topic][m].whole
      BY <1>13 DEF AddedRest
    <3>2. PICK j \in DOMAIN bag'[topic] : bag'[topic][j] = add[topic][m]
      BY <1>7, <2>1
    <3>3. QED
      BY <3>1, <3>2
  <2>4. kind = "early" => clockFirst'
    BY <1>13 DEF AddedRest
  <2>5. QED
    BY <2>2, <2>3, <2>4
<1>14. ASSUME NEW f \in faults'
       PROVE  /\ f.topic \in BagTopics
              /\ f.kind = "lost" /\ f.topic # "judge_decisions" =>
                   \E k \in 0 .. frame : \E i \in DOMAIN Schedule(f.topic, k) :
                     /\ Schedule(f.topic, k)[i].id = f.id
                     /\ \A j \in DOMAIN bag'[f.topic] :
                          ~ SameSample(bag'[f.topic][j], Schedule(f.topic, k)[i])
              /\ f.kind = "damaged" => \E j \in DOMAIN bag'[f.topic] : ~ bag'[f.topic][j].whole
              /\ f.kind = "early" => clockFirst'
  <2>1. CASE f \in faults
    BY <1>12, <2>1
  <2>2. CASE f \notin faults
    <3>1. PICK topic \in BagTopics, kind \in Damage :
                 \E i \in DOMAIN Schedule(topic, frame) : AddedRest(add, topic, kind, i)
      BY <1>2, <2>2 DEF AddedAll
    <3>2. PICK i \in DOMAIN Schedule(topic, frame) : AddedRest(add, topic, kind, i)
      BY <3>1
    <3>3. f = [topic |-> topic, id |-> Schedule(topic, frame)[i].id, kind |-> kind]
      BY <2>2, <3>2 DEF AddedRest
    <3>4. f.topic = topic /\ f.id = Schedule(topic, frame)[i].id /\ f.kind = kind
      BY <3>3
    <3>5. frame \in 0 .. frame
      BY <1>1
    <3>6. /\ kind = "lost" /\ topic # "judge_decisions" =>
               \A j \in DOMAIN bag'[topic] : ~ SameSample(bag'[topic][j], Schedule(topic, frame)[i])
          /\ kind = "damaged" => \E j \in DOMAIN bag'[topic] : ~ bag'[topic][j].whole
          /\ kind = "early" => clockFirst'
      BY <1>13, <3>2
    <3>7. QED
      BY <3>4, <3>5, <3>6
  <2>3. QED
    BY <2>1, <2>2
<1>15. FaultsInv'
  <2> SUFFICES ASSUME NEW f \in faults'
               PROVE  /\ f.topic \in BagTopics'
                      /\ f.kind = "lost" /\ f.topic # "judge_decisions" => IsMissing(f)'
                      /\ f.kind = "damaged" => \E j \in DOMAIN bag'[f.topic] : ~ bag'[f.topic][j].whole
                      /\ f.kind = "early" => clockFirst'
    BY DEF FaultsInv
  <2>1. ASSUME f.kind = "lost", f.topic # "judge_decisions"
        PROVE  IsMissing(f)'
    <3>1. PICK k \in 0 .. frame : \E i \in DOMAIN Schedule(f.topic, k) :
            /\ Schedule(f.topic, k)[i].id = f.id
            /\ \A j \in DOMAIN bag'[f.topic] :
                 ~ SameSample(bag'[f.topic][j], Schedule(f.topic, k)[i])
      BY <1>14, <2>1
    <3>2. k \in 0 .. frame' - 1 /\ k \in 0 .. Frames + 1
      BY <1>0, <1>1
    <3>3. Schedule(f.topic, k)' = Schedule(f.topic, k)
      BY <1>0, <1>5, <1>14, <3>2
    <3>4. QED
      BY <3>1, <3>2, <3>3 DEF IsMissing, SameSample
  <2>2. QED
    BY <1>5, <1>14, <2>1
<1>16. QED
  BY <1>8, <1>9, <1>10, <1>11, <1>15

\* Start, finalize(), the end of the process and the validator leave the bag alone.
LEMMA RecorderKeeps ==
    ASSUME BagEvidenceInv,
           StartBag \/ FinalizeBag \/ SignalBag \/ BagProcessExits \/ BagFinalized \/ ValidateBag
    PROVE  IntactInv' /\ OnlyScheduled' /\ FaultsInv' /\ PhaseInv' /\ BagIsEvidence'
<1>0. /\ BagInv /\ IntactInv /\ OnlyScheduled /\ FaultsInv /\ PhaseInv /\ BagIsEvidence
      /\ ruleset \in Rulesets /\ BagTopics \subseteq VfsTopics /\ frame \in 0 .. Frames + 2
      /\ Frames \in Nat
      /\ bagProcess \in {"none", "alive", "clean", "killed"}
  BY BagAssumption, TopicsOf DEF BagEvidenceInv, BagInv, BagTypeOK
<1>1. UNCHANGED <<ruleset, frame, bag, clockFirst, faults>>
  BY DEF StartBag, FinalizeBag, SignalBag, BagProcessExits, BagFinalized, ValidateBag
<1>2. /\ BagTopics' = BagTopics
      /\ \A topic \in VfsTopics, k \in 0 .. Frames + 1 : Schedule(topic, k)' = Schedule(topic, k)
  BY <1>1, ScheduleStays
<1>3. bagProcess' # "killed" => bagProcess # "killed"
  <2>1. CASE StartBag
    BY <1>0, <2>1 DEF StartBag, PhaseInv
  <2>2. CASE BagProcessExits
    BY <2>2 DEF BagProcessExits
  <2>3. CASE FinalizeBag \/ SignalBag \/ BagFinalized \/ ValidateBag
    BY <2>3 DEF FinalizeBag, SignalBag, BagFinalized, ValidateBag
  <2>4. QED
    BY <2>1, <2>2, <2>3
<1>4. IntactInv'
  <2>1. ASSUME NEW topic \in VfsTopics
        PROVE  Whole(topic, frame)' = Whole(topic, frame)
    <3>1. PICK n \in 0 .. Frames + 2 : n = frame
      BY <1>0
    <3>2. Whole(topic, frame)' = Whole(topic, n)
      BY <1>1, <3>1, WholeStays
    <3>3. QED
      BY <3>1, <3>2
  <2>2. QED
    BY <1>0, <1>1, <1>2, <1>3, <2>1 DEF IntactInv
<1>5. ASSUME NEW k \in 0 .. frame - 1
      PROVE  k \in 0 .. Frames + 1
  BY <1>0
<1>6. OnlyScheduled'
  BY <1>0, <1>1, <1>2, <1>5 DEF OnlyScheduled, SameSample
<1>7. FaultsInv'
  <2> SUFFICES ASSUME NEW f \in faults
               PROVE  f.kind = "lost" /\ f.topic # "judge_decisions" => IsMissing(f)'
    BY <1>0, <1>1, <1>2 DEF FaultsInv
  <2>1. f.topic \in VfsTopics
    BY <1>0 DEF FaultsInv
  <2>2. IsMissing(f) => IsMissing(f)'
    BY <1>1, <1>2, <1>5, <2>1 DEF IsMissing, SameSample
  <2>3. QED
    BY <1>0, <2>2 DEF FaultsInv
<1>8. PhaseInv'
  BY <1>0, <1>1 DEF PhaseInv, StartBag, FinalizeBag, SignalBag, BagProcessExits, BagFinalized, ValidateBag
<1>9. BagIsEvidence'
  <2>1. CASE ValidateBag
    <3>1. /\ verdict' = IF bagProcess = "clean" /\ BagValid THEN "VALID" ELSE "INVALID"
          /\ bagProcess' = bagProcess
      BY <2>1 DEF ValidateBag
    <3>2. CASE bagProcess = "clean" /\ BagValid
      <4>1. /\ frame = Frames + 2
            /\ \A f \in faults :
                 /\ f.kind = "lost"
                 /\ f.topic \in {"mission_events", "payload_events", "judge_decisions"}
                 /\ \A i \in DOMAIN bag[f.topic] :
                      bag[f.topic][i].id < f.id \/ f.topic = "judge_decisions"
        BY <1>0, <3>2, ValidIsEvidence
      <4>2. verdict' = "VALID"
        BY <3>1, <3>2
      <4>3. QED
        BY <1>1, <3>1, <3>2, <4>1, <4>2 DEF BagIsEvidence
    <3>3. CASE ~ (bagProcess = "clean" /\ BagValid)
      <4>1. verdict' = "INVALID"
        BY <3>1, <3>3
      <4>2. ASSUME faults = {}, bagProcess = "clean", frame = Frames + 2
            PROVE  FALSE
        <5>1. /\ ~clockFirst
              /\ \A topic \in VfsTopics :
                   bag[topic] = IF topic \in BagTopics THEN Whole(topic, Frames + 2) ELSE <<>>
          BY <1>0, <4>2 DEF IntactInv
        <5>2. WholeBag
          BY <1>0, <5>1 DEF WholeBag
        <5>3. QED
          BY <3>3, <4>2, <5>2, WholeIsValid
      <4>3. faults' # {} \/ bagProcess' # "clean" \/ frame' < Frames + 2
        BY <1>0, <1>1, <3>1, <4>2
      <4>4. QED
        BY <4>1, <4>3 DEF BagIsEvidence
    <3>4. QED
      BY <3>2, <3>3
  <2>2. CASE BagProcessExits
    <3>1. bagProcess = "alive" /\ verdict' = verdict /\ bpc' = bpc
      BY <2>2 DEF BagProcessExits
    <3>2. verdict # "VALID"
      BY <1>0, <3>1 DEF BagIsEvidence
    <3>3. verdict = "INVALID" => bagProcess' # "clean"
      BY <1>0, <2>2 DEF BagProcessExits, PhaseInv
    <3>4. QED
      BY <3>1, <3>2, <3>3 DEF BagIsEvidence
  <2>3. CASE StartBag
    <3>1. verdict' = verdict /\ verdict = "none"
      BY <1>0, <2>3 DEF StartBag, PhaseInv, BagIsEvidence
    <3>2. QED
      BY <3>1 DEF BagIsEvidence
  <2>4. CASE FinalizeBag \/ SignalBag \/ BagFinalized
    <3>1. UNCHANGED <<verdict, bagProcess, frame, faults, bag>>
      BY <2>4 DEF FinalizeBag, SignalBag, BagFinalized
    <3>2. QED
      BY <1>0, <3>1 DEF BagIsEvidence
  <2>5. QED
    BY <2>1, <2>2, <2>3, <2>4
<1>10. QED
  BY <1>4, <1>6, <1>7, <1>8, <1>9

\* Every step of the recorder, the run and the validator keeps the invariant.
LEMMA BagEvidenceStep ==
    ASSUME BagEvidenceInv, BagNext
    PROVE  BagEvidenceInv'
<1>1. BagInv'
  BY BagInvStep DEF BagEvidenceInv
<1>2. CASE PublishFrame
  BY <1>1, <1>2, PublishKeeps DEF BagEvidenceInv
<1>3. CASE StartBag \/ FinalizeBag \/ SignalBag \/ BagProcessExits \/ BagFinalized \/ ValidateBag
  BY <1>1, <1>3, RecorderKeeps DEF BagEvidenceInv
<1>4. QED
  BY <1>2, <1>3 DEF BagNext

\* So does a step of another producer.
LEMMA BagEvidenceStutter ==
    ASSUME BagEvidenceInv, UNCHANGED bagVars
    PROVE  BagEvidenceInv'
<1>0. /\ UNCHANGED <<ruleset, bpc, bagProcess, signals, frame, bag, clockFirst, faults, verdict>>
      /\ BagInv /\ IntactInv /\ OnlyScheduled /\ FaultsInv /\ PhaseInv /\ BagIsEvidence
      /\ frame \in 0 .. Frames + 2 /\ Frames \in Nat /\ BagTopics \subseteq VfsTopics
  BY BagAssumption, TopicsOf DEF bagVars, BagEvidenceInv, BagInv, BagTypeOK
<1>1. BagInv'
  BY <1>0, BagInvStutter
<1>2. BagTopics' = BagTopics
  BY <1>0, ScheduleStays
<1>3. \A topic \in VfsTopics, k \in 0 .. frame - 1 : Schedule(topic, k)' = Schedule(topic, k)
  <2>1. \A k \in 0 .. frame - 1 : k \in 0 .. Frames + 1
    BY <1>0
  <2>2. QED
    BY <1>0, <2>1, ScheduleStays
<1>4. IntactInv'
  <2>1. ASSUME NEW topic \in VfsTopics
        PROVE  Whole(topic, frame)' = Whole(topic, frame)
    <3>1. PICK n \in 0 .. Frames + 2 : n = frame
      BY <1>0
    <3>2. Whole(topic, frame)' = Whole(topic, n)
      BY <1>0, <3>1, WholeStays
    <3>3. QED
      BY <3>1, <3>2
  <2>2. QED
    BY <1>0, <1>2, <2>1 DEF IntactInv
<1>5. OnlyScheduled'
  BY <1>0, <1>3 DEF OnlyScheduled, SameSample
<1>6. FaultsInv'
  <2> SUFFICES ASSUME NEW f \in faults
               PROVE  f.kind = "lost" /\ f.topic # "judge_decisions" => IsMissing(f)'
    BY <1>0, <1>2 DEF FaultsInv
  <2>1. f.topic \in VfsTopics
    BY <1>0 DEF FaultsInv
  <2>2. IsMissing(f) => IsMissing(f)'
    BY <1>0, <1>3, <2>1 DEF IsMissing, SameSample
  <2>3. QED
    BY <1>0, <2>2 DEF FaultsInv
<1>7. PhaseInv' /\ BagIsEvidence'
  BY <1>0 DEF PhaseInv, BagIsEvidence
<1>8. QED
  BY <1>1, <1>4, <1>5, <1>6, <1>7 DEF BagEvidenceInv

-----------------------------------------------------------------------------
(* The producers side by side. *)

\* A step of one producer, or of none, is a stutter of the others.
LEMMA ProducersApart ==
    ASSUME [EvidenceNext]_evidenceVars
    PROVE  /\ producer' = producer
           /\ VideoNext \/ UNCHANGED videoVars
           /\ BagNext \/ UNCHANGED bagVars
           /\ LogNext \/ UNCHANGED logVars
           /\ GzNext \/ UNCHANGED gzVars
<1>1. CASE EvidenceNext
  BY <1>1 DEF EvidenceNext, OnlyVideo, OnlyBag, OnlyLogs, OnlyServer
<1>2. CASE UNCHANGED evidenceVars
  BY <1>2 DEF evidenceVars
<1>3. QED
  BY <1>1, <1>2

LEMMA VideoInvStutter ==
    ASSUME VideoInv, UNCHANGED videoVars
    PROVE  VideoInv'
<1>1. UNCHANGED <<vpc, handoff, worker, startTime, ffmpeg, eof, time, reap, nextFrame, images,
                  metadata, accepting, fed, failed, reported, outcome, videoFd, logFd, names,
                  safe, recovery, published, mishaps>>
  BY DEF videoVars, startVars, frameVars, diskVars
<1>2. VideoTypeOK' /\ FedInv'
  BY <1>1 DEF VideoInv, VideoTypeOK, FedInv
<1>3. ProcessInv' /\ FileInv'
  BY <1>1 DEF VideoInv, ProcessInv, FileInv, Valid
<1>4. VideoIsEvidence'
  BY <1>1 DEF VideoInv, VideoIsEvidence, PublishedIsWhole, NamedIsImmutable, NotLostInSilence, Fd
<1>5. QED
  BY <1>2, <1>3, <1>4 DEF VideoInv

LEMMA LogInvStutter ==
    ASSUME LogInv, UNCHANGED logVars
    PROVE  LogInv'
<1>1. UNCHANGED <<lpc, outputs, commandFails, host, hostBad, made, tried, sealed, partials, finals,
                  pathsOut, leftovers, cleaned, logLate, captured, logMishaps>>
  BY DEF logVars, inputVars, fileVars
<1>2. LogTypeOK' /\ SuccessInv'
  BY <1>1 DEF LogInv, LogTypeOK, SuccessInv
<1>3. Gated' = Gated /\ OwnFault' = OwnFault
  BY <1>1 DEF Gated, OwnFault, EventDiagnostics, MissingModules
<1>4. FilesInv' /\ GateInv'
  BY <1>1, <1>3 DEF LogInv, FilesInv, GateInv
<1>5. QED
  BY <1>2, <1>4 DEF LogInv

LEMMA ServerInvStutter ==
    ASSUME ServerInv, UNCHANGED gzVars
    PROVE  ServerInv'
<1>1. QED
  BY DEF ServerInv, GzTypeOK, GroupInv, NamesInv, ServerIsEvidence, NoStrangerSignalled,
         EvidenceIsQuiet, StateIsKept, CommitIsFinal, gzVars, groupVars, gzFileVars

\* Types of all four producers (start() to finalize() of the recorders and of the log
\* capture, start() to stop() of the server).
THEOREM EvidenceTypeCorrect == EvidenceSpec => []EvidenceTypeOK
<1> DEFINE Inv == producer \in Producers /\ VideoInv /\ BagInv /\ LogInv /\ ServerInv
<1>1. EvidenceInit => Inv
  BY VideoInvInit, BagInvInit, LogInvInit, ServerInvInit DEF EvidenceInit
<1>2. Inv /\ [EvidenceNext]_evidenceVars => Inv'
  BY ProducersApart, VideoInvStep, VideoInvStutter, BagInvStep, BagInvStutter, LogInvStep,
     LogInvStutter, ServerInvStep, ServerInvStutter
<1>3. Inv => EvidenceTypeOK
  BY DEF EvidenceTypeOK, VideoInv, BagInv, LogInv, ServerInv
<1>4. QED
  BY <1>1, <1>2, <1>3, PTL DEF EvidenceSpec

\* One camera's video, for any number of frames and of failing calls (_drain_pairs,
\* finalize): a final name is a whole recording nobody can write to any more, and a
\* recording that is not published is kept as a partial or its loss reported.
THEOREM VideoEvidence == EvidenceSpec => []VideoIsEvidence
<1>1. EvidenceInit => VideoInv
  BY VideoInvInit DEF EvidenceInit
<1>2. VideoInv /\ [EvidenceNext]_evidenceVars => VideoInv'
  BY ProducersApart, VideoInvStep, VideoInvStutter
<1>3. VideoInv => VideoIsEvidence
  BY DEF VideoInv
<1>4. QED
  BY <1>1, <1>2, <1>3, PTL DEF EvidenceSpec

\* The bag of a run, for every ruleset and number of frames and of faults: it is declared
\* valid only if all of the run is in it but for events that nobody counts, and a bag that is
\* whole is never refused (RosbagValidator, _validate_semantics).
THEOREM BagEvidence == EvidenceSpec => []BagIsEvidence
<1>1. EvidenceInit => BagEvidenceInv
  BY BagEvidenceInit DEF EvidenceInit
<1>2. BagEvidenceInv /\ [EvidenceNext]_evidenceVars => BagEvidenceInv'
  BY ProducersApart, BagEvidenceStep, BagEvidenceStutter
<1>3. BagEvidenceInv => BagIsEvidence
  BY DEF BagEvidenceInv
<1>4. QED
  BY <1>1, <1>2, <1>3, PTL DEF EvidenceSpec

\* The log capture of a run, for any set of services: what it reports is what is there, no
\* structured log without a raw one of every service, and a success is complete (capture()
\* and its cleanup).
THEOREM LogEvidence == EvidenceSpec => []LogsAreEvidence
<1>1. EvidenceInit => LogInv
  BY LogInvInit DEF EvidenceInit
<1>2. LogInv /\ [EvidenceNext]_evidenceVars => LogInv'
  BY ProducersApart, LogInvStep, LogInvStutter
<1>3. LogInv => LogsAreEvidence
  BY LogInvEarns
<1>4. QED
  BY <1>1, <1>2, <1>3, PTL DEF EvidenceSpec

\* Gazebo's stop(): only its own process group is signalled, the evidence is sealed when
\* nobody writes to it any more, the state is kept, and the final name is the last step.
THEOREM ServerEvidence == EvidenceSpec => []ServerIsEvidence
<1>1. EvidenceInit => ServerInv
  BY ServerInvInit DEF EvidenceInit
<1>2. ServerInv /\ [EvidenceNext]_evidenceVars => ServerInv'
  BY ProducersApart, ServerInvStep, ServerInvStutter
<1>3. ServerInv => ServerIsEvidence
  BY DEF ServerInv
<1>4. QED
  BY <1>1, <1>2, <1>3, PTL DEF EvidenceSpec
=============================================================================
