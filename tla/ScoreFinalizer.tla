--------------------------- MODULE ScoreFinalizer ---------------------------
(***************************************************************************)
(* The end of a score, whatever the rules: _ScoreFinalizer, driven by      *)
(* ScorekeeperDriver.poll and, after an error, by the handler of main().   *)
(*                                                                         *)
(* A finalization writes the result, publishes its events, waits until     *)
(* they are acknowledged, and writes the status.  The wait may time out:   *)
(* main() then finalizes once more.                                        *)
(***************************************************************************)
EXTENDS Naturals, Sequences, FiniteSets

CONSTANT MaxFlushFailures    \* bound: acknowledgements that time out

ASSUME FinalizerAssumption == MaxFlushFailures \in Nat

VARIABLES
    evaluated,   \* the scorer's own _result
    score,       \* _ScoreFinalizer._result
    onDisk,      \* scoring/result.json
    announced,   \* times the score events were published
    scoreStatus, \* the status file: none, score, failure
    scoreQuiet,  \* quiescence of the scorekeeper
    sourceEnded, \* the source-finished status is there
    scoreAsked,  \* the finalize request is there
    bySource,    \* the score was made when all of the source was observed
    flushFailures,
    keeper       \* main(): running, crashing, ended

finalizerVars == <<evaluated, score, onDisk, announced, scoreStatus, scoreQuiet, sourceEnded,
                   scoreAsked, bySource, flushFailures, keeper>>

NoScore == [passed |-> {}, complete |-> FALSE, why |-> "unscored"]

FinalizerInit ==
    /\ evaluated = NoScore /\ score = NoScore /\ onDisk = NoScore /\ announced = 0
    /\ scoreStatus = "none" /\ scoreQuiet = FALSE /\ sourceEnded = FALSE /\ scoreAsked = FALSE
    /\ bySource = FALSE /\ flushFailures = 0 /\ keeper = "running"

\* Mutant: a result does not stop the callbacks and the poll.
ScorableAgain == keeper = "running" /\ ~scoreQuiet

\* The callbacks change nothing once there is a result.
Scorable == keeper = "running" /\ score = NoScore /\ ~scoreQuiet

Persist(result) == onDisk' = result
Announce == announced' = announced + 1

\* _ScoreFinalizer.finalize, with the result of the scorer: it succeeds, or the
\* acknowledgement times out after the result is on disk and its events are published.
Finalize(result) ==
    /\ evaluated' = result /\ Persist(result) /\ Announce
    /\ \/ /\ score' = result /\ UNCHANGED flushFailures
          /\ scoreStatus' = IF result.complete THEN "score" ELSE "failure"
       \/ /\ flushFailures < MaxFlushFailures /\ flushFailures' = flushFailures + 1
          /\ UNCHANGED <<score, scoreStatus>>

\* main(): a poll that raised ends its loop.
AfterPoll == IF score' = NoScore THEN "crashing" ELSE "running"

\* ScorekeeperDriver.poll, the source is finished and was observed to its end.
PollSource(result) ==
    /\ Scorable /\ sourceEnded
    /\ Finalize(result)
    /\ bySource' = (score' # NoScore)
    /\ keeper' = AfterPoll
    /\ UNCHANGED <<scoreQuiet, sourceEnded, scoreAsked>>

\* begin_finalization, at the finalize request or in the handler of main(): an error in
\* the handler is swallowed, and the process ends without quiescence.
Quiesce(result) ==
    /\ ~scoreQuiet /\ (keeper = "crashing" \/ (keeper = "running" /\ scoreAsked))
    /\ IF score # NoScore THEN UNCHANGED <<evaluated, score, onDisk, announced, scoreStatus,
                                           flushFailures>>
       ELSE Finalize(result)
    /\ scoreQuiet' = (score' # NoScore)
    /\ keeper' = IF keeper = "crashing" THEN "ended" ELSE AfterPoll
    /\ UNCHANGED <<sourceEnded, scoreAsked, bySource>>

\* Gazebo and the host controller.
SourceEnds ==
    /\ ~sourceEnded /\ keeper = "running" /\ sourceEnded' = TRUE
    /\ UNCHANGED <<evaluated, score, onDisk, announced, scoreStatus, scoreQuiet, scoreAsked,
                   bySource, flushFailures, keeper>>

AskForScore ==
    /\ ~scoreAsked /\ keeper = "running" /\ scoreAsked' = TRUE
    /\ UNCHANGED <<evaluated, score, onDisk, announced, scoreStatus, scoreQuiet, sourceEnded,
                   bySource, flushFailures, keeper>>

FinalizerTypeOK ==
    /\ {scoreQuiet, sourceEnded, scoreAsked, bySource} \subseteq BOOLEAN
    /\ scoreStatus \in {"none", "score", "failure"} /\ keeper \in {"running", "crashing", "ended"}
    /\ flushFailures \in 0 .. MaxFlushFailures /\ announced \in 0 .. 2
    /\ score # NoScore => score = evaluated

\* The status file says what the result says, and only once the result is on disk, its
\* events are published and acknowledged; the scorekeeper is quiet only with a status
\* (ScorekeeperDriver.poll, _ScoreFinalizer).
StatusIsTrue ==
    /\ scoreStatus # "none" => /\ score # NoScore /\ onDisk = score /\ announced > 0
                               /\ (scoreStatus = "score") = score.complete
    /\ scoreQuiet => scoreStatus # "none"
=============================================================================
