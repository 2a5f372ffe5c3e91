---------------------------- MODULE DescentScore ----------------------------
(***************************************************************************)
(* ScorekeeperRuntime and DescentScorer: one flight up and down, scored    *)
(* from ground truth that is best effort here, and from the scenario event *)
(* that says the magnet is off.  An epoch of 50 ms stands for a timestamp. *)
(***************************************************************************)
EXTENDS ScoreFinalizer

CONSTANTS
    Descents,        \* flights: sequences of [rise, contact, near, slow, calm : BOOLEAN]
    ScenarioEvents,  \* what the magnet may say: sequences of [id, state]
    SettledSamples,  \* settled_duration_ns // sample_interval_ns + 1
    MaxLostTruth     \* bound: samples of ground truth lost

ASSUME DescentAssumption ==
    /\ SettledSamples \in Nat \ {0} /\ MaxLostTruth \in Nat
    /\ \A d \in Descents : d \in Seq([rise : BOOLEAN, contact : BOOLEAN, near : BOOLEAN,
                                     slow : BOOLEAN, calm : BOOLEAN])
    /\ \A s \in ScenarioEvents : s \in Seq([id : Nat, state : {"ACTIVE", "INACTIVE"}])

VARIABLES
    descent,     \* the flight
    scenario,    \* the events the magnet sends
    heardTruth,  \* the last sample that came by
    lostTruth,   \* the samples that were lost
    heardEvents, \* scenario events taken
    samples,     \* DescentScorer._samples: first and last epoch
    descentFault \* DescentScorer._diagnostic

descentVars == <<descent, scenario, heardTruth, lostTruth, heardEvents, samples, descentFault>>

NoSamples == [first |-> 1, last |-> 0]

DescentInit ==
    /\ descent \in Descents /\ scenario \in ScenarioEvents
    /\ heardTruth = 0 /\ lostTruth = {} /\ heardEvents = 0 /\ samples = NoSamples
    /\ descentFault = "none"

Count == samples.last + 1 - samples.first

\* Mutant: a gap is not a fault, the count alone decides.
AcceptTruthAnyway(t) ==
    IF descentFault # "none" THEN UNCHANGED <<samples, descentFault>>
    ELSE samples' = [first |-> IF Count = 0 THEN t ELSE samples.first, last |-> t]
         /\ UNCHANGED descentFault

\* DescentScorer.accept: contiguous, or a fault.
AcceptTruth(t) ==
    IF descentFault # "none" THEN UNCHANGED <<samples, descentFault>>
    ELSE IF Count = Len(descent) THEN descentFault' = "overrun" /\ UNCHANGED samples
    ELSE IF Count > 0 /\ t > samples.last + 1 THEN descentFault' = "gap" /\ UNCHANGED samples
    ELSE samples' = [first |-> IF Count = 0 THEN t ELSE samples.first, last |-> t]
         /\ UNCHANGED descentFault

HearTruth ==
    /\ keeper = "running" /\ heardTruth < Len(descent) /\ heardTruth' = heardTruth + 1
    /\ IF Scorable THEN AcceptTruth(heardTruth') ELSE UNCHANGED <<samples, descentFault>>
    /\ UNCHANGED <<descent, scenario, lostTruth, heardEvents, finalizerVars>>

LoseTruth ==
    /\ keeper = "running" /\ heardTruth < Len(descent) /\ heardTruth' = heardTruth + 1
    /\ Cardinality(lostTruth) < MaxLostTruth /\ lostTruth' = lostTruth \cup {heardTruth'}
    /\ UNCHANGED <<descent, scenario, heardEvents, samples, descentFault, finalizerVars>>

\* accept_scenario
HearScenario ==
    /\ Scorable /\ heardEvents < Len(scenario) /\ heardEvents' = heardEvents + 1
    /\ UNCHANGED <<descent, scenario, heardTruth, lostTruth, samples, descentFault, finalizerVars>>

\* The first event of each id counts: it must be INACTIVE, and another of its id the same.
ScenarioFailure ==
    LET heard == 1 .. heardEvents IN
    IF heard = {} THEN "scenario_initialization_missing"
    ELSE IF \E i, j \in heard :
              scenario[i].state # "INACTIVE" \/ (scenario[i].id = scenario[j].id /\ scenario[i] # scenario[j])
    THEN "scenario_failure"
    ELSE "none"

\* _evaluated_rules, over the samples that were kept.
FirstSuch(S) == CHOOSE i \in S : \A j \in S : i <= j

DescentRules ==
    LET kept == samples.first .. samples.last
        rises == {i \in kept : descent[i].rise}
        contacts == {i \in kept : descent[i].contact /\ \E r \in rises : r < i}
        down == FirstSuch(contacts)
        window == down .. down + SettledSamples - 1
    IN IF contacts = {} THEN {}
       ELSE {"airborne_then_contact"}
            \cup (IF descent[down].near THEN {"touchdown_precision"} ELSE {})
            \cup (IF down > samples.first /\ descent[down - 1].slow
                  THEN {"safe_preimpact_speed"} ELSE {})
            \cup (IF window \subseteq kept /\ \A i \in window : descent[i].contact /\ descent[i].calm
                  THEN {"stable_contact"} ELSE {})

\* ScorekeeperRuntime._finalize and DescentScorer.finalize.
DescentResult(source) ==
    LET why == IF descentFault # "none" THEN descentFault
               ELSE IF ScenarioFailure # "none" THEN ScenarioFailure
               ELSE IF source /\ samples.last # Len(descent) THEN "source_finished_timestamp_mismatch"
               ELSE IF Count # Len(descent) THEN "ground_truth_sample_count_mismatch"
               ELSE "none"
    IN [passed |-> IF why = "none" THEN DescentRules ELSE {}, complete |-> why = "none", why |-> why]

\* source_inputs_observed_through
DescentObserved == heardEvents > 0 /\ heardTruth = Len(descent) /\ heardTruth \notin lostTruth

\* A second finalization tells the scorer of the scenario's failure once more, which a
\* scorer with a result refuses: the error ends main() (DescentScorer.fail).
DescentFinal ==
    \/ DescentObserved /\ PollSource(DescentResult(TRUE))
    \/ /\ evaluated = NoScore \/ score # NoScore \/ ScenarioFailure = "none"
       /\ Quiesce(IF evaluated = NoScore THEN DescentResult(FALSE) ELSE evaluated)
    \/ /\ keeper = "crashing" /\ evaluated # NoScore /\ score = NoScore /\ ScenarioFailure # "none"
       /\ keeper' = "ended"
       /\ UNCHANGED <<evaluated, score, onDisk, announced, scoreStatus, scoreQuiet, sourceEnded,
                      scoreAsked, bySource, flushFailures>>

DescentNext ==
    \/ HearTruth \/ LoseTruth \/ HearScenario
    \/ (DescentFinal \/ SourceEnds \/ AskForScore) /\ UNCHANGED descentVars

DescentTypeOK ==
    /\ heardTruth \in 0 .. Len(descent) /\ lostTruth \subseteq 1 .. heardTruth
    /\ heardEvents \in 0 .. Len(scenario) /\ samples.last <= heardTruth
    /\ descentFault \in {"none", "gap", "overrun"}

\* A descent is complete only if every sample of the flight was scored and the magnet was
\* heard to be off; then the four rules are those of the whole flight.  And a flight of
\* which nothing was lost is complete once the source was observed to its end, unless the
\* magnet said otherwise.
DescentIsEarned ==
    LET contacts == {i \in DOMAIN descent : descent[i].contact /\ \E r \in 1 .. i - 1 : descent[r].rise}
    IN /\ score.complete =>
            /\ lostTruth = {} /\ heardTruth = Len(descent) /\ heardEvents > 0
            /\ \A i \in 1 .. heardEvents : scenario[i].state = "INACTIVE"
            /\ "airborne_then_contact" \in score.passed <=> contacts # {}
            /\ "stable_contact" \in score.passed =>
                 \E i \in contacts : \A j \in i .. i + SettledSamples - 1 :
                   j \in DOMAIN descent /\ descent[j].contact /\ descent[j].calm
       /\ bySource /\ lostTruth = {} => score.complete \/ ScenarioFailure # "none"
=============================================================================
