--------------------------- MODULE ScoringProofs ---------------------------
(***************************************************************************)
(* Theorems about the way to a score, for every flight, course, contest    *)
(* and scenario of the magnet, and every number of lost messages and late  *)
(* acknowledgements: the end of a score, the descent, the judge of 2027,   *)
(* the adapter, the contest of 2026, and the course of 2027.  The unit     *)
(* that is flown moves, the others stay where they began.                  *)
(***************************************************************************)
EXTENDS Scoring, NaturalsInduction, WellFoundedInduction, FiniteSetTheorems, SequenceTheorems, TLAPS

-----------------------------------------------------------------------------
(* The finalizer. *)

\* What a scorer returns: a verdict with its reason.
IsResult(r) == r.why # "unscored" /\ r.complete = (r.why = "none")

\* The result of the first attempt is the one on disk and the only one there will be; it
\* counts (score) once its events are acknowledged, and main() runs on only if they were.
FinalizerInv ==
    /\ {scoreQuiet, sourceEnded, scoreAsked, bySource} \subseteq BOOLEAN
    /\ scoreStatus \in {"none", "score", "failure"} /\ keeper \in {"running", "crashing", "ended"}
    /\ flushFailures \in 0 .. MaxFlushFailures /\ announced \in 0 .. 2
    /\ keeper # "ended" => announced \in 0 .. 1
    /\ evaluated = NoScore <=> announced = 0
    /\ evaluated # NoScore => IsResult(evaluated)
    /\ onDisk = evaluated
    /\ score \in {NoScore, evaluated}
    /\ scoreStatus = "none" <=> score = NoScore
    /\ score # NoScore => (scoreStatus = "score") = score.complete
    /\ scoreQuiet \/ bySource => score # NoScore
    /\ keeper = "running" => evaluated = score
    /\ keeper = "crashing" => score = NoScore /\ evaluated # NoScore

LEMMA FinalizerStarts == FinalizerInit => FinalizerInv
<1> SUFFICES ASSUME FinalizerInit PROVE FinalizerInv
  OBVIOUS
<1>1. flushFailures \in 0 .. MaxFlushFailures /\ announced \in 0 .. 1
  BY FinalizerAssumption DEF FinalizerInit
<1>2. /\ evaluated = NoScore /\ score = NoScore /\ onDisk = NoScore /\ announced = 0
      /\ scoreStatus = "none" /\ scoreQuiet = FALSE /\ sourceEnded = FALSE /\ scoreAsked = FALSE
      /\ bySource = FALSE /\ keeper = "running"
  BY DEF FinalizerInit
<1>3. {scoreQuiet, sourceEnded, scoreAsked, bySource} \subseteq BOOLEAN
  BY <1>2
<1>4. scoreStatus \in {"none", "score", "failure"} /\ keeper \in {"running", "crashing", "ended"}
  BY <1>2
<1>5. announced \in 0 .. 2 /\ evaluated = NoScore /\ keeper # "crashing"
  BY <1>1, <1>2
<1>6. QED
  BY <1>1, <1>2, <1>3, <1>4, <1>5 DEF FinalizerInv

\* A result is never the empty score.
LEMMA ResultIsScore == \A r : IsResult(r) => r # NoScore
BY DEF IsResult, NoScore

\* The first attempt, when the source was observed to its end.
LEMMA PollKeeps ==
    ASSUME FinalizerInv, NEW r, IsResult(r), PollSource(r)
    PROVE  /\ FinalizerInv' /\ ResultStays
           /\ evaluated = NoScore /\ evaluated' = r
           /\ score' \in {NoScore, r} /\ (bySource' => score' = r)
<1>1. /\ keeper = "running" /\ score = NoScore /\ evaluated = NoScore /\ announced = 0
      /\ onDisk = NoScore /\ scoreStatus = "none" /\ scoreQuiet = FALSE
  BY DEF FinalizerInv, PollSource, Scorable
<1>2. /\ evaluated' = r /\ onDisk' = r /\ announced' = 1 /\ r # NoScore
  BY <1>1, ResultIsScore DEF PollSource, Finalize, Persist, Announce
<1>3. UNCHANGED <<scoreQuiet, sourceEnded, scoreAsked>> /\ bySource' = (score' # NoScore)
  BY DEF PollSource
<1>4. CASE score' = r /\ flushFailures' = flushFailures
           /\ scoreStatus' = IF r.complete THEN "score" ELSE "failure"
  <2>1. keeper' = "running"
    BY <1>2, <1>4 DEF PollSource, AfterPoll
  <2>2. scoreStatus' # "none" /\ (scoreStatus' = "score") = r.complete
    BY <1>4 DEF IsResult
  <2>3. QED
    BY <1>1, <1>2, <1>3, <1>4, <2>1, <2>2 DEF FinalizerInv, ResultStays
<1>5. CASE /\ flushFailures < MaxFlushFailures /\ flushFailures' = flushFailures + 1
           /\ UNCHANGED <<score, scoreStatus>>
  <2>1. keeper' = "crashing"
    BY <1>1, <1>5 DEF PollSource, AfterPoll
  <2>2. flushFailures' \in 0 .. MaxFlushFailures
    BY <1>5, FinalizerAssumption DEF FinalizerInv
  <2>3. QED
    BY <1>1, <1>2, <1>3, <1>5, <2>1, <2>2 DEF FinalizerInv, ResultStays
<1>6. QED
  BY <1>4, <1>5 DEF PollSource, Finalize

\* The attempt at the finalize request, or the second one in the handler of main().
LEMMA QuiesceKeeps ==
    ASSUME FinalizerInv, NEW r, evaluated # NoScore => r = evaluated,
           evaluated = NoScore => IsResult(r), Quiesce(r)
    PROVE  /\ FinalizerInv' /\ ResultStays
           /\ evaluated' = IF evaluated = NoScore THEN r ELSE evaluated
           /\ score' \in {score, r} /\ UNCHANGED bySource
<1>1. UNCHANGED <<sourceEnded, scoreAsked, bySource>> /\ scoreQuiet' = (score' # NoScore)
  BY DEF Quiesce
<1>2. keeper \in {"running", "crashing"}
  BY DEF Quiesce
<1>3. CASE score # NoScore
  <2>1. UNCHANGED <<evaluated, score, onDisk, announced, scoreStatus, flushFailures>>
    BY <1>3 DEF Quiesce
  <2>2. keeper = "running" /\ keeper' = "running"
    BY <1>2, <1>3, <2>1 DEF Quiesce, AfterPoll, FinalizerInv
  <2>3. QED
    BY <1>1, <1>3, <2>1, <2>2 DEF FinalizerInv, ResultStays
<1>4. CASE score = NoScore
  <2>1. IsResult(r) /\ r # NoScore
    BY ResultIsScore DEF FinalizerInv
  <2>2. evaluated' = r /\ onDisk' = r /\ announced' = announced + 1 /\ announced \in 0 .. 1
        /\ scoreStatus = "none" /\ onDisk \in {NoScore, r} /\ bySource = FALSE
    BY <1>2, <1>4 DEF Quiesce, Finalize, Persist, Announce, FinalizerInv
  <2>3. keeper = "running" => announced = 0
    BY <1>4 DEF FinalizerInv
  <2>4. announced' \in 1 .. 2 /\ (keeper = "running" => announced' = 1)
    BY <2>2, <2>3
  <2>5. CASE score' = r /\ flushFailures' = flushFailures
             /\ scoreStatus' = IF r.complete THEN "score" ELSE "failure"
    <3>1. keeper' = IF keeper = "crashing" THEN "ended" ELSE "running"
      BY <2>1, <2>5 DEF Quiesce, AfterPoll
    <3>2. scoreStatus' # "none" /\ (scoreStatus' = "score") = r.complete
      BY <2>1, <2>5 DEF IsResult
    <3>3. QED
      BY <1>1, <1>2, <1>4, <2>1, <2>2, <2>4, <2>5, <3>1, <3>2 DEF FinalizerInv, ResultStays
  <2>6. CASE /\ flushFailures < MaxFlushFailures /\ flushFailures' = flushFailures + 1
             /\ UNCHANGED <<score, scoreStatus>>
    <3>1. keeper' = IF keeper = "crashing" THEN "ended" ELSE "crashing"
      BY <1>4, <2>6 DEF Quiesce, AfterPoll
    <3>2. flushFailures' \in 0 .. MaxFlushFailures
      BY <2>6, FinalizerAssumption DEF FinalizerInv
    <3>3. QED
      BY <1>1, <1>2, <1>4, <2>1, <2>2, <2>4, <2>6, <3>1, <3>2 DEF FinalizerInv, ResultStays
  <2>7. QED
    BY <1>4, <2>5, <2>6 DEF Quiesce, Finalize
<1>5. QED
  BY <1>3, <1>4

\* Nothing else touches the result.
LEMMA OtherFinalizerSteps ==
    ASSUME FinalizerInv, SourceEnds \/ AskForScore \/ UNCHANGED finalizerVars
    PROVE  /\ FinalizerInv' /\ ResultStays
           /\ UNCHANGED <<evaluated, score, bySource, keeper>>
<1>1. UNCHANGED <<evaluated, score, onDisk, announced, scoreStatus, scoreQuiet, bySource,
                  flushFailures, keeper>>
  BY DEF SourceEnds, AskForScore, finalizerVars
<1>2. {sourceEnded', scoreAsked'} \subseteq BOOLEAN
  BY DEF SourceEnds, AskForScore, finalizerVars, FinalizerInv
<1>3. QED
  BY <1>1, <1>2 DEF FinalizerInv, ResultStays

\* The handler that gives up.
LEMMA GivingUpKeeps ==
    ASSUME FinalizerInv, keeper = "crashing", keeper' = "ended",
           UNCHANGED <<evaluated, score, onDisk, announced, scoreStatus, scoreQuiet,
                       sourceEnded, scoreAsked, bySource, flushFailures>>
    PROVE  FinalizerInv' /\ ResultStays
BY DEF FinalizerInv, ResultStays

-----------------------------------------------------------------------------
(* The descent. *)

Sample == [rise : BOOLEAN, contact : BOOLEAN, near : BOOLEAN, slow : BOOLEAN, calm : BOOLEAN]

\* The scorer keeps a stretch of the flight without a gap, or it has a fault.
SamplesInv ==
    /\ descent \in Seq(Sample) /\ scenario \in Seq([id : Nat, state : {"ACTIVE", "INACTIVE"}])
    /\ heardTruth \in 0 .. Len(descent) /\ lostTruth \subseteq 1 .. heardTruth
    /\ heardEvents \in 0 .. Len(scenario)
    /\ samples.first \in Nat \ {0} /\ samples.last \in 0 .. heardTruth
    /\ samples.first <= samples.last + 1
    /\ samples.first = samples.last + 1 => samples = NoSamples
    /\ descentFault \in {"none", "gap", "overrun"}
    /\ descentFault = "none" => lostTruth \cap samples.first .. samples.last = {}

\* What DescentIsEarned says of a result.
TouchDowns ==
    {i \in DOMAIN descent : descent[i].contact /\ \E r \in 1 .. i - 1 : descent[r].rise}

Earned(result) ==
    result.complete =>
      /\ lostTruth = {} /\ heardTruth = Len(descent) /\ heardEvents > 0
      /\ \A i \in 1 .. heardEvents : scenario[i].state = "INACTIVE"
      /\ "airborne_then_contact" \in result.passed <=> TouchDowns # {}
      /\ "stable_contact" \in result.passed =>
           \E i \in TouchDowns : \A j \in i .. i + SettledSamples - 1 :
             j \in DOMAIN descent /\ descent[j].contact /\ descent[j].calm

\* While it hears, a scorer that lost nothing has all that came by; a result that was made is
\* earned; and one made at the end of the source was made when the flight was over.
DescentInv ==
    /\ evaluated # NoScore => Earned(evaluated)
    /\ keeper = "running" /\ score = NoScore /\ lostTruth = {} =>
         descentFault = "none" /\ samples.first = 1 /\ samples.last = heardTruth
    /\ bySource => /\ heardTruth = Len(descent)
                   /\ lostTruth = {} => score.complete \/ ScenarioFailure # "none"

LEMMA SamplesStart == DescentInit => SamplesInv
<1> SUFFICES ASSUME DescentInit PROVE SamplesInv
  OBVIOUS
<1>1. descent \in Seq(Sample) /\ scenario \in Seq([id : Nat, state : {"ACTIVE", "INACTIVE"}])
  BY DescentAssumption DEF DescentInit, Sample
<1>2. 0 \in 0 .. Len(descent) /\ 0 \in 0 .. Len(scenario)
  BY <1>1
<1>3. QED
  BY <1>1, <1>2 DEF DescentInit, SamplesInv, NoSamples

\* A sample that comes by, heard or lost.
LEMMA HearTruthKeeps ==
    ASSUME SamplesInv, HearTruth
    PROVE  SamplesInv'
<1>1. /\ heardTruth < Len(descent) /\ heardTruth' = heardTruth + 1
      /\ UNCHANGED <<descent, scenario, lostTruth, heardEvents>>
  BY DEF HearTruth
<1>2. Len(descent) \in Nat /\ heardTruth \in Nat /\ heardTruth' \in 1 .. Len(descent)
  BY <1>1 DEF SamplesInv
<1>3. lostTruth' \subseteq 1 .. heardTruth'
  BY <1>1, <1>2 DEF SamplesInv
<1>4. CASE UNCHANGED samples /\ descentFault' \in {descentFault, "gap", "overrun"}
  <2>1. samples.last \in 0 .. heardTruth'
    BY <1>1, <1>2 DEF SamplesInv
  <2>2. QED
    BY <1>1, <1>2, <1>3, <1>4, <2>1 DEF SamplesInv
<1>5. CASE /\ descentFault = "none" /\ UNCHANGED descentFault
           /\ samples' = [first |-> IF Count = 0 THEN heardTruth' ELSE samples.first,
                           last |-> heardTruth']
           /\ ~ (Count > 0 /\ heardTruth' > samples.last + 1)
  <2>1. samples'.last = heardTruth' /\ samples'.last \in Nat \ {0}
    BY <1>2, <1>5
  <2>2. CASE Count = 0
    <3>1. samples'.first = heardTruth'
      BY <1>5, <2>2
    <3>2. lostTruth' \cap samples'.first .. samples'.last = {}
      BY <1>1, <1>2, <2>1, <3>1 DEF SamplesInv
    <3>3. QED
      BY <1>1, <1>2, <1>3, <1>5, <2>1, <3>1, <3>2 DEF SamplesInv
  <2>3. CASE Count # 0
    <3>1. samples'.first = samples.first
      BY <1>5, <2>3
    <3>2. heardTruth' = samples.last + 1 /\ samples.first <= samples.last
      <4>1. samples.first \in Nat /\ samples.last \in 0 .. heardTruth
        BY DEF SamplesInv
      <4>2. samples.first <= samples.last + 1 /\ Count = samples.last + 1 - samples.first
        BY DEF SamplesInv, Count
      <4>3. QED
        BY <1>1, <1>2, <1>5, <2>3, <4>1, <4>2
    <3>3. ASSUME NEW i \in lostTruth', i \in samples'.first .. samples'.last PROVE FALSE
      <4>1. i \in lostTruth /\ i \in 1 .. heardTruth /\ i \in samples.first .. samples.last
        BY <1>1, <1>2, <2>1, <3>1, <3>2, <3>3 DEF SamplesInv
      <4>2. QED
        BY <1>5, <4>1 DEF SamplesInv
    <3>4. samples'.first # samples'.last + 1 /\ samples'.first <= samples'.last + 1
      BY <1>2, <2>1, <3>1, <3>2 DEF SamplesInv
    <3>5. QED
      BY <1>1, <1>2, <1>3, <1>5, <2>1, <3>1, <3>3, <3>4 DEF SamplesInv
  <2>4. QED
    BY <2>2, <2>3
<1>6. QED
  BY <1>4, <1>5 DEF HearTruth, AcceptTruth

LEMMA LoseTruthKeeps ==
    ASSUME SamplesInv, LoseTruth
    PROVE  SamplesInv' /\ lostTruth' # {} /\ heardTruth # Len(descent)
<1>1. /\ heardTruth < Len(descent) /\ heardTruth' = heardTruth + 1
      /\ lostTruth' = lostTruth \cup {heardTruth'}
      /\ UNCHANGED <<descent, scenario, heardEvents, samples, descentFault>>
  BY DEF LoseTruth
<1>2. /\ Len(descent) \in Nat /\ heardTruth \in Nat /\ heardTruth' \in 1 .. Len(descent)
      /\ samples.last \in 0 .. heardTruth /\ heardTruth' > samples.last
  BY <1>1 DEF SamplesInv
<1>3. lostTruth' \subseteq 1 .. heardTruth' /\ samples.last \in 0 .. heardTruth'
  BY <1>1, <1>2 DEF SamplesInv
<1>4. heardTruth' \notin samples.first .. samples.last
  BY <1>2 DEF SamplesInv
<1>5. descentFault = "none" => lostTruth' \cap samples.first .. samples.last = {}
  BY <1>1, <1>4 DEF SamplesInv
<1>6. QED
  BY <1>1, <1>2, <1>3, <1>5 DEF SamplesInv

LEMMA OtherSamplesKeep ==
    ASSUME SamplesInv, HearScenario \/ UNCHANGED descentVars
    PROVE  SamplesInv' /\ UNCHANGED <<descent, scenario, heardTruth, lostTruth, samples, descentFault>>
<1>1. UNCHANGED <<descent, scenario, heardTruth, lostTruth, samples, descentFault>>
  BY DEF HearScenario, descentVars
<1>2. heardEvents' \in 0 .. Len(scenario)
  BY DEF HearScenario, descentVars, SamplesInv
<1>3. QED
  BY <1>1, <1>2 DEF SamplesInv

-----------------------------------------------------------------------------
(* The verdict on a descent. *)

\* A set of numbers that is not empty has a first one.
LEMMA FirstExists ==
    ASSUME NEW S \in SUBSET Nat, S # {}
    PROVE  FirstSuch(S) \in S /\ \A j \in S : FirstSuch(S) <= j
<1>1. IsWellFoundedOn(OpToRel(<, Nat), Nat)
  BY NatLessThanWellFounded
<1>2. PICK m \in S : \A k \in S : ~ (<<k, m>> \in OpToRel(<, Nat))
  BY <1>1, WFMin
<1>3. ASSUME NEW k \in S PROVE m <= k
  <2>1. ~ (k < m)
    BY <1>2 DEF OpToRel
  <2>2. k \in Nat /\ m \in Nat
    OBVIOUS
  <2>3. QED
    BY <2>1, <2>2
<1>4. QED
  BY <1>3 DEF FirstSuch

\* With every sample of the flight kept, the rules are those of the flight.
LEMMA RulesOfFlight ==
    ASSUME SamplesInv, samples.first = 1, samples.last = Len(descent)
    PROVE  /\ "airborne_then_contact" \in DescentRules <=> TouchDowns # {}
           /\ "stable_contact" \in DescentRules =>
                \E i \in TouchDowns : \A j \in i .. i + SettledSamples - 1 :
                  j \in DOMAIN descent /\ descent[j].contact /\ descent[j].calm
<1> DEFINE seen == samples.first .. samples.last
           rises == {i \in seen : descent[i].rise}
           contacts == {i \in seen : descent[i].contact /\ \E r \in rises : r < i}
           down == FirstSuch(contacts)
           window == down .. down + SettledSamples - 1
<1>1. seen = DOMAIN descent /\ seen = 1 .. Len(descent) /\ Len(descent) \in Nat
  BY DEF SamplesInv
<1>2. contacts = TouchDowns
  <2>1. ASSUME NEW i \in seen PROVE (\E r \in rises : r < i) <=> \E r \in 1 .. i - 1 : descent[r].rise
    BY <1>1
  <2>2. QED
    BY <1>1, <2>1 DEF TouchDowns
<1>3. CASE contacts = {}
  <2>1. DescentRules = {}
    BY <1>3 DEF DescentRules
  <2>2. QED
    BY <1>2, <1>3, <2>1
<1>4. CASE contacts # {}
  <2>1. contacts \in SUBSET Nat
    BY <1>1
  <2>2. down \in contacts
    BY <1>4, <2>1, FirstExists
  <2>3. DescentRules =
          {"airborne_then_contact"}
            \cup (IF descent[down].near THEN {"touchdown_precision"} ELSE {})
            \cup (IF down > samples.first /\ descent[down - 1].slow
                  THEN {"safe_preimpact_speed"} ELSE {})
            \cup (IF window \subseteq seen /\ \A i \in window : descent[i].contact /\ descent[i].calm
                  THEN {"stable_contact"} ELSE {})
    BY <1>4 DEF DescentRules
  <2>4. "airborne_then_contact" \in DescentRules
    BY <2>3
  <2>5. "stable_contact" \in DescentRules =>
          window \subseteq seen /\ \A i \in window : descent[i].contact /\ descent[i].calm
    <3> HIDE DEF down, window, seen
    <3>1. QED
      BY <2>3
  <2>6. QED
    <3> HIDE DEF contacts, seen
    <3>1. QED
      BY <1>1, <1>2, <1>4, <2>2, <2>4, <2>5
<1>5. QED
  BY <1>3, <1>4

\* What the scorer returns now is earned, and nothing missed.
LEMMA VerdictIsEarned ==
    ASSUME SamplesInv, NEW source \in BOOLEAN
    PROVE  IsResult(DescentResult(source)) /\ Earned(DescentResult(source))
<1> DEFINE r == DescentResult(source)
<1>1. IsResult(r)
  BY DEF IsResult, DescentResult, SamplesInv, ScenarioFailure
<1>2. ASSUME r.complete PROVE Earned(r)
  <2>1. /\ descentFault = "none" /\ ScenarioFailure = "none" /\ Count = Len(descent)
        /\ r.passed = DescentRules
    BY <1>2 DEF DescentResult
  <2>2. samples.first = 1 /\ samples.last = Len(descent) /\ heardTruth = Len(descent)
    <3>1. /\ samples.last + 1 - samples.first = Len(descent) /\ Len(descent) \in Nat
          /\ samples.last <= Len(descent) /\ samples.last \in Nat /\ samples.first \in Nat \ {0}
          /\ samples.last <= heardTruth /\ heardTruth \in 0 .. Len(descent)
      BY <2>1 DEF Count, SamplesInv
    <3>2. QED
      BY <3>1
  <2>3. lostTruth = {}
    BY <2>1, <2>2 DEF SamplesInv
  <2>4. heardEvents > 0 /\ \A i \in 1 .. heardEvents : scenario[i].state = "INACTIVE"
    <3>1. 1 .. heardEvents # {}
      BY <2>1 DEF ScenarioFailure
    <3>2. ~ \E i, j \in 1 .. heardEvents :
              scenario[i].state # "INACTIVE" \/ (scenario[i].id = scenario[j].id /\ scenario[i] # scenario[j])
      BY <2>1, <3>1 DEF ScenarioFailure
    <3>3. QED
      BY <3>1, <3>2 DEF SamplesInv
  <2>5. QED
    BY <2>1, <2>2, <2>3, <2>4, RulesOfFlight DEF Earned
<1>3. QED
  BY <1>1, <1>2 DEF Earned

-----------------------------------------------------------------------------
(* The judge of 2027. *)

JudgeStates ==
    [phase : Phases \cup {""}, t : Nat, contact : BOOLEAN, at : STRING \cup {""}, statusAt : Nat,
     armed : BOOLEAN, parcel : STRING \cup {"none"}, rest : Nat, started : Nat, since : Nat, acc : Nat,
     paused : BOOLEAN, approval : Nat, finished : BOOLEAN,
     failure : {"none", "approval_timeout", "active_deadline_exceeded"}, takeoffs : 0 .. 2,
     landedAtD : BOOLEAN, released : BOOLEAN, airborne : BOOLEAN, eligible : BOOLEAN,
     high : BOOLEAN]

PointNames == {"A", "A+", "BP", "BA", "CP", "CA", "T"}

PointStates ==
    [earned : SUBSET PointNames, phase : Phases \cup {""}, auto : SUBSET Phases,
     lowRelease : BOOLEAN, badRelease : BOOLEAN, penalties : Nat, active : Nat,
     home : BOOLEAN, eligible : BOOLEAN]

Decisions ==
    [phase : Phases, at : STRING, t : Nat, outcome : {"approved", "rejected", "error"},
     truthAt : Nat, statusAt : Nat]

\* The clock of the attempt: it counts from the first takeoff, and no epoch twice.
Clock(j) ==
    /\ j.since <= j.t /\ j.started <= j.t
    /\ j.started = 0 => j.since = 0 /\ j.acc = 0
    /\ j.started # 0 => (IF j.since = 0 THEN j.acc ELSE j.acc + (j.t - j.since)) <= j.t - j.started

\* What was published, what has arrived and what is joined.
TopicsInv ==
    /\ course \in DOMAIN Courses /\ leg \in 1 .. Len(vfsLegs) /\ vfsNow \in 0 .. LastEpoch
    /\ joined \in 0 .. vfsNow /\ flown \in Seq(Legs) /\ Len(flown) = vfsNow - joined
    /\ skipped \subseteq 1 .. LastEpoch /\ got \in [PhysicalTopics -> 0 .. vfsNow]
    /\ draining \in BOOLEAN /\ vfsRun \in {"running", "raised", "scored"}
    /\ said \in Seq(Sayings) /\ asked \in Sayings \cup {NoCheck}

\* Approved, of the decisions D.
Granted(D, phase, at) ==
    \E i \in DOMAIN D : D[i].phase = phase /\ D[i].at = at /\ D[i].outcome = "approved"

\* A decision that was made on the facts of the epoch it was asked at, or is an error.
Timely(d) == d.outcome # "error" => d.truthAt = d.t /\ d.statusAt <= d.t

\* The judge has the truth of the last joined epoch; what it approved was asked at that
\* epoch; and points and the permission to go on follow approvals.
JudgeInv ==
    /\ judge \in JudgeStates /\ judge.t = joined /\ Clock(judge)
    /\ decisions \in Seq(Decisions)
    /\ \A i \in DOMAIN decisions : Timely(decisions[i])
    /\ judge.landedAtD => Granted(decisions, "FM1", "D")

Deserved(p, D) ==
    /\ p \in PointStates
    /\ p.earned \cap {"A", "A+"} # {} => Granted(D, "FM1", "D")
    /\ p.eligible \/ p.earned \cap {"BP", "BA", "CP", "CA"} # {} => Granted(D, "FM2", "")
    /\ p.earned \cap {"CP", "CA", "T"} # {} => Granted(D, "FM3", "")
    /\ "CP" \in p.earned => ~ p.badRelease

VfsInv == TopicsInv /\ JudgeInv /\ Deserved(points, decisions)

LEMMA VfsStarts == VfsInit => VfsInv
<1> SUFFICES ASSUME VfsInit PROVE VfsInv
  OBVIOUS
<1>1. Courses[course] \in Seq(Legs) /\ Len(Courses[course]) > 0
  BY VfsAssumption DEF VfsInit
<1>2. vfsLegs[1] \in Legs /\ leg \in 1 .. Len(vfsLegs)
  <2>1. vfsLegs \in Seq(Legs) /\ Len(vfsLegs) > 0 /\ leg = 1
    BY <1>1 DEF VfsInit, vfsLegs
  <2>2. QED
    BY <2>1
<1>3. said \in Seq(Sayings)
  BY <1>2 DEF VfsInit, Legs
<1>4. TopicsInv
  <2>1. /\ course \in DOMAIN Courses /\ vfsNow = 0 /\ joined = 0 /\ flown = <<>> /\ skipped = {}
        /\ draining = FALSE /\ vfsRun = "running" /\ asked = NoCheck
        /\ got = [p \in PhysicalTopics |-> 0]
    BY DEF VfsInit
  <2>2. vfsNow \in 0 .. LastEpoch /\ joined \in 0 .. vfsNow
        /\ got \in [PhysicalTopics -> 0 .. vfsNow]
    BY <2>1, VfsAssumption
  <2>3. flown \in Seq(Legs) /\ Len(flown) = vfsNow - joined
    BY <2>1
  <2>4. QED
    BY <1>2, <1>3, <2>1, <2>2, <2>3 DEF TopicsInv
<1>5. judge \in JudgeStates /\ Clock(judge) /\ judge.t = joined /\ judge.landedAtD = FALSE
  <2>1. judge = [phase |-> "", t |-> 0, contact |-> FALSE, at |-> "", statusAt |-> 0,
                 armed |-> TRUE, parcel |-> "none", rest |-> 0, started |-> 0, since |-> 0,
                 acc |-> 0, paused |-> FALSE, approval |-> 0, finished |-> FALSE,
                 failure |-> "none", takeoffs |-> 0, landedAtD |-> FALSE, released |-> FALSE,
                 airborne |-> FALSE, eligible |-> FALSE, high |-> FALSE] /\ joined = 0
    BY DEF VfsInit
  <2>2. judge \in JudgeStates
    <3>1. 0 \in Nat /\ 0 \in 0 .. 2
      OBVIOUS
    <3>2. "" \in Phases \cup {""}
      OBVIOUS
    <3>3. "" \in STRING \cup {""} /\ "none" \in STRING \cup {"none"}
      OBVIOUS
    <3>4. QED
      BY <2>1, <3>1, <3>2, <3>3, ZenonT(60) DEF JudgeStates
  <2>3. /\ judge.t = 0 /\ judge.since = 0 /\ judge.started = 0 /\ judge.acc = 0
        /\ judge.landedAtD = FALSE
    BY <2>1
  <2>4. Clock(judge)
    BY <2>3 DEF Clock
  <2>5. QED
    BY <2>1, <2>2, <2>3, <2>4
<1>6. points \in PointStates /\ points.earned = {} /\ points.eligible = FALSE
  BY DEF VfsInit, NoPoints, PointStates
<1>7. decisions = <<>> /\ decisions \in Seq(Decisions)
  <2>1. decisions = <<>>
    BY DEF VfsInit
  <2>2. QED
    BY <2>1
<1>8. JudgeInv
  <2>1. DOMAIN decisions = {}
    BY <1>7
  <2>2. QED
    BY <1>5, <1>7, <2>1 DEF JudgeInv
<1>9. Deserved(points, decisions)
  BY <1>6 DEF Deserved
<1>10. QED
  BY <1>4, <1>8, <1>9 DEF VfsInv

\* What the truth, the clock, a status and a frozen check write keeps the judge's state one.
LEMMA JudgeSees ==
    ASSUME NEW j \in JudgeStates, NEW t \in Nat, NEW on \in BOOLEAN, NEW at \in STRING \cup {""},
           NEW n \in 0 .. 2, NEW air \in BOOLEAN, NEW up \in BOOLEAN
    PROVE  [j EXCEPT !.t = t, !.contact = on, !.at = at, !.takeoffs = n, !.airborne = air,
                     !.high = up] \in JudgeStates
BY DEF JudgeStates

LEMMA JudgeCounts ==
    ASSUME NEW j \in JudgeStates, NEW begun \in Nat, NEW from \in Nat, NEW sum \in Nat,
           NEW still \in BOOLEAN, NEW ok \in Nat, NEW done \in BOOLEAN,
           NEW why \in {"none", "approval_timeout", "active_deadline_exceeded"}
    PROVE  [j EXCEPT !.started = begun, !.since = from, !.acc = sum, !.paused = still,
                     !.approval = ok, !.finished = done, !.failure = why] \in JudgeStates
BY DEF JudgeStates

LEMMA JudgeTells ==
    ASSUME NEW j \in JudgeStates, NEW t \in Nat, NEW armed \in BOOLEAN, NEW sum \in Nat,
           NEW from \in Nat, NEW still \in BOOLEAN
    PROVE  [j EXCEPT !.statusAt = t, !.armed = armed, !.acc = sum, !.since = from,
                     !.paused = still] \in JudgeStates
BY DEF JudgeStates

LEMMA JudgeFreezes ==
    ASSUME NEW j \in JudgeStates, NEW sum \in Nat, NEW t \in Nat, NEW settled \in BOOLEAN,
           NEW done \in BOOLEAN
    PROVE  [j EXCEPT !.acc = sum, !.since = 0, !.paused = TRUE, !.approval = t,
                     !.released = TRUE, !.eligible = settled, !.finished = done] \in JudgeStates
BY DEF JudgeStates

\* The truth of the next epoch.
LEMMA TruthKeepsClock ==
    ASSUME NEW j \in JudgeStates, Clock(j), NEW f \in Legs, NEW t, t = j.t + 1
    PROVE  /\ JudgeTruth(j, f, t) \in JudgeStates /\ Clock(JudgeTruth(j, f, t))
           /\ JudgeTruth(j, f, t).t = t /\ JudgeTruth(j, f, t).landedAtD = j.landedAtD
<1> DEFINE takesOff == j.t > 0 /\ j.contact /\ ~f.contact
           unused == j.paused /\ j.approval # 0 /\ t - j.approval > ApprovalEpochs
           first == takesOff /\ j.started = 0
           again == takesOff /\ j.started # 0 /\ j.paused /\ ~j.finished /\ ~unused
           home == /\ j.t > 0 /\ ~j.contact /\ f.contact /\ j.phase = "FM3" /\ f.at = "H"
                   /\ j.since # 0
           k == [j EXCEPT !.t = t, !.contact = f.contact, !.at = f.at,
                       !.takeoffs = IF takesOff /\ @ < 2 THEN @ + 1 ELSE @,
                       !.airborne = @ \/ (takesOff /\ j.phase = "FM2"),
                       !.high = IF takesOff THEN f.high ELSE @ \/ (~f.contact /\ f.high),
                       !.started = IF first THEN t ELSE @,
                       !.since = IF first \/ again THEN t ELSE IF home THEN 0 ELSE @,
                       !.acc = IF home THEN @ + t - j.since ELSE @,
                       !.paused = (@ \/ home) /\ ~again,
                       !.approval = IF again THEN 0 ELSE @,
                       !.finished = @ \/ unused,
                       !.failure = IF unused THEN "approval_timeout" ELSE @]
           late == [k EXCEPT !.acc = ElapsedAt(k, t), !.since = 0, !.finished = TRUE,
                             !.failure = "active_deadline_exceeded"]
<1>1. JudgeTruth(j, f, t) = IF ElapsedAt(k, t) <= ActiveEpochs THEN k ELSE late
  BY DEF JudgeTruth
<1>2. /\ t \in Nat \ {0} /\ j.t \in Nat /\ j.since \in Nat /\ j.acc \in Nat /\ j.started \in Nat
      /\ j.approval \in Nat /\ j.since <= j.t /\ j.takeoffs \in 0 .. 2
  <2>1. /\ j.t \in Nat /\ j.since \in Nat /\ j.acc \in Nat /\ j.started \in Nat
        /\ j.approval \in Nat /\ j.takeoffs \in 0 .. 2
    BY DEF JudgeStates
  <2>2. t \in Nat \ {0}
    BY <2>1
  <2>3. QED
    BY <2>1, <2>2 DEF Clock
<1>3. /\ k.t = t /\ k.landedAtD = j.landedAtD
      /\ k.started = IF first THEN t ELSE j.started
      /\ k.since = IF first \/ again THEN t ELSE IF home THEN 0 ELSE j.since
      /\ k.acc = IF home THEN j.acc + t - j.since ELSE j.acc
  BY DEF JudgeStates
<1>4. takesOff => ~ home
  OBVIOUS
<1>5. /\ f.contact \in BOOLEAN /\ f.high \in BOOLEAN /\ f.at \in STRING
      /\ (IF takesOff /\ j.takeoffs < 2 THEN j.takeoffs + 1 ELSE j.takeoffs) \in 0 .. 2
      /\ (IF first THEN t ELSE j.started) \in Nat
      /\ (IF first \/ again THEN t ELSE IF home THEN 0 ELSE j.since) \in Nat
      /\ (IF home THEN j.acc + t - j.since ELSE j.acc) \in Nat
      /\ (IF again THEN 0 ELSE j.approval) \in Nat
  <2>0. f.contact \in BOOLEAN /\ f.high \in BOOLEAN /\ f.at \in STRING
    BY DEF Legs
  <2> HIDE DEF takesOff, first, again, home, unused
  <2>1. (IF takesOff /\ j.takeoffs < 2 THEN j.takeoffs + 1 ELSE j.takeoffs) \in 0 .. 2
    BY <1>2
  <2>2. /\ (IF first THEN t ELSE j.started) \in Nat
        /\ (IF first \/ again THEN t ELSE IF home THEN 0 ELSE j.since) \in Nat
        /\ (IF again THEN 0 ELSE j.approval) \in Nat
    BY <1>2
  <2>3. (IF home THEN j.acc + t - j.since ELSE j.acc) \in Nat
    BY <1>2
  <2>4. QED
    BY <2>0, <2>1, <2>2, <2>3
<1>6. k \in JudgeStates
  <2>1. /\ j.airborne \in BOOLEAN /\ j.high \in BOOLEAN /\ j.paused \in BOOLEAN
        /\ j.finished \in BOOLEAN
    BY DEF JudgeStates
  <2>2. /\ (j.airborne \/ (takesOff /\ j.phase = "FM2")) \in BOOLEAN
        /\ (IF takesOff THEN f.high ELSE j.high \/ (~f.contact /\ f.high)) \in BOOLEAN
        /\ ((j.paused \/ home) /\ ~again) \in BOOLEAN
        /\ (j.finished \/ unused) \in BOOLEAN
    <3> HIDE DEF takesOff, first, again, home, unused
    <3>1. QED
      BY <1>5
  <2>3. (IF unused THEN "approval_timeout" ELSE j.failure)
          \in {"none", "approval_timeout", "active_deadline_exceeded"}
    BY DEF JudgeStates
  <2>4. t \in Nat
    BY <1>2
  <2> DEFINE offs == IF takesOff /\ j.takeoffs < 2 THEN j.takeoffs + 1 ELSE j.takeoffs
             begun == IF first THEN t ELSE j.started
             from == IF first \/ again THEN t ELSE IF home THEN 0 ELSE j.since
             sum == IF home THEN j.acc + t - j.since ELSE j.acc
             ok == IF again THEN 0 ELSE j.approval
             air == j.airborne \/ (takesOff /\ j.phase = "FM2")
             up == IF takesOff THEN f.high ELSE j.high \/ (~f.contact /\ f.high)
             still == (j.paused \/ home) /\ ~again
             done == j.finished \/ unused
             why == IF unused THEN "approval_timeout" ELSE j.failure
  <2>5. k = [j EXCEPT !.t = t, !.contact = f.contact, !.at = f.at, !.takeoffs = offs,
                      !.airborne = air, !.high = up, !.started = begun, !.since = from,
                      !.acc = sum, !.paused = still, !.approval = ok, !.finished = done,
                      !.failure = why]
    OBVIOUS
  <2> HIDE DEF takesOff, first, again, home, unused, k
  <2>6. /\ offs \in 0 .. 2 /\ begun \in Nat /\ from \in Nat /\ sum \in Nat /\ ok \in Nat
        /\ f.contact \in BOOLEAN /\ f.at \in STRING
    BY <1>5
  <2>7. /\ air \in BOOLEAN /\ up \in BOOLEAN /\ still \in BOOLEAN /\ done \in BOOLEAN
        /\ why \in {"none", "approval_timeout", "active_deadline_exceeded"}
    BY <2>2, <2>3
  <2> HIDE DEF offs, begun, from, sum, ok, air, up, still, done, why
  <2>8. f.at \in STRING \cup {""}
    BY <2>6
  <2> DEFINE seen == [j EXCEPT !.t = t, !.contact = f.contact, !.at = f.at, !.takeoffs = offs,
                               !.airborne = air, !.high = up]
  <2>9. seen \in JudgeStates
    BY <2>4, <2>6, <2>7, <2>8, JudgeSees, ZenonT(60)
  <2>10. k = [seen EXCEPT !.started = begun, !.since = from, !.acc = sum, !.paused = still,
                          !.approval = ok, !.finished = done, !.failure = why]
    BY <2>5 DEF JudgeStates
  <2> HIDE DEF seen
  <2>11. [seen EXCEPT !.started = begun, !.since = from, !.acc = sum, !.paused = still,
                      !.approval = ok, !.finished = done, !.failure = why] \in JudgeStates
    BY <2>6, <2>7, <2>9, JudgeCounts, ZenonT(120)
  <2>12. QED
    BY <2>10, <2>11, Zenon
<1>7. Clock(k) /\ ElapsedAt(k, t) \in Nat
      /\ ElapsedAt(k, t) = IF k.since = 0 THEN k.acc ELSE k.acc + (t - k.since)
  <2>1. /\ j.started <= j.t
        /\ j.started = 0 => j.since = 0 /\ j.acc = 0
        /\ j.started # 0 => (IF j.since = 0 THEN j.acc ELSE j.acc + (j.t - j.since)) <= j.t - j.started
    BY DEF Clock
  <2>2. home => j.since # 0
    OBVIOUS
  <2>3. (first => j.started = 0) /\ (again => j.started # 0)
    OBVIOUS
  <2>4. (first => ~ home) /\ (again => ~ home)
    BY <1>4
  <2> HIDE DEF takesOff, first, again, home, unused, k
  <2>5. k.since \in Nat /\ k.since <= t /\ k.acc \in Nat /\ k.started \in Nat /\ k.started <= t
    BY <1>2, <1>3, <2>1, <2>2
  <2>6. k.started = 0 => k.since = 0 /\ k.acc = 0
    BY <1>2, <1>3, <2>1, <2>2, <2>3
  <2>7. k.started # 0 => (IF k.since = 0 THEN k.acc ELSE k.acc + (t - k.since)) <= t - k.started
    <3>1. CASE first
      BY <1>2, <1>3, <2>1, <2>3, <2>4, <3>1
    <3>2. CASE again
      BY <1>2, <1>3, <2>1, <2>3, <2>4, <3>2
    <3>3. CASE home /\ ~ first /\ ~ again
      BY <1>2, <1>3, <2>1, <2>2, <3>3
    <3>4. CASE ~ home /\ ~ first /\ ~ again
      BY <1>2, <1>3, <2>1, <3>4
    <3>5. QED
      BY <3>1, <3>2, <3>3, <3>4
  <2>8. ElapsedAt(k, t) = IF k.since = 0 THEN k.acc ELSE k.acc + (t - k.since)
    BY <1>2, <2>5 DEF ElapsedAt
  <2>9. ElapsedAt(k, t) \in Nat
    BY <1>2, <2>5, <2>8
  <2>10. Clock(k)
    BY <1>3, <2>5, <2>6, <2>7 DEF Clock
  <2>11. QED
    BY <2>8, <2>9, <2>10
<1>8. /\ late \in JudgeStates /\ late.t = t /\ late.landedAtD = j.landedAtD
      /\ late.acc = ElapsedAt(k, t) /\ late.since = 0 /\ late.started = k.started
  <2> DEFINE sum == ElapsedAt(k, t)
  <2>1. late = [k EXCEPT !.acc = sum, !.since = 0, !.finished = TRUE,
                         !.failure = "active_deadline_exceeded"]
    OBVIOUS
  <2>2. sum \in Nat
    BY <1>7
  <2> HIDE DEF k, late, sum
  <2>3. late \in JudgeStates
    BY <1>6, <2>1, <2>2 DEF JudgeStates
  <2>4. /\ late.t = k.t /\ late.landedAtD = k.landedAtD /\ late.acc = sum
        /\ late.since = 0 /\ late.started = k.started
    BY <1>6, <2>1 DEF JudgeStates
  <2>5. QED
    BY <1>3, <2>3, <2>4 DEF sum
<1>9. Clock(late)
  <2> HIDE DEF k, late
  <2>1. k.started \in Nat /\ k.acc \in Nat /\ k.since \in Nat
    BY <1>6 DEF JudgeStates
  <2>2. QED
    BY <1>2, <1>3, <1>7, <1>8, <2>1 DEF Clock
<1>10. QED
  <2> HIDE DEF k, late
  <2>1. QED
    BY <1>1, <1>3, <1>6, <1>7, <1>8, <1>9

\* Payload and status of the same epoch.
LEMMA ParcelKeepsClock ==
    ASSUME NEW j \in JudgeStates, Clock(j), NEW f \in Legs, NEW t \in Nat
    PROVE  /\ JudgeParcel(j, f, t) \in JudgeStates /\ Clock(JudgeParcel(j, f, t))
           /\ JudgeParcel(j, f, t).t = j.t /\ JudgeParcel(j, f, t).landedAtD = j.landedAtD
<1> DEFINE k == JudgeParcel(j, f, t)
<1>1. /\ k.t = j.t /\ k.since = j.since /\ k.acc = j.acc /\ k.started = j.started
      /\ k.landedAtD = j.landedAtD
  BY DEF JudgeParcel, JudgeStates
<1>2. k \in JudgeStates
  BY DEF JudgeParcel, JudgeStates, Legs
<1>3. QED
  BY <1>1, <1>2 DEF Clock

LEMMA StatusKeepsClock ==
    ASSUME NEW j \in JudgeStates, Clock(j), NEW f \in Legs
    PROVE  /\ JudgeStatus(j, f, j.t) \in JudgeStates /\ Clock(JudgeStatus(j, f, j.t))
           /\ JudgeStatus(j, f, j.t).t = j.t /\ JudgeStatus(j, f, j.t).landedAtD = j.landedAtD
<1> DEFINE k == JudgeStatus(j, f, j.t)
           pauses == /\ j.phase = "FM2" /\ j.airborne /\ j.since # 0 /\ ~f.armed
                     /\ j.contact /\ j.at = "H"
<1>1. /\ k.t = j.t /\ k.landedAtD = j.landedAtD /\ k.started = j.started
      /\ k.acc = (IF pauses THEN j.acc + j.t - j.since ELSE j.acc)
      /\ k.since = (IF pauses THEN 0 ELSE j.since)
  BY DEF JudgeStatus, JudgeStates
<1>2. j.t \in Nat /\ j.since \in Nat /\ j.acc \in Nat /\ j.started \in Nat
  BY DEF JudgeStates
<1>3. pauses => j.since # 0
  OBVIOUS
<1>4. /\ (IF pauses THEN j.acc + j.t - j.since ELSE j.acc) \in Nat
      /\ (IF pauses THEN 0 ELSE j.since) \in Nat
      /\ (j.paused \/ pauses) \in BOOLEAN
  <2>1. j.paused \in BOOLEAN
    BY DEF JudgeStates
  <2> HIDE DEF pauses
  <2>2. QED
    BY <1>2, <2>1 DEF Clock
<1>5. k \in JudgeStates
  <2>1. k = [j EXCEPT !.statusAt = j.t, !.armed = f.armed,
                      !.acc = IF pauses THEN @ + j.t - j.since ELSE @,
                      !.since = IF pauses THEN 0 ELSE @,
                      !.paused = @ \/ pauses]
    BY DEF JudgeStatus
  <2> DEFINE sum == IF pauses THEN j.acc + j.t - j.since ELSE j.acc
             from == IF pauses THEN 0 ELSE j.since
             still == j.paused \/ pauses
  <2>2. k = [j EXCEPT !.statusAt = j.t, !.armed = f.armed, !.acc = sum, !.since = from,
                      !.paused = still]
    BY <2>1
  <2>3. sum \in Nat /\ from \in Nat /\ still \in BOOLEAN /\ f.armed \in BOOLEAN
    BY <1>4 DEF Legs
  <2> HIDE DEF pauses, k, sum, from, still
  <2>4. QED
    BY <1>2, <2>2, <2>3, JudgeTells
<1>6. Clock(k)
  <2> HIDE DEF pauses, k
  <2>1. QED
    BY <1>1, <1>2, <1>3 DEF Clock
<1>7. QED
  BY <1>1, <1>5, <1>6

\* A decision: only what is valid and of this epoch is approved or rejected.
LEMMA DecideKeeps ==
    ASSUME NEW j \in JudgeStates, Clock(j), NEW c \in Sayings
    PROVE  LET d == Decide(j, c) IN
           /\ d[1] \in {"approved", "rejected", "error"}
           /\ Clock(d[2]) \/ j.t < c.t
           /\ d[2] \in JudgeStates /\ d[2].t = j.t
           /\ d[1] # "approved" => d[2] = j
           /\ d[1] # "error" => j.t <= c.t /\ j.statusAt <= c.t /\ Valid(c)
           /\ d[1] = "approved" /\ c.phase = "FM1" /\ c.at = "H" => j.landedAtD
           /\ d[2].landedAtD => j.landedAtD \/ (d[1] = "approved" /\ c.phase = "FM1" /\ c.at = "D")
<1> DEFINE d == Decide(j, c)
           stale == \/ j.t = 0 \/ j.t > c.t \/ c.t - j.t > 1
                    \/ j.statusAt = 0 \/ j.statusAt > c.t \/ c.t - j.statusAt > JudgePatience
                    \/ ~Valid(c)
           down == j.contact /\ ~j.armed
           ordered == \/ c.at = "D" /\ j.phase = "FM1" /\ j.takeoffs >= 1
                      \/ c.at = "H" /\ j.landedAtD /\ j.takeoffs >= 2
           goes == /\ j.failure = "none" /\ (j.eligible => j.parcel = "L")
                   /\ j.phase = "FM3" /\ j.released /\ down /\ j.at = "H"
           landed == [j EXCEPT !.landedAtD = @ \/ c.at = "D"]
           over == [j EXCEPT !.finished = TRUE]
<1>1. d = IF stale THEN <<"error", j>>
          ELSE IF c.phase = "FM1"
          THEN IF down /\ j.at = c.at /\ ordered /\ j.high
               THEN <<"approved", landed>> ELSE <<"rejected", j>>
          ELSE IF c.phase = "FM2"
          THEN IF down /\ j.at = "H" THEN <<"approved", FreezeEligible(j, c.t)>> ELSE <<"rejected", j>>
          ELSE IF goes THEN <<"approved", over>> ELSE <<"rejected", j>>
  BY DEF Decide
<1>2. j.t \in Nat /\ j.since \in Nat /\ j.acc \in Nat /\ j.started \in Nat /\ j.statusAt \in Nat
      /\ c.t \in Nat /\ j.landedAtD \in BOOLEAN
  BY DEF JudgeStates, Sayings
<1>3. ~ stale => j.t <= c.t /\ j.statusAt <= c.t /\ Valid(c)
  BY <1>2
<1>4. /\ landed \in JudgeStates /\ Clock(landed) /\ landed.t = j.t
      /\ landed.landedAtD => j.landedAtD \/ c.at = "D"
  <2>1. /\ landed.t = j.t /\ landed.since = j.since /\ landed.acc = j.acc
        /\ landed.started = j.started /\ landed.landedAtD = (j.landedAtD \/ c.at = "D")
    BY DEF JudgeStates
  <2>2. landed \in JudgeStates
    BY DEF JudgeStates
  <2>3. QED
    BY <2>1, <2>2 DEF Clock
<1>5. over \in JudgeStates /\ Clock(over) /\ over.t = j.t /\ over.landedAtD = j.landedAtD
  <2>1. /\ over.t = j.t /\ over.since = j.since /\ over.acc = j.acc
        /\ over.started = j.started /\ over.landedAtD = j.landedAtD
    BY DEF JudgeStates
  <2>2. over \in JudgeStates
    BY DEF JudgeStates
  <2>3. QED
    BY <2>1, <2>2 DEF Clock
<1>6. /\ FreezeEligible(j, c.t) \in JudgeStates
      /\ Clock(FreezeEligible(j, c.t)) \/ j.t < c.t \/ c.t < j.t
      /\ FreezeEligible(j, c.t).t = j.t
      /\ FreezeEligible(j, c.t).landedAtD = j.landedAtD
  <2> DEFINE e == FreezeEligible(j, c.t)
             settled == j.parcel = "target" /\ c.t - j.rest >= SettleEpochs
  <2>1. /\ e.t = j.t /\ e.landedAtD = j.landedAtD /\ e.started = j.started
        /\ e.since = 0 /\ e.acc = ElapsedAt(j, c.t)
    BY DEF FreezeEligible, JudgeStates
  <2>2. ElapsedAt(j, c.t) \in Nat
    BY <1>2 DEF ElapsedAt
  <2>3. e \in JudgeStates
    <3>1. e = [j EXCEPT !.acc = ElapsedAt(j, c.t), !.since = 0, !.paused = TRUE,
                        !.approval = c.t, !.released = TRUE, !.eligible = settled,
                        !.finished = @ \/ ~settled]
      BY DEF FreezeEligible
    <3>2. settled \in BOOLEAN /\ (j.finished \/ ~settled) \in BOOLEAN
      BY DEF JudgeStates
    <3> DEFINE sum == ElapsedAt(j, c.t)
               done == j.finished \/ ~settled
    <3>3. e = [j EXCEPT !.acc = sum, !.since = 0, !.paused = TRUE, !.approval = c.t,
                        !.released = TRUE, !.eligible = settled, !.finished = done]
      BY <3>1
    <3>4. sum \in Nat /\ done \in BOOLEAN
      BY <2>2, <3>2
    <3> HIDE DEF settled, e, sum, done
    <3>5. QED
      BY <1>2, <3>2, <3>3, <3>4, JudgeFreezes
  <2>4. Clock(e) \/ j.t < c.t \/ c.t < j.t
    <3> HIDE DEF e
    <3>1. QED
      BY <1>2, <2>1 DEF Clock, ElapsedAt
  <2>5. QED
    BY <2>1, <2>3, <2>4
<1>7. ordered /\ c.at = "H" => j.landedAtD
  OBVIOUS
<1> HIDE DEF d, stale, down, ordered, goes, landed, over
<1>8. CASE stale
  BY <1>1, <1>8 DEF d
<1>9. CASE ~ stale /\ c.phase = "FM1"
  BY <1>1, <1>3, <1>4, <1>7, <1>9 DEF d
<1>10. CASE ~ stale /\ c.phase = "FM2"
  BY <1>1, <1>2, <1>3, <1>6, <1>10 DEF d
<1>11. CASE ~ stale /\ c.phase # "FM1" /\ c.phase # "FM2"
  BY <1>1, <1>3, <1>5, <1>11 DEF d
<1>12. QED
  BY <1>8, <1>9, <1>10, <1>11

-----------------------------------------------------------------------------
(* The points of 2027. *)

\* A decision is added to the others.
LEMMA DecisionsGrow ==
    ASSUME NEW D \in Seq(Decisions), NEW d \in Decisions, NEW E, E = Append(D, d)
    PROVE  /\ E \in Seq(Decisions)
           /\ \A phase, at : Granted(D, phase, at) => Granted(E, phase, at)
           /\ d.outcome = "approved" => Granted(E, d.phase, d.at)
           /\ (\A i \in DOMAIN D : Timely(D[i])) /\ Timely(d) => \A i \in DOMAIN E : Timely(E[i])
<1>1. /\ E \in Seq(Decisions) /\ Len(D) \in Nat
      /\ DOMAIN D = 1 .. Len(D) /\ DOMAIN E = 1 .. Len(D) + 1
      /\ \A i \in 1 .. Len(D) : E[i] = D[i]
      /\ E[Len(D) + 1] = d
  OBVIOUS
<1>2. ASSUME NEW phase, NEW at, Granted(D, phase, at) PROVE Granted(E, phase, at)
  BY <1>1, <1>2 DEF Granted
<1>3. d.outcome = "approved" => Granted(E, d.phase, d.at)
  BY <1>1 DEF Granted
<1>4. ASSUME \A i \in DOMAIN D : Timely(D[i]), Timely(d), NEW i \in DOMAIN E PROVE Timely(E[i])
  <2>1. i \in 1 .. Len(D) \/ i = Len(D) + 1
    BY <1>1
  <2>2. QED
    BY <1>1, <1>4, <2>1
<1>5. QED
  BY <1>1, <1>2, <1>3, <1>4

LEMMA DeservedStays ==
    ASSUME NEW D, NEW E, \A phase, at : Granted(D, phase, at) => Granted(E, phase, at),
           NEW p, Deserved(p, D)
    PROVE  Deserved(p, E)
BY DEF Deserved

\* What is not an approval only takes points away; the bonus at the end needs a delivery.
LEMMA SmallScores ==
    ASSUME NEW p \in PointStates, NEW j \in JudgeStates, NEW f \in Legs
    PROVE  /\ ScoreTruth(p, j, f) \in PointStates
           /\ ScoreTruth(p, j, f).earned = p.earned
           /\ ScoreTruth(p, j, f).eligible = p.eligible
           /\ ScoreTruth(p, j, f).badRelease = p.badRelease
           /\ ScoreStatus(p, f) \in PointStates
           /\ ScoreStatus(p, f).earned = p.earned
           /\ ScoreStatus(p, f).eligible = p.eligible
           /\ ScoreStatus(p, f).badRelease = p.badRelease
<1>1. \A n \in Nat : /\ [p EXCEPT !.penalties = n] \in PointStates
                     /\ [p EXCEPT !.penalties = n].earned = p.earned
                     /\ [p EXCEPT !.penalties = n].eligible = p.eligible
                     /\ [p EXCEPT !.penalties = n].badRelease = p.badRelease
  BY DEF PointStates
<1>2. ScoreTruth(p, j, f) = p \/ \E n \in Nat : ScoreTruth(p, j, f) = [p EXCEPT !.penalties = n]
  <2>1. p.penalties \in Nat
    BY DEF PointStates
  <2>2. \A x, y \in {0, 1} : p.penalties + x + y \in Nat
    BY <2>1
  <2>3. (IF f.at \notin {"S", "D", "L", "H"} THEN 1 ELSE 0) \in {0, 1}
        /\ (IF f.mode = "failsafe" THEN 1 ELSE 0) \in {0, 1}
    OBVIOUS
  <2>4. QED
    BY <2>2, <2>3 DEF ScoreTruth
<1>3. ScoreStatus(p, f) = p \/ ScoreStatus(p, f) = [p EXCEPT !.auto = @ \ {p.phase}]
  BY DEF ScoreStatus
<1>4. /\ [p EXCEPT !.auto = @ \ {p.phase}] \in PointStates
      /\ [p EXCEPT !.auto = @ \ {p.phase}].earned = p.earned
      /\ [p EXCEPT !.auto = @ \ {p.phase}].eligible = p.eligible
      /\ [p EXCEPT !.auto = @ \ {p.phase}].badRelease = p.badRelease
  BY DEF PointStates
<1>5. QED
  BY <1>1, <1>2, <1>3, <1>4

LEMMA ReleaseScores ==
    ASSUME NEW p, NEW D, Deserved(p, D), NEW j \in JudgeStates
    PROVE  Deserved(ScoreRelease(p, j), D)
<1> DEFINE low == [p EXCEPT !.lowRelease = TRUE, !.earned = @ \ {"BP"}]
           bad == [p EXCEPT !.badRelease = TRUE, !.earned = @ \ {"CP"}]
<1>1. ScoreRelease(p, j) \in {p, low, bad}
  BY DEF ScoreRelease
<1>2. p \in PointStates
  BY DEF Deserved
<1>3. low \in PointStates /\ low.earned = p.earned \ {"BP"} /\ low.eligible = p.eligible
      /\ low.badRelease = p.badRelease
  BY <1>2 DEF PointStates
<1>4. bad \in PointStates /\ bad.earned = p.earned \ {"CP"} /\ bad.eligible = p.eligible
  BY <1>2 DEF PointStates
<1> HIDE DEF low, bad
<1>5. Deserved(low, D) /\ Deserved(bad, D)
  BY <1>3, <1>4 DEF Deserved
<1>6. QED
  BY <1>1, <1>5

LEMMA EndScores ==
    ASSUME NEW p, NEW D, Deserved(p, D)
    PROVE  Deserved(ScoreEnd(p), D)
<1> DEFINE fine == [p EXCEPT !.penalties = @ + 1]
           bonus == [p EXCEPT !.earned = @ \cup {"T"}]
<1>1. ScoreEnd(p) \in {p, fine} \/ (ScoreEnd(p) = bonus /\ "CP" \in p.earned)
  BY DEF ScoreEnd
<1>2. p \in PointStates
  BY DEF Deserved
<1>3. fine \in PointStates /\ fine.earned = p.earned /\ fine.eligible = p.eligible
      /\ fine.badRelease = p.badRelease
  <2>1. p.penalties \in Nat
    BY <1>2 DEF PointStates
  <2>2. p.penalties + 1 \in Nat
    BY <2>1
  <2>3. QED
    BY <1>2, <2>2 DEF PointStates
<1>4. bonus \in PointStates /\ bonus.earned = p.earned \cup {"T"} /\ bonus.eligible = p.eligible
      /\ bonus.badRelease = p.badRelease
  BY <1>2 DEF PointStates, PointNames
<1> HIDE DEF fine, bonus
<1>5. Deserved(fine, D)
  BY <1>3 DEF Deserved
<1>6. "CP" \in p.earned => Deserved(bonus, D)
  BY <1>4 DEF Deserved
<1>7. QED
  BY <1>1, <1>5, <1>6

\* An approval: what it gives is what it approves, after what it rests on.
LEMMA ApprovalScores ==
    ASSUME NEW p, NEW D, Deserved(p, D), NEW j \in JudgeStates, NEW c \in Sayings, Valid(c),
           c.phase = "FM1" /\ c.at = "H" => Granted(D, "FM1", "D"),
           Granted(D, c.phase, c.at)
    PROVE  Deserved(ScoreApproval(p, j, c), D)
<1>1. p \in PointStates /\ p.earned \subseteq PointNames
  BY DEF Deserved, PointStates
<1>2. CASE c.phase = "FM1"
  <2> DEFINE a == [p EXCEPT !.earned = (@ \ {"A", "A+"}) \cup {IF "FM1" \in p.auto THEN "A+" ELSE "A"}]
  <2>1. ScoreApproval(p, j, c) = IF c.at = "H" THEN a ELSE p
    BY <1>2 DEF ScoreApproval
  <2>2. /\ a \in PointStates /\ a.eligible = p.eligible /\ a.badRelease = p.badRelease
        /\ a.earned = (p.earned \ {"A", "A+"}) \cup {IF "FM1" \in p.auto THEN "A+" ELSE "A"}
    BY <1>1 DEF PointStates, PointNames
  <2> HIDE DEF a
  <2>3. c.at = "H" => Deserved(a, D)
    BY <1>2, <2>2 DEF Deserved
  <2>4. QED
    BY <2>1, <2>3
<1>3. CASE c.phase = "FM2"
  <2> DEFINE e == (p.earned \ {"BP", "BA"})
                    \cup (IF j.eligible /\ ~p.lowRelease THEN {"BP"} ELSE {})
                    \cup (IF j.eligible /\ "FM2" \in p.auto THEN {"BA"} ELSE {})
             a == [p EXCEPT !.eligible = j.eligible, !.active = j.acc, !.home = FALSE, !.earned = e]
  <2>1. ScoreApproval(p, j, c) = a
    BY <1>3 DEF ScoreApproval
  <2>2. e \subseteq PointNames /\ e \subseteq p.earned \cup {"BP", "BA"}
    BY <1>1 DEF PointNames
  <2>3. j.eligible \in BOOLEAN /\ j.acc \in Nat
    BY DEF JudgeStates
  <2> HIDE DEF e
  <2>4. a \in PointStates /\ a.earned = e /\ a.badRelease = p.badRelease
    BY <1>1, <2>2, <2>3 DEF PointStates
  <2>5. Granted(D, "FM2", "")
    BY <1>3 DEF Valid
  <2> HIDE DEF a
  <2>6. QED
    BY <2>1, <2>2, <2>4, <2>5 DEF Deserved
<1>4. CASE c.phase = "FM3"
  <2> DEFINE given == p.eligible /\ j.parcel = "L"
             e == (p.earned \ {"CP", "CA"})
                    \cup (IF given /\ ~p.badRelease THEN {"CP"} ELSE {})
                    \cup (IF given /\ "FM3" \in p.auto THEN {"CA"} ELSE {})
             sum == ElapsedAt(j, j.t)
             a == [p EXCEPT !.active = sum, !.home = TRUE, !.earned = e]
  <2>1. ScoreApproval(p, j, c) = a
    BY <1>4 DEF ScoreApproval
  <2>2. /\ e \subseteq PointNames
        /\ e \subseteq p.earned \cup (IF p.eligible THEN {"CP", "CA"} ELSE {})
        /\ "CP" \in e => ~ p.badRelease
    BY <1>1 DEF PointNames
  <2>3. sum \in Nat
    <3>1. j.acc \in Nat /\ j.t \in Nat /\ j.since \in Nat
      BY DEF JudgeStates
    <3>2. QED
      BY <3>1 DEF ElapsedAt
  <2> HIDE DEF e, sum
  <2>4. a \in PointStates /\ a.earned = e /\ a.badRelease = p.badRelease /\ a.eligible = p.eligible
    BY <1>1, <2>2, <2>3 DEF PointStates
  <2>5. Granted(D, "FM3", "")
    BY <1>4 DEF Valid
  <2> HIDE DEF a
  <2>6. QED
    BY <2>1, <2>2, <2>4, <2>5 DEF Deserved
<1>5. QED
  BY <1>2, <1>3, <1>4 DEF Sayings, Phases

-----------------------------------------------------------------------------
(* The steps of the 2027 scorekeeper. *)

LEMMA AnswerKeeps ==
    ASSUME decisions \in Seq(Decisions), \A i \in DOMAIN decisions : Timely(decisions[i]),
           NEW j \in JudgeStates, Clock(j), j.landedAtD => Granted(decisions, "FM1", "D"),
           NEW p, Deserved(p, decisions), NEW c \in Sayings, NEW d, Answer(j, p, c, d),
           (d = Decide(j, c) /\ c.t <= j.t) \/ d = <<"error", j>>
    PROVE  /\ judge' \in JudgeStates /\ judge'.t = j.t /\ Clock(judge')
           /\ decisions' \in Seq(Decisions) /\ \A i \in DOMAIN decisions' : Timely(decisions'[i])
           /\ judge'.landedAtD => Granted(decisions', "FM1", "D")
           /\ Deserved(points', decisions')
<1> DEFINE made == [phase |-> c.phase, at |-> c.at, t |-> c.t, outcome |-> d[1],
                    truthAt |-> j.t, statusAt |-> j.statusAt]
<1>1. /\ judge' = d[2] /\ decisions' = Append(decisions, made)
      /\ points' = IF d[1] = "approved" THEN ScoreApproval(p, d[2], c) ELSE p
  BY DEF Answer
<1>2. j.t \in Nat /\ j.statusAt \in Nat /\ c.t \in Nat /\ c.phase \in Phases /\ c.at \in STRING
  BY DEF JudgeStates, Sayings
<1>3. /\ d[1] \in {"approved", "rejected", "error"}
      /\ d[2] \in JudgeStates /\ d[2].t = j.t /\ Clock(d[2])
      /\ d[1] # "error" => j.t = c.t /\ j.statusAt <= c.t /\ Valid(c)
      /\ d[1] = "approved" /\ c.phase = "FM1" /\ c.at = "H" => j.landedAtD
      /\ d[2].landedAtD => j.landedAtD \/ (d[1] = "approved" /\ c.phase = "FM1" /\ c.at = "D")
  <2>1. CASE d = <<"error", j>>
    BY <2>1
  <2>2. CASE d = Decide(j, c) /\ c.t <= j.t
    BY <1>2, <2>2, DecideKeeps
  <2>3. QED
    BY <2>1, <2>2
<1>4. /\ made \in Decisions /\ made.outcome = d[1] /\ made.phase = c.phase /\ made.at = c.at
      /\ Timely(made)
  BY <1>2, <1>3 DEF Decisions, Timely
<1> HIDE DEF made
<1>5. /\ decisions' \in Seq(Decisions) /\ \A i \in DOMAIN decisions' : Timely(decisions'[i])
      /\ \A phase, at : Granted(decisions, phase, at) => Granted(decisions', phase, at)
      /\ d[1] = "approved" => Granted(decisions', c.phase, c.at)
  BY <1>1, <1>4, DecisionsGrow
<1>6. Deserved(p, decisions')
  BY <1>5, DeservedStays
<1>7. Deserved(points', decisions')
  <2>1. CASE d[1] = "approved"
    <3>1. Valid(c) /\ Granted(decisions', c.phase, c.at)
      BY <1>3, <1>5, <2>1
    <3>2. c.phase = "FM1" /\ c.at = "H" => Granted(decisions', "FM1", "D")
      BY <1>3, <1>5, <2>1
    <3>3. QED
      BY <1>1, <1>3, <1>6, <2>1, <3>1, <3>2, ApprovalScores
  <2>2. QED
    BY <1>1, <1>6, <2>1
<1>8. judge'.landedAtD => Granted(decisions', "FM1", "D")
  BY <1>1, <1>3, <1>5
<1>9. QED
  BY <1>1, <1>3, <1>5, <1>7, <1>8

\* The world, and the messages it sends.
LEMMA WorldKeeps ==
    ASSUME VfsInv, WorldEpoch
    PROVE  VfsInv'
<1>1. /\ vfsNow < LastEpoch /\ vfsNow' = vfsNow + 1
      /\ UNCHANGED <<course, got, joined, draining, asked, judge, points, decisions, vfsRun>>
  BY DEF WorldEpoch
<1>2. /\ course \in DOMAIN Courses /\ leg \in 1 .. Len(vfsLegs) /\ vfsNow \in 0 .. LastEpoch
      /\ joined \in 0 .. vfsNow /\ flown \in Seq(Legs) /\ Len(flown) = vfsNow - joined
      /\ said \in Seq(Sayings) /\ got \in [PhysicalTopics -> 0 .. vfsNow]
      /\ vfsLegs \in Seq(Legs) /\ vfsLegs' = vfsLegs /\ Len(vfsLegs) \in Nat
  BY <1>1, VfsAssumption DEF VfsInv, TopicsInv, vfsLegs
<1>3. vfsNow' \in 0 .. LastEpoch /\ joined' \in 0 .. vfsNow' /\ vfsNow' \in Nat \ {0}
  <2>1. LastEpoch \in Nat
    BY VfsAssumption
  <2>2. QED
    BY <1>1, <1>2, <2>1
<1>4. leg' \in 1 .. Len(vfsLegs) /\ said' \in Seq(Sayings)
  <2>1. CASE leg' = leg + 1 /\ leg < Len(vfsLegs)
             /\ said' = said \o [i \in DOMAIN vfsLegs[leg'].says |->
                                    [vfsLegs[leg'].says[i] EXCEPT !.t = vfsNow']]
    <3>1. leg' \in 1 .. Len(vfsLegs)
      BY <1>2, <2>1
    <3>2. PICK says \in Seq(Sayings) : says = vfsLegs[leg'].says
      <4>1. vfsLegs[leg'] \in Legs
        BY <1>2, <3>1
      <4>2. QED
        BY <4>1 DEF Legs
    <3> DEFINE new == [i \in DOMAIN says |-> [says[i] EXCEPT !.t = vfsNow']]
    <3>3. new \in Seq(Sayings)
      <4>1. DOMAIN says = 1 .. Len(says) /\ Len(says) \in Nat
        OBVIOUS
      <4>2. ASSUME NEW i \in DOMAIN says PROVE [says[i] EXCEPT !.t = vfsNow'] \in Sayings
        <5>1. says[i] \in Sayings
          OBVIOUS
        <5>2. QED
          BY <1>3, <5>1 DEF Sayings
      <4>3. QED
        BY <4>1, <4>2
    <3>4. said' = said \o new
      BY <2>1, <3>2
    <3> HIDE DEF new
    <3>5. QED
      BY <1>2, <3>1, <3>3, <3>4
  <2>2. CASE UNCHANGED <<leg, said>>
    BY <1>2, <2>2
  <2>3. QED
    BY <2>1, <2>2 DEF WorldEpoch
<1>5. flown' \in Seq(Legs) /\ Len(flown') = vfsNow' - joined'
  <2>1. flown' = Append(flown, vfsLegs[leg']) /\ vfsLegs[leg'] \in Legs
    BY <1>2, <1>4 DEF WorldEpoch
  <2>2. QED
    BY <1>1, <1>2, <2>1
<1>6. got' \in [PhysicalTopics -> 0 .. vfsNow']
  BY <1>1, <1>2
<1>7. skipped' \subseteq 1 .. LastEpoch
  <2>1. skipped' = skipped \/ skipped' = {vfsNow'}
    BY DEF WorldEpoch
  <2>2. vfsNow' \in 1 .. LastEpoch
    BY <1>3
  <2>3. QED
    BY <2>1, <2>2 DEF VfsInv, TopicsInv
<1>8. TopicsInv'
  BY <1>1, <1>2, <1>3, <1>4, <1>5, <1>6, <1>7 DEF VfsInv, TopicsInv
<1>9. QED
  BY <1>1, <1>8 DEF VfsInv, JudgeInv

LEMMA ReceiveKeeps ==
    ASSUME VfsInv, NEW topic \in PhysicalTopics, Receive(topic)
    PROVE  VfsInv'
<1> DEFINE due == {t \in got[topic] + 1 .. vfsNow :
                     topic = "status" => StatusDue(t) /\ t \notin skipped}
<1>1. /\ due # {} /\ draining' = TRUE
      /\ got' = [got EXCEPT ![topic] = CHOOSE t \in due : \A u \in due : t <= u]
      /\ UNCHANGED <<course, leg, vfsNow, flown, skipped, said, joined, asked, judge, points,
                     decisions, vfsRun>>
  BY DEF Receive
<1>2. got \in [PhysicalTopics -> 0 .. vfsNow] /\ vfsNow \in Nat
  BY VfsAssumption DEF VfsInv, TopicsInv
<1>3. due \in SUBSET Nat /\ due \subseteq 1 .. vfsNow
  BY <1>2
<1>4. FirstSuch(due) \in due
  BY <1>1, <1>3, FirstExists
<1>5. got' = [got EXCEPT ![topic] = FirstSuch(due)]
  BY <1>1 DEF FirstSuch
<1>6. got' \in [PhysicalTopics -> 0 .. vfsNow']
  <2>1. FirstSuch(due) \in 0 .. vfsNow
    <3>1. FirstSuch(due) \in due /\ due \subseteq 1 .. vfsNow
      BY <1>3, <1>4
    <3> HIDE DEF due
    <3> DEFINE first == FirstSuch(due)
    <3>2. first \in 1 .. vfsNow
      BY <3>1
    <3> HIDE DEF first
    <3>3. first \in 0 .. vfsNow
      BY <3>2, <1>2
    <3> QED
      BY <3>3 DEF first
  <2>2. QED
    BY <1>1, <1>2, <1>5, <2>1
<1>7. QED
  BY <1>1, <1>6 DEF VfsInv, TopicsInv, JudgeInv, vfsLegs

LEMMA HearKeeps ==
    ASSUME VfsInv, Hear
    PROVE  VfsInv'
<1> DEFINE s == Head(said)
<1>1. /\ said # <<>> /\ said' = Tail(said)
      /\ UNCHANGED <<course, leg, vfsNow, flown, skipped, got, joined, draining, vfsRun>>
  BY DEF Hear
<1>2. /\ said \in Seq(Sayings) /\ judge \in JudgeStates /\ judge.t = joined /\ Clock(judge)
      /\ decisions \in Seq(Decisions) /\ \A i \in DOMAIN decisions : Timely(decisions[i])
      /\ judge.landedAtD => Granted(decisions, "FM1", "D")
      /\ Deserved(points, decisions)
  BY DEF VfsInv, TopicsInv, JudgeInv
<1>3. s \in Sayings /\ said' \in Seq(Sayings)
  BY <1>1, <1>2
<1>4. TopicsInv' \/ asked' \notin Sayings \cup {NoCheck}
  BY <1>1, <1>3 DEF VfsInv, TopicsInv, vfsLegs
<1>5. asked \in Sayings \cup {NoCheck}
  BY DEF VfsInv, TopicsInv
<1> HIDE DEF s
<1>6. CASE /\ s.what = "started"
           /\ judge' = [judge EXCEPT
                !.phase = s.phase,
                !.airborne = IF s.phase = "FM2" THEN judge.t > 0 /\ ~judge.contact ELSE @]
           /\ points' = [points EXCEPT !.phase = s.phase]
           /\ UNCHANGED <<asked, decisions>>
  <2>1. s.phase \in Phases
    BY <1>3 DEF Sayings
  <2>2. judge.airborne \in BOOLEAN /\ judge.contact \in BOOLEAN
    BY <1>2 DEF JudgeStates
  <2>3. (IF s.phase = "FM2" THEN judge.t > 0 /\ ~judge.contact ELSE judge.airborne) \in BOOLEAN
    BY <2>2
  <2>4. judge' \in JudgeStates
    BY <1>2, <1>6, <2>1, <2>3, ZenonT(60) DEF JudgeStates
  <2>5. /\ judge'.t = judge.t /\ judge'.since = judge.since /\ judge'.acc = judge.acc
        /\ judge'.started = judge.started /\ judge'.landedAtD = judge.landedAtD
    BY <1>2, <1>6 DEF JudgeStates
  <2>6. JudgeInv'
    BY <1>1, <1>2, <1>6, <2>4, <2>5 DEF JudgeInv, Clock
  <2>7. /\ points' \in PointStates /\ points'.earned = points.earned
        /\ points'.eligible = points.eligible /\ points'.badRelease = points.badRelease
    BY <1>2, <1>6, <2>1 DEF Deserved, PointStates
  <2>8. Deserved(points', decisions')
    BY <1>2, <1>6, <2>7 DEF Deserved
  <2>9. QED
    BY <1>4, <1>5, <1>6, <2>6, <2>8 DEF VfsInv
<1>7. CASE /\ s.what = "release" /\ points' = ScoreRelease(points, judge)
           /\ UNCHANGED <<judge, asked, decisions>>
  <2>1. Deserved(points', decisions')
    BY <1>2, <1>7, ReleaseScores
  <2>2. QED
    BY <1>1, <1>2, <1>4, <1>5, <1>7, <2>1 DEF VfsInv, JudgeInv
<1>8. CASE /\ s.what = "check" /\ joined < s.t /\ asked = NoCheck /\ asked' = s
           /\ UNCHANGED <<judge, points, decisions>>
  BY <1>1, <1>2, <1>3, <1>4, <1>8 DEF VfsInv, JudgeInv
<1>9. CASE /\ s.what = "check" /\ joined >= s.t /\ Answer(judge, points, s, Decide(judge, s))
           /\ UNCHANGED asked
  <2>1. s.t <= judge.t
    BY <1>2, <1>3, <1>9 DEF Sayings, JudgeStates
  <2>2. /\ judge' \in JudgeStates /\ judge'.t = judge.t /\ Clock(judge')
        /\ decisions' \in Seq(Decisions) /\ \A i \in DOMAIN decisions' : Timely(decisions'[i])
        /\ judge'.landedAtD => Granted(decisions', "FM1", "D")
        /\ Deserved(points', decisions')
    BY <1>2, <1>3, <1>9, <2>1, AnswerKeeps
  <2>3. QED
    BY <1>1, <1>2, <1>4, <1>5, <1>9, <2>2 DEF VfsInv, JudgeInv
<1>10. QED
  BY <1>6, <1>7, <1>8, <1>9 DEF Hear, s

\* An epoch is judged: truth, payload and status of the same moment, then the check that
\* waits for it.
LEMMA JoinKeeps ==
    ASSUME VfsInv, JoinEpoch
    PROVE  VfsInv'
<1> DEFINE t == joined + 1
           f == Fact(t)
           j1 == JudgeParcel(JudgeTruth(judge, f, t), f, t)
           p1 == ScoreTruth(points, judge, f)
           j2 == IF StatusDue(t) THEN JudgeStatus(j1, f, t) ELSE j1
           p2 == IF StatusDue(t) THEN ScoreStatus(p1, f) ELSE p1
<1>1. /\ EpochComplete(t) /\ (asked = NoCheck \/ asked.t >= t)
      /\ joined' = t /\ flown' = Tail(flown)
      /\ IF asked # NoCheck /\ t >= asked.t
         THEN Answer(j2, p2, asked, Decide(j2, asked)) /\ asked' = NoCheck
         ELSE judge' = j2 /\ points' = p2 /\ UNCHANGED <<asked, decisions>>
      /\ UNCHANGED <<course, leg, vfsNow, skipped, got, said, draining, vfsRun>>
  BY DEF JoinEpoch
<1>2. /\ joined \in 0 .. vfsNow /\ vfsNow \in 0 .. LastEpoch /\ flown \in Seq(Legs)
      /\ Len(flown) = vfsNow - joined
      /\ got \in [PhysicalTopics -> 0 .. vfsNow] /\ asked \in Sayings \cup {NoCheck}
  BY DEF VfsInv, TopicsInv
<1>3. /\ judge \in JudgeStates /\ judge.t = joined /\ Clock(judge)
      /\ decisions \in Seq(Decisions) /\ \A i \in DOMAIN decisions : Timely(decisions[i])
      /\ judge.landedAtD => Granted(decisions, "FM1", "D")
      /\ Deserved(points, decisions)
  BY DEF VfsInv, JudgeInv
<1>4. t <= vfsNow /\ t \in Nat /\ joined \in Nat /\ vfsNow \in Nat
  <2>1. got["truth"] \in 0 .. vfsNow /\ got["truth"] >= t
    BY <1>1, <1>2 DEF EpochComplete, PhysicalTopics
  <2>2. joined \in Nat /\ vfsNow \in Nat
    BY <1>2, VfsAssumption
  <2>3. QED
    BY <2>1, <2>2
<1>5. f \in Legs /\ flown' \in Seq(Legs) /\ Len(flown') = vfsNow - t
  <2>1. Len(flown) >= 1 /\ t - joined = 1
    BY <1>2, <1>4
  <2>2. f = flown[1]
    BY <2>1 DEF Fact
  <2>3. flown[1] \in Legs /\ Tail(flown) \in Seq(Legs) /\ Len(Tail(flown)) = Len(flown) - 1
    BY <1>2, <2>1
  <2>4. QED
    BY <1>1, <1>2, <1>4, <2>2, <2>3
<1>6. j1 \in JudgeStates /\ Clock(j1) /\ j1.t = t /\ j1.landedAtD = judge.landedAtD
  <2> HIDE DEF f, t
  <2>1. t = judge.t + 1 /\ t \in Nat
    BY <1>3, <1>4 DEF t
  <2>2. /\ JudgeTruth(judge, f, t) \in JudgeStates /\ Clock(JudgeTruth(judge, f, t))
        /\ JudgeTruth(judge, f, t).t = t /\ JudgeTruth(judge, f, t).landedAtD = judge.landedAtD
    BY <1>3, <1>5, <2>1, TruthKeepsClock
  <2>3. QED
    BY <1>5, <2>1, <2>2, ParcelKeepsClock
<1>7. j2 \in JudgeStates /\ Clock(j2) /\ j2.t = t /\ j2.landedAtD = judge.landedAtD
  <2> HIDE DEF f, t, j1
  <2>1. QED
    BY <1>5, <1>6, StatusKeepsClock
<1>8. Deserved(p2, decisions)
  <2>1. points \in PointStates
    BY <1>3 DEF Deserved
  <2> HIDE DEF f, t
  <2>2. /\ p1 \in PointStates /\ p1.earned = points.earned
        /\ p1.eligible = points.eligible /\ p1.badRelease = points.badRelease
    BY <1>3, <1>5, <2>1, SmallScores
  <2> HIDE DEF p1
  <2>3. /\ p2 \in PointStates /\ p2.earned = points.earned
        /\ p2.eligible = points.eligible /\ p2.badRelease = points.badRelease
    BY <1>3, <1>5, <2>2, SmallScores
  <2>4. QED
    BY <1>3, <2>3 DEF Deserved
<1> HIDE DEF f, j1, j2, p1, p2
<1>9. /\ judge' \in JudgeStates /\ judge'.t = t /\ Clock(judge')
      /\ decisions' \in Seq(Decisions) /\ \A i \in DOMAIN decisions' : Timely(decisions'[i])
      /\ judge'.landedAtD => Granted(decisions', "FM1", "D")
      /\ Deserved(points', decisions') /\ asked' \in Sayings \cup {NoCheck}
  <2>1. CASE asked # NoCheck /\ t >= asked.t
    <3>1. asked \in Sayings /\ asked.t <= j2.t
      BY <1>2, <1>7, <2>1
    <3>2. Answer(j2, p2, asked, Decide(j2, asked)) /\ asked' = NoCheck
      BY <1>1, <2>1
    <3>3. j2.landedAtD => Granted(decisions, "FM1", "D")
      BY <1>3, <1>7
    <3> HIDE DEF t
    <3>4. QED
      BY <1>3, <1>7, <1>8, <3>1, <3>2, <3>3, AnswerKeeps
  <2>2. CASE ~ (asked # NoCheck /\ t >= asked.t)
    <3>1. judge' = j2 /\ points' = p2 /\ UNCHANGED <<asked, decisions>>
      BY <1>1, <2>2
    <3>2. QED
      BY <1>2, <1>3, <1>7, <1>8, <3>1
  <2>3. QED
    BY <2>1, <2>2
<1>10. TopicsInv'
  BY <1>1, <1>4, <1>5, <1>9 DEF VfsInv, TopicsInv, vfsLegs
<1>11. QED
  BY <1>1, <1>9, <1>10 DEF VfsInv, JudgeInv

LEMMA DrainEndKeeps ==
    ASSUME VfsInv, DrainEnds
    PROVE  VfsInv'
<1>1. /\ draining' = FALSE /\ vfsRun' \in {"raised", "running"}
      /\ UNCHANGED <<course, leg, vfsNow, flown, skipped, got, said, joined>>
  BY DEF DrainEnds
<1>2. /\ judge \in JudgeStates /\ judge.t = joined /\ Clock(judge)
      /\ decisions \in Seq(Decisions) /\ \A i \in DOMAIN decisions : Timely(decisions[i])
      /\ judge.landedAtD => Granted(decisions, "FM1", "D")
      /\ Deserved(points, decisions) /\ asked \in Sayings \cup {NoCheck}
  BY DEF VfsInv, JudgeInv, TopicsInv
<1>3. /\ judge' \in JudgeStates /\ judge'.t = joined /\ Clock(judge')
      /\ decisions' \in Seq(Decisions) /\ \A i \in DOMAIN decisions' : Timely(decisions'[i])
      /\ judge'.landedAtD => Granted(decisions', "FM1", "D")
      /\ Deserved(points', decisions') /\ asked' \in Sayings \cup {NoCheck}
  <2>1. CASE asked # NoCheck /\ Answer(judge, points, asked, <<"error", judge>>) /\ asked' = NoCheck
    <3>1. asked \in Sayings
      BY <1>2, <2>1
    <3>2. QED
      BY <1>2, <2>1, <3>1, AnswerKeeps
  <2>2. CASE UNCHANGED <<asked, judge, points, decisions>>
    BY <1>2, <2>2
  <2>3. QED
    BY <2>1, <2>2 DEF DrainEnds
<1>4. TopicsInv'
  BY <1>1, <1>3 DEF VfsInv, TopicsInv, vfsLegs
<1>5. QED
  BY <1>1, <1>3, <1>4 DEF VfsInv, JudgeInv

LEMMA VfsKeeps ==
    ASSUME VfsInv, VfsNext \/ UNCHANGED vfsVars
    PROVE  VfsInv'
<1>1. CASE ScoreVfs
  <2>1. /\ points' = ScoreEnd(points) /\ vfsRun' = "scored"
        /\ UNCHANGED <<course, leg, vfsNow, flown, skipped, got, said, joined, draining, asked,
                       judge, decisions>>
    BY <1>1 DEF ScoreVfs
  <2>2. Deserved(points', decisions')
    BY <2>1, EndScores DEF VfsInv
  <2>3. QED
    BY <2>1, <2>2 DEF VfsInv, TopicsInv, JudgeInv, vfsLegs
<1>2. CASE UNCHANGED vfsVars
  BY <1>2 DEF vfsVars, VfsInv, TopicsInv, JudgeInv, vfsLegs
<1>3. QED
  BY <1>1, <1>2, WorldKeeps, ReceiveKeeps, HearKeeps, JoinKeeps, DrainEndKeeps
  DEF VfsNext, VfsCallbacks

-----------------------------------------------------------------------------
(* The loops of the adapter's callbacks. *)

\* What holds at first and after every round holds at the end.
LEMMA Rounds ==
    ASSUME NEW n \in Nat, NEW S, 0 \in S, \A i \in 0 .. n - 1 : i \in S => i + 1 \in S
    PROVE  \A i \in 0 .. n : i \in S
<1> DEFINE T == {i \in 0 .. n : i \notin S}
<1> SUFFICES ASSUME T # {} PROVE FALSE
  OBVIOUS
<1>1. T \in SUBSET Nat
  OBVIOUS
<1>2. FirstSuch(T) \in T /\ \A j \in T : FirstSuch(T) <= j
  BY <1>1, FirstExists
<1> DEFINE m == FirstSuch(T)
<1>3. m \in 0 .. n /\ m \notin S /\ m # 0
  BY <1>2
<1>4. m - 1 \in 0 .. n - 1 /\ m - 1 \notin T
  <2>1. \A j \in T : m <= j
    BY <1>2
  <2> HIDE DEF m, T
  <2>2. QED
    BY <1>3, <2>1
<1>5. m - 1 \in S
  <2> HIDE DEF m
  <2>1. QED
    BY <1>3, <1>4
<1>6. m - 1 + 1 \in S /\ m - 1 + 1 = m
  <2> HIDE DEF m, T
  <2>1. QED
    BY <1>3, <1>4, <1>5
<1>7. QED
  BY <1>3, <1>6

\* The loop of _publish.
LEMMA PublishRounds ==
    ASSUME NEW p, NEW outs, Len(outs) \in Nat
    PROVE  \E f : /\ f = [i \in 0 .. Len(outs) |->
                            IF i = 0 THEN p ELSE PublishOne(f[i - 1], outs[i])]
                  /\ Publish(p, outs) = f[Len(outs)]
<1> DEFINE n == Len(outs)
           Is(f, m) == f = [i \in 0 .. m |-> IF i = 0 THEN p ELSE PublishOne(f[i - 1], outs[i])]
           S == {m \in 0 .. n : \E f : Is(f, m)}
<1>1. 0 \in S
  <2>1. Is([i \in 0 .. 0 |-> p], 0)
    OBVIOUS
  <2>2. 0 \in 0 .. n
    OBVIOUS
  <2> HIDE DEF Is, n
  <2>3. QED
    BY <2>1, <2>2
<1>2. ASSUME NEW m \in 0 .. n - 1, m \in S PROVE m + 1 \in S
  <2>1. PICK f : Is(f, m)
    BY <1>2
  <2> DEFINE g == [i \in 0 .. m + 1 |-> IF i <= m THEN f[i] ELSE PublishOne(f[m], outs[m + 1])]
  <2>2. ASSUME NEW i \in 0 .. m + 1
        PROVE  g[i] = IF i = 0 THEN p ELSE PublishOne(g[i - 1], outs[i])
    <3>1. CASE i <= m
      <4>1. f[i] = IF i = 0 THEN p ELSE PublishOne(f[i - 1], outs[i])
        BY <2>1, <3>1
      <4>2. i # 0 => g[i - 1] = f[i - 1]
        BY <3>1
      <4>3. QED
        BY <3>1, <4>1, <4>2
    <3>2. CASE i = m + 1
      <4>1. g[i - 1] = f[m] /\ i # 0
        BY <3>2
      <4>2. QED
        BY <3>2, <4>1
    <3>3. QED
      BY <3>1, <3>2
  <2>3. Is(g, m + 1)
    BY <2>2
  <2>4. m + 1 \in 0 .. n
    OBVIOUS
  <2> HIDE DEF Is, n, g
  <2>5. QED
    BY <2>3, <2>4
<1>3. \E f : Is(f, n)
  <2>1. n \in S
    <3>1. n \in Nat
      OBVIOUS
    <3> HIDE DEF S, n
    <3>2. \A i \in 0 .. n : i \in S
      BY <1>1, <1>2, <3>1, Rounds
    <3>3. QED
      BY <3>1, <3>2
  <2>2. QED
    BY <2>1
<1> DEFINE step == CHOOSE f : Is(f, n)
<1>4. Is(step, n)
  <2> HIDE DEF Is
  <2>1. QED
    BY <1>3
<1>5. Publish(p, outs) = step[n]
  BY DEF Publish
<1>6. QED
  <2> HIDE DEF step
  <2>1. QED
    BY <1>4, <1>5

\* Nothing published changes nothing; what is published last comes on top of the rest.
LEMMA PublishNothing == \A p : Publish(p, <<>>) = p
<1> TAKE p
<1>1. PICK f : /\ f = [i \in 0 .. Len(<<>>) |-> IF i = 0 THEN p ELSE PublishOne(f[i - 1], <<>>[i])]
               /\ Publish(p, <<>>) = f[Len(<<>>)]
  BY PublishRounds
<1>2. QED
  BY <1>1

LEMMA PublishLast ==
    ASSUME NEW p, NEW S, NEW outs \in Seq(S), NEW o \in S
    PROVE  Publish(p, Append(outs, o)) = PublishOne(Publish(p, outs), o)
<1> DEFINE n == Len(outs)
           more == Append(outs, o)
<1>1. n \in Nat /\ Len(more) = n + 1 /\ more[n + 1] = o /\ \A i \in 1 .. n : more[i] = outs[i]
  OBVIOUS
<1>2. PICK f : /\ f = [i \in 0 .. n |-> IF i = 0 THEN p ELSE PublishOne(f[i - 1], outs[i])]
               /\ Publish(p, outs) = f[n]
  BY <1>1, PublishRounds
<1>3. PICK g : /\ g = [i \in 0 .. n + 1 |-> IF i = 0 THEN p ELSE PublishOne(g[i - 1], more[i])]
               /\ Publish(p, more) = g[n + 1]
  <2>1. Len(more) = n + 1 /\ Len(more) \in Nat
    BY <1>1
  <2> HIDE DEF more
  <2>2. \E g : /\ g = [i \in 0 .. Len(more) |-> IF i = 0 THEN p ELSE PublishOne(g[i - 1], more[i])]
               /\ Publish(p, more) = g[Len(more)]
    BY <2>1, PublishRounds
  <2>3. QED
    BY <2>1, <2>2
<1> DEFINE T == {i \in 0 .. n : g[i] = f[i]}
<1>4. 0 \in T
  BY <1>1, <1>2, <1>3
<1>5. ASSUME NEW i \in 0 .. n - 1, i \in T PROVE i + 1 \in T
  <2>1. g[i + 1] = PublishOne(g[i], more[i + 1]) /\ f[i + 1] = PublishOne(f[i], outs[i + 1])
    <3> HIDE DEF more
    <3>1. i + 1 \in 0 .. n /\ i + 1 # 0 /\ (i + 1) - 1 = i
      BY <1>1
    <3>2. QED
      BY <1>1, <1>2, <1>3, <3>1
  <2>2. more[i + 1] = outs[i + 1] /\ g[i] = f[i] /\ i + 1 \in 0 .. n
    BY <1>1, <1>5
  <2>3. QED
    BY <2>1, <2>2
<1>6. n \in T
  <2> HIDE DEF T
  <2>1. QED
    BY <1>1, <1>4, <1>5, Rounds
<1>7. g[n + 1] = PublishOne(g[n], more[n + 1])
  <2> HIDE DEF more, T
  <2>1. n + 1 \in 0 .. n + 1 /\ n + 1 # 0 /\ (n + 1) - 1 = n
    BY <1>1
  <2>2. QED
    BY <1>3, <2>1
<1>8. QED
  BY <1>1, <1>2, <1>3, <1>6, <1>7

-----------------------------------------------------------------------------
(* What a callback of the adapter works on. *)

Kinds == Cameras \cup {"range", "parcel"}
Entries == [t : Nat, on : BOOLEAN, overtaken : BOOLEAN]
Outs == [kind : Kinds, t : Nat] \cup [kind : {"truth"}, t : Nat, of : Entries]
PublicStates ==
    [clock : Nat, count : [Kinds -> Nat],
     truths : Seq([t : Nat, on : BOOLEAN, clock : Nat, overtaken : BOOLEAN])]
Aggregators ==
    [odometry : Nat, contacts : SUBSET [t : Nat, on : BOOLEAN], lastContact : Nat,
     completed : Seq(Entries)]
ParcelStates == [t : Nat, on : BOOLEAN]
SupportStates ==
    [legs : SUBSET Nat, lastLeg : Nat, lastOdometry : Nat, odometry : SUBSET Nat,
     parcel : Seq(ParcelStates)]
ParcelTrackers == [pose : SUBSET Nat, floor : SUBSET Nat, joint : SUBSET Nat, accepted : Nat]
Callbacks == [a : Aggregators \cup {Broken}, s : SupportStates, n : Nat, outs : Seq(Outs)]

\* What TruthIsKept says of one truth.
Honest(e) ==
    /\ e.on => Touching(e.t) \/ <<"floor", e.t>> \in missed
    /\ ~e.on /\ flight.support /\ e.t \in flight.hook \cap flight.floor => <<"floor", e.t>> \in missed
    /\ ~e.on /\ e.t \in flight.legs => <<"contact", e.t>> \in missed \/ e.overtaken

\* P, with what still waits for public zero, is the record of what was taken: each camera and
\* the states of the payload one by one, n truths, each after the frames of its epoch.
Recorded(P, tk, n, acc) ==
    /\ P \in PublicStates /\ P.clock <= native
    /\ \A c \in Cameras : P.count[c] = tk[c] /\ P.count[c] <= P.clock
    /\ P.count["parcel"] = acc
    /\ (\A m \in missed : m[1] # "range") => P.count["range"] = tk["range"]
    /\ Len(P.truths) = n
    /\ \A i \in DOMAIN P.truths :
         P.truths[i].t = i /\ P.truths[i].clock >= i /\ Honest(P.truths[i])
    /\ IsExtension(public.truths, P.truths)

\* A longer sequence extends what the shorter one extends.
LEMMA ExtensionGrows ==
    ASSUME NEW S, NEW r \in Seq(S), NEW s \in Seq(S), NEW x \in S
    PROVE  /\ IsExtension(s, s)
           /\ IsExtension(r, s) => IsExtension(r, Append(s, x))
<1>1. IsExtension(s, s)
  BY SubSeqFull DEF IsExtension
<1>2. ASSUME IsExtension(r, s) PROVE IsExtension(r, Append(s, x))
  <2> DEFINE n == Len(r)
             t == Append(s, x)
  <2>1. n \in Nat /\ Len(s) \in Nat /\ n <= Len(s) /\ SubSeq(s, 1, n) = r
    BY <1>2 DEF IsExtension
  <2>2. t \in Seq(S) /\ Len(t) = Len(s) + 1 /\ \A i \in 1 .. Len(s) : t[i] = s[i]
    OBVIOUS
  <2>3. \A i \in 1 .. n : s[i] \in S /\ t[i] = s[i]
    BY <2>1, <2>2
  <2>4. /\ SubSeq(s, 1, n) \in Seq(S) /\ Len(SubSeq(s, 1, n)) = n
        /\ \A i \in 1 .. n : SubSeq(s, 1, n)[i] = s[i]
    BY <2>1, <2>3
  <2>5. /\ SubSeq(t, 1, n) \in Seq(S) /\ Len(SubSeq(t, 1, n)) = n
        /\ \A i \in 1 .. n : SubSeq(t, 1, n)[i] = t[i]
    BY <2>1, <2>2, <2>3
  <2>6. SubSeq(t, 1, n) = SubSeq(s, 1, n)
    <3> DEFINE u == SubSeq(s, 1, n)  v == SubSeq(t, 1, n)
    <3>1. u \in Seq(S) /\ v \in Seq(S) /\ Len(u) = n /\ Len(v) = n /\ \A i \in 1 .. n : u[i] = v[i]
      BY <2>3, <2>4, <2>5
    <3> HIDE DEF u, v, n
    <3>2. u = v
      BY <3>1, SeqEqual
    <3>3. QED
      BY <3>2 DEF u, v
  <2>7. QED
    BY <2>1, <2>2, <2>6 DEF IsExtension
<1>3. QED
  BY <1>1, <1>2

\* A truth is recorded on top.
LEMMA TruthRecorded ==
    ASSUME NEW P, NEW tk \in [Streams -> Nat], NEW n \in Nat, NEW acc, native \in Nat,
           Recorded(P, tk, n, acc), public \in PublicStates,
           NEW e \in Entries, e.t = n + 1, Honest(e), \A c \in Cameras : n + 1 <= tk[c]
    PROVE  Recorded(PublishOne(P, [kind |-> "truth", t |-> n + 1, of |-> e]), tk, n + 1, acc)
<1> DEFINE x == [t |-> n + 1, on |-> e.on, clock |-> P.clock, overtaken |-> e.overtaken]
           Q == [P EXCEPT !.truths = Append(@, x)]
           T == [t : Nat, on : BOOLEAN, clock : Nat, overtaken : BOOLEAN]
<1>1. PublishOne(P, [kind |-> "truth", t |-> n + 1, of |-> e]) = Q
  BY DEF PublishOne
<1>2. P \in PublicStates /\ P.truths \in Seq(T) /\ Len(P.truths) = n /\ P.clock \in Nat
  BY DEF Recorded, PublicStates
<1>3. x \in T /\ Honest(x) /\ x.t = n + 1
  BY <1>2 DEF Entries, Honest
<1>4. x.clock >= n + 1
  <2>1. "onboard" \in Cameras /\ tk["onboard"] \in Nat /\ P.count["onboard"] = tk["onboard"]
        /\ P.count["onboard"] <= P.clock
    BY DEF Recorded, Cameras, Streams
  <2>2. QED
    BY <1>2, <2>1
<1>5. /\ Q.truths = Append(P.truths, x) /\ Q.clock = P.clock /\ Q.count = P.count
      /\ Q \in PublicStates
  <2>1. Append(P.truths, x) \in Seq(T)
    BY <1>2, <1>3
  <2> HIDE DEF x
  <2>2. QED
    BY <1>2, <2>1 DEF PublicStates
<1>6. Append(P.truths, x) \in Seq(T) /\ Len(Append(P.truths, x)) = n + 1
      /\ \A i \in 1 .. n : Append(P.truths, x)[i] = P.truths[i]
      /\ Append(P.truths, x)[n + 1] = x
  <2> HIDE DEF x, T
  <2>1. QED
    BY <1>2, <1>3
<1>7. \A i \in DOMAIN Q.truths :
        Q.truths[i].t = i /\ Q.truths[i].clock >= i /\ Honest(Q.truths[i])
  <2>1. DOMAIN Q.truths = 1 .. n + 1 /\ DOMAIN P.truths = 1 .. n
    BY <1>2, <1>5, <1>6
  <2> TAKE i \in DOMAIN Q.truths
  <2>2. CASE i \in 1 .. n
    BY <1>5, <1>6, <2>1, <2>2 DEF Recorded
  <2>3. CASE i = n + 1
    BY <1>3, <1>4, <1>5, <1>6, <2>3
  <2>4. QED
    BY <2>1, <2>2, <2>3
<1>8. IsExtension(public.truths, Q.truths)
  <2>1. public.truths \in Seq(T) /\ IsExtension(public.truths, P.truths)
    BY DEF Recorded, PublicStates
  <2> HIDE DEF x, T, Q
  <2>2. QED
    BY <1>2, <1>3, <1>5, <2>1, ExtensionGrows
<1> HIDE DEF x, Q, T
<1>9. QED
  BY <1>1, <1>5, <1>6, <1>7, <1>8 DEF Recorded

\* A frame, a range or the state of a payload is recorded.
LEMMA SampleRecorded ==
    ASSUME NEW P, NEW tk \in [Streams -> Nat], NEW n \in Nat, NEW acc \in Nat, native \in Nat,
           Recorded(P, tk, n, acc), NEW k \in Kinds, NEW t \in Nat, t <= native,
           NEW tk2 \in [Streams -> Nat], NEW acc2 \in Nat,
           \A c \in Cameras : tk2[c] = IF k = c THEN tk[c] + 1 ELSE tk[c],
           k \in Cameras => t = tk2[k],
           tk2["range"] = IF k = "range" THEN tk["range"] + 1 ELSE tk["range"],
           acc2 = IF k = "parcel" THEN acc + 1 ELSE acc
    PROVE  Recorded(PublishOne(P, [kind |-> k, t |-> t]), tk2, n, acc2)
<1> DEFINE Q == [P EXCEPT !.clock = MaxOf(@, t), !.count[k] = @ + 1]
<1>1. PublishOne(P, [kind |-> k, t |-> t]) = Q
  BY DEF PublishOne, Kinds, Cameras
<1>2. P \in PublicStates /\ P.clock \in Nat /\ P.count \in [Kinds -> Nat]
  BY DEF Recorded, PublicStates
<1>3. /\ Q.truths = P.truths /\ Q.clock = MaxOf(P.clock, t)
      /\ Q.count = [P.count EXCEPT ![k] = @ + 1] /\ Q \in PublicStates
  <2>1. MaxOf(P.clock, t) \in Nat /\ [P.count EXCEPT ![k] = @ + 1] \in [Kinds -> Nat]
    BY <1>2 DEF MaxOf
  <2>2. QED
    BY <1>2, <2>1 DEF PublicStates
<1>4. Q.clock <= native /\ Q.clock >= P.clock /\ Q.clock >= t /\ Q.clock \in Nat
  BY <1>2, <1>3 DEF MaxOf, Recorded
<1>5. \A c \in Kinds : Q.count[c] = IF k = c THEN P.count[c] + 1 ELSE P.count[c]
  BY <1>2, <1>3
<1>6. \A c \in Cameras : Q.count[c] = tk2[c] /\ Q.count[c] <= Q.clock
  <2> TAKE c \in Cameras
  <2>1. c \in Kinds /\ c \in Streams /\ P.count[c] = tk[c] /\ P.count[c] <= P.clock
    BY DEF Recorded, Kinds, Streams
  <2>2. Q.count[c] = tk2[c] /\ tk[c] \in Nat
    BY <1>5, <2>1
  <2>3. CASE k = c
    BY <1>4, <2>2, <2>3
  <2>4. CASE k # c
    BY <1>2, <1>4, <2>1, <2>2, <2>4
  <2>5. QED
    BY <2>2, <2>3, <2>4
<1>7. Q.count["parcel"] = acc2 /\ ((\A m \in missed : m[1] # "range") => Q.count["range"] = tk2["range"])
  BY <1>5 DEF Recorded, Kinds
<1> HIDE DEF Q
<1>8. QED
  BY <1>1, <1>3, <1>4, <1>6, <1>7 DEF Recorded

\* The numbers a callback works with.
Context(tk) ==
    /\ flight \in Flights /\ native \in Nat /\ tk \in [Streams -> Nat]
    /\ \A s \in Streams : tk[s] <= native
    /\ public \in PublicStates /\ early \in Seq(Outs)

\* What the aggregator has completed is true.
Checked(a) ==
    /\ a \in Aggregators /\ Len(a.completed) <= AdapterCapacity
    /\ \A i \in DOMAIN a.completed : Honest(a.completed[i])

\* What callback k releases is on record.
Logged(k, tk, acc) ==
    /\ \A c \in Cameras : k.n <= tk[c]
    /\ Recorded(Publish(public, early \o k.outs), tk, k.n, acc)

LEMMA NotBroken == \A a \in Aggregators : a # Broken
<1> SUFFICES ASSUME NEW a \in Aggregators PROVE a # Broken
  OBVIOUS
<1>1. "odometry" \in DOMAIN a
  BY DEF Aggregators
<1>2. "odometry" \notin DOMAIN Broken
  BY DEF Broken
<1>3. QED
  BY <1>1, <1>2

\* A callback adds to its outputs.
LEMMA OneMore ==
    ASSUME NEW tk, Context(tk), NEW k \in Callbacks, NEW o \in Outs
    PROVE  /\ early \o Append(k.outs, o) = Append(early \o k.outs, o)
           /\ early \o k.outs \in Seq(Outs) /\ Append(k.outs, o) \in Seq(Outs)
           /\ Publish(public, early \o Append(k.outs, o))
                = PublishOne(Publish(public, early \o k.outs), o)
<1>1. early \in Seq(Outs) /\ k.outs \in Seq(Outs)
  BY DEF Context, Callbacks
<1>2. early \o k.outs \in Seq(Outs) /\ Append(k.outs, o) \in Seq(Outs)
  BY <1>1
<1>3. early \o Append(k.outs, o) = Append(early \o k.outs, o)
  BY <1>1
<1>4. Publish(public, Append(early \o k.outs, o)) = PublishOne(Publish(public, early \o k.outs), o)
  <2> DEFINE s == early \o k.outs
  <2>1. s \in Seq(Outs)
    BY <1>2
  <2> HIDE DEF s
  <2>2. Publish(public, Append(s, o)) = PublishOne(Publish(public, s), o)
    BY <2>1, PublishLast
  <2>3. QED
    BY <2>2 DEF s
<1>5. QED
  BY <1>2, <1>3, <1>4

LEMMA ReleaseKeeps ==
    ASSUME NEW tk, Context(tk), NEW acc, NEW k \in Callbacks, Checked(k.a), Logged(k, tk, acc)
    PROVE  LET r == ReleaseTruth(k, CameraPairs(tk)) IN
           /\ r \in Callbacks /\ r.s = k.s
           /\ r.a # Broken => /\ Checked(r.a) /\ Logged(r, tk, acc)
                              /\ r.a.odometry = k.a.odometry /\ r.a.contacts = k.a.contacts
                              /\ r.a.lastContact = k.a.lastContact
<1> DEFINE r == ReleaseTruth(k, CameraPairs(tk))
           e == Head(k.a.completed)
           b == [k.a EXCEPT !.completed = Tail(@)]
           o == [kind |-> "truth", t |-> k.n + 1, of |-> e]
<1>1. k.a # Broken /\ k.a \in Aggregators
  BY NotBroken DEF Checked
<1>2. /\ k.n \in Nat /\ k.outs \in Seq(Outs) /\ k.s \in SupportStates
      /\ k.a.completed \in Seq(Entries)
  BY <1>1 DEF Callbacks, Aggregators
<1>3. CASE r = k
  BY <1>1, <1>3
<1>4. CASE r = [k EXCEPT !.a = Broken]
  <2>1. r \in Callbacks /\ r.s = k.s /\ r.a = Broken
    BY <1>4 DEF Callbacks
  <2>2. QED
    BY <2>1
<1>5. CASE /\ CameraPairs(tk) # k.n /\ k.a.completed # <<>> /\ e.t = k.n + 1
           /\ r = [k EXCEPT !.a.completed = Tail(@), !.n = @ + 1, !.outs = Append(@, o)]
  <2>1. e \in Entries /\ Tail(k.a.completed) \in Seq(Entries)
        /\ Len(Tail(k.a.completed)) = Len(k.a.completed) - 1
        /\ \A i \in DOMAIN Tail(k.a.completed) :
             i + 1 \in DOMAIN k.a.completed /\ Tail(k.a.completed)[i] = k.a.completed[i + 1]
        /\ 1 \in DOMAIN k.a.completed /\ e = k.a.completed[1]
    BY <1>2, <1>5
  <2>2. Honest(e)
    BY <2>1 DEF Checked
  <2>3. b \in Aggregators /\ b.completed = Tail(k.a.completed) /\ b.odometry = k.a.odometry
        /\ b.contacts = k.a.contacts /\ b.lastContact = k.a.lastContact
    BY <1>1, <2>1 DEF Aggregators
  <2>4. Checked(b)
    <3>1. Len(b.completed) <= AdapterCapacity
      BY <1>2, <2>1, <2>3, AdapterAssumption DEF Checked
    <3>2. \A i \in DOMAIN b.completed : Honest(b.completed[i])
      BY <2>1, <2>3 DEF Checked
    <3> HIDE DEF b
    <3>3. QED
      BY <2>3, <3>1, <3>2 DEF Checked
  <2>5. o \in Outs
    BY <1>2, <2>1 DEF Outs
  <2>6. r.a = b /\ r.n = k.n + 1 /\ r.outs = Append(k.outs, o) /\ r.s = k.s
    BY <1>5 DEF Callbacks
  <2>7. r \in Callbacks
    <3>1. r = [a |-> b, s |-> k.s, n |-> k.n + 1, outs |-> Append(k.outs, o)]
      BY <1>5 DEF Callbacks
    <3>2. Append(k.outs, o) \in Seq(Outs)
      BY <1>2, <2>5
    <3> HIDE DEF r, b, o
    <3>3. QED
      BY <1>2, <2>3, <3>1, <3>2 DEF Callbacks
  <2>8. \A c \in Cameras : k.n + 1 <= tk[c]
    <3>1. tk["onboard"] \in Nat /\ tk["observer"] \in Nat /\ k.n <= tk["onboard"] /\ k.n <= tk["observer"]
      BY DEF Context, Streams, Cameras, Logged
    <3>2. k.n < CameraPairs(tk) /\ CameraPairs(tk) <= tk["onboard"] /\ CameraPairs(tk) <= tk["observer"]
      BY <1>2, <1>5, <3>1 DEF CameraPairs, MinOf
    <3>3. QED
      BY <1>2, <3>1, <3>2 DEF Cameras, CameraPairs, MinOf
  <2>9. Recorded(PublishOne(Publish(public, early \o k.outs), o), tk, k.n + 1, acc)
    <3>1. Recorded(Publish(public, early \o k.outs), tk, k.n, acc)
      BY DEF Logged
    <3>2. tk \in [Streams -> Nat] /\ native \in Nat /\ public \in PublicStates /\ e.t = k.n + 1
      BY <1>5 DEF Context
    <3> HIDE DEF e
    <3>3. QED
      BY <1>2, <2>1, <2>2, <2>8, <3>1, <3>2, TruthRecorded
  <2>10. Publish(public, early \o r.outs) = PublishOne(Publish(public, early \o k.outs), o)
    <3> HIDE DEF r, b, o
    <3>1. QED
      BY <2>5, <2>6, OneMore
  <2>11. Logged(r, tk, acc)
    <3> HIDE DEF r, b, o
    <3>1. QED
      BY <2>6, <2>8, <2>9, <2>10 DEF Logged
  <2>12. /\ r.a.odometry = k.a.odometry /\ r.a.contacts = k.a.contacts
         /\ r.a.lastContact = k.a.lastContact /\ Checked(r.a)
    BY <2>3, <2>4, <2>6
  <2>13. QED
    BY <2>6, <2>7, <2>11, <2>12
<1>6. QED
  BY <1>3, <1>4, <1>5 DEF ReleaseTruth

-----------------------------------------------------------------------------
(* PrivateTruthAggregator, which joins odometry and leg contact by itself. *)

\* Every contact that arrived is known or belongs to an epoch that is completed.
Joining(a, tk) ==
    /\ a.odometry <= tk["odometry"] /\ a.lastContact <= tk["contact"]
    /\ \A c \in a.contacts : c.on /\ c.t \in flight.legs /\ c.t <= a.lastContact
    /\ \A l \in flight.legs : l <= tk["contact"] /\ <<"contact", l>> \notin missed =>
         \/ \E c \in a.contacts : c.t = l
         \/ l <= tk["odometry"] /\ (a.odometry # 0 => l < a.odometry)

\* And an odometry waits only for a contact that may yet come.
Plain(a, tk) ==
    /\ Joining(a, tk)
    /\ a.odometry # 0 => a.lastContact <= a.odometry /\ \A c \in a.contacts : c.t # a.odometry

LEMMA FlightTypes ==
    ASSUME NEW f \in Flights
    PROVE  /\ f.legs \in SUBSET Nat /\ f.hook \in SUBSET Nat /\ f.floor \in SUBSET Nat
           /\ f.support \in BOOLEAN /\ f.competition \in BOOLEAN /\ f.frames \in Nat \ {0}
           /\ f.support => f.competition
           /\ AdapterCapacity \in Nat \ {0}
<1>1. f \in [support : BOOLEAN, competition : BOOLEAN, frames : Nat \ {0},
             legs : SUBSET Nat, hook : SUBSET Nat, floor : SUBSET Nat]
  BY AdapterAssumption
<1>2. QED
  BY <1>1, AdapterAssumption

LEMMA CompleteKeeps ==
    ASSUME NEW tk, Context(tk), NEW a, Checked(a), NEW t \in Nat, NEW on \in BOOLEAN,
           Honest([t |-> t, on |-> on, overtaken |-> Overtaken(t)]),
           CompleteTruth(a, t, on) # Broken
    PROVE  LET b == CompleteTruth(a, t, on) IN
           /\ Checked(b) /\ b.odometry = a.odometry /\ b.lastContact = a.lastContact
           /\ b.contacts = {c \in a.contacts : c.t > t}
<1> DEFINE x == [t |-> t, on |-> on, overtaken |-> Overtaken(t)]
           b == [a EXCEPT !.completed = Append(@, x), !.contacts = {c \in @ : c.t > t}]
<1>1. a \in Aggregators /\ Len(a.completed) # AdapterCapacity /\ CompleteTruth(a, t, on) = b
  BY DEF CompleteTruth, Checked
<1>2. x \in Entries
  BY DEF Overtaken, Entries
<1>3. a.completed \in Seq(Entries) /\ a.contacts \subseteq [t : Nat, on : BOOLEAN]
  BY <1>1 DEF Aggregators
<1>4. /\ Append(a.completed, x) \in Seq(Entries)
      /\ Len(Append(a.completed, x)) = Len(a.completed) + 1
      /\ \A i \in 1 .. Len(a.completed) : Append(a.completed, x)[i] = a.completed[i]
      /\ Append(a.completed, x)[Len(a.completed) + 1] = x
  <2> HIDE DEF x
  <2>1. QED
    BY <1>2, <1>3
<1>5. /\ b \in Aggregators /\ b.completed = Append(a.completed, x) /\ b.odometry = a.odometry
      /\ b.lastContact = a.lastContact /\ b.contacts = {c \in a.contacts : c.t > t}
  <2> HIDE DEF x
  <2>1. {c \in a.contacts : c.t > t} \subseteq [t : Nat, on : BOOLEAN]
    BY <1>3
  <2>2. QED
    BY <1>1, <1>4, <2>1 DEF Aggregators
<1>6. Len(b.completed) <= AdapterCapacity
  BY <1>1, <1>3, <1>4, <1>5, AdapterAssumption DEF Checked
<1>7. \A i \in DOMAIN b.completed : Honest(b.completed[i])
  <2>1. DOMAIN b.completed = 1 .. Len(a.completed) + 1 /\ DOMAIN a.completed = 1 .. Len(a.completed)
    BY <1>3, <1>4, <1>5
  <2> TAKE i \in DOMAIN b.completed
  <2>2. CASE i \in 1 .. Len(a.completed)
    BY <1>4, <1>5, <2>1, <2>2 DEF Checked
  <2>3. CASE i = Len(a.completed) + 1
    BY <1>4, <1>5, <2>3
  <2>4. QED
    BY <1>3, <2>1, <2>2, <2>3
<1> HIDE DEF b, x
<1>8. Checked(b)
  BY <1>5, <1>6, <1>7 DEF Checked
<1>9. QED
  BY <1>1, <1>5, <1>8

\* Odometry and contact of an epoch meet.
LEMMA CombineKeeps ==
    ASSUME NEW tk, Context(tk), ~flight.support, NEW a, Checked(a), Joining(a, tk),
           Combine(a) # Broken
    PROVE  Checked(Combine(a)) /\ Plain(Combine(a), tk)
<1> DEFINE t == a.odometry
           known == {c \in a.contacts : c.t = t}
           on == \E c \in known : c.on
           a0 == [a EXCEPT !.odometry = 0]
           b == CompleteTruth(a0, t, on)
<1>1. /\ a \in Aggregators /\ t \in Nat /\ a.lastContact \in Nat
      /\ a.contacts \subseteq [t : Nat, on : BOOLEAN]
  BY DEF Checked, Aggregators
<1>2. /\ tk["contact"] \in Nat /\ tk["odometry"] \in Nat /\ flight.legs \subseteq Nat
  BY FlightTypes DEF Context, Streams
<1>3. CASE Combine(a) = a /\ ~(t # 0 /\ (known # {} \/ a.lastContact > t))
  <2>1. t # 0 => a.lastContact <= t /\ \A c \in a.contacts : c.t # t
    BY <1>1, <1>3
  <2>2. QED
    BY <1>3, <2>1 DEF Plain
<1>4. CASE Combine(a) = b /\ t # 0 /\ (known # {} \/ a.lastContact > t)
  <2>1. Checked(a0) /\ a0.odometry = 0 /\ a0.contacts = a.contacts /\ a0.lastContact = a.lastContact
    <3>1. a0 \in Aggregators /\ a0.completed = a.completed /\ a0.odometry = 0
          /\ a0.contacts = a.contacts /\ a0.lastContact = a.lastContact
      BY <1>1 DEF Aggregators
    <3> HIDE DEF a0
    <3>2. QED
      BY <3>1 DEF Checked
  <2>2. Honest([t |-> t, on |-> on, overtaken |-> Overtaken(t)])
    <3>1. on => t \in flight.legs
      BY DEF Joining
    <3>2. t \in flight.legs /\ ~on => <<"contact", t>> \in missed
      <4> SUFFICES ASSUME t \in flight.legs, ~on, <<"contact", t>> \notin missed PROVE FALSE
        OBVIOUS
      <4>1. known = {}
        BY DEF Joining
      <4>2. t <= tk["contact"]
        BY <1>1, <1>2, <1>4, <4>1 DEF Joining
      <4>3. \/ \E c \in a.contacts : c.t = t
            \/ t < t
        BY <1>4, <4>2 DEF Joining
      <4>4. QED
        BY <1>1, <4>1, <4>3
    <3> HIDE DEF t, on
    <3>3. QED
      BY <3>1, <3>2 DEF Honest, Touching
  <2>3. /\ Checked(b) /\ b.odometry = 0 /\ b.lastContact = a.lastContact
        /\ b.contacts = {c \in a.contacts : c.t > t}
    <3>1. on \in BOOLEAN /\ b # Broken
      BY <1>4
    <3> HIDE DEF t, on, a0
    <3>2. QED
      BY <1>1, <2>1, <2>2, <3>1, CompleteKeeps
  <2> HIDE DEF b
  <2>4. ASSUME NEW l \in flight.legs, l <= tk["contact"], <<"contact", l>> \notin missed
        PROVE  (\E c \in b.contacts : c.t = l) \/ l <= tk["odometry"]
    <3>1. (\E c \in a.contacts : c.t = l) \/ l <= tk["odometry"]
      BY <2>4 DEF Joining
    <3>2. t <= tk["odometry"]
      BY DEF Joining
    <3>3. QED
      BY <1>1, <1>2, <2>3, <3>1, <3>2
  <2>5. QED
    BY <1>2, <1>4, <2>3, <2>4 DEF Plain, Joining
<1>5. QED
  BY <1>3, <1>4 DEF Combine

LEMMA OdometryKeeps ==
    ASSUME NEW tk, Context(tk), tk = taken', ~flight.support, NEW a, Checked(a),
           NEW tk0 \in [Streams -> Nat], Plain(a, tk0), NEW t \in Nat, t > tk0["odometry"],
           tk["odometry"] = t, tk["contact"] = tk0["contact"],
           AcceptOdometry(a, t) # Broken
    PROVE  Checked(AcceptOdometry(a, t)) /\ Plain(AcceptOdometry(a, t), tk)
<1> DEFINE a1 == [a EXCEPT !.odometry = t]
           old == a.odometry
           no == FALSE
           b == CompleteTruth(a1, old, no)
<1>1. /\ a \in Aggregators /\ old \in Nat /\ a.lastContact \in Nat
      /\ a.contacts \subseteq [t : Nat, on : BOOLEAN]
  BY DEF Checked, Aggregators
<1>2. /\ tk["contact"] \in Nat /\ tk0["odometry"] \in Nat /\ flight.legs \subseteq Nat
      /\ old <= tk0["odometry"] /\ old < t
  BY <1>1, FlightTypes DEF Context, Streams, Plain, Joining
<1>3. Checked(a1) /\ a1.odometry = t /\ a1.contacts = a.contacts /\ a1.lastContact = a.lastContact
  <2>1. a1 \in Aggregators /\ a1.completed = a.completed /\ a1.odometry = t
        /\ a1.contacts = a.contacts /\ a1.lastContact = a.lastContact
    BY <1>1 DEF Aggregators
  <2> HIDE DEF a1
  <2>2. QED
    BY <2>1 DEF Checked
<1>4. ASSUME NEW l \in flight.legs, l <= tk["contact"], <<"contact", l>> \notin missed
      PROVE  \/ \E c \in a.contacts : c.t = l
             \/ l <= tk0["odometry"] /\ (old # 0 => l < old)
  BY <1>4 DEF Plain, Joining
<1>5. CASE AcceptOdometry(a, t) = b /\ old # 0
  <2>1. Honest([t |-> old, on |-> FALSE, overtaken |-> Overtaken(old)])
    <3>1. old \in flight.legs => <<"contact", old>> \in missed \/ Overtaken(old)
      <4> SUFFICES ASSUME old \in flight.legs, <<"contact", old>> \notin missed PROVE Overtaken(old)
        OBVIOUS
      <4>1. ~ (\E c \in a.contacts : c.t = old) /\ ~ (old < old)
        BY <1>1, <1>5 DEF Plain
      <4>2. ~ (old <= tk["contact"])
        BY <1>4, <1>5, <4>1
      <4>3. QED
        BY <1>1, <1>2, <4>2 DEF Overtaken
    <3> HIDE DEF old
    <3>2. QED
      BY <3>1 DEF Honest
  <2>2. /\ Checked(b) /\ b.odometry = t /\ b.lastContact = a.lastContact
        /\ b.contacts = {c \in a.contacts : c.t > old}
    <3>1. no \in BOOLEAN /\ b # Broken
      BY <1>5
    <3>2. Honest([t |-> old, on |-> no, overtaken |-> Overtaken(old)])
      BY <2>1
    <3> HIDE DEF old, a1, no
    <3>3. QED
      BY <1>1, <1>3, <3>1, <3>2, CompleteKeeps
  <2> HIDE DEF b
  <2>3. a.lastContact <= old /\ \A c \in a.contacts : c.t <= a.lastContact
    BY <1>5 DEF Plain, Joining
  <2>4. b.contacts = {}
    BY <1>1, <2>2, <2>3
  <2>5. ASSUME NEW l \in flight.legs, l <= tk["contact"], <<"contact", l>> \notin missed
        PROVE  l <= tk["odometry"] /\ l < b.odometry
    <3>1. (\E c \in a.contacts : c.t = l) \/ l < old
      BY <1>4, <1>5, <2>5
    <3>2. l <= old
      BY <1>1, <1>2, <2>3, <3>1
    <3>3. QED
      BY <1>1, <1>2, <2>2, <3>2
  <2>6. b.lastContact <= tk["contact"] /\ b.lastContact <= b.odometry /\ b.odometry <= tk["odometry"]
    BY <1>1, <1>2, <2>2, <2>3 DEF Plain, Joining
  <2>7. QED
    BY <1>5, <2>2, <2>4, <2>5, <2>6 DEF Plain, Joining
<1>6. CASE AcceptOdometry(a, t) = Combine(a1) /\ old = 0
  <2>1. Joining(a1, tk)
    <3>1. ASSUME NEW l \in flight.legs, l <= tk["contact"], <<"contact", l>> \notin missed
          PROVE  \/ \E c \in a1.contacts : c.t = l
                 \/ l <= tk["odometry"] /\ (a1.odometry # 0 => l < a1.odometry)
      <4>1. (\E c \in a1.contacts : c.t = l) \/ l <= tk0["odometry"]
        BY <1>3, <1>4, <3>1
      <4>2. l \in Nat
        BY <1>2
      <4>3. QED
        BY <1>2, <1>3, <4>1, <4>2
    <3> HIDE DEF a1
    <3>2. /\ a1.odometry <= tk["odometry"] /\ a1.lastContact <= tk["contact"]
          /\ \A c \in a1.contacts : c.on /\ c.t \in flight.legs /\ c.t <= a1.lastContact
      BY <1>3 DEF Plain, Joining
    <3>3. QED
      BY <3>1, <3>2 DEF Joining
  <2> HIDE DEF a1
  <2>2. QED
    BY <1>3, <1>6, <2>1, CombineKeeps
<1>7. QED
  BY <1>5, <1>6 DEF AcceptOdometry

LEMMA ContactKeeps ==
    ASSUME NEW tk, Context(tk), ~flight.support, NEW a, Checked(a),
           NEW tk0 \in [Streams -> Nat], Plain(a, tk0), NEW t \in flight.legs, t > tk0["contact"],
           tk["contact"] = t, tk["odometry"] = tk0["odometry"],
           \A l \in flight.legs : l <= t => l <= tk0["contact"] \/ l = t,
           AcceptContact(a, t, TRUE) # Broken
    PROVE  Checked(AcceptContact(a, t, TRUE)) /\ Plain(AcceptContact(a, t, TRUE), tk)
<1> DEFINE a1 == [a EXCEPT !.lastContact = t, !.contacts = @ \cup {[t |-> t, on |-> TRUE]}]
<1>1. /\ a \in Aggregators /\ a.odometry \in Nat /\ a.lastContact \in Nat
      /\ a.contacts \subseteq [t : Nat, on : BOOLEAN]
  BY DEF Checked, Aggregators
<1>2. tk0["contact"] \in Nat /\ flight.legs \subseteq Nat /\ t \in Nat
  BY FlightTypes DEF Context, Streams
<1>3. /\ Checked(a1) /\ a1.odometry = a.odometry /\ a1.lastContact = t
      /\ a1.contacts = a.contacts \cup {[t |-> t, on |-> TRUE]}
  <2>1. /\ a1 \in Aggregators /\ a1.completed = a.completed /\ a1.odometry = a.odometry
        /\ a1.lastContact = t /\ a1.contacts = a.contacts \cup {[t |-> t, on |-> TRUE]}
    <3>1. a.contacts \cup {[t |-> t, on |-> TRUE]} \subseteq [t : Nat, on : BOOLEAN]
      <4>1. [t |-> t, on |-> TRUE] \in [t : Nat, on : BOOLEAN]
        BY <1>2
      <4>2. QED
        BY <1>1, <4>1
    <3>2. QED
      BY <1>1, <1>2, <3>1 DEF Aggregators
  <2> HIDE DEF a1
  <2>2. QED
    BY <2>1 DEF Checked
<1> HIDE DEF a1
<1>4. \A c \in a1.contacts : c.on /\ c.t \in flight.legs /\ c.t <= a1.lastContact
  <2>1. \A c \in a.contacts : c.on /\ c.t \in flight.legs /\ c.t <= a.lastContact /\ c.t \in Nat
    BY <1>1 DEF Plain, Joining
  <2>2. a.lastContact <= tk0["contact"]
    BY DEF Plain, Joining
  <2>3. QED
    BY <1>1, <1>2, <1>3, <2>1, <2>2
<1>5. ASSUME NEW l \in flight.legs, l <= tk["contact"], <<"contact", l>> \notin missed
      PROVE  \/ \E c \in a1.contacts : c.t = l
             \/ l <= tk["odometry"] /\ (a1.odometry # 0 => l < a1.odometry)
  <2>1. CASE l = t
    <3>1. [t |-> t, on |-> TRUE] \in a1.contacts /\ [t |-> t, on |-> TRUE].t = l
      BY <1>3, <2>1
    <3>2. QED
      BY <3>1
  <2>2. CASE l <= tk0["contact"]
    <3>1. \/ \E c \in a.contacts : c.t = l
          \/ l <= tk0["odometry"] /\ (a.odometry # 0 => l < a.odometry)
      BY <1>5, <2>2 DEF Plain, Joining
    <3>2. QED
      BY <1>3, <3>1
  <2>3. QED
    BY <1>5, <2>1, <2>2
<1>6. Joining(a1, tk)
  BY <1>2, <1>3, <1>4, <1>5 DEF Plain, Joining
<1>7. AcceptContact(a, t, TRUE) = Combine(a1)
  BY DEF AcceptContact, a1
<1>8. QED
  BY <1>3, <1>6, <1>7, CombineKeeps

-----------------------------------------------------------------------------
(* VehicleSupportTracker, which joins legs, payload and odometry. *)

\* Between two epochs of the tracker the aggregator has nothing to join.
Rests(a) == a.odometry = 0 /\ a.contacts = {}

\* The state of the payload is that of its epoch, unless its contact was lost.
Weighed(e) ==
    /\ e.on => e.t \in flight.hook \cap flight.floor \/ <<"floor", e.t>> \in missed
    /\ ~e.on /\ e.t \in flight.hook \cap flight.floor => <<"floor", e.t>> \in missed

\* The tracker has the states of the payload in order, up to epoch `last', and every leg
\* contact that arrived for an epoch it has still to join.
Carried(s, tk, last) ==
    /\ s \in SupportStates /\ s.legs \subseteq flight.legs
    /\ s.lastLeg <= tk["contact"] /\ s.lastOdometry <= tk["odometry"]
    /\ \A i \in DOMAIN s.parcel :
         s.parcel[i].t # 0 /\ s.parcel[i].t <= last /\ Weighed(s.parcel[i])
    /\ \A i, j \in DOMAIN s.parcel : i < j => s.parcel[i].t < s.parcel[j].t
    /\ \A l \in flight.legs : l <= tk["contact"] /\ <<"contact", l>> \notin missed =>
         \/ l \in s.legs
         \/ l <= last /\ \A i \in DOMAIN s.parcel : l < s.parcel[i].t

\* The callback is broken, or what it did so far is sound.
Sound(k, tk, acc) ==
    k.a # Broken => Checked(k.a) /\ Rests(k.a) /\ Logged(k, tk, acc)

LEMMA SupportJoinKeeps ==
    ASSUME NEW tk, Context(tk), tk = taken', CameraPairs(taken) = CameraPairs(tk), NEW acc,
           NEW k \in Callbacks, Sound(k, tk, acc), NEW s, NEW e \in ParcelStates, e.t # 0,
           Honest([t |-> e.t, on |-> e.on \/ e.t \in s.legs, overtaken |-> Overtaken(e.t)])
    PROVE  LET r == JoinSupport(k, s, e) IN
           r \in Callbacks /\ r.s = k.s /\ Sound(r, tk, acc)
<1> DEFINE t == e.t
           on == e.on \/ e.t \in s.legs
           a1 == [k.a EXCEPT !.lastContact = t, !.contacts = @ \cup {[t |-> t, on |-> on]}]
           k1 == [k EXCEPT !.a = a1]
           r1 == LiveContact(k, t, on)
           r == LiveOdometry(r1, t)
<1>1. JoinSupport(k, s, e) = r
  BY DEF JoinSupport
<1>2. t \in Nat /\ t # 0 /\ on \in BOOLEAN
  BY DEF ParcelStates
<1>3. CASE k.a = Broken
  <2>1. r1 = k /\ r = k
    BY <1>3 DEF LiveContact, LiveOdometry
  <2>2. QED
    BY <1>1, <1>3, <2>1 DEF Sound
<1>4. CASE k.a # Broken
  <2>1. Checked(k.a) /\ Rests(k.a) /\ Logged(k, tk, acc) /\ k.a \in Aggregators
    BY <1>4 DEF Sound, Checked
  <2>2. [t |-> t, on |-> on] \in [t : Nat, on : BOOLEAN]
    BY <1>2
  <2>3. /\ a1 \in Aggregators /\ a1.completed = k.a.completed /\ a1.odometry = 0
        /\ a1.contacts = {[t |-> t, on |-> on]}
    <3>1. k.a.contacts = {} /\ k.a.odometry = 0
      BY <2>1 DEF Rests
    <3> HIDE DEF on, t
    <3>2. k.a.contacts \cup {[t |-> t, on |-> on]} = {[t |-> t, on |-> on]}
      BY <3>1
    <3>3. {[t |-> t, on |-> on]} \in SUBSET [t : Nat, on : BOOLEAN]
      BY <2>2
    <3>4. QED
      BY <1>2, <2>1, <3>1, <3>2, <3>3 DEF Aggregators
  <2>4. AcceptContact(k.a, t, on) = a1
    BY <2>3 DEF AcceptContact, Combine
  <2>5. Checked(a1)
    <3> HIDE DEF a1
    <3>1. QED
      BY <2>1, <2>3 DEF Checked
  <2>6. k1 \in Callbacks /\ k1.a = a1 /\ k1.s = k.s /\ Logged(k1, tk, acc)
    <3>1. k1 = [a |-> a1, s |-> k.s, n |-> k.n, outs |-> k.outs]
      BY DEF Callbacks
    <3> HIDE DEF a1
    <3>2. k1 \in Callbacks
      BY <2>3, <3>1 DEF Callbacks
    <3> HIDE DEF k1
    <3>3. QED
      BY <2>1, <3>1, <3>2 DEF Logged
  <2>7. r1 = ReleaseTruth(k1, CameraPairs(tk))
    BY <1>4, <2>4 DEF LiveContact
  <2>8. /\ r1 \in Callbacks /\ r1.s = k.s
        /\ r1.a # Broken => /\ Checked(r1.a) /\ Logged(r1, tk, acc) /\ r1.a.odometry = 0
                            /\ r1.a.contacts = {[t |-> t, on |-> on]}
    <3> HIDE DEF r1, k1, a1
    <3>1. QED
      BY <2>3, <2>5, <2>6, <2>7, ReleaseKeeps
  <2> HIDE DEF r1
  <2>9. CASE r1.a = Broken
    <3>1. r = r1
      BY <2>9 DEF LiveOdometry
    <3>2. QED
      BY <1>1, <2>8, <2>9, <3>1 DEF Sound
  <2>10. CASE r1.a # Broken
    <3> DEFINE a2 == AcceptOdometry(r1.a, t)
               k2 == [r1 EXCEPT !.a = a2]
               a0 == [r1.a EXCEPT !.odometry = 0]
               known == {c \in r1.a.contacts : c.t = t}
               met == \E c \in known : c.on
    <3>1. r1.a \in Aggregators /\ Checked(r1.a)
      BY <2>8, <2>10 DEF Checked
    <3>2. [[r1.a EXCEPT !.odometry = t] EXCEPT !.odometry = 0] = a0
          /\ [r1.a EXCEPT !.odometry = t].odometry = t
          /\ [r1.a EXCEPT !.odometry = t].contacts = r1.a.contacts
      BY <3>1 DEF Aggregators
    <3>3. known # {} /\ (met <=> on)
      <4> DEFINE x == [t |-> t, on |-> on]
      <4>1. x.t = t /\ x.on = on
        OBVIOUS
      <4>2. r1.a.contacts = {x}
        BY <2>8, <2>10
      <4> HIDE DEF x, on, t
      <4>3. known = {x}
        BY <4>1, <4>2
      <4>4. met <=> x.on
        BY <4>3
      <4>5. QED
        BY <4>1, <4>3, <4>4
    <3>4. a2 = Broken \/ a2 = CompleteTruth(a0, t, met)
      <4>1. r1.a.odometry = 0
        BY <2>8, <2>10
      <4>2. a2 = Broken \/ a2 = Combine([r1.a EXCEPT !.odometry = t])
        BY <4>1 DEF AcceptOdometry
      <4>3. known # {}
        BY <3>3
      <4>4. Combine([r1.a EXCEPT !.odometry = t]) = CompleteTruth(a0, t, met)
        BY <1>2, <3>2, <4>3 DEF Combine
      <4>5. QED
        BY <4>2, <4>4
    <3>5. /\ Checked(a0) /\ a0.odometry = 0 /\ a0.contacts = {[t |-> t, on |-> on]}
      <4>1. /\ a0 \in Aggregators /\ a0.completed = r1.a.completed /\ a0.odometry = 0
            /\ a0.contacts = r1.a.contacts
        BY <3>1 DEF Aggregators
      <4> HIDE DEF a0
      <4>2. QED
        BY <2>8, <2>10, <3>1, <4>1 DEF Checked
    <3>6. Honest([t |-> t, on |-> met, overtaken |-> Overtaken(t)])
      <4> HIDE DEF met, on
      <4>1. QED
        BY <3>3 DEF Honest, on
    <3>7. a2 # Broken => Checked(a2) /\ Rests(a2)
      <4> SUFFICES ASSUME a2 # Broken PROVE Checked(a2) /\ Rests(a2)
        OBVIOUS
      <4>1. met \in BOOLEAN /\ a2 = CompleteTruth(a0, t, met)
        BY <3>4
      <4> HIDE DEF met, a0, a2, on, t
      <4>2. Checked(a2) /\ a2.odometry = 0 /\ a2.contacts = {c \in a0.contacts : c.t > t}
        BY <1>2, <3>5, <3>6, <4>1, CompleteKeeps
      <4>3. a2.contacts = {}
        BY <1>2, <3>5, <4>2
      <4>4. QED
        BY <4>2, <4>3 DEF Rests
    <3>8. r = ReleaseTruth(k2, CameraPairs(tk))
      BY <2>10 DEF LiveOdometry
    <3>9. k2 \in Callbacks /\ k2.a = a2 /\ k2.s = k.s /\ k2.n = r1.n /\ k2.outs = r1.outs
      <4>1. k2 = [a |-> a2, s |-> k.s, n |-> r1.n, outs |-> r1.outs]
        BY <2>8 DEF Callbacks
      <4>2. a2 \in Aggregators \cup {Broken}
        BY <3>7 DEF Checked
      <4> HIDE DEF a2
      <4>3. k2 \in Callbacks
        BY <2>8, <4>1, <4>2 DEF Callbacks
      <4> HIDE DEF k2
      <4>4. QED
        BY <4>1, <4>3
    <3>10. CASE a2 = Broken
      <4>1. r = k2
        BY <3>8, <3>9, <3>10 DEF ReleaseTruth
      <4> HIDE DEF a2, k2, r
      <4>2. QED
        BY <1>1, <3>9, <3>10, <4>1 DEF Sound
    <3>11. CASE a2 # Broken
      <4>1. Logged(k2, tk, acc)
        <5> HIDE DEF k2, a2
        <5>1. QED
          BY <2>8, <2>10, <3>9 DEF Logged
      <4>2. /\ r \in Callbacks /\ r.s = k.s
            /\ r.a # Broken => Checked(r.a) /\ Logged(r, tk, acc) /\ Rests(r.a)
        <5> HIDE DEF k2, a2, r
        <5>1. QED
          BY <3>7, <3>8, <3>9, <3>11, <4>1, ReleaseKeeps DEF Rests
      <4> HIDE DEF r
      <4>3. QED
        BY <1>1, <4>2 DEF Sound
    <3>12. QED
      BY <3>10, <3>11
  <2>11. QED
    BY <2>9, <2>10
<1>5. QED
  BY <1>3, <1>4

\* The loop of VehicleSupportTracker._drain.
JoinLoop(f, x, s, n) ==
    f = [i \in 0 .. n |-> IF i = 0 THEN x ELSE JoinSupport(f[i - 1], s, s.parcel[i])]

LEMMA JoinRounds ==
    ASSUME NEW x, NEW s, NEW n \in Nat
    PROVE  \E f : JoinLoop(f, x, s, n)
<1> DEFINE Is(f, m) == f = [i \in 0 .. m |->
                              IF i = 0 THEN x ELSE JoinSupport(f[i - 1], s, s.parcel[i])]
           S == {m \in 0 .. n : \E f : Is(f, m)}
<1>1. 0 \in S
  <2>1. Is([i \in 0 .. 0 |-> x], 0)
    OBVIOUS
  <2>2. 0 \in 0 .. n
    OBVIOUS
  <2> HIDE DEF Is
  <2>3. QED
    BY <2>1, <2>2
<1>2. ASSUME NEW m \in 0 .. n - 1, m \in S PROVE m + 1 \in S
  <2>1. PICK f : Is(f, m)
    BY <1>2
  <2> DEFINE g == [i \in 0 .. m + 1 |->
                     IF i <= m THEN f[i] ELSE JoinSupport(f[m], s, s.parcel[m + 1])]
  <2>2. ASSUME NEW i \in 0 .. m + 1
        PROVE  g[i] = IF i = 0 THEN x ELSE JoinSupport(g[i - 1], s, s.parcel[i])
    <3>1. CASE i <= m
      <4>1. f[i] = IF i = 0 THEN x ELSE JoinSupport(f[i - 1], s, s.parcel[i])
        BY <2>1, <3>1
      <4>2. i # 0 => g[i - 1] = f[i - 1]
        BY <3>1
      <4>3. QED
        BY <3>1, <4>1, <4>2
    <3>2. CASE i = m + 1
      <4>1. g[i - 1] = f[m] /\ i # 0
        BY <3>2
      <4>2. QED
        BY <3>2, <4>1
    <3>3. QED
      BY <3>1, <3>2
  <2>3. Is(g, m + 1)
    BY <2>2
  <2>4. m + 1 \in 0 .. n
    OBVIOUS
  <2> HIDE DEF Is, g
  <2>5. QED
    BY <2>3, <2>4
<1>3. n \in S
  <2> HIDE DEF S
  <2>1. \A i \in 0 .. n : i \in S
    BY <1>1, <1>2, Rounds
  <2>2. QED
    BY <2>1
<1>4. QED
  BY <1>3 DEF JoinLoop

\* What the tracker hands to the aggregator is true.
LEMMA JoinedIsHonest ==
    ASSUME NEW tk, Context(tk), tk = taken', flight.support, NEW s, NEW last,
           Carried(s, tk, last), NEW i \in DOMAIN s.parcel, Joinable(s, s.parcel[i])
    PROVE  LET e == s.parcel[i] IN
           /\ e \in ParcelStates /\ e.t # 0
           /\ Honest([t |-> e.t, on |-> e.on \/ e.t \in s.legs, overtaken |-> Overtaken(e.t)])
<1> DEFINE e == s.parcel[i]
           on == e.on \/ e.t \in s.legs
<1>1. /\ s.parcel \in Seq(ParcelStates) /\ s.legs \subseteq flight.legs
      /\ s.lastLeg \in Nat /\ s.lastOdometry \in Nat
      /\ s.lastLeg <= tk["contact"] /\ s.lastOdometry <= tk["odometry"]
      /\ e.t # 0 /\ Weighed(e)
  BY DEF Carried, SupportStates
<1>2. e \in ParcelStates /\ e.t \in Nat
  <2>1. e \in ParcelStates
    BY <1>1
  <2> HIDE DEF e
  <2>2. QED
    BY <2>1 DEF ParcelStates
<1>3. tk["contact"] \in Nat /\ tk["odometry"] \in Nat
  BY DEF Context, Streams
<1>4. on => Touching(e.t) \/ <<"floor", e.t>> \in missed
  BY <1>1 DEF Touching, Weighed
<1>5. ~on /\ flight.support /\ e.t \in flight.hook \cap flight.floor => <<"floor", e.t>> \in missed
  BY <1>1 DEF Weighed
<1>6. ~on /\ e.t \in flight.legs => <<"contact", e.t>> \in missed \/ Overtaken(e.t)
  <2> SUFFICES ASSUME ~on, e.t \in flight.legs, <<"contact", e.t>> \notin missed
               PROVE  Overtaken(e.t)
    OBVIOUS
  <2>1. ~ (e.t <= tk["contact"])
    <3> SUFFICES ASSUME e.t <= tk["contact"] PROVE FALSE
      OBVIOUS
    <3>1. e.t \in s.legs \/ e.t < e.t
      BY DEF Carried
    <3>2. QED
      BY <1>2, <3>1
  <2>2. s.lastOdometry > e.t
    <3>1. s.lastLeg > e.t \/ s.lastOdometry > e.t
      BY DEF Joinable
    <3> HIDE DEF e
    <3>2. QED
      BY <1>1, <1>2, <1>3, <2>1, <3>1
  <2> HIDE DEF e
  <2>3. QED
    BY <1>1, <1>2, <1>3, <2>1, <2>2 DEF Overtaken
<1> HIDE DEF e, on
<1>7. Honest([t |-> e.t, on |-> on, overtaken |-> Overtaken(e.t)])
  BY <1>4, <1>5, <1>6 DEF Honest
<1>8. QED
  BY <1>1, <1>2, <1>7 DEF e, on

\* What is left after the first n states of the payload were done.
LEMMA KeptIsCarried ==
    ASSUME NEW tk, Context(tk), NEW s, NEW last, last \in Nat, Carried(s, tk, last),
           NEW n \in 0 .. Len(s.parcel)
    PROVE  Carried(AfterJoin(s, n), tk, last)
<1> DEFINE done == {s.parcel[i].t : i \in 1 .. n}
           rest == SubSeq(s.parcel, n + 1, Len(s.parcel))
           left == AfterJoin(s, n)
<1>1. /\ s \in SupportStates /\ s.parcel \in Seq(ParcelStates) /\ s.legs \in SUBSET Nat
      /\ s.odometry \in SUBSET Nat /\ Len(s.parcel) \in Nat /\ flight.legs \subseteq Nat
  BY FlightTypes DEF Carried, SupportStates, Context
<1>2. /\ rest \in Seq(ParcelStates) /\ Len(rest) = Len(s.parcel) - n
      /\ \A i \in 1 .. Len(rest) : rest[i] = s.parcel[n + i] /\ n + i \in DOMAIN s.parcel
      /\ DOMAIN rest = 1 .. Len(rest) /\ DOMAIN s.parcel = 1 .. Len(s.parcel)
  <2>1. \A i \in (n + 1) .. Len(s.parcel) : s.parcel[i] \in ParcelStates
    BY <1>1
  <2>2. rest \in Seq(ParcelStates) /\ Len(rest) = Len(s.parcel) - n
    BY <1>1, <2>1
  <2>3. ASSUME NEW i \in 1 .. Len(rest)
        PROVE  rest[i] = s.parcel[n + i] /\ n + i \in DOMAIN s.parcel
    BY <1>1, <2>2
  <2>4. QED
    BY <1>1, <2>2, <2>3
<1>3. /\ left \in SupportStates /\ left.parcel = rest /\ left.lastLeg = s.lastLeg
      /\ left.lastOdometry = s.lastOdometry
      /\ left.legs = {l \in s.legs : \A t \in done : l > t}
  <2>1. {l \in s.legs : \A t \in done : l > t} \in SUBSET Nat /\ s.odometry \ done \in SUBSET Nat
    BY <1>1
  <2>2. left = [s EXCEPT !.parcel = rest, !.odometry = s.odometry \ done,
                          !.legs = {l \in s.legs : \A t \in done : l > t}]
    BY <1>1 DEF AfterJoin, SupportStates
  <2> HIDE DEF done, left, rest
  <2>3. QED
    BY <1>1, <1>2, <2>1, <2>2 DEF SupportStates
<1> HIDE DEF left, rest
<1>4. ASSUME NEW i \in DOMAIN left.parcel
      PROVE  /\ left.parcel[i].t # 0 /\ left.parcel[i].t <= last /\ Weighed(left.parcel[i])
             /\ n + i \in DOMAIN s.parcel /\ left.parcel[i] = s.parcel[n + i] /\ i \in Nat
  <2>1. left.parcel[i] = s.parcel[n + i] /\ n + i \in DOMAIN s.parcel /\ i \in Nat
    BY <1>2, <1>3
  <2>2. QED
    BY <2>1 DEF Carried
<1>5. \A i, j \in DOMAIN left.parcel : i < j => left.parcel[i].t < left.parcel[j].t
  <2> SUFFICES ASSUME NEW i \in DOMAIN left.parcel, NEW j \in DOMAIN left.parcel, i < j
               PROVE  left.parcel[i].t < left.parcel[j].t
    OBVIOUS
  <2>1. n + i < n + j
    BY <1>4
  <2>2. QED
    BY <1>4, <2>1 DEF Carried
<1>6. ASSUME NEW l \in flight.legs, l <= tk["contact"], <<"contact", l>> \notin missed,
             l \notin left.legs
      PROVE  l <= last /\ \A i \in DOMAIN left.parcel : l < left.parcel[i].t
  <2>1. CASE l \in s.legs
    <3>1. PICK m \in 1 .. n : ~ (l > s.parcel[m].t)
      BY <1>3, <1>6, <2>1
    <3>2. m \in DOMAIN s.parcel /\ s.parcel[m].t \in Nat /\ l \in Nat
      <4>1. m \in DOMAIN s.parcel /\ l \in Nat
        BY <1>1, <1>2
      <4>2. s.parcel[m] \in ParcelStates
        BY <1>1, <4>1
      <4>3. QED
        BY <4>1, <4>2 DEF ParcelStates
    <3>3. l <= s.parcel[m].t /\ s.parcel[m].t <= last
      BY <3>1, <3>2 DEF Carried
    <3>4. ASSUME NEW i \in DOMAIN left.parcel PROVE l < left.parcel[i].t
      <4>1. m < n + i
        <5>1. i \in 1 .. Len(rest) /\ Len(rest) \in Nat
          BY <1>1, <1>2, <1>3
        <5>2. QED
          BY <5>1
      <4>2. s.parcel[m].t < s.parcel[n + i].t
        BY <1>4, <3>2, <4>1 DEF Carried
      <4>4. s.parcel[n + i].t \in Nat
        <5>1. s.parcel[n + i] \in ParcelStates
          BY <1>1, <1>4
        <5>2. QED
          BY <5>1 DEF ParcelStates
      <4>5. left.parcel[i].t = s.parcel[n + i].t
        BY <1>4
      <4>6. s.parcel[m].t \in Nat /\ l \in Nat
        BY <3>2
      <4>3. QED
        BY <3>3, <4>2, <4>4, <4>5, <4>6
    <3>5. QED
      BY <3>2, <3>3, <3>4
  <2>2. CASE l \notin s.legs
    <3>1. l <= last /\ \A i \in DOMAIN s.parcel : l < s.parcel[i].t
      BY <1>6, <2>2 DEF Carried
    <3>2. QED
      BY <1>4, <3>1
  <2>3. QED
    BY <2>1, <2>2
<1>7. left.legs \subseteq flight.legs /\ left.lastLeg <= tk["contact"]
      /\ left.lastOdometry <= tk["odometry"]
  BY <1>3 DEF Carried
<1>8. Carried(left, tk, last)
  BY <1>3, <1>4, <1>5, <1>6, <1>7 DEF Carried
<1>9. QED
  BY <1>8 DEF left

\* A round of the tracker joins what can be joined.
LEMMA DrainKeeps ==
    ASSUME NEW tk, Context(tk), tk = taken', CameraPairs(taken) = CameraPairs(tk),
           flight.support, NEW acc, NEW last \in Nat,
           NEW k \in Callbacks, Sound(k, tk, acc), Carried(k.s, tk, last)
    PROVE  LET r == DrainSupport(k) IN
           /\ r \in Callbacks /\ Sound(r, tk, acc)
           /\ r.a # Broken => Carried(r.s, tk, last)
<1> DEFINE s == k.s
           can(m) == /\ \A i \in 1 .. m : Joinable(s, s.parcel[i])
                     /\ m < Len(s.parcel) => ~Joinable(s, s.parcel[m + 1])
           n == CHOOSE m \in 0 .. Len(s.parcel) : can(m)
           left == AfterJoin(s, n)
           k0 == [k EXCEPT !.s = left]
           step == CHOOSE f : JoinLoop(f, k0, s, n)
           r == DrainSupport(k)
<1>1. s \in SupportStates /\ s.parcel \in Seq(ParcelStates) /\ Len(s.parcel) \in Nat
  BY DEF Callbacks, SupportStates
<1>2. n \in 0 .. Len(s.parcel) /\ can(n)
  <2> DEFINE S == {m \in 0 .. Len(s.parcel) :
                     m < Len(s.parcel) => ~Joinable(s, s.parcel[m + 1])}
  <2>1. S \in SUBSET Nat /\ S # {}
    <3>1. Len(s.parcel) \in 0 .. Len(s.parcel) /\ ~ (Len(s.parcel) < Len(s.parcel))
      BY <1>1
    <3> HIDE DEF s
    <3>2. QED
      BY <3>1
  <2>2. FirstSuch(S) \in S /\ \A j \in S : FirstSuch(S) <= j
    BY <2>1, FirstExists
  <2> DEFINE m == FirstSuch(S)
  <2>3. m \in 0 .. Len(s.parcel) /\ (m < Len(s.parcel) => ~Joinable(s, s.parcel[m + 1]))
    BY <2>2
  <2>4. ASSUME NEW i \in 1 .. m PROVE Joinable(s, s.parcel[i])
    <3>1. i - 1 \notin S
      <4> HIDE DEF S
      <4>1. \A j \in S : m <= j
        BY <2>2
      <4> HIDE DEF m
      <4>2. QED
        BY <1>1, <2>3, <4>1
    <3> HIDE DEF m
    <3>2. i - 1 \in 0 .. Len(s.parcel) /\ i - 1 < Len(s.parcel) /\ i - 1 + 1 = i
      BY <1>1, <2>3
    <3> HIDE DEF s
    <3>3. QED
      BY <3>1, <3>2
  <2> HIDE DEF m, S
  <2>5. can(m)
    BY <2>3, <2>4
  <2> HIDE DEF can
  <2>6. QED
    BY <2>3, <2>5
<1>3. Carried(left, tk, last)
  <2> HIDE DEF n, s, can
  <2>1. Carried(s, tk, last)
    BY DEF s
  <2>2. QED
    BY <1>2, <2>1, KeptIsCarried
<1>4. ASSUME NEW i \in 1 .. n
      PROVE  /\ s.parcel[i] \in ParcelStates /\ s.parcel[i].t # 0
             /\ Honest([t |-> s.parcel[i].t, on |-> s.parcel[i].on \/ s.parcel[i].t \in s.legs,
                        overtaken |-> Overtaken(s.parcel[i].t)])
  <2>1. i \in DOMAIN s.parcel /\ Joinable(s, s.parcel[i])
    <3> HIDE DEF n, s
    <3>1. QED
      BY <1>1, <1>2
  <2> HIDE DEF n, s
  <2>2. Carried(s, tk, last)
    BY DEF s
  <2>3. QED
    BY <2>1, <2>2, JoinedIsHonest
<1>5. JoinLoop(step, k0, s, n)
  <2> HIDE DEF n, s, k0
  <2>1. n \in Nat
    BY <1>1, <1>2
  <2>2. \E f : JoinLoop(f, k0, s, n)
    BY <2>1, JoinRounds
  <2>3. QED
    BY <2>2
<1>6. k0 \in Callbacks /\ k0.s = left /\ k0.a = k.a /\ k0.n = k.n /\ k0.outs = k.outs
  <2>1. left \in SupportStates
    BY <1>3 DEF Carried
  <2> HIDE DEF left
  <2>2. QED
    BY <2>1 DEF Callbacks
<1>7. Sound(k0, tk, acc)
  <2> HIDE DEF k0
  <2>1. QED
    BY <1>6 DEF Sound, Logged
<1> DEFINE T == {i \in 0 .. n : step[i] \in Callbacks /\ step[i].s = left /\ Sound(step[i], tk, acc)}
<1> HIDE DEF can, n, s, left, k0, step
<1>8. 0 \in T
  <2>1. 0 \in 0 .. n /\ step[0] = k0
    BY <1>1, <1>2, <1>5 DEF JoinLoop
  <2>2. QED
    BY <1>6, <1>7, <2>1
<1>9. ASSUME NEW i \in 0 .. n - 1, i \in T PROVE i + 1 \in T
  <2>1. i + 1 \in 0 .. n /\ i + 1 \in 1 .. n /\ i + 1 # 0 /\ (i + 1) - 1 = i
    BY <1>1, <1>2
  <2>2. step[i + 1] = JoinSupport(step[i], s, s.parcel[i + 1])
    BY <1>5, <2>1 DEF JoinLoop
  <2>3. step[i] \in Callbacks /\ step[i].s = left /\ Sound(step[i], tk, acc)
    BY <1>9
  <2> DEFINE x == step[i]  e == s.parcel[i + 1]
  <2>4. /\ e \in ParcelStates /\ e.t # 0
        /\ Honest([t |-> e.t, on |-> e.on \/ e.t \in s.legs, overtaken |-> Overtaken(e.t)])
    BY <1>4, <2>1
  <2>5. x \in Callbacks /\ Sound(x, tk, acc)
    BY <2>3
  <2> HIDE DEF x, e
  <2>6. LET y == JoinSupport(x, s, e) IN y \in Callbacks /\ y.s = x.s /\ Sound(y, tk, acc)
    BY <2>4, <2>5, SupportJoinKeeps
  <2>7. QED
    BY <2>1, <2>2, <2>3, <2>6 DEF x, e
<1>10. n \in T
  <2> HIDE DEF T
  <2>1. n \in Nat
    BY <1>1, <1>2
  <2>2. \A i \in 0 .. n : i \in T
    BY <1>8, <1>9, <2>1, Rounds
  <2>3. QED
    BY <2>1, <2>2
<1>11. step[n] \in Callbacks /\ step[n].s = left /\ Sound(step[n], tk, acc)
  BY <1>10
<1>12. [k EXCEPT !.a = Broken] \in Callbacks /\ [k EXCEPT !.a = Broken].a = Broken
  BY DEF Callbacks
<1>13. r = [k EXCEPT !.a = Broken] \/ r = step[n]
  BY DEF DrainSupport, JoinLoop, step, k0, left, n, can, s
<1> HIDE DEF r
<1>14. r \in Callbacks /\ Sound(r, tk, acc) /\ (r.a # Broken => Carried(r.s, tk, last))
  <2>1. CASE r = [k EXCEPT !.a = Broken]
    BY <1>12, <2>1 DEF Sound
  <2>2. CASE r = step[n]
    BY <1>3, <1>11, <2>2
  <2>3. QED
    BY <1>13, <2>1, <2>2
<1>15. QED
  BY <1>14 DEF r

-----------------------------------------------------------------------------
(* The invariant of the adapter. *)

\* What a callback may leave behind: the outputs are on record and the buffers hold what
\* has still to be joined.
Fine(k, tk, acc) ==
    /\ k \in Callbacks
    /\ k.a # Broken =>
         /\ Checked(k.a) /\ Logged(k, tk, acc)
         /\ k.a.odometry <= tk["odometry"]
         /\ IF flight.support THEN Rests(k.a) /\ Carried(k.s, tk, acc) ELSE Plain(k.a, tk)

\* PayloadTracker: the poses that wait follow on those accepted, without a gap, and a
\* contact is here unless it was lost.
Followed(p, tk) ==
    /\ p \in ParcelTrackers
    /\ \E m \in Nat : /\ p.accepted <= m /\ m <= tk["pose"] /\ p.pose = p.accepted + 1 .. m
                      /\ <<"pose", tk["pose"]>> \notin missed => m = tk["pose"]
    /\ p.floor \subseteq 1 .. tk["floor"]
    /\ \A t \in 1 .. tk["floor"] : t \in p.floor \/ <<"floor", t>> \in missed

\* The first sentence of TruthIsKept, with the adapter's own count of the frames.
Faithful(P) ==
    \A i \in DOMAIN P.truths :
      /\ P.truths[i].t = i /\ P.truths[i].clock >= i /\ Honest(P.truths[i])
      /\ \A c \in Cameras : P.count[c] >= i

AdapterTypes ==
    /\ Context(taken) /\ native <= flight.frames
    /\ IsFiniteSet(missed) /\ Cardinality(missed) <= MaxLost
    /\ gate \in {"armed", "latched"} /\ {wanted, output} \subseteq BOOLEAN
    /\ Len(early) <= PreZeroLimit
    /\ truth \in Aggregators /\ truth.odometry <= native /\ Len(truth.completed) <= AdapterCapacity
    /\ truths \in Nat /\ \A c \in Cameras : truths <= taken[c]
    /\ public.clock <= native
    /\ adapterIs \in {"working", "faulted", "complete"}

AtWork ==
    /\ output => early = <<>> /\ gate = "latched" /\ wanted
    /\ ~output => public.clock = 0 /\ public.truths = <<>>
    /\ Fine(NewCallback, taken, parcel.accepted) /\ Followed(parcel, taken)

AllOut ==
    /\ Len(public.truths) = flight.frames /\ early = <<>>
    /\ \A c \in Cameras : public.count[c] = flight.frames
    /\ flight.competition => public.count["range"] = flight.frames
                             /\ public.count["parcel"] = flight.frames

AdapterInv ==
    /\ AdapterTypes /\ Faithful(public)
    /\ adapterIs = "working" => AtWork
    /\ adapterIs = "complete" => AllOut

-----------------------------------------------------------------------------
(* The callbacks. *)

\* The next message of a stream: no epoch is passed over, but those without leg contact.
LEMMA NextStampIs ==
    ASSUME Context(taken), NEW s \in Streams, NextStamp(s) # 0
    PROVE  /\ NextStamp(s) \in Nat /\ taken[s] < NextStamp(s) /\ NextStamp(s) <= native
           /\ Sent(s, NextStamp(s))
           /\ \A u \in Nat : taken[s] < u /\ u < NextStamp(s) => ~Sent(s, u)
           /\ s # "contact" => NextStamp(s) = taken[s] + 1
<1> DEFINE due == {t \in taken[s] + 1 .. native : Sent(s, t)}
           m == CHOOSE t \in due : \A u \in due : t <= u
<1>1. taken[s] \in Nat /\ native \in Nat
  BY DEF Context
<1>2. NextStamp(s) = m /\ due # {} /\ due \in SUBSET Nat
  BY <1>1 DEF NextStamp
<1>3. m \in due /\ \A u \in due : m <= u
  <2> HIDE DEF due
  <2>1. FirstSuch(due) \in due /\ \A u \in due : FirstSuch(due) <= u
    BY <1>2, FirstExists
  <2>2. QED
    BY <2>1
<1>4. m \in Nat /\ taken[s] < m /\ m <= native /\ Sent(s, m)
  BY <1>1, <1>3
<1>5. ASSUME NEW u \in Nat, taken[s] < u, u < m PROVE ~Sent(s, u)
  <2>1. u \notin due
    <3> HIDE DEF due
    <3>1. \A v \in due : m <= v
      BY <1>3
    <3> HIDE DEF m
    <3>2. QED
      BY <1>4, <1>5, <3>1
  <2> HIDE DEF m
  <2>2. u \in taken[s] + 1 .. native
    BY <1>1, <1>4, <1>5
  <2>3. QED
    BY <2>1, <2>2
<1> HIDE DEF m
<1>6. s # "contact" => m = taken[s] + 1
  <2> SUFFICES ASSUME s # "contact", m # taken[s] + 1 PROVE FALSE
    OBVIOUS
  <2>1. taken[s] + 1 \in Nat /\ taken[s] < taken[s] + 1 /\ taken[s] + 1 < m
    BY <1>1, <1>4
  <2>2. Sent(s, taken[s] + 1)
    BY DEF Sent
  <2>3. QED
    BY <1>5, <2>1, <2>2
<1>7. QED
  BY <1>2, <1>4, <1>5, <1>6

\* What a step that takes or passes over a message of stream s leaves of the context.
LEMMA ContextMoves ==
    ASSUME Context(taken), NEW s \in Streams, NextStamp(s) # 0
    PROVE  LET tk == [taken EXCEPT ![s] = NextStamp(s)] IN
           /\ Context(tk) /\ tk[s] = NextStamp(s) /\ \A r \in Streams \ {s} : tk[r] = taken[r]
           /\ \A r \in Streams : taken[r] <= tk[r]
<1> DEFINE tk == [taken EXCEPT ![s] = NextStamp(s)]
<1>1. /\ NextStamp(s) \in Nat /\ taken[s] < NextStamp(s) /\ NextStamp(s) <= native
      /\ taken \in [Streams -> Nat]
  BY NextStampIs DEF Context
<1>2. tk \in [Streams -> Nat] /\ tk[s] = NextStamp(s) /\ \A r \in Streams \ {s} : tk[r] = taken[r]
  BY <1>1
<1> HIDE DEF tk
<1>3. \A r \in Streams : tk[r] <= native /\ taken[r] <= tk[r]
  BY <1>1, <1>2 DEF Context
<1>4. Context(tk)
  BY <1>2, <1>3 DEF Context
<1>5. QED
  BY <1>2, <1>3, <1>4 DEF tk

\* Odometry and leg contact in a world without a payload to carry.
LEMMA LiveOdometryKeeps ==
    ASSUME NEW tk, Context(tk), tk = taken', CameraPairs(taken) = CameraPairs(tk),
           ~flight.support, NEW acc, NEW k, NEW tk0 \in [Streams -> Nat],
           k \in Callbacks, k.a # Broken, Checked(k.a), Logged(k, tk, acc), Plain(k.a, tk0),
           NEW t \in Nat, t > tk0["odometry"], tk["odometry"] = t,
           tk["contact"] = tk0["contact"]
    PROVE  Fine(LiveOdometry(k, t), tk, acc)
<1> DEFINE a == AcceptOdometry(k.a, t)
           k1 == [k EXCEPT !.a = a]
           r == LiveOdometry(k, t)
<1>1. r = ReleaseTruth(k1, CameraPairs(tk))
  BY DEF LiveOdometry
<1>2. a # Broken => Checked(a) /\ Plain(a, tk)
  <2> HIDE DEF a
  <2> SUFFICES ASSUME a # Broken PROVE Checked(a) /\ Plain(a, tk)
    OBVIOUS
  <2>1. QED
    BY OdometryKeeps DEF a
<1>3. k1 \in Callbacks /\ k1.a = a /\ k1.n = k.n /\ k1.outs = k.outs
  <2>1. a \in Aggregators \cup {Broken}
    BY <1>2 DEF Checked
  <2> HIDE DEF a
  <2>2. QED
    BY <2>1 DEF Callbacks
<1> HIDE DEF a, k1
<1>4. CASE a = Broken
  <2>1. r = k1
    BY <1>1, <1>3, <1>4 DEF ReleaseTruth
  <2> HIDE DEF r
  <2>2. Fine(r, tk, acc)
    BY <1>3, <1>4, <2>1 DEF Fine
  <2>3. QED
    BY <2>2 DEF r
<1>5. CASE a # Broken
  <2>1. Logged(k1, tk, acc)
    BY <1>3 DEF Logged
  <2> HIDE DEF r
  <2>2. /\ r \in Callbacks
        /\ r.a # Broken => /\ Checked(r.a) /\ Logged(r, tk, acc) /\ r.a.odometry = a.odometry
                           /\ r.a.contacts = a.contacts /\ r.a.lastContact = a.lastContact
    BY <1>1, <1>2, <1>3, <1>5, <2>1, ReleaseKeeps
  <2>3. r.a # Broken => Plain(r.a, tk) /\ r.a.odometry <= tk["odometry"]
    BY <1>2, <1>5, <2>2 DEF Plain, Joining
  <2>4. Fine(r, tk, acc)
    BY <2>2, <2>3 DEF Fine
  <2>5. QED
    BY <2>4 DEF r
<1>6. QED
  BY <1>4, <1>5

LEMMA LiveContactKeeps ==
    ASSUME NEW tk, Context(tk), tk = taken', CameraPairs(taken) = CameraPairs(tk),
           ~flight.support, NEW acc, NEW k, NEW tk0 \in [Streams -> Nat],
           k \in Callbacks, k.a # Broken, Checked(k.a), Logged(k, tk, acc), Plain(k.a, tk0),
           NEW t \in flight.legs, t > tk0["contact"], tk["contact"] = t,
           tk["odometry"] = tk0["odometry"],
           \A l \in flight.legs : l <= t => l <= tk0["contact"] \/ l = t
    PROVE  Fine(LiveContact(k, t, TRUE), tk, acc)
<1> DEFINE a == AcceptContact(k.a, t, TRUE)
           k1 == [k EXCEPT !.a = a]
           r == LiveContact(k, t, TRUE)
<1>1. r = ReleaseTruth(k1, CameraPairs(tk))
  BY DEF LiveContact
<1>2. a # Broken => Checked(a) /\ Plain(a, tk)
  <2> HIDE DEF a
  <2> SUFFICES ASSUME a # Broken PROVE Checked(a) /\ Plain(a, tk)
    OBVIOUS
  <2>1. QED
    BY ContactKeeps DEF a
<1>3. k1 \in Callbacks /\ k1.a = a /\ k1.n = k.n /\ k1.outs = k.outs
  <2>1. a \in Aggregators \cup {Broken}
    BY <1>2 DEF Checked
  <2> HIDE DEF a
  <2>2. QED
    BY <2>1 DEF Callbacks
<1> HIDE DEF a, k1
<1>4. CASE a = Broken
  <2>1. r = k1
    BY <1>1, <1>3, <1>4 DEF ReleaseTruth
  <2> HIDE DEF r
  <2>2. Fine(r, tk, acc)
    BY <1>3, <1>4, <2>1 DEF Fine
  <2>3. QED
    BY <2>2 DEF r
<1>5. CASE a # Broken
  <2>1. Logged(k1, tk, acc)
    BY <1>3 DEF Logged
  <2> HIDE DEF r
  <2>2. /\ r \in Callbacks
        /\ r.a # Broken => /\ Checked(r.a) /\ Logged(r, tk, acc) /\ r.a.odometry = a.odometry
                           /\ r.a.contacts = a.contacts /\ r.a.lastContact = a.lastContact
    BY <1>1, <1>2, <1>3, <1>5, <2>1, ReleaseKeeps
  <2>3. r.a # Broken => Plain(r.a, tk) /\ r.a.odometry <= tk["odometry"]
    BY <1>2, <1>5, <2>2 DEF Plain, Joining
  <2>4. Fine(r, tk, acc)
    BY <2>2, <2>3 DEF Fine
  <2>5. QED
    BY <2>4 DEF r
<1>6. QED
  BY <1>4, <1>5

\* The first fault keeps what was published.
LEMMA FailKeeps ==
    ASSUME AdapterInv, UNCHANGED <<flight, native, missed, gate, wanted>>,
           Context(taken'), \A r \in Streams : taken[r] <= taken'[r], AdapterFail
    PROVE  AdapterInv' /\ IsExtension(public.truths, public'.truths)
<1>1. /\ flight' = flight /\ native' = native /\ missed' = missed /\ gate' = gate /\ wanted' = wanted
      /\ adapterIs' = "faulted" /\ output' = FALSE /\ early' = early /\ public' = public
      /\ truth' = truth /\ truths' = truths
  BY DEF AdapterFail
<1>2. Faithful(public)'
  BY <1>1 DEF AdapterInv, Faithful, Honest, Touching
<1>3. ASSUME NEW c \in Cameras PROVE truths <= taken'[c]
  <2>1. truths \in Nat /\ truths <= taken[c] /\ c \in Streams /\ taken[c] <= taken'[c]
        /\ taken[c] \in Nat /\ taken'[c] \in Nat
    BY DEF AdapterInv, AdapterTypes, Context, Streams
  <2>2. QED
    BY <2>1
<1>4. Context(taken)'
  BY <1>1 DEF Context
<1>5. AdapterTypes'
  BY <1>1, <1>3, <1>4 DEF AdapterInv, AdapterTypes, PreZeroLimit
<1>6. IsExtension(public.truths, public.truths)
  <2>1. public.truths \in Seq([t : Nat, on : BOOLEAN, clock : Nat, overtaken : BOOLEAN])
    BY DEF AdapterInv, AdapterTypes, Context, PublicStates
  <2>2. QED
    BY <2>1, SubSeqFull DEF IsExtension
<1>7. QED
  BY <1>1, <1>2, <1>5, <1>6 DEF AdapterInv

\* What is on record stays so when time passes, more is missed or some of it is published.
LEMMA RecordStays ==
    ASSUME NEW P, NEW tk, NEW n, NEW acc, Recorded(P, tk, n, acc), public \in PublicStates,
           native \in Nat, native' \in Nat, native <= native', flight' = flight,
           missed \subseteq missed', public' = public \/ public' = P,
           Publish(public', early') = P, truths' = n, parcel'.accepted = acc,
           \A c \in Cameras : taken'[c] = tk[c],
           (\A m \in missed' : m[1] # "range") => taken'["range"] = tk["range"]
    PROVE  Recorded(Publish(public, early), taken, truths, parcel.accepted)'
<1>1. P \in PublicStates /\ P.clock \in Nat /\ P.clock <= native'
  BY DEF Recorded, PublicStates
<1>2. \A i \in DOMAIN P.truths : Honest(P.truths[i])'
  BY DEF Recorded, Honest, Touching
<1>3. IsExtension(public'.truths, P.truths)
  <2>1. CASE public' = public
    BY <2>1 DEF Recorded
  <2>2. CASE public' = P
    <3>1. P.truths \in Seq([t : Nat, on : BOOLEAN, clock : Nat, overtaken : BOOLEAN])
      BY <1>1 DEF PublicStates
    <3>2. QED
      BY <2>2, <3>1, SubSeqFull DEF IsExtension
  <2>3. QED
    BY <2>1, <2>2
<1>4. (\A m \in missed' : m[1] # "range") => P.count["range"] = taken'["range"]
  BY DEF Recorded
<1>5. QED
  BY <1>1, <1>2, <1>3, <1>4 DEF Recorded

\* What the aggregator, the tracker and the payload's tracker hold stays true.
LEMMA HoldingStays ==
    ASSUME NEW k, k.a # Broken, Fine(k, taken', parcel'.accepted), flight' = flight,
           missed' = missed, truth' = k.a, support' = k.s, truths' = k.n,
           Recorded(Publish(public, early), taken, truths, parcel.accepted)',
           early' \in Seq(Outs)
    PROVE  Fine(NewCallback, taken, parcel.accepted)'
<1> DEFINE new == [a |-> truth', s |-> support', n |-> truths', outs |-> <<>>]
<1>1. k \in Callbacks /\ Checked(k.a) /\ \A c \in Cameras : k.n <= taken'[c]
  BY DEF Fine, Logged
<1>2. new \in Callbacks
  <2>1. <<>> \in Seq(Outs)
    OBVIOUS
  <2>2. QED
    BY <1>1, <2>1 DEF Callbacks
<1>3. Checked(truth)'
  BY <1>1 DEF Checked, Honest, Touching
<1>4. truth'.odometry <= taken'["odometry"]
  BY DEF Fine
<1>5. IF flight'.support THEN Rests(truth)' /\ Carried(support, taken, parcel.accepted)'
      ELSE Plain(truth, taken)'
  BY DEF Fine, Rests, Carried, Weighed, Plain, Joining
<1>6. early' \o <<>> = early'
  OBVIOUS
<1>7. Logged(NewCallback, taken, parcel.accepted)'
  BY <1>1, <1>6 DEF Logged, NewCallback
<1>8. NewCallback' = new
  BY DEF NewCallback
<1>9. QED
  BY <1>2, <1>3, <1>4, <1>5, <1>7, <1>8 DEF Fine, NewCallback

\* The end of a callback that left sound things behind.
LEMMA FinishKeeps ==
    ASSUME AdapterInv, adapterIs = "working", UNCHANGED <<flight, native, missed, gate, wanted>>,
           Context(taken'), \A r \in Streams : taken[r] <= taken'[r],
           Followed(parcel, taken)',
           NEW k, Fine(k, taken', parcel'.accepted), FinishCallback(k)
    PROVE  AdapterInv' /\ IsExtension(public.truths, public'.truths)
<1> DEFINE P == Publish(public, early \o k.outs)
<1>1. /\ flight' = flight /\ native' = native /\ missed' = missed /\ gate' = gate /\ wanted' = wanted
  OBVIOUS
<1>2. CASE k.a = Broken
  BY <1>2, FailKeeps DEF FinishCallback
<1>3. CASE k.a # Broken
  <2>1. truth' = k.a /\ support' = k.s /\ truths' = k.n /\ Emit(k.outs, k.n)
    BY <1>3 DEF FinishCallback
  <2>2. /\ k \in Callbacks /\ Checked(k.a) /\ Recorded(P, taken', k.n, parcel'.accepted)
        /\ \A c \in Cameras : k.n <= taken'[c]
        /\ k.a.odometry <= taken'["odometry"]
    BY <1>3 DEF Fine, Logged
  <2>3. /\ k.outs \in Seq(Outs) /\ k.n \in Nat /\ public \in PublicStates /\ early \in Seq(Outs)
        /\ native \in Nat /\ flight \in Flights
    BY <2>2 DEF Callbacks, AdapterInv, AdapterTypes, Context
  <2>4. k.a.odometry \in Nat /\ taken'["odometry"] \in Nat /\ taken'["odometry"] <= native
    BY <2>2 DEF Checked, Aggregators, Context, Streams
  <2>5. /\ truth' \in Aggregators /\ truth'.odometry <= native
        /\ Len(truth'.completed) <= AdapterCapacity
        /\ truths' \in Nat /\ \A c \in Cameras : truths' <= taken'[c]
    BY <2>1, <2>2, <2>3, <2>4 DEF Checked
  <2>6. public.clock <= native /\ Len(early) <= PreZeroLimit /\ AtWork /\ Faithful(public)
    BY DEF AdapterInv, AdapterTypes
  <2>7. P \in PublicStates /\ P.clock <= native
    BY <2>2 DEF Recorded
  <2>8. Faithful(P)
    <3> SUFFICES ASSUME NEW i \in DOMAIN P.truths
                 PROVE  /\ P.truths[i].t = i /\ P.truths[i].clock >= i /\ Honest(P.truths[i])
                        /\ \A c \in Cameras : P.count[c] >= i
      BY DEF Faithful
    <3> HIDE DEF P
    <3>1. i \in 1 .. k.n
      <4>1. P.truths \in Seq([t : Nat, on : BOOLEAN, clock : Nat, overtaken : BOOLEAN])
        BY <2>7 DEF PublicStates
      <4>2. Len(P.truths) = k.n
        BY <2>2 DEF Recorded
      <4>3. QED
        BY <4>1, <4>2
    <3>2. ASSUME NEW c \in Cameras PROVE P.count[c] >= i
      <4>1. P.count[c] = taken'[c] /\ k.n <= taken'[c] /\ taken'[c] \in Nat
        BY <2>2 DEF Recorded, Context, Streams
      <4>2. QED
        BY <2>3, <3>1, <4>1
    <3>3. QED
      BY <2>2, <3>2 DEF Recorded
  <2>9. IsExtension(public.truths, P.truths) /\ IsExtension(public.truths, public.truths)
    <3>1. public.truths \in Seq([t : Nat, on : BOOLEAN, clock : Nat, overtaken : BOOLEAN])
      BY <2>3 DEF PublicStates
    <3>2. QED
      BY <2>2, <3>1, SubSeqFull DEF IsExtension, Recorded
  <2>10. ASSUME early' \in Seq(Outs), Len(early') <= PreZeroLimit, output' \in BOOLEAN,
                public' = public \/ public' = P,
                adapterIs' \in {"working", "faulted", "complete"}
         PROVE  /\ AdapterTypes'
                /\ Faithful(public)'
                /\ IsExtension(public.truths, public'.truths)
    <3> HIDE DEF P
    <3>1. public' \in PublicStates /\ public'.clock <= native
      BY <2>3, <2>6, <2>7, <2>10
    <3>2. Context(taken)'
      BY <1>1, <2>3, <2>10, <3>1 DEF Context
    <3>3. Faithful(public)'
      <4>1. CASE public' = public
        BY <1>1, <2>6, <4>1 DEF Faithful, Honest, Touching
      <4>2. CASE public' = P
        BY <1>1, <2>8, <4>2 DEF Faithful, Honest, Touching
      <4>3. QED
        BY <2>10, <4>1, <4>2
    <3>4. AdapterTypes'
      BY <1>1, <2>5, <2>10, <3>1, <3>2 DEF AdapterInv, AdapterTypes, PreZeroLimit
    <3>5. QED
      BY <2>9, <2>10, <3>3, <3>4
  <2>11. ASSUME early' \in Seq(Outs), public' = public \/ public' = P, Publish(public', early') = P
         PROVE  Fine(NewCallback, taken, parcel.accepted)'
    <3> HIDE DEF P
    <3>1. Recorded(Publish(public, early), taken, truths, parcel.accepted)'
      BY <1>1, <2>1, <2>2, <2>3, <2>11, RecordStays
    <3>2. QED
      BY <1>1, <1>3, <2>1, <2>11, <3>1, HoldingStays
  <2>12. CASE k.outs = <<>>
    <3>1. UNCHANGED <<early, public, output, adapterIs>>
      BY <2>1, <2>12 DEF Emit
    <3>2. P = Publish(public, early)
      BY <2>3, <2>12
    <3> HIDE DEF P
    <3>3. Fine(NewCallback, taken, parcel.accepted)'
      BY <2>3, <2>11, <3>1, <3>2
    <3>4. AtWork'
      BY <1>1, <2>6, <3>1, <3>3 DEF AtWork
    <3>5. AdapterTypes' /\ Faithful(public)' /\ IsExtension(public.truths, public'.truths)
      <4>1. output' \in BOOLEAN
        BY <3>1 DEF AdapterInv, AdapterTypes
      <4>2. QED
        BY <2>3, <2>6, <2>10, <3>1, <4>1
    <3>6. adapterIs' = "working"
      BY <3>1
    <3>7. QED
      BY <3>4, <3>5, <3>6 DEF AdapterInv
  <2>13. CASE k.outs # <<>> /\ output
    <3>1. /\ public' = Publish(public, k.outs) /\ early' = early
          /\ adapterIs' = (IF EverythingOut(k.n) THEN "complete" ELSE "working")
          /\ output' = ~EverythingOut(k.n)
      BY <2>1, <2>13 DEF Emit
    <3>2. early = <<>> /\ gate = "latched" /\ wanted
      BY <2>6, <2>13 DEF AtWork
    <3>3. public' = P
      BY <2>3, <3>1, <3>2
    <3>4. output' \in BOOLEAN /\ Publish(public', early') = P
      BY <3>1, <3>2, <3>3, PublishNothing
    <3> HIDE DEF P
    <3>5. Fine(NewCallback, taken, parcel.accepted)'
      BY <2>3, <2>11, <3>1, <3>3, <3>4
    <3>6. AdapterTypes' /\ Faithful(public)' /\ IsExtension(public.truths, public'.truths)
      BY <2>3, <2>6, <2>10, <3>1, <3>3, <3>4
    <3>7. adapterIs' = "working" => AtWork'
      BY <1>1, <3>1, <3>2, <3>5 DEF AtWork
    <3>8. adapterIs' = "complete" => AllOut'
      <4> SUFFICES ASSUME EverythingOut(k.n) PROVE AllOut'
        BY <3>1
      <4>1. /\ \A c \in Cameras : taken'[c] = flight.frames
            /\ k.n = flight.frames
            /\ flight.competition =>
                 taken'["range"] = flight.frames /\ parcel'.accepted = flight.frames
                 /\ \A m \in missed : m[1] # "range"
        BY DEF EverythingOut
      <4>2. /\ Len(P.truths) = k.n /\ \A c \in Cameras : P.count[c] = taken'[c]
            /\ P.count["parcel"] = parcel'.accepted
            /\ (\A m \in missed : m[1] # "range") => P.count["range"] = taken'["range"]
        BY <2>2 DEF Recorded
      <4>3. QED
        BY <1>1, <3>1, <3>2, <3>3, <4>1, <4>2 DEF AllOut
    <3>9. QED
      BY <3>6, <3>7, <3>8 DEF AdapterInv
  <2>14. CASE k.outs # <<>> /\ ~output /\ Len(early) + Len(k.outs) > PreZeroLimit
    <3>1. adapterIs' = "faulted" /\ UNCHANGED <<early, public, output>>
      BY <2>1, <2>14 DEF Emit
    <3> HIDE DEF P
    <3>2. AdapterTypes' /\ Faithful(public)' /\ IsExtension(public.truths, public'.truths)
      <4>1. output' \in BOOLEAN
        BY <3>1 DEF AdapterInv, AdapterTypes
      <4>2. QED
        BY <2>3, <2>6, <2>10, <3>1, <4>1
    <3>3. QED
      BY <3>1, <3>2 DEF AdapterInv
  <2>15. CASE k.outs # <<>> /\ ~output /\ ~ (Len(early) + Len(k.outs) > PreZeroLimit)
    <3>1. early' = early \o k.outs /\ UNCHANGED <<public, output, adapterIs>>
      BY <2>1, <2>15 DEF Emit
    <3>2. early' \in Seq(Outs) /\ Len(early') <= PreZeroLimit /\ Publish(public', early') = P
      <4>1. early \o k.outs \in Seq(Outs) /\ Len(early \o k.outs) = Len(early) + Len(k.outs)
        BY <2>3
      <4>2. PreZeroLimit \in Nat
        BY DEF PreZeroLimit
      <4>3. QED
        BY <2>3, <2>15, <3>1, <4>1, <4>2
    <3> HIDE DEF P
    <3>3. Fine(NewCallback, taken, parcel.accepted)'
      BY <2>11, <3>1, <3>2
    <3>4. AtWork'
      BY <1>1, <2>6, <2>15, <3>1, <3>3 DEF AtWork
    <3>5. AdapterTypes' /\ Faithful(public)' /\ IsExtension(public.truths, public'.truths)
      <4>1. output' \in BOOLEAN
        BY <3>1 DEF AdapterInv, AdapterTypes
      <4>2. QED
        BY <2>10, <3>1, <3>2, <4>1
    <3>6. QED
      BY <3>1, <3>4, <3>5 DEF AdapterInv
  <2>16. QED
    BY <2>12, <2>13, <2>14, <2>15
<1>4. QED
  BY <1>2, <1>3

\* What a callback starts from.
LEMMA StartsFrom ==
    ASSUME AdapterInv, adapterIs = "working"
    PROVE  /\ Context(taken) /\ NewCallback \in Callbacks /\ NewCallback.a = truth
           /\ NewCallback.s = support /\ NewCallback.n = truths /\ NewCallback.outs = <<>>
           /\ truth # Broken /\ Checked(truth) /\ truth.odometry <= taken["odometry"]
           /\ Logged(NewCallback, taken, parcel.accepted)
           /\ support \in SupportStates /\ parcel \in ParcelTrackers /\ parcel.accepted \in Nat
           /\ flight.support => Rests(truth) /\ Carried(support, taken, parcel.accepted)
           /\ ~flight.support => Plain(truth, taken)
<1>1. Context(taken) /\ truth \in Aggregators /\ Fine(NewCallback, taken, parcel.accepted)
      /\ Followed(parcel, taken)
  BY DEF AdapterInv, AdapterTypes, AtWork
<1>2. /\ NewCallback \in Callbacks /\ NewCallback.a = truth /\ NewCallback.s = support
      /\ NewCallback.n = truths /\ NewCallback.outs = <<>>
  BY <1>1 DEF Fine, NewCallback
<1>3. truth # Broken
  BY <1>1, NotBroken
<1>4. support \in SupportStates /\ parcel \in ParcelTrackers /\ parcel.accepted \in Nat
  BY <1>1, <1>2 DEF Callbacks, Followed, ParcelTrackers
<1>5. QED
  BY <1>1, <1>2, <1>3, <1>4 DEF Fine

\* What stream s takes changes nothing of the others.
LEMMA TakenMoves ==
    ASSUME AdapterInv, NEW s \in Streams, TakeFrom(s)
    PROVE  /\ adapterIs = "working" /\ Context(taken')
           /\ NextStamp(s) # 0 /\ NextStamp(s) \in Nat
           /\ taken'[s] = NextStamp(s) /\ taken[s] < taken'[s] /\ taken'[s] <= native
           /\ \A r \in Streams \ {s} : taken'[r] = taken[r]
           /\ \A r \in Streams : taken[r] <= taken'[r]
           /\ UNCHANGED <<flight, native, missed, gate, wanted>>
<1>1. Context(taken) /\ NextStamp(s) # 0 /\ taken' = [taken EXCEPT ![s] = NextStamp(s)]
  BY DEF AdapterInv, AdapterTypes, TakeFrom
<1>2. NextStamp(s) \in Nat /\ taken[s] < NextStamp(s) /\ NextStamp(s) <= native
  BY <1>1, NextStampIs
<1>3. /\ Context(taken') /\ taken'[s] = NextStamp(s) /\ \A r \in Streams \ {s} : taken'[r] = taken[r]
      /\ \A r \in Streams : taken[r] <= taken'[r]
  BY <1>1, ContextMoves
<1>4. QED
  BY <1>1, <1>2, <1>3 DEF TakeFrom

\* The record is one of frames and ranges; what waits to be joined is odometry and contact.
LEMMA OthersMove ==
    ASSUME NEW tk, NEW tk2, NEW acc
    PROVE  /\ (\A c \in Cameras \cup {"range"} : tk2[c] = tk[c])
                => \A k : Logged(k, tk, acc) => Logged(k, tk2, acc)
           /\ tk2["odometry"] = tk["odometry"] /\ tk2["contact"] = tk["contact"]
                => /\ \A a : Plain(a, tk) => Plain(a, tk2)
                   /\ \A s : Carried(s, tk, acc) => Carried(s, tk2, acc)
<1>1. (\A c \in Cameras \cup {"range"} : tk2[c] = tk[c])
        => \A k : Logged(k, tk, acc) => Logged(k, tk2, acc)
  BY DEF Logged, Recorded
<1>2. tk2["odometry"] = tk["odometry"] /\ tk2["contact"] = tk["contact"]
        => /\ \A a : Plain(a, tk) => Plain(a, tk2)
           /\ \A s : Carried(s, tk, acc) => Carried(s, tk2, acc)
  BY DEF Plain, Joining, Carried
<1>3. QED
  BY <1>1, <1>2

LEMMA FollowedMoves ==
    ASSUME Followed(parcel, taken), parcel' = parcel, missed' = missed,
           taken'["pose"] = taken["pose"], taken'["floor"] = taken["floor"]
    PROVE  Followed(parcel, taken)'
BY DEF Followed

\* A frame or a range is the only output so far.
LEMMA SampleOut ==
    ASSUME AdapterInv, NEW s \in Cameras \cup {"range"}, TakeFrom(s)
    PROVE  LET k == [NewCallback EXCEPT !.outs = <<[kind |-> s, t |-> taken'[s]]>>] IN
           /\ k \in Callbacks /\ k.a = truth /\ k.s = support /\ k.n = truths
           /\ Logged(k, taken', parcel.accepted)
<1> DEFINE o == [kind |-> s, t |-> taken'[s]]
           k == [NewCallback EXCEPT !.outs = <<o>>]
           P == Publish(public, early \o <<>>)
<1>1. s \in Streams /\ s # "contact" /\ s \in Kinds /\ s # "parcel"
  BY DEF Streams, Cameras, Kinds
<1>2. /\ adapterIs = "working" /\ Context(taken) /\ Context(taken') /\ taken'[s] <= native
      /\ taken'[s] = taken[s] + 1 /\ \A r \in Streams \ {s} : taken'[r] = taken[r]
  BY <1>1, TakenMoves, NextStampIs DEF AdapterInv, AdapterTypes
<1>3. /\ NewCallback \in Callbacks /\ NewCallback.a = truth /\ NewCallback.s = support
      /\ NewCallback.n = truths /\ NewCallback.outs = <<>>
      /\ Logged(NewCallback, taken, parcel.accepted) /\ parcel.accepted \in Nat /\ truths \in Nat
  BY <1>2, StartsFrom DEF AdapterInv, AdapterTypes
<1>4. taken'[s] \in Nat /\ taken \in [Streams -> Nat] /\ taken' \in [Streams -> Nat] /\ native \in Nat
  BY <1>1, <1>2 DEF Context
<1>5. o \in Outs
  BY <1>1, <1>4 DEF Outs
<1>6. Append(NewCallback.outs, o) = <<o>>
  BY <1>3
<1>7. k \in Callbacks /\ k.a = truth /\ k.s = support /\ k.n = truths /\ k.outs = <<o>>
  <2>1. <<o>> \in Seq(Outs)
    BY <1>5
  <2> HIDE DEF o
  <2>2. QED
    BY <1>3, <2>1 DEF Callbacks
<1>8. Publish(public, early \o <<o>>) = PublishOne(P, o)
  <2> HIDE DEF o
  <2>1. Publish(public, early \o Append(NewCallback.outs, o))
          = PublishOne(Publish(public, early \o NewCallback.outs), o)
    BY <1>2, <1>3, <1>5, OneMore
  <2>2. QED
    BY <1>3, <1>6, <2>1
<1>9. Recorded(P, taken, truths, parcel.accepted) /\ \A c \in Cameras : truths <= taken[c]
  BY <1>3 DEF Logged
<1>10. /\ \A c \in Cameras : taken'[c] = IF s = c THEN taken[c] + 1 ELSE taken[c]
       /\ taken'["range"] = IF s = "range" THEN taken["range"] + 1 ELSE taken["range"]
  BY <1>2 DEF Streams
<1> DEFINE acc == parcel.accepted  t == taken'[s]  tk == taken  tk2 == taken'  n == truths
<1>11. Recorded(PublishOne(P, [kind |-> s, t |-> t]), tk2, n, acc)
  <2>1. /\ Recorded(P, tk, n, acc) /\ tk \in [Streams -> Nat] /\ tk2 \in [Streams -> Nat]
        /\ n \in Nat /\ acc \in Nat /\ t \in Nat /\ t <= native /\ t = tk2[s]
        /\ \A c \in Cameras : tk2[c] = IF s = c THEN tk[c] + 1 ELSE tk[c]
        /\ tk2["range"] = IF s = "range" THEN tk["range"] + 1 ELSE tk["range"]
        /\ acc = IF s = "parcel" THEN acc + 1 ELSE acc
    BY <1>1, <1>2, <1>3, <1>4, <1>9, <1>10
  <2> HIDE DEF P, acc, t, tk, tk2, n
  <2>2. QED
    BY <1>1, <1>4, <2>1, SampleRecorded
<1>12. \A c \in Cameras : truths <= taken'[c]
  <2> TAKE c \in Cameras
  <2>1. truths <= taken[c] /\ taken[c] \in Nat
    BY <1>4, <1>9 DEF Streams
  <2>2. QED
    BY <1>3, <1>10, <2>1
<1> HIDE DEF k, P
<1>13. Logged(k, taken', parcel.accepted)
  BY <1>7, <1>8, <1>11, <1>12 DEF Logged
<1>14. QED
  BY <1>7, <1>13 DEF k

LEMMA TakeImageKeeps ==
    ASSUME AdapterInv, NEW c \in Cameras, TakeImage(c)
    PROVE  AdapterInv' /\ IsExtension(public.truths, public'.truths)
<1> DEFINE k == [NewCallback EXCEPT !.outs = <<[kind |-> c, t |-> taken'[c]]>>]
           r == ReleaseTruth(k, CameraPairs(taken'))
<1>1. TakeFrom(c) /\ c \in Streams /\ parcel' = parcel
  BY DEF TakeImage, Streams
<1>2. /\ adapterIs = "working" /\ Context(taken') /\ \A s \in Streams : taken[s] <= taken'[s]
      /\ UNCHANGED <<flight, native, missed, gate, wanted>>
      /\ \A s \in Streams \ {c} : taken'[s] = taken[s]
  BY <1>1, TakenMoves
<1>3. CASE AdapterFail
  BY <1>2, <1>3, FailKeeps
<1>4. CASE FinishCallback(r)
  <2>1. /\ Checked(truth) /\ truth.odometry <= taken["odometry"]
        /\ flight.support => Rests(truth) /\ Carried(support, taken, parcel.accepted)
        /\ ~flight.support => Plain(truth, taken)
    BY <1>2, StartsFrom
  <2>2. /\ k \in Callbacks /\ k.a = truth /\ k.s = support /\ k.n = truths
        /\ Logged(k, taken', parcel.accepted)
    BY <1>1, SampleOut
  <2>3. /\ taken'["odometry"] = taken["odometry"] /\ taken'["contact"] = taken["contact"]
        /\ taken'["pose"] = taken["pose"] /\ taken'["floor"] = taken["floor"]
    BY <1>2 DEF Streams, ParcelStreams, Cameras
  <2>4. /\ flight.support => Carried(support, taken', parcel.accepted)
        /\ ~flight.support => Plain(truth, taken')
    BY <2>1, <2>3, OthersMove
  <2> HIDE DEF k
  <2>5. /\ r \in Callbacks /\ r.s = k.s
        /\ r.a # Broken => /\ Checked(r.a) /\ Logged(r, taken', parcel.accepted)
                           /\ r.a.odometry = k.a.odometry /\ r.a.contacts = k.a.contacts
                           /\ r.a.lastContact = k.a.lastContact
    BY <1>2, <2>1, <2>2, ReleaseKeeps
  <2> HIDE DEF r
  <2>6. Fine(r, taken', parcel'.accepted)
    <3>1. r.a # Broken => IF flight.support THEN Rests(r.a) /\ Carried(r.s, taken', parcel.accepted)
                          ELSE Plain(r.a, taken')
      BY <2>1, <2>2, <2>4, <2>5 DEF Rests, Plain, Joining
    <3>2. QED
      BY <1>1, <2>1, <2>2, <2>3, <2>5, <3>1 DEF Fine
  <2>7. Followed(parcel, taken)'
    BY <1>1, <1>2, <2>3, FollowedMoves DEF AdapterInv, AtWork
  <2>8. QED
    BY <1>2, <1>4, <2>6, <2>7, FinishKeeps
<1>5. QED
  BY <1>3, <1>4 DEF TakeImage

LEMMA TakeRangeKeeps ==
    ASSUME AdapterInv, TakeRange
    PROVE  AdapterInv' /\ IsExtension(public.truths, public'.truths)
<1> DEFINE k == [NewCallback EXCEPT !.outs = <<[kind |-> "range", t |-> taken'["range"]]>>]
<1>1. TakeFrom("range") /\ "range" \in Streams /\ parcel' = parcel
  BY DEF TakeRange, Streams
<1>2. /\ adapterIs = "working" /\ Context(taken') /\ \A s \in Streams : taken[s] <= taken'[s]
      /\ UNCHANGED <<flight, native, missed, gate, wanted>>
      /\ \A s \in Streams \ {"range"} : taken'[s] = taken[s]
  BY <1>1, TakenMoves
<1>3. CASE AdapterFail
  BY <1>2, <1>3, FailKeeps
<1>4. CASE FinishCallback(k)
  <2>1. /\ Checked(truth) /\ truth.odometry <= taken["odometry"]
        /\ flight.support => Rests(truth) /\ Carried(support, taken, parcel.accepted)
        /\ ~flight.support => Plain(truth, taken)
    BY <1>2, StartsFrom
  <2>2. /\ k \in Callbacks /\ k.a = truth /\ k.s = support /\ k.n = truths
        /\ Logged(k, taken', parcel.accepted)
    BY <1>1, SampleOut
  <2>3. /\ taken'["odometry"] = taken["odometry"] /\ taken'["contact"] = taken["contact"]
        /\ taken'["pose"] = taken["pose"] /\ taken'["floor"] = taken["floor"]
    BY <1>2 DEF Streams, ParcelStreams, Cameras
  <2>4. /\ flight.support => Carried(support, taken', parcel.accepted)
        /\ ~flight.support => Plain(truth, taken')
    BY <2>1, <2>3, OthersMove
  <2> HIDE DEF k
  <2>5. Fine(k, taken', parcel'.accepted)
    BY <1>1, <2>1, <2>2, <2>3, <2>4 DEF Fine
  <2>6. Followed(parcel, taken)'
    BY <1>1, <1>2, <2>3, FollowedMoves DEF AdapterInv, AtWork
  <2>7. QED
    BY <1>2, <1>4, <2>5, <2>6, FinishKeeps
<1>5. QED
  BY <1>3, <1>4 DEF TakeRange

LEMMA TakeOdometryKeeps ==
    ASSUME AdapterInv, TakeOdometry
    PROVE  AdapterInv' /\ IsExtension(public.truths, public'.truths)
<1> DEFINE t == NextStamp("odometry")
           k1 == [NewCallback EXCEPT !.s.odometry = @ \cup {t}, !.s.lastOdometry = t]
           k == IF flight.support THEN DrainSupport(k1) ELSE LiveOdometry(NewCallback, t)
<1>1. TakeFrom("odometry") /\ "odometry" \in Streams /\ parcel' = parcel /\ FinishCallback(k)
  BY DEF TakeOdometry, Streams
<1>2. /\ adapterIs = "working" /\ Context(taken') /\ \A s \in Streams : taken[s] <= taken'[s]
      /\ UNCHANGED <<flight, native, missed, gate, wanted>>
      /\ \A s \in Streams \ {"odometry"} : taken'[s] = taken[s]
      /\ t \in Nat /\ taken'["odometry"] = t /\ taken["odometry"] < t /\ Context(taken)
  BY <1>1, TakenMoves DEF AdapterInv, AdapterTypes
<1>3. /\ \A c \in Cameras \cup {"range"} : taken'[c] = taken[c]
      /\ taken'["contact"] = taken["contact"] /\ taken'["pose"] = taken["pose"]
      /\ taken'["floor"] = taken["floor"] /\ CameraPairs(taken) = CameraPairs(taken')
  BY <1>2 DEF Streams, ParcelStreams, Cameras, CameraPairs
<1>4. /\ NewCallback \in Callbacks /\ NewCallback.a = truth /\ NewCallback.s = support
      /\ NewCallback.n = truths /\ truth # Broken /\ Checked(truth)
      /\ Logged(NewCallback, taken', parcel.accepted)
      /\ support \in SupportStates /\ parcel.accepted \in Nat
      /\ flight.support => Rests(truth) /\ Carried(support, taken, parcel.accepted)
      /\ ~flight.support => Plain(truth, taken)
  BY <1>2, <1>3, StartsFrom, OthersMove
<1>5. Followed(parcel, taken)'
  BY <1>1, <1>2, <1>3, FollowedMoves DEF AdapterInv, AtWork
<1>6. Fine(k, taken', parcel'.accepted)
  <2>1. CASE flight.support
    <3> DEFINE s1 == [support EXCEPT !.odometry = @ \cup {t}, !.lastOdometry = t]
    <3>1. /\ s1 \in SupportStates /\ s1.legs = support.legs /\ s1.lastLeg = support.lastLeg
          /\ s1.parcel = support.parcel /\ s1.lastOdometry = t
      BY <1>2, <1>4 DEF SupportStates
    <3>2. /\ k1 \in Callbacks /\ k1.s = s1 /\ k1.a = truth /\ k1.n = truths
          /\ k1.outs = NewCallback.outs
      <4>1. k1 = [NewCallback EXCEPT !.s = s1]
        BY <1>4 DEF Callbacks
      <4> HIDE DEF s1, k1
      <4>2. QED
        BY <1>4, <3>1, <4>1 DEF Callbacks
    <3> HIDE DEF s1, k1
    <3>3. Carried(s1, taken', parcel.accepted)
      <4>1. t <= taken'["odometry"]
        BY <1>2
      <4>2. QED
        BY <1>3, <1>4, <2>1, <3>1, <4>1 DEF Carried
    <3>4. Sound(k1, taken', parcel.accepted)
      BY <1>4, <2>1, <3>2 DEF Sound, Logged
    <3> DEFINE r == DrainSupport(k1)
    <3>5. /\ r \in Callbacks /\ Sound(r, taken', parcel.accepted)
          /\ r.a # Broken => Carried(r.s, taken', parcel.accepted)
      BY <1>2, <1>3, <1>4, <2>1, <3>2, <3>3, <3>4, DrainKeeps
    <3>6. k = r
      BY <2>1
    <3> HIDE DEF r, k
    <3>7. r.a # Broken => r.a.odometry <= taken'["odometry"]
      BY <1>2, <3>5 DEF Sound, Rests
    <3>8. QED
      BY <1>1, <2>1, <3>5, <3>6, <3>7 DEF Fine, Sound
  <2>2. CASE ~flight.support
    <3>1. taken \in [Streams -> Nat] /\ t > taken["odometry"]
      BY <1>2 DEF Context, Streams
    <3>2. Fine(LiveOdometry(NewCallback, t), taken', parcel.accepted)
      <4> HIDE DEF t
      <4>1. QED
        BY <1>2, <1>3, <1>4, <2>2, <3>1, LiveOdometryKeeps
    <3>3. QED
      BY <1>1, <2>2, <3>2
  <2>3. QED
    BY <2>1, <2>2
<1> HIDE DEF k
<1>7. QED
  BY <1>1, <1>2, <1>5, <1>6, FinishKeeps

LEMMA TakeContactKeeps ==
    ASSUME AdapterInv, TakeContact
    PROVE  AdapterInv' /\ IsExtension(public.truths, public'.truths)
<1> DEFINE t == NextStamp("contact")
           k1 == [NewCallback EXCEPT !.s.legs = @ \cup {t}, !.s.lastLeg = t]
           k == IF flight.support THEN DrainSupport(k1) ELSE LiveContact(NewCallback, t, TRUE)
<1>1. TakeFrom("contact") /\ "contact" \in Streams /\ parcel' = parcel /\ FinishCallback(k)
  BY DEF TakeContact, Streams
<1>2. /\ adapterIs = "working" /\ Context(taken') /\ \A s \in Streams : taken[s] <= taken'[s]
      /\ UNCHANGED <<flight, native, missed, gate, wanted>>
      /\ \A s \in Streams \ {"contact"} : taken'[s] = taken[s]
      /\ t \in Nat /\ t # 0 /\ taken'["contact"] = t /\ taken["contact"] < t /\ Context(taken)
  BY <1>1, TakenMoves DEF AdapterInv, AdapterTypes
<1>3. /\ \A c \in Cameras \cup {"range"} : taken'[c] = taken[c]
      /\ taken'["odometry"] = taken["odometry"] /\ taken'["pose"] = taken["pose"]
      /\ taken'["floor"] = taken["floor"] /\ CameraPairs(taken) = CameraPairs(taken')
  BY <1>2 DEF Streams, ParcelStreams, Cameras, CameraPairs
<1>4. /\ NewCallback \in Callbacks /\ NewCallback.a = truth /\ NewCallback.s = support
      /\ NewCallback.n = truths /\ truth # Broken /\ Checked(truth)
      /\ Logged(NewCallback, taken', parcel.accepted)
      /\ support \in SupportStates /\ parcel.accepted \in Nat
      /\ flight.support => Rests(truth) /\ Carried(support, taken, parcel.accepted)
      /\ ~flight.support => Plain(truth, taken)
  BY <1>2, <1>3, StartsFrom, OthersMove
<1>5. Followed(parcel, taken)'
  BY <1>1, <1>2, <1>3, FollowedMoves DEF AdapterInv, AtWork
<1>6. t \in flight.legs /\ \A l \in flight.legs : l <= t => l <= taken["contact"] \/ l = t
  <2>1. /\ Sent("contact", t)
        /\ \A u \in Nat : taken["contact"] < u /\ u < t => ~Sent("contact", u)
    BY <1>1, <1>2, NextStampIs
  <2>2. flight.legs \subseteq Nat /\ taken["contact"] \in Nat
    BY <1>2, FlightTypes DEF Context, Streams
  <2> HIDE DEF t
  <2>3. QED
    BY <1>2, <2>1, <2>2 DEF Sent
<1> HIDE DEF t
<1>7. Fine(k, taken', parcel'.accepted)
  <2>1. CASE flight.support
    <3> DEFINE s1 == [support EXCEPT !.legs = @ \cup {t}, !.lastLeg = t]
    <3>1. /\ s1 \in SupportStates /\ s1.legs = support.legs \cup {t} /\ s1.lastLeg = t
          /\ s1.parcel = support.parcel /\ s1.lastOdometry = support.lastOdometry
      BY <1>2, <1>4 DEF SupportStates
    <3>2. /\ k1 \in Callbacks /\ k1.s = s1 /\ k1.a = truth /\ k1.n = truths
          /\ k1.outs = NewCallback.outs
      <4>1. k1 = [NewCallback EXCEPT !.s = s1]
        BY <1>4 DEF Callbacks
      <4> HIDE DEF s1, k1
      <4>2. QED
        BY <1>4, <3>1, <4>1 DEF Callbacks
    <3> HIDE DEF s1, k1
    <3>3. Carried(s1, taken', parcel.accepted)
      <4>1. Carried(support, taken, parcel.accepted)
        BY <1>4, <2>1
      <4>2. s1.legs \subseteq flight.legs /\ s1.lastLeg <= taken'["contact"]
            /\ s1.lastOdometry <= taken'["odometry"]
        BY <1>2, <1>3, <1>6, <3>1, <4>1 DEF Carried
      <4>3. ASSUME NEW l \in flight.legs, l <= taken'["contact"], <<"contact", l>> \notin missed
            PROVE  \/ l \in s1.legs
                   \/ l <= parcel.accepted /\ \A i \in DOMAIN s1.parcel : l < s1.parcel[i].t
        <5>1. CASE l = t
          BY <3>1, <5>1
        <5>2. CASE l <= taken["contact"]
          BY <3>1, <4>1, <4>3, <5>2 DEF Carried
        <5>3. QED
          BY <1>2, <1>6, <4>3, <5>1, <5>2
      <4>4. QED
        BY <3>1, <4>1, <4>2, <4>3 DEF Carried
    <3>4. Sound(k1, taken', parcel.accepted)
      BY <1>4, <2>1, <3>2 DEF Sound, Logged
    <3> DEFINE r == DrainSupport(k1)
    <3>5. /\ r \in Callbacks /\ Sound(r, taken', parcel.accepted)
          /\ r.a # Broken => Carried(r.s, taken', parcel.accepted)
      BY <1>2, <1>3, <1>4, <2>1, <3>2, <3>3, <3>4, DrainKeeps
    <3>6. k = r
      BY <2>1
    <3> HIDE DEF r, k
    <3>7. r.a # Broken => r.a.odometry <= taken'["odometry"]
      BY <1>2, <3>5 DEF Sound, Rests, Context, Streams
    <3>8. QED
      BY <1>1, <2>1, <3>5, <3>6, <3>7 DEF Fine, Sound
  <2>2. CASE ~flight.support
    <3>1. taken \in [Streams -> Nat] /\ t > taken["contact"]
      BY <1>2 DEF Context, Streams
    <3>2. Fine(LiveContact(NewCallback, t, TRUE), taken', parcel.accepted)
      BY <1>2, <1>3, <1>4, <1>6, <2>2, <3>1, LiveContactKeeps
    <3>3. QED
      BY <1>1, <2>2, <3>2
  <2>3. QED
    BY <2>1, <2>2
<1> HIDE DEF k
<1>8. QED
  BY <1>1, <1>2, <1>5, <1>7, FinishKeeps

-----------------------------------------------------------------------------
(* The states of the payload. *)

\* The loop of PayloadTracker._drain.
ParcelLoop(f, x, p, n) ==
    f = [i \in 0 .. n |-> IF i = 0 THEN x ELSE AcceptParcel(f[i - 1], p, p.accepted + i)]

LEMMA ParcelRounds ==
    ASSUME NEW x, NEW p, NEW n \in Nat
    PROVE  \E f : ParcelLoop(f, x, p, n)
<1> DEFINE Is(f, m) == f = [i \in 0 .. m |->
                              IF i = 0 THEN x ELSE AcceptParcel(f[i - 1], p, p.accepted + i)]
           S == {m \in 0 .. n : \E f : Is(f, m)}
<1>1. 0 \in S
  <2>1. Is([i \in 0 .. 0 |-> x], 0)
    OBVIOUS
  <2>2. 0 \in 0 .. n
    OBVIOUS
  <2> HIDE DEF Is
  <2>3. QED
    BY <2>1, <2>2
<1>2. ASSUME NEW m \in 0 .. n - 1, m \in S PROVE m + 1 \in S
  <2>1. PICK f : Is(f, m)
    BY <1>2
  <2> DEFINE g == [i \in 0 .. m + 1 |->
                     IF i <= m THEN f[i] ELSE AcceptParcel(f[m], p, p.accepted + (m + 1))]
  <2>2. ASSUME NEW i \in 0 .. m + 1
        PROVE  g[i] = IF i = 0 THEN x ELSE AcceptParcel(g[i - 1], p, p.accepted + i)
    <3>1. CASE i <= m
      <4>1. f[i] = IF i = 0 THEN x ELSE AcceptParcel(f[i - 1], p, p.accepted + i)
        BY <2>1, <3>1
      <4>2. i # 0 => g[i - 1] = f[i - 1]
        BY <3>1
      <4>3. QED
        BY <3>1, <4>1, <4>2
    <3>2. CASE i = m + 1
      <4>1. g[i - 1] = f[m] /\ i # 0
        BY <3>2
      <4>2. QED
        BY <3>2, <4>1
    <3>3. QED
      BY <3>1, <3>2
  <2>3. Is(g, m + 1)
    BY <2>2
  <2>4. m + 1 \in 0 .. n
    OBVIOUS
  <2> HIDE DEF Is, g
  <2>5. QED
    BY <2>3, <2>4
<1>3. n \in S
  <2> HIDE DEF S
  <2>1. \A i \in 0 .. n : i \in S
    BY <1>1, <1>2, Rounds
  <2>2. QED
    BY <2>1
<1>4. QED
  BY <1>3 DEF ParcelLoop

\* The state of the payload is that of its epoch, unless its contact was lost.
LEMMA StateIsWeighed ==
    ASSUME NEW tk, Context(tk), NEW p \in ParcelTrackers, NEW t \in Nat, t # 0,
           ParcelReady(p, t), p.floor \subseteq 1 .. tk["floor"],
           \A u \in 1 .. tk["floor"] : u \in p.floor \/ <<"floor", u>> \in missed
    PROVE  Weighed([t |-> t, on |-> Supports(p, t)])
<1> DEFINE on == Supports(p, t)
           e == [t |-> t, on |-> on]
<1>1. t \notin p.floor => <<"floor", t>> \in missed
  <2> SUFFICES ASSUME t \notin p.floor PROVE <<"floor", t>> \in missed
    OBVIOUS
  <2>1. PICK u \in p.floor : u > t
    BY DEF ParcelReady
  <2>2. tk["floor"] \in Nat /\ u \in 1 .. tk["floor"]
    BY DEF Context, Streams, ParcelStreams
  <2>3. t \in 1 .. tk["floor"]
    BY <2>1, <2>2
  <2>4. QED
    BY <2>3
<1>2. on => t \in flight.hook \cap flight.floor \/ <<"floor", t>> \in missed
  BY <1>1 DEF Supports
<1>3. ~on /\ t \in flight.hook \cap flight.floor => <<"floor", t>> \in missed
  BY <1>1 DEF Supports
<1>4. e.t = t /\ e.on = on
  OBVIOUS
<1> HIDE DEF on, e
<1>5. Weighed(e)
  BY <1>2, <1>3, <1>4 DEF Weighed
<1>6. QED
  BY <1>5 DEF e, on

\* A state of the payload goes to the support tracker and out.
LEMMA AcceptKeeps ==
    ASSUME NEW tk, Context(tk), tk = taken', CameraPairs(taken) = CameraPairs(tk),
           NEW acc \in Nat, NEW t \in Nat, t = acc + 1, t <= native,
           NEW p \in ParcelTrackers, ParcelReady(p, t), p.floor \subseteq 1 .. tk["floor"],
           \A u \in 1 .. tk["floor"] : u \in p.floor \/ <<"floor", u>> \in missed,
           NEW k, Fine(k, tk, acc)
    PROVE  Fine(AcceptParcel(k, p, t), tk, t)
<1> DEFINE e == [t |-> t, on |-> Supports(p, t)]
           k1 == [k EXCEPT !.s.parcel = Append(@, e)]
           j == IF ~flight.support \/ k.a = Broken THEN k ELSE DrainSupport(k1)
           o == [kind |-> "parcel", t |-> t]
           r == [j EXCEPT !.outs = Append(@, o)]
<1>1. AcceptParcel(k, p, t) = r
  BY DEF AcceptParcel
<1>2. k \in Callbacks /\ o \in Outs
  BY DEF Fine, Outs, Kinds
<1>3. /\ j \in Callbacks
      /\ j.a # Broken => /\ Checked(j.a) /\ Logged(j, tk, acc) /\ j.a.odometry <= tk["odometry"]
                         /\ IF flight.support THEN Rests(j.a) /\ Carried(j.s, tk, t)
                            ELSE Plain(j.a, tk)
  <2>1. CASE ~flight.support \/ k.a = Broken
    <3>1. j = k
      BY <2>1
    <3> HIDE DEF j
    <3>2. QED
      BY <1>2, <2>1, <3>1 DEF Fine
  <2>2. CASE flight.support /\ k.a # Broken
    <3>1. /\ Checked(k.a) /\ Logged(k, tk, acc) /\ Rests(k.a) /\ Carried(k.s, tk, acc)
          /\ k.s \in SupportStates
      BY <2>2 DEF Fine, Carried
    <3>2. e \in ParcelStates /\ e.t = t
      <4>1. Supports(p, t) \in BOOLEAN
        BY DEF Supports
      <4>2. QED
        BY <4>1 DEF ParcelStates
    <3>3. Weighed(e)
      BY StateIsWeighed
    <3> DEFINE s1 == [k.s EXCEPT !.parcel = Append(@, e)]
    <3> HIDE DEF e
    <3>4. k.s.parcel \in Seq(ParcelStates) /\ flight.legs \subseteq Nat
      BY <3>1, FlightTypes DEF SupportStates, Context
    <3>5. /\ Append(k.s.parcel, e) \in Seq(ParcelStates)
          /\ Len(Append(k.s.parcel, e)) = Len(k.s.parcel) + 1
          /\ DOMAIN Append(k.s.parcel, e) = 1 .. Len(k.s.parcel) + 1
          /\ DOMAIN k.s.parcel = 1 .. Len(k.s.parcel) /\ Len(k.s.parcel) \in Nat
          /\ \A i \in 1 .. Len(k.s.parcel) : Append(k.s.parcel, e)[i] = k.s.parcel[i]
          /\ Append(k.s.parcel, e)[Len(k.s.parcel) + 1] = e
      BY <3>2, <3>4
    <3>6. /\ s1 \in SupportStates /\ s1.parcel = Append(k.s.parcel, e) /\ s1.legs = k.s.legs
          /\ s1.lastLeg = k.s.lastLeg /\ s1.lastOdometry = k.s.lastOdometry
      BY <3>1, <3>5 DEF SupportStates
    <3>7. k1 \in Callbacks /\ k1.s = s1 /\ k1.a = k.a /\ k1.n = k.n /\ k1.outs = k.outs
      <4>1. k1 = [k EXCEPT !.s = s1]
        BY <1>2 DEF Callbacks
      <4> HIDE DEF s1, k1
      <4>2. QED
        BY <1>2, <3>6, <4>1 DEF Callbacks
    <3> HIDE DEF s1, k1
    <3> DEFINE L == Len(k.s.parcel)
    <3>8. /\ L \in Nat /\ DOMAIN s1.parcel = 1 .. L + 1 /\ DOMAIN k.s.parcel = 1 .. L
          /\ \A i \in 1 .. L : s1.parcel[i] = k.s.parcel[i]
          /\ s1.parcel[L + 1] = e
      BY <3>5, <3>6
    <3> HIDE DEF L
    <3>9. Carried(s1, tk, t)
      <4>1. ASSUME NEW i \in DOMAIN s1.parcel
            PROVE  /\ s1.parcel[i].t # 0 /\ s1.parcel[i].t <= t /\ Weighed(s1.parcel[i])
                   /\ i # L + 1 => s1.parcel[i].t <= acc /\ s1.parcel[i].t \in Nat
        <5>1. CASE i \in 1 .. L
          <6>1. s1.parcel[i] = k.s.parcel[i] /\ i \in DOMAIN k.s.parcel
            BY <3>8, <5>1
          <6>2. k.s.parcel[i] \in ParcelStates
            BY <3>4, <6>1
          <6>3. k.s.parcel[i].t \in Nat
            BY <6>2 DEF ParcelStates
          <6>4. k.s.parcel[i].t # 0 /\ k.s.parcel[i].t <= acc /\ Weighed(k.s.parcel[i])
            BY <3>1, <6>1 DEF Carried
          <6>5. QED
            BY <6>1, <6>3, <6>4
        <5>2. CASE i = L + 1
          BY <3>2, <3>3, <3>8, <5>2
        <5>3. QED
          BY <3>8, <5>1, <5>2
      <4>2. ASSUME NEW i \in DOMAIN s1.parcel, NEW m \in DOMAIN s1.parcel, i < m
            PROVE  s1.parcel[i].t < s1.parcel[m].t
        <5>1. i \in 1 .. L /\ i \in DOMAIN k.s.parcel /\ s1.parcel[i] = k.s.parcel[i] /\ i # L + 1
          BY <3>8, <4>2
        <5>2. CASE m \in 1 .. L
          BY <3>1, <3>8, <4>2, <5>1, <5>2 DEF Carried
        <5>3. CASE m = L + 1
          BY <3>2, <3>8, <4>1, <5>1, <5>3
        <5>4. QED
          BY <3>8, <5>2, <5>3
      <4>3. ASSUME NEW l \in flight.legs, l <= tk["contact"], <<"contact", l>> \notin missed
            PROVE  \/ l \in s1.legs
                   \/ l <= t /\ \A i \in DOMAIN s1.parcel : l < s1.parcel[i].t
        <5>1. CASE l \in k.s.legs
          BY <3>6, <5>1
        <5>2. CASE l <= acc /\ \A i \in DOMAIN k.s.parcel : l < k.s.parcel[i].t
          <6>1. l \in Nat
            BY <3>4
          <6>2. ASSUME NEW i \in DOMAIN s1.parcel PROVE l < s1.parcel[i].t
            <7>1. CASE i \in 1 .. L
              BY <3>8, <5>2, <7>1
            <7>2. CASE i = L + 1
              BY <3>2, <3>8, <5>2, <6>1, <7>2
            <7>3. QED
              BY <3>8, <7>1, <7>2
          <6>3. QED
            BY <5>2, <6>1, <6>2
        <5>3. QED
          BY <3>1, <4>3, <5>1, <5>2 DEF Carried
      <4>4. /\ s1.legs \subseteq flight.legs /\ s1.lastLeg <= tk["contact"]
            /\ s1.lastOdometry <= tk["odometry"]
        BY <3>1, <3>6 DEF Carried
      <4>5. QED
        BY <3>6, <4>1, <4>2, <4>3, <4>4 DEF Carried
    <3>10. Sound(k1, tk, acc)
      BY <3>1, <3>7 DEF Sound, Logged
    <3> DEFINE d == DrainSupport(k1)
    <3>11. /\ d \in Callbacks /\ Sound(d, tk, acc)
           /\ d.a # Broken => Carried(d.s, tk, t)
      BY <2>2, <3>7, <3>9, <3>10, DrainKeeps
    <3>12. j = d
      BY <2>2
    <3> HIDE DEF d, j
    <3>13. d.a # Broken => d.a.odometry <= tk["odometry"]
      BY <3>11 DEF Sound, Rests, Context, Streams
    <3>14. QED
      BY <2>2, <3>11, <3>12, <3>13 DEF Sound
  <2>3. QED
    BY <2>1, <2>2
<1> HIDE DEF j
<1>4. Append(j.outs, o) \in Seq(Outs)
  <2> HIDE DEF o
  <2>1. QED
    BY <1>2, <1>3 DEF Callbacks
<1>5. r \in Callbacks /\ r.a = j.a /\ r.s = j.s /\ r.n = j.n /\ r.outs = Append(j.outs, o)
  <2> HIDE DEF o
  <2>1. QED
    BY <1>3, <1>4 DEF Callbacks
<1>6. ASSUME j.a # Broken PROVE Logged(r, tk, t)
  <2>1. Publish(public, early \o Append(j.outs, o)) = PublishOne(Publish(public, early \o j.outs), o)
    <3> HIDE DEF o
    <3>1. QED
      BY <1>2, <1>3, OneMore
  <2> DEFINE P == Publish(public, early \o j.outs)  n == j.n
  <2>2. Recorded(P, tk, n, acc) /\ \A c \in Cameras : n <= tk[c]
    BY <1>3, <1>6 DEF Logged
  <2>3. n \in Nat /\ tk \in [Streams -> Nat] /\ native \in Nat
    BY <1>3 DEF Callbacks, Context
  <2>4. Recorded(PublishOne(P, [kind |-> "parcel", t |-> t]), tk, n, t)
    <3> HIDE DEF P, n
    <3>1. "parcel" \in Kinds /\ "parcel" \notin Cameras /\ "parcel" # "range"
      BY DEF Kinds, Cameras
    <3> DEFINE kind == "parcel"
    <3>2. /\ kind \in Kinds /\ (\A c \in Cameras : tk[c] = IF kind = c THEN tk[c] + 1 ELSE tk[c])
          /\ (kind \in Cameras => t = tk[kind])
          /\ tk["range"] = (IF kind = "range" THEN tk["range"] + 1 ELSE tk["range"])
          /\ t = (IF kind = "parcel" THEN acc + 1 ELSE acc)
      BY <3>1
    <3> HIDE DEF kind
    <3>3. Recorded(PublishOne(P, [kind |-> kind, t |-> t]), tk, n, t)
      BY <2>2, <2>3, <3>2, SampleRecorded
    <3>4. QED
      BY <3>3 DEF kind
  <2> HIDE DEF r
  <2>5. QED
    BY <1>5, <2>1, <2>2, <2>4 DEF Logged
<1> HIDE DEF r
<1>7. Fine(r, tk, t)
  BY <1>3, <1>5, <1>6 DEF Fine
<1>8. QED
  BY <1>1, <1>7

\* The states that are complete are the next ones, without a gap.
LEMMA DueIs ==
    ASSUME NEW p \in ParcelTrackers, NEW m \in Nat, p.accepted <= m, p.pose = p.accepted + 1 .. m,
           NEW due, due = {t \in p.pose : \A u \in p.accepted + 1 .. t : ParcelReady(p, u)}
    PROVE  \E d \in Nat : /\ p.accepted + d <= m /\ due = p.accepted + 1 .. p.accepted + d
                          /\ Cardinality(due) = d
                          /\ \A i \in 1 .. d : ParcelReady(p, p.accepted + i)
<1> DEFINE a == p.accepted
           S == {i \in 0 .. m - a : i < m - a => ~ParcelReady(p, a + i + 1)}
           d == FirstSuch(S)
<1>1. a \in Nat /\ p.pose = a + 1 .. m /\ a <= m
      /\ due = {t \in p.pose : \A u \in a + 1 .. t : ParcelReady(p, u)}
  BY DEF ParcelTrackers
<1>2. d \in S /\ \A i \in S : d <= i
  <2>1. m - a \in S
    BY <1>1
  <2> HIDE DEF a
  <2>2. S \in SUBSET Nat
    BY <1>1
  <2> HIDE DEF S
  <2>3. QED
    BY <2>1, <2>2, FirstExists
<1>3. d \in Nat /\ a + d <= m /\ (d < m - a => ~ParcelReady(p, a + d + 1))
  <2> HIDE DEF a, d
  <2>1. QED
    BY <1>1, <1>2
<1>4. ASSUME NEW i \in 1 .. d PROVE ParcelReady(p, a + i)
  <2> HIDE DEF a, d
  <2>1. i - 1 \notin S
    <3> HIDE DEF S
    <3>1. QED
      BY <1>2, <1>3
  <2>2. i - 1 \in 0 .. m - a /\ i - 1 < m - a /\ a + (i - 1) + 1 = a + i
    BY <1>1, <1>3
  <2>3. QED
    BY <2>1, <2>2
<1> HIDE DEF a, d, S
<1>5. a \in Nat /\ a <= m
  BY <1>1
<1>6. due = a + 1 .. a + d
  <2>1. ASSUME NEW t \in due PROVE t \in a + 1 .. a + d
    <3>1. t \in a + 1 .. m /\ \A u \in a + 1 .. t : ParcelReady(p, u)
      BY <1>1
    <3>2. t > a + d => a + d + 1 \in a + 1 .. t /\ d < m - a
      BY <1>3, <1>5, <3>1
    <3>3. ~ (t > a + d)
      BY <1>3, <3>1, <3>2
    <3>4. QED
      BY <1>3, <1>5, <3>1, <3>3
  <2>2. ASSUME NEW t \in a + 1 .. a + d PROVE t \in due
    <3>1. t \in p.pose
      <4>1. t \in a + 1 .. m
        BY <1>3, <1>5
      <4>2. QED
        BY <1>1, <4>1
    <3>2. ASSUME NEW u \in a + 1 .. t PROVE ParcelReady(p, u)
      <4>1. u - a \in 1 .. d /\ a + (u - a) = u
        BY <1>1, <1>3
      <4>2. QED
        BY <1>4, <4>1
    <3>3. QED
      BY <1>1, <3>1, <3>2
  <2>3. QED
    BY <2>1, <2>2
<1>7. Cardinality(due) = d
  <2>1. Cardinality(a + 1 .. a + d) = IF a + 1 > a + d THEN 0 ELSE (a + d) - (a + 1) + 1
    <3>1. a + 1 \in Int /\ a + d \in Int
      BY <1>3, <1>5
    <3>2. QED
      BY <3>1, FS_Interval
  <2>2. (IF a + 1 > a + d THEN 0 ELSE (a + d) - (a + 1) + 1) = d
    BY <1>3, <1>5
  <2>3. QED
    BY <1>6, <2>1, <2>2
<1>8. QED
  BY <1>3, <1>4, <1>6, <1>7 DEF a

LEMMA TakeParcelKeeps ==
    ASSUME AdapterInv, NEW s \in ParcelStreams, TakeParcel(s)
    PROVE  AdapterInv' /\ IsExtension(public.truths, public'.truths)
<1> DEFINE stamp == NextStamp(s)
           p == [parcel EXCEPT ![s] = @ \cup {stamp}]
           a == p.accepted
           due == {t \in p.pose : \A u \in a + 1 .. t : ParcelReady(p, u)}
           d == Cardinality(due)
           step == CHOOSE f : ParcelLoop(f, NewCallback, p, d)
<1>1. /\ TakeFrom(s) /\ s \in Streams /\ s \notin Cameras
      /\ s \notin {"range", "odometry", "contact"}
  BY DEF TakeParcel, Streams, ParcelStreams, Cameras
<1>2. /\ adapterIs = "working" /\ Context(taken') /\ \A r \in Streams : taken[r] <= taken'[r]
      /\ UNCHANGED <<flight, native, missed, gate, wanted>>
      /\ \A r \in Streams \ {s} : taken'[r] = taken[r]
      /\ stamp \in Nat /\ stamp # 0 /\ taken'[s] = stamp /\ taken[s] < stamp /\ Context(taken)
      /\ stamp = taken[s] + 1
  BY <1>1, TakenMoves, NextStampIs DEF AdapterInv, AdapterTypes
<1>3. /\ \A c \in Cameras \cup {"range"} : taken'[c] = taken[c]
      /\ taken'["odometry"] = taken["odometry"] /\ taken'["contact"] = taken["contact"]
      /\ CameraPairs(taken) = CameraPairs(taken')
  BY <1>1, <1>2 DEF Streams, Cameras, CameraPairs
<1>4. CASE AdapterFail
  BY <1>2, <1>4, FailKeeps
<1>5. CASE /\ ~ (s # "floor" /\ Gap(s))
           /\ parcel' = [p EXCEPT !.pose = @ \ due, !.joint = @ \ due, !.accepted = @ + d]
           /\ FinishCallback(step[d])
  <2>1. /\ NewCallback \in Callbacks /\ NewCallback.a = truth /\ NewCallback.s = support
        /\ truth # Broken /\ Checked(truth) /\ truth.odometry <= taken["odometry"]
        /\ Logged(NewCallback, taken, parcel.accepted)
        /\ parcel \in ParcelTrackers /\ parcel.accepted \in Nat
        /\ flight.support => Rests(truth) /\ Carried(support, taken, parcel.accepted)
        /\ ~flight.support => Plain(truth, taken)
    BY <1>2, StartsFrom
  <2>2. Fine(NewCallback, taken', parcel.accepted)
    BY <1>3, <2>1, OthersMove DEF Fine
  <2> HIDE DEF stamp
  <2>3. /\ p \in ParcelTrackers /\ a = parcel.accepted
        /\ p.pose = IF s = "pose" THEN parcel.pose \cup {stamp} ELSE parcel.pose
        /\ p.floor = IF s = "floor" THEN parcel.floor \cup {stamp} ELSE parcel.floor
    BY <1>2, <2>1 DEF ParcelTrackers, ParcelStreams
  <2>4. PICK m0 \in Nat : /\ parcel.accepted <= m0 /\ m0 <= taken["pose"]
                          /\ parcel.pose = parcel.accepted + 1 .. m0
                          /\ <<"pose", taken["pose"]>> \notin missed => m0 = taken["pose"]
    BY <1>2 DEF AdapterInv, AtWork, Followed
  <2>5. /\ parcel.floor \subseteq 1 .. taken["floor"]
        /\ \A t \in 1 .. taken["floor"] : t \in parcel.floor \/ <<"floor", t>> \in missed
    BY <1>2 DEF AdapterInv, AtWork, Followed
  <2>6. /\ taken["pose"] \in Nat /\ taken'["pose"] \in Nat /\ taken["pose"] <= taken'["pose"]
        /\ taken["floor"] \in Nat /\ taken'["floor"] \in Nat /\ taken["floor"] <= taken'["floor"]
        /\ s # "pose" => taken'["pose"] = taken["pose"]
        /\ s # "floor" => taken'["floor"] = taken["floor"]
        /\ taken'["pose"] <= native /\ native \in Nat
    BY <1>2 DEF Context, Streams, ParcelStreams
  <2> DEFINE m == IF s = "pose" THEN stamp ELSE m0
  <2>7. /\ m \in Nat /\ a <= m /\ m <= taken'["pose"] /\ p.pose = a + 1 .. m
        /\ <<"pose", taken'["pose"]>> \notin missed => m = taken'["pose"]
    <3>1. CASE s = "pose"
      <4>1. <<"pose", taken["pose"]>> \notin missed
        <5>1. stamp - 1 = taken["pose"]
          BY <1>2, <2>6, <3>1
        <5>2. QED
          BY <1>5, <3>1, <5>1 DEF Gap, stamp
      <4>2. m0 = taken["pose"] /\ stamp = m0 + 1 /\ taken'["pose"] = stamp
        BY <1>2, <2>4, <3>1, <4>1
      <4> HIDE DEF p
      <4>3. QED
        BY <1>2, <2>1, <2>3, <2>4, <3>1, <4>2
    <3>2. CASE s # "pose"
      <4> HIDE DEF p
      <4>1. QED
        BY <2>3, <2>4, <2>6, <3>2
    <3>3. QED
      BY <3>1, <3>2
  <2>8. /\ p.floor \subseteq 1 .. taken'["floor"]
        /\ \A t \in 1 .. taken'["floor"] : t \in p.floor \/ <<"floor", t>> \in missed
    <3> HIDE DEF p
    <3>1. CASE s = "floor"
      <4>1. p.floor = parcel.floor \cup {stamp} /\ taken'["floor"] = stamp
            /\ stamp = taken["floor"] + 1
        BY <1>2, <2>3, <3>1
      <4>2. QED
        BY <2>5, <2>6, <4>1
    <3>2. CASE s # "floor"
      BY <2>3, <2>5, <2>6, <3>2
    <3>3. QED
      BY <3>1, <3>2
  <2> HIDE DEF m, p
  <2>9. PICK n \in Nat : /\ a + n <= m /\ due = a + 1 .. a + n /\ d = n
                         /\ \A i \in 1 .. n : ParcelReady(p, a + i)
    <3> HIDE DEF due
    <3>1. due = {t \in p.pose : \A u \in p.accepted + 1 .. t : ParcelReady(p, u)}
      BY DEF due
    <3>2. QED
      BY <2>3, <2>7, <3>1, DueIs
  <2> HIDE DEF d
  <2>10. ParcelLoop(step, NewCallback, p, d)
    <3>1. \E f : ParcelLoop(f, NewCallback, p, d)
      BY <2>9, ParcelRounds
    <3>2. QED
      BY <3>1
  <2> HIDE DEF step, due
  <2> DEFINE T == {i \in 0 .. n : Fine(step[i], taken', a + i)}
  <2>11. 0 \in T
    <3>1. step[0] = NewCallback /\ 0 \in 0 .. n
      BY <2>9, <2>10 DEF ParcelLoop
    <3>2. a + 0 = parcel.accepted
      BY <2>1, <2>3
    <3>3. QED
      BY <2>2, <3>1, <3>2
  <2>12. ASSUME NEW i \in 0 .. n - 1, i \in T PROVE i + 1 \in T
    <3>1. i + 1 \in 0 .. n /\ i + 1 \in 1 .. n /\ i + 1 # 0 /\ (i + 1) - 1 = i /\ i \in Nat
      BY <2>9
    <3>2. step[i + 1] = AcceptParcel(step[i], p, a + (i + 1))
      BY <2>9, <2>10, <3>1 DEF ParcelLoop
    <3> DEFINE x == step[i]  acc == a + i  t == a + (i + 1)
    <3>3. /\ acc \in Nat /\ t \in Nat /\ t = acc + 1 /\ t <= native /\ ParcelReady(p, t)
      <4>1. a \in Nat
        BY <2>1, <2>3
      <4>2. ParcelReady(p, t)
        BY <2>9, <3>1
      <4> HIDE DEF a
      <4>3. QED
        BY <2>6, <2>7, <2>9, <3>1, <4>1, <4>2
    <3>4. Fine(x, taken', acc)
      BY <2>12
    <3> HIDE DEF x, acc, t
    <3>5. Fine(AcceptParcel(x, p, t), taken', t)
      BY <1>2, <1>3, <2>3, <2>8, <3>3, <3>4, AcceptKeeps
    <3>6. QED
      BY <3>1, <3>2, <3>5 DEF x, t
  <2>13. Fine(step[d], taken', a + d)
    <3> HIDE DEF T
    <3>1. \A i \in 0 .. n : i \in T
      BY <2>9, <2>11, <2>12, Rounds
    <3>2. n \in T /\ d = n
      BY <2>9, <3>1
    <3>3. QED
      BY <3>2 DEF T
  <2>14. /\ parcel' \in ParcelTrackers /\ parcel'.accepted = a + d /\ parcel'.floor = p.floor
         /\ parcel'.pose = p.pose \ due
    <3>1. a \in Nat /\ d \in Nat /\ a + d \in Nat
      BY <2>1, <2>3, <2>9
    <3>2. QED
      BY <1>5, <2>3, <3>1 DEF ParcelTrackers
  <2>15. Followed(parcel, taken)'
    <3> HIDE DEF a
    <3>1. a \in Nat /\ d \in Nat /\ a + d <= m /\ due = a + 1 .. a + d
      BY <2>1, <2>3, <2>9
    <3>2. parcel'.pose = a + d + 1 .. m
      BY <2>7, <2>14, <3>1
    <3>3. /\ m \in Nat /\ parcel'.accepted <= m /\ m <= taken'["pose"]
          /\ parcel'.pose = parcel'.accepted + 1 .. m
          /\ <<"pose", taken'["pose"]>> \notin missed' => m = taken'["pose"]
      BY <1>2, <2>7, <2>14, <3>1, <3>2
    <3>4. \E x \in Nat : /\ parcel'.accepted <= x /\ x <= taken'["pose"]
                         /\ parcel'.pose = parcel'.accepted + 1 .. x
                         /\ <<"pose", taken'["pose"]>> \notin missed' => x = taken'["pose"]
      BY <3>3
    <3>5. QED
      BY <1>2, <2>8, <2>14, <3>4 DEF Followed
  <2>16. QED
    BY <1>2, <1>5, <2>13, <2>14, <2>15, FinishKeeps
<1>6. AdapterFail \/ /\ ~ (s # "floor" /\ Gap(s))
                     /\ parcel' = [p EXCEPT !.pose = @ \ due, !.joint = @ \ due, !.accepted = @ + d]
                     /\ FinishCallback(step[d])
  BY DEF TakeParcel, ParcelLoop
<1>7. QED
  BY <1>4, <1>5, <1>6

-----------------------------------------------------------------------------
(* The steps that call nothing back. *)

\* The adapter is at work, before and after, on what it holds already.
LEMMA WorkStays ==
    ASSUME AdapterInv, adapterIs = "working", adapterIs' = "working",
           UNCHANGED <<flight, taken, missed, truth, support, parcel, truths>>,
           native' \in Nat, native <= native', native' <= flight.frames,
           gate' \in {"armed", "latched"}, wanted' \in BOOLEAN, output' \in BOOLEAN,
           early' \in Seq(Outs), Len(early') <= PreZeroLimit,
           output' => early' = <<>> /\ gate' = "latched" /\ wanted',
           ~output' => public'.clock = 0 /\ public'.truths = <<>>,
           public' \in PublicStates, Faithful(public'), public'.clock <= native',
           Recorded(Publish(public, early), taken, truths, parcel.accepted)'
    PROVE  AdapterInv'
<1>1. Context(taken) /\ taken' = taken /\ flight' = flight /\ missed' = missed
  BY DEF AdapterInv, AdapterTypes
<1>2. Context(taken)'
  <2>1. \A s \in Streams : taken[s] <= native'
    <3> TAKE s \in Streams
    <3>1. taken[s] \in Nat /\ taken[s] <= native /\ native \in Nat
      BY <1>1 DEF Context
    <3>2. QED
      BY <3>1
  <2>2. QED
    BY <1>1, <2>1 DEF Context
<1>3. truth'.odometry <= native'
  <2>1. truth.odometry \in Nat /\ truth.odometry <= native /\ native \in Nat
    BY <1>1 DEF AdapterInv, AdapterTypes, Aggregators, Context
  <2>2. QED
    BY <2>1
<1>4. AdapterTypes'
  BY <1>1, <1>2, <1>3 DEF AdapterInv, AdapterTypes, PreZeroLimit
<1>5. Faithful(public)'
  BY <1>1 DEF Faithful, Honest, Touching
<1>6. Fine(NewCallback, taken, parcel.accepted)'
  <2> DEFINE k == NewCallback
  <2>1. k.a # Broken /\ Fine(k, taken', parcel'.accepted) /\ truth' = k.a /\ support' = k.s
        /\ truths' = k.n
    BY <1>1, StartsFrom DEF AdapterInv, AtWork
  <2> HIDE DEF k
  <2>2. QED
    BY <1>1, <2>1, HoldingStays
<1>7. Followed(parcel, taken)'
  BY <1>1, FollowedMoves DEF AdapterInv, AtWork
<1>8. AtWork'
  BY <1>6, <1>7 DEF AtWork
<1>9. QED
  BY <1>4, <1>5, <1>8 DEF AdapterInv

\* What is published, with what waits, is on record; while it waits nothing is published.
LEMMA OnRecord ==
    ASSUME AdapterInv, adapterIs = "working"
    PROVE  LET P == Publish(public, early) IN
           /\ Recorded(P, taken, truths, parcel.accepted) /\ public \in PublicStates
           /\ native \in Nat /\ P \in PublicStates /\ P.clock <= native /\ Faithful(P)
           /\ IsExtension(public.truths, P.truths) /\ IsExtension(public.truths, public.truths)
<1> DEFINE P == Publish(public, early)
<1>1. Recorded(P, taken, truths, parcel.accepted)
  <2>1. early \o <<>> = early
    BY DEF AdapterInv, AdapterTypes, Context
  <2>2. QED
    BY <2>1, StartsFrom DEF Logged
<1>2. /\ public \in PublicStates /\ native \in Nat /\ truths \in Nat /\ Context(taken)
      /\ \A c \in Cameras : truths <= taken[c]
  BY DEF AdapterInv, AdapterTypes, Context
<1> HIDE DEF P
<1>3. /\ P \in PublicStates /\ P.clock <= native /\ IsExtension(public.truths, P.truths)
      /\ Len(P.truths) = truths
  BY <1>1 DEF Recorded
<1>4. Faithful(P)
  <2> SUFFICES ASSUME NEW i \in DOMAIN P.truths, NEW c \in Cameras PROVE P.count[c] >= i
    BY <1>1 DEF Faithful, Recorded
  <2>1. i \in 1 .. truths
    <3>1. P.truths \in Seq([t : Nat, on : BOOLEAN, clock : Nat, overtaken : BOOLEAN])
      BY <1>3 DEF PublicStates
    <3>2. QED
      BY <1>3, <3>1
  <2>2. P.count[c] = taken[c] /\ truths <= taken[c] /\ taken[c] \in Nat
    BY <1>1, <1>2 DEF Recorded, Context, Streams
  <2>3. QED
    BY <1>2, <2>1, <2>2
<1>5. IsExtension(public.truths, public.truths)
  <2>1. public.truths \in Seq([t : Nat, on : BOOLEAN, clock : Nat, overtaken : BOOLEAN])
    BY <1>2 DEF PublicStates
  <2>2. QED
    BY <2>1, SubSeqFull DEF IsExtension
<1>6. QED
  BY <1>1, <1>2, <1>3, <1>4, <1>5 DEF P

\* Public zero.
LEMMA EnableKeeps ==
    ASSUME AdapterInv, adapterIs = "working", ~output, EnableOutput,
           UNCHANGED <<flight, native, taken, missed, truth, support, parcel, truths>>,
           gate' = "latched", wanted' = TRUE
    PROVE  AdapterInv' /\ IsExtension(public.truths, public'.truths)
<1> DEFINE P == Publish(public, early)
<1>1. /\ Recorded(P, taken, truths, parcel.accepted) /\ public \in PublicStates
      /\ native \in Nat /\ P \in PublicStates /\ P.clock <= native /\ Faithful(P)
      /\ IsExtension(public.truths, P.truths)
  BY OnRecord
<1>2. [public EXCEPT !.clock = 0] = public
  BY <1>1 DEF AdapterInv, AtWork, PublicStates
<1>3. /\ early' = <<>> /\ public' = P
      /\ output' = ~EverythingOut(truths)
      /\ adapterIs' = (IF EverythingOut(truths) THEN "complete" ELSE "working")
  BY <1>2 DEF EnableOutput
<1>4. Publish(public', early') = P /\ early' \in Seq(Outs) /\ Len(early') <= PreZeroLimit
  <2>1. Publish(P, <<>>) = P /\ <<>> \in Seq(Outs) /\ Len(<<>>) = 0 /\ PreZeroLimit \in Nat
    BY PublishNothing DEF PreZeroLimit
  <2>2. QED
    BY <1>3, <2>1
<1> HIDE DEF P
<1>5. Recorded(Publish(public, early), taken, truths, parcel.accepted)'
  BY <1>1, <1>3, <1>4, RecordStays
<1>6. CASE ~EverythingOut(truths)
  <2>1. adapterIs' = "working" /\ output' = TRUE
    BY <1>3, <1>6
  <2>2. native <= native' /\ native' <= flight.frames /\ native' \in Nat
    BY <1>1 DEF AdapterInv, AdapterTypes
  <2>3. AdapterInv'
    BY <1>1, <1>3, <1>4, <1>5, <2>1, <2>2, WorkStays
  <2>4. QED
    BY <1>1, <1>3, <2>3
<1>7. CASE EverythingOut(truths)
  <2>1. adapterIs' = "complete" /\ output' = FALSE
    BY <1>3, <1>7
  <2>2. Context(taken)'
    BY <1>1, <1>3, <1>4 DEF AdapterInv, AdapterTypes, Context
  <2>3. AdapterTypes'
    BY <1>1, <1>3, <1>4, <2>1, <2>2 DEF AdapterInv, AdapterTypes, PreZeroLimit
  <2>4. Faithful(public)'
    BY <1>1, <1>3 DEF Faithful, Honest, Touching
  <2>5. AllOut'
    <3>1. /\ \A c \in Cameras : taken[c] = flight.frames
          /\ truths = flight.frames
          /\ flight.competition =>
               taken["range"] = flight.frames /\ parcel.accepted = flight.frames
               /\ \A m \in missed : m[1] # "range"
      BY <1>7 DEF EverythingOut
    <3>2. /\ Len(P.truths) = truths /\ \A c \in Cameras : P.count[c] = taken[c]
          /\ P.count["parcel"] = parcel.accepted
          /\ (\A m \in missed : m[1] # "range") => P.count["range"] = taken["range"]
      BY <1>1 DEF Recorded
    <3>3. QED
      BY <1>3, <3>1, <3>2 DEF AllOut
  <2>6. QED
    BY <1>1, <1>3, <2>1, <2>3, <2>4, <2>5 DEF AdapterInv
<1>8. QED
  BY <1>6, <1>7

\* The clock goes on by an epoch.
LEMMA TickKeeps ==
    ASSUME AdapterInv, adapterIs = "working", output, public.clock < native,
           public' = [public EXCEPT !.clock = @ + 1],
           UNCHANGED <<flight, native, taken, missed, wanted, truth, support, parcel, truths,
                       gate, early, output, adapterIs>>
    PROVE  AdapterInv' /\ IsExtension(public.truths, public'.truths)
<1> DEFINE Q == [public EXCEPT !.clock = @ + 1]
<1>1. early = <<>> /\ gate = "latched" /\ wanted /\ Len(early) <= PreZeroLimit
  BY DEF AdapterInv, AtWork, AdapterTypes
<1>2. /\ Recorded(public, taken, truths, parcel.accepted) /\ public \in PublicStates
      /\ native \in Nat /\ Faithful(public) /\ IsExtension(public.truths, public.truths)
  BY <1>1, OnRecord, PublishNothing
<1>3. /\ Q \in PublicStates /\ Q.clock = public.clock + 1 /\ public.clock \in Nat
      /\ Q.count = public.count /\ Q.truths = public.truths
  <2>1. public.clock \in Nat /\ public.clock + 1 \in Nat
    BY <1>2 DEF PublicStates
  <2>2. QED
    BY <1>2, <2>1 DEF PublicStates
<1> HIDE DEF Q
<1>4. Q.clock <= native
  BY <1>2, <1>3
<1>5. Recorded(Q, taken, truths, parcel.accepted)
  <2>1. ASSUME NEW c \in Cameras PROVE Q.count[c] <= Q.clock
    <3>1. public.count[c] \in Nat /\ public.count[c] <= public.clock
      BY <1>2 DEF PublicStates, Kinds, Recorded
    <3>2. QED
      BY <1>3, <3>1
  <2>2. QED
    BY <1>2, <1>3, <1>4, <2>1 DEF Recorded
<1>6. Faithful(Q)
  BY <1>2, <1>3 DEF Faithful
<1>7. public' = Q
  BY DEF Q
<1>8. Publish(public', early') = Q
  BY <1>1, <1>7, PublishNothing
<1>9. Recorded(Publish(public, early), taken, truths, parcel.accepted)'
  BY <1>2, <1>5, <1>7, <1>8, RecordStays
<1>10. AdapterInv'
  <2>1. native' \in Nat /\ native <= native' /\ native' <= flight.frames
        /\ early' \in Seq(Outs) /\ early' = <<>> /\ Len(early') <= PreZeroLimit
    BY <1>1, <1>2 DEF AdapterInv, AdapterTypes, Context
  <2>2. QED
    BY <1>1, <1>3, <1>4, <1>6, <1>7, <1>9, <2>1, WorkStays
<1>11. QED
  BY <1>2, <1>3, <1>7, <1>10

LEMMA TakeClockKeeps ==
    ASSUME AdapterInv, TakeClock
    PROVE  AdapterInv' /\ IsExtension(public.truths, public'.truths)
<1>1. /\ adapterIs = "working" /\ wanted = TRUE
      /\ UNCHANGED <<flight, native, missed, wanted, truth, support, parcel, truths>>
  BY DEF TakeClock, AdapterInv, AdapterTypes
<1>2. CASE gate = "armed" /\ gate' = "latched" /\ UNCHANGED taken /\ EnableOutput
  <2>1. ~output
    BY <1>1, <1>2 DEF AdapterInv, AtWork
  <2>2. QED
    BY <1>1, <1>2, <2>1, EnableKeeps
<1>3. CASE /\ gate = "latched" /\ output /\ public.clock < native
           /\ public' = [public EXCEPT !.clock = @ + 1]
           /\ UNCHANGED <<gate, taken, early, output, adapterIs>>
  BY <1>1, <1>3, TickKeeps
<1>4. QED
  BY <1>2, <1>3 DEF TakeClock

\* A step that moves the gate, the request or Gazebo, and nothing else.
LEMMA QuietKeeps ==
    ASSUME AdapterInv, adapterIs = "working",
           UNCHANGED <<flight, taken, missed, truth, support, parcel, truths, early, public,
                       output, adapterIs>>,
           native' \in Nat, native <= native', native' <= flight.frames,
           gate' \in {"armed", "latched"}, wanted' \in BOOLEAN,
           output => gate' = "latched" /\ wanted'
    PROVE  AdapterInv' /\ IsExtension(public.truths, public'.truths)
<1> DEFINE P == Publish(public, early)
<1>1. /\ Recorded(P, taken, truths, parcel.accepted) /\ public \in PublicStates
      /\ native \in Nat /\ IsExtension(public.truths, public.truths)
  BY OnRecord
<1>2. /\ early \in Seq(Outs) /\ Len(early) <= PreZeroLimit /\ Faithful(public) /\ output \in BOOLEAN
      /\ public.clock <= native /\ public.clock \in Nat
      /\ output => early = <<>>
      /\ ~output => public.clock = 0 /\ public.truths = <<>>
  BY DEF AdapterInv, AdapterTypes, AtWork, Context, PublicStates
<1>3. Publish(public', early') = P
  OBVIOUS
<1> HIDE DEF P
<1>4. Recorded(Publish(public, early), taken, truths, parcel.accepted)'
  BY <1>1, <1>3, RecordStays
<1>5. public'.clock <= native'
  BY <1>1, <1>2
<1>6. AdapterInv'
  BY <1>1, <1>2, <1>4, <1>5, WorkStays
<1>7. QED
  BY <1>1, <1>6

LEMMA LatchKeeps ==
    ASSUME AdapterInv, LatchUnasked
    PROVE  AdapterInv' /\ IsExtension(public.truths, public'.truths)
<1>1. native \in Nat /\ native <= flight.frames /\ native <= native /\ wanted \in BOOLEAN
  BY DEF AdapterInv, AdapterTypes, Context
<1>2. /\ adapterIs = "working" /\ ~wanted /\ gate' = "latched"
      /\ UNCHANGED <<flight, native, taken, missed, wanted, output, early, truth, support, parcel,
                     truths, public, adapterIs>>
  BY DEF LatchUnasked
<1>3. ~output
  BY <1>2 DEF AdapterInv, AtWork
<1>4. QED
  BY <1>1, <1>2, <1>3, QuietKeeps

LEMMA ActivateKeeps ==
    ASSUME AdapterInv, ActivateOutput
    PROVE  AdapterInv' /\ IsExtension(public.truths, public'.truths)
<1>1. native \in Nat /\ native <= flight.frames /\ native <= native /\ gate \in {"armed", "latched"}
  BY DEF AdapterInv, AdapterTypes, Context
<1>2. /\ adapterIs = "working" /\ ~wanted /\ wanted' = TRUE
      /\ UNCHANGED <<flight, native, taken, missed, gate, truth, support, parcel, truths>>
      /\ IF gate = "latched" THEN EnableOutput ELSE UNCHANGED <<early, public, output, adapterIs>>
  BY DEF ActivateOutput
<1>3. ~output
  BY <1>2 DEF AdapterInv, AtWork
<1>4. CASE gate = "latched"
  BY <1>2, <1>3, <1>4, EnableKeeps
<1>5. CASE gate # "latched"
  BY <1>1, <1>2, <1>3, <1>5, QuietKeeps
<1>6. QED
  BY <1>4, <1>5

LEMMA SimulateKeeps ==
    ASSUME AdapterInv, Simulate
    PROVE  AdapterInv' /\ IsExtension(public.truths, public'.truths)
<1>1. native \in Nat /\ gate \in {"armed", "latched"} /\ flight \in Flights
  BY DEF AdapterInv, AdapterTypes, Context
<1>2. /\ adapterIs = "working" /\ wanted /\ native' = native + 1
      /\ native < IF gate = "armed" THEN MinOf(MaxLead, flight.frames) ELSE flight.frames
      /\ UNCHANGED <<flight, taken, missed, gate, wanted, output, early, truth, support, parcel,
                     truths, public, adapterIs>>
  BY DEF Simulate
<1>3. MaxLead \in Nat /\ flight.frames \in Nat
  BY <1>1, FlightTypes, AdapterAssumption
<1>4. native' \in Nat /\ native <= native' /\ native' <= flight.frames
  BY <1>1, <1>2, <1>3 DEF MinOf
<1>5. output => gate = "latched"
  BY <1>2 DEF AdapterInv, AtWork
<1>6. wanted' \in BOOLEAN
  BY <1>2 DEF AdapterInv, AdapterTypes
<1>7. QED
  BY <1>1, <1>2, <1>4, <1>5, <1>6, QuietKeeps

LEMMA LoseKeeps ==
    ASSUME AdapterInv, NEW s \in Lossy, Lose(s)
    PROVE  AdapterInv' /\ IsExtension(public.truths, public'.truths)
<1> DEFINE t == NextStamp(s)  P == Publish(public, early)
<1>1. /\ adapterIs = "working" /\ t # 0 /\ Cardinality(missed) < MaxLost
      /\ missed' = missed \cup {<<s, t>>} /\ taken' = [taken EXCEPT ![s] = t]
      /\ UNCHANGED <<flight, native, gate, wanted, output, early, truth, support, parcel, truths,
                     public, adapterIs>>
  BY DEF Lose
<1>2. s \in Streams /\ s \notin Cameras /\ s \in {"odometry", "contact", "range", "pose", "floor"}
  BY DEF Lossy, Streams, Cameras, ParcelStreams
<1>3. Context(taken) /\ flight.legs \subseteq Nat
  BY FlightTypes DEF AdapterInv, AdapterTypes, Context
<1>4. /\ t \in Nat /\ taken[s] < t /\ Sent(s, t)
      /\ \A u \in Nat : taken[s] < u /\ u < t => ~Sent(s, u)
      /\ s # "contact" => t = taken[s] + 1
      /\ Context(taken') /\ taken'[s] = t /\ \A r \in Streams \ {s} : taken'[r] = taken[r]
      /\ \A r \in Streams : taken[r] <= taken'[r]
  BY <1>1, <1>2, <1>3, NextStampIs, ContextMoves
<1> HIDE DEF t
<1>5. \A r \in Streams : taken[r] \in Nat /\ taken'[r] \in Nat
  BY <1>3, <1>4 DEF Context
<1>6. /\ Recorded(P, taken, truths, parcel.accepted) /\ public \in PublicStates
      /\ native \in Nat /\ IsExtension(public.truths, public.truths)
      /\ P = Publish(public', early')
  BY <1>1, OnRecord
<1>7. /\ NewCallback \in Callbacks /\ NewCallback.a = truth /\ NewCallback.s = support
      /\ truth # Broken /\ Checked(truth) /\ truth.odometry <= taken["odometry"]
      /\ Logged(NewCallback, taken, parcel.accepted)
      /\ flight.support => Rests(truth) /\ Carried(support, taken, parcel.accepted)
      /\ ~flight.support => Plain(truth, taken)
  BY <1>1, StartsFrom
<1>8. Recorded(Publish(public, early), taken, truths, parcel.accepted)'
  <2>1. \A c \in Cameras : taken'[c] = taken[c]
    BY <1>2, <1>4 DEF Streams
  <2>2. ASSUME \A m \in missed' : m[1] # "range" PROVE taken'["range"] = taken["range"]
    <3>1. <<s, t>> \in missed' /\ <<s, t>>[1] = s
      BY <1>1
    <3>2. s # "range"
      BY <2>2, <3>1
    <3>3. QED
      BY <1>4, <3>2 DEF Streams
  <2>3. missed \subseteq missed' /\ native <= native' /\ native' \in Nat
    BY <1>1, <1>6
  <2> HIDE DEF P
  <2>4. QED
    BY <1>1, <1>6, <2>1, <2>2, <2>3, RecordStays
<1>9. NewCallback' = NewCallback
  BY <1>1 DEF NewCallback
<1>10. ASSUME NEW l \in flight.legs, l <= taken'["contact"], <<"contact", l>> \notin missed'
       PROVE  l <= taken["contact"] /\ <<"contact", l>> \notin missed /\ l \in Nat
  <2>1. <<"contact", l>> \notin missed /\ l \in Nat
    BY <1>1, <1>3, <1>10
  <2>2. CASE s # "contact"
    BY <1>4, <1>10, <2>1, <2>2 DEF Streams
  <2>3. CASE s = "contact"
    <3>1. l # t
      BY <1>1, <1>10, <2>3
    <3>2. taken["contact"] \in Nat /\ l <= t
      BY <1>2, <1>4, <1>5, <1>10, <2>3
    <3>3. ~ (taken["contact"] < l /\ l < t)
      BY <1>4, <2>1, <2>3 DEF Sent
    <3>4. QED
      BY <1>4, <2>1, <3>1, <3>2, <3>3
  <2>4. QED
    BY <2>2, <2>3
<1>11. /\ taken["odometry"] <= taken'["odometry"] /\ taken["contact"] <= taken'["contact"]
       /\ taken["odometry"] \in Nat /\ taken'["odometry"] \in Nat
       /\ taken["contact"] \in Nat /\ taken'["contact"] \in Nat
  BY <1>4, <1>5 DEF Streams
<1>12. Fine(NewCallback, taken, parcel.accepted)'
  <2>1. Checked(truth)'
    BY <1>1, <1>7 DEF Checked, Honest, Touching
  <2>2. truth'.odometry <= taken'["odometry"] /\ truth.odometry \in Nat
    BY <1>1, <1>7, <1>11 DEF Checked, Aggregators
  <2>3. Logged(NewCallback, taken, parcel.accepted)'
    <3>1. early' \o <<>> = early' /\ NewCallback'.outs = <<>> /\ NewCallback'.n = truths'
      BY <1>1 DEF NewCallback, AdapterInv, AdapterTypes, Context
    <3>2. \A c \in Cameras : truths' <= taken'[c]
      BY <1>1, <1>2, <1>4 DEF AdapterInv, AdapterTypes, Streams
    <3>3. QED
      BY <1>8, <3>1, <3>2 DEF Logged
  <2>4. CASE flight.support
    <3>1. support \in SupportStates /\ Carried(support, taken, parcel.accepted)
      BY <1>7, <2>4 DEF Carried
    <3>2. support.lastLeg <= taken'["contact"] /\ support.lastOdometry <= taken'["odometry"]
      BY <1>11, <3>1 DEF Carried, SupportStates
    <3>3. \A i \in DOMAIN support.parcel : Weighed(support.parcel[i])'
      BY <1>1, <3>1 DEF Carried, Weighed
    <3>4. Carried(support, taken, parcel.accepted)'
      BY <1>1, <1>10, <3>1, <3>2, <3>3 DEF Carried
    <3>5. QED
      BY <1>1, <1>7, <1>9, <2>1, <2>2, <2>3, <2>4, <3>4 DEF Fine, Rests
  <2>5. CASE ~flight.support
    <3>1. Plain(truth, taken) /\ truth.lastContact \in Nat
      BY <1>7, <2>5 DEF Checked, Aggregators
    <3>2. truth.lastContact <= taken'["contact"]
      BY <1>11, <3>1 DEF Plain, Joining
    <3>3. ASSUME NEW l \in flight.legs, l <= taken'["contact"], <<"contact", l>> \notin missed'
          PROVE  \/ \E c \in truth.contacts : c.t = l
                 \/ l <= taken'["odometry"] /\ (truth.odometry # 0 => l < truth.odometry)
      <4>1. \/ \E c \in truth.contacts : c.t = l
            \/ l <= taken["odometry"] /\ (truth.odometry # 0 => l < truth.odometry)
        BY <1>10, <3>1, <3>3 DEF Plain, Joining
      <4>2. QED
        BY <1>10, <1>11, <3>3, <4>1
    <3>4. Plain(truth, taken)'
      BY <1>1, <2>2, <3>1, <3>2, <3>3 DEF Plain, Joining
    <3>5. QED
      BY <1>1, <1>7, <1>9, <2>1, <2>2, <2>3, <2>5, <3>4 DEF Fine
  <2>6. QED
    BY <2>4, <2>5
<1>13. Followed(parcel, taken)'
  <2>1. /\ parcel \in ParcelTrackers /\ parcel.floor \subseteq 1 .. taken["floor"]
        /\ \A u \in 1 .. taken["floor"] : u \in parcel.floor \/ <<"floor", u>> \in missed
    BY <1>1 DEF AdapterInv, AtWork, Followed
  <2>2. PICK m \in Nat : /\ parcel.accepted <= m /\ m <= taken["pose"]
                         /\ parcel.pose = parcel.accepted + 1 .. m
                         /\ <<"pose", taken["pose"]>> \notin missed => m = taken["pose"]
    BY <1>1 DEF AdapterInv, AtWork, Followed
  <2>3. /\ taken["pose"] \in Nat /\ taken'["pose"] \in Nat /\ taken["pose"] <= taken'["pose"]
        /\ taken["floor"] \in Nat /\ taken'["floor"] \in Nat /\ taken["floor"] <= taken'["floor"]
        /\ s # "pose" => taken'["pose"] = taken["pose"]
        /\ s # "floor" => taken'["floor"] = taken["floor"]
    BY <1>4, <1>5 DEF Streams, ParcelStreams
  <2>4. <<"pose", taken'["pose"]>> \notin missed' => m = taken'["pose"]
    <3>1. CASE s = "pose"
      BY <1>1, <1>4, <3>1
    <3>2. CASE s # "pose"
      BY <1>1, <2>2, <2>3, <3>2
    <3>3. QED
      BY <3>1, <3>2
  <2>5. ASSUME NEW u \in 1 .. taken'["floor"]
        PROVE  u \in parcel.floor \/ <<"floor", u>> \in missed'
    <3>1. CASE s = "floor"
      <4>1. u \in 1 .. taken["floor"] \/ u = t
        BY <1>4, <2>3, <3>1
      <4>2. QED
        BY <1>1, <2>1, <3>1, <4>1
    <3>2. CASE s # "floor"
      BY <1>1, <2>1, <2>3, <3>2
    <3>3. QED
      BY <3>1, <3>2
  <2>6. m <= taken'["pose"] /\ parcel.floor \subseteq 1 .. taken'["floor"]
    BY <2>1, <2>2, <2>3
  <2>7. \E x \in Nat : /\ parcel'.accepted <= x /\ x <= taken'["pose"]
                       /\ parcel'.pose = parcel'.accepted + 1 .. x
                       /\ <<"pose", taken'["pose"]>> \notin missed' => x = taken'["pose"]
    BY <1>1, <2>2, <2>4, <2>6
  <2>8. QED
    BY <1>1, <2>1, <2>5, <2>6, <2>7 DEF Followed
<1>14. IsFiniteSet(missed') /\ Cardinality(missed') <= MaxLost
  <2>1. IsFiniteSet(missed) /\ Cardinality(missed) \in Nat /\ MaxLost \in Nat
    BY FS_CardinalityType, AdapterAssumption DEF AdapterInv, AdapterTypes
  <2>2. /\ IsFiniteSet(missed')
        /\ Cardinality(missed') = Cardinality(missed)
           \/ Cardinality(missed') = Cardinality(missed) + 1
    BY <1>1, <2>1, FS_AddElement
  <2>3. QED
    BY <1>1, <2>1, <2>2
<1>15. Context(taken)'
  BY <1>1, <1>4 DEF Context
<1>16. AdapterTypes'
  <2>1. \A c \in Cameras : truths' <= taken'[c]
    BY <1>1, <1>2, <1>4 DEF AdapterInv, AdapterTypes, Streams
  <2>2. QED
    BY <1>1, <1>14, <1>15, <2>1 DEF AdapterInv, AdapterTypes, PreZeroLimit
<1>17. Faithful(public)'
  BY <1>1 DEF AdapterInv, Faithful, Honest, Touching
<1>18. AtWork'
  BY <1>1, <1>12, <1>13 DEF AdapterInv, AtWork
<1>19. QED
  BY <1>1, <1>6, <1>16, <1>17, <1>18 DEF AdapterInv

-----------------------------------------------------------------------------
(* The invariant holds. *)

LEMMA AdapterStarts == AdapterInit => AdapterInv
<1> SUFFICES ASSUME AdapterInit PROVE AdapterInv
  OBVIOUS
<1>1. /\ flight \in Flights /\ native = 0 /\ taken = [s \in Streams |-> 0] /\ missed = {}
      /\ gate = "armed" /\ wanted \in BOOLEAN /\ output = FALSE /\ early = <<>>
      /\ truth = NoTruth /\ support = NoSupport /\ parcel = NoParcel /\ truths = 0
      /\ public = [clock |-> 0, count |-> [k \in Kinds |-> 0], truths |-> <<>>]
      /\ adapterIs = "working"
  BY DEF AdapterInit, Kinds
<1>2. MaxLost \in Nat /\ flight.frames \in Nat /\ AdapterCapacity \in Nat
  BY <1>1, FlightTypes, AdapterAssumption
<1>3. /\ <<>> \in Seq(Entries) /\ <<>> \in Seq(Outs) /\ <<>> \in Seq(ParcelStates)
      /\ <<>> \in Seq([t : Nat, on : BOOLEAN, clock : Nat, overtaken : BOOLEAN])
      /\ <<>> \o <<>> = <<>> /\ Len(<<>>) = 0
  OBVIOUS
<1>4. public \in PublicStates
  BY <1>1, <1>3 DEF PublicStates
<1>5. truth \in Aggregators /\ support \in SupportStates /\ parcel \in ParcelTrackers
  BY <1>1, <1>3 DEF NoTruth, NoSupport, NoParcel, Aggregators, SupportStates, ParcelTrackers
<1>6. Context(taken)
  BY <1>1, <1>3, <1>4 DEF Context
<1>7. PreZeroLimit \in Nat
  BY DEF PreZeroLimit
<1>8. AdapterTypes
  <2>1. IsFiniteSet(missed) /\ Cardinality(missed) = 0
    BY <1>1, FS_EmptySet
  <2>2. truth.odometry = 0 /\ truth.completed = <<>> /\ public.clock = 0
    BY <1>1 DEF NoTruth
  <2>3. \A c \in Cameras : truths <= taken[c]
    BY <1>1 DEF Streams
  <2>4. Cardinality(missed) <= MaxLost /\ Len(early) <= PreZeroLimit /\ truths \in Nat
        /\ native <= flight.frames /\ truth.odometry <= native /\ public.clock <= native
        /\ Len(truth.completed) <= AdapterCapacity
    <3>1. Len(early) = 0 /\ Len(truth.completed) = 0
      BY <1>1, <1>3, <2>2
    <3>2. QED
      BY <1>1, <1>2, <1>7, <2>1, <2>2, <3>1
  <2>5. {wanted, output} \subseteq BOOLEAN
    BY <1>1
  <2>6. gate \in {"armed", "latched"} /\ adapterIs \in {"working", "faulted", "complete"}
    BY <1>1
  <2>7. QED
    BY <1>5, <1>6, <2>1, <2>3, <2>4, <2>5, <2>6 DEF AdapterTypes
<1>9. IsExtension(public.truths, public.truths) /\ public.truths = <<>>
  BY <1>1, <1>3, SubSeqFull DEF IsExtension
<1>10. Recorded(Publish(public, early), taken, 0, 0)
  <2>1. \A k \in Kinds : public.count[k] = 0
    BY <1>1
  <2>2. \A s \in Streams : taken[s] = 0
    BY <1>1
  <2>3. public.clock = 0 /\ "range" \in Streams /\ "range" \in Kinds /\ "parcel" \in Kinds
        /\ Cameras \subseteq Kinds /\ Cameras \subseteq Streams
    BY <1>1 DEF Streams, Kinds
  <2>4. Publish(public, early) = public
    BY <1>1, PublishNothing
  <2>5. QED
    BY <1>1, <1>3, <1>4, <1>9, <2>1, <2>2, <2>3, <2>4 DEF Recorded
<1>11. Fine(NewCallback, taken, parcel.accepted)
  <2>1. NewCallback = [a |-> truth, s |-> support, n |-> 0, outs |-> <<>>] /\ parcel.accepted = 0
    BY <1>1 DEF NewCallback, NoParcel
  <2>2. NewCallback \in Callbacks
    BY <1>3, <1>5, <2>1 DEF Callbacks
  <2>3. truth.odometry = 0 /\ truth.completed = <<>> /\ truth.contacts = {} /\ truth.lastContact = 0
    BY <1>1 DEF NoTruth
  <2>4. Checked(truth)
    BY <1>2, <1>3, <1>5, <2>3 DEF Checked
  <2>5. Logged(NewCallback, taken, 0)
    <3>1. \A c \in Cameras : 0 <= taken[c]
      BY <1>1 DEF Streams
    <3>2. early \o <<>> = early
      BY <1>1
    <3>3. QED
      BY <1>10, <2>1, <3>1, <3>2 DEF Logged
  <2>6. taken["odometry"] = 0 /\ taken["contact"] = 0
    BY <1>1 DEF Streams
  <2>7. flight.legs \subseteq Nat
    BY <1>1, FlightTypes
  <2>8. Rests(truth)
    BY <2>3 DEF Rests
  <2>9. Carried(support, taken, 0)
    <3>1. support.legs = {} /\ support.lastLeg = 0 /\ support.lastOdometry = 0 /\ support.parcel = <<>>
      BY <1>1 DEF NoSupport
    <3>2. DOMAIN support.parcel = {}
      BY <1>3, <3>1
    <3>3. support.legs \subseteq flight.legs
      BY <3>1
    <3>4. QED
      BY <1>5, <2>6, <3>1, <3>2, <3>3 DEF Carried
  <2>10. Plain(truth, taken)
    BY <2>3, <2>6 DEF Plain, Joining
  <2>11. truth # Broken
    BY <1>5, NotBroken
  <2>12. QED
    BY <2>1, <2>2, <2>3, <2>4, <2>5, <2>6, <2>8, <2>9, <2>10 DEF Fine
<1>12. Followed(parcel, taken)
  <2>1. taken["pose"] = 0 /\ taken["floor"] = 0
    BY <1>1 DEF Streams, ParcelStreams
  <2>2. parcel.accepted = 0 /\ parcel.pose = {} /\ parcel.floor = {}
    BY <1>1 DEF NoParcel
  <2>3. 0 + 1 .. 0 = {} /\ 1 .. 0 = {} /\ 0 \in Nat
    OBVIOUS
  <2>4. \E m \in Nat : /\ parcel.accepted <= m /\ m <= taken["pose"]
                       /\ parcel.pose = parcel.accepted + 1 .. m
                       /\ <<"pose", taken["pose"]>> \notin missed => m = taken["pose"]
    BY <2>1, <2>2, <2>3
  <2>5. QED
    BY <1>5, <2>1, <2>2, <2>3, <2>4 DEF Followed
<1>13. Faithful(public)
  <2>1. DOMAIN public.truths = {}
    BY <1>3, <1>9
  <2>2. QED
    BY <2>1 DEF Faithful
<1>14. AtWork
  BY <1>1, <1>9, <1>11, <1>12 DEF AtWork
<1>15. QED
  BY <1>1, <1>8, <1>13, <1>14 DEF AdapterInv

\* Nothing of the adapter moves.
LEMMA AdapterRests ==
    ASSUME AdapterInv, UNCHANGED adapterVars
    PROVE  AdapterInv' /\ IsExtension(public.truths, public'.truths)
<1>1. /\ flight' = flight /\ native' = native /\ taken' = taken /\ missed' = missed /\ gate' = gate
      /\ wanted' = wanted /\ output' = output /\ early' = early /\ truth' = truth
      /\ support' = support /\ parcel' = parcel /\ truths' = truths /\ public' = public
      /\ adapterIs' = adapterIs
  BY DEF adapterVars
<1>2. AdapterTypes' /\ Faithful(public)'
  BY <1>1 DEF AdapterInv, AdapterTypes, Context, PreZeroLimit, Faithful, Honest, Touching
<1>3. IsExtension(public.truths, public.truths)
  <2>1. public.truths \in Seq([t : Nat, on : BOOLEAN, clock : Nat, overtaken : BOOLEAN])
    BY DEF AdapterInv, AdapterTypes, Context, PublicStates
  <2>2. QED
    BY <2>1, SubSeqFull DEF IsExtension
<1>4. AllOut' = AllOut
  BY <1>1 DEF AllOut
<1>5. CASE adapterIs = "working"
  <2>1. /\ native \in Nat /\ native <= native /\ native <= flight.frames
        /\ gate \in {"armed", "latched"} /\ wanted \in BOOLEAN
        /\ output => gate = "latched" /\ wanted
    BY <1>5 DEF AdapterInv, AdapterTypes, Context, AtWork
  <2>2. QED
    BY <1>1, <1>5, <2>1, QuietKeeps
<1>6. CASE adapterIs # "working"
  BY <1>1, <1>2, <1>3, <1>4, <1>6 DEF AdapterInv
<1>7. QED
  BY <1>5, <1>6

LEMMA AdapterKeeps ==
    ASSUME AdapterInv, AdapterNext \/ UNCHANGED adapterVars
    PROVE  AdapterInv' /\ IsExtension(public.truths, public'.truths)
<1>1. CASE \E c \in Cameras : TakeImage(c)
  BY <1>1, TakeImageKeeps
<1>2. CASE TakeOdometry
  BY <1>2, TakeOdometryKeeps
<1>3. CASE TakeContact
  BY <1>3, TakeContactKeeps
<1>4. CASE \E s \in ParcelStreams : TakeParcel(s)
  BY <1>4, TakeParcelKeeps
<1>5. CASE TakeRange
  BY <1>5, TakeRangeKeeps
<1>6. CASE TakeClock
  BY <1>6, TakeClockKeeps
<1>7. CASE LatchUnasked
  BY <1>7, LatchKeeps
<1>8. CASE ActivateOutput
  BY <1>8, ActivateKeeps
<1>9. CASE Simulate
  BY <1>9, SimulateKeeps
<1>10. CASE \E s \in Lossy : Lose(s)
  BY <1>10, LoseKeeps
<1>11. CASE UNCHANGED adapterVars
  BY <1>11, AdapterRests
<1>12. QED
  BY <1>1, <1>2, <1>3, <1>4, <1>5, <1>6, <1>7, <1>8, <1>9, <1>10, <1>11
     DEF AdapterNext, AdapterCallbacks

\* What the invariant says to a reader.
LEMMA AdapterPromise == AdapterInv => AdapterTypeOK /\ TruthIsKept
<1> SUFFICES ASSUME AdapterInv PROVE AdapterTypeOK /\ TruthIsKept
  OBVIOUS
<1>1. /\ AdapterTypes /\ Context(taken) /\ public \in PublicStates /\ native \in Nat
      /\ truth \in Aggregators /\ Faithful(public)
  BY DEF AdapterInv, AdapterTypes, Context
<1>2. AdapterTypeOK
  <2>1. ASSUME NEW s \in Streams PROVE taken[s] \in 0 .. native
    <3>1. taken[s] \in Nat /\ taken[s] <= native
      BY <1>1 DEF Context
    <3>2. QED
      BY <1>1, <3>1
  <2>2. taken \in [Streams -> 0 .. native]
    BY <1>1, <2>1 DEF Context
  <2>3. truths \in 0 .. CameraPairs(taken)
    <3>1. /\ "onboard" \in Cameras /\ "observer" \in Cameras
          /\ taken["onboard"] \in Nat /\ taken["observer"] \in Nat
      BY <1>1 DEF Context, Streams, Cameras
    <3>2. truths \in Nat /\ truths <= taken["onboard"] /\ truths <= taken["observer"]
      BY <1>1, <3>1 DEF AdapterTypes
    <3>3. QED
      BY <3>1, <3>2 DEF CameraPairs, MinOf
  <2>4. public.clock \in Nat /\ truth.odometry \in Nat
    BY <1>1 DEF PublicStates, Aggregators
  <2>5. flight \in Flights /\ flight.frames \in Nat
    BY <1>1, FlightTypes DEF Context
  <2>6. native \in 0 .. flight.frames /\ truth.odometry \in 0 .. native /\ public.clock \in 0 .. native
    BY <1>1, <2>4, <2>5 DEF AdapterTypes
  <2>7. QED
    BY <1>1, <2>2, <2>3, <2>5, <2>6 DEF AdapterTypes, AdapterTypeOK
<1>3. TruthIsKept
  <2>1. ASSUME NEW i \in DOMAIN public.truths
        PROVE  LET e == public.truths[i] IN
               /\ e.t = i /\ e.clock >= e.t /\ \A c \in Cameras : public.count[c] >= e.t
               /\ e.on => Touching(e.t) \/ <<"floor", e.t>> \in missed
               /\ ~e.on /\ flight.support /\ e.t \in flight.hook \cap flight.floor
                    => <<"floor", e.t>> \in missed
               /\ ~e.on /\ e.t \in flight.legs => <<"contact", e.t>> \in missed \/ e.overtaken
    BY <1>1, <2>1 DEF Faithful, Honest
  <2>2. adapterIs = "complete" => AllOut
    BY DEF AdapterInv
  <2>3. QED
    BY <2>1, <2>2 DEF TruthIsKept, AllOut
<1>4. QED
  BY <1>2, <1>3

\* _evaluate always gives a reason.
LEMMA ContestVerdict ==
    ASSUME NEW ev, NEW fault \in {"none", "gap", "source_finished_timestamp_mismatch"},
           NEW r \in ContestResults(ev, fault)
    PROVE  IsResult(r)
<1>1. PICK why \in {ContestFailure(ev, fault)} : r.why = why /\ r.complete = (why = "none")
  BY DEF ContestResults
<1>2. ContestFailure(ev, fault) # "unscored"
  BY DEF ContestFailure
<1>3. QED
  BY <1>1, <1>2 DEF IsResult

LEMMA ContestKeeps ==
    ASSUME FinalizerInv, contestFault \in {"none", "gap"}, CompetitionNext
    PROVE  FinalizerInv' /\ ResultStays /\ contestFault' \in {"none", "gap"}
<1>1. CASE UNCHANGED finalizerVars /\ contestFault' \in {contestFault, "none", "gap"}
  BY <1>1, OtherFinalizerSteps
<1>2. CASE (ContestSourceEnds \/ AskForScore) /\ UNCHANGED contestVars
  BY <1>2, OtherFinalizerSteps DEF ContestSourceEnds, contestVars
<1>3. CASE CompetitionFinal /\ UNCHANGED contestVars
  <2>1. contestFault' \in {"none", "gap"}
    BY <1>3 DEF contestVars
  <2>2. PICK ev \in {EvidenceHeard} :
          \/ \E result \in ContestResults(ev,
                 IF contestFault = "none" /\ LastHeard # Len(contest.truth)
                 THEN "source_finished_timestamp_mismatch" ELSE contestFault) : PollSource(result)
          \/ \E result \in IF evaluated = NoScore THEN ContestResults(ev, contestFault)
                           ELSE {evaluated} : Quiesce(result)
    BY <1>3 DEF CompetitionFinal
  <2>3. CASE \E result \in ContestResults(ev,
                 IF contestFault = "none" /\ LastHeard # Len(contest.truth)
                 THEN "source_finished_timestamp_mismatch" ELSE contestFault) : PollSource(result)
    <3>1. PICK fault \in {"none", "gap", "source_finished_timestamp_mismatch"} :
            \E result \in ContestResults(ev, fault) : PollSource(result)
      BY <2>3
    <3>2. PICK r \in ContestResults(ev, fault) : PollSource(r)
      BY <3>1
    <3>3. QED
      BY <2>1, <3>2, ContestVerdict, PollKeeps
  <2>4. CASE \E result \in IF evaluated = NoScore THEN ContestResults(ev, contestFault)
                           ELSE {evaluated} : Quiesce(result)
    <3>1. PICK r \in IF evaluated = NoScore THEN ContestResults(ev, contestFault)
                    ELSE {evaluated} : Quiesce(r)
      BY <2>4
    <3>2. evaluated = NoScore => IsResult(r)
      <4>1. PICK fault \in {"none", "gap", "source_finished_timestamp_mismatch"} :
              fault = contestFault
        OBVIOUS
      <4>2. QED
        BY <3>1, <4>1, ContestVerdict
    <3>3. QED
      BY <2>1, <3>1, <3>2, QuiesceKeeps
  <2>5. QED
    BY <2>2, <2>3, <2>4
<1>4. QED
  <2>1. CASE \E p \in Physical : HearSample(p) \/ LoseSample(p)
    <3>1. PICK p \in Physical : HearSample(p) \/ LoseSample(p)
      BY <2>1
    <3>2. QED
      BY <1>1, <3>1 DEF HearSample, LoseSample
  <2>2. CASE HearMission
    <3>1. UNCHANGED finalizerVars
      BY <2>2 DEF HearMission
    <3>2. contestFault' \in {contestFault, "gap"}
      BY <2>2 DEF HearMission, Starts
    <3>3. QED
      BY <1>1, <3>1, <3>2
  <2>3. CASE HearHook
    BY <1>1, <2>3 DEF HearHook
  <2>4. QED
    BY <1>2, <1>3, <2>1, <2>2, <2>3 DEF CompetitionNext

-----------------------------------------------------------------------------
(* The contest of 2026: the topics. *)

LEMMA FirstOfIs ==
    ASSUME NEW S \in SUBSET Nat, S # {}
    PROVE  FirstOf(S) \in S /\ \A u \in S : FirstOf(S) <= u
<1>1. FirstSuch(S) \in S /\ \A u \in S : FirstSuch(S) <= u
  BY FirstExists
<1>2. QED
  BY <1>1 DEF FirstOf

\* _latest_timestamp_gap, of a stream K of which at most one sample is lost (G): the sample
\* that arrived last, u, shows that the one before it is missing.
LEMMA LatestGapIs ==
    ASSUME NEW K \in SUBSET Nat, NEW u \in K, \A v \in K : v <= u,
           NEW from \in Nat \ {0}, from <= u, NEW G, \A v, w \in G : v = w,
           \A v \in from .. u : v \in K \/ v \in G, \A v \in K : v \notin G
    PROVE  /\ LatestGap(K, from) => u - 1 \in G /\ from < u - 1
           /\ u - 1 \in G /\ from < u - 1 => LatestGap(K, from)
<1> DEFINE t == CHOOSE v \in K : \A w \in K : w <= v
           before == {v \in K : v < u /\ v >= from}
<1>1. t = u
  <2>1. t \in K /\ u <= t
    OBVIOUS
  <2> HIDE DEF t
  <2>2. t <= u /\ t \in Nat /\ u \in Nat
    BY <2>1
  <2>3. QED
    BY <2>1, <2>2
<1>2. LatestGap(K, from) <=> IF before = {} THEN u - from > 1 ELSE u - 1 \notin before
  BY <1>1 DEF LatestGap
<1>3. CASE before = {}
  <2>1. ASSUME from < u PROVE from \in G
    BY <1>3, <2>1
  <2>2. ASSUME from + 1 < u PROVE from + 1 \in G
    BY <1>3, <2>2
  <2>3. ~ (u - from > 1)
    BY <2>1, <2>2
  <2>4. ~ (u - 1 \in G /\ from < u - 1)
    BY <2>1
  <2>5. QED
    BY <1>2, <1>3, <2>3, <2>4
<1>4. CASE before # {}
  <2>1. PICK v \in K : v < u /\ v >= from
    BY <1>4
  <2>2. u - 1 \in Nat /\ u - 1 \in from .. u /\ u - 1 < u
    BY <2>1
  <2>3. u - 1 \notin before <=> u - 1 \in G
    BY <2>2
  <2>4. u - 1 \in G => from < u - 1
    BY <2>1, <2>2
  <2>5. QED
    BY <1>2, <1>4, <2>3, <2>4
<1>5. QED
  BY <1>3, <1>4

\* _stream_gap, when the start becomes known: a sample after it is missing.
LEMMA StreamGapIs ==
    ASSUME NEW n \in Nat, NEW K \in SUBSET (1 .. n), NEW from \in Nat \ {0},
           NEW G, \A v, w \in G : v = w, \A v \in from .. n : v \in K \/ v \in G,
           \A v \in K : v \notin G
    PROVE  /\ StreamGap(K, from) => \E v \in G : v \in Nat /\ from < v /\ v < n
           /\ (\E v \in G : v \in Nat /\ from < v /\ v < n) => StreamGap(K, from)
<1> DEFINE after == {v \in K : v >= from}
           f == FirstOf(after)
<1>0. K \in SUBSET Nat /\ \A v \in K : v <= n
  OBVIOUS
<1>1. after \in SUBSET Nat
  BY <1>0
<1>2. after # {} => f \in after /\ \A v \in after : f <= v
  BY <1>1, FirstOfIs
<1>3. StreamGap(K, from) <=>
        after # {} /\ (f - from > 1 \/ \E t \in after : t # f /\ t - 1 \notin after)
  BY DEF StreamGap
<1>4. \A v : v \in after <=> v \in K /\ v >= from
  OBVIOUS
<1> HIDE DEF after, f
<1>5. ASSUME after # {} PROVE ~ (f - from > 1)
  <2> SUFFICES ASSUME f - from > 1 PROVE FALSE
    OBVIOUS
  <2>0. f - from > 1
    OBVIOUS
  <2>a. f \in after
    BY <1>2, <1>5
  <2>b. f \in K /\ f \in Nat /\ f <= n
    BY <1>0, <1>4, <2>a
  <2>1. f \in K /\ f \in Nat /\ f <= n /\ from + 1 < f
    <3>1. from + 1 < f
      BY <2>0, <2>b
    <3>2. QED
      BY <2>b, <3>1
  <2>2. from \in from .. n /\ from + 1 \in from .. n /\ from \notin K /\ from + 1 \notin K
    BY <1>2, <1>4, <1>5, <2>1
  <2>3. from \in G /\ from + 1 \in G
    BY <2>2
  <2>4. QED
    BY <2>3
<1>6. ASSUME NEW t \in after, t # f, t - 1 \notin after
      PROVE  \E v \in G : v \in Nat /\ from < v /\ v < n
  <2>1. t \in K /\ t \in Nat /\ t <= n /\ f \in K /\ f \in Nat /\ from <= f /\ f <= t
    BY <1>0, <1>2, <1>4, <1>6
  <2>2. f <= t - 1 /\ t - 1 \in Nat /\ t - 1 \in from .. n /\ t - 1 < n
    BY <1>6, <2>1
  <2>3. t - 1 \notin K
    BY <1>4, <1>6, <2>1, <2>2
  <2>4. t - 1 \in G /\ t - 1 # f
    BY <2>1, <2>2, <2>3
  <2>5. from < t - 1
    BY <2>1, <2>2, <2>4
  <2>6. QED
    BY <2>2, <2>4, <2>5
<1>7. ASSUME NEW v \in G, v \in Nat, from < v, v < n
      PROVE  after # {} /\ \E t \in after : t # f /\ t - 1 \notin after
  <2>1. v + 1 \in K /\ from \in K /\ v \notin K
    <3>1. v + 1 \in from .. n /\ from \in from .. n /\ v + 1 # v /\ from # v
      BY <1>7
    <3>2. v + 1 \notin G /\ from \notin G
      BY <3>1
    <3>3. QED
      BY <1>7, <3>1, <3>2
  <2>2. v + 1 \in after /\ from \in after /\ v \notin after
    BY <1>4, <1>7, <2>1
  <2>3. f <= from
    BY <1>2, <2>2
  <2>4. v + 1 # f /\ (v + 1) - 1 = v
    BY <1>2, <1>4, <1>7, <2>2, <2>3
  <2>5. QED
    BY <2>2, <2>4
<1>8. QED
  BY <1>3, <1>5, <1>6, <1>7

Topics == Physical \cup {"hooks", "events"}

\* A sample of topic p is missed: it was lost after the start, and a later one was heard.
MissedIn(p) == \E v \in Nat : <<p, v>> \in gone /\ start < v /\ v < told[p]

\* The scorer keeps what came by since the start, at least, and knows of a gap since then; at
\* most one sample is lost.
ContestInv ==
    /\ contestIs \in DOMAIN Contests
    /\ told \in [Topics -> Nat] /\ \A p \in Topics : told[p] <= Len(contest[p])
    /\ start = IF told["events"] = 0 THEN 0 ELSE contest.events[1].t
    /\ \A x, y \in gone : x = y
    /\ \A x \in gone : \E p \in Physical : \E t \in 1 .. told[p] : x = <<p, t>>
    /\ kept \in [Physical -> SUBSET Nat]
    /\ \A p \in Physical :
         /\ kept[p] \subseteq 1 .. told[p] /\ \A t \in kept[p] : <<p, t>> \notin gone
         /\ \A t \in 1 .. told[p] : t >= start => t \in kept[p] \/ <<p, t>> \in gone
    /\ contestFault \in {"none", "gap"}
    /\ contestFault = "gap" => start # 0 /\ \E p \in Physical : MissedIn(p)
    /\ contestFault = "none" /\ start # 0 => \A p \in Physical : ~MissedIn(p)

LEMMA ContestTypes ==
    ASSUME contestIs \in DOMAIN Contests
    PROVE  /\ Reported(contest) /\ Len(contest.truth) \in Nat /\ Len(contest.events) \in Nat
           /\ Len(contest.hooks) \in Nat /\ Len(contest.states) = Len(contest.truth)
           /\ \A p \in Topics : Len(contest[p]) \in Nat
           /\ \A i \in DOMAIN contest.events : contest.events[i].t \in 1 .. Len(contest.truth)
<1>1. Reported(contest)
  BY CompetitionAssumption DEF contest
<1>2. /\ Len(contest.truth) \in Nat /\ Len(contest.states) = Len(contest.truth)
      /\ contest.hooks \in Seq([m : {2, 3, 4}, action : {"attach", "release"}, t : 1 .. Len(contest.truth)])
      /\ contest.events \in Seq([e : STRING, t : 1 .. Len(contest.truth)])
  BY <1>1 DEF Reported
<1>3. Len(contest.events) \in Nat /\ Len(contest.hooks) \in Nat
  BY <1>2
<1>4. \A p \in Topics : Len(contest[p]) \in Nat
  BY <1>2, <1>3 DEF Topics, Physical
<1>5. ASSUME NEW i \in DOMAIN contest.events PROVE contest.events[i].t \in 1 .. Len(contest.truth)
  <2> DEFINE D == contest.events
             E == [e : STRING, t : 1 .. Len(contest.truth)]
  <2>1. D \in Seq(E) /\ i \in DOMAIN D
    BY <1>2
  <2>2. \A x \in E : x.t \in 1 .. Len(contest.truth)
    OBVIOUS
  <2> HIDE DEF D, E
  <2>3. D[i] \in E
    BY <2>1
  <2>4. D[i].t \in 1 .. Len(contest.truth)
    BY <2>2, <2>3
  <2>5. QED
    BY <2>4 DEF D
<1>6. QED
  BY <1>1, <1>2, <1>3, <1>4, <1>5

LEMMA ContestStarts == CompetitionInit => ContestInv
<1> SUFFICES ASSUME CompetitionInit PROVE ContestInv
  OBVIOUS
<1>1. /\ contestIs \in DOMAIN Contests /\ told = [p \in Topics |-> 0] /\ gone = {}
      /\ start = 0 /\ kept = [p \in Physical |-> {}] /\ contestFault = "none"
  BY DEF CompetitionInit, Topics
<1>2. \A p \in Topics : told[p] = 0 /\ Len(contest[p]) \in Nat
  BY <1>1, ContestTypes
<1>3. "events" \in Topics /\ Physical \subseteq Topics
  BY DEF Topics
<1>4. \A p \in Physical : kept[p] = {} /\ told[p] = 0
  BY <1>1, <1>2, <1>3
<1>5. QED
  BY <1>1, <1>2, <1>3, <1>4 DEF ContestInv

\* A sample is heard.
LEMMA HearSampleKeeps ==
    ASSUME ContestInv, NEW p \in Physical, HearSample(p)
    PROVE  ContestInv'
<1> DEFINE t == told[p] + 1
           G == {v \in Nat : <<p, v>> \in gone}
<1>1. /\ told' = [told EXCEPT ![p] = @ + 1] /\ told[p] < Len(contest[p])
      /\ UNCHANGED <<contestIs, gone, start>>
  BY DEF HearSample, Available
<1>2. p \in Topics /\ "events" \in Topics /\ p # "events" /\ Physical \subseteq Topics
  BY DEF Topics, Physical
<1>3. /\ told[p] \in Nat /\ told'[p] = t /\ t \in Nat /\ t <= Len(contest[p])
      /\ \A q \in Topics \ {p} : told'[q] = told[q]
      /\ told' \in [Topics -> Nat] /\ contest' = contest
  BY <1>1, <1>2, ContestTypes DEF ContestInv, contest
<1>4. start' = (IF told'["events"] = 0 THEN 0 ELSE contest'.events[1].t)
  BY <1>1, <1>2, <1>3 DEF ContestInv
<1>5. \A q \in Topics : told'[q] <= Len(contest'[q])
  BY <1>3 DEF ContestInv
<1>6. \A x \in gone : \E q \in Physical : \E v \in 1 .. told'[q] : x = <<q, v>>
  <2> SUFFICES ASSUME NEW x \in gone PROVE \E q \in Physical : \E v \in 1 .. told'[q] : x = <<q, v>>
    OBVIOUS
  <2>1. PICK q \in Physical : \E v \in 1 .. told[q] : x = <<q, v>>
    BY DEF ContestInv
  <2>2. PICK v \in 1 .. told[q] : x = <<q, v>>
    BY <2>1
  <2>3. told[q] \in Nat /\ told'[q] \in Nat /\ told[q] <= told'[q]
    <3>1. q \in Topics /\ told[q] \in Nat
      BY <1>2 DEF ContestInv
    <3>2. QED
      BY <1>3, <3>1
  <2>4. v \in 1 .. told'[q]
    BY <2>2, <2>3
  <2>5. QED
    BY <2>2, <2>4
<1>7. start \in Nat
  <2>1. told["events"] # 0 => 1 \in DOMAIN contest.events
    <3>1. told["events"] \in Nat /\ told["events"] <= Len(contest.events) /\ Len(contest.events) \in Nat
      BY <1>2, ContestTypes DEF ContestInv
    <3>2. DOMAIN contest.events = 1 .. Len(contest.events)
      BY ContestTypes DEF ContestInv, Reported
    <3>3. QED
      BY <3>1, <3>2
  <2>2. QED
    BY <2>1, ContestTypes DEF ContestInv
<1>8. <<p, t>> \notin gone
  <2> SUFFICES ASSUME <<p, t>> \in gone PROVE FALSE
    OBVIOUS
  <2>1. PICK q \in Physical : \E v \in 1 .. told[q] : <<p, t>> = <<q, v>>
    BY DEF ContestInv
  <2>2. t \in 1 .. told[p]
    BY <2>1
  <2>3. QED
    BY <1>3, <2>2
<1>9. \A q \in Physical \ {p} : told'[q] = told[q]
  BY <1>2, <1>3
<1> HIDE DEF t
<1>10. /\ kept' \in [Physical -> SUBSET Nat]
       /\ \A q \in Physical \ {p} : kept'[q] = kept[q]
       /\ kept'[p] = IF t >= start THEN kept[p] \cup {t} ELSE kept[p]
  <2>1. kept \in [Physical -> SUBSET Nat]
    BY DEF ContestInv
  <2>2. IF t >= start THEN kept' = [kept EXCEPT ![p] = @ \cup {t}] ELSE kept' = kept
    BY <1>3, <1>2 DEF HearSample
  <2>3. kept[p] \cup {t} \in SUBSET Nat
    <3>1. t \in Nat
      BY <1>3 DEF t
    <3>2. QED
      BY <2>1, <3>1
  <2>4. CASE t >= start
    BY <2>1, <2>2, <2>3, <2>4
  <2>5. CASE ~(t >= start)
    BY <2>1, <2>2, <2>5
  <2>6. QED
    BY <2>4, <2>5
<1>11. ASSUME NEW q \in Physical
       PROVE  /\ kept'[q] \subseteq 1 .. told'[q] /\ \A v \in kept'[q] : <<q, v>> \notin gone
              /\ \A v \in 1 .. told'[q] : v >= start => v \in kept'[q] \/ <<q, v>> \in gone
  <2>1. /\ kept[q] \subseteq 1 .. told[q] /\ \A v \in kept[q] : <<q, v>> \notin gone
        /\ \A v \in 1 .. told[q] : v >= start => v \in kept[q] \/ <<q, v>> \in gone
    BY DEF ContestInv
  <2>2. CASE q # p
    BY <1>9, <1>10, <2>1, <2>2
  <2>3. CASE q = p
    <3>1. told'[p] = t /\ t \in Nat /\ told[p] \in Nat /\ t = told[p] + 1
      BY <1>3 DEF t
    <3>2. kept'[p] \subseteq 1 .. t
      BY <1>10, <2>1, <2>3, <3>1
    <3>3. \A v \in kept'[p] : <<p, v>> \notin gone
      BY <1>8, <1>10, <2>1, <2>3
    <3>4. ASSUME NEW v \in 1 .. t, v >= start PROVE v \in kept'[p] \/ <<p, v>> \in gone
      <4>1. CASE v = t
        BY <1>10, <3>4, <4>1
      <4>2. CASE v # t
        <5>1. v \in 1 .. told[p]
          BY <3>1, <4>2
        <5>2. QED
          BY <1>10, <2>1, <2>3, <3>4, <5>1
      <4>3. QED
        BY <4>1, <4>2
    <3>5. QED
      BY <2>3, <3>1, <3>2, <3>3, <3>4
  <2>4. QED
    BY <2>2, <2>3
<1>12. /\ \A q \in Physical \ {p} : MissedIn(q)' <=> MissedIn(q)
       /\ MissedIn(p) => MissedIn(p)'
       /\ MissedIn(p)' => MissedIn(p) \/ (t - 1 \in G /\ start < t - 1)
       /\ t - 1 \in G /\ start < t - 1 => MissedIn(p)'
  <2>1. \A q \in Physical \ {p} : MissedIn(q)' <=> MissedIn(q)
    BY <1>1, <1>9 DEF MissedIn
  <2>2. told'[p] = t /\ t \in Nat /\ told[p] \in Nat /\ t = told[p] + 1 /\ t - 1 \in Nat
        /\ t - 1 = told[p]
    BY <1>3 DEF t
  <2>3. MissedIn(p)' <=> \E v \in Nat : <<p, v>> \in gone /\ start < v /\ v < t
    BY <1>1, <2>2 DEF MissedIn
  <2>4. MissedIn(p) <=> \E v \in Nat : <<p, v>> \in gone /\ start < v /\ v < told[p]
    BY DEF MissedIn
  <2>5. \A v \in Nat : v < t <=> v < told[p] \/ v = t - 1
    BY <2>2
  <2>6. t - 1 \in G <=> <<p, t - 1>> \in gone
    BY <2>2
  <2>7. QED
    BY <2>1, <2>2, <2>3, <2>4, <2>5, <2>6
<1>13. /\ contestFault' \in {"none", "gap"}
       /\ contestFault' = "gap" => start # 0 /\ \E q \in Physical : MissedIn(q)'
       /\ contestFault' = "none" /\ start # 0 => \A q \in Physical : ~MissedIn(q)'
  <2>1. /\ contestFault \in {"none", "gap"}
        /\ contestFault = "gap" => start # 0 /\ \E q \in Physical : MissedIn(q)
        /\ contestFault = "none" /\ start # 0 => \A q \in Physical : ~MissedIn(q)
    BY DEF ContestInv
  <2>2. CASE t >= start /\ start # 0
    <3>1. kept'[p] = kept[p] \cup {t}
      BY <1>10, <2>2
    <3>2. contestFault' = IF contestFault = "none" /\ LatestGap(kept'[p], start) THEN "gap"
                          ELSE contestFault
      BY <1>3, <2>2 DEF HearSample, t
    <3>3. /\ kept'[p] \in SUBSET Nat /\ t \in kept'[p] /\ \A v \in kept'[p] : v <= t
          /\ start \in Nat \ {0} /\ start <= t
          /\ \A v, w \in G : v = w
          /\ \A v \in start .. t : v \in kept'[p] \/ v \in G
          /\ \A v \in kept'[p] : v \notin G
      <4>1. told'[p] = t /\ t \in Nat
        BY <1>3 DEF t
      <4>2. \A v \in start .. t : v \in 1 .. t /\ v >= start /\ v \in Nat
        BY <1>7, <2>2, <4>1
      <4>3. ASSUME NEW v \in G, NEW w \in G PROVE v = w
        <5>1. <<p, v>> = <<p, w>>
          BY DEF ContestInv
        <5>2. QED
          BY <5>1
      <4>4. QED
        BY <1>7, <1>10, <1>11, <2>2, <3>1, <4>1, <4>2, <4>3
    <3> DEFINE K == kept'[p]
    <3>4. /\ K \in SUBSET Nat /\ t \in K /\ \A v \in K : v <= t
          /\ \A v \in start .. t : v \in K \/ v \in G
          /\ \A v \in K : v \notin G
      BY <3>3
    <3> HIDE DEF K, G
    <3>5. /\ LatestGap(K, start) => t - 1 \in G /\ start < t - 1
          /\ t - 1 \in G /\ start < t - 1 => LatestGap(K, start)
      BY <3>3, <3>4, LatestGapIs
    <3>6. contestFault' = IF contestFault = "none" /\ LatestGap(K, start) THEN "gap" ELSE contestFault
      BY <3>2 DEF K
    <3>7. QED
      BY <1>12, <2>1, <2>2, <3>5, <3>6
  <2>3. CASE ~(t >= start /\ start # 0)
    <3>1. contestFault' = contestFault
      BY <1>3, <2>3 DEF HearSample, t
    <3>2. start # 0 => ~(start < t - 1)
      BY <1>3, <1>7, <2>3 DEF t
    <3>3. QED
      BY <1>12, <2>1, <3>1, <3>2
  <2>4. QED
    BY <2>2, <2>3
<1>14. QED
  BY <1>1, <1>3, <1>4, <1>5, <1>6, <1>10, <1>11, <1>13 DEF ContestInv

\* A sample is lost.
LEMMA LoseSampleKeeps ==
    ASSUME ContestInv, NEW p \in Physical, LoseSample(p)
    PROVE  ContestInv'
<1> DEFINE t == told[p] + 1
<1>1. /\ told' = [told EXCEPT ![p] = @ + 1] /\ told[p] < Len(contest[p]) /\ gone = {}
      /\ gone' = {<<p, t>>} /\ UNCHANGED <<contestIs, start, kept, contestFault>>
  BY DEF LoseSample, Available, NextTime
<1>2. p \in Topics /\ "events" \in Topics /\ p # "events" /\ Physical \subseteq Topics
  BY DEF Topics, Physical
<1>3. /\ told[p] \in Nat /\ told'[p] = t /\ t \in Nat /\ t <= Len(contest[p])
      /\ \A q \in Topics \ {p} : told'[q] = told[q]
      /\ told' \in [Topics -> Nat] /\ contest' = contest /\ t = told[p] + 1
  BY <1>1, <1>2, ContestTypes DEF ContestInv, contest
<1> HIDE DEF t
<1>4. /\ start' = (IF told'["events"] = 0 THEN 0 ELSE contest'.events[1].t)
      /\ \A q \in Topics : told'[q] <= Len(contest'[q])
  BY <1>1, <1>2, <1>3 DEF ContestInv
<1>5. \A x \in gone' : \E q \in Physical : \E v \in 1 .. told'[q] : x = <<q, v>>
  <2>1. t \in 1 .. told'[p]
    BY <1>3
  <2>2. QED
    BY <1>1, <2>1
<1>6. ASSUME NEW q \in Physical
      PROVE  /\ kept[q] \subseteq 1 .. told'[q] /\ \A v \in kept[q] : <<q, v>> \notin gone'
             /\ \A v \in 1 .. told'[q] : v >= start => v \in kept[q] \/ <<q, v>> \in gone'
  <2>1. /\ kept[q] \subseteq 1 .. told[q]
        /\ \A v \in 1 .. told[q] : v >= start => v \in kept[q]
    BY <1>1 DEF ContestInv
  <2>2. CASE q # p
    <3>1. told'[q] = told[q] /\ \A v : <<q, v>> \notin gone'
      BY <1>1, <1>2, <1>3, <2>2
    <3>2. QED
      BY <2>1, <3>1
  <2>3. CASE q = p
    <3>1. kept[p] \subseteq 1 .. t /\ t \notin kept[p]
      BY <1>3, <2>1, <2>3
    <3>2. \A v \in 1 .. t : v = t \/ v \in 1 .. told[p]
      BY <1>3
    <3>3. QED
      BY <1>1, <1>3, <2>1, <2>3, <3>1, <3>2
  <2>4. QED
    BY <2>2, <2>3
<1>7. \A q \in Physical : ~MissedIn(q) /\ ~MissedIn(q)'
  <2>1. \A q \in Physical : ~MissedIn(q)
    BY <1>1 DEF MissedIn
  <2>2. ASSUME NEW q \in Physical, NEW v \in Nat, <<q, v>> \in gone', v < told'[q] PROVE FALSE
    <3>1. q = p /\ v = t
      BY <1>1, <2>2
    <3>2. QED
      BY <1>3, <2>2, <3>1
  <2>3. \A q \in Physical : ~MissedIn(q)'
    BY <2>2 DEF MissedIn
  <2>4. QED
    BY <2>1, <2>3
<1>8. QED
  BY <1>1, <1>3, <1>4, <1>5, <1>6, <1>7 DEF ContestInv

\* An event of the mission: the first one is the start.
LEMMA HearMissionKeeps ==
    ASSUME ContestInv, HearMission
    PROVE  ContestInv'
<1> DEFINE t == told["events"] + 1
<1>1. /\ told' = [told EXCEPT !["events"] = @ + 1] /\ told["events"] < Len(contest.events)
      /\ UNCHANGED <<contestIs, gone, kept>>
      /\ IF start = 0 /\ contest.events[told'["events"]].e = "FM1+"
         THEN Starts(contest.events[told'["events"]].t) ELSE UNCHANGED <<start, contestFault>>
  BY DEF HearMission, Available
<1>2. "events" \in Topics /\ "events" \notin Physical /\ Physical \subseteq Topics
  BY DEF Topics, Physical
<1>3. /\ told["events"] \in Nat /\ told'["events"] = t /\ t \in Nat \ {0} /\ t <= Len(contest.events)
      /\ \A q \in Topics \ {"events"} : told'[q] = told[q]
      /\ told' \in [Topics -> Nat] /\ contest' = contest /\ t = told["events"] + 1
      /\ Len(contest.events) \in Nat
  BY <1>1, <1>2, ContestTypes DEF ContestInv, contest
<1> HIDE DEF t
<1>4. \A q \in Physical : told'[q] = told[q]
  BY <1>2, <1>3
<1>5. /\ contest.events # <<>> /\ 1 \in DOMAIN contest.events
      /\ contest.events[1].e = "FM1+" /\ contest.events[1].t \in Nat \ {0}
  <2>1. DOMAIN contest.events = 1 .. Len(contest.events) /\ Reported(contest)
    BY ContestTypes DEF ContestInv, Reported
  <2>2. 1 \in DOMAIN contest.events /\ contest.events # <<>>
    BY <1>3, <2>1
  <2>3. contest.events[1].t \in 1 .. Len(contest.truth) /\ Len(contest.truth) \in Nat
    BY <2>2, ContestTypes DEF ContestInv
  <2>4. QED
    BY <2>1, <2>2, <2>3 DEF Reported
<1>6. \A q \in Topics : told'[q] <= Len(contest'[q])
  BY <1>3 DEF ContestInv
<1>7. CASE told["events"] = 0
  <2> DEFINE from == contest.events[1].t
  <2>1. start = 0 /\ t = 1 /\ contestFault = "none"
    BY <1>3, <1>7 DEF ContestInv
  <2>2. /\ start' = from
        /\ contestFault' = IF \E q \in Physical : StreamGap(kept[q], from) THEN "gap" ELSE "none"
    BY <1>1, <1>3, <1>5, <2>1 DEF Starts
  <2> HIDE DEF from
  <2>3. from \in Nat \ {0} /\ from = contest.events[1].t
    BY <1>5 DEF from
  <2>4. ASSUME NEW q \in Physical
        PROVE  /\ StreamGap(kept[q], from) => MissedIn(q)'
               /\ MissedIn(q)' => StreamGap(kept[q], from)
    <3> DEFINE G == {v \in Nat : <<q, v>> \in gone}
               n == told[q]
               K == kept[q]
    <3>1. /\ n \in Nat /\ K \in SUBSET (1 .. n)
          /\ \A v \in from .. n : v \in K \/ v \in G
          /\ \A v \in K : v \notin G
      <4>1. n \in Nat /\ K \subseteq 1 .. n /\ \A v \in K : <<q, v>> \notin gone
        BY <1>2 DEF ContestInv
      <4>2. \A v \in 1 .. n : v >= 0 => v \in K \/ <<q, v>> \in gone
        BY <2>1 DEF ContestInv
      <4>3. \A v \in from .. n : v \in 1 .. n /\ v \in Nat /\ v >= 0
        BY <2>3, <4>1
      <4>4. QED
        BY <4>1, <4>2, <4>3
    <3>2. ASSUME NEW v \in G, NEW w \in G PROVE v = w
      <4>1. <<q, v>> = <<q, w>>
        BY DEF ContestInv
      <4>2. QED
        BY <4>1
    <3>3. MissedIn(q)' <=> \E v \in G : v \in Nat /\ from < v /\ v < n
      BY <1>1, <1>4, <2>2 DEF MissedIn
    <3> HIDE DEF G, n, K
    <3>4. /\ StreamGap(K, from) => \E v \in G : v \in Nat /\ from < v /\ v < n
          /\ (\E v \in G : v \in Nat /\ from < v /\ v < n) => StreamGap(K, from)
      BY <2>3, <3>1, <3>2, StreamGapIs
    <3>5. QED
      BY <3>3, <3>4 DEF K
  <2>5. /\ contestFault' \in {"none", "gap"}
        /\ contestFault' = "gap" => start' # 0 /\ \E q \in Physical : MissedIn(q)'
        /\ contestFault' = "none" => \A q \in Physical : ~MissedIn(q)'
    BY <2>2, <2>3, <2>4
  <2>6. start' = (IF told'["events"] = 0 THEN 0 ELSE contest'.events[1].t)
    BY <1>3, <2>1, <2>2, <2>3
  <2>7. ASSUME NEW q \in Physical
        PROVE  /\ kept'[q] \subseteq 1 .. told'[q] /\ \A v \in kept'[q] : <<q, v>> \notin gone'
               /\ \A v \in 1 .. told'[q] : v >= start' => v \in kept'[q] \/ <<q, v>> \in gone'
    <3>1. \A v \in 1 .. told[q] : v >= start
      <4>1. told[q] \in Nat
        BY <1>2 DEF ContestInv
      <4>2. QED
        BY <2>1, <4>1
    <3>2. QED
      BY <1>1, <1>4, <3>1 DEF ContestInv
  <2>8. \A x \in gone' : \E q \in Physical : \E v \in 1 .. told'[q] : x = <<q, v>>
    BY <1>1, <1>4 DEF ContestInv
  <2>9. QED
    BY <1>1, <1>3, <1>6, <2>5, <2>6, <2>7, <2>8 DEF ContestInv
<1>8. CASE told["events"] # 0
  <2>1. start = contest.events[1].t /\ start # 0
    BY <1>5, <1>8 DEF ContestInv
  <2>2. UNCHANGED <<start, contestFault>>
    BY <1>1, <2>1
  <2>3. \A q \in Physical : MissedIn(q)' <=> MissedIn(q)
    BY <1>1, <1>4, <2>2 DEF MissedIn
  <2>4. start' = (IF told'["events"] = 0 THEN 0 ELSE contest'.events[1].t)
    BY <1>3, <2>1, <2>2
  <2>5. QED
    BY <1>1, <1>3, <1>4, <1>6, <2>2, <2>3, <2>4 DEF ContestInv
<1>9. QED
  BY <1>7, <1>8

\* An event of the gateway is only counted.
LEMMA HearHookKeeps ==
    ASSUME ContestInv, HearHook
    PROVE  ContestInv'
<1>1. /\ told' = [told EXCEPT !["hooks"] = @ + 1] /\ told["hooks"] < Len(contest.hooks)
      /\ UNCHANGED <<contestIs, gone, start, kept, contestFault>>
  BY DEF HearHook, Available
<1>2. "hooks" \in Topics /\ "hooks" \notin Physical /\ "events" \in Topics /\ Physical \subseteq Topics
  BY DEF Topics, Physical
<1>3. /\ told["hooks"] \in Nat /\ told'["hooks"] = told["hooks"] + 1 /\ told \in [Topics -> Nat]
      /\ \A q \in Topics \ {"hooks"} : told'[q] = told[q]
      /\ told' \in [Topics -> Nat] /\ contest' = contest
  BY <1>1, <1>2 DEF ContestInv, contest
<1>4. \A q \in Topics : told'[q] <= Len(contest'[q])
  <2>1. Len(contest.hooks) \in Nat
    BY ContestTypes DEF ContestInv
  <2>2. QED
    BY <1>1, <1>3, <2>1 DEF ContestInv
<1>5. told'["events"] = told["events"] /\ \A q \in Physical : told'[q] = told[q]
  BY <1>2, <1>3
<1>6. \A q \in Physical : MissedIn(q)' <=> MissedIn(q)
  BY <1>1, <1>5 DEF MissedIn
<1>7. QED
  BY <1>1, <1>3, <1>4, <1>5, <1>6 DEF ContestInv

LEMMA TopicsKeep ==
    ASSUME ContestInv, CompetitionNext \/ UNCHANGED contestVars
    PROVE  ContestInv'
<1>1. CASE \E p \in Physical : HearSample(p) \/ LoseSample(p)
  BY <1>1, HearSampleKeeps, LoseSampleKeeps
<1>2. CASE HearMission
  BY <1>2, HearMissionKeeps
<1>3. CASE HearHook
  BY <1>3, HearHookKeeps
<1>4. CASE UNCHANGED contestVars
  <2>1. UNCHANGED <<contestIs, told, gone, start, kept, contestFault>>
    BY <1>4 DEF contestVars
  <2>2. contest' = contest /\ \A q \in Physical : MissedIn(q)' <=> MissedIn(q)
    BY <2>1 DEF contest, MissedIn
  <2>3. QED
    BY <2>1, <2>2 DEF ContestInv
<1>5. QED
  BY <1>1, <1>2, <1>3, <1>4 DEF CompetitionNext

-----------------------------------------------------------------------------
(* The contest of 2026: the verdict. *)

\* Of a sequence in which all is late enough nothing is left out.
LEMMA SinceAll ==
    ASSUME NEW E, NEW s \in Seq(E), NEW t, \A i \in DOMAIN s : s[i].t >= t
    PROVE  Since(s, t) = s
<1> DEFINE n == Len(s)
           Is(f) == f = [i \in 0 .. n |->
                           IF i = 0 THEN <<>>
                           ELSE IF s[i].t >= t THEN Append(f[i - 1], s[i]) ELSE f[i - 1]]
           step == CHOOSE f : Is(f)
           g == [i \in 0 .. n |-> SubSeq(s, 1, i)]
<1>1. n \in Nat /\ DOMAIN s = 1 .. n
  OBVIOUS
<1>2. SubSeq(s, 1, 0) = <<>> /\ SubSeq(s, 1, n) = s
  BY SubSeqFull, SubSeqEmpty
<1>3. \A i \in 1 .. n : SubSeq(s, 1, i) = Append(SubSeq(s, 1, i - 1), s[i])
  <2> TAKE i \in 1 .. n
  <2> DEFINE a == SubSeq(s, 1, i)
             b == SubSeq(s, 1, i - 1)
  <2>1. /\ a \in Seq(E) /\ Len(a) = i /\ \A k \in 1 .. i : a[k] = s[k]
    BY SubSeqProperties
  <2>2. /\ b \in Seq(E) /\ Len(b) = i - 1 /\ \A k \in 1 .. i - 1 : b[k] = s[k]
    BY SubSeqProperties
  <2> HIDE DEF a, b
  <2>3. s[i] \in E
    OBVIOUS
  <2>4. /\ Append(b, s[i]) \in Seq(E) /\ Len(Append(b, s[i])) = i
        /\ \A k \in 1 .. i : Append(b, s[i])[k] = s[k]
    BY <2>2, <2>3
  <2> DEFINE c == Append(b, s[i])
  <2>5. a = c
    <3>1. c \in Seq(E) /\ Len(c) = i /\ \A k \in 1 .. i : c[k] = s[k]
      BY <2>4
    <3> HIDE DEF c
    <3>2. \A k \in 1 .. i : a[k] = c[k]
      BY <2>1, <3>1
    <3>3. QED
      BY <2>1, <3>1, <3>2, SeqEqual
  <2>6. QED
    BY <2>5 DEF a, b
<1>4. Is(g)
  <2>1. \A i \in 0 .. n : g[i] = IF i = 0 THEN <<>>
                                 ELSE IF s[i].t >= t THEN Append(g[i - 1], s[i]) ELSE g[i - 1]
    <3> TAKE i \in 0 .. n
    <3>1. CASE i = 0
      BY <1>2, <3>1
    <3>2. CASE i # 0
      <4>1. i \in 1 .. n /\ i \in DOMAIN s /\ i - 1 \in 0 .. n /\ s[i].t >= t
        BY <1>1, <3>2
      <4>2. g[i] = SubSeq(s, 1, i) /\ g[i - 1] = SubSeq(s, 1, i - 1)
        BY <4>1
      <4> HIDE DEF g
      <4>3. QED
        BY <1>3, <3>2, <4>1, <4>2
    <3>3. QED
      BY <3>1, <3>2
  <2>2. QED
    BY <2>1
<1>5. Is(step)
  <2> HIDE DEF Is, g
  <2>1. QED
    BY <1>4
<1>6. Since(s, t) = step[n]
  BY DEF Since
<1> HIDE DEF g, step
<1>7. \A i \in 0 .. n : step[i] = IF i = 0 THEN <<>>
                                  ELSE IF s[i].t >= t THEN Append(step[i - 1], s[i]) ELSE step[i - 1]
  BY <1>5
<1> DEFINE S == {i \in 0 .. n : step[i] = SubSeq(s, 1, i)}
<1>8. 0 \in S
  <2>1. 0 \in 0 .. n
    BY <1>1
  <2>2. step[0] = <<>>
    BY <1>7, <2>1
  <2>3. QED
    BY <1>2, <2>1, <2>2
<1>9. ASSUME NEW i \in 0 .. n - 1, i \in S PROVE i + 1 \in S
  <2>1. i + 1 \in 0 .. n /\ i + 1 \in 1 .. n /\ i + 1 \in DOMAIN s /\ i + 1 # 0 /\ (i + 1) - 1 = i
    BY <1>1
  <2>2. step[i + 1] = Append(step[i], s[i + 1])
    BY <1>7, <2>1
  <2>3. SubSeq(s, 1, i + 1) = Append(SubSeq(s, 1, i), s[i + 1])
    BY <1>3, <2>1
  <2>4. QED
    BY <1>9, <2>1, <2>2, <2>3
<1>10. n \in S
  <2> HIDE DEF S, n
  <2>1. \A i \in 0 .. n : i \in S
    BY <1>1, <1>8, <1>9, Rounds
  <2>2. QED
    BY <1>1, <2>1
<1>11. QED
  BY <1>2, <1>6, <1>10

\* What was sent since the start, as ContestIsEarned names it.
SentFrom == contest.events[1].t
SentOf(p) == {t \in SentFrom .. Len(contest.truth) : <<p, t>> \notin gone}
IsLost == \E p \in Physical : \E t \in SentFrom + 1 .. Len(contest.truth) : <<p, t>> \in gone
AllSent ==
    [start |-> SentFrom, truth |-> SentOf("truth"), states |-> SentOf("states"),
     hooks |-> contest.hooks, events |-> contest.events]
SentFault == IF IsLost THEN "gap" ELSE "none"

\* Once the source was observed to its end, the scorer has all of it.
LEMMA ObservedAll ==
    ASSUME ContestInv, ContestObserved
    PROVE  /\ EvidenceHeard = AllSent /\ LastHeard = Len(contest.truth)
           /\ contestFault = SentFault
<1> DEFINE last == Len(contest.truth)
<1>1. /\ Reported(contest) /\ last \in Nat /\ Len(contest.events) \in Nat
      /\ Len(contest.hooks) \in Nat /\ Len(contest.states) = last
      /\ \A i \in DOMAIN contest.events : contest.events[i].t \in 1 .. last
  BY ContestTypes DEF ContestInv
<1>2. /\ DOMAIN contest.events = 1 .. Len(contest.events)
      /\ DOMAIN contest.hooks = 1 .. Len(contest.hooks)
      /\ \A i \in DOMAIN contest.hooks : contest.hooks[i].t \in 1 .. last
  <2> DEFINE D == contest.hooks
             E == [m : {2, 3, 4}, action : {"attach", "release"}, t : 1 .. last]
  <2>1. D \in Seq(E) /\ DOMAIN contest.events = 1 .. Len(contest.events)
    BY <1>1 DEF Reported
  <2>2. \A x \in E : x.t \in 1 .. last
    OBVIOUS
  <2> HIDE DEF D, E
  <2>3. DOMAIN D = 1 .. Len(D) /\ \A i \in DOMAIN D : D[i] \in E
    BY <2>1
  <2>4. QED
    BY <2>1, <2>2, <2>3 DEF D
<1>3. /\ told["events"] \in Nat /\ told["hooks"] \in Nat
      /\ told["events"] <= Len(contest.events) /\ told["hooks"] <= Len(contest.hooks)
      /\ \A p \in Physical : told[p] \in Nat /\ told[p] <= last
  <2>1. \A p \in Topics : told[p] \in Nat /\ told[p] <= Len(contest[p])
    BY DEF ContestInv
  <2>2. "events" \in Topics /\ "hooks" \in Topics /\ "truth" \in Topics /\ "states" \in Topics
    BY DEF Topics, Physical
  <2>3. QED
    BY <1>1, <2>1, <2>2 DEF Physical
<1>4. \A p \in Physical : last \in kept[p]
  BY DEF ContestObserved
<1>5. told["hooks"] = Len(contest.hooks)
  <2>1. told["hooks"] >= 5
    BY DEF ContestObserved
  <2>2. Len(contest.hooks) <= 5
    BY <1>1 DEF Reported
  <2>3. QED
    BY <1>1, <1>3, <2>1, <2>2
<1>6. told["events"] = Len(contest.events) /\ told["events"] # 0
  <2>1. PICK j \in 1 .. told["events"] : contest.events[j].e = "HOME-"
    BY DEF ContestObserved
  <2>2. j \in DOMAIN contest.events
    BY <1>1, <1>2, <1>3
  <2>3. j = Len(contest.events)
    BY <1>1, <2>1, <2>2 DEF Reported
  <2>4. QED
    BY <1>1, <1>3, <2>1, <2>3
<1>7. /\ start = SentFrom /\ start \in 1 .. last
      /\ \A i \in DOMAIN contest.events : contest.events[i].t >= start
      /\ \A i \in DOMAIN contest.hooks : contest.hooks[i].t >= start
  <2>1. start = contest.events[1].t
    BY <1>6 DEF ContestInv
  <2>2. 1 \in DOMAIN contest.events /\ contest.events # <<>>
    BY <1>1, <1>2, <1>6
  <2>3. /\ \A i \in DOMAIN contest.events : contest.events[1].t <= contest.events[i].t
        /\ \A i \in DOMAIN contest.hooks : contest.events[1].t <= contest.hooks[i].t
    BY <1>1, <2>2 DEF Reported
  <2>4. start \in 1 .. last
    BY <1>1, <2>1, <2>2
  <2>5. QED
    BY <1>1, <1>2, <2>1, <2>3, <2>4 DEF SentFrom
<1>8. /\ Since(SubSeq(contest.hooks, 1, told["hooks"]), start) = contest.hooks
      /\ Since(SubSeq(contest.events, 1, told["events"]), start) = contest.events
  <2>1. contest.hooks \in Seq([m : {2, 3, 4}, action : {"attach", "release"}, t : 1 .. last])
        /\ contest.events \in Seq([e : STRING, t : 1 .. last])
    BY <1>1 DEF Reported
  <2>2. SubSeq(contest.hooks, 1, told["hooks"]) = contest.hooks
        /\ SubSeq(contest.events, 1, told["events"]) = contest.events
    BY <1>5, <1>6, <2>1, SubSeqFull
  <2>3. Since(contest.hooks, start) = contest.hooks
    BY <1>7, <2>1, SinceAll
  <2>4. Since(contest.events, start) = contest.events
    BY <1>7, <2>1, SinceAll
  <2>5. QED
    BY <2>2, <2>3, <2>4
<1>9. ASSUME NEW p \in Physical
      PROVE  /\ told[p] = last /\ kept[p] \subseteq 1 .. last /\ <<p, last>> \notin gone
             /\ {t \in kept[p] : t >= start} = SentOf(p)
  <2>1. /\ kept[p] \subseteq 1 .. told[p] /\ \A t \in kept[p] : <<p, t>> \notin gone
        /\ \A t \in 1 .. told[p] : t >= start => t \in kept[p] \/ <<p, t>> \in gone
    BY DEF ContestInv
  <2>2. last \in 1 .. told[p] /\ told[p] \in Nat /\ told[p] <= last
    BY <1>3, <1>4, <2>1
  <2>3. told[p] = last
    BY <1>1, <2>2
  <2>4. ASSUME NEW t PROVE t \in {u \in kept[p] : u >= start} <=> t \in SentOf(p)
    <3>1. start \in Nat /\ start >= 1 /\ SentFrom = start
      BY <1>7
    <3>2. t \in kept[p] => t \in 1 .. last /\ <<p, t>> \notin gone
      BY <2>1, <2>3
    <3>3. t \in 1 .. last /\ t >= start => t \in kept[p] \/ <<p, t>> \in gone
      BY <2>1, <2>3
    <3>4. t \in start .. last <=> t \in 1 .. last /\ t >= start
      BY <1>1, <3>1
    <3>5. QED
      BY <3>1, <3>2, <3>3, <3>4 DEF SentOf
  <2>5. QED
    BY <1>4, <2>1, <2>3, <2>4
<1>10. EvidenceHeard = AllSent
  <2>1. start # 0
    BY <1>7
  <2>2. "truth" \in Physical /\ "states" \in Physical
    BY DEF Physical
  <2>3. QED
    BY <1>7, <1>8, <1>9, <2>1, <2>2 DEF EvidenceHeard, AllSent
<1>11. LastHeard = last
  <2> DEFINE times == kept["truth"] \cup kept["states"]
                      \cup {contest.events[i].t : i \in 1 .. told["events"]}
                      \cup {contest.hooks[i].t : i \in 1 .. told["hooks"]}
             m == CHOOSE t \in times : \A u \in times : u <= t
  <2>1. last \in times
    BY <1>4 DEF Physical
  <2>2. \A u \in times : u \in 1 .. last
    <3>1. kept["truth"] \subseteq 1 .. last /\ kept["states"] \subseteq 1 .. last
      BY <1>9 DEF Physical
    <3>2. \A i \in 1 .. told["events"] : contest.events[i].t \in 1 .. last
      BY <1>1, <1>2, <1>6
    <3>3. \A i \in 1 .. told["hooks"] : contest.hooks[i].t \in 1 .. last
      BY <1>2, <1>5
    <3>4. QED
      BY <3>1, <3>2, <3>3
  <2>3. LastHeard = IF times = {} THEN 0 ELSE m
    BY DEF LastHeard
  <2> HIDE DEF times
  <2>4. \E t \in times : \A u \in times : u <= t
    BY <2>1, <2>2
  <2>5. m \in times /\ \A u \in times : u <= m
    BY <2>4
  <2> HIDE DEF m
  <2>6. m = last
    BY <1>1, <2>1, <2>2, <2>5
  <2>7. QED
    BY <2>1, <2>3, <2>6
<1>12. contestFault = SentFault
  <2>1. \A p \in Physical : MissedIn(p) <=> \E t \in SentFrom + 1 .. last : <<p, t>> \in gone
    <3> TAKE p \in Physical
    <3>1. start = SentFrom /\ start \in Nat /\ told[p] = last /\ <<p, last>> \notin gone
      BY <1>7, <1>9
    <3>2. MissedIn(p) <=> \E v \in Nat : <<p, v>> \in gone /\ start < v /\ v < last
      BY <3>1 DEF MissedIn
    <3>3. ASSUME NEW v \in Nat, <<p, v>> \in gone, start < v, v < last
          PROVE  \E t \in SentFrom + 1 .. last : <<p, t>> \in gone
      <4>1. v \in SentFrom + 1 .. last
        BY <1>1, <3>1, <3>3
      <4>2. QED
        BY <3>3, <4>1
    <3>4. ASSUME NEW t \in SentFrom + 1 .. last, <<p, t>> \in gone PROVE MissedIn(p)
      <4>1. t \in Nat /\ start < t /\ t <= last /\ t # last
        BY <1>1, <3>1, <3>4
      <4>2. t < last
        BY <1>1, <4>1
      <4>3. QED
        BY <3>2, <3>4, <4>1, <4>2
    <3>5. QED
      BY <3>2, <3>3, <3>4
  <2>2. start # 0
    BY <1>7
  <2>3. /\ contestFault \in {"none", "gap"}
        /\ contestFault = "gap" => \E p \in Physical : MissedIn(p)
        /\ contestFault = "none" => \A p \in Physical : ~MissedIn(p)
    BY <2>2 DEF ContestInv
  <2>4. IsLost <=> \E p \in Physical : MissedIn(p)
    BY <2>1 DEF IsLost
  <2>5. QED
    BY <2>3, <2>4 DEF SentFault
<1>13. QED
  BY <1>10, <1>11, <1>12

\* The rules are those of the contest, whatever happens to the topics.
LEMMA RulesStand ==
    ASSUME contestIs' = contestIs
    PROVE  \A ev, fault : ContestResults(ev, fault)' = ContestResults(ev, fault)
<1>1. contest' = contest
  BY DEF contest
<1>2. \A t, at : Landed(t, at)' <=> Landed(t, at)
  BY <1>1 DEF Landed
<1>3. \A ev : HomeLandings(ev)' = HomeLandings(ev)
  BY <1>2 DEF HomeLandings
<1>4. \A ev : HomeBoundary(ev)' = HomeBoundary(ev)
  BY <1>3 DEF HomeBoundary
<1>5. \A ev, m : Boundary(ev, m)' = Boundary(ev, m)
  BY <1>4 DEF Boundary
<1>6. \A ev, m, t : Settled(ev, m, t)' = Settled(ev, m, t)
  BY <1>1 DEF Settled
<1>7. \A ev, m : InTime(ev, m)' <=> InTime(ev, m)
  BY <1>5, <1>6 DEF InTime
<1>8. \A ev : CapacityValid(ev)' <=> CapacityValid(ev)
  BY <1>1 DEF CapacityValid
<1>9. \A ev : HomeLanded(ev)' <=> HomeLanded(ev)
  BY <1>2, <1>3 DEF HomeLanded
<1>10. \A ev, m, t : PhysicalAttach(ev, m, t)' <=> PhysicalAttach(ev, m, t)
  BY <1>1 DEF PhysicalAttach
<1>11. \A ev, m, t : PhysicalRelease(ev, m, t)' <=> PhysicalRelease(ev, m, t)
  BY <1>1 DEF PhysicalRelease
<1>12. \A ev, t : ReleaseGate(ev, t)' <=> ReleaseGate(ev, t)
  BY <1>1 DEF ReleaseGate
<1>13. \A ev, m : Delivered(ev, m)' <=> Delivered(ev, m)
  BY <1>6, <1>7, <1>10, <1>11, <1>12 DEF Delivered
<1>14. \A ev : Fm1Landing(ev)' <=> Fm1Landing(ev)
  BY <1>2 DEF Fm1Landing
<1>15. \A ev, i : Scored(ev, i)' <=> Scored(ev, i)
  BY <1>8, <1>13, <1>14 DEF Scored
<1>16. \A ev, fault : ContestFailure(ev, fault)' = ContestFailure(ev, fault)
  BY <1>7, <1>8, <1>9 DEF ContestFailure
<1>17. QED
  BY <1>15, <1>16 DEF ContestResults

\* The score that was made of all the source sent is the one the rules give it.
ContestEarned ==
    bySource => \A ev \in {AllSent}, fault \in {SentFault} : score \in ContestResults(ev, fault)

LEMMA EarnedIs == ContestEarned => ContestIsEarned
BY DEF ContestEarned, ContestIsEarned, AllSent, SentFault, SentFrom, SentOf, IsLost

LEMMA ContestEarnedKeeps ==
    ASSUME FinalizerInv, ContestInv, ContestEarned,
           CompetitionNext \/ (UNCHANGED contestVars /\ UNCHANGED finalizerVars)
    PROVE  ContestEarned'
<1>1. CASE UNCHANGED finalizerVars /\ score = NoScore
  <2>1. ~ bySource /\ bySource' = bySource
    BY <1>1 DEF FinalizerInv, finalizerVars
  <2>2. QED
    BY <2>1 DEF ContestEarned
<1>2. CASE UNCHANGED contestVars
  <2>1. UNCHANGED <<contestIs, told, gone, start, kept, contestFault>>
    BY <1>2 DEF contestVars
  <2>2. contest' = contest
    BY <2>1 DEF contest
  <2>3. SentFrom' = SentFrom
    BY <2>2 DEF SentFrom
  <2>4. \A p : SentOf(p)' = SentOf(p)
    BY <2>1, <2>2, <2>3 DEF SentOf
  <2>5. IsLost' <=> IsLost
    BY <2>1, <2>2, <2>3 DEF IsLost
  <2>6. AllSent' = AllSent /\ SentFault' = SentFault
    BY <2>2, <2>3, <2>4, <2>5 DEF AllSent, SentFault
  <2>7. ContestEarned' <=> (bySource' => score' \in ContestResults(AllSent, SentFault))
    <3>1. ContestEarned' <=> (bySource' => \A ev \in {AllSent}, fault \in {SentFault} :
                                              score' \in ContestResults(ev, fault)')
      BY <2>6 DEF ContestEarned
    <3>2. \A ev, fault : ContestResults(ev, fault)' = ContestResults(ev, fault)
      BY <2>1, RulesStand
    <3>3. QED
      BY <3>1, <3>2
  <2>8. CASE ContestSourceEnds \/ AskForScore \/ UNCHANGED finalizerVars
    <3>1. UNCHANGED <<score, bySource>>
      BY <2>8, OtherFinalizerSteps DEF ContestSourceEnds
    <3>2. QED
      BY <2>7, <3>1 DEF ContestEarned
  <2>9. CASE CompetitionFinal
    <3>1. PICK ev \in {EvidenceHeard} :
            \/ /\ ContestObserved
               /\ \E result \in ContestResults(ev,
                      IF contestFault = "none" /\ LastHeard # Len(contest.truth)
                      THEN "source_finished_timestamp_mismatch" ELSE contestFault) : PollSource(result)
            \/ \E result \in IF evaluated = NoScore THEN ContestResults(ev, contestFault)
                             ELSE {evaluated} : Quiesce(result)
      BY <2>9 DEF CompetitionFinal
    <3>2. CASE /\ ContestObserved
               /\ \E result \in ContestResults(ev,
                      IF contestFault = "none" /\ LastHeard # Len(contest.truth)
                      THEN "source_finished_timestamp_mismatch" ELSE contestFault) : PollSource(result)
      <4>1. ev = AllSent /\ LastHeard = Len(contest.truth) /\ contestFault = SentFault
        BY <3>1, <3>2, ObservedAll
      <4>2. PICK r \in ContestResults(AllSent, SentFault) : PollSource(r)
        BY <3>2, <4>1
      <4>3. IsResult(r)
        BY <4>2, ContestVerdict DEF SentFault
      <4>4. bySource' => score' = r
        BY <4>2, <4>3, PollKeeps
      <4>5. QED
        BY <2>7, <4>2, <4>4 DEF ContestEarned
    <3>3. CASE \E result \in IF evaluated = NoScore THEN ContestResults(ev, contestFault)
                             ELSE {evaluated} : Quiesce(result)
      <4>1. PICK r : Quiesce(r)
        BY <3>3
      <4>2. bySource' = bySource /\ (score # NoScore => score' = score)
        BY <4>1 DEF Quiesce
      <4>3. bySource => score # NoScore
        BY DEF FinalizerInv
      <4>4. QED
        BY <2>7, <4>2, <4>3 DEF ContestEarned
    <3>4. QED
      BY <3>1, <3>2, <3>3
  <2>10. QED
    <3>1. CASE \E p \in Physical : HearSample(p) \/ LoseSample(p)
      BY <1>1, <3>1 DEF HearSample, LoseSample, Scorable
    <3>2. CASE HearMission \/ HearHook
      BY <1>1, <3>2 DEF HearMission, HearHook, Scorable
    <3>3. QED
      BY <2>8, <2>9, <3>1, <3>2 DEF CompetitionNext
<1>3. QED
  <2>1. CASE \E p \in Physical : HearSample(p) \/ LoseSample(p)
    BY <1>1, <2>1 DEF HearSample, LoseSample, Scorable
  <2>2. CASE HearMission \/ HearHook
    BY <1>1, <2>2 DEF HearMission, HearHook, Scorable
  <2>3. QED
    BY <1>2, <2>1, <2>2 DEF CompetitionNext

\* What the contest's invariant says of the types.
LEMMA ContestTyped == ContestInv => CompetitionTypeOK
<1> SUFFICES ASSUME ContestInv PROVE CompetitionTypeOK
  OBVIOUS
<1>1. \A p \in Topics : told[p] \in Nat /\ told[p] <= Len(contest[p]) /\ Len(contest[p]) \in Nat
  BY ContestTypes DEF ContestInv
<1>2. DOMAIN told = Topics
  BY DEF ContestInv
<1>3. start \in 0 .. Len(contest.truth)
  <2>1. CASE told["events"] = 0
    BY <2>1, ContestTypes DEF ContestInv
  <2>2. CASE told["events"] # 0
    <3>1. told["events"] \in Nat /\ told["events"] <= Len(contest.events)
      BY <1>1 DEF Topics
    <3>2. DOMAIN contest.events = 1 .. Len(contest.events) /\ Len(contest.events) \in Nat
      BY ContestTypes DEF ContestInv, Reported
    <3>3. 1 \in DOMAIN contest.events
      BY <2>2, <3>1, <3>2
    <3>4. contest.events[1].t \in 1 .. Len(contest.truth) /\ Len(contest.truth) \in Nat
      BY <3>3, ContestTypes DEF ContestInv
    <3>5. QED
      BY <2>2, <3>4 DEF ContestInv
  <2>3. QED
    BY <2>1, <2>2
<1>4. \A p \in DOMAIN told : told[p] \in 0 .. Len(contest[p])
  BY <1>1, <1>2
<1>5. QED
  BY <1>3, <1>4 DEF ContestInv, CompetitionTypeOK

-----------------------------------------------------------------------------
(* The course of 2027, flown in order. *)

\* The clock stands while it is paused, and it is paused after a takeoff only.
Still(j) == (j.since # 0 => ~j.paused) /\ (j.paused => j.started # 0)

\* Judge j took the vehicle off, or will before time t, of the epochs F that wait.
TouchAt(j, F, i) == IF i = 0 THEN j.contact ELSE F[i].contact
Flew(j, F, t) ==
    \/ j.started # 0
    \/ \E i \in 0 .. Len(F) - 1 :
         j.t + i > 0 /\ j.t + i < t /\ TouchAt(j, F, i) /\ ~F[i + 1].contact

\* A check of FM2 waits for an epoch after a takeoff: what was flown before is known.
FlownBefore(s) == IsCheck(s, "FM2") => Flew(judge, flown, s.t)

FlightInv ==
    /\ Still(judge)
    /\ vfsNow = 0 => leg = 1
    /\ vfsNow # 0 => (TouchAt(judge, flown, Len(flown)) <=> vfsLegs[leg].contact)
    /\ (\E m \in 1 .. leg - 1 : TakesOff(vfsLegs, m)) => Flew(judge, flown, vfsNow)
    /\ asked # NoCheck => asked.what = "check"
    /\ FlownBefore(asked) /\ \A i \in DOMAIN said : FlownBefore(said[i])

\* What was said is in order of time, and FM2 is not checked after FM3.
SaidInOrder(S) ==
    /\ \A i \in DOMAIN S : S[i].t <= vfsNow + 1
    /\ \A i, k \in DOMAIN S : i < k =>
         S[i].t <= S[k].t /\ (IsCheck(S[i], "FM3") => ~IsCheck(S[k], "FM2"))

AskedInOrder(a, S, last) ==
    a # NoCheck =>
      /\ last < a.t /\ a.t <= vfsNow + 1
      /\ \A i \in DOMAIN S : a.t <= S[i].t /\ (IsCheck(a, "FM3") => ~IsCheck(S[i], "FM2"))

\* FM2 is not checked after leg n.
NoMoreFM2(n) ==
    \A m \in n + 1 .. Len(vfsLegs) : \A i \in DOMAIN vfsLegs[m].says :
      ~IsCheck(vfsLegs[m].says[i], "FM2")

\* FM3 was approved with a delivery, or its check is on its way.
Delivery == {"CP", "CA"}
Payloads == {"BP", "BA", "CP", "CA"}
FM3Asked ==
    \/ points.earned \cap Delivery # {} \/ IsCheck(asked, "FM3")
    \/ \E i \in DOMAIN said : IsCheck(said[i], "FM3")

OrderInv ==
    /\ SaidInOrder(said) /\ AskedInOrder(asked, said, joined)
    /\ FM3Asked => NoMoreFM2(leg)
    /\ points.earned \cap Delivery # {} =>
         ~IsCheck(asked, "FM2") /\ \A i \in DOMAIN said : ~IsCheck(said[i], "FM2")
    /\ points.earned \cap Payloads # {} => points.eligible

\* A truth: a takeoff starts the clock, and a clock that starts is not paused.
LEMMA TruthStill ==
    ASSUME NEW j \in JudgeStates, Clock(j), Still(j), NEW f \in Legs, NEW t, t = j.t + 1
    PROVE  LET k == JudgeTruth(j, f, t) IN
           /\ Still(k) /\ k.contact = f.contact
           /\ j.started # 0 \/ (j.t > 0 /\ j.contact /\ ~f.contact) => k.started # 0
<1> DEFINE takesOff == j.t > 0 /\ j.contact /\ ~f.contact
           unused == j.paused /\ j.approval # 0 /\ t - j.approval > ApprovalEpochs
           first == takesOff /\ j.started = 0
           again == takesOff /\ j.started # 0 /\ j.paused /\ ~j.finished /\ ~unused
           home == /\ j.t > 0 /\ ~j.contact /\ f.contact /\ j.phase = "FM3" /\ f.at = "H"
                   /\ j.since # 0
           k == [j EXCEPT !.t = t, !.contact = f.contact, !.at = f.at,
                       !.takeoffs = IF takesOff /\ @ < 2 THEN @ + 1 ELSE @,
                       !.airborne = @ \/ (takesOff /\ j.phase = "FM2"),
                       !.high = IF takesOff THEN f.high ELSE @ \/ (~f.contact /\ f.high),
                       !.started = IF first THEN t ELSE @,
                       !.since = IF first \/ again THEN t ELSE IF home THEN 0 ELSE @,
                       !.acc = IF home THEN @ + t - j.since ELSE @,
                       !.paused = (@ \/ home) /\ ~again,
                       !.approval = IF again THEN 0 ELSE @,
                       !.finished = @ \/ unused,
                       !.failure = IF unused THEN "approval_timeout" ELSE @]
           late == [k EXCEPT !.acc = ElapsedAt(k, t), !.since = 0, !.finished = TRUE,
                             !.failure = "active_deadline_exceeded"]
<1>1. JudgeTruth(j, f, t) = IF ElapsedAt(k, t) <= ActiveEpochs THEN k ELSE late
  BY DEF JudgeTruth
<1>2. /\ k.started = IF first THEN t ELSE j.started
      /\ k.since = IF first \/ again THEN t ELSE IF home THEN 0 ELSE j.since
      /\ k.paused <=> (j.paused \/ home) /\ ~again
      /\ k.contact = f.contact
  BY DEF JudgeStates
<1>3. /\ late.started = k.started /\ late.since = 0 /\ late.paused = k.paused
      /\ late.contact = k.contact
  <2>1. /\ "started" \in DOMAIN k /\ "since" \in DOMAIN k /\ "paused" \in DOMAIN k
        /\ "contact" \in DOMAIN k
    BY DEF JudgeStates
  <2> HIDE DEF k
  <2>2. QED
    BY <2>1
<1>4. t # 0
  <2>1. j.t \in Nat
    BY DEF JudgeStates
  <2>2. QED
    BY <2>1
<1>5. /\ j.started = 0 => ~j.paused /\ j.since = 0
      /\ j.since # 0 => ~j.paused
  BY DEF Clock, Still
<1>6. (first => j.started = 0) /\ (again => j.started # 0) /\ (home => j.since # 0)
      /\ (first => ~home) /\ (first => takesOff) /\ (takesOff /\ ~first => j.started # 0)
  OBVIOUS
<1>7. takesOff <=> j.t > 0 /\ j.contact /\ ~f.contact
  OBVIOUS
<1> HIDE DEF takesOff, unused, first, again, home, k, late
<1>8. (k.paused => k.started # 0) /\ (k.since # 0 => ~k.paused)
  BY <1>2, <1>4, <1>5, <1>6
<1>9. j.started # 0 \/ takesOff => k.started # 0
  BY <1>2, <1>4, <1>6
<1>10. Still(k) /\ Still(late)
  BY <1>3, <1>8 DEF Still
<1>11. QED
  BY <1>1, <1>2, <1>3, <1>7, <1>9, <1>10

\* Payload and status do not touch the vehicle's contact and its takeoff.
LEMMA ParcelStill ==
    ASSUME NEW j \in JudgeStates, Still(j), NEW f, NEW t
    PROVE  LET k == JudgeParcel(j, f, t) IN
           Still(k) /\ k.contact = j.contact /\ k.started = j.started
<1>1. LET k == JudgeParcel(j, f, t) IN
      /\ k.contact = j.contact /\ k.started = j.started /\ k.since = j.since
      /\ k.paused = j.paused
  BY DEF JudgeParcel, JudgeStates
<1>2. QED
  BY <1>1 DEF Still

LEMMA StatusStill ==
    ASSUME NEW j \in JudgeStates, Clock(j), Still(j), NEW f, NEW t
    PROVE  LET k == JudgeStatus(j, f, t) IN
           Still(k) /\ k.contact = j.contact /\ k.started = j.started
<1> DEFINE k == JudgeStatus(j, f, t)
           pauses == /\ j.phase = "FM2" /\ j.airborne /\ j.since # 0 /\ ~f.armed
                     /\ j.contact /\ j.at = "H"
<1>1. /\ k.contact = j.contact /\ k.started = j.started
      /\ k.since = (IF pauses THEN 0 ELSE j.since) /\ (k.paused <=> j.paused \/ pauses)
  BY DEF JudgeStatus, JudgeStates
<1>2. pauses => j.since # 0
  OBVIOUS
<1> HIDE DEF k, pauses
<1>3. Still(k)
  BY <1>1, <1>2 DEF Still, Clock
<1>4. QED
  BY <1>1, <1>3 DEF k

\* An approval of FM2 stops the clock, of a judge that saw a takeoff.
LEMMA DecideStill ==
    ASSUME NEW j \in JudgeStates, Still(j), NEW c \in Sayings,
           IsCheck(c, "FM2") /\ j.t = c.t => j.started # 0, c.what = "check", c.t <= j.t
    PROVE  LET k == Decide(j, c)[2] IN
           Still(k) /\ k.contact = j.contact /\ k.started = j.started
<1> DEFINE d == Decide(j, c)
           stale == \/ j.t = 0 \/ j.t > c.t \/ c.t - j.t > 1
                    \/ j.statusAt = 0 \/ j.statusAt > c.t \/ c.t - j.statusAt > JudgePatience
                    \/ ~Valid(c)
           landed == [j EXCEPT !.landedAtD = @ \/ c.at = "D"]
           over == [j EXCEPT !.finished = TRUE]
           frozen == FreezeEligible(j, c.t)
<1>1. d[2] \in {j, landed, over} \/ (d[2] = frozen /\ ~stale /\ c.phase = "FM2")
  BY DEF Decide
<1>2. /\ landed.contact = j.contact /\ landed.started = j.started /\ landed.since = j.since
      /\ landed.paused = j.paused
      /\ over.contact = j.contact /\ over.started = j.started /\ over.since = j.since
      /\ over.paused = j.paused
      /\ frozen.contact = j.contact /\ frozen.started = j.started /\ frozen.since = 0
      /\ frozen.paused = TRUE
  BY DEF JudgeStates, FreezeEligible
<1>3. ~stale => j.t = c.t
  <2>1. j.t \in Nat /\ c.t \in Nat
    BY DEF JudgeStates, Sayings
  <2>2. QED
    BY <2>1
<1>4. ~stale /\ c.phase = "FM2" => j.started # 0
  BY <1>3 DEF IsCheck
<1> HIDE DEF d, stale, landed, over, frozen
<1>5. Still(landed) /\ Still(over) /\ (j.started # 0 => Still(frozen))
  BY <1>2 DEF Still
<1>6. QED
  BY <1>1, <1>2, <1>4, <1>5 DEF d

-----------------------------------------------------------------------------
(* What was flown. *)

\* A judge that knows no less.
LEMMA FlewStays ==
    ASSUME NEW j, NEW k, NEW F, NEW t, Flew(j, F, t),
           k.t = j.t, k.contact = j.contact, j.started # 0 => k.started # 0
    PROVE  Flew(k, F, t)
BY DEF Flew, TouchAt

\* A later moment, and one more epoch.
LEMMA FlewMore ==
    ASSUME NEW j \in JudgeStates, NEW F \in Seq(Legs), NEW x \in Legs, NEW t \in Nat, NEW u \in Nat,
           t <= u, Flew(j, F, t)
    PROVE  Flew(j, Append(F, x), u)
<1>1. CASE j.started # 0
  BY <1>1 DEF Flew
<1>2. ASSUME NEW i \in 0 .. Len(F) - 1,
             j.t + i > 0, j.t + i < t, TouchAt(j, F, i), ~F[i + 1].contact
      PROVE  Flew(j, Append(F, x), u)
  <2>1. i \in 0 .. Len(Append(F, x)) - 1
    OBVIOUS
  <2>2. j.t + i < u
    <3>1. j.t \in Nat
      BY DEF JudgeStates
    <3>2. QED
      BY <1>2, <3>1
  <2>3. Append(F, x)[i + 1] = F[i + 1] /\ (i # 0 => Append(F, x)[i] = F[i])
    OBVIOUS
  <2>4. TouchAt(j, Append(F, x), i)
    BY <1>2, <2>3 DEF TouchAt
  <2>5. QED
    BY <1>2, <2>1, <2>2, <2>3, <2>4 DEF Flew
<1>3. QED
  BY <1>1, <1>2 DEF Flew

\* The takeoff of the epoch that is added.
LEMMA FlewNow ==
    ASSUME NEW j \in JudgeStates, NEW F \in Seq(Legs), NEW x \in Legs, NEW n \in Nat,
           n = j.t + Len(F), n > 0, TouchAt(j, F, Len(F)), ~x.contact
    PROVE  Flew(j, Append(F, x), n + 1)
<1> DEFINE G == Append(F, x)
<1>1. Len(F) \in 0 .. Len(G) - 1 /\ G[Len(F) + 1] = x /\ (Len(F) # 0 => G[Len(F)] = F[Len(F)])
  OBVIOUS
<1>2. TouchAt(j, G, Len(F))
  BY <1>1 DEF TouchAt
<1>3. j.t + Len(F) > 0 /\ j.t + Len(F) < n + 1
  OBVIOUS
<1> HIDE DEF G
<1>4. Flew(j, G, n + 1)
  BY <1>1, <1>2, <1>3 DEF Flew
<1>5. QED
  BY <1>4 DEF G

\* The first epoch is judged.
LEMMA FlewOn ==
    ASSUME NEW j \in JudgeStates, NEW k \in JudgeStates, NEW F \in Seq(Legs), Len(F) > 0, NEW t,
           Flew(j, F, t), k.t = j.t + 1, k.contact = F[1].contact,
           j.started # 0 \/ (j.t > 0 /\ j.contact /\ ~F[1].contact) => k.started # 0
    PROVE  Flew(k, Tail(F), t)
<1>1. CASE j.started # 0
  BY <1>1 DEF Flew
<1>2. ASSUME NEW i \in 0 .. Len(F) - 1,
             j.t + i > 0, j.t + i < t, TouchAt(j, F, i), ~F[i + 1].contact
      PROVE  Flew(k, Tail(F), t)
  <2>0. j.t \in Nat
    BY DEF JudgeStates
  <2>1. CASE i = 0
    <3>1. j.t > 0 /\ j.contact /\ ~F[1].contact
      BY <1>2, <2>0, <2>1 DEF TouchAt
    <3>2. QED
      BY <3>1 DEF Flew
  <2>2. CASE i # 0
    <3>1. i - 1 \in 0 .. Len(Tail(F)) - 1 /\ (i - 1) + 1 = i
      BY <2>2
    <3>2. Tail(F)[i] = F[i + 1] /\ (i - 1 # 0 => Tail(F)[i - 1] = F[i])
      BY <2>2
    <3>3. TouchAt(k, Tail(F), i - 1)
      BY <1>2, <2>2, <3>2 DEF TouchAt
    <3>4. k.t + (i - 1) = j.t + i
      BY <2>0
    <3>5. QED
      BY <1>2, <3>1, <3>2, <3>3, <3>4 DEF Flew
  <2>3. QED
    BY <2>1, <2>2
<1>3. QED
  BY <1>1, <1>2 DEF Flew

LEMMA TouchEnds ==
    ASSUME NEW j, NEW k, NEW F \in Seq(Legs), Len(F) > 0, k.contact = F[1].contact
    PROVE  TouchAt(k, Tail(F), Len(Tail(F))) <=> TouchAt(j, F, Len(F))
<1>1. Len(Tail(F)) = Len(F) - 1 /\ (Len(F) # 1 => Tail(F)[Len(F) - 1] = F[Len(F)])
  OBVIOUS
<1>2. Len(Tail(F)) = 0 <=> Len(F) = 1
  BY <1>1
<1>3. CASE Len(F) = 1
  <2>1. Len(Tail(F)) = 0 /\ Len(F) # 0 /\ F[Len(F)] = F[1]
    BY <1>2, <1>3
  <2>2. QED
    BY <2>1 DEF TouchAt
<1>4. CASE Len(F) # 1
  <2>1. Len(Tail(F)) # 0 /\ Len(F) # 0
    BY <1>2, <1>4
  <2>2. Tail(F)[Len(Tail(F))] = F[Len(F)]
    BY <1>1, <1>4, Zenon
  <2>3. QED
    BY <2>1, <2>2 DEF TouchAt
<1>5. QED
  BY <1>3, <1>4

\* Nothing lies between the last epoch that was judged and itself.
LEMMA FlewByNow ==
    ASSUME NEW j \in JudgeStates, NEW F \in Seq(Legs), Flew(j, F, j.t)
    PROVE  j.started # 0
<1>1. j.t \in Nat
  BY DEF JudgeStates
<1>2. \A i \in 0 .. Len(F) - 1 : ~(j.t + i < j.t)
  BY <1>1
<1>3. QED
  BY <1>2 DEF Flew

-----------------------------------------------------------------------------
(* The steps, and what was flown. *)

\* What a leg adds to what was said.
SaidOnLeg(s, k, n) ==
    /\ s.t = vfsNow + 1
    /\ \A phase : IsCheck(s, phase) <=> IsCheck(vfsLegs[n].says[k], phase)

LEMMA WorldSays ==
    ASSUME VfsInv, WorldEpoch
    PROVE  /\ vfsNow \in Nat /\ vfsNow' = vfsNow + 1 /\ leg \in 1 .. Len(vfsLegs)
           /\ vfsLegs' = vfsLegs /\ vfsLegs \in Seq(Legs) /\ InOrder(vfsLegs)
           /\ leg' \in 1 .. Len(vfsLegs) /\ flown' = Append(flown, vfsLegs[leg'])
           /\ UNCHANGED <<joined, asked, judge, points>>
           /\ \/ leg' = leg /\ said' = said
              \/ /\ leg' = leg + 1 /\ vfsNow > 0
                 /\ \A i \in DOMAIN said' :
                      \/ i \in DOMAIN said /\ said'[i] = said[i]
                      \/ \E k \in DOMAIN vfsLegs[leg'].says :
                           i = Len(said) + k /\ SaidOnLeg(said'[i], k, leg')
<1>1. /\ course \in DOMAIN Courses /\ leg \in 1 .. Len(vfsLegs) /\ vfsNow \in Nat
      /\ said \in Seq(Sayings) /\ vfsLegs \in Seq(Legs)
  BY VfsAssumption DEF VfsInv, TopicsInv, vfsLegs
<1>2. InOrder(vfsLegs)
  BY <1>1, CourseAssumption DEF vfsLegs
<1>3. /\ vfsNow' = vfsNow + 1 /\ flown' = Append(flown, vfsLegs'[leg'])
      /\ UNCHANGED <<course, joined, asked, judge, points>>
  BY DEF WorldEpoch, vfsLegs
<1>4. vfsLegs' = vfsLegs
  BY <1>3 DEF vfsLegs
<1>5. CASE /\ vfsNow > 0 /\ leg < Len(vfsLegs) /\ leg' = leg + 1
           /\ said' = said \o [i \in DOMAIN vfsLegs[leg'].says |->
                                 [vfsLegs[leg'].says[i] EXCEPT !.t = vfsNow']]
  <2>1. leg' \in 1 .. Len(vfsLegs)
    BY <1>1, <1>5
  <2>2. PICK says \in Seq(Sayings) : says = vfsLegs[leg'].says
    <3>1. vfsLegs[leg'] \in Legs
      BY <1>1, <2>1
    <3>2. QED
      BY <3>1 DEF Legs
  <2> DEFINE new == [i \in DOMAIN says |-> [says[i] EXCEPT !.t = vfsNow']]
  <2>3. said' = said \o new
    BY <1>5, <2>2
  <2>4. DOMAIN says = 1 .. Len(says) /\ Len(says) \in Nat
    OBVIOUS
  <2>5. new \in Seq({new[i] : i \in DOMAIN says}) /\ Len(new) = Len(says)
    BY <2>4
  <2>6. \A k \in DOMAIN says : SaidOnLeg(new[k], k, leg')
    <3>1. ASSUME NEW k \in DOMAIN says PROVE SaidOnLeg(new[k], k, leg')
      <4>1. says[k] \in Sayings /\ new[k] = [says[k] EXCEPT !.t = vfsNow']
        OBVIOUS
      <4>2. new[k].t = vfsNow' /\ new[k].what = says[k].what /\ new[k].phase = says[k].phase
        BY <4>1 DEF Sayings
      <4>3. QED
        BY <1>3, <2>2, <4>2 DEF SaidOnLeg, IsCheck
    <3>2. QED
      BY <3>1
  <2> HIDE DEF new
  <2>7. ASSUME NEW i \in DOMAIN said'
        PROVE  \/ i \in DOMAIN said /\ said'[i] = said[i]
               \/ \E k \in DOMAIN says : i = Len(said) + k /\ said'[i] = new[k]
    <3>1. Len(said) \in Nat /\ DOMAIN said = 1 .. Len(said)
      BY <1>1
    <3>2. i \in 1 .. Len(said) + Len(says)
      BY <1>1, <2>3, <2>4, <2>5
    <3>3. CASE i <= Len(said)
      BY <1>1, <2>3, <2>5, <3>1, <3>2, <3>3
    <3>4. CASE i > Len(said)
      <4>1. i - Len(said) \in 1 .. Len(says)
        BY <2>4, <3>1, <3>2, <3>4
      <4>2. said'[i] = new[i - Len(said)]
        BY <1>1, <2>3, <2>5, <3>1, <3>2, <3>4
      <4>3. i = Len(said) + (i - Len(said))
        BY <3>1, <3>2
      <4>4. QED
        BY <2>4, <4>1, <4>2, <4>3
    <3>5. QED
      BY <3>1, <3>2, <3>3, <3>4
  <2>8. QED
    BY <1>1, <1>2, <1>3, <1>4, <1>5, <2>1, <2>2, <2>6, <2>7
<1>6. CASE leg' = leg /\ said' = said
  BY <1>1, <1>2, <1>3, <1>4, <1>6
<1>7. QED
  <2>1. vfsLegs'[leg'] = vfsLegs[leg']
    BY <1>4
  <2>2. QED
    BY <1>5, <1>6 DEF WorldEpoch

LEMMA FlightStarts == VfsInit => FlightInv
<1> SUFFICES ASSUME VfsInit PROVE FlightInv
  OBVIOUS
<1>1. /\ judge.since = 0 /\ judge.paused = FALSE /\ leg = 1 /\ vfsNow = 0 /\ asked = NoCheck
      /\ said = vfsLegs[1].says /\ course \in DOMAIN Courses
  BY DEF VfsInit
<1>2. Courses[course] \in Seq(Legs) /\ Len(Courses[course]) > 0 /\ InOrder(Courses[course])
  BY <1>1, VfsAssumption, CourseAssumption
<1>3. InOrder(vfsLegs) /\ 1 \in DOMAIN vfsLegs
  BY <1>2 DEF vfsLegs
<1>4. ASSUME NEW i \in DOMAIN said PROVE ~IsCheck(said[i], "FM2")
  <2>1. IsCheck(said[i], "FM2") => \E m \in 1 .. 1 - 1 : TakesOff(vfsLegs, m)
    BY <1>1, <1>3 DEF InOrder
  <2>2. QED
    BY <2>1
<1>5. ~IsCheck(asked, "FM2")
  BY <1>1 DEF NoCheck, IsCheck
<1>6. Still(judge)
  BY <1>1 DEF Still
<1>7. QED
  BY <1>1, <1>4, <1>5, <1>6 DEF FlightInv, FlownBefore

LEMMA FlightWorld ==
    ASSUME VfsInv, FlightInv, WorldEpoch
    PROVE  FlightInv'
<1> DEFINE x == vfsLegs[leg']
<1>1. /\ vfsNow \in Nat /\ vfsNow' = vfsNow + 1 /\ leg \in 1 .. Len(vfsLegs)
      /\ vfsLegs' = vfsLegs /\ vfsLegs \in Seq(Legs) /\ InOrder(vfsLegs)
      /\ leg' \in 1 .. Len(vfsLegs) /\ flown' = Append(flown, x)
      /\ UNCHANGED <<joined, asked, judge, points>>
  BY WorldSays
<1>2. \/ leg' = leg /\ said' = said
      \/ /\ leg' = leg + 1 /\ vfsNow > 0
         /\ \A i \in DOMAIN said' :
              \/ i \in DOMAIN said /\ said'[i] = said[i]
              \/ \E k \in DOMAIN vfsLegs[leg'].says :
                   i = Len(said) + k /\ SaidOnLeg(said'[i], k, leg')
  BY WorldSays
<1>3. /\ judge \in JudgeStates /\ judge.t = joined /\ flown \in Seq(Legs)
      /\ Len(flown) = vfsNow - joined /\ joined \in Nat /\ Len(flown) \in Nat
      /\ said \in Seq(Sayings) /\ asked \in Sayings \cup {NoCheck}
  BY <1>1 DEF VfsInv, TopicsInv, JudgeInv
<1>4. x \in Legs /\ vfsNow = judge.t + Len(flown)
  BY <1>1, <1>3
<1>5. ASSUME NEW t \in Nat, NEW u \in Nat, t <= u, Flew(judge, flown, t)
      PROVE  Flew(judge, flown', u)
  <2> HIDE DEF x
  <2>1. QED
    BY <1>1, <1>3, <1>4, <1>5, FlewMore
<1>6. (\E m \in 1 .. leg' - 1 : TakesOff(vfsLegs, m)) => Flew(judge, flown', vfsNow')
  <2> SUFFICES ASSUME NEW m \in 1 .. leg' - 1, TakesOff(vfsLegs, m)
               PROVE  Flew(judge, flown', vfsNow')
    OBVIOUS
  <2>1. CASE m \in 1 .. leg - 1
    <3>1. Flew(judge, flown, vfsNow)
      BY <2>1 DEF FlightInv
    <3>2. QED
      BY <1>1, <1>5, <3>1
  <2>2. CASE m \notin 1 .. leg - 1
    <3>1. leg' = leg + 1 /\ vfsNow > 0 /\ m = leg
      BY <1>1, <1>2, <2>2
    <3>2. vfsLegs[leg].contact /\ ~x.contact
      BY <3>1 DEF TakesOff
    <3>3. TouchAt(judge, flown, Len(flown))
      BY <3>1, <3>2 DEF FlightInv
    <3> HIDE DEF x
    <3>4. QED
      BY <1>1, <1>3, <1>4, <3>1, <3>2, <3>3, FlewNow
  <2>3. QED
    BY <2>1, <2>2
<1>7. TouchAt(judge, flown', Len(flown')) <=> vfsLegs[leg'].contact
  <2>1. Len(flown') # 0 /\ flown'[Len(flown')] = x
    <3> HIDE DEF x
    <3>1. Len(flown') = Len(flown) + 1 /\ flown'[Len(flown) + 1] = x
      BY <1>1, <1>3, <1>4
    <3>2. QED
      BY <1>3, <3>1
  <2>2. QED
    BY <2>1 DEF TouchAt
<1>8. ASSUME NEW s \in Sayings \cup {NoCheck}, IsCheck(s, "FM2") => Flew(judge, flown, s.t),
             IsCheck(s, "FM2")
      PROVE  Flew(judge, flown', s.t)
  <2>1. s.t \in Nat
    <3>1. NoCheck.t \in Nat /\ \A c \in Sayings : c.t \in Nat
      BY DEF Sayings, NoCheck
    <3>2. QED
      BY <3>1
  <2>2. s.t <= s.t
    BY <2>1
  <2>3. QED
    BY <1>5, <1>8, <2>1, <2>2
<1>9. FlownBefore(asked)'
  BY <1>1, <1>3, <1>8 DEF FlownBefore, FlightInv
<1>10. ASSUME NEW i \in DOMAIN said', IsCheck(said'[i], "FM2")
       PROVE  Flew(judge, flown', said'[i].t)
  <2>1. CASE i \in DOMAIN said /\ said'[i] = said[i]
    <3>1. said[i] \in Sayings /\ FlownBefore(said[i])
      BY <1>3, <2>1 DEF FlightInv
    <3>2. QED
      BY <1>8, <1>10, <2>1, <3>1 DEF FlownBefore
  <2>2. ASSUME NEW k \in DOMAIN vfsLegs[leg'].says, SaidOnLeg(said'[i], k, leg')
        PROVE  Flew(judge, flown', said'[i].t)
    <3>1. said'[i].t = vfsNow'
          /\ (IsCheck(said'[i], "FM2") => IsCheck(vfsLegs[leg'].says[k], "FM2"))
      BY <1>1, <2>2 DEF SaidOnLeg
    <3>2. IsCheck(vfsLegs[leg'].says[k], "FM2") => \E m \in 1 .. leg' - 1 : TakesOff(vfsLegs, m)
      <4>1. leg' \in DOMAIN vfsLegs
        BY <1>1
      <4>2. QED
        BY <1>1, <4>1 DEF InOrder
    <3>3. QED
      BY <1>6, <1>10, <3>1, <3>2
  <2>3. QED
    BY <1>2, <2>1, <2>2
<1>11. vfsNow' # 0
  BY <1>1
<1>12. \A i \in DOMAIN said' : FlownBefore(said[i])'
  BY <1>1, <1>10 DEF FlownBefore
<1>13. ((\E m \in 1 .. leg - 1 : TakesOff(vfsLegs, m)) => Flew(judge, flown, vfsNow))'
  BY <1>1, <1>6
<1>14. (vfsNow # 0 => (TouchAt(judge, flown, Len(flown)) <=> vfsLegs[leg].contact))'
  BY <1>1, <1>7
<1>15. Still(judge)' /\ (asked # NoCheck => asked.what = "check")'
  BY <1>1 DEF FlightInv
<1>16. QED
  BY <1>9, <1>11, <1>12, <1>13, <1>14, <1>15 DEF FlightInv

\* What was asked is answered, or was said; the judge stays where it is.
LEMMA FlightStays ==
    ASSUME FlightInv, UNCHANGED <<course, leg, vfsNow, flown>>,
           Still(judge'), judge'.t = judge.t, judge'.contact = judge.contact,
           judge.started # 0 => judge'.started # 0,
           \A i \in DOMAIN said' : \E k \in DOMAIN said : said'[i] = said[k],
           \/ asked' \in {asked, NoCheck}
           \/ \E k \in DOMAIN said : asked' = said[k] /\ asked'.what = "check"
    PROVE  FlightInv'
<1>1. vfsLegs' = vfsLegs
  BY DEF vfsLegs
<1>2. ASSUME NEW t, Flew(judge, flown, t) PROVE Flew(judge', flown', t)
  BY <1>2, FlewStays
<1>3. \A n : TouchAt(judge', flown', n) <=> TouchAt(judge, flown, n)
  BY DEF TouchAt
<1>4. (vfsNow # 0 => (TouchAt(judge, flown, Len(flown)) <=> vfsLegs[leg].contact))'
  BY <1>1, <1>3 DEF FlightInv
<1>5. ((\E m \in 1 .. leg - 1 : TakesOff(vfsLegs, m)) => Flew(judge, flown, vfsNow))'
  BY <1>1, <1>2 DEF FlightInv
<1>6. \A i \in DOMAIN said' : IsCheck(said'[i], "FM2") => Flew(judge', flown', said'[i].t)
  BY <1>2 DEF FlightInv, FlownBefore
<1>7. IsCheck(asked', "FM2") => Flew(judge', flown', asked'.t)
  <2>1. ~IsCheck(NoCheck, "FM2")
    BY DEF NoCheck, IsCheck
  <2>2. QED
    BY <1>2, <2>1 DEF FlightInv, FlownBefore
<1>8. asked' # NoCheck => asked'.what = "check"
  BY DEF FlightInv
<1>9. (vfsNow = 0 => leg = 1)'
  BY DEF FlightInv
<1>10. QED
  BY <1>4, <1>5, <1>6, <1>7, <1>8, <1>9 DEF FlightInv, FlownBefore

LEMMA FlightHear ==
    ASSUME VfsInv, FlightInv, Hear
    PROVE  FlightInv'
<1> DEFINE s == Head(said)
<1>1. /\ said # <<>> /\ said' = Tail(said) /\ said \in Seq(Sayings)
      /\ UNCHANGED <<course, leg, vfsNow, flown, skipped, got, joined, draining, vfsRun>>
  BY DEF Hear, VfsInv, TopicsInv
<1>2. 1 \in DOMAIN said /\ s = said[1] /\ s \in Sayings
  BY <1>1
<1>3. \A i \in DOMAIN said' : \E k \in DOMAIN said : said'[i] = said[k]
  <2>1. ASSUME NEW i \in DOMAIN said' PROVE \E k \in DOMAIN said : said'[i] = said[k]
    <3>1. i + 1 \in DOMAIN said /\ said'[i] = said[i + 1]
      BY <1>1
    <3>2. QED
      BY <3>1
  <2>2. QED
    BY <2>1
<1>4. judge \in JudgeStates /\ Clock(judge) /\ judge.t = joined /\ Still(judge)
  BY DEF VfsInv, JudgeInv, FlightInv
<1> HIDE DEF s
<1>5. /\ Still(judge') /\ judge'.t = judge.t /\ judge'.contact = judge.contact
      /\ judge'.started = judge.started
      /\ asked' = asked \/ (asked' = s /\ s.what = "check")
  <2>1. CASE /\ s.what = "started" /\ UNCHANGED asked
             /\ judge' = [judge EXCEPT
                  !.phase = s.phase,
                  !.airborne = IF s.phase = "FM2" THEN judge.t > 0 /\ ~judge.contact ELSE @]
    <3>1. /\ judge'.t = judge.t /\ judge'.since = judge.since /\ judge'.paused = judge.paused
          /\ judge'.started = judge.started /\ judge'.contact = judge.contact
      BY <1>4, <2>1 DEF JudgeStates
    <3>2. QED
      BY <1>4, <2>1, <3>1 DEF Still
  <2>2. CASE /\ s.what = "check" /\ asked' = s /\ UNCHANGED judge
    BY <1>4, <2>2
  <2>3. CASE /\ s.what = "check" /\ joined >= s.t /\ judge' = Decide(judge, s)[2]
             /\ UNCHANGED asked
    <3>1. s.t <= judge.t
      BY <1>2, <1>4, <2>3 DEF Sayings, JudgeStates
    <3>2. IsCheck(s, "FM2") /\ judge.t = s.t => judge.started # 0
      <4>1. IsCheck(s, "FM2") => Flew(judge, flown, s.t)
        BY <1>2 DEF FlightInv, FlownBefore
      <4>2. flown \in Seq(Legs)
        BY DEF VfsInv, TopicsInv
      <4>3. QED
        BY <1>4, <4>1, <4>2, FlewByNow
    <3>3. Still(judge') /\ judge'.contact = judge.contact /\ judge'.started = judge.started
      BY <1>2, <1>4, <2>3, <3>1, <3>2, DecideStill
    <3>4. judge'.t = judge.t
      BY <1>2, <1>4, <2>3, DecideKeeps
    <3>5. QED
      BY <2>3, <3>3, <3>4
  <2>4. CASE UNCHANGED <<judge, asked>>
    BY <1>4, <2>4
  <2>5. QED
    BY <2>1, <2>2, <2>3, <2>4 DEF Hear, Answer, s
<1>6. QED
  BY <1>1, <1>2, <1>3, <1>5, FlightStays

LEMMA FlightJoin ==
    ASSUME VfsInv, FlightInv, JoinEpoch
    PROVE  FlightInv'
<1> DEFINE t == joined + 1
           f == Fact(t)
           j1 == JudgeTruth(judge, f, t)
           j2 == JudgeParcel(j1, f, t)
           j3 == IF StatusDue(t) THEN JudgeStatus(j2, f, t) ELSE j2
<1>1. /\ EpochComplete(t) /\ (asked = NoCheck \/ asked.t >= t)
      /\ joined' = t /\ flown' = Tail(flown)
      /\ \/ asked # NoCheck /\ t >= asked.t /\ judge' = Decide(j3, asked)[2] /\ asked' = NoCheck
         \/ judge' = j3 /\ asked' = asked
      /\ UNCHANGED <<course, leg, vfsNow, said>>
  BY DEF JoinEpoch, Answer
<1>2. /\ joined \in 0 .. vfsNow /\ vfsNow \in Nat /\ flown \in Seq(Legs)
      /\ Len(flown) = vfsNow - joined
      /\ got \in [PhysicalTopics -> 0 .. vfsNow] /\ asked \in Sayings \cup {NoCheck}
  BY VfsAssumption DEF VfsInv, TopicsInv
<1>3. judge \in JudgeStates /\ judge.t = joined /\ Clock(judge) /\ Still(judge)
  BY DEF VfsInv, JudgeInv, FlightInv
<1>4. t <= vfsNow /\ t \in Nat /\ joined \in Nat
  <2>1. got["truth"] \in 0 .. vfsNow /\ got["truth"] >= t
    BY <1>1, <1>2 DEF EpochComplete, PhysicalTopics
  <2>2. QED
    BY <1>2, <2>1
<1>5. Len(flown) > 0 /\ f = flown[1] /\ f \in Legs
  <2>1. Len(flown) >= 1 /\ t - joined = 1
    BY <1>2, <1>4
  <2>2. QED
    BY <1>2, <2>1 DEF Fact
<1>6. t = judge.t + 1
  BY <1>3
<1> HIDE DEF t, f
<1>7. /\ j1 \in JudgeStates /\ Clock(j1) /\ j1.t = t
      /\ Still(j1) /\ j1.contact = f.contact
      /\ judge.started # 0 \/ (judge.t > 0 /\ judge.contact /\ ~f.contact) => j1.started # 0
  BY <1>3, <1>5, <1>6, TruthKeepsClock, TruthStill
<1> HIDE DEF j1
<1>8. /\ j2 \in JudgeStates /\ Clock(j2) /\ j2.t = t
      /\ Still(j2) /\ j2.contact = f.contact /\ j2.started = j1.started
  BY <1>4, <1>5, <1>7, ParcelKeepsClock, ParcelStill
<1> HIDE DEF j2
<1>9. /\ j3 \in JudgeStates /\ Clock(j3) /\ j3.t = t
      /\ Still(j3) /\ j3.contact = f.contact /\ j3.started = j1.started
  BY <1>5, <1>8, StatusKeepsClock, StatusStill
<1> HIDE DEF j3
<1>10. ASSUME NEW u, Flew(judge, flown, u) PROVE Flew(j3, flown', u)
  BY <1>1, <1>2, <1>3, <1>5, <1>6, <1>7, <1>9, <1>10, FlewOn
<1>11. /\ Still(judge') /\ judge'.contact = f.contact /\ judge'.t = t
       /\ judge'.started = j3.started /\ asked' \in {asked, NoCheck}
  <2>1. CASE asked # NoCheck /\ t >= asked.t /\ judge' = Decide(j3, asked)[2] /\ asked' = NoCheck
    <3>1. asked \in Sayings /\ asked.what = "check" /\ asked.t = j3.t
      <4>1. asked \in Sayings /\ asked.what = "check" /\ asked.t >= t
        BY <1>1, <1>2, <2>1 DEF FlightInv
      <4>2. asked.t \in Nat
        BY <4>1 DEF Sayings
      <4>3. QED
        BY <1>4, <1>9, <2>1, <4>1, <4>2
    <3>2. IsCheck(asked, "FM2") => j3.started # 0
      <4>1. IsCheck(asked, "FM2") => Flew(j3, flown', j3.t)
        BY <1>10, <3>1 DEF FlightInv, FlownBefore
      <4>2. flown' \in Seq(Legs)
        BY <1>1, <1>2, <1>5
      <4>3. QED
        BY <1>9, <4>1, <4>2, FlewByNow
    <3>3. asked.t <= j3.t
      BY <1>4, <1>9, <3>1
    <3>4. Still(judge') /\ judge'.contact = j3.contact /\ judge'.started = j3.started
      BY <1>9, <2>1, <3>1, <3>2, <3>3, DecideStill
    <3>5. judge'.t = j3.t
      BY <1>9, <2>1, <3>1, DecideKeeps
    <3>6. QED
      BY <1>9, <2>1, <3>4, <3>5
  <2>2. CASE judge' = j3 /\ asked' = asked
    BY <1>9, <2>2
  <2>3. QED
    BY <1>1, <2>1, <2>2
<1>12. ASSUME NEW u, Flew(judge, flown, u) PROVE Flew(judge', flown', u)
  <2>1. Flew(j3, flown', u)
    BY <1>10, <1>12
  <2>2. judge'.t = j3.t /\ judge'.contact = j3.contact
    BY <1>9, <1>11
  <2>3. QED
    BY <1>11, <2>1, <2>2, FlewStays
<1>13. vfsLegs' = vfsLegs /\ leg' = leg /\ vfsNow' = vfsNow /\ said' = said
  BY <1>1 DEF vfsLegs
<1>14. TouchAt(judge', flown', Len(flown')) <=> TouchAt(judge, flown, Len(flown))
  BY <1>1, <1>2, <1>5, <1>11, TouchEnds
<1>15. (vfsNow # 0 => (TouchAt(judge, flown, Len(flown)) <=> vfsLegs[leg].contact))'
  BY <1>13, <1>14 DEF FlightInv
<1>16. ((\E m \in 1 .. leg - 1 : TakesOff(vfsLegs, m)) => Flew(judge, flown, vfsNow))'
  BY <1>12, <1>13 DEF FlightInv
<1>17. \A i \in DOMAIN said' : FlownBefore(said[i])'
  BY <1>12, <1>13 DEF FlightInv, FlownBefore
<1>18. FlownBefore(asked)' /\ (asked' # NoCheck => asked'.what = "check")
  <2>1. ~IsCheck(NoCheck, "FM2")
    BY DEF NoCheck, IsCheck
  <2>2. QED
    BY <1>11, <1>12, <2>1 DEF FlightInv, FlownBefore
<1>19. QED
  BY <1>11, <1>13, <1>15, <1>16, <1>17, <1>18 DEF FlightInv

LEMMA FlightKeeps ==
    ASSUME VfsInv, FlightInv, VfsNext \/ UNCHANGED vfsVars
    PROVE  FlightInv'
<1>1. CASE \/ \E p \in PhysicalTopics : Receive(p)
           \/ ScoreVfs \/ DrainEnds \/ UNCHANGED vfsVars
  <2>1. UNCHANGED <<course, leg, vfsNow, flown, said>> /\ asked' \in {asked, NoCheck}
    BY <1>1 DEF Receive, ScoreVfs, DrainEnds, vfsVars
  <2>2. judge' = judge
    BY <1>1 DEF Receive, ScoreVfs, DrainEnds, Answer, vfsVars
  <2>3. Still(judge')
    BY <2>2 DEF FlightInv
  <2>4. QED
    BY <2>1, <2>2, <2>3, FlightStays
<1>2. QED
  BY <1>1, FlightWorld, FlightHear, FlightJoin DEF VfsNext, VfsCallbacks

-----------------------------------------------------------------------------
(* The steps, and the order of what is asked. *)

LEMMA OrderStarts == VfsInit => OrderInv
<1> SUFFICES ASSUME VfsInit PROVE OrderInv
  OBVIOUS
<1>1. /\ leg = 1 /\ vfsNow = 0 /\ asked = NoCheck /\ points.earned = {}
      /\ said = vfsLegs[1].says /\ course \in DOMAIN Courses
  BY DEF VfsInit, NoPoints
<1>2. Courses[course] \in Seq(Legs) /\ Len(Courses[course]) > 0 /\ InOrder(Courses[course])
  BY <1>1, VfsAssumption, CourseAssumption
<1>3. InOrder(vfsLegs) /\ vfsLegs \in Seq(Legs) /\ 1 \in DOMAIN vfsLegs
  BY <1>2 DEF vfsLegs
<1>4. \A i \in DOMAIN said : said[i].t = 1
  BY <1>1, <1>3 DEF InOrder
<1>5. said \in Seq(Sayings)
  <2>1. vfsLegs[1] \in Legs
    BY <1>3
  <2>2. QED
    BY <1>1, <2>1 DEF Legs
<1>6. ASSUME NEW i \in DOMAIN said, NEW k \in DOMAIN said, i < k, IsCheck(said[i], "FM3")
      PROVE  ~IsCheck(said[k], "FM2")
  <2>1. 1 \in 1 .. 1 /\ ~(k < i)
    BY <1>5, <1>6
  <2>2. QED
    BY <1>1, <1>3, <1>6, <2>1 DEF InOrder
<1>7. SaidInOrder(said)
  BY <1>1, <1>4, <1>6 DEF SaidInOrder
<1>8. ~IsCheck(asked, "FM3")
  BY <1>1 DEF NoCheck, IsCheck
<1>9. FM3Asked => NoMoreFM2(leg)
  <2>1. ASSUME NEW i \in DOMAIN said, IsCheck(said[i], "FM3"),
               NEW m \in 1 + 1 .. Len(vfsLegs), NEW k \in DOMAIN vfsLegs[m].says,
               IsCheck(vfsLegs[m].says[k], "FM2")
        PROVE  FALSE
    <3>1. m \in DOMAIN vfsLegs /\ 1 \in 1 .. m /\ m # 1
      BY <1>3, <2>1
    <3>2. QED
      BY <1>1, <1>3, <2>1, <3>1 DEF InOrder
  <2>2. QED
    BY <1>1, <1>8, <2>1 DEF FM3Asked, NoMoreFM2
<1>10. QED
  BY <1>1, <1>7, <1>9 DEF OrderInv, AskedInOrder

LEMMA OrderWorld ==
    ASSUME VfsInv, OrderInv, WorldEpoch
    PROVE  OrderInv'
<1>1. /\ vfsNow \in Nat /\ vfsNow' = vfsNow + 1 /\ leg \in 1 .. Len(vfsLegs)
      /\ vfsLegs' = vfsLegs /\ vfsLegs \in Seq(Legs) /\ InOrder(vfsLegs)
      /\ leg' \in 1 .. Len(vfsLegs)
      /\ UNCHANGED <<joined, asked, judge, points>>
  BY WorldSays
<1>2. \/ leg' = leg /\ said' = said
      \/ /\ leg' = leg + 1 /\ vfsNow > 0
         /\ \A i \in DOMAIN said' :
              \/ i \in DOMAIN said /\ said'[i] = said[i]
              \/ \E k \in DOMAIN vfsLegs[leg'].says :
                   i = Len(said) + k /\ SaidOnLeg(said'[i], k, leg')
  BY WorldSays
<1>3. said \in Seq(Sayings) /\ asked \in Sayings \cup {NoCheck} /\ joined \in Nat
  BY <1>1 DEF VfsInv, TopicsInv
<1>4. /\ \A i \in DOMAIN said : said[i].t \in Nat
      /\ asked.t \in Nat
  <2>1. NoCheck.t \in Nat /\ \A c \in Sayings : c.t \in Nat
    BY DEF Sayings, NoCheck
  <2>2. \A i \in DOMAIN said : said[i] \in Sayings
    BY <1>3
  <2>3. QED
    BY <1>3, <2>1, <2>2
<1>5. /\ SaidInOrder(said) /\ AskedInOrder(asked, said, joined) /\ (FM3Asked => NoMoreFM2(leg))
      /\ points.earned \cap Delivery # {} =>
           ~IsCheck(asked, "FM2") /\ \A i \in DOMAIN said : ~IsCheck(said[i], "FM2")
      /\ points.earned \cap Payloads # {} => points.eligible
  BY DEF OrderInv
<1>6. CASE leg' = leg /\ said' = said
  <2>1. \A i \in DOMAIN said' : said'[i].t <= vfsNow' + 1
    <3>1. \A i \in DOMAIN said : said[i].t <= vfsNow + 1
      BY <1>5 DEF SaidInOrder
    <3>2. QED
      BY <1>1, <1>4, <1>6, <3>1
  <2>2. SaidInOrder(said)'
    BY <1>5, <1>6, <2>1 DEF SaidInOrder
  <2>3. asked # NoCheck => asked.t <= vfsNow' + 1
    BY <1>1, <1>4, <1>5 DEF AskedInOrder
  <2>4. AskedInOrder(asked, said, joined)'
    BY <1>1, <1>5, <1>6, <2>3 DEF AskedInOrder
  <2>5. (FM3Asked => NoMoreFM2(leg))'
    BY <1>1, <1>5, <1>6 DEF FM3Asked, NoMoreFM2
  <2>6. QED
    BY <1>1, <1>5, <1>6, <2>2, <2>4, <2>5 DEF OrderInv
<1>7. CASE leg' = leg + 1 /\ ~(leg' = leg /\ said' = said)
  <2> DEFINE Old(i) == i \in DOMAIN said /\ said'[i] = said[i]
             New(i, k) == /\ k \in DOMAIN vfsLegs[leg'].says
                          /\ i = Len(said) + k /\ SaidOnLeg(said'[i], k, leg')
  <2>1. \A i \in DOMAIN said' : Old(i) \/ \E k : New(i, k)
    BY <1>2, <1>7
  <2>2. leg' \in DOMAIN vfsLegs /\ DOMAIN said = 1 .. Len(said) /\ Len(said) \in Nat
    BY <1>1, <1>3
  <2>3. \A k \in DOMAIN vfsLegs[leg'].says : k \in Nat /\ k > 0
    <3>1. vfsLegs[leg'].says \in Seq(Sayings)
      <4>1. vfsLegs[leg'] \in Legs
        BY <1>1
      <4>2. QED
        BY <4>1 DEF Legs
    <3>2. QED
      BY <3>1
  <2>4. ASSUME NEW i, NEW k, New(i, k)
        PROVE  /\ said'[i].t = vfsNow' /\ i > Len(said) /\ i = Len(said) + k /\ k \in Nat
               /\ \A phase : IsCheck(said'[i], phase) <=> IsCheck(vfsLegs[leg'].says[k], phase)
    <3>1. k \in Nat /\ k > 0
      BY <2>3, <2>4
    <3>2. QED
      BY <1>1, <2>2, <2>4, <3>1 DEF SaidOnLeg
  <2>5. NoMoreFM2(leg) => /\ \A k \in DOMAIN vfsLegs[leg'].says : ~IsCheck(vfsLegs[leg'].says[k], "FM2")
                          /\ NoMoreFM2(leg')
    <3>1. leg' \in leg + 1 .. Len(vfsLegs) /\ leg' + 1 .. Len(vfsLegs) \subseteq leg + 1 .. Len(vfsLegs)
      BY <1>1, <1>7
    <3>2. QED
      BY <3>1 DEF NoMoreFM2
  <2>6. NoMoreFM2(leg) => \A i, k : New(i, k) => ~IsCheck(said'[i], "FM2")
    BY <2>4, <2>5
  <2> HIDE DEF New
  <2>7. ASSUME NEW i \in DOMAIN said', NEW k \in DOMAIN said', i < k
        PROVE  said'[i].t <= said'[k].t /\ (IsCheck(said'[i], "FM3") => ~IsCheck(said'[k], "FM2"))
    <3>1. CASE Old(i) /\ Old(k)
      BY <1>5, <2>7, <3>1 DEF SaidInOrder
    <3>2. ASSUME Old(i), NEW b, New(k, b)
          PROVE  said'[i].t <= said'[k].t /\ (IsCheck(said'[i], "FM3") => ~IsCheck(said'[k], "FM2"))
      <4>1. said[i].t <= vfsNow + 1
        BY <1>5, <3>2 DEF SaidInOrder
      <4>2. said'[i].t <= said'[k].t
        BY <1>1, <2>4, <3>2, <4>1
      <4>3. IsCheck(said'[i], "FM3") => NoMoreFM2(leg)
        BY <1>5, <3>2 DEF FM3Asked
      <4>4. QED
        BY <2>6, <3>2, <4>2, <4>3
    <3>3. ASSUME NEW a, New(i, a), Old(k) PROVE FALSE
      BY <2>2, <2>4, <2>7, <3>3
    <3>4. ASSUME NEW a, New(i, a), NEW b, New(k, b)
          PROVE  said'[i].t <= said'[k].t /\ (IsCheck(said'[i], "FM3") => ~IsCheck(said'[k], "FM2"))
      <4>1. a \in DOMAIN vfsLegs[leg'].says /\ b \in DOMAIN vfsLegs[leg'].says
        BY <3>4 DEF New
      <4>2. a < b /\ ~(b < a) /\ said'[i].t <= said'[k].t
        BY <1>1, <2>2, <2>4, <2>7, <3>4
      <4>3. leg' \in 1 .. leg'
        BY <1>1
      <4>4. IsCheck(vfsLegs[leg'].says[a], "FM3") => ~IsCheck(vfsLegs[leg'].says[b], "FM2")
        BY <1>1, <2>2, <4>1, <4>2, <4>3 DEF InOrder
      <4>5. QED
        BY <2>4, <3>4, <4>2, <4>4
    <3>5. QED
      BY <2>1, <3>1, <3>2, <3>3, <3>4
  <2>8. ASSUME NEW i \in DOMAIN said' PROVE said'[i].t <= vfsNow' + 1
    <3>1. CASE Old(i)
      <4>1. said[i].t <= vfsNow + 1
        BY <1>5, <3>1 DEF SaidInOrder
      <4>2. QED
        BY <1>1, <1>4, <3>1, <4>1
    <3>2. CASE \E k : New(i, k)
      BY <1>1, <2>4, <3>2
    <3>3. QED
      BY <2>1, <3>1, <3>2
  <2>9. SaidInOrder(said)'
    BY <2>7, <2>8 DEF SaidInOrder
  <2>10. AskedInOrder(asked, said, joined)'
    <3> SUFFICES ASSUME asked # NoCheck
                 PROVE  /\ joined < asked.t /\ asked.t <= vfsNow' + 1
                        /\ \A i \in DOMAIN said' :
                             asked.t <= said'[i].t
                             /\ (IsCheck(asked, "FM3") => ~IsCheck(said'[i], "FM2"))
      BY <1>1 DEF AskedInOrder
    <3>1. /\ joined < asked.t /\ asked.t <= vfsNow + 1
          /\ \A i \in DOMAIN said : asked.t <= said[i].t
                                    /\ (IsCheck(asked, "FM3") => ~IsCheck(said[i], "FM2"))
      BY <1>5 DEF AskedInOrder
    <3>2. asked.t <= vfsNow' /\ asked.t <= vfsNow' + 1
      BY <1>1, <1>4, <3>1
    <3>3. IsCheck(asked, "FM3") => NoMoreFM2(leg)
      BY <1>5 DEF FM3Asked
    <3>4. QED
      BY <2>1, <2>4, <2>6, <3>1, <3>2, <3>3
  <2>11. FM3Asked' => NoMoreFM2(leg')
    <3>1. ASSUME NEW i \in DOMAIN said', NEW a, New(i, a), IsCheck(said'[i], "FM3"),
                 NEW m \in leg' + 1 .. Len(vfsLegs), NEW k \in DOMAIN vfsLegs[m].says,
                 IsCheck(vfsLegs[m].says[k], "FM2")
          PROVE  FALSE
      <4>1. m \in DOMAIN vfsLegs /\ leg' \in 1 .. m /\ m # leg'
        <5>1. ASSUME NEW l \in Nat, NEW n \in Nat, 1 <= l, m \in l + 1 .. n
              PROVE  m \in 1 .. n /\ l \in 1 .. m /\ m # l
          BY <5>1
        <5>2. /\ leg' \in Nat /\ 1 <= leg' /\ Len(vfsLegs) \in Nat
              /\ DOMAIN vfsLegs = 1 .. Len(vfsLegs)
          BY <1>1
        <5>3. m \in leg' + 1 .. Len(vfsLegs)
          OBVIOUS
        <5>4. QED
          BY <5>1, <5>2, <5>3
      <4>2. a \in DOMAIN vfsLegs[leg'].says /\ IsCheck(vfsLegs[leg'].says[a], "FM3")
        BY <2>4, <3>1 DEF New
      <4>3. QED
        BY <1>1, <3>1, <4>1, <4>2 DEF InOrder
    <3>2. (\E i \in DOMAIN said' : \E a : New(i, a) /\ IsCheck(said'[i], "FM3")) => NoMoreFM2(leg')
      BY <3>1 DEF NoMoreFM2
    <3>3. FM3Asked' => FM3Asked \/ \E i \in DOMAIN said' : \E a : New(i, a) /\ IsCheck(said'[i], "FM3")
      BY <1>1, <2>1 DEF FM3Asked
    <3>4. QED
      BY <1>5, <2>5, <3>2, <3>3
  <2>12. (FM3Asked => NoMoreFM2(leg))'
    BY <1>1, <2>11 DEF NoMoreFM2
  <2>13. points.earned \cap Delivery # {} => \A i \in DOMAIN said' : ~IsCheck(said'[i], "FM2")
    <3>1. points.earned \cap Delivery # {} => NoMoreFM2(leg)
      BY <1>5 DEF FM3Asked
    <3>2. QED
      BY <1>5, <2>1, <2>6, <3>1
  <2>14. QED
    BY <1>1, <1>5, <2>9, <2>10, <2>12, <2>13 DEF OrderInv
<1>8. QED
  BY <1>2, <1>6, <1>7

\* What an approval of c gives: a payload needs one that was eligible, a delivery FM3.
Gives(p, q, c) ==
    /\ q.earned \cap Payloads # {} => q.eligible
    /\ q.earned \cap Delivery # {} => p.earned \cap Delivery # {} \/ IsCheck(c, "FM3")

LEMMA GivesLess ==
    ASSUME NEW p, NEW q, NEW c, p.earned \cap Payloads # {} => p.eligible,
           q.earned \subseteq p.earned \cup {"T"}, q.eligible = p.eligible
    PROVE  Gives(p, q, c)
BY DEF Gives, Payloads, Delivery

LEMMA ApprovalGives ==
    ASSUME NEW p \in PointStates, p.earned \cap Payloads # {} => p.eligible, NEW j,
           NEW c \in Sayings, c.what = "check", IsCheck(c, "FM2") => p.earned \cap Delivery = {}
    PROVE  Gives(p, ScoreApproval(p, j, c), c)
<1>1. CASE c.phase = "FM1"
  <2>1. ScoreApproval(p, j, c) = p
        \/ \E a \in {"A", "A+"} :
             ScoreApproval(p, j, c) = [p EXCEPT !.earned = (@ \ {"A", "A+"}) \cup {a}]
    BY <1>1 DEF ScoreApproval
  <2>2. \A a \in {"A", "A+"} :
          LET q == [p EXCEPT !.earned = (@ \ {"A", "A+"}) \cup {a}]
          IN q.earned = (p.earned \ {"A", "A+"}) \cup {a} /\ q.eligible = p.eligible
    BY DEF PointStates
  <2>3. QED
    BY <2>1, <2>2 DEF Gives, Payloads, Delivery
<1>2. CASE c.phase = "FM2"
  <2> DEFINE e == (p.earned \ {"BP", "BA"})
                    \cup (IF j.eligible /\ ~p.lowRelease THEN {"BP"} ELSE {})
                    \cup (IF j.eligible /\ "FM2" \in p.auto THEN {"BA"} ELSE {})
             a == [p EXCEPT !.eligible = j.eligible, !.active = j.acc, !.home = FALSE, !.earned = e]
  <2>1. ScoreApproval(p, j, c) = a
    BY <1>2 DEF ScoreApproval
  <2>2. p.earned \cap Delivery = {}
    BY <1>2 DEF IsCheck
  <2>3. (e \cap Payloads # {} => j.eligible) /\ e \cap Delivery = {}
    BY <2>2 DEF Payloads, Delivery
  <2> HIDE DEF e
  <2>4. a.earned = e /\ a.eligible = j.eligible
    BY DEF PointStates
  <2> HIDE DEF a
  <2>5. QED
    BY <2>1, <2>3, <2>4 DEF Gives
<1>3. CASE c.phase = "FM3"
  <2> DEFINE given == p.eligible /\ j.parcel = "L"
             e == (p.earned \ {"CP", "CA"})
                    \cup (IF given /\ ~p.badRelease THEN {"CP"} ELSE {})
                    \cup (IF given /\ "FM3" \in p.auto THEN {"CA"} ELSE {})
             a == [p EXCEPT !.active = ElapsedAt(j, j.t), !.home = TRUE, !.earned = e]
  <2>1. ScoreApproval(p, j, c) = a
    BY <1>3 DEF ScoreApproval
  <2>2. e \cap Payloads # {} => p.eligible
    BY DEF Payloads
  <2> HIDE DEF e
  <2>3. a.earned = e /\ a.eligible = p.eligible
    BY DEF PointStates
  <2> HIDE DEF a
  <2>4. IsCheck(c, "FM3")
    BY <1>3 DEF IsCheck
  <2>5. QED
    BY <2>1, <2>2, <2>3, <2>4 DEF Gives
<1>4. QED
  BY <1>1, <1>2, <1>3 DEF Sayings, Phases

\* What was said is heard in order, and c is what is answered, if anything is.
LEMMA OrderStays ==
    ASSUME OrderInv, said \in Seq(Sayings), UNCHANGED <<course, leg, vfsNow>>, NEW c,
           said' = said \/ (said # <<>> /\ said' = Tail(said)),
           asked' # NoCheck => joined' < asked'.t,
           \/ asked' \in {asked, NoCheck}
           \/ said # <<>> /\ said' = Tail(said) /\ asked' = Head(said),
           \/ c = NoCheck
           \/ asked' = NoCheck /\ c = asked
           \/ asked' = NoCheck /\ said # <<>> /\ said' = Tail(said) /\ c = Head(said),
           Gives(points, points', c)
    PROVE  OrderInv'
<1>1. vfsLegs' = vfsLegs
  BY DEF vfsLegs
<1>2. /\ SaidInOrder(said) /\ AskedInOrder(asked, said, joined) /\ (FM3Asked => NoMoreFM2(leg))
      /\ points.earned \cap Delivery # {} =>
           ~IsCheck(asked, "FM2") /\ \A i \in DOMAIN said : ~IsCheck(said[i], "FM2")
  BY DEF OrderInv
<1>3. \/ said' = said
      \/ /\ said # <<>> /\ 1 \in DOMAIN said /\ Head(said) = said[1]
         /\ \A i \in DOMAIN said' : i + 1 \in DOMAIN said /\ said'[i] = said[i + 1] /\ 1 < i + 1
  <2>1. CASE said # <<>> /\ said' = Tail(said)
    <3>1. ASSUME NEW i \in DOMAIN said'
          PROVE  i + 1 \in DOMAIN said /\ said'[i] = said[i + 1] /\ 1 < i + 1
      BY <2>1
    <3>2. 1 \in DOMAIN said /\ Head(said) = said[1]
      BY <2>1
    <3>3. QED
      BY <2>1, <3>1, <3>2
  <2>2. QED
    BY <2>1
<1>4. \A i, k \in DOMAIN said' : i \in Nat /\ k \in Nat /\ (i < k => i + 1 < k + 1)
  BY <1>3
<1>5. \A i \in DOMAIN said' : \E k \in DOMAIN said : said'[i] = said[k]
  BY <1>3
<1>6. SaidInOrder(said')
  BY <1>2, <1>3, <1>4 DEF SaidInOrder
<1>7. AskedInOrder(asked', said', joined')
  <2>1. CASE asked' = asked
    BY <1>2, <1>5, <2>1 DEF AskedInOrder
  <2>2. CASE said # <<>> /\ said' = Tail(said) /\ asked' = Head(said)
    <3>1. 1 \in DOMAIN said /\ asked' = said[1]
      BY <2>2
    <3>2. \A i \in DOMAIN said' : i + 1 \in DOMAIN said /\ said'[i] = said[i + 1] /\ 1 < i + 1
      BY <2>2
    <3>3. asked'.t <= vfsNow + 1
      BY <1>2, <3>1 DEF SaidInOrder
    <3>4. \A i \in DOMAIN said' : asked'.t <= said'[i].t
                                  /\ (IsCheck(asked', "FM3") => ~IsCheck(said'[i], "FM2"))
      BY <1>2, <3>1, <3>2 DEF SaidInOrder
    <3>5. QED
      BY <3>3, <3>4 DEF AskedInOrder
  <2>3. QED
    BY <2>1, <2>2 DEF AskedInOrder
<1>8. ~IsCheck(NoCheck, "FM2") /\ ~IsCheck(NoCheck, "FM3")
  BY DEF NoCheck, IsCheck
<1>9. \/ c = NoCheck
      \/ asked' = NoCheck /\ c = asked
      \/ asked' = NoCheck /\ 1 \in DOMAIN said /\ c = said[1]
         /\ \A i \in DOMAIN said' : i + 1 \in DOMAIN said /\ said'[i] = said[i + 1] /\ 1 < i + 1
  <2>1. ASSUME said # <<>>, said' = Tail(said)
        PROVE  1 \in DOMAIN said /\ Head(said) = said[1]
               /\ \A i \in DOMAIN said' : i + 1 \in DOMAIN said /\ said'[i] = said[i + 1] /\ 1 < i + 1
    BY <2>1
  <2>2. QED
    BY <2>1
<1>10. asked' = asked \/ asked' = NoCheck \/ \E k \in DOMAIN said : asked' = said[k]
  BY <1>3
<1>11. IsCheck(c, "FM3") => FM3Asked
  BY <1>8, <1>9 DEF FM3Asked
<1>12. FM3Asked' => FM3Asked
  <2>1. IsCheck(asked', "FM3") => FM3Asked
    BY <1>8, <1>10 DEF FM3Asked
  <2>2. (\E i \in DOMAIN said' : IsCheck(said'[i], "FM3")) => FM3Asked
    BY <1>5 DEF FM3Asked
  <2>3. points'.earned \cap Delivery # {} => FM3Asked
    BY <1>11 DEF Gives, FM3Asked
  <2>4. QED
    BY <2>1, <2>2, <2>3 DEF FM3Asked
<1>13. ASSUME points'.earned \cap Delivery # {}
       PROVE  ~IsCheck(asked', "FM2") /\ \A i \in DOMAIN said' : ~IsCheck(said'[i], "FM2")
  <2>1. CASE points.earned \cap Delivery # {}
    BY <1>2, <1>5, <1>8, <1>10, <2>1
  <2>2. CASE IsCheck(c, "FM3")
    <3>1. c # NoCheck /\ asked' = NoCheck
      BY <1>8, <1>9, <2>2
    <3>2. CASE c = asked
      <4>1. \A i \in DOMAIN said : ~IsCheck(said[i], "FM2")
        BY <1>2, <2>2, <3>1, <3>2 DEF AskedInOrder
      <4>2. QED
        BY <1>5, <1>8, <3>1, <4>1
    <3>3. CASE c # asked
      <4>1. /\ 1 \in DOMAIN said /\ c = said[1]
            /\ \A i \in DOMAIN said' : i + 1 \in DOMAIN said /\ said'[i] = said[i + 1] /\ 1 < i + 1
        BY <1>9, <3>1, <3>3
      <4>2. \A i \in DOMAIN said' : ~IsCheck(said'[i], "FM2")
        BY <1>2, <2>2, <4>1 DEF SaidInOrder
      <4>3. QED
        BY <1>8, <3>1, <4>2
    <3>4. QED
      BY <3>2, <3>3
  <2>3. QED
    BY <1>13, <2>1, <2>2 DEF Gives
<1>14. SaidInOrder(said)' /\ AskedInOrder(asked, said, joined)'
  BY <1>6, <1>7 DEF SaidInOrder, AskedInOrder
<1>15. (FM3Asked => NoMoreFM2(leg))'
  BY <1>1, <1>2, <1>12 DEF NoMoreFM2
<1>16. QED
  BY <1>13, <1>14, <1>15 DEF OrderInv, Gives

LEMMA OrderHear ==
    ASSUME VfsInv, FlightInv, OrderInv, Hear
    PROVE  OrderInv'
<1> DEFINE s == Head(said)
<1>1. /\ said # <<>> /\ said' = Tail(said) /\ said \in Seq(Sayings)
      /\ UNCHANGED <<course, leg, vfsNow, flown, skipped, got, joined, draining, vfsRun>>
      /\ joined \in Nat
  BY VfsAssumption DEF Hear, VfsInv, TopicsInv
<1>2. 1 \in DOMAIN said /\ s = said[1] /\ s \in Sayings /\ s.t \in Nat
  <2>1. 1 \in DOMAIN said /\ s = said[1] /\ s \in Sayings
    BY <1>1
  <2>2. QED
    BY <2>1 DEF Sayings
<1>3. /\ points \in PointStates /\ (points.earned \cap Payloads # {} => points.eligible)
      /\ points.earned \cap Delivery # {} => \A i \in DOMAIN said : ~IsCheck(said[i], "FM2")
      /\ asked # NoCheck => joined < asked.t /\ asked.t \in Nat
                            /\ \A i \in DOMAIN said : asked.t <= said[i].t
  <2>1. asked \in Sayings \cup {NoCheck} /\ points \in PointStates
    BY DEF VfsInv, TopicsInv, Deserved
  <2>2. asked # NoCheck => asked.t \in Nat
    BY <2>1 DEF Sayings
  <2>3. QED
    BY <2>1, <2>2 DEF OrderInv, AskedInOrder
<1> HIDE DEF s
<1>4. CASE /\ UNCHANGED asked
           /\ points' = [points EXCEPT !.phase = s.phase] \/ points' = ScoreRelease(points, judge)
  <2>1. points'.earned \subseteq points.earned /\ points'.eligible = points.eligible
    <3>1. ASSUME points' = [points EXCEPT !.phase = s.phase]
          PROVE  points'.earned \subseteq points.earned /\ points'.eligible = points.eligible
      BY <1>3, <3>1 DEF PointStates
    <3>2. ASSUME points' = ScoreRelease(points, judge)
          PROVE  points'.earned \subseteq points.earned /\ points'.eligible = points.eligible
      BY <1>3, <3>2 DEF ScoreRelease, PointStates
    <3>3. QED
      BY <1>4, <3>1, <3>2
  <2>2. Gives(points, points', NoCheck)
    BY <1>3, <2>1, GivesLess
  <2>3. QED
    BY <1>1, <1>3, <1>4, <2>2, OrderStays
<1>5. CASE s.what = "check" /\ joined < s.t /\ asked' = s /\ UNCHANGED points
  <2>1. Gives(points, points', NoCheck)
    BY <1>3, <1>5, GivesLess
  <2>2. asked' = Head(said)
    BY <1>5 DEF s
  <2>3. QED
    BY <1>1, <1>5, <2>1, <2>2, OrderStays
<1>6. CASE /\ s.what = "check" /\ joined >= s.t /\ Answer(judge, points, s, Decide(judge, s))
           /\ UNCHANGED asked
  <2>1. asked = NoCheck
    BY <1>1, <1>2, <1>3, <1>6
  <2>2. Gives(points, points', s)
    <3>1. points' = points \/ \E j : points' = ScoreApproval(points, j, s)
      BY <1>6 DEF Answer
    <3>2. IsCheck(s, "FM2") => points.earned \cap Delivery = {}
      BY <1>2, <1>3
    <3>3. QED
      BY <1>2, <1>3, <1>6, <3>1, <3>2, GivesLess, ApprovalGives
  <2>3. s = Head(said)
    BY DEF s
  <2>4. QED
    BY <1>1, <1>6, <2>1, <2>2, <2>3, OrderStays
<1>7. QED
  BY <1>4, <1>5, <1>6 DEF Hear, s

LEMMA OrderJoin ==
    ASSUME VfsInv, FlightInv, OrderInv, JoinEpoch
    PROVE  OrderInv'
<1> DEFINE t == joined + 1
           f == Fact(t)
           p1 == ScoreTruth(points, judge, f)
           p2 == IF StatusDue(t) THEN ScoreStatus(p1, f) ELSE p1
<1>1. /\ joined' = t
      /\ \/ /\ asked # NoCheck /\ t >= asked.t /\ asked' = NoCheck
            /\ points' = p2 \/ \E j : points' = ScoreApproval(p2, j, asked)
         \/ /\ ~(asked # NoCheck /\ t >= asked.t)
            /\ points' = p2 /\ asked' = asked
      /\ UNCHANGED <<course, leg, vfsNow, said>>
  BY DEF JoinEpoch, Answer
<1>2. /\ joined \in Nat /\ said \in Seq(Sayings) /\ asked \in Sayings \cup {NoCheck}
      /\ judge \in JudgeStates /\ points \in PointStates
      /\ (points.earned \cap Payloads # {} => points.eligible)
      /\ points.earned \cap Delivery # {} => ~IsCheck(asked, "FM2")
      /\ asked # NoCheck => asked.what = "check"
  <2>1. /\ joined \in Nat /\ said \in Seq(Sayings) /\ asked \in Sayings \cup {NoCheck}
        /\ judge \in JudgeStates /\ points \in PointStates
    <3>1. joined \in 0 .. vfsNow /\ vfsNow \in 0 .. LastEpoch /\ LastEpoch \in Nat
      BY VfsAssumption DEF VfsInv, TopicsInv
    <3>2. joined \in Nat
      BY <3>1
    <3>3. QED
      BY <3>2 DEF VfsInv, TopicsInv, JudgeInv, Deserved
  <2>2. /\ (points.earned \cap Payloads # {} => points.eligible)
        /\ points.earned \cap Delivery # {} => ~IsCheck(asked, "FM2")
    BY DEF OrderInv
  <2>3. asked # NoCheck => asked.what = "check"
    BY DEF FlightInv
  <2>4. QED
    BY <2>1, <2>2, <2>3
<1>3. p2 \in PointStates /\ p2.earned = points.earned /\ p2.eligible = points.eligible
  <2>1. f \in Legs
    <3>1. /\ joined \in 0 .. vfsNow /\ vfsNow \in Nat /\ flown \in Seq(Legs)
          /\ Len(flown) = vfsNow - joined /\ got \in [PhysicalTopics -> 0 .. vfsNow]
      BY VfsAssumption DEF VfsInv, TopicsInv
    <3>2. got["truth"] \in 0 .. vfsNow /\ got["truth"] >= t
      BY <3>1 DEF JoinEpoch, EpochComplete, PhysicalTopics
    <3>3. Len(flown) >= 1 /\ t - joined = 1
      BY <3>1, <3>2
    <3>4. QED
      BY <3>1, <3>3 DEF Fact
  <2> HIDE DEF f, t
  <2>2. p1 \in PointStates /\ p1.earned = points.earned /\ p1.eligible = points.eligible
    BY <1>2, <2>1, SmallScores
  <2> HIDE DEF p1
  <2>3. QED
    BY <1>2, <2>1, <2>2, SmallScores
<1> HIDE DEF p2, f
<1>4. asked' # NoCheck => joined' < asked'.t
  <2>1. asked # NoCheck => asked.t \in Nat
    BY <1>2 DEF Sayings
  <2>2. QED
    BY <1>1, <1>2, <2>1
<1>5. Gives(p2, p2, NoCheck) /\ (asked # NoCheck => Gives(p2, points', asked) \/ points' = p2)
  <2>1. Gives(p2, p2, NoCheck)
    BY <1>2, <1>3, GivesLess
  <2>2. ASSUME asked # NoCheck, NEW j, points' = ScoreApproval(p2, j, asked)
        PROVE  Gives(p2, points', asked)
    <3>1. /\ asked \in Sayings /\ asked.what = "check"
          /\ IsCheck(asked, "FM2") => p2.earned \cap Delivery = {}
          /\ p2.earned \cap Payloads # {} => p2.eligible
      BY <1>2, <1>3, <2>2
    <3>2. QED
      BY <1>3, <2>2, <3>1, ApprovalGives
  <2>3. QED
    BY <1>1, <2>1, <2>2
<1> HIDE DEF t
<1>6. CASE points' = p2
  <2>1. Gives(points, points', NoCheck)
    BY <1>3, <1>5, <1>6 DEF Gives
  <2>2. QED
    BY <1>1, <1>2, <1>4, <2>1, OrderStays
<1>7. CASE points' # p2
  <2>1. asked' = NoCheck /\ asked # NoCheck
    BY <1>1, <1>7
  <2>2. Gives(points, points', asked)
    BY <1>3, <1>5, <1>7, <2>1 DEF Gives
  <2>3. QED
    BY <1>1, <1>2, <2>1, <2>2, OrderStays
<1>8. QED
  BY <1>6, <1>7

LEMMA OrderKeeps ==
    ASSUME VfsInv, FlightInv, OrderInv, VfsNext \/ UNCHANGED vfsVars
    PROVE  OrderInv'
<1>1. CASE \/ \E p \in PhysicalTopics : Receive(p)
           \/ ScoreVfs \/ DrainEnds \/ UNCHANGED vfsVars
  <2>1. UNCHANGED <<course, leg, vfsNow, said, joined>> /\ asked' \in {asked, NoCheck}
    BY <1>1 DEF Receive, ScoreVfs, DrainEnds, vfsVars
  <2>2. points' = points \/ points' = ScoreEnd(points)
    BY <1>1 DEF Receive, ScoreVfs, DrainEnds, Answer, vfsVars
  <2>3. points \in PointStates /\ said \in Seq(Sayings)
        /\ (points.earned \cap Payloads # {} => points.eligible)
        /\ (asked # NoCheck => joined < asked.t)
    BY DEF VfsInv, TopicsInv, Deserved, OrderInv, AskedInOrder
  <2>4. points'.earned \subseteq points.earned \cup {"T"} /\ points'.eligible = points.eligible
    BY <2>2, <2>3 DEF ScoreEnd, PointStates
  <2>5. Gives(points, points', NoCheck)
    BY <2>3, <2>4, GivesLess
  <2>6. QED
    BY <2>1, <2>3, <2>5, OrderStays
<1>2. QED
  BY <1>1, OrderWorld, OrderHear, OrderJoin DEF VfsNext, VfsCallbacks

\* The judge of missions that are flown in order.
CourseInv == FlightInv /\ OrderInv

-----------------------------------------------------------------------------
(* What is final, and the types. *)

\* Decisions are only added, and a score that was made is not touched.
LEMMA VfsFinal ==
    ASSUME VfsInv, VfsNext \/ UNCHANGED vfsVars
    PROVE  /\ IsExtension(decisions, decisions')
           /\ vfsRun = "scored" => points' = points
<1>1. decisions \in Seq(Decisions)
  BY DEF VfsInv, JudgeInv
<1>2. ASSUME NEW x, decisions' = Append(decisions, x) PROVE IsExtension(decisions, decisions')
  <2> DEFINE S == Decisions \cup {x}
  <2>1. decisions \in Seq(S) /\ x \in S
    <3> HIDE DEF S
    <3>1. Decisions \subseteq S
      BY DEF S
    <3>2. decisions \in Seq(S)
      BY <1>1, <3>1, SeqMonotonic
    <3>3. QED
      BY <3>2 DEF S
  <2> HIDE DEF S
  <2>2. QED
    BY <1>2, <2>1, ExtensionGrows
<1>3. ASSUME decisions' = decisions PROVE IsExtension(decisions, decisions')
  <2>1. SubSeq(decisions, 1, Len(decisions)) = decisions /\ Len(decisions) \in Nat
    BY <1>1, SubSeqFull
  <2>2. QED
    BY <1>3, <2>1 DEF IsExtension
<1>4. CASE Hear \/ JoinEpoch \/ DrainEnds
  <2>1. vfsRun = "running"
    BY <1>4 DEF Hear, JoinEpoch, DrainEnds
  <2>2. decisions' = decisions \/ \E x : decisions' = Append(decisions, x)
    BY <1>4 DEF Hear, JoinEpoch, DrainEnds, Answer
  <2>3. QED
    BY <1>2, <1>3, <2>1, <2>2
<1>5. CASE WorldEpoch \/ ScoreVfs \/ UNCHANGED vfsVars \/ \E p \in PhysicalTopics : Receive(p)
  <2>1. decisions' = decisions
    BY <1>5 DEF WorldEpoch, ScoreVfs, vfsVars, Receive
  <2>2. vfsRun = "scored" => points' = points
    BY <1>5 DEF WorldEpoch, ScoreVfs, vfsVars, Receive
  <2>3. QED
    BY <1>3, <2>1, <2>2
<1>6. QED
  BY <1>4, <1>5 DEF VfsNext, VfsCallbacks

LEMMA DescentTyped == SamplesInv => DescentTypeOK
<1> SUFFICES ASSUME SamplesInv PROVE DescentTypeOK
  OBVIOUS
<1>1. heardTruth \in Nat /\ samples.last \in 0 .. heardTruth
  BY DEF SamplesInv
<1>2. samples.last <= heardTruth
  BY <1>1
<1>3. QED
  BY <1>2 DEF SamplesInv, DescentTypeOK

LEMMA FinalizerTyped == FinalizerInv => FinalizerTypeOK /\ StatusIsTrue
<1> SUFFICES ASSUME FinalizerInv PROVE FinalizerTypeOK /\ StatusIsTrue
  OBVIOUS
<1>1. FinalizerTypeOK
  BY DEF FinalizerInv, FinalizerTypeOK
<1>2. StatusIsTrue
  BY DEF FinalizerInv, StatusIsTrue
<1>3. QED
  BY <1>1, <1>2

LEMMA VfsTyped == VfsInv => VfsTypeOK
<1> SUFFICES ASSUME VfsInv PROVE VfsTypeOK
  OBVIOUS
<1>1. TopicsInv /\ JudgeInv /\ points \in PointStates
  BY DEF VfsInv, Deserved
<1>2. vfsNow \in 0 .. LastEpoch /\ joined \in 0 .. vfsNow /\ joined \in 0 .. LastEpoch
      /\ got \in [PhysicalTopics -> 0 .. LastEpoch] /\ LastEpoch \in Nat
  BY <1>1, VfsAssumption DEF TopicsInv
<1>3. /\ judge.phase \in Phases \cup {""} /\ judge.t = joined /\ judge.since \in Nat
      /\ judge.acc \in Nat /\ judge.started \in Nat /\ Clock(judge)
      /\ judge.failure \in {"none", "approval_timeout", "active_deadline_exceeded"}
  BY <1>1 DEF JudgeInv, JudgeStates
<1>4. judge.since \in 0 .. LastEpoch /\ judge.acc \in 0 .. LastEpoch /\ judge.t \in 0 .. joined
  <2>1. ASSUME NEW t, NEW since, NEW acc, NEW started,
               t = joined, since \in Nat, acc \in Nat, started \in Nat, since <= t, started <= t,
               started = 0 => since = 0 /\ acc = 0,
               started # 0 => (IF since = 0 THEN acc ELSE acc + (t - since)) <= t - started
        PROVE  since \in 0 .. LastEpoch /\ acc \in 0 .. LastEpoch /\ t \in 0 .. joined
    <3>1. t \in Nat /\ t <= LastEpoch /\ LastEpoch \in Nat
      BY <1>2, <2>1
    <3>2. acc <= t
      <4>1. CASE started = 0
        BY <2>1, <3>1, <4>1
      <4>2. CASE started # 0 /\ since = 0
        BY <2>1, <3>1, <4>2
      <4>3. CASE started # 0 /\ since # 0
        BY <2>1, <3>1, <4>3
      <4>4. QED
        BY <4>1, <4>2, <4>3
    <3>3. QED
      BY <2>1, <3>1, <3>2
  <2>2. QED
    BY <1>3, <2>1 DEF Clock
<1>5. points.earned \subseteq {"A", "A+", "BP", "BA", "CP", "CA", "T"}
  BY <1>1 DEF PointStates, PointNames
<1>6. \A i \in DOMAIN decisions : decisions[i].outcome \in {"approved", "rejected", "error"}
  <2>1. \A d \in Decisions : d.outcome \in {"approved", "rejected", "error"}
    BY DEF Decisions
  <2>2. decisions \in Seq(Decisions)
    BY <1>1 DEF JudgeInv
  <2> HIDE DEF Decisions
  <2>3. QED
    BY <2>1, <2>2
<1>7. QED
  BY <1>1, <1>2, <1>3, <1>4, <1>5, <1>6 DEF VfsTypeOK, TopicsInv

LEMMA VfsFair == VfsInv => JudgeIsFair
<1> SUFFICES ASSUME VfsInv PROVE JudgeIsFair
  OBVIOUS
<1>1. \A phase, at : Granted(decisions, phase, at) <=> Approved(phase, at)
  BY DEF Granted, Approved
<1>2. judge.started # 0 => ElapsedAt(judge, judge.t) <= judge.t - judge.started
  <2>1. judge.since \in Nat /\ judge.acc \in Nat /\ judge.t \in Nat /\ judge.started \in Nat
        /\ Clock(judge)
    BY DEF VfsInv, JudgeInv, JudgeStates
  <2>2. QED
    BY <2>1 DEF Clock, ElapsedAt
<1>3. \A i \in DOMAIN decisions : Timely(decisions[i])
  BY DEF VfsInv, JudgeInv
<1>4. QED
  BY <1>1, <1>2, <1>3 DEF VfsInv, Deserved, JudgeIsFair, Timely

LEMMA VfsEarned == VfsInv /\ CourseInv => VfsIsFair
<1> SUFFICES ASSUME VfsInv, CourseInv PROVE VfsIsFair
  OBVIOUS
<1>1. judge.since # 0 => ~judge.paused
  BY DEF CourseInv, FlightInv, Still
<1>2. points.earned \cap {"BP", "BA", "CP", "CA"} # {} => points.eligible
  BY DEF CourseInv, OrderInv, Payloads
<1>3. JudgeIsFair
  BY VfsFair
<1>4. QED
  BY <1>1, <1>2, <1>3 DEF VfsIsFair

-----------------------------------------------------------------------------
(* The steps. *)

\* Until a unit is flown its part is as it began, so the verdict on a descent is kept by all
\* but the contest, whose result is of another kind.
ScoreInv ==
    /\ unit \in {"adapter", "vfs", "contest", "descent"}
    /\ FinalizerInv /\ SamplesInv /\ ContestInv /\ AdapterInv
    /\ VfsInv /\ CourseInv
    /\ unit # "contest" => DescentInv
    /\ unit = "contest" => ContestEarned

LEMMA ScoreStarts == ScoringInit => ScoreInv
<1> SUFFICES ASSUME ScoringInit PROVE ScoreInv
  OBVIOUS
<1>1. FinalizerInv /\ SamplesInv /\ ContestInv /\ AdapterInv /\ VfsInv /\ CourseInv
  BY FinalizerStarts, SamplesStart, ContestStarts, AdapterStarts, VfsStarts, FlightStarts,
     OrderStarts DEF ScoringInit, CourseInv
<1>2. /\ evaluated = NoScore /\ bySource = FALSE
      /\ descentFault = "none" /\ samples.first = 1 /\ samples.last = heardTruth
  BY DEF ScoringInit, FinalizerInit, DescentInit, NoSamples
<1>3. DescentInv
  BY <1>2 DEF DescentInv
<1>4. ContestEarned
  BY <1>2 DEF ContestEarned
<1>5. QED
  BY <1>1, <1>3, <1>4 DEF ScoreInv, ScoringInit

\* While it hears: a sample, a lost sample, an event of the magnet.
LEMMA HearingKeeps ==
    ASSUME FinalizerInv, SamplesInv, DescentInv, HearTruth \/ LoseTruth \/ HearScenario
    PROVE  FinalizerInv' /\ ResultStays /\ SamplesInv' /\ DescentInv'
<1>1. UNCHANGED finalizerVars
  BY DEF HearTruth, LoseTruth, HearScenario
<1>2. FinalizerInv' /\ ResultStays /\ UNCHANGED <<evaluated, score, bySource, keeper>>
  BY <1>1, OtherFinalizerSteps
<1>3. SamplesInv'
  BY HearTruthKeeps, LoseTruthKeeps, OtherSamplesKeep
<1>4. CASE HearTruth \/ LoseTruth
  <2>1. heardTruth < Len(descent) /\ heardTruth \in Nat /\ Len(descent) \in Nat
        /\ heardTruth' = heardTruth + 1
    BY <1>4 DEF HearTruth, LoseTruth, SamplesInv
  <2>2. bySource = FALSE /\ (evaluated # NoScore => ~ evaluated.complete)
    BY <2>1 DEF DescentInv, Earned, FinalizerInv
  <2>3. (evaluated # NoScore => Earned(evaluated))'
    BY <1>2, <2>2 DEF Earned
  <2>4. ASSUME keeper' = "running", score' = NoScore, lostTruth' = {}
        PROVE  descentFault' = "none" /\ samples'.first = 1 /\ samples'.last = heardTruth'
    <3>1. HearTruth /\ lostTruth = {}
      BY <1>4, <2>4, LoseTruthKeeps DEF HearTruth
    <3>2. /\ keeper = "running" /\ score = NoScore /\ Scorable
          /\ descentFault = "none" /\ samples.first = 1 /\ samples.last = heardTruth
      BY <1>2, <2>4, <3>1 DEF DescentInv, FinalizerInv, Scorable
    <3>3. AcceptTruth(heardTruth') /\ Count = heardTruth
      BY <2>1, <3>1, <3>2 DEF HearTruth, Count
    <3>4. /\ samples' = [first |-> IF heardTruth = 0 THEN heardTruth' ELSE samples.first,
                         last |-> heardTruth']
          /\ UNCHANGED descentFault
      BY <2>1, <3>2, <3>3 DEF AcceptTruth
    <3>5. samples'.last = heardTruth' /\ samples'.first = 1
      BY <2>1, <3>2, <3>4
    <3>6. QED
      BY <3>2, <3>4, <3>5
  <2>5. QED
    BY <1>2, <1>3, <2>2, <2>3, <2>4 DEF DescentInv
<1>5. CASE HearScenario
  <2>1. UNCHANGED <<descent, scenario, heardTruth, lostTruth, samples, descentFault>>
    BY <1>5, OtherSamplesKeep
  <2>2. score = NoScore /\ evaluated = NoScore /\ bySource = FALSE
    BY <1>5 DEF HearScenario, Scorable, FinalizerInv
  <2>3. QED
    BY <1>2, <1>3, <2>1, <2>2 DEF DescentInv
<1>6. QED
  BY <1>4, <1>5

\* What is said of a result does not change while nothing is heard.
LEMMA EarnedStays ==
    ASSUME UNCHANGED descentVars, NEW r
    PROVE  /\ Earned(r)' <=> Earned(r)
           /\ ScenarioFailure' = ScenarioFailure
<1>1. UNCHANGED <<descent, scenario, heardTruth, lostTruth, heardEvents, samples, descentFault>>
  BY DEF descentVars
<1>2. TouchDowns' = TouchDowns
  BY <1>1 DEF TouchDowns
<1>3. QED
  BY <1>1, <1>2 DEF Earned, ScenarioFailure

LEMMA DescentKeeps ==
    ASSUME FinalizerInv, SamplesInv, DescentInv, DescentNext
    PROVE  FinalizerInv' /\ ResultStays /\ SamplesInv' /\ DescentInv'
<1>1. CASE HearTruth \/ LoseTruth \/ HearScenario
  BY <1>1, HearingKeeps
<1>2. CASE (DescentFinal \/ SourceEnds \/ AskForScore) /\ UNCHANGED descentVars
  <2>1. SamplesInv'
    BY <1>2, OtherSamplesKeep
  <2>2. UNCHANGED <<descent, scenario, heardTruth, lostTruth, heardEvents, samples, descentFault>>
    BY <1>2 DEF descentVars
  <2>3. \A r : Earned(r)' <=> Earned(r)
    BY <1>2, EarnedStays
  <2>4. ScenarioFailure' = ScenarioFailure
    BY <1>2, EarnedStays
  <2>5. CASE SourceEnds \/ AskForScore
    <3>1. FinalizerInv' /\ ResultStays /\ UNCHANGED <<evaluated, score, bySource, keeper>>
      BY <2>5, OtherFinalizerSteps
    <3>2. (evaluated # NoScore => Earned(evaluated))'
      BY <2>2, <3>1, EarnedStays DEF DescentInv, Earned, TouchDowns
    <3>3. QED
      BY <2>1, <2>2, <2>4, <3>1, <3>2 DEF DescentInv
  <2>6. CASE DescentObserved /\ PollSource(DescentResult(TRUE))
    <3>1. PICK r : r = DescentResult(TRUE)
      OBVIOUS
    <3>2. IsResult(r) /\ Earned(r)
      BY <3>1, VerdictIsEarned
    <3>3. /\ FinalizerInv' /\ ResultStays /\ evaluated = NoScore /\ evaluated' = r
          /\ score' \in {NoScore, r} /\ (bySource' => score' = r)
      BY <2>6, <3>1, <3>2, PollKeeps
    <3>4. (evaluated # NoScore => Earned(evaluated))'
      BY <2>2, <3>2, <3>3 DEF Earned, TouchDowns
    <3>5. ~ (keeper' = "running" /\ score' = NoScore)
      BY <2>6 DEF PollSource, AfterPoll
    <3>6. keeper = "running" /\ score = NoScore /\ heardTruth = Len(descent)
      BY <2>6 DEF PollSource, Scorable, DescentObserved
    <3>7. ASSUME lostTruth = {} PROVE r.complete \/ ScenarioFailure # "none"
      <4>1. descentFault = "none" /\ samples.first = 1 /\ samples.last = Len(descent)
        BY <3>6, <3>7 DEF DescentInv
      <4>2. Count = Len(descent)
        BY <4>1 DEF Count, SamplesInv
      <4>3. QED
        BY <3>1, <4>1, <4>2 DEF DescentResult
    <3>8. QED
      BY <2>1, <2>2, <2>4, <3>3, <3>4, <3>5, <3>6, <3>7 DEF DescentInv
  <2>7. CASE Quiesce(IF evaluated = NoScore THEN DescentResult(FALSE) ELSE evaluated)
    <3>1. PICK r : r = IF evaluated = NoScore THEN DescentResult(FALSE) ELSE evaluated
      OBVIOUS
    <3>2. /\ evaluated # NoScore => r = evaluated
          /\ evaluated = NoScore => IsResult(r)
          /\ Earned(r)
      BY <3>1, VerdictIsEarned DEF DescentInv
    <3>3. /\ FinalizerInv' /\ ResultStays /\ evaluated' = r
          /\ score' \in {score, r} /\ UNCHANGED bySource
      BY <2>7, <3>1, <3>2, QuiesceKeeps
    <3>4. (evaluated # NoScore => Earned(evaluated))'
      BY <2>2, <3>2, <3>3 DEF Earned, TouchDowns
    <3>5. keeper' = "running" => score' # NoScore
      BY <2>7 DEF Quiesce, AfterPoll
    <3>6. bySource => score' = score
      BY <3>2, <3>3 DEF FinalizerInv
    <3>7. QED
      BY <2>1, <2>2, <2>4, <3>3, <3>4, <3>5, <3>6 DEF DescentInv
  <2>8. CASE /\ keeper = "crashing" /\ keeper' = "ended"
             /\ UNCHANGED <<evaluated, score, onDisk, announced, scoreStatus, scoreQuiet,
                           sourceEnded, scoreAsked, bySource, flushFailures>>
    <3>1. FinalizerInv' /\ ResultStays
      BY <2>8, GivingUpKeeps
    <3>2. (evaluated # NoScore => Earned(evaluated))'
      BY <2>2, <2>8 DEF DescentInv, Earned, TouchDowns
    <3>3. QED
      BY <2>1, <2>2, <2>4, <2>8, <3>1, <3>2 DEF DescentInv
  <2>9. QED
    BY <1>2, <2>5, <2>6, <2>7, <2>8 DEF DescentFinal
<1>3. QED
  BY <1>1, <1>2 DEF DescentNext

LEMMA ScoreKeeps ==
    ASSUME ScoreInv, [ScoringNext]_scoringVars
    PROVE  /\ ScoreInv' /\ ResultStays
           /\ IsExtension(decisions, decisions') /\ IsExtension(public.truths, public'.truths)
           /\ vfsRun = "scored" => points' = points
<1>1. /\ VfsNext \/ UNCHANGED vfsVars
      /\ AdapterNext \/ UNCHANGED adapterVars
      /\ CompetitionNext \/ UNCHANGED contestVars
      /\ unit' = unit
  BY DEF ScoringNext, OnlyAdapter, OnlyVfs, OnlyContest, OnlyDescent, scoringVars
<1>2. /\ VfsInv' /\ CourseInv' /\ AdapterInv' /\ ContestInv'
      /\ IsExtension(decisions, decisions') /\ IsExtension(public.truths, public'.truths)
      /\ vfsRun = "scored" => points' = points
  BY <1>1, VfsKeeps, FlightKeeps, OrderKeeps, VfsFinal, AdapterKeeps, TopicsKeep
  DEF ScoreInv, CourseInv
<1>3. CASE OnlyContest
  <2>1. FinalizerInv' /\ ResultStays /\ SamplesInv' /\ ContestEarned' /\ unit = "contest"
    BY <1>3, ContestKeeps, ContestEarnedKeeps, OtherSamplesKeep DEF OnlyContest, ScoreInv, ContestInv
  <2>2. QED
    BY <1>1, <1>2, <2>1 DEF ScoreInv
<1>4. CASE OnlyDescent
  <2>1. FinalizerInv' /\ ResultStays /\ SamplesInv' /\ DescentInv' /\ unit = "descent"
    BY <1>4, DescentKeeps DEF OnlyDescent, ScoreInv
  <2>2. QED
    BY <1>1, <1>2, <2>1 DEF ScoreInv
<1>5. CASE UNCHANGED finalizerVars /\ UNCHANGED descentVars /\ UNCHANGED contestVars
  <2>1. FinalizerInv' /\ ResultStays /\ SamplesInv'
        /\ UNCHANGED <<evaluated, score, bySource, keeper>>
    BY <1>5, OtherFinalizerSteps, OtherSamplesKeep DEF ScoreInv
  <2>2. UNCHANGED <<descent, scenario, heardTruth, lostTruth, heardEvents, samples, descentFault>>
    BY <1>5 DEF descentVars
  <2>3. (unit # "contest" => DescentInv)'
    BY <1>1, <2>1, <2>2 DEF ScoreInv, DescentInv, Earned, TouchDowns, ScenarioFailure
  <2>4. unit = "contest" => ContestEarned'
    BY <1>5, ContestEarnedKeeps DEF ScoreInv
  <2>5. QED
    BY <1>1, <1>2, <2>1, <2>3, <2>4 DEF ScoreInv
<1>6. QED
  BY <1>3, <1>4, <1>5 DEF ScoringNext, OnlyAdapter, OnlyVfs, scoringVars

-----------------------------------------------------------------------------
(* The theorems. *)

\* The way to a score, whichever unit is flown, and of each unit what its verdict rests on.
THEOREM ScoreInvariant == ScoringSpec => []ScoreInv
<1>1. ScoringInit => ScoreInv
  BY ScoreStarts
<1>2. ScoreInv /\ [ScoringNext]_scoringVars => ScoreInv'
  BY ScoreKeeps
<1>3. QED
  BY <1>1, <1>2, PTL DEF ScoringSpec

\* Adapter, judges and finalizer keep their types: no buffer outgrows its capacity, no topic
\* is ahead of what was sent, and no clock of a judge ahead of the run (_COMPLETED_CAPACITY and
\* the limit before public zero in GazeboAdapterNode, VfsJudge, the three scorers).
THEOREM ScoringTypes == ScoringSpec => []ScoringTypeOK
<1>1. ScoreInv => ScoringTypeOK
  BY AdapterPromise, VfsTyped, ContestTyped, DescentTyped, FinalizerTyped
  DEF ScoreInv, ScoringTypeOK
<1>2. QED
  BY <1>1, ScoreInvariant, PTL

\* For every flight, every order of the callbacks and whatever is lost: the truths go out epoch
\* by epoch, after the clock and both frames of their epoch, no contact is invented, one is
\* missed only where its own message was lost or overtaken, and a run is complete only with
\* all of it published (PrivateTruthAggregator, VehicleSupportTracker, PayloadTracker,
\* LiveAdapter, _publish).
THEOREM TruthKept == ScoringSpec => []TruthIsKept
<1>1. ScoreInv => TruthIsKept
  BY AdapterPromise DEF ScoreInv
<1>2. QED
  BY <1>1, ScoreInvariant, PTL

\* The status tells of a score that is on disk and announced, and the scorekeeper is quiet
\* only with a status, whichever acknowledgement timed out (_ScoreFinalizer.finalize,
\* ScorekeeperDriver.poll, the handler of main()).
THEOREM StatusTold == ScoringSpec => [](FinalizerTypeOK /\ StatusIsTrue)
<1>1. ScoreInv => FinalizerTypeOK /\ StatusIsTrue
  BY FinalizerTyped DEF ScoreInv
<1>2. QED
  BY <1>1, ScoreInvariant, PTL

\* Whatever the order of the topics and whatever course is flown, a check of the 2027
\* competition is judged on its own epoch, its clock counts no epoch twice, and no point is
\* given before what it rests on was approved (VfsScorekeeperRuntime._drain_physical_epochs,
\* VfsJudge, VfsScorer).
THEOREM JudgeFair == ScoringSpec => [](VfsTypeOK /\ JudgeIsFair)
<1>1. ScoreInv => VfsTypeOK /\ JudgeIsFair
  BY VfsTyped, VfsFair DEF ScoreInv
<1>2. QED
  BY <1>1, ScoreInvariant, PTL

\* And for missions flown in their order a paused clock stands and a payload that is paid for
\* was eligible, whenever a check arrives: the approval of FM2 stops the clock only after the
\* takeoff is judged, and never takes back what FM3 has paid (VfsJudge.accept_ground_truth,
\* VfsJudge._decision, VfsScorer.accept_judge_decision).
THEOREM CourseFair == ScoringSpec => []VfsIsFair
<1>1. ScoreInv => VfsIsFair
  BY VfsEarned DEF ScoreInv
<1>2. QED
  BY <1>1, ScoreInvariant, PTL

\* The score of a contest that was observed to its end is what the rules give for all that was
\* sent from its start on, in whatever order the topics came; a sample lost after the start
\* costs it all, one lost before costs nothing (CompetitionScorer, _latest_timestamp_gap
\* against _stream_gap).
THEOREM ContestScored == ScoringSpec => [](unit = "contest" => ContestIsEarned)
<1>1. ScoreInv => (unit = "contest" => ContestIsEarned)
  BY EarnedIs DEF ScoreInv
<1>2. QED
  BY <1>1, ScoreInvariant, PTL

\* The verdict on a descent is that of the whole flight, and a flight of which nothing was
\* lost gets one (DescentScorer.accept, _evaluated_rules, ScorekeeperRuntime._finalize).
THEOREM DescentEarned == ScoringSpec => [](unit = "descent" => DescentIsEarned)
<1>1. ScoreInv => (unit = "descent" => DescentIsEarned)
  <2> SUFFICES ASSUME FinalizerInv, DescentInv PROVE DescentIsEarned
    BY DEF ScoreInv
  <2>1. score.complete => Earned(score)
    BY DEF FinalizerInv, DescentInv, NoScore
  <2>2. bySource /\ lostTruth = {} => score.complete \/ ScenarioFailure # "none"
    BY DEF DescentInv
  <2>3. QED
    BY <2>1, <2>2 DEF DescentIsEarned, Earned, TouchDowns
<1>2. QED
  BY <1>1, ScoreInvariant, PTL

\* A verdict is what the rules say of what was flown, whatever the topics did: the judge of
\* 2027, the contest of 2026 and the descent, and the status that ends the run.
THEOREM VerdictsEarned == ScoringSpec => []VerdictsAreEarned
<1>1. VfsIsFair /\ StatusIsTrue /\ (unit = "contest" => ContestIsEarned)
        /\ (unit = "descent" => DescentIsEarned) => VerdictsAreEarned
  BY DEF VerdictsAreEarned
<1>2. FinalizerTypeOK /\ StatusIsTrue => StatusIsTrue
  OBVIOUS
<1>3. QED
  BY <1>1, <1>2, StatusTold, CourseFair, ContestScored, DescentEarned, PTL

\* Nothing that was told is taken back: a result on disk and a status are not rewritten by the
\* second attempt of main() nor by what arrives late, decisions and published truths are only
\* added to, and the points of 2027 are final (_ScoreFinalizer, CompetitionScorer.finalize,
\* DescentScorer.finalize, VfsScorekeeperRuntime._finalize, LiveAdapter).
THEOREM VerdictsFinal == ScoringSpec => VerdictsAreFinal
<1>1. ScoreInv /\ [ScoringNext]_scoringVars =>
        [/\ ResultStays
         /\ IsExtension(decisions, decisions') /\ IsExtension(public.truths, public'.truths)
         /\ vfsRun = "scored" => points' = points]_scoringVars
  BY ScoreKeeps
<1>2. QED
  BY <1>1, ScoreInvariant, PTL DEF ScoringSpec, VerdictsAreFinal

=============================================================================
