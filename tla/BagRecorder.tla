---------------------------- MODULE BagRecorder ----------------------------
(***************************************************************************)
(* The rosbag2 recorder process of the artifacts container and the         *)
(* validator that decides whether the bag is evidence for the run.         *)
(*                                                                         *)
(* A physical run publishes a fixed schedule, frame by frame: the two      *)
(* artifact statuses and the lifecycle at stamp 0, the grid topics at      *)
(* every frame, mission and payload events and judge decisions in between, *)
(* the last lifecycle state and the score at the end.  Up to MaxFaults of  *)
(* the samples are lost or damaged.  The bag keeps the order within a      *)
(* topic; across topics only whether the artifact statuses precede the     *)
(* clock matters.  Stamps count frames of 50 ms.                           *)
(***************************************************************************)
EXTENDS Naturals, Sequences, FiniteSets

CONSTANTS
    Frames,    \* expected_camera_frames
    Freshness, \* the frames in the 500 ms a judge decision may lag a vehicle status
    MaxFaults  \* bound: samples damaged in one run

\* 500 ms are ten frames; less than two would let a vehicle status, which comes every second
\* frame, be stale before the next one is due.
ASSUME BagAssumption == Frames \in Nat \ {0} /\ Freshness \in Nat \ {0, 1} /\ MaxFaults \in Nat

Rulesets == {"descent_v1", "competition_v1", "competition_2027_v1"}

BaseTopics == {"artifact_status", "clock", "run_state", "onboard", "observer", "ground_truth",
               "scenario_events", "score_events"}
CompetitionTopics == BaseTopics \cup {"payload_state", "range", "payload_events", "mission_events"}
VfsTopics == CompetitionTopics \cup {"vehicle_status", "judge_decisions", "attempt_status"}

VARIABLES
    ruleset,
    bpc,        \* new, recording, stopping, stopped, done
    bagProcess, \* the ros2 bag process: none, alive, clean (metadata written), killed
    signals,    \* how many of SIGINT, SIGTERM, SIGKILL finalize() has sent
    frame,      \* the next stamp to publish; Frames + 2 after the end of the run
    bag,        \* per topic the samples recorded
    clockFirst, \* the first clock sample was recorded before the artifact statuses
    faults,     \* the samples damaged so far
    verdict

bagVars == <<ruleset, bpc, bagProcess, signals, frame, bag, clockFirst, faults, verdict>>

\* RosbagValidator.__init__: the topics of each evidence inventory.
BagTopics ==
    CASE ruleset = "descent_v1" -> BaseTopics
      [] ruleset = "competition_v1" -> CompetitionTopics
      [] ruleset = "competition_2027_v1" -> VfsTopics

\* A sample is lost, damaged (it does not parse, or another run published it), or the
\* clock starts before the artifact statuses are out.
Damage == {"lost", "damaged", "early"}

Samples == [t : 0 .. Frames + 1, id : Nat, ref : Nat, whole : BOOLEAN]

BagTypeOK ==
    /\ ruleset \in Rulesets
    /\ bpc \in {"new", "recording", "stopping", "stopped", "done"}
    /\ bagProcess \in {"none", "alive", "clean", "killed"}
    /\ signals \in 0 .. 3
    /\ frame \in 0 .. Frames + 2
    /\ DOMAIN bag = VfsTopics
    /\ \A topic \in VfsTopics : \A i \in DOMAIN bag[topic] : bag[topic][i] \in Samples
    /\ clockFirst \in BOOLEAN
    /\ faults \subseteq [topic : VfsTopics, id : Nat, kind : Damage]
    /\ Cardinality(faults) <= MaxFaults
    /\ verdict \in {"none", "VALID", "INVALID"}

BagInit ==
    /\ ruleset \in Rulesets
    /\ bpc = "new" /\ bagProcess = "none"
    /\ signals = 0
    /\ frame = 0
    /\ bag = [topic \in VfsTopics |-> <<>>]
    /\ clockFirst = FALSE
    /\ faults = {}
    /\ verdict = "none"

-----------------------------------------------------------------------------
(* What a run publishes (external to the recorder).                         *)

At(t, id, ref) == [t |-> t, id |-> id, ref |-> ref, whole |-> TRUE]

ScoreCount == CASE ruleset = "descent_v1" -> 5
                [] ruleset = "competition_v1" -> 8
                [] ruleset = "competition_2027_v1" -> 10

\* The samples of one topic published at stamp k.  Two check requests are mission
\* events 0 and 1 (ref names the check); each decision answers the request its ref
\* names, and decision 0 is sent a second time.
Schedule(topic, k) ==
    LET onGrid == k \in 1 .. Frames
    IN  CASE topic = "artifact_status" -> IF k = 0 THEN <<At(0, 0, 0), At(0, 1, 0)>> ELSE <<>>
          [] topic = "clock" -> IF k <= Frames THEN <<At(k, 0, 0)>> ELSE <<>>
          [] topic = "run_state" ->
               IF k = 0 THEN <<At(0, 1, 0), At(0, 2, 0), At(0, 3, 0)>>
               ELSE IF k = Frames + 1 THEN <<At(Frames, 4, 0)>> ELSE <<>>
          [] topic \in {"onboard", "observer", "ground_truth", "range", "attempt_status"} ->
               IF onGrid THEN <<At(k, k - 1, 0)>> ELSE <<>>
          [] topic = "payload_state" ->
               IF onGrid THEN <<At(k, 2, 0), At(k, 3, 0), At(k, 4, 0)>> ELSE <<>>
          [] topic = "vehicle_status" ->
               IF onGrid /\ k % 2 = 1 THEN <<At(k, k \div 2, 0)>> ELSE <<>>
          [] topic = "scenario_events" ->
               IF k = 0 /\ ruleset = "descent_v1" THEN <<At(0, 0, 0)>> ELSE <<>>
          [] topic = "score_events" ->
               IF k = Frames + 1 THEN [i \in 1 .. ScoreCount |-> At(Frames, i - 1, i)] ELSE <<>>
          [] topic \in {"mission_events", "payload_events"} ->
               IF k \in {1, 2} THEN <<At(k, k - 1, k)>> ELSE <<>>
          [] topic = "judge_decisions" ->
               IF k = 2 THEN <<At(2, 0, 0)>>
               ELSE IF k = 3 THEN <<At(2, 0, 0), At(3, 1, 1)>> ELSE <<>>

\* One stamp's samples of a topic when the i-th of them is damaged.
Damaged(samples, i, kind) ==
    IF kind = "lost"
    THEN SubSeq(samples, 1, i - 1) \o SubSeq(samples, i + 1, Len(samples))
    ELSE [samples EXCEPT ![i] = [@ EXCEPT !.whole = (kind # "damaged")]]

\* The next stamp's samples reach the recorder; at most one of them is damaged.
PublishFrame ==
    /\ bpc = "recording" /\ frame < Frames + 2
    /\ LET recorded(topic) ==
             IF bagProcess = "alive" /\ topic \in BagTopics THEN Schedule(topic, frame) ELSE <<>>
       IN  \/ /\ bag' = [topic \in VfsTopics |-> bag[topic] \o recorded(topic)]
              /\ UNCHANGED <<faults, clockFirst>>
           \/ \E topic \in BagTopics, kind \in Damage :
                \E i \in DOMAIN recorded(topic) :
                  /\ Cardinality(faults) < MaxFaults
                  /\ kind = "early" => topic = "clock" /\ frame = 0
                  /\ faults' = faults \cup
                       {[topic |-> topic, id |-> recorded(topic)[i].id, kind |-> kind]}
                  /\ clockFirst' = (clockFirst \/ kind = "early")
                  /\ bag' = [other \in VfsTopics |->
                               bag[other] \o IF other = topic
                                             THEN Damaged(recorded(other), i, kind)
                                             ELSE recorded(other)]
    /\ frame' = frame + 1
    /\ UNCHANGED <<ruleset, bpc, bagProcess, signals, verdict>>

-----------------------------------------------------------------------------
(* RosbagRecorder.                                                          *)

\* start(), and is_ready() before anything is published.
StartBag ==
    /\ bpc = "new"
    /\ bpc' = "recording" /\ bagProcess' = "alive"
    /\ UNCHANGED <<ruleset, signals, frame, bag, clockFirst, faults, verdict>>

\* finalize() of a run that ended or failed.
FinalizeBag ==
    /\ bpc = "recording"
    /\ bpc' = IF bagProcess = "alive" THEN "stopping" ELSE "stopped"
    /\ UNCHANGED <<ruleset, bagProcess, signals, frame, bag, clockFirst, faults, verdict>>

\* Mutant: the loop over the signals starts again after SIGKILL.
SignalBagAgain ==
    /\ bpc = "stopping" /\ bagProcess = "alive" /\ signals < 4
    /\ signals' = signals + 1
    /\ UNCHANGED <<ruleset, bpc, bagProcess, frame, bag, clockFirst, faults, verdict>>

\* The loop over SIGINT, SIGTERM and SIGKILL; the wait after each may time out.
SignalBag ==
    /\ bpc = "stopping" /\ bagProcess = "alive" /\ signals < 3
    /\ signals' = signals + 1
    /\ UNCHANGED <<ruleset, bpc, bagProcess, frame, bag, clockFirst, faults, verdict>>

\* The process ends: by itself (external), or on a signal; SIGINT and SIGTERM let it
\* write its metadata.
BagProcessExits ==
    /\ bagProcess = "alive"
    /\ \/ bagProcess' = "killed"
       \/ bpc = "stopping" /\ signals \in {1, 2} /\ bagProcess' = "clean"
    /\ UNCHANGED <<ruleset, bpc, signals, frame, bag, clockFirst, faults, verdict>>

BagFinalized ==
    /\ bpc = "stopping"
    /\ bagProcess # "alive" \/ signals = 3
    /\ bpc' = "stopped"
    /\ UNCHANGED <<ruleset, bagProcess, signals, frame, bag, clockFirst, faults, verdict>>

-----------------------------------------------------------------------------
(* RosbagValidator.                                                         *)

Stamps(topic) == [i \in DOMAIN bag[topic] |-> bag[topic][i].t]
Ids(topic) == [i \in DOMAIN bag[topic] |-> bag[topic][i].id]
StampSet(topic) == {bag[topic][i].t : i \in DOMAIN bag[topic]}

\* The inventory: every topic of the ruleset has messages, but for scenario events.
Inventory ==
    \A topic \in BagTopics :
        bag[topic] = <<>> => topic = "scenario_events" /\ ruleset # "descent_v1"

\* The _*_evidence parsers: the fields of a message have their types and ranges.
Parses(sample) == sample.whole

\* The record loop: every sample parses, belongs to this run and is not older than the
\* one before it on its topic (payload states: of its payload).
Readable ==
    \A topic \in BagTopics :
        /\ \A i \in DOMAIN bag[topic] : Parses(bag[topic][i])
        /\ \A i, j \in DOMAIN bag[topic] :
             i < j /\ (topic = "payload_state" => bag[topic][i].id = bag[topic][j].id)
               => bag[topic][i].t <= bag[topic][j].t

\* The artifact status sequence: not ready, then ready, both before the first clock.
StartupSequence ==
    /\ Ids("artifact_status") = <<0, 1>> /\ Stamps("artifact_status") = <<0, 0>>
    /\ ~clockFirst

\* Frame ids are contiguous from zero and frames exactly one interval apart.
FrameSequence ==
    \A stream \in {"onboard", "observer"} :
        LET samples == bag[stream]
        IN  /\ \A i \in DOMAIN samples : samples[i].id = i - 1
            /\ \A i \in 1 .. Len(samples) - 1 : samples[i + 1].t = samples[i].t + 1

\* The lifecycle is STARTING, READY, RUNNING, FINALIZING, and the clock covers every
\* frame's stamp.
PhysicalLifecycle ==
    /\ Ids("run_state") = <<1, 2, 3, 4>>
    /\ \A i \in 1 .. Len(bag["clock"]) - 1 : bag["clock"][i].t <= bag["clock"][i + 1].t
    /\ StampSet("onboard") \cup StampSet("observer") \subseteq StampSet("clock")

\* The scenario event of a descent, and the score events of the ruleset in their order.
ScoreSequence ==
    /\ ruleset = "descent_v1" => Ids("scenario_events") = <<0>>
    /\ Len(bag["score_events"]) = ScoreCount
    /\ \A i \in DOMAIN bag["score_events"] :
         bag["score_events"][i].id = i - 1 /\ bag["score_events"][i].ref = i

\* Every ground-truth stamp has the payloads 2, 3 and 4 once each and a range.
PayloadGrid ==
    /\ StampSet("payload_state") = StampSet("ground_truth")
    /\ \A t \in StampSet("payload_state") :
         /\ {bag["payload_state"][i].id : i \in {j \in DOMAIN bag["payload_state"] :
                                                  bag["payload_state"][j].t = t}} = {2, 3, 4}
         /\ Cardinality({j \in DOMAIN bag["payload_state"] : bag["payload_state"][j].t = t}) = 3
    /\ Stamps("range") = Stamps("ground_truth")

\* Event ids count from zero and events are in time order.
EventSequence(topic) ==
    /\ bag[topic] # <<>>
    /\ \A i \in DOMAIN bag[topic] : bag[topic][i].id = i - 1
    /\ \A i \in 1 .. Len(bag[topic]) - 1 : bag[topic][i].t <= bag[topic][i + 1].t

\* The 2027 grids: an attempt status per ground truth, a vehicle status every second
\* frame.
VfsGrid ==
    /\ Stamps("attempt_status") = Stamps("ground_truth")
    /\ \A i \in 1 .. Len(bag["attempt_status"]) - 1 :
         bag["attempt_status"][i + 1].id = bag["attempt_status"][i].id + 1
    /\ Len(bag["vehicle_status"]) = (Frames + 1) \div 2
    /\ bag["vehicle_status"] # <<>> /\ bag["vehicle_status"][1].t \in {1, 2}
    /\ \A i \in 1 .. Len(bag["vehicle_status"]) - 1 :
         /\ bag["vehicle_status"][i + 1].t = bag["vehicle_status"][i].t + 2
         /\ bag["vehicle_status"][i + 1].id = bag["vehicle_status"][i].id + 1

\* Judge decisions: repeats are identical, ids contiguous, each answers the request with
\* its number, and rests on a fresh vehicle status.
DecisionsCorrelated ==
    LET decisions == {bag["judge_decisions"][i] : i \in DOMAIN bag["judge_decisions"]}
        requests == {bag["mission_events"][i].id : i \in DOMAIN bag["mission_events"]}
    IN  /\ \A d, e \in decisions : d.id = e.id => d = e
        /\ decisions # {} /\ {d.id : d \in decisions} = 0 .. Cardinality(decisions) - 1
        /\ \A d \in decisions :
             /\ d.ref \in requests
             /\ \E t \in StampSet("vehicle_status") : t <= d.t /\ d.t <= t + Freshness

\* Mutant: only the numbers of samples are compared, not their stamps.
ConfiguredCountsOnly ==
    \A topic \in {"onboard", "observer"} : Len(bag[topic]) >= Frames - 1

\* The counts and grids of expected_camera_frames, the bounds of the clock and the
\* stamps of the lifecycle.
ConfiguredGrid ==
    /\ \A topic \in {"onboard", "observer", "ground_truth"} :
         Stamps(topic) = [i \in 1 .. Frames |-> i]
    /\ bag["clock"][1].t = 0 /\ bag["clock"][Len(bag["clock"])].t = Frames
    /\ Stamps("run_state") = <<0, 0, 0, Frames>>

\* _validate_semantics for a physical run.
BagValid ==
    /\ Inventory /\ Readable /\ StartupSequence /\ FrameSequence
    /\ PhysicalLifecycle /\ ScoreSequence
    /\ ruleset # "descent_v1" =>
         PayloadGrid /\ EventSequence("payload_events") /\ EventSequence("mission_events")
    /\ ruleset = "competition_2027_v1" => VfsGrid /\ DecisionsCorrelated
    /\ ConfiguredGrid

\* validate(): without metadata there is no bag, and a tree that changes while it is
\* read is not evidence.
ValidateBag ==
    /\ bpc = "stopped"
    /\ verdict' = IF bagProcess = "clean" /\ BagValid THEN "VALID" ELSE "INVALID"
    /\ bpc' = "done"
    /\ UNCHANGED <<ruleset, bagProcess, signals, frame, bag, clockFirst, faults>>

BagNext ==
    \/ StartBag \/ PublishFrame \/ FinalizeBag \/ SignalBag \/ BagProcessExits
    \/ BagFinalized \/ ValidateBag

-----------------------------------------------------------------------------
(* Properties.                                                              *)

\* A bag is declared valid only if the whole run is in it: of all that can be lost or
\* damaged on the way, the checks together let pass only the last events of a topic
\* whose length nobody knows, and a repeat of a decision (_validate_semantics).  A run
\* that was recorded whole is never rejected, whatever its ruleset.
BagIsEvidence ==
    /\ verdict = "VALID" =>
         /\ frame = Frames + 2 /\ bagProcess = "clean"
         /\ \A f \in faults :
              /\ f.kind = "lost"
              /\ f.topic \in {"mission_events", "payload_events", "judge_decisions"}
              /\ \A i \in DOMAIN bag[f.topic] :
                   bag[f.topic][i].id < f.id \/ f.topic = "judge_decisions"
    /\ verdict = "INVALID" => faults # {} \/ bagProcess # "clean" \/ frame < Frames + 2
=============================================================================
