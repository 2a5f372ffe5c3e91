-------------------------- MODULE CompetitionScore --------------------------
(***************************************************************************)
(* CompetitionScorekeeperRuntime and CompetitionScorer: the 2026 contest,  *)
(* scored from four topics that are each in order and arrive in any order: *)
(* ground truth, the states of the three payloads, the gateway's payload   *)
(* events and the companion's mission events.                              *)
(*                                                                         *)
(* The scorer keeps the evidence and judges it when the run ends.  Time is *)
(* counted in samples of 50 ms; a position is the waypoint it is in; the   *)
(* states of the three payloads of one sample are taken together.          *)
(***************************************************************************)
EXTENDS ScoreFinalizer

CONSTANTS
    Contests,         \* sequence of what may happen: [truth, states, hooks, events]
    StabilitySamples, \* release_stability_ns
    RestSamples,      \* payload_settle_ns
    DeadlineSamples,  \* deadline_ns
    Losable,          \* bound: the samples that may be lost
    MaxLag            \* bound: samples that one topic may be ahead of another

\* A contest as the companion and the gateway report it: nothing before the start of FM1,
\* nothing of the mission after HOME, and a payload event for each of the five commands that
\* the missions give, at most.
Reported(c) ==
    /\ Len(c.truth) \in Nat /\ Len(c.states) = Len(c.truth)
    /\ c.hooks \in Seq([m : {2, 3, 4}, action : {"attach", "release"}, t : 1 .. Len(c.truth)])
    /\ c.events \in Seq([e : STRING, t : 1 .. Len(c.truth)])
    /\ Len(c.hooks) <= 5
    /\ c.events # <<>> => /\ c.events[1].e = "FM1+"
                          /\ \A i \in DOMAIN c.events : c.events[1].t <= c.events[i].t
                          /\ \A i \in DOMAIN c.hooks : c.events[1].t <= c.hooks[i].t
    /\ \A i \in DOMAIN c.events : c.events[i].e = "HOME-" => i = Len(c.events)

ASSUME CompetitionAssumption ==
    /\ {StabilitySamples, RestSamples, DeadlineSamples, MaxLag} \subseteq Nat
    /\ \A i \in DOMAIN Contests : Reported(Contests[i])

VARIABLES
    contestIs,   \* what happens: an index of Contests
    told,        \* per topic: the messages that came by
    gone,        \* the samples that were lost, <<topic, sample>>
    start,       \* start_sim_time_ns, 0 before it is known
    kept,        \* per physical topic: the samples the scorer keeps
    contestFault \* CompetitionScorer._diagnostic

contestVars == <<contestIs, told, gone, start, kept, contestFault>>

\* truth: what the vehicle does, sample by sample [at, contact, still, high]; states: what
\* each payload does [at, grounded, attached, still, near]; hooks: payload events
\* [m, action, t]; events: mission events [e, t].
contest == Contests[contestIs]

Markers == {2, 3, 4}
MissionSequence ==
    <<"FM1+", "FM1-", "FM2+", "FM2-", "FM3_3+", "FM3_3-", "FM3_4+", "FM3_4-",
      "HOME+", "DISARMED", "HOME-">>
PayloadSequence ==
    <<<<2, "release">>, <<3, "attach">>, <<3, "release">>, <<4, "attach">>, <<4, "release">>>>
PhaseIndex == [FM1 |-> 1, FM2 |-> 3, FM3_3 |-> 5, FM3_4 |-> 7, HOME |-> 9]
PhaseOf == [m \in Markers |-> CASE m = 2 -> "FM2" [] m = 3 -> "FM3_3" [] m = 4 -> "FM3_4"]
PickupWaypoint == [m \in {3, 4} |-> IF m = 3 THEN "WA" ELSE "WM"]
Physical == {"truth", "states"}

CompetitionInit ==
    /\ contestIs \in DOMAIN Contests
    /\ told = [p \in Physical \cup {"hooks", "events"} |-> 0] /\ gone = {}
    /\ start = 0 /\ kept = [p \in Physical |-> {}] /\ contestFault = "none"

-----------------------------------------------------------------------------
(* The rules, over evidence ev: [start, truth, states, hooks, events].      *)

FirstOf(S) == CHOOSE t \in S : \A u \in S : t <= u

Prefix(ev, n) == Len(ev.events) >= n /\ \A i \in 1 .. n : ev.events[i].e = MissionSequence[i]

\* _phase_events: the first and the last event of a phase, if all before it is in order.
PhaseEnd(phase) == PhaseIndex[phase] + IF phase = "HOME" THEN 2 ELSE 1
PhaseKnown(ev, phase) == Prefix(ev, PhaseEnd(phase))
Begun(ev, phase) == ev.events[PhaseIndex[phase]].t
Ended(ev, phase) == ev.events[PhaseEnd(phase)].t

Landed(t, waypoint) ==
    contest.truth[t].contact /\ contest.truth[t].still /\ contest.truth[t].at = waypoint

\* _vehicle_at: the sample of the time, or the one before.
VehicleAt(ev, t) ==
    LET near == {u \in {t, t - 1} : u \in ev.truth}
    IN {u \in near : \A v \in near : v <= u}

Fm1Landing(ev) ==
    PhaseKnown(ev, "FM1") /\ \E t \in VehicleAt(ev, Ended(ev, "FM1")) : Landed(t, "L")

\* _payload_event: the first of its kind, 0 without one.
HookTime(ev, m, action) ==
    LET such == {i \in DOMAIN ev.hooks : ev.hooks[i].m = m /\ ev.hooks[i].action = action}
    IN IF such = {} THEN 0 ELSE ev.hooks[FirstOf(such)].t

HooksPrefix(ev, n) ==
    Len(ev.hooks) >= n /\ \A i \in 1 .. n : <<ev.hooks[i].m, ev.hooks[i].action>> = PayloadSequence[i]

\* _release_gate: still, high and over the target for long enough.
ReleaseGate(ev, t) ==
    /\ t >= ev.start + StabilitySamples
    /\ \A u \in t - StabilitySamples .. t :
         u \in ev.truth /\ contest.truth[u].at = "F2" /\ contest.truth[u].still /\ contest.truth[u].high

PhysicalRelease(ev, m, t) ==
    /\ t - 1 \in ev.states /\ contest.states[t - 1][m].attached
    /\ \E u \in {t, t + 1} : u \in ev.states /\ ~contest.states[u][m].attached

\* _physical_attach: it lay at its waypoint under the vehicle, which stood there.
PhysicalAttach(ev, m, t) ==
    LET taken == {u \in {t, t + 1} : u \in ev.states /\ contest.states[u][m].attached}
        u == FirstOf(taken)
    IN /\ taken # {} /\ u - 1 \in ev.states
       /\ contest.states[u - 1][m].grounded /\ ~contest.states[u - 1][m].attached
       /\ contest.states[u][m].at = PickupWaypoint[m] /\ contest.states[u][m].near
       /\ \E v \in VehicleAt(ev, u) : contest.truth[v].contact

\* _settled_timestamp: at rest in the target for long enough after time t, 0 if never.
Settled(ev, m, t) ==
    LET rests(u) == /\ u \in ev.states /\ u > t
                    /\ LET s == contest.states[u][m]
                       IN s.grounded /\ ~s.attached /\ s.still /\ s.at = "F2"
        ends == {u \in ev.states : u > RestSamples /\ \A v \in u - RestSamples .. u : rests(v)}
    IN IF ends = {} THEN 0 ELSE FirstOf(ends)

CapacityValid(ev) ==
    \A t \in ev.states : Cardinality({m \in Markers : contest.states[t][m].attached}) <= 1

\* _home_landing_timestamp: landed before the disarm, and not moved until the end.
HomeLandings(ev) ==
    {t \in ev.truth : t >= Begun(ev, "HOME") /\ Landed(t, "H")}

HomeLanded(ev) ==
    /\ PhaseKnown(ev, "HOME") /\ HomeLandings(ev) # {}
    /\ LET begun == Begun(ev, "HOME")
           disarmed == ev.events[10].t
           ended == Ended(ev, "HOME")
           landing == FirstOf(HomeLandings(ev))
       IN /\ begun < disarmed /\ disarmed < ended /\ landing < disarmed
          /\ \A t \in {disarmed, ended} : \E u \in VehicleAt(ev, t) : Landed(u, "H")
          /\ \A t \in ev.truth : t \in landing .. ended => Landed(t, "H")

\* _home_checkpoint_boundary_timestamp, 0 if there is none.
HomeBoundary(ev) ==
    LET claims == {ev.events[i].t : i \in {j \in DOMAIN ev.events :
                     j > 9 /\ ev.events[j].e \in {"DISARMED", "HOME-"}}}
    IN IF ~Prefix(ev, 9) \/ claims \cup HomeLandings(ev) = {} THEN 0
       ELSE FirstOf(claims \cup HomeLandings(ev))

\* The moment by which the payload must be at rest: the next one is fetched, or home.
Boundary(ev, m) ==
    CASE m = 2 -> HookTime(ev, 3, "attach") [] m = 3 -> HookTime(ev, 4, "attach")
      [] m = 4 -> HomeBoundary(ev)

InTime(ev, m) ==
    LET s == Settled(ev, m, HookTime(ev, m, "release"))
    IN s = 0 \/ Boundary(ev, m) = 0 \/ s < Boundary(ev, m)

Delivered(ev, m) ==
    LET phase == PhaseOf[m]
        release == HookTime(ev, m, "release")
        attach == HookTime(ev, m, "attach")
    IN /\ PhaseKnown(ev, phase) /\ release # 0
       /\ Begun(ev, phase) <= release /\ release <= Ended(ev, phase)
       /\ HooksPrefix(ev, 2 * m - 3)
       /\ ReleaseGate(ev, release) /\ PhysicalRelease(ev, m, release)
       /\ m \in {3, 4} => /\ attach # 0 /\ Begun(ev, phase) <= attach /\ attach < release
                          /\ PhysicalAttach(ev, m, attach)
       /\ Settled(ev, m, release) # 0 /\ InTime(ev, m)

\* _evaluate, the points: each asks for those before it.
PointsOrder == <<"FM1", "FM2", "FM3_3", "FM3_4">>

Scored(ev, i) ==
    IF i = 1 THEN Fm1Landing(ev) ELSE Delivered(ev, i) /\ (i > 2 => CapacityValid(ev))

\* _evaluate, why the contest is not complete: the first reason there is.
ContestFailure(ev, fault) ==
    LET inOrder == Len(ev.events) = 11 /\ Prefix(ev, 11)
        hooked == Len(ev.hooks) = 5 /\ HooksPrefix(ev, 5)
        settledInTime == \A m \in Markers : HookTime(ev, m, "release") # 0 => InTime(ev, m)
    IN IF ev.start = 0 THEN "mission_start_missing"
       ELSE IF fault # "none" THEN fault
       ELSE IF ~PhaseKnown(ev, "HOME") /\ \E i \in DOMAIN ev.events : ev.events[i].e = "HOME-"
       THEN "home_disarm_missing"
       ELSE IF ~inOrder THEN "mission_sequence_invalid"
       ELSE IF ~hooked THEN "payload_event_sequence_invalid"
       ELSE IF ~CapacityValid(ev) THEN "payload_capacity_exceeded"
       ELSE IF ~settledInTime THEN "physical_sequence_invalid"
       ELSE IF ~HomeLanded(ev) THEN "home_completion_invalid"
       ELSE IF Ended(ev, "HOME") - ev.start > DeadlineSamples THEN "home_deadline_exceeded"
       ELSE "none"

\* The results of an evaluation: one.
ContestResults(ev, fault) ==
    {[passed |-> IF ev.start = 0 \/ fault # "none" THEN {}
                 ELSE {PointsOrder[i] : i \in {k \in 1 .. 4 : \A j \in 1 .. k : Scored(ev, j)}},
      complete |-> why = "none", why |-> why] : why \in {ContestFailure(ev, fault)}}

-----------------------------------------------------------------------------
(* The callbacks.                                                           *)

\* The time of the next message of a topic.
NextTime(p) ==
    IF p \in Physical THEN told[p] + 1
    ELSE IF told[p] < Len(contest[p]) THEN contest[p][told[p] + 1].t ELSE Len(contest.truth) + MaxLag

Available(p) ==
    /\ told[p] < Len(contest[p])
    /\ \A q \in DOMAIN told : NextTime(p) <= NextTime(q) + MaxLag

\* _latest_timestamp_gap, for the sample that was appended last.
LatestGap(S, from) ==
    LET t == CHOOSE u \in S : \A v \in S : v <= u
        before == {u \in S : u < t /\ u >= from}
    IN IF before = {} THEN t - from > 1 ELSE t - 1 \notin before

\* accept_ground_truth, accept_payload_state: before the start everything is kept.
HearSample(p) ==
    /\ Scorable /\ Available(p) /\ told' = [told EXCEPT ![p] = @ + 1]
    /\ IF told'[p] >= start
       THEN /\ kept' = [kept EXCEPT ![p] = @ \cup {told'[p]}]
            /\ contestFault' = IF contestFault = "none" /\ start # 0 /\ LatestGap(kept'[p], start)
                               THEN "gap" ELSE contestFault
       ELSE UNCHANGED <<kept, contestFault>>
    /\ UNCHANGED <<contestIs, gone, start, finalizerVars>>

LoseSample(p) ==
    /\ Scorable /\ Available(p) /\ gone = {} /\ NextTime(p) \in Losable
    /\ gone' = {<<p, NextTime(p)>>} /\ told' = [told EXCEPT ![p] = @ + 1]
    /\ UNCHANGED <<contestIs, start, kept, contestFault, finalizerVars>>

\* _stream_gap, over the samples after the start.
StreamGap(S, from) ==
    LET after == {u \in S : u >= from}
    IN after # {} /\ (FirstOf(after) - from > 1
                      \/ \E t \in after : t # FirstOf(after) /\ t - 1 \notin after)

\* accept_mission_event, the start: the samples that came before it are checked for gaps.
Starts(t) ==
    /\ start' = t
    /\ contestFault' = IF contestFault = "none" /\ \E p \in Physical : StreamGap(kept[p], t)
                       THEN "gap" ELSE contestFault

HearMission ==
    /\ Scorable /\ Available("events") /\ told' = [told EXCEPT !["events"] = @ + 1]
    /\ LET event == contest.events[told'["events"]] IN
       IF start = 0 /\ event.e = "FM1+" THEN Starts(event.t) ELSE UNCHANGED <<start, contestFault>>
    /\ UNCHANGED <<contestIs, gone, kept, finalizerVars>>

HearHook ==
    /\ Scorable /\ Available("hooks") /\ told' = [told EXCEPT !["hooks"] = @ + 1]
    /\ UNCHANGED <<contestIs, gone, start, kept, contestFault, finalizerVars>>

-----------------------------------------------------------------------------
(* The end.                                                                 *)

\* _mission_after_start, _payload_after_start: what is not older than time t.
Since(s, t) ==
    LET step[i \in 0 .. Len(s)] ==
          IF i = 0 THEN <<>>
          ELSE IF s[i].t >= t THEN Append(step[i - 1], s[i]) ELSE step[i - 1]
    IN step[Len(s)]

EvidenceHeard ==
    [start |-> start, truth |-> {t \in kept["truth"] : t >= start},
     states |-> {t \in kept["states"] : t >= start},
     hooks |-> Since(SubSeq(contest.hooks, 1, told["hooks"]), start),
     events |-> IF start = 0 THEN <<>>
                ELSE Since(SubSeq(contest.events, 1, told["events"]), start)]

LastHeard ==
    LET times == kept["truth"] \cup kept["states"] \cup {contest.events[i].t : i \in 1 .. told["events"]}
                 \cup {contest.hooks[i].t : i \in 1 .. told["hooks"]}
    IN IF times = {} THEN 0 ELSE CHOOSE t \in times : \A u \in times : u <= t

\* source_inputs_observed_through: five payload events, and home was claimed.
ContestObserved ==
    LET last == Len(contest.truth)
        claimed(e) == {contest.events[i].t : i \in {j \in 1 .. told["events"] : contest.events[j].e = e}}
    IN /\ \A p \in Physical : last \in kept[p]
       /\ told["hooks"] >= 5
       /\ \E d \in claimed("DISARMED"), c \in claimed("HOME-") : d < c /\ c <= last

CompetitionFinal ==
    \E ev \in {EvidenceHeard} :
       \/ /\ ContestObserved
          /\ \E result \in ContestResults(ev,
                 IF contestFault = "none" /\ LastHeard # Len(contest.truth)
                 THEN "source_finished_timestamp_mismatch" ELSE contestFault) : PollSource(result)
       \/ \E result \in IF evaluated = NoScore THEN ContestResults(ev, contestFault)
                        ELSE {evaluated} : Quiesce(result)

\* Gazebo finishes with its last sample, which no topic is more than MaxLag behind.
ContestSourceEnds == (\E p \in Physical : told[p] + MaxLag >= Len(contest.truth)) /\ SourceEnds

CompetitionNext ==
    \/ \E p \in Physical : HearSample(p) \/ LoseSample(p)
    \/ HearMission \/ HearHook
    \/ (CompetitionFinal \/ ContestSourceEnds \/ AskForScore) /\ UNCHANGED contestVars

CompetitionTypeOK ==
    /\ contestIs \in DOMAIN Contests /\ start \in 0 .. Len(contest.truth)
    /\ \A p \in DOMAIN told : told[p] \in 0 .. Len(contest[p])
    /\ \A p \in Physical : kept[p] \subseteq 1 .. told[p]
    /\ contestFault \in {"none", "gap"}

\* When the source was observed to its end, the score is what the rules say of all that was
\* sent, in whatever order the topics arrived and whenever the start was heard: a sample
\* lost after the start costs the whole score, one lost before it costs nothing
\* (_latest_timestamp_gap against _stream_gap, start_sim_time_ns).
ContestIsEarned ==
    bySource =>
      LET from == contest.events[1].t
          all(p) == {t \in from .. Len(contest.truth) : <<p, t>> \notin gone}
          lost == \E p \in Physical : \E t \in from + 1 .. Len(contest.truth) : <<p, t>> \in gone
      IN \A ev \in {[start |-> from, truth |-> all("truth"), states |-> all("states"),
                     hooks |-> contest.hooks, events |-> contest.events]} :
            score \in ContestResults(ev, IF lost THEN "gap" ELSE "none")
=============================================================================
