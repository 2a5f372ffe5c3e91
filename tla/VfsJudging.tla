----------------------------- MODULE VfsJudging -----------------------------
(***************************************************************************)
(* The judge and the scorer of the 2027 competition while it is flown:     *)
(* VfsScorekeeperRuntime joins the topics of Gazebo (ground truth, payload *)
(* state) and of the companion (vehicle status) into epochs of 50 ms, the  *)
(* judge answers the checks the companion asks for, and the scorer keeps   *)
(* the points.                                                             *)
(*                                                                         *)
(* Each topic is reliable and in order; between topics nothing is ordered. *)
(* A number of epochs stands for a time.  One payload stands for three:    *)
(* each is judged by itself.  What the vehicle does is a leg of `vfsLegs': *)
(* it lasts one epoch, and a leg with a check lasts until that is approved *)
(* for the companion asks one thing at a time.                             *)
(***************************************************************************)
EXTENDS Naturals, Sequences, FiniteSets

CONSTANTS
    Courses,          \* sequence of flights: sequences of legs [contact, at, high, armed, mode, parcel, says]
    LastEpoch,        \* bound: the run has this many epochs
    MaxBacklog,       \* bound: epochs that were published and are not joined yet
    JudgePatience,    \* 500 ms
    StatusPeriod,     \* epochs from one vehicle status to the next (2)
    SettleEpochs,     \* a payload at rest this long is settled
    ActiveEpochs,     \* attempt.duration_seconds
    ApprovalEpochs    \* attempt.approval_timeout_s

Phases == {"FM1", "FM2", "FM3"}

\* What the companion and the gateway say on a leg, and a leg.
Sayings ==
    [what : {"started", "release", "check"}, phase : Phases, at : STRING, t : Nat \ {0}]
Legs ==
    [contact : BOOLEAN, at : STRING, high : BOOLEAN, armed : BOOLEAN, mode : STRING,
     parcel : STRING, says : Seq(Sayings)]

ASSUME VfsAssumption ==
    /\ \A i \in DOMAIN Courses : Courses[i] \in Seq(Legs) /\ Len(Courses[i]) > 0
    /\ LastEpoch \in Nat \ {0} /\ StatusPeriod \in Nat \ {0}
    /\ {MaxBacklog, JudgePatience, SettleEpochs, ActiveEpochs, ApprovalEpochs} \subseteq Nat

IsCheck(s, phase) == s.what = "check" /\ s.phase = phase

\* The vehicle takes off after leg n of course c.
TakesOff(c, n) == c[n].contact /\ ~c[n + 1].contact

\* The missions are flown in their order, as in the plan that is shipped: FM2 is checked after
\* a takeoff, and not any more once FM3 is checked.
InOrder(c) ==
    /\ \A i \in DOMAIN c[1].says : c[1].says[i].t = 1
    /\ \A n \in DOMAIN c : \A i \in DOMAIN c[n].says : IsCheck(c[n].says[i], "FM2") =>
         /\ \E m \in 1 .. n - 1 : TakesOff(c, m)
         /\ \A m \in 1 .. n : \A k \in DOMAIN c[m].says :
              IsCheck(c[m].says[k], "FM3") => m = n /\ i < k

ASSUME CourseAssumption == \A i \in DOMAIN Courses : InOrder(Courses[i])

VARIABLES
    course,      \* the flight: an index of Courses
    leg,         \* the leg that is flown
    vfsNow,      \* epochs published
    flown,       \* the facts of the epochs that are not joined yet
    skipped,     \* epochs whose vehicle status the companion did not sample
    got,         \* per topic: the epochs that arrived
    said,        \* what the companion and the gateway said and has not arrived: [what, phase, at, t]
    joined,      \* _last_epoch_timestamp_ns
    draining,    \* _drain_physical_epochs runs
    asked,       \* the pending check, or NoCheck
    judge,       \* VfsJudge
    points,      \* VfsScorer
    decisions,   \* the decisions made, in order
    vfsRun       \* running, raised, scored

vfsVars == <<course, leg, vfsNow, flown, skipped, got, said, joined, draining, asked, judge,
             points, decisions, vfsRun>>

vfsLegs == Courses[course]
NoCheck == [what |-> "none", phase |-> "", at |-> "", t |-> 0]
PhysicalTopics == {"truth", "parcel", "status"}
Resting == {"target", "L", "elsewhere"}

VfsTypeOK ==
    /\ course \in DOMAIN Courses /\ leg \in 1 .. Len(vfsLegs) /\ vfsNow \in 0 .. LastEpoch
    /\ Len(flown) = vfsNow - joined /\ skipped \subseteq 1 .. LastEpoch
    /\ got \in [PhysicalTopics -> 0 .. LastEpoch] /\ joined \in 0 .. LastEpoch
    /\ draining \in BOOLEAN /\ vfsRun \in {"running", "raised", "scored"}
    /\ judge.phase \in Phases \cup {""} /\ judge.t \in 0 .. joined
    /\ judge.since \in 0 .. LastEpoch /\ judge.acc \in 0 .. LastEpoch
    /\ judge.failure \in {"none", "approval_timeout", "active_deadline_exceeded"}
    /\ points.earned \subseteq {"A", "A+", "BP", "BA", "CP", "CA", "T"}
    /\ \A i \in DOMAIN decisions : decisions[i].outcome \in {"approved", "rejected", "error"}

NoPoints ==
    [earned |-> {}, phase |-> "", auto |-> Phases, lowRelease |-> FALSE, badRelease |-> FALSE,
     penalties |-> 0, active |-> 0, home |-> FALSE, eligible |-> FALSE]

VfsInit ==
    /\ course \in DOMAIN Courses /\ leg = 1 /\ vfsNow = 0 /\ flown = <<>> /\ skipped = {}
    /\ got = [p \in PhysicalTopics |-> 0] /\ said = vfsLegs[1].says
    /\ joined = 0 /\ draining = FALSE /\ asked = NoCheck
    /\ judge = [phase |-> "", t |-> 0, contact |-> FALSE, at |-> "", statusAt |-> 0,
                armed |-> TRUE, parcel |-> "none", rest |-> 0, started |-> 0, since |-> 0,
                acc |-> 0, paused |-> FALSE, approval |-> 0, finished |-> FALSE,
                failure |-> "none", takeoffs |-> 0, landedAtD |-> FALSE, released |-> FALSE,
                airborne |-> FALSE, eligible |-> FALSE, high |-> FALSE]
    /\ points = NoPoints /\ decisions = <<>> /\ vfsRun = "running"

-----------------------------------------------------------------------------
(* The world, the companion and the gateway.                                *)

Approved(phase, at) ==
    \E i \in DOMAIN decisions : /\ decisions[i].phase = phase /\ decisions[i].at = at
                                /\ decisions[i].outcome = "approved"

\* The next leg may be flown when what this one asked for is approved.
LegDone ==
    \A i \in DOMAIN vfsLegs[leg].says :
        LET s == vfsLegs[leg].says[i] IN s.what = "check" => Approved(s.phase, s.at)

\* An epoch passes, on the next leg if this one is done.  What is said on a leg is stamped with its
\* first epoch.  A busy companion skips a status (VehicleStatusStream.sample).
WorldEpoch ==
    /\ vfsRun = "running" /\ ~draining /\ vfsNow < LastEpoch /\ Len(flown) < MaxBacklog
    /\ vfsNow' = vfsNow + 1
    /\ IF vfsNow > 0 /\ LegDone /\ leg < Len(vfsLegs)
       THEN /\ leg' = leg + 1
            /\ said' = said \o [i \in DOMAIN vfsLegs[leg'].says |->
                                  [vfsLegs[leg'].says[i] EXCEPT !.t = vfsNow']]
       ELSE UNCHANGED <<leg, said>>
    /\ flown' = Append(flown, vfsLegs[leg'])
    /\ skipped' \in IF vfsNow' % StatusPeriod = 0 /\ skipped = {}
                    THEN {skipped, {vfsNow'}} ELSE {skipped}
    /\ UNCHANGED <<course, got, joined, draining, asked, judge, points, decisions, vfsRun>>

StatusDue(t) == t % StatusPeriod = 0
Fact(t) == flown[t - joined]

-----------------------------------------------------------------------------
(* VfsJudge.                                                                *)

ElapsedAt(j, t) == j.acc + (IF j.since = 0 THEN 0 ELSE IF t > j.since THEN t - j.since ELSE 0)

\* accept_ground_truth: takeoffs start the clock and start it again, a landing at H in FM3
\* stops it; an approval that is not used and an attempt that lasts too long end it.
JudgeTruth(j, f, t) ==
    LET takesOff == j.t > 0 /\ j.contact /\ ~f.contact
        unused == j.paused /\ j.approval # 0 /\ t - j.approval > ApprovalEpochs
        first == takesOff /\ j.started = 0
        again == takesOff /\ j.started # 0 /\ j.paused /\ ~j.finished /\ ~unused
        home == /\ j.t > 0 /\ ~j.contact /\ f.contact /\ j.phase = "FM3" /\ f.at = "H"
                /\ j.since # 0
        k == [j EXCEPT !.t = t, !.contact = f.contact, !.at = f.at,
                       !.takeoffs = IF takesOff /\ @ < 2 THEN @ + 1 ELSE @,
                       !.airborne = @ \/ (takesOff /\ j.phase = "FM2"),
                       !.high = IF takesOff THEN f.high ELSE @ \/ (~f.contact /\ f.high),
                       !.started = IF first THEN t ELSE @,
                       !.since = IF first \/ again THEN t ELSE IF home THEN 0 ELSE @,
                       !.acc = IF home THEN @ + t - j.since ELSE @,
                       !.paused = (@ \/ home) /\ ~again,
                       !.approval = IF again THEN 0 ELSE @,
                       !.finished = @ \/ unused,
                       !.failure = IF unused THEN "approval_timeout" ELSE @]
    IN IF ElapsedAt(k, t) <= ActiveEpochs THEN k
       ELSE [k EXCEPT !.acc = ElapsedAt(k, t), !.since = 0, !.finished = TRUE,
                      !.failure = "active_deadline_exceeded"]

JudgeParcel(j, f, t) ==
    [j EXCEPT !.parcel = f.parcel,
              !.rest = IF f.parcel \notin Resting THEN 0 ELSE IF @ = 0 THEN t ELSE @]

\* accept_vehicle_status: disarmed at H in FM2, the clock stops.
JudgeStatus(j, f, t) ==
    LET pauses == /\ j.phase = "FM2" /\ j.airborne /\ j.since # 0 /\ ~f.armed
                  /\ j.contact /\ j.at = "H"
    IN [j EXCEPT !.statusAt = t, !.armed = f.armed,
                 !.acc = IF pauses THEN @ + t - j.since ELSE @,
                 !.since = IF pauses THEN 0 ELSE @,
                 !.paused = @ \/ pauses]

\* The FM2 check is approved: the clock stops, and the payload that is settled on its target
\* is the one that may be fetched.  Without one the attempt is finished.
FreezeEligible(j, t) ==
    LET eligible == j.parcel = "target" /\ t - j.rest >= SettleEpochs
    IN [j EXCEPT !.acc = ElapsedAt(j, t), !.since = 0, !.paused = TRUE, !.approval = t,
                 !.released = TRUE, !.eligible = eligible, !.finished = @ \/ ~eligible]

\* A landing is checked at D or H, a phase as a whole.
Valid(c) == IF c.phase = "FM1" THEN c.at \in {"D", "H"} ELSE c.at = ""

\* _decision: <<outcome, judge>>.
Decide(j, c) ==
    LET down == j.contact /\ ~j.armed
        ordered == \/ c.at = "D" /\ j.phase = "FM1" /\ j.takeoffs >= 1
                   \/ c.at = "H" /\ j.landedAtD /\ j.takeoffs >= 2
    IN IF \/ j.t = 0 \/ j.t > c.t \/ c.t - j.t > 1
          \/ j.statusAt = 0 \/ j.statusAt > c.t \/ c.t - j.statusAt > JudgePatience
          \/ ~Valid(c)
       THEN <<"error", j>>
       ELSE IF c.phase = "FM1"
       THEN IF down /\ j.at = c.at /\ ordered /\ j.high
            THEN <<"approved", [j EXCEPT !.landedAtD = @ \/ c.at = "D"]>>
            ELSE <<"rejected", j>>
       ELSE IF c.phase = "FM2"
       THEN IF down /\ j.at = "H" THEN <<"approved", FreezeEligible(j, c.t)>> ELSE <<"rejected", j>>
       ELSE IF /\ j.failure = "none" /\ (j.eligible => j.parcel = "L")
               /\ j.phase = "FM3" /\ j.released /\ down /\ j.at = "H"
            THEN <<"approved", [j EXCEPT !.finished = TRUE]>>
            ELSE <<"rejected", j>>

-----------------------------------------------------------------------------
(* VfsScorer.                                                               *)

\* accept_ground_truth: a landing off the course, or in a failsafe, costs points.
ScoreTruth(p, j, f) ==
    IF j.t = 0 \/ j.contact \/ ~f.contact THEN p
    ELSE [p EXCEPT !.penalties = @ + (IF f.at \notin {"S", "D", "L", "H"} THEN 1 ELSE 0)
                                   + (IF f.mode = "failsafe" THEN 1 ELSE 0)]

ScoreStatus(p, f) ==
    IF (f.armed /\ f.mode = "manual") \/ f.mode = "failsafe"
    THEN [p EXCEPT !.auto = @ \ {p.phase}] ELSE p

\* accept_payload_event, a release: by the truth that was joined last.
ScoreRelease(p, j) ==
    IF j.t = 0 THEN p
    ELSE IF p.phase = "FM2" /\ (j.contact \/ ~j.high)
    THEN [p EXCEPT !.lowRelease = TRUE, !.earned = @ \ {"BP"}]
    ELSE IF p.phase = "FM3" /\ ~(j.contact /\ j.at = "L")
    THEN [p EXCEPT !.badRelease = TRUE, !.earned = @ \ {"CP"}]
    ELSE p

\* accept_judge_decision, for an approval.
ScoreApproval(p, j, c) ==
    IF c.phase = "FM1"
    THEN IF c.at = "H"
         THEN [p EXCEPT !.earned = (@ \ {"A", "A+"}) \cup {IF "FM1" \in p.auto THEN "A+" ELSE "A"}]
         ELSE p
    ELSE IF c.phase = "FM2"
    THEN [p EXCEPT !.eligible = j.eligible, !.active = j.acc, !.home = FALSE,
                   !.earned = (@ \ {"BP", "BA"})
                      \cup (IF j.eligible /\ ~p.lowRelease THEN {"BP"} ELSE {})
                      \cup (IF j.eligible /\ "FM2" \in p.auto THEN {"BA"} ELSE {})]
    ELSE LET delivered == p.eligible /\ j.parcel = "L"
         IN [p EXCEPT !.active = ElapsedAt(j, j.t), !.home = TRUE,
                      !.earned = (@ \ {"CP", "CA"})
                         \cup (IF delivered /\ ~p.badRelease THEN {"CP"} ELSE {})
                         \cup (IF delivered /\ "FM3" \in p.auto THEN {"CA"} ELSE {})]

\* finalize: late at home, or a bonus for the time that is left.
ScoreEnd(p) ==
    IF p.active > ActiveEpochs /\ ~p.home THEN [p EXCEPT !.penalties = @ + 1]
    ELSE IF "CP" \in p.earned /\ p.home /\ p.active <= ActiveEpochs
    THEN [p EXCEPT !.earned = @ \cup {"T"}] ELSE p

-----------------------------------------------------------------------------
(* VfsScorekeeperRuntime.                                                   *)

Arrived == {got[p] : p \in PhysicalTopics}
LatestObserved == CHOOSE m \in Arrived : \A n \in Arrived : n <= m

\* The samples that wait for their epoch.
Buffered ==
    {t \in joined + 1 .. LatestObserved :
       \/ t <= got["truth"] \/ t <= got["parcel"]
       \/ t <= got["status"] /\ StatusDue(t) /\ t \notin skipped}

\* A physical sample arrives.  A status that was skipped is not there to arrive.
Receive(topic) ==
    /\ vfsRun = "running" /\ ~draining
    /\ LET due == {t \in got[topic] + 1 .. vfsNow : topic = "status" => StatusDue(t) /\ t \notin skipped}
       IN /\ due # {}
          /\ got' = [got EXCEPT ![topic] = CHOOSE t \in due : \A u \in due : t <= u]
    /\ draining' = TRUE
    /\ UNCHANGED <<course, leg, vfsNow, flown, skipped, said, joined, asked, judge, points,
                   decisions, vfsRun>>

EpochComplete(t) ==
    /\ got["truth"] >= t /\ got["parcel"] >= t
    /\ got["status"] > 0
    /\ StatusDue(t) => got["status"] >= t /\ t \notin skipped

\* Check c is answered with decision d = <<outcome, judge>>.
Answer(j, p, c, d) ==
    /\ judge' = d[2]
    /\ points' = IF d[1] = "approved" THEN ScoreApproval(p, d[2], c) ELSE p
    /\ decisions' = Append(decisions, [phase |-> c.phase, at |-> c.at, t |-> c.t,
                                       outcome |-> d[1], truthAt |-> j.t, statusAt |-> j.statusAt])

\* One round of _drain_physical_epochs: an epoch is judged when all of it is there, never
\* past the moment of a check that waits.
JoinEpoch ==
    /\ vfsRun = "running" /\ draining /\ EpochComplete(joined + 1)
    /\ asked = NoCheck \/ asked.t >= joined + 1
    /\ LET t == joined + 1
           f == Fact(t)
           j1 == JudgeParcel(JudgeTruth(judge, f, t), f, t)
           p1 == ScoreTruth(points, judge, f)
           j2 == IF StatusDue(t) THEN JudgeStatus(j1, f, t) ELSE j1
           p2 == IF StatusDue(t) THEN ScoreStatus(p1, f) ELSE p1
       IN /\ joined' = t /\ flown' = Tail(flown)
          /\ IF asked # NoCheck /\ t >= asked.t THEN Answer(j2, p2, asked, Decide(j2, asked)) /\ asked' = NoCheck
             ELSE judge' = j2 /\ points' = p2 /\ UNCHANGED <<asked, decisions>>
    /\ UNCHANGED <<course, leg, vfsNow, skipped, got, said, draining, vfsRun>>

\* The end of the drain: a check that waited too long is an error, and so is an epoch that
\* stays incomplete: that raises, and the callback fails the run.
DrainEnds ==
    /\ vfsRun = "running" /\ draining
    /\ ~(EpochComplete(joined + 1) /\ (asked = NoCheck \/ asked.t >= joined + 1))
    /\ IF asked # NoCheck /\ LatestObserved > asked.t + JudgePatience
       THEN Answer(judge, points, asked, <<"error", judge>>) /\ asked' = NoCheck
       ELSE UNCHANGED <<asked, judge, points, decisions>>
    /\ draining' = FALSE
    /\ vfsRun' = IF \E t \in Buffered : LatestObserved - t > JudgePatience THEN "raised"
                 ELSE "running"
    /\ UNCHANGED <<course, leg, vfsNow, flown, skipped, got, said, joined>>

\* accept_mission_event and accept_payload_event: a check waits for its epoch, anything
\* else counts at once.
Hear ==
    /\ vfsRun = "running" /\ ~draining /\ said # <<>> /\ vfsNow > 0
    /\ LET s == Head(said) IN
       /\ said' = Tail(said)
       /\ \/ /\ s.what = "started"
             /\ judge' = [judge EXCEPT
                  !.phase = s.phase,
                  !.airborne = IF s.phase = "FM2" THEN judge.t > 0 /\ ~judge.contact ELSE @]
             /\ points' = [points EXCEPT !.phase = s.phase]
             /\ UNCHANGED <<asked, decisions>>
          \/ /\ s.what = "release" /\ points' = ScoreRelease(points, judge)
             /\ UNCHANGED <<judge, asked, decisions>>
          \/ /\ s.what = "check" /\ joined < s.t /\ asked = NoCheck /\ asked' = s
             /\ UNCHANGED <<judge, points, decisions>>
          \/ /\ s.what = "check" /\ joined >= s.t /\ Answer(judge, points, s, Decide(judge, s))
             /\ UNCHANGED asked
    /\ UNCHANGED <<course, leg, vfsNow, flown, skipped, got, joined, draining, vfsRun>>

\* ScorekeeperDriver.poll: the source has finished and all of it was joined (then no check
\* waits), or the run is finalized, or the error of a callback ended the loop.
ScoreVfs ==
    /\ ~draining /\ (vfsRun = "raised" \/ (vfsRun = "running" /\ vfsNow = LastEpoch))
    /\ points' = ScoreEnd(points) /\ UNCHANGED <<asked, judge, decisions>>
    /\ vfsRun' = "scored"
    /\ UNCHANGED <<course, leg, vfsNow, flown, skipped, got, said, joined, draining>>

VfsCallbacks == Hear \/ JoinEpoch \/ DrainEnds \/ \E p \in PhysicalTopics : Receive(p)

VfsNext == WorldEpoch \/ VfsCallbacks \/ ScoreVfs

-----------------------------------------------------------------------------
(* Properties.                                                              *)

\* In whatever order the topics arrive: a check is judged on the truth of its own epoch
\* and on no status of the future, or it is an error; the clock of the attempt counts no
\* epoch twice; and no point is given for what was not judged before it: the way home
\* counts after FM1's landing at D only, a payload is delivered only after FM2, the attempt
\* is rewarded only after FM3 (VfsJudge._decision, VfsScorer).
JudgeIsFair ==
    /\ \A i \in DOMAIN decisions : decisions[i].outcome # "error" =>
         /\ decisions[i].truthAt = decisions[i].t
         /\ decisions[i].statusAt <= decisions[i].t
    /\ judge.started # 0 => ElapsedAt(judge, judge.t) <= judge.t - judge.started
    /\ points.earned \cap {"A", "A+"} # {} => Approved("FM1", "D")
    /\ points.earned \cap {"BP", "BA", "CP", "CA"} # {} => Approved("FM2", "")
    /\ points.earned \cap {"CP", "CA", "T"} # {} => Approved("FM3", "")
    /\ ~({"CP"} \subseteq points.earned /\ points.badRelease)

\* And as the missions are flown in order: the clock stands still while it is paused, and
\* what is delivered was eligible.
VfsIsFair ==
    /\ JudgeIsFair
    /\ judge.since # 0 => ~judge.paused
    /\ points.earned \cap {"BP", "BA", "CP", "CA"} # {} => points.eligible
=============================================================================
