------------------------------ MODULE Scoring ------------------------------
(***************************************************************************)
(* The way from the simulation to a score: the adapter that publishes the  *)
(* ground truth, and the three scorekeepers that judge it.  A run uses one *)
(* scorekeeper, and neither the adapter nor a scorekeeper answers to the   *)
(* other: they share topics only, which each module delays and loses as    *)
(* the quality of service allows.  So one of them runs at a time here, and *)
(* the others stay where they began.                                       *)
(*                                                                         *)
(* The flights that are scored are written out below.                      *)
(***************************************************************************)
EXTENDS EpochAdapter, VfsJudging, CompetitionScore, DescentScore

VARIABLE unit   \* adapter, vfs, contest, descent

scoringVars == <<unit, adapterVars, vfsVars, contestVars, descentVars, finalizerVars>>

-----------------------------------------------------------------------------
(* The adapter: a plain flight, and the competition world, in which a       *)
(* payload that hangs on the vehicle and touches the ground carries it.     *)

AFlight(world, n, legs, hook, floor) ==
    [support |-> world, competition |-> world, frames |-> n, legs |-> legs, hook |-> hook,
     floor |-> floor]

MCFlights ==
    {AFlight(FALSE, 3, {1, 3}, {}, {}), AFlight(TRUE, 2, {2}, {1, 2}, {1}),
     AFlight(TRUE, 2, {1}, {1}, {1, 2})}

-----------------------------------------------------------------------------
(* The 2027 competition: FM1 alone, and FM2 with FM3.                       *)

Leg(contact, at, high, armed, mode, held, says) ==
    [contact |-> contact, at |-> at, high |-> high, armed |-> armed, mode |-> mode,
     parcel |-> held, says |-> says]
Say(what, phase, at) == <<[what |-> what, phase |-> phase, at |-> at, t |-> 1]>>
InAir(high, mode, held, says) == Leg(FALSE, "off", high, TRUE, mode, held, says)
Down(at, held, says) == Leg(TRUE, at, FALSE, FALSE, "auto", held, says)

FM1Course(mode) ==
    << Leg(TRUE, "S", FALSE, TRUE, "auto", "held", Say("started", "FM1", "")),
       InAir(TRUE, mode, "held", <<>>),
       Down("D", "held", <<>>), Down("D", "held", Say("check", "FM1", "D")),
       InAir(TRUE, "auto", "held", <<>>),
       Down("H", "held", <<>>), Down("H", "held", Say("check", "FM1", "H")) >>

\* wait: epochs on the ground before the fetched payload is looked for.
FM23Course(high, spot, wait) ==
    << Leg(TRUE, "H", FALSE, TRUE, "auto", "held", Say("started", "FM2", "")),
       InAir(high, "auto", "held", <<>>),
       InAir(high, "auto", "target", Say("release", "FM2", "")),
       Down("H", "target", Say("check", "FM2", "")) >>
    \o [i \in 1 .. wait |-> Down("H", "target", <<>>)]
    \o << InAir(TRUE, "auto", "held", Say("started", "FM3", "")),
          Leg(TRUE, spot, FALSE, TRUE, "auto", "L", Say("release", "FM3", "")),
          InAir(TRUE, "auto", "L", <<>>),
          Down("H", "L", Say("check", "FM3", "")) >>

MCCourses ==
    << FM1Course("auto"), FM1Course("manual"), FM23Course(TRUE, "L", 0),
     FM23Course(FALSE, "elsewhere", 0), FM23Course(TRUE, "L", 4) >>

-----------------------------------------------------------------------------
(* The 2026 contest: all of it done, and one thing wrong at a time.         *)

ContestLength == 20

\* Where the vehicle is: [at, contact, still, high].
ContestTruth ==
    [t \in 1 .. ContestLength |->
       LET on(at) == [at |-> at, contact |-> TRUE, still |-> TRUE, high |-> FALSE]
       IN CASE t <= 3 -> on("L")
            [] t \in {4, 5, 9, 10, 14, 15} ->
                 [at |-> "F2", contact |-> FALSE, still |-> TRUE, high |-> TRUE]
            [] t = 8 -> on("WA") [] t = 13 -> on("WM") [] t >= 18 -> on("H")
            [] OTHER -> [at |-> "way", contact |-> FALSE, still |-> FALSE, high |-> TRUE]]

\* A payload that waits at a waypoint, hangs from..to, and then lies in the target.
PayloadPath(at, from, to) ==
    [t \in 1 .. ContestLength |->
       [at |-> IF t <= from THEN at ELSE IF t <= to THEN "way" ELSE "F2",
        grounded |-> t < from \/ t > to + 1, attached |-> t \in from .. to,
        still |-> TRUE, near |-> t \in from - 1 .. to]]

ContestStates(two, three, four) ==
    [t \in 1 .. ContestLength |-> [m \in {2, 3, 4} |->
       CASE m = 2 -> two[t] [] m = 3 -> three[t] [] m = 4 -> four[t]]]

GoodContest ==
    [truth |-> ContestTruth,
     states |-> ContestStates(PayloadPath("L", 0, 4), PayloadPath("WA", 8, 9),
                              PayloadPath("WM", 13, 14)),
     hooks |-> << [m |-> 2, action |-> "release", t |-> 5], [m |-> 3, action |-> "attach", t |-> 8],
                  [m |-> 3, action |-> "release", t |-> 10], [m |-> 4, action |-> "attach", t |-> 13],
                  [m |-> 4, action |-> "release", t |-> 15] >>,
     events |-> << [e |-> "FM1+", t |-> 2], [e |-> "FM1-", t |-> 3], [e |-> "FM2+", t |-> 3],
                   [e |-> "FM2-", t |-> 6], [e |-> "FM3_3+", t |-> 7], [e |-> "FM3_3-", t |-> 11],
                   [e |-> "FM3_4+", t |-> 12], [e |-> "FM3_4-", t |-> 16], [e |-> "HOME+", t |-> 17],
                   [e |-> "DISARMED", t |-> 19], [e |-> "HOME-", t |-> 20] >>]

MCContests ==
    << GoodContest,
     \* released low; two payloads hang at once; lifted off again at the end
     [GoodContest EXCEPT !.truth[10].high = FALSE],
     [GoodContest EXCEPT !.states[8][4].attached = TRUE],
     [GoodContest EXCEPT !.truth[19].contact = FALSE],
     \* the start is one sample earlier, which makes the way home too long
     [GoodContest EXCEPT !.events[1].t = 1],
     \* the first payload is still rolling when the second is fetched
     [GoodContest EXCEPT !.states[7][2].still = FALSE] >>

-----------------------------------------------------------------------------
(* The descent.                                                             *)

MCDescents ==
    LET D(rise, contact, near, calm) ==
          [rise |-> rise, contact |-> contact, near |-> near, slow |-> TRUE, calm |-> calm]
        ground == D(FALSE, TRUE, TRUE, TRUE)
        air == D(TRUE, FALSE, TRUE, FALSE)
    IN {<<ground, air, ground, ground, ground>>, <<ground, air, ground, air, ground>>,
        <<ground, air, D(FALSE, TRUE, FALSE, TRUE), ground>>}

MCScenarioEvents ==
    LET off(i) == [id |-> i, state |-> "INACTIVE"]
        on == [id |-> 0, state |-> "ACTIVE"]
    IN {<<off(0)>>, <<off(0), off(0), off(1)>>, <<on>>, <<off(0), on>>}

-----------------------------------------------------------------------------


ScoringInit ==
    /\ unit \in {"adapter", "vfs", "contest", "descent"}
    /\ AdapterInit /\ VfsInit /\ CompetitionInit /\ DescentInit /\ FinalizerInit
    /\ unit # "adapter" => ~wanted /\ flight = AFlight(TRUE, 2, {1}, {1}, {1, 2})
    /\ unit # "vfs" => course = 1
    /\ unit # "contest" => contestIs = 1
    /\ unit # "descent" => scenario = <<[id |-> 0, state |-> "INACTIVE"]>> /\ Len(descent) = 4

OnlyAdapter ==
    /\ unit = "adapter" /\ AdapterNext
    /\ UNCHANGED <<unit, vfsVars, contestVars, descentVars, finalizerVars>>
OnlyVfs ==
    /\ unit = "vfs" /\ VfsNext
    /\ UNCHANGED <<unit, adapterVars, contestVars, descentVars, finalizerVars>>
OnlyContest ==
    /\ unit = "contest" /\ CompetitionNext
    /\ UNCHANGED <<unit, adapterVars, vfsVars, descentVars>>
OnlyDescent ==
    /\ unit = "descent" /\ DescentNext
    /\ UNCHANGED <<unit, adapterVars, vfsVars, contestVars>>

ScoringNext == OnlyAdapter \/ OnlyVfs \/ OnlyContest \/ OnlyDescent

ScoringSpec == ScoringInit /\ [][ScoringNext]_scoringVars
-----------------------------------------------------------------------------
(* Properties.                                                              *)

ScoringTypeOK ==
    /\ AdapterTypeOK /\ VfsTypeOK /\ CompetitionTypeOK /\ DescentTypeOK /\ FinalizerTypeOK

\* A verdict is what the rules say of what was flown, whatever the topics did: the 2027
\* judge never uses evidence of another moment, the 2026 score and the descent are those of
\* the whole flight, and the status that ends the run tells of a score that is on disk.
VerdictsAreEarned ==
    /\ VfsIsFair /\ StatusIsTrue
    /\ unit = "contest" => ContestIsEarned
    /\ unit = "descent" => DescentIsEarned

IsExtension(s, t) == Len(s) <= Len(t) /\ SubSeq(t, 1, Len(s)) = s

\* The part of it that every scorekeeper shares.
ResultStays ==
    /\ onDisk # NoScore => onDisk' = onDisk
    /\ scoreStatus # "none" => scoreStatus' = scoreStatus

\* Nothing that was told is taken back: a result on disk and a status are not rewritten,
\* not by the second attempt after a flush that timed out and not by messages that arrive
\* late; decisions of the judge and published truths are only added to; and the score of
\* the 2027 competition is final (_ScoreFinalizer, VfsScorekeeperRuntime._finalize).
VerdictsAreFinal ==
    [][/\ ResultStays
       /\ IsExtension(decisions, decisions') /\ IsExtension(public.truths, public'.truths)
       /\ vfsRun = "scored" => points' = points]_scoringVars
=============================================================================
