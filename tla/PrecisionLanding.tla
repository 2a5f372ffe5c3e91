-------------------------- MODULE PrecisionLanding --------------------------
(***************************************************************************)
(* find_marker and precision_land of DroneOperations: a marker is anchored *)
(* by several frames, then the vehicle descends on it in LAND mode while   *)
(* frames confirm it, holds in GUIDED when they do not, and once goes back *)
(* to the anchor to search.  The operations run on the owner's thread; the *)
(* frames come from the threads of MarkerVision.                           *)
(***************************************************************************)
EXTENDS MarkerVision

CONSTANTS
    AnchorFrames,     \* frames that anchor a marker (5)
    ReacquireFrames,  \* frames in a row that end a hold (5)
    HoldTicks         \* a hold lasts this long at most (10: 5 s)

ASSUME LandingAssumption ==
    AnchorFrames \in Nat \ {0} /\ ReacquireFrames \in Nat \ {0} /\ HoldTicks \in Nat \ {0}

VARIABLES
    landing,    \* the operation: idle, find, found, then the phases of precision_land, landed, failed
    lastSeq,    \* the last frame looked at
    streak,     \* frames in a row: samples of find_marker, reacquired frames of a hold
    retry,      \* the search at the anchor has been used
    healthyAt,  \* last_healthy_ns
    holdAt,     \* hold_started_ns
    modeSeen,   \* the observed mode
    nearGround, \* a fresh range is at most 0.75 m
    modeSent,   \* the modes commanded
    shown,      \* history: the newest exposure that showed the marker at the anchor, or the
                \*   last time the ground was near
    looked      \* history: when the operation was last evaluated

landingVars == <<landing, lastSeq, streak, retry, healthyAt, holdAt, modeSeen, nearGround,
                 modeSent, shown, looked>>
precisionVars == <<visionVars, landingVars>>

LandingOver == landing \in {"landed", "failed"}

LandingTypeOK ==
    /\ VisionTypeOK
    /\ landing \in {"idle", "find", "found", "await_first", "tracking", "hold", "retry_transit",
                    "landed", "failed"}
    /\ lastSeq \in 0 .. LastTick + 1 /\ streak \in 0 .. AnchorFrames + ReacquireFrames
    /\ retry \in BOOLEAN /\ healthyAt \in 0 .. LastTick /\ holdAt \in 0 .. LastTick
    /\ modeSeen \in {"GUIDED", "LAND"} /\ nearGround \in BOOLEAN
    /\ \A i \in DOMAIN modeSent : modeSent[i] \in {"GUIDED", "LAND"}
    /\ shown \in 0 .. LastTick /\ looked \in 0 .. LastTick

LandingInit ==
    /\ VisionInit
    /\ landing = "idle" /\ lastSeq = 0 /\ streak = 0 /\ retry = FALSE /\ healthyAt = 0
    /\ holdAt = 0 /\ modeSeen = "GUIDED" /\ nearGround = FALSE /\ modeSent = <<>>
    /\ shown = 0 /\ looked = 0

-----------------------------------------------------------------------------

\* Mutant: the age of the exposure is not looked at.
UsableAtAnyAge(f) == f.seq > lastSeq /\ f.exp <= now

\* _marker_candidate: a frame not seen before, exposed and received at most 500 ms ago.
Usable(f) == f.seq > lastSeq /\ f.exp <= now /\ ~Stale(f.exp)

\* One observation is polled, if there is one; a worker's error fails the operation.
Polled ==
    IF results[request] = <<>> THEN results' = results
    ELSE results' = [results EXCEPT ![request] = Tail(@)]

Observed == IF results[request] = <<>> THEN [seq |-> 0, exp |-> 1] ELSE Head(results[request])

VisionFailed == Observed = NoFrame

\* The operation ends, and its worker is told to stop.
EndLanding(state) ==
    /\ landing' = state /\ Cancel
    /\ UNCHANGED <<lastSeq, streak, retry, healthyAt, holdAt, modeSent, shown>>

FindMarker ==
    /\ landing = "idle" /\ landing' = "find"
    /\ Request(lastSeq) /\ streak' = 0 /\ looked' = now
    /\ UNCHANGED <<now, images, taken, acq, acqStop, latest, results, lastSeq, retry, healthyAt,
                   holdAt, modeSeen, nearGround, modeSent, shown>>

\* _evaluate_find_marker: samples that agree make the anchor; one that does not starts anew.
EvaluateFind ==
    /\ landing = "find" /\ Polled /\ looked' = now
    /\ LET f == Observed IN
       IF VisionFailed THEN EndLanding("failed")
       ELSE \E agrees \in BOOLEAN :
            LET n == IF agrees THEN streak + 1 ELSE 1 IN
            IF ~Usable(f)
            THEN /\ lastSeq' = Higher(lastSeq, f.seq)
                 /\ UNCHANGED <<landing, streak, retry, healthyAt, holdAt, modeSent, shown, workers>>
            ELSE /\ lastSeq' = f.seq /\ shown' = f.exp
                 /\ IF n >= AnchorFrames THEN landing' = "found" /\ Cancel /\ streak' = 0
                    ELSE streak' = n /\ UNCHANGED <<landing, workers>>
                 /\ UNCHANGED <<retry, healthyAt, holdAt, modeSent>>
    /\ UNCHANGED <<now, images, taken, acq, acqStop, latest, request, modeSeen, nearGround>>

\* _begin_precision.
BeginPrecision ==
    /\ landing = "found" /\ landing' = "await_first"
    /\ Request(lastSeq) /\ healthyAt' = now /\ retry' = FALSE /\ streak' = 0 /\ looked' = now
    /\ UNCHANGED <<now, images, taken, acq, acqStop, latest, results, lastSeq, holdAt, modeSeen,
                   nearGround, modeSent, shown>>

\* The frame confirms the anchor; before a descent it must also be centred.
Confirms(f) ==
    {c \in BOOLEAN : c => Usable(f)}

\* await_first: LAND on the first frame that confirms.
AwaitFirst(healthy) ==
    /\ landing = "await_first"
    /\ IF healthy
       THEN landing' = "tracking" /\ modeSent' = Append(modeSent, "LAND") /\ healthyAt' = now
       ELSE UNCHANGED <<landing, modeSent, healthyAt>>
    /\ UNCHANGED <<streak, retry, holdAt>>

\* tracking: a frame that confirms is sent on as the landing target, near the ground none
\* is needed; without either for 500 ms the vehicle is stopped.
Track(healthy) ==
    /\ landing = "tracking"
    /\ IF healthy /\ modeSeen # "LAND" THEN UNCHANGED <<landing, modeSent, healthyAt, holdAt, streak>>
       ELSE IF healthy \/ nearGround
       THEN healthyAt' = now /\ UNCHANGED <<landing, modeSent, holdAt, streak>>
       ELSE IF now < healthyAt + 1 THEN UNCHANGED <<landing, modeSent, healthyAt, holdAt, streak>>
       ELSE /\ landing' = "hold" /\ modeSent' = Append(modeSent, "GUIDED")
            /\ holdAt' = now /\ streak' = 0 /\ UNCHANGED healthyAt
    /\ UNCHANGED retry

\* hold since `since', with n frames in a row: enough resume the descent; after 5 s the
\* anchor is searched, once.
Hold(n, since) ==
    IF n >= ReacquireFrames
    THEN /\ landing' = "tracking" /\ modeSent' = Append(modeSent, "LAND")
         /\ healthyAt' = now /\ streak' = 0 /\ holdAt' = since /\ UNCHANGED retry
    ELSE IF now >= since + HoldTicks
    THEN /\ landing' = IF retry THEN "failed" ELSE "retry_transit"
         /\ retry' = TRUE /\ streak' = 0 /\ holdAt' = since /\ UNCHANGED <<modeSent, healthyAt>>
    ELSE /\ landing' = "hold" /\ streak' = n /\ holdAt' = since
         /\ UNCHANGED <<modeSent, healthyAt, retry>>

\* retry_transit on the way: observations are thrown away until the anchor is reached.
Transit ==
    /\ landing = "retry_transit" /\ Polled /\ looked' = now
    /\ IF VisionFailed THEN EndLanding("failed")
       ELSE UNCHANGED <<landing, holdAt, streak, lastSeq, retry, healthyAt, modeSent, shown, workers>>
    /\ UNCHANGED <<now, images, taken, acq, acqStop, latest, request, modeSeen, nearGround>>

\* _evaluate_precision, unless it has ended.  In LAND near the ground no frame is polled;
\* a search that arrives is a new hold.
EvaluatePrecision ==
    /\ landing \in {"await_first", "tracking", "hold", "retry_transit"} /\ looked' = now
    /\ IF landing = "tracking" /\ modeSeen = "LAND" /\ nearGround
       THEN /\ healthyAt' = now /\ shown' = now
            /\ UNCHANGED <<landing, lastSeq, streak, retry, holdAt, modeSent, workers, results>>
       ELSE /\ Polled
            /\ LET f == Observed
                   row(n, healthy) == IF healthy THEN n + 1
                                      ELSE IF results[request] = <<>> THEN n ELSE 0
               IN
               IF VisionFailed THEN EndLanding("failed")
               ELSE \E healthy \in Confirms(f) :
                    /\ lastSeq' = Higher(lastSeq, f.seq)
                    /\ shown' = IF healthy THEN f.exp
                               ELSE IF landing = "tracking" /\ nearGround THEN now ELSE shown
                    /\ \/ AwaitFirst(healthy) \/ Track(healthy)
                       \/ landing = "hold" /\ Hold(row(streak, healthy), holdAt)
                       \/ landing = "retry_transit" /\ Hold(row(0, healthy), now)
                    /\ IF landing' = "failed" THEN Cancel ELSE UNCHANGED workers
    /\ UNCHANGED <<now, images, taken, acq, acqStop, latest, request, modeSeen, nearGround>>

\* Landed and disarmed was observed, or a failsafe, an operator's mode or the timeout ended
\* the operation.
LandingEnds ==
    /\ landing \in {"find", "await_first", "tracking", "hold", "retry_transit"}
    /\ landing' = IF nearGround THEN "landed" ELSE "failed"
    /\ Cancel
    /\ UNCHANGED <<now, images, taken, acq, acqStop, latest, request, results, lastSeq, streak,
                   retry, healthyAt, holdAt, modeSeen, nearGround, modeSent, shown, looked>>

\* What the vehicle does: it follows the mode that was commanded, and comes down.
VehicleMoves ==
    /\ ~LandingOver
    /\ \/ modeSent # <<>> /\ modeSeen' = modeSent[Len(modeSent)] /\ UNCHANGED nearGround
       \/ modeSeen = "LAND" /\ nearGround' = ~nearGround /\ UNCHANGED modeSeen
    /\ UNCHANGED <<visionVars, landing, lastSeq, streak, retry, healthyAt, holdAt, modeSent,
                   shown, looked>>

PrecisionNext ==
    \/ (VisionTick \/ AcceptImage \/ VisionThreads) /\ ~LandingOver /\ UNCHANGED landingVars
    \/ FindMarker \/ EvaluateFind \/ BeginPrecision \/ Transit \/ EvaluatePrecision
    \/ LandingEnds \/ VehicleMoves

-----------------------------------------------------------------------------
(* Properties.                                                              *)

\* The vehicle does not come down blind: as of the last evaluation, while it is tracking
\* in LAND above the last 0.75 m, the marker was exposed less than a second ago, through
\* image buffer, camera thread, vision worker and queue; and LAND and GUIDED are
\* commanded in turn, beginning and, after a hold, resuming with LAND
\* (_evaluate_precision).
NoBlindDescent ==
    /\ landing = "tracking" /\ modeSeen = "LAND" /\ ~nearGround => looked <= shown + 1
    /\ \A i \in DOMAIN modeSent : modeSent[i] = IF i % 2 = 1 THEN "LAND" ELSE "GUIDED"
=============================================================================
