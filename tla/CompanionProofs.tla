-------------------------- MODULE CompanionProofs --------------------------
(***************************************************************************)
(* What is proved of the companion without a competition, for every bound, *)
(* every buffer size and every set of plans: the landing on a marker, the  *)
(* direct missions, the configured run.                                    *)
(***************************************************************************)
EXTENDS Companion, FiniteSetTheorems, SequenceTheorems, TLAPS

-----------------------------------------------------------------------------
(* The vision threads. *)

Frames == [seq : 0 .. LastTick + 1, exp : 0 .. LastTick + 1]
WorkerStates == [pc : {"none", "ask", "wait", "detect", "dead"}, after : 0 .. LastTick + 1,
                 frame : Frames, stop : BOOLEAN]

\* Exposures only grow along the way from the buffer over the acquisition to the latest
\* observation, so there are no more observations than ticks.
VisionInv ==
    /\ now \in 1 .. LastTick /\ acqStop \in BOOLEAN /\ request \in 0 .. MaxRequests
    /\ images \in [kept : SUBSET (1 .. now + 1), last : 0 .. now + 1]
    /\ Cardinality(images.kept) <= BufferSize
    /\ taken \in 0 .. now
    /\ acq \in [pc : {"none", "capture", "accept", "dead"}, exp : 0 .. taken]
    /\ latest \in Frames /\ latest.exp <= taken /\ latest.seq <= latest.exp
    /\ acq.pc = "accept" => latest.exp < acq.exp
    /\ workers \in [Requests -> WorkerStates]
    /\ results \in [Requests -> Seq(Frames)]

-----------------------------------------------------------------------------
(* The landing. *)

LandingTypes ==
    /\ landing \in {"idle", "find", "found", "await_first", "tracking", "hold", "retry_transit",
                    "landed", "failed"}
    /\ lastSeq \in 0 .. LastTick + 1 /\ streak \in 0 .. AnchorFrames + ReacquireFrames
    /\ retry \in BOOLEAN /\ healthyAt \in 0 .. now /\ holdAt \in 0 .. now
    /\ modeSeen \in {"GUIDED", "LAND"} /\ nearGround \in BOOLEAN
    /\ shown \in 0 .. now /\ looked \in 0 .. now

\* A hold and the search after it follow a descent that was stopped, and a descent follows a
\* frame or a look at the ground: as long as the clock stands still since then, it is not blind.
SightInv ==
    /\ landing \notin {"idle", "landed", "failed"} => request > 0
    /\ landing = "find" => streak < AnchorFrames
    /\ landing = "hold" => streak < ReacquireFrames
    /\ landing = "tracking" => healthyAt <= looked /\ looked <= shown + 1

\* The last mode commanded is LAND while the vehicle is tracking, and GUIDED otherwise.
InTurn ==
    /\ modeSent \in Seq({"GUIDED", "LAND"})
    /\ \A i \in 1 .. Len(modeSent) : modeSent[i] = IF i % 2 = 1 THEN "LAND" ELSE "GUIDED"
    /\ landing \in {"idle", "find", "found", "await_first", "hold", "retry_transit"} =>
         Len(modeSent) % 2 = 0
    /\ landing = "tracking" => Len(modeSent) % 2 = 1

LandingInv == LandingTypes /\ SightInv /\ InTurn

-----------------------------------------------------------------------------
(* The missions flown without a host. *)

Has(s, x) == \E i \in 1 .. Len(s) : s[i] = x

Commands == {"ARM", "TAKEOFF"} \cup Modes
Telegrams ==
    [kind : {"heartbeat"}, mode : Modes, armed : {"yes", "no"}]
    \cup [kind : {"ack"}, order : Commands, accepted : BOOLEAN]
    \cup [kind : {"position"}, height : Heights, sinking : BOOLEAN]
    \cup [kind : {"landed"}, landed : {"yes", "no"}]
    \cup [kind : {"prearm"}, healthy : BOOLEAN]
    \cup [kind : {"text"}, text : {"success", "failed", "saved"}]
Crafts == [mode : Modes, armed : {"yes", "no"}, height : Heights, climbing : BOOLEAN,
           flown : BOOLEAN, gains : {"old", "tuned", "failed", "saved"}]
Sights == [mode : Modes \cup {"none"}, armed : {"yes", "no", "none"}, landed : {"yes", "no", "none"},
           height : Heights \cup {"none"}, heartbeat : BOOLEAN, armable : BOOLEAN,
           texts : Seq({"success", "failed", "saved"})]
Policies == [phase : DescentPhases \cup RollPhases, heartbeat : BOOLEAN, prearm : BOOLEAN,
             descended : BOOLEAN, saved : BOOLEAN, since : 0 .. LastDirectStamp]
Facts == {"companion-ready", "mission-ready", "delivered", "quiescence"} \cup Terminal

LoopTypes ==
    /\ flight \in {"descent", "autotune", "hover"}
    /\ dpc \in {"connect", "spin", "drain", "control", "record", "close", "over"}
    /\ directStamp \in 0 .. NoDirectStamp /\ started \in BOOLEAN /\ ending \in BOOLEAN
    /\ broken \in BOOLEAN /\ asked \in BOOLEAN
    /\ policy \in Policies
    /\ policy.phase \in (IF flight = "descent" THEN DescentPhases ELSE RollPhases)
    /\ overrides \in {"none", "hold", "down"} /\ directFacts \in SUBSET Facts
    /\ directMishaps \in 0 .. MaxDirectMishaps
LinkTypes ==
    /\ seen \in Sights /\ craft \in Crafts
    /\ wire \in Seq(Telegrams) /\ orders \in Seq(Commands)

\* Where the loop is when it has failed, and what it wrote down by then.
LoopInv ==
    /\ flight = "descent" => dpc # "control"
    /\ flight # "descent" => dpc # "drain"
    /\ dpc = "connect" => directFacts = {} /\ overrides = "none"
    /\ dpc \in {"connect", "spin"} => ~ broken
    /\ "finished" \in directFacts => policy.phase \in {"LANDED", "COMPLETE"}
    /\ "failure" \in directFacts => dpc \in {"close", "over"}
    /\ "quiescence" \in directFacts => dpc = "over"
    /\ OverridesEnd

CraftInv ==
    /\ craft.armed = "no" => craft.height = "ground"
    /\ craft.height = "high" => craft.flown

AckPhases == {"WAIT_GUIDED_ACK", "WAIT_ARM_ACK", "WAIT_TAKEOFF_ACK", "WAIT_LAND_ACK"}
BeforeArming == {"WAIT_HEARTBEAT", "WAIT_GUIDED_ACK", "WAIT_GUIDED_MODE", "WAIT_PREARM_READY"}
AfterHigh == {"WAIT_LAND_ACK", "DESCENDING", "WAIT_DISARM", "LANDED"}
AfterArmed == {"WAIT_TAKEOFF_ACK", "WAIT_ALTITUDE"} \cup AfterHigh
IsAck(m) == m.kind = "ack"
Beats(m, armed) == m.kind = "heartbeat" /\ m.armed = armed
SaysHigh(m) == m.kind = "position" /\ m.height = "high"
NoAck == \A i \in 1 .. Len(wire) : ~ IsAck(wire[i])
NoYes == seen.armed # "yes" /\ \A i \in 1 .. Len(wire) : ~ Beats(wire[i], "yes")

\* One command is open at a time, and none where the mission waits for the vehicle.
OpenInv ==
    /\ Len(orders) <= 1
    /\ orders # <<>> => NoAck
    /\ \A i, j \in 1 .. Len(wire) : IsAck(wire[i]) /\ IsAck(wire[j]) => i = j
    /\ ~ broken /\ policy.phase \notin AckPhases \cup {"FAILED"} => orders = <<>> /\ NoAck

\* The vehicle is armed once.  After it reported to be armed, a report that it is not is
\* the truth for good.
ArmInv ==
    /\ Has(orders, "ARM") => craft.armed = "no" /\ NoYes
    /\ ~ broken /\ policy.phase \in BeforeArming =>
         craft.armed = "no" /\ NoYes /\ ~ Has(orders, "ARM")
    /\ policy.phase \in {"WAIT_ARMED"} \cup AfterArmed => ~ Has(orders, "ARM")
    /\ \A i \in 1 .. Len(wire) :
         Beats(wire[i], "no") /\ (seen.armed = "yes" \/ \E j \in 1 .. i : Beats(wire[j], "yes"))
           => craft.armed = "no"
    /\ policy.phase \in AfterArmed => seen.armed # "none"
    /\ policy.phase \in AfterArmed /\ seen.armed = "no" => craft.armed = "no"
    /\ policy.phase = "LANDED" => craft.armed = "no"

HighInv ==
    /\ \A i \in 1 .. Len(wire) : SaysHigh(wire[i]) => craft.flown
    /\ policy.phase \in AfterHigh => craft.flown

DescentInv == flight = "descent" => OpenInv /\ ArmInv /\ HighInv

Early == {"WAIT_READY", "WAIT_GUIDED", "WAIT_ARMED", "WAIT_ALTITUDE"}
Late == {"WAIT_AUTOTUNE", "TUNING", "LANDING_TO_SAVE", "HOVERING", "WAIT_LAND", "COMPLETE"}

\* The orders to arm are all before the one that holds the height, so once that is seen to
\* be followed no arming is open.  What was tuned stays saved.
RollInv ==
    flight # "descent" =>
    /\ \A i, j \in 1 .. Len(orders) : orders[i] = "ARM" /\ orders[j] = "ALT_HOLD" => i < j
    /\ policy.phase \in Early =>
         ~ Has(orders, "ALT_HOLD") /\ craft.mode # "ALT_HOLD" /\ seen.mode # "ALT_HOLD"
    /\ craft.mode = "ALT_HOLD" \/ seen.mode = "ALT_HOLD" => ~ Has(orders, "ARM")
    /\ seen.mode = "ALT_HOLD" /\ seen.armed = "no" => craft.armed = "no"
    /\ policy.phase \in Late => ~ Has(orders, "ARM")
    /\ policy.phase \in Late /\ seen.armed = "no" => craft.armed = "no"
    /\ policy.phase = "COMPLETE" => craft.armed = "no"
    /\ seen.height = "high" => craft.flown
    /\ policy.phase \in {"WAIT_ALT_HOLD"} \cup Late => craft.flown
    /\ policy.saved \/ Has(seen.texts, "saved") => craft.gains = "saved"
    /\ policy.phase = "COMPLETE" /\ flight = "autotune" => policy.saved

DirectInv == LoopTypes /\ LinkTypes /\ LoopInv /\ CraftInv /\ DescentInv /\ RollInv

-----------------------------------------------------------------------------
(* The vision threads keep their promises. *)

\* A set of numbers up to n that is not empty has a greatest.
LEMMA NumbersHaveMax ==
    ASSUME NEW n \in Nat, NEW S \in SUBSET (1 .. n), S # {}
    PROVE  \E x \in S : \A y \in S : x >= y
<1> DEFINE R == {x \in 0 .. n : \E y \in S : y = n - x}
<1>1. R # {} /\ R \in SUBSET Nat
  <2>1. PICK y \in S : TRUE
    OBVIOUS
  <2>2. y \in 1 .. n /\ n - y \in 0 .. n /\ y = n - (n - y)
    BY <2>1
  <2>3. n - y \in R
    BY <2>2
  <2>4. R \in SUBSET Nat
    OBVIOUS
  <2> HIDE DEF R
  <2>5. QED
    BY <2>3, <2>4
<1>2. PICK m \in R : \A k \in Nat : k < m => k \notin R
  <2>1. IsWellFoundedOn(OpToRel(<, Nat), Nat)
    BY NatLessThanWellFounded
  <2>2. PICK m \in R : \A k \in R : ~ (<<k, m>> \in OpToRel(<, Nat))
    BY <1>1, <2>1, WFMin
  <2>3. QED
    BY <1>1, <2>2 DEF OpToRel
<1>3. PICK x \in S : x = n - m
  BY <1>2
<1>4. ASSUME NEW y \in S, x < y PROVE FALSE
  <2>1. n - y \in R /\ n - y < m /\ n - y \in Nat
    BY <1>3, <1>4
  <2>2. QED
    BY <1>2, <2>1
<1>5. QED
  BY <1>4
\* Of a finite set of numbers fewer than b have fewer than b above them.
LEMMA NewestOnly ==
    ASSUME NEW S \in SUBSET Nat, IsFiniteSet(S), NEW b \in Nat
    PROVE  LET top == {i \in S : Cardinality({j \in S : j > i}) < b}
           IN IsFiniteSet(top) /\ Cardinality(top) <= b
<1> DEFINE Above(i) == {j \in S : j > i}
           top == {i \in S : Cardinality(Above(i)) < b}
           f == [i \in top |-> Cardinality(Above(i))]
<1>1. \A i \in S : IsFiniteSet(Above(i)) /\ Cardinality(Above(i)) \in Nat
  BY FS_Subset, FS_CardinalityType
<1>2. ASSUME NEW i \in top, NEW k \in top, i < k PROVE f[k] < f[i]
  <2>0. i \in S /\ k \in S /\ i \in Nat /\ k \in Nat /\ ~ (k > k) /\ k > i
    BY <1>2
  <2>1. Above(k) \in SUBSET Above(i) /\ k \in Above(i) /\ k \notin Above(k)
    <3>1. \A j \in S : j > k => j > i
      BY <2>0
    <3>2. QED
      BY <2>0, <3>1
  <2>2. IsFiniteSet(Above(i)) /\ Cardinality(Above(i)) \in Nat /\ Cardinality(Above(k)) \in Nat
    BY <1>1, <2>0
  <2>3. Cardinality(Above(k)) <= Cardinality(Above(i)) /\ Cardinality(Above(k)) # Cardinality(Above(i))
    <3> HIDE DEF Above
    <3>1. QED
      BY <2>1, <2>2, FS_Subset
  <2>4. f[i] = Cardinality(Above(i)) /\ f[k] = Cardinality(Above(k))
    OBVIOUS
  <2> HIDE DEF Above, f
  <2>5. QED
    BY <2>2, <2>3, <2>4
<1>3. f \in Injection(top, 0 .. b - 1)
  <2>1. f \in [top -> 0 .. b - 1]
    <3>1. \A i \in top : Cardinality(Above(i)) \in Nat /\ Cardinality(Above(i)) < b
      BY <1>1
    <3>2. \A i \in top : Cardinality(Above(i)) \in 0 .. b - 1
      BY <3>1
    <3> HIDE DEF Above, top
    <3>3. QED
      BY <3>2
  <2>2. \A i, k \in top : f[i] = f[k] => i = k
    <3> SUFFICES ASSUME NEW i \in top, NEW k \in top, f[i] = f[k], i # k PROVE FALSE
      OBVIOUS
    <3>1. f[i] \in Nat /\ i \in Nat /\ k \in Nat
      BY <2>1
    <3>2. i < k \/ k < i
      BY <3>1
    <3> HIDE DEF f, top
    <3>3. QED
      BY <1>2, <3>1, <3>2
  <2> HIDE DEF f, top
  <2>3. QED
    BY <2>1, <2>2 DEF Injection, IsInjective
<1>4. IsFiniteSet(0 .. b - 1) /\ Cardinality(0 .. b - 1) = b
  BY FS_Interval
<1> HIDE DEF f, top
<1>5. IsFiniteSet(top) /\ Cardinality(top) <= b
  BY <1>3, <1>4, FS_Injection
<1>6. QED
  BY <1>5 DEF top

LEMMA VisionInvInit ==
    VisionInit => VisionInv
<1> SUFFICES ASSUME VisionInit PROVE VisionInv
  OBVIOUS
<1>1. {LastTick, MaxRequests, BufferSize} \subseteq Nat \ {0} /\ Cardinality({}) = 0
  BY VisionAssumption, FS_EmptySet
<1>2. NoFrame \in Frames
  BY <1>1 DEF NoFrame, Frames
<1>3. workers \in [Requests -> WorkerStates]
  BY <1>1, <1>2 DEF VisionInit, WorkerStates
<1>4. results \in [Requests -> Seq(Frames)]
  BY DEF VisionInit
<1>5. latest \in Frames /\ latest.exp = 0 /\ latest.seq = 0
  BY <1>2 DEF VisionInit, NoFrame
<1>6. /\ now \in 1 .. LastTick /\ acqStop \in BOOLEAN /\ request \in 0 .. MaxRequests
      /\ images \in [kept : SUBSET (1 .. now + 1), last : 0 .. now + 1]
      /\ Cardinality(images.kept) <= BufferSize
  <2>1. images = [kept |-> {}, last |-> 0] /\ now = 1 /\ request = 0 /\ acqStop = FALSE
    BY DEF VisionInit
  <2>2. /\ now \in 1 .. LastTick /\ request \in 0 .. MaxRequests
        /\ {} \in SUBSET (1 .. now + 1) /\ 0 \in 0 .. now + 1 /\ 0 <= BufferSize
    BY <1>1, <2>1
  <2>3. Cardinality(images.kept) <= BufferSize
    BY <1>1, <2>1, <2>2
  <2>4. images \in [kept : SUBSET (1 .. now + 1), last : 0 .. now + 1]
    BY <2>1, <2>2
  <2>5. QED
    BY <2>1, <2>2, <2>3, <2>4
<1>7. /\ taken \in 0 .. now /\ latest.exp <= taken /\ latest.seq <= latest.exp
      /\ acq \in [pc : {"none", "capture", "accept", "dead"}, exp : 0 .. taken]
      /\ acq.pc # "accept"
  BY <1>1, <1>5 DEF VisionInit
<1>8. QED
  BY <1>3, <1>4, <1>5, <1>6, <1>7 DEF VisionInv

\* Only what the clock has shown is taken, and in order (accept_image, capture_frame,
\* _accept_candidate).
LEMMA VisionInvStep ==
    ASSUME VisionInv, VisionTick \/ AcceptImage \/ VisionThreads
    PROVE  VisionInv'
<1>0. /\ LastTick \in Nat /\ LastTick > 0 /\ MaxRequests \in Nat /\ BufferSize \in Nat
      /\ now \in Nat /\ now <= LastTick /\ now > 0 /\ taken \in Nat /\ taken <= now
      /\ acq.exp \in Nat /\ acq.exp <= taken
  BY VisionAssumption DEF VisionInv
<1>1. CASE VisionTick
  <2>1. /\ now' = now + 1 /\ now' \in 1 .. LastTick
        /\ UNCHANGED <<images, taken, acq, acqStop, latest, workers, request, results>>
    BY <1>0, <1>1 DEF VisionTick
  <2>2. 1 .. now + 1 \subseteq 1 .. now' + 1 /\ 0 .. now + 1 \subseteq 0 .. now' + 1
    BY <1>0, <2>1
  <2>3. images \in [kept : SUBSET (1 .. now' + 1), last : 0 .. now' + 1]
    BY <2>2 DEF VisionInv
  <2>4. taken \in 0 .. now'
    BY <1>0, <2>1
  <2>5. QED
    BY <2>1, <2>3, <2>4 DEF VisionInv
<1>2. CASE AcceptImage
  <2>1. PICK e \in {now, now + 1} : 
         /\ e > images.last
         /\ LET kept == IF e > taken THEN images.kept \cup {e} ELSE images.kept
            IN images' = [kept |-> {i \in kept : Cardinality({j \in kept : j > i}) < BufferSize},
                          last |-> e]
    BY <1>2 DEF AcceptImage
  <2> DEFINE kept == IF e > taken THEN images.kept \cup {e} ELSE images.kept
             top == {i \in kept : Cardinality({j \in kept : j > i}) < BufferSize}
  <2>2. kept \in SUBSET (1 .. now + 1) /\ IsFiniteSet(1 .. now + 1) /\ e \in 0 .. now + 1
    <3>1. e \in 1 .. now + 1 /\ e \in 0 .. now + 1
      BY <1>0
    <3>2. images.kept \in SUBSET (1 .. now + 1)
      BY DEF VisionInv
    <3>3. IsFiniteSet(1 .. now + 1)
      BY <1>0, FS_Interval
    <3>4. QED
      BY <3>1, <3>2, <3>3
  <2>3. kept \in SUBSET Nat /\ IsFiniteSet(kept)
    BY <1>0, <2>2, FS_Subset
  <2>4. Cardinality(top) <= BufferSize
    <3> HIDE DEF kept
    <3>1. QED
      BY <1>0, <2>3, NewestOnly
  <2>5. images' = [kept |-> top, last |-> e]
    BY <2>1
  <2>6. top \in SUBSET (1 .. now + 1)
    BY <2>2
  <2> HIDE DEF kept, top
  <2>7. images' \in [kept : SUBSET (1 .. now + 1), last : 0 .. now + 1] /\ images'.kept = top
    BY <2>2, <2>5, <2>6
  <2>8. QED
    BY <1>2, <2>4, <2>7 DEF AcceptImage, VisionInv
<1>3. CASE CaptureFrame
  <2> DEFINE usable == {e \in images.kept : e > taken /\ e <= now}
             e == CHOOSE x \in usable : \A y \in usable : x >= y
             left == {i \in images.kept : i > e}
  <2>1. usable # {} /\ usable \in SUBSET (1 .. now)
    <3>1. images.kept \in SUBSET (1 .. now + 1)
      BY DEF VisionInv
    <3>2. \A x \in images.kept : x <= now => x \in 1 .. now
      BY <1>0, <3>1
    <3>3. QED
      BY <1>3, <3>2 DEF CaptureFrame
  <2>2. \E x \in usable : \A y \in usable : x >= y
    <3> HIDE DEF usable
    <3>1. QED
      BY <1>0, <2>1, NumbersHaveMax
  <2>3. e \in usable
    BY <2>2
  <2>4. e > taken /\ e <= now /\ e \in Nat
    BY <1>0, <2>1, <2>3
  <2>5. /\ taken' = e /\ images' = [images EXCEPT !.kept = left]
        /\ acq' = IF Stale(e) THEN acq ELSE [pc |-> IF acqStop THEN "dead" ELSE "accept", exp |-> e]
        /\ acq.pc = "capture"
    BY <1>3 DEF CaptureFrame
  <2>6. left \in SUBSET images.kept /\ IsFiniteSet(images.kept)
    <3>1. images.kept \in SUBSET (1 .. now + 1) /\ now + 1 \in Nat
      BY <1>0 DEF VisionInv
    <3>2. IsFiniteSet(1 .. now + 1)
      BY <3>1, FS_Interval
    <3>3. IsFiniteSet(images.kept)
      BY <3>1, <3>2, FS_Subset
    <3>4. QED
      BY <3>3
  <2>7. Cardinality(left) <= BufferSize
    <3>1. Cardinality(left) <= Cardinality(images.kept) /\ Cardinality(images.kept) \in Nat
      BY <2>6, FS_Subset, FS_CardinalityType
    <3>2. Cardinality(left) \in Nat
      BY <2>6, FS_Subset, FS_CardinalityType
    <3>3. QED
      BY <1>0, <3>1, <3>2 DEF VisionInv
  <2> HIDE DEF e, left, usable
  <2>8. /\ images' \in [kept : SUBSET (1 .. now + 1), last : 0 .. now + 1]
        /\ images'.kept = left
    BY <2>5, <2>6 DEF VisionInv
  <2>9. acq' \in [pc : {"none", "capture", "accept", "dead"}, exp : 0 .. e]
    BY <1>0, <2>4, <2>5 DEF VisionInv
  <2>10. /\ latest.exp \in Nat /\ latest.exp <= taken
         /\ acq'.pc = "accept" => acq'.exp = e
    BY <1>0, <2>5 DEF VisionInv, Frames
  <2>11. taken' \in 0 .. now /\ latest.exp <= taken' /\ (acq'.pc = "accept" => latest.exp < acq'.exp)
    BY <1>0, <2>4, <2>5, <2>10
  <2>12. /\ UNCHANGED <<now, acqStop, latest, workers, request, results>>
    BY <1>3 DEF CaptureFrame
  <2>13. QED
    BY <2>5, <2>7, <2>8, <2>9, <2>11, <2>12 DEF VisionInv
<1>4. CASE AcceptCandidate
  <2>1. CASE acqStop
    BY <1>4, <2>1 DEF AcceptCandidate, VisionInv
  <2>2. CASE ~ acqStop
    <3>1. /\ acq' = [acq EXCEPT !.pc = "capture"] /\ acq.pc = "accept"
          /\ latest' = latest \/ latest' = [seq |-> latest.seq + 1, exp |-> acq.exp]
          /\ UNCHANGED <<now, images, taken, acqStop, workers, request, results>>
      BY <1>4, <2>2 DEF AcceptCandidate
    <3>2. /\ latest.seq \in Nat /\ latest.exp \in Nat /\ latest.seq <= latest.exp
          /\ latest.exp < acq.exp
      BY <3>1 DEF VisionInv, Frames
    <3>3. latest' \in Frames /\ latest'.exp <= taken /\ latest'.seq <= latest'.exp
      BY <1>0, <3>1, <3>2 DEF VisionInv, Frames
    <3>4. /\ acq' \in [pc : {"none", "capture", "accept", "dead"}, exp : 0 .. taken]
          /\ acq'.pc # "accept"
      BY <3>1 DEF VisionInv
    <3>5. QED
      BY <3>1, <3>3, <3>4 DEF VisionInv
  <2>3. QED
    BY <2>1, <2>2
<1>5. ASSUME NEW k \in Requests, NEW w \in WorkerStates, workers' = [workers EXCEPT ![k] = w]
      PROVE  workers' \in [Requests -> WorkerStates]
  BY <1>5 DEF VisionInv
<1>w. \A k \in Requests :
        /\ workers[k].pc \in {"none", "ask", "wait", "detect", "dead"}
        /\ workers[k].after \in 0 .. LastTick + 1 /\ workers[k].frame \in Frames
        /\ workers[k].frame.seq \in 0 .. LastTick + 1
        /\ workers[k].stop \in BOOLEAN /\ workers[k] \in WorkerStates
  BY DEF VisionInv, WorkerStates, Frames
<1>6. ASSUME NEW k \in Requests, WorkerAsks(k) PROVE VisionInv'
  <2>1. /\ acq' = acq \/ (acq' = [acq EXCEPT !.pc = "capture"])
        /\ acqStop' \in BOOLEAN
        /\ \/ workers' = [workers EXCEPT ![k] = [workers[k] EXCEPT !.pc = "dead"]]
           \/ workers' = [workers EXCEPT ![k] = [workers[k] EXCEPT !.pc = "wait"]]
        /\ UNCHANGED <<now, images, taken, latest, request, results>>
    BY <1>6 DEF WorkerAsks, StartAcquisition, VisionInv
  <2>2. workers' \in [Requests -> WorkerStates]
    BY <1>5, <1>w, <2>1 DEF WorkerStates
  <2>3. /\ acq' \in [pc : {"none", "capture", "accept", "dead"}, exp : 0 .. taken]
        /\ acq'.pc = "accept" => acq' = acq
    BY <2>1 DEF VisionInv
  <2>4. QED
    BY <2>1, <2>2, <2>3 DEF VisionInv
<1>7. ASSUME NEW k \in Requests, WorkerGets(k) PROVE VisionInv'
  <2>1. /\ acqStop' \in BOOLEAN
        /\ \/ workers' = [workers EXCEPT ![k] = [workers[k] EXCEPT !.pc = "ask", !.after = latest.seq]]
           \/ workers' = [workers EXCEPT ![k] = [workers[k] EXCEPT !.pc = "detect", !.frame = latest]]
        /\ UNCHANGED <<now, images, taken, acq, latest, request, results>>
    BY <1>7 DEF WorkerGets, VisionInv
  <2>2. workers' \in [Requests -> WorkerStates]
    <3>1. latest \in Frames /\ latest.seq \in 0 .. LastTick + 1
      BY DEF VisionInv, Frames
    <3>2. QED
      BY <1>5, <1>w, <2>1, <3>1 DEF WorkerStates
  <2>3. QED
    BY <2>1, <2>2 DEF VisionInv
<1>8. ASSUME NEW k \in Requests, WorkerTimesOut(k) PROVE VisionInv'
  <2>1. workers' = [workers EXCEPT ![k] = [workers[k] EXCEPT !.pc = "ask"]]
    BY <1>8 DEF WorkerTimesOut
  <2>2. workers' \in [Requests -> WorkerStates]
    BY <1>5, <1>w, <2>1 DEF WorkerStates
  <2>3. QED
    BY <1>8, <2>2 DEF WorkerTimesOut, VisionInv
<1>9. ASSUME NEW k \in Requests, WorkerDetects(k) PROVE VisionInv'
  <2> DEFINE f == workers[k].frame
  <2>1. \/ workers' = [workers EXCEPT ![k] = [workers[k] EXCEPT !.pc = "dead"]]
        \/ workers' = [workers EXCEPT ![k] = [workers[k] EXCEPT !.pc = "ask", !.after = f.seq]]
    BY <1>9 DEF WorkerDetects
  <2>2. workers' \in [Requests -> WorkerStates]
    <3> HIDE DEF f
    <3>1. f.seq \in 0 .. LastTick + 1
      BY <1>w DEF f
    <3>2. QED
      BY <1>5, <1>w, <2>1, <3>1 DEF WorkerStates
  <2>3. /\ NoFrame \in Frames /\ f \in Frames /\ results[k] \in Seq(Frames)
    <3>1. NoFrame \in Frames
      BY <1>0 DEF NoFrame, Frames
    <3>2. f \in Frames
      BY <1>w
    <3>3. results[k] \in Seq(Frames)
      BY DEF VisionInv
    <3>4. QED
      BY <3>1, <3>2, <3>3
  <2>4. \/ results' = results \/ results' = [results EXCEPT ![k] = Append(results[k], NoFrame)]
        \/ results' = [results EXCEPT ![k] = Append(results[k], f)]
    BY <1>9 DEF WorkerDetects
  <2>5. results' \in [Requests -> Seq(Frames)]
    <3> HIDE DEF f
    <3>1. Append(results[k], NoFrame) \in Seq(Frames) /\ Append(results[k], f) \in Seq(Frames)
      BY <2>3, AppendProperties
    <3>2. QED
      BY <2>4, <3>1 DEF VisionInv
  <2>6. UNCHANGED <<now, images, taken, acq, acqStop, latest, request>>
    BY <1>9 DEF WorkerDetects
  <2>7. QED
    BY <2>2, <2>5, <2>6 DEF VisionInv
<1>10. QED
  BY <1>1, <1>2, <1>3, <1>4, <1>6, <1>7, <1>8, <1>9 DEF VisionThreads

-----------------------------------------------------------------------------
(* The landing keeps its promises. *)

\* What the operation does to the workers and their queues (request, cancel, poll).
LEMMA RequestsKept ==
    ASSUME VisionInv, NEW after \in 0 .. LastTick + 1, Request(after),
           UNCHANGED <<now, images, taken, acq, acqStop, latest, results>>
    PROVE  VisionInv' /\ request' > 0
<1>0. /\ LastTick \in Nat /\ MaxRequests \in Nat /\ request \in Nat /\ request < MaxRequests
      /\ request' = request + 1
  <2>1. MaxRequests \in Nat /\ LastTick \in Nat
    BY VisionAssumption
  <2>2. request \in Nat
    BY <2>1 DEF VisionInv
  <2>3. QED
    BY <2>1, <2>2 DEF Request
<1>1. request' \in 0 .. MaxRequests /\ request' > 0
  BY <1>0
<1>2. Higher(after, latest.seq) \in 0 .. LastTick + 1
  BY DEF Higher, VisionInv, Frames
<1>3. workers' \in [Requests -> WorkerStates]
  <2> DEFINE m == Higher(after, latest.seq)
             stopped(k) == [workers[k] EXCEPT !.stop = TRUE]
             asking(k) == [workers[k] EXCEPT !.pc = "ask", !.after = m]
  <2>1. \A k \in Requests : workers[k] \in WorkerStates
    BY DEF VisionInv
  <2>2. \A k \in Requests : stopped(k) \in WorkerStates
    BY <2>1 DEF WorkerStates
  <2>3. m \in 0 .. LastTick + 1
    BY <1>2
  <2>4. \A k \in Requests : asking(k) \in WorkerStates
    <3> HIDE DEF m
    <3>1. QED
      BY <2>1, <2>3 DEF WorkerStates
  <2>5. workers' = [k \in Requests |-> IF k = request THEN stopped(k)
                                       ELSE IF k = request + 1 THEN asking(k) ELSE workers[k]]
    BY DEF Request
  <2> HIDE DEF stopped, asking
  <2>6. QED
    BY <2>1, <2>2, <2>4, <2>5
<1>4. QED
  BY <1>1, <1>3 DEF VisionInv

LEMMA VisionKept ==
    ASSUME VisionInv, workers' = workers \/ Cancel, results' = results \/ (Polled /\ request > 0),
           UNCHANGED <<now, images, taken, acq, acqStop, latest, request>>
    PROVE  VisionInv'
<1>1. workers' \in [Requests -> WorkerStates]
  <2>1. \A k \in Requests : workers[k] \in WorkerStates /\ [workers[k] EXCEPT !.stop = TRUE] \in WorkerStates
    BY DEF VisionInv, WorkerStates
  <2>2. QED
    BY <2>1 DEF Cancel, VisionInv
<1>2. results' \in [Requests -> Seq(Frames)]
  <2>1. CASE results' = results
    BY <2>1 DEF VisionInv
  <2>2. CASE results' # results
    <3>1. Polled /\ request > 0 /\ request \in Requests
      BY <2>2, VisionAssumption DEF VisionInv, Requests
    <3>2. results[request] \in Seq(Frames) /\ results[request] # <<>>
      BY <2>2, <3>1 DEF Polled, VisionInv
    <3>3. Tail(results[request]) \in Seq(Frames)
      BY <3>2, HeadTailProperties
    <3>4. results' = [results EXCEPT ![request] = Tail(results[request])]
      BY <3>1, <3>2 DEF Polled
    <3>5. QED
      BY <3>3, <3>4 DEF VisionInv
  <2>3. QED
    BY <2>1, <2>2
<1>3. QED
  BY <1>1, <1>2 DEF VisionInv

\* What is polled is a frame, or none (the one with number 0).
LEMMA ObservedIsFrame ==
    ASSUME VisionInv, request > 0
    PROVE  Observed \in Frames
<1>1. request \in Requests /\ LastTick \in Nat /\ LastTick > 0
  BY VisionAssumption DEF VisionInv, Requests
<1>2. results[request] \in Seq(Frames)
  BY <1>1 DEF VisionInv
<1>3. [seq |-> 0, exp |-> 1] \in Frames
  BY <1>1 DEF Frames
<1>4. QED
  BY <1>2, <1>3, HeadTailProperties DEF Observed

\* LAND and GUIDED in turn.
LEMMA TurnsKept ==
    ASSUME NEW s \in Seq({"GUIDED", "LAND"}), NEW m \in {"GUIDED", "LAND"},
           \A i \in 1 .. Len(s) : s[i] = IF i % 2 = 1 THEN "LAND" ELSE "GUIDED",
           m = IF Len(s) % 2 = 0 THEN "LAND" ELSE "GUIDED"
    PROVE  /\ Append(s, m) \in Seq({"GUIDED", "LAND"})
           /\ \A i \in 1 .. Len(Append(s, m)) : Append(s, m)[i] = IF i % 2 = 1 THEN "LAND" ELSE "GUIDED"
           /\ Len(s) % 2 = 0 => Len(Append(s, m)) % 2 = 1
           /\ Len(s) % 2 = 1 => Len(Append(s, m)) % 2 = 0
<1> DEFINE n == Len(s)
           t == Append(s, m)
<1>1. /\ t \in Seq({"GUIDED", "LAND"}) /\ Len(t) = n + 1 /\ n \in Nat
      /\ \A i \in 1 .. n : t[i] = s[i]
      /\ t[n + 1] = m
  BY AppendProperties
<1>2. \A i \in 1 .. n : t[i] = IF i % 2 = 1 THEN "LAND" ELSE "GUIDED"
  BY <1>1
<1>3. m = IF n % 2 = 0 THEN "LAND" ELSE "GUIDED"
  OBVIOUS
<1> HIDE DEF n, t
<1>4. (n % 2 = 0 => (n + 1) % 2 = 1) /\ (n % 2 = 1 => (n + 1) % 2 = 0) /\ (n % 2 \in {0, 1})
  BY <1>1
<1>5. t[n + 1] = IF (n + 1) % 2 = 1 THEN "LAND" ELSE "GUIDED"
  BY <1>1, <1>3, <1>4
<1>6. \A i \in 1 .. n + 1 : i \in 1 .. n \/ i = n + 1
  BY <1>1
<1>7. \A i \in 1 .. Len(t) : t[i] = IF i % 2 = 1 THEN "LAND" ELSE "GUIDED"
  BY <1>1, <1>2, <1>5, <1>6
<1>8. QED
  BY <1>1, <1>4, <1>7 DEF n, t

LEMMA LandingInvInit ==
    LandingInit => LandingInv
<1> SUFFICES ASSUME LandingInit PROVE LandingInv
  OBVIOUS
<1>1. /\ LastTick \in Nat /\ LastTick > 0 /\ AnchorFrames \in Nat /\ ReacquireFrames \in Nat
      /\ now = 1
  BY VisionAssumption, LandingAssumption DEF LandingInit, VisionInit
<1>2. /\ lastSeq \in 0 .. LastTick + 1 /\ streak \in 0 .. AnchorFrames + ReacquireFrames
      /\ healthyAt \in 0 .. now /\ holdAt \in 0 .. now /\ shown \in 0 .. now /\ looked \in 0 .. now
  BY <1>1 DEF LandingInit
<1>3. modeSent \in Seq({"GUIDED", "LAND"}) /\ Len(modeSent) = 0
  BY DEF LandingInit
<1>4. /\ \A i \in 1 .. Len(modeSent) : modeSent[i] = IF i % 2 = 1 THEN "LAND" ELSE "GUIDED"
      /\ Len(modeSent) % 2 = 0
  BY <1>3
<1>5. /\ landing = "idle" /\ retry \in BOOLEAN /\ modeSeen \in {"GUIDED", "LAND"}
      /\ nearGround \in BOOLEAN
  BY DEF LandingInit
<1>6. LandingTypes
  BY <1>2, <1>3, <1>4, <1>5 DEF LandingInv, LandingTypes, SightInv, InTurn
<1>7. SightInv
  BY <1>2, <1>3, <1>4, <1>5 DEF LandingInv, LandingTypes, SightInv, InTurn
<1>8. InTurn
  BY <1>2, <1>3, <1>4, <1>5 DEF LandingInv, LandingTypes, InTurn
<1>9. QED
  BY <1>6, <1>7, <1>8 DEF LandingInv

\* The numbers of a landing.
LEMMA LandingNumbers ==
    ASSUME VisionInv, LandingInv
    PROVE  /\ LastTick \in Nat /\ LastTick > 0 /\ AnchorFrames \in Nat /\ AnchorFrames > 0
           /\ ReacquireFrames \in Nat /\ ReacquireFrames > 0 /\ HoldTicks \in Nat
           /\ now \in Nat /\ now <= LastTick /\ now > 0
           /\ lastSeq \in Nat /\ lastSeq <= LastTick + 1
           /\ streak \in Nat /\ streak <= AnchorFrames + ReacquireFrames
           /\ healthyAt \in Nat /\ healthyAt <= now /\ holdAt \in Nat /\ holdAt <= now
           /\ shown \in Nat /\ shown <= now /\ looked \in Nat /\ looked <= now
<1>1. /\ LastTick \in Nat /\ LastTick > 0 /\ AnchorFrames \in Nat /\ AnchorFrames > 0
      /\ ReacquireFrames \in Nat /\ ReacquireFrames > 0 /\ HoldTicks \in Nat
  BY VisionAssumption, LandingAssumption
<1>2. now \in Nat /\ now <= LastTick /\ now > 0
  BY <1>1 DEF VisionInv
<1>3. QED
  BY <1>1, <1>2 DEF LandingInv, LandingTypes

\* A usable frame is at most a tick old (_marker_candidate).
LEMMA UsableIsFresh ==
    ASSUME VisionInv, LandingInv, NEW f \in Frames
    PROVE  /\ Usable(f) => f.exp \in 0 .. now /\ now <= f.exp + 1
           /\ Higher(lastSeq, f.seq) \in 0 .. LastTick + 1
           /\ f.seq \in 0 .. LastTick + 1
<1>1. f.exp \in Nat /\ f.seq \in 0 .. LastTick + 1
  BY VisionAssumption DEF Frames
<1>2. lastSeq \in 0 .. LastTick + 1
  BY DEF LandingInv, LandingTypes, SightInv, InTurn
<1>3. QED
  BY <1>1, <1>2, LandingNumbers DEF Usable, Stale, Higher

\* The landing begins from the anchor, descends on frames that are fresh and otherwise holds.
LEMMA EvaluatePrecisionKeeps ==
    ASSUME VisionInv, LandingInv, EvaluatePrecision
    PROVE  VisionInv' /\ LandingInv'
<1>0. request > 0 /\ landing \in {"await_first", "tracking", "hold", "retry_transit"} /\ looked' = now
  BY DEF EvaluatePrecision, LandingInv, LandingTypes, SightInv, InTurn
<1>n. UNCHANGED <<now, images, taken, acq, acqStop, latest, request, modeSeen, nearGround>>
  BY DEF EvaluatePrecision
<1>1. VisionInv'
  <2>1. results' = results \/ (Polled /\ request > 0)
    BY <1>0 DEF EvaluatePrecision
  <2>2. workers' = workers \/ Cancel
    BY DEF EvaluatePrecision, EndLanding
  <2>3. QED
    BY <1>n, <2>1, <2>2, VisionKept
<1>2. CASE landing = "tracking" /\ modeSeen = "LAND" /\ nearGround
  <2>1. /\ healthyAt' = now /\ shown' = now
        /\ UNCHANGED <<landing, lastSeq, streak, retry, holdAt, modeSent>>
    BY <1>2 DEF EvaluatePrecision
  <2>2. /\ healthyAt' \in 0 .. now /\ shown' \in 0 .. now /\ looked' \in 0 .. now
        /\ healthyAt' <= looked' /\ looked' <= shown' + 1
    BY <1>0, <2>1, LandingNumbers
  <2>3. LandingTypes'
    BY <1>0, <1>n, <2>1, <2>2 DEF LandingInv, LandingTypes, SightInv, InTurn
  <2>4. SightInv'
    BY <1>0, <1>n, <2>1, <2>2 DEF LandingInv, LandingTypes, SightInv, InTurn
  <2>5. InTurn'
    BY <1>0, <1>n, <2>1, <2>2 DEF LandingInv, LandingTypes, InTurn
  <2>6. QED
    BY <1>1, <2>3, <2>4, <2>5 DEF LandingInv
<1>3. CASE ~ (landing = "tracking" /\ modeSeen = "LAND" /\ nearGround) /\ VisionFailed
  <2>1. /\ landing' = "failed"
        /\ UNCHANGED <<lastSeq, streak, retry, healthyAt, holdAt, modeSent, shown>>
    BY <1>3 DEF EvaluatePrecision, EndLanding
  <2>2. looked' \in 0 .. now
    BY <1>0, LandingNumbers
  <2>3. LandingTypes'
    BY <1>0, <1>n, <2>1, <2>2 DEF LandingInv, LandingTypes, SightInv, InTurn
  <2>4. SightInv'
    BY <1>0, <1>n, <2>1, <2>2 DEF LandingInv, LandingTypes, SightInv, InTurn
  <2>5. InTurn'
    BY <1>0, <1>n, <2>1, <2>2 DEF LandingInv, LandingTypes, InTurn
  <2>6. QED
    BY <1>1, <2>3, <2>4, <2>5 DEF LandingInv
<1>4. CASE ~ (landing = "tracking" /\ modeSeen = "LAND" /\ nearGround) /\ ~ VisionFailed
  <2> DEFINE f == Observed
             row(n, h) == IF h THEN n + 1 ELSE IF results[request] = <<>> THEN n ELSE 0
  <2>1. PICK healthy \in Confirms(f) :
           /\ lastSeq' = Higher(lastSeq, f.seq)
           /\ shown' = IF healthy THEN f.exp
                       ELSE IF landing = "tracking" /\ nearGround THEN now ELSE shown
           /\ \/ AwaitFirst(healthy) \/ Track(healthy)
              \/ landing = "hold" /\ Hold(row(streak, healthy), holdAt)
              \/ landing = "retry_transit" /\ Hold(row(0, healthy), now)
    BY <1>4 DEF EvaluatePrecision
  <2>2. f \in Frames
    BY <1>0, ObservedIsFrame
  <2>3. healthy \in BOOLEAN /\ (healthy => Usable(f))
    BY <2>1 DEF Confirms
  <2> DEFINE r1 == row(streak, healthy)
             r2 == row(0, healthy)
  <2>4. /\ landing = "hold" => r1 \in Nat /\ r1 <= ReacquireFrames /\ (r1 >= ReacquireFrames => healthy)
        /\ r2 \in Nat /\ r2 <= ReacquireFrames /\ (r2 >= ReacquireFrames => healthy)
        /\ streak < ReacquireFrames \/ landing # "hold"
    BY LandingNumbers, <2>3 DEF LandingInv, LandingTypes, SightInv, InTurn
  <2> HIDE DEF f, row, r1, r2
  <2>5. /\ lastSeq' \in 0 .. LastTick + 1
        /\ healthy => shown' \in 0 .. now /\ now <= shown' + 1
        /\ shown' \in 0 .. now
        /\ landing = "tracking" /\ nearGround => now <= shown' + 1
        /\ ~ healthy /\ ~ (landing = "tracking" /\ nearGround) => shown' = shown
    BY <2>1, <2>2, <2>3, UsableIsFresh, LandingNumbers
  <2>6. looked' \in 0 .. now
    BY <1>0, LandingNumbers
  <2>t. /\ modeSent \in Seq({"GUIDED", "LAND"})
        /\ \A i \in 1 .. Len(modeSent) : modeSent[i] = IF i % 2 = 1 THEN "LAND" ELSE "GUIDED"
    BY DEF LandingInv, LandingTypes, SightInv, InTurn
  <2>a. ASSUME Len(modeSent) % 2 = 0, modeSent' = Append(modeSent, "LAND")
        PROVE  /\ modeSent' \in Seq({"GUIDED", "LAND"}) /\ Len(modeSent') % 2 = 1
               /\ \A i \in 1 .. Len(modeSent') : modeSent'[i] = IF i % 2 = 1 THEN "LAND" ELSE "GUIDED"
    BY <2>a, <2>t, TurnsKept
  <2>b. ASSUME Len(modeSent) % 2 = 1, modeSent' = Append(modeSent, "GUIDED")
        PROVE  /\ modeSent' \in Seq({"GUIDED", "LAND"}) /\ Len(modeSent') % 2 = 0
               /\ \A i \in 1 .. Len(modeSent') : modeSent'[i] = IF i % 2 = 1 THEN "LAND" ELSE "GUIDED"
    BY <2>b, <2>t, TurnsKept
  <2>7. CASE AwaitFirst(healthy)
    <3>1. CASE healthy
      <4>1. /\ landing' = "tracking" /\ modeSent' = Append(modeSent, "LAND") /\ healthyAt' = now
            /\ UNCHANGED <<streak, retry, holdAt>> /\ Len(modeSent) % 2 = 0
        BY <2>7, <3>1 DEF AwaitFirst, LandingInv, LandingTypes, SightInv, InTurn
      <4>2. /\ healthyAt' \in 0 .. now /\ healthyAt' <= looked' /\ looked' <= shown' + 1
        BY <1>0, <2>5, <3>1, <4>1, LandingNumbers
      <4>3. LandingTypes'
        BY <1>0, <1>n, <2>5, <2>6, <2>a, <4>1, <4>2 DEF LandingInv, LandingTypes, SightInv, InTurn
      <4>4. SightInv'
        BY <1>0, <1>n, <2>5, <2>6, <2>a, <4>1, <4>2 DEF LandingInv, LandingTypes, SightInv, InTurn
      <4>5. InTurn'
        BY <1>0, <1>n, <2>5, <2>6, <2>a, <4>1, <4>2 DEF LandingInv, LandingTypes, InTurn
      <4>6. QED
        BY <1>1, <4>3, <4>4, <4>5 DEF LandingInv
    <3>2. CASE ~ healthy
      <4>1. UNCHANGED <<landing, modeSent, healthyAt, streak, retry, holdAt>> /\ landing = "await_first"
        BY <2>7, <3>2 DEF AwaitFirst
      <4>2. LandingTypes'
        BY <1>0, <1>n, <2>5, <2>6, <4>1 DEF LandingInv, LandingTypes, SightInv, InTurn
      <4>3. SightInv'
        BY <1>0, <1>n, <2>5, <2>6, <4>1 DEF LandingInv, LandingTypes, SightInv, InTurn
      <4>4. InTurn'
        BY <1>0, <1>n, <2>5, <2>6, <4>1 DEF LandingInv, LandingTypes, InTurn
      <4>5. QED
        BY <1>1, <4>2, <4>3, <4>4 DEF LandingInv
    <3>3. QED
      BY <3>1, <3>2
  <2>8. CASE Track(healthy)
    <3>0. landing = "tracking" /\ UNCHANGED retry /\ Len(modeSent) % 2 = 1 /\ healthyAt <= looked
      BY <2>8 DEF Track, LandingInv, LandingTypes, SightInv, InTurn
    <3>1. CASE healthy /\ modeSeen # "LAND"
      <4>1. UNCHANGED <<landing, modeSent, healthyAt, holdAt, streak>>
        BY <2>8, <3>1 DEF Track
      <4>2. healthyAt <= looked' /\ looked' <= shown' + 1
        BY <1>0, <2>5, <3>1, LandingNumbers
      <4>3. LandingTypes'
        BY <1>0, <1>n, <2>5, <2>6, <3>0, <4>1, <4>2 DEF LandingInv, LandingTypes, SightInv, InTurn
      <4>4. SightInv'
        BY <1>0, <1>n, <2>5, <2>6, <3>0, <4>1, <4>2 DEF LandingInv, LandingTypes, SightInv, InTurn
      <4>5. InTurn'
        BY <1>0, <1>n, <2>5, <2>6, <3>0, <4>1, <4>2 DEF LandingInv, LandingTypes, InTurn
      <4>6. QED
        BY <1>1, <4>3, <4>4, <4>5 DEF LandingInv
    <3>2. CASE ~ (healthy /\ modeSeen # "LAND") /\ (healthy \/ nearGround)
      <4>1. healthyAt' = now /\ UNCHANGED <<landing, modeSent, holdAt, streak>>
        BY <2>8, <3>2 DEF Track
      <4>2. healthyAt' \in 0 .. now /\ healthyAt' <= looked' /\ looked' <= shown' + 1
        BY <1>0, <2>5, <3>0, <3>2, <4>1, LandingNumbers
      <4>3. LandingTypes'
        BY <1>0, <1>n, <2>5, <2>6, <3>0, <4>1, <4>2 DEF LandingInv, LandingTypes, SightInv, InTurn
      <4>4. SightInv'
        BY <1>0, <1>n, <2>5, <2>6, <3>0, <4>1, <4>2 DEF LandingInv, LandingTypes, SightInv, InTurn
      <4>5. InTurn'
        BY <1>0, <1>n, <2>5, <2>6, <3>0, <4>1, <4>2 DEF LandingInv, LandingTypes, InTurn
      <4>6. QED
        BY <1>1, <4>3, <4>4, <4>5 DEF LandingInv
    <3>3. CASE ~ healthy /\ ~ nearGround /\ now < healthyAt + 1
      <4>1. UNCHANGED <<landing, modeSent, healthyAt, holdAt, streak>>
        BY <2>8, <3>3 DEF Track
      <4>2. looked <= shown + 1 /\ shown' = shown
        BY <2>5, <3>0, <3>3 DEF LandingInv, LandingTypes, SightInv, InTurn
      <4>3. healthyAt <= looked' /\ looked' <= shown' + 1
        BY <1>0, <3>0, <3>3, <4>2, LandingNumbers
      <4>4. LandingTypes'
        BY <1>0, <1>n, <2>5, <2>6, <3>0, <4>1, <4>3 DEF LandingInv, LandingTypes, SightInv, InTurn
      <4>5. SightInv'
        BY <1>0, <1>n, <2>5, <2>6, <3>0, <4>1, <4>3 DEF LandingInv, LandingTypes, SightInv, InTurn
      <4>6. InTurn'
        BY <1>0, <1>n, <2>5, <2>6, <3>0, <4>1, <4>3 DEF LandingInv, LandingTypes, InTurn
      <4>7. QED
        BY <1>1, <4>4, <4>5, <4>6 DEF LandingInv
    <3>4. CASE ~ healthy /\ ~ nearGround /\ ~ (now < healthyAt + 1)
      <4>1. /\ landing' = "hold" /\ modeSent' = Append(modeSent, "GUIDED")
            /\ holdAt' = now /\ streak' = 0 /\ UNCHANGED healthyAt
        BY <2>8, <3>4 DEF Track
      <4>2. holdAt' \in 0 .. now /\ streak' < ReacquireFrames /\ streak' \in 0 .. AnchorFrames + ReacquireFrames
        BY <4>1, LandingNumbers
      <4>3. LandingTypes'
        BY <1>0, <1>n, <2>5, <2>6, <2>b, <3>0, <4>1, <4>2 DEF LandingInv, LandingTypes, SightInv, InTurn
      <4>4. SightInv'
        BY <1>0, <1>n, <2>5, <2>6, <2>b, <3>0, <4>1, <4>2 DEF LandingInv, LandingTypes, SightInv, InTurn
      <4>5. InTurn'
        BY <1>0, <1>n, <2>5, <2>6, <2>b, <3>0, <4>1, <4>2 DEF LandingInv, LandingTypes, InTurn
      <4>6. QED
        BY <1>1, <4>3, <4>4, <4>5 DEF LandingInv
    <3>5. QED
      BY <2>3, <3>1, <3>2, <3>3, <3>4
  <2>9. ASSUME NEW n \in Nat, NEW since \in 0 .. now, n <= ReacquireFrames,
               n >= ReacquireFrames => healthy, landing \in {"hold", "retry_transit"}, Hold(n, since)
        PROVE  LandingInv'
    <3>0. Len(modeSent) % 2 = 0
      BY <2>9 DEF LandingInv, LandingTypes, SightInv, InTurn
    <3>1. CASE n >= ReacquireFrames
      <4>1. /\ landing' = "tracking" /\ modeSent' = Append(modeSent, "LAND")
            /\ healthyAt' = now /\ streak' = 0 /\ holdAt' = since /\ UNCHANGED retry
        BY <2>9, <3>1 DEF Hold
      <4>2. /\ healthyAt' \in 0 .. now /\ healthyAt' <= looked' /\ looked' <= shown' + 1
            /\ streak' \in 0 .. AnchorFrames + ReacquireFrames
        <5>1. now <= shown' + 1
          BY <2>5, <2>9, <3>1
        <5>2. QED
          BY <1>0, <4>1, <5>1, LandingNumbers
      <4>3. LandingTypes'
        BY <1>0, <1>n, <2>5, <2>6, <2>9, <2>a, <3>0, <4>1, <4>2 DEF LandingInv, LandingTypes, SightInv, InTurn
      <4>4. SightInv'
        BY <1>0, <1>n, <2>5, <2>6, <2>9, <2>a, <3>0, <4>1, <4>2 DEF LandingInv, LandingTypes, SightInv, InTurn
      <4>5. InTurn'
        BY <1>0, <1>n, <2>5, <2>6, <2>9, <2>a, <3>0, <4>1, <4>2 DEF LandingInv, LandingTypes, InTurn
      <4>6. QED
        BY <1>1, <4>3, <4>4, <4>5 DEF LandingInv
    <3>2. CASE n < ReacquireFrames /\ now >= since + HoldTicks
      <4>1. /\ landing' = IF retry THEN "failed" ELSE "retry_transit"
            /\ retry' = TRUE /\ streak' = 0 /\ holdAt' = since /\ UNCHANGED <<modeSent, healthyAt>>
        BY <2>9, <3>2, LandingNumbers DEF Hold
      <4>2. streak' \in 0 .. AnchorFrames + ReacquireFrames
        BY <4>1, LandingNumbers
      <4>3. landing' \in {"failed", "retry_transit"}
        BY <4>1
      <4>4. LandingTypes'
        BY <1>0, <1>n, <2>5, <2>6, <2>9, <3>0, <4>1, <4>2, <4>3 DEF LandingInv, LandingTypes, SightInv, InTurn
      <4>5. SightInv'
        BY <1>0, <1>n, <2>5, <2>6, <2>9, <3>0, <4>1, <4>2, <4>3 DEF LandingInv, LandingTypes, SightInv, InTurn
      <4>6. InTurn'
        BY <1>0, <1>n, <2>5, <2>6, <2>9, <3>0, <4>1, <4>2, <4>3 DEF LandingInv, LandingTypes, InTurn
      <4>7. QED
        BY <1>1, <4>4, <4>5, <4>6 DEF LandingInv
    <3>3. CASE n < ReacquireFrames /\ ~ (now >= since + HoldTicks)
      <4>1. /\ landing' = "hold" /\ streak' = n /\ holdAt' = since
            /\ UNCHANGED <<modeSent, healthyAt, retry>>
        BY <2>9, <3>3, LandingNumbers DEF Hold
      <4>2. streak' \in 0 .. AnchorFrames + ReacquireFrames /\ streak' < ReacquireFrames
        BY <2>9, <3>3, <4>1, LandingNumbers
      <4>3. LandingTypes'
        BY <1>0, <1>n, <2>5, <2>6, <2>9, <3>0, <4>1, <4>2 DEF LandingInv, LandingTypes, SightInv, InTurn
      <4>4. SightInv'
        BY <1>0, <1>n, <2>5, <2>6, <2>9, <3>0, <4>1, <4>2 DEF LandingInv, LandingTypes, SightInv, InTurn
      <4>5. InTurn'
        BY <1>0, <1>n, <2>5, <2>6, <2>9, <3>0, <4>1, <4>2 DEF LandingInv, LandingTypes, InTurn
      <4>6. QED
        BY <1>1, <4>3, <4>4, <4>5 DEF LandingInv
    <3>4. QED
      BY <2>9, <3>1, <3>2, <3>3, LandingNumbers
  <2>10. CASE landing = "hold" /\ Hold(row(streak, healthy), holdAt)
    <3>1. holdAt \in 0 .. now
      BY DEF LandingInv, LandingTypes, SightInv, InTurn
    <3>2. Hold(r1, holdAt)
      BY <2>10 DEF r1
    <3>3. QED
      BY <1>1, <2>4, <2>9, <2>10, <3>1, <3>2, LandingNumbers
  <2>11. CASE landing = "retry_transit" /\ Hold(row(0, healthy), now)
    <3>1. now \in 0 .. now
      BY LandingNumbers
    <3>2. Hold(r2, now)
      BY <2>11 DEF r2
    <3>3. QED
      BY <1>1, <2>4, <2>9, <2>11, <3>1, <3>2, LandingNumbers
  <2>12. QED
    BY <1>1, <2>1, <2>7, <2>8, <2>10, <2>11
<1>5. QED
  BY <1>1, <1>2, <1>3, <1>4

\* Each step of the landing (PrecisionNext): the operation, the threads, the vehicle.
LEMMA LandingInvStep ==
    ASSUME VisionInv, LandingInv, PrecisionNext
    PROVE  VisionInv' /\ LandingInv'
<1>1. CASE (VisionTick \/ AcceptImage \/ VisionThreads) /\ ~ LandingOver /\ UNCHANGED landingVars
  <2>1. VisionInv'
    BY <1>1, VisionInvStep
  <2>2. now' = now \/ now' = now + 1
    BY <1>1 DEF VisionTick, AcceptImage, VisionThreads, CaptureFrame, AcceptCandidate, WorkerAsks,
                WorkerGets, WorkerTimesOut, WorkerDetects
  <2>3. request' = request
    BY <1>1 DEF VisionTick, AcceptImage, VisionThreads, CaptureFrame, AcceptCandidate, WorkerAsks,
                WorkerGets, WorkerTimesOut, WorkerDetects
  <2>4. 0 .. now \subseteq 0 .. now'
    BY <2>2, LandingNumbers
  <2>5. LandingTypes'
    BY <1>1, <2>4 DEF landingVars, LandingInv, LandingTypes
  <2>6. SightInv'
    BY <1>1, <2>3 DEF landingVars, LandingInv, SightInv
  <2>7. InTurn'
    BY <1>1 DEF landingVars, LandingInv, InTurn
  <2>8. QED
    BY <2>1, <2>5, <2>6, <2>7 DEF LandingInv
<1>2. CASE FindMarker
  <2>1. lastSeq \in 0 .. LastTick + 1
    BY DEF LandingInv, LandingTypes
  <2>2. VisionInv' /\ request' > 0
    BY <1>2, <2>1, RequestsKept DEF FindMarker
  <2>3. /\ landing' = "find" /\ streak' = 0 /\ looked' = now /\ landing = "idle"
        /\ UNCHANGED <<now, lastSeq, retry, healthyAt, holdAt, modeSeen, nearGround, modeSent, shown>>
    BY <1>2 DEF FindMarker
  <2>4. 0 \in 0 .. AnchorFrames + ReacquireFrames /\ now \in 0 .. now /\ 0 < AnchorFrames
    BY LandingNumbers
  <2>5. LandingTypes'
    BY <2>3, <2>4 DEF LandingInv, LandingTypes
  <2>6. SightInv'
    BY <2>2, <2>3, <2>4 DEF SightInv
  <2>7. InTurn'
    BY <2>3 DEF LandingInv, InTurn
  <2>8. QED
    BY <2>2, <2>5, <2>6, <2>7 DEF LandingInv
<1>3. CASE BeginPrecision
  <2>1. lastSeq \in 0 .. LastTick + 1
    BY DEF LandingInv, LandingTypes
  <2>2. VisionInv' /\ request' > 0
    BY <1>3, <2>1, RequestsKept DEF BeginPrecision
  <2>3. /\ landing' = "await_first" /\ streak' = 0 /\ looked' = now /\ landing = "found"
        /\ healthyAt' = now /\ retry' = FALSE
        /\ UNCHANGED <<now, lastSeq, holdAt, modeSeen, nearGround, modeSent, shown>>
    BY <1>3 DEF BeginPrecision
  <2>4. 0 \in 0 .. AnchorFrames + ReacquireFrames /\ now \in 0 .. now
    BY LandingNumbers
  <2>5. LandingTypes'
    BY <2>3, <2>4 DEF LandingInv, LandingTypes
  <2>6. SightInv'
    BY <2>2, <2>3, <2>4 DEF SightInv
  <2>7. InTurn'
    BY <2>3 DEF LandingInv, InTurn
  <2>8. QED
    BY <2>2, <2>5, <2>6, <2>7 DEF LandingInv
<1>4. CASE EvaluateFind
  <2>0. /\ request > 0 /\ landing = "find" /\ looked' = now /\ Polled /\ streak < AnchorFrames
        /\ UNCHANGED <<now, images, taken, acq, acqStop, latest, request, modeSeen, nearGround>>
    BY <1>4 DEF EvaluateFind, LandingInv, SightInv
  <2>1. VisionInv'
    <3>1. workers' = workers \/ Cancel
      BY <1>4 DEF EvaluateFind, EndLanding
    <3>2. QED
      BY <2>0, <3>1, VisionKept
  <2>2. CASE VisionFailed
    <3>1. /\ landing' = "failed"
          /\ UNCHANGED <<lastSeq, streak, retry, healthyAt, holdAt, modeSent, shown>>
      BY <1>4, <2>2 DEF EvaluateFind, EndLanding
    <3>2. now \in 0 .. now
      BY LandingNumbers
    <3>3. LandingTypes'
      BY <2>0, <3>1, <3>2 DEF LandingInv, LandingTypes
    <3>4. SightInv' /\ InTurn'
      BY <2>0, <3>1 DEF LandingInv, SightInv, InTurn
    <3>5. QED
      BY <2>1, <3>3, <3>4 DEF LandingInv
  <2>3. CASE ~ VisionFailed
    <3> DEFINE f == Observed
    <3>1. PICK agrees \in BOOLEAN :
           LET n == IF agrees THEN streak + 1 ELSE 1 IN
            IF ~Usable(f)
            THEN /\ lastSeq' = Higher(lastSeq, f.seq)
                 /\ UNCHANGED <<landing, streak, retry, healthyAt, holdAt, modeSent, shown, workers>>
            ELSE /\ lastSeq' = f.seq /\ shown' = f.exp
                 /\ IF n >= AnchorFrames THEN landing' = "found" /\ Cancel /\ streak' = 0
                    ELSE streak' = n /\ UNCHANGED <<landing, workers>>
                 /\ UNCHANGED <<retry, healthyAt, holdAt, modeSent>>
      BY <1>4, <2>3 DEF EvaluateFind
    <3>2. f \in Frames
      BY <2>0, ObservedIsFrame
    <3> DEFINE n == IF agrees THEN streak + 1 ELSE 1
    <3>3. n \in Nat /\ n <= AnchorFrames
      BY <2>0, LandingNumbers
    <3>4. \/ landing' = "find" /\ streak' = streak
          \/ landing' = "found" /\ streak' = 0
          \/ landing' = "find" /\ streak' = n /\ ~ (n >= AnchorFrames)
      BY <2>0, <3>1
    <3>5. /\ UNCHANGED <<retry, healthyAt, holdAt, modeSent>>
          /\ \/ lastSeq' = Higher(lastSeq, f.seq) /\ shown' = shown
             \/ lastSeq' = f.seq /\ shown' = f.exp /\ Usable(f)
      BY <3>1
    <3> HIDE DEF f, n
    <3>6. lastSeq' \in 0 .. LastTick + 1 /\ shown' \in 0 .. now
      BY <3>2, <3>5, UsableIsFresh DEF LandingInv, LandingTypes
    <3>7. /\ landing' \in {"find", "found"} /\ streak' \in 0 .. AnchorFrames + ReacquireFrames
          /\ landing' = "find" => streak' < AnchorFrames
      BY <2>0, <3>3, <3>4, LandingNumbers
    <3>8. now \in 0 .. now
      BY LandingNumbers
    <3>9. LandingTypes'
      BY <2>0, <3>5, <3>6, <3>7, <3>8 DEF LandingInv, LandingTypes
    <3>10. SightInv'
      BY <2>0, <3>7 DEF SightInv
    <3>11. InTurn'
      BY <2>0, <3>5, <3>7 DEF LandingInv, InTurn
    <3>12. QED
      BY <2>1, <3>9, <3>10, <3>11 DEF LandingInv
  <2>4. QED
    BY <2>2, <2>3
<1>5. CASE Transit
  <2>0. /\ request > 0 /\ landing = "retry_transit" /\ looked' = now /\ Polled
        /\ landing' \in {"failed", "retry_transit"}
        /\ UNCHANGED <<now, images, taken, acq, acqStop, latest, request, modeSeen, nearGround,
                       lastSeq, streak, retry, healthyAt, holdAt, modeSent, shown>>
        /\ workers' = workers \/ Cancel
    BY <1>5 DEF Transit, EndLanding, LandingInv, SightInv
  <2>1. VisionInv'
    BY <2>0, VisionKept
  <2>2. now \in 0 .. now
    BY LandingNumbers
  <2>3. LandingTypes'
    BY <2>0, <2>2 DEF LandingInv, LandingTypes
  <2>4. SightInv'
    BY <2>0 DEF SightInv
  <2>5. InTurn'
    BY <2>0 DEF LandingInv, InTurn
  <2>6. QED
    BY <2>1, <2>3, <2>4, <2>5 DEF LandingInv
<1>6. CASE EvaluatePrecision
  BY <1>6, EvaluatePrecisionKeeps
<1>7. CASE LandingEnds
  <2>0. /\ landing' \in {"landed", "failed"}
        /\ workers' = workers \/ Cancel
        /\ UNCHANGED <<now, images, taken, acq, acqStop, latest, request, results, lastSeq, streak,
                       retry, healthyAt, holdAt, modeSeen, nearGround, modeSent, shown, looked>>
    BY <1>7 DEF LandingEnds
  <2>1. VisionInv'
    BY <2>0, VisionKept
  <2>2. LandingTypes'
    BY <2>0 DEF LandingInv, LandingTypes
  <2>3. SightInv'
    BY <2>0 DEF SightInv
  <2>4. InTurn'
    BY <2>0 DEF LandingInv, InTurn
  <2>5. QED
    BY <2>1, <2>2, <2>3, <2>4 DEF LandingInv
<1>8. CASE VehicleMoves
  <2>0. UNCHANGED <<visionVars, landing, lastSeq, streak, retry, healthyAt, holdAt, modeSent, shown,
                    looked>>
    BY <1>8 DEF VehicleMoves
  <2>1. VisionInv'
    BY <2>0 DEF visionVars, VisionInv
  <2>2. modeSeen' \in {"GUIDED", "LAND"} /\ nearGround' \in BOOLEAN
    <3>1. modeSent \in Seq({"GUIDED", "LAND"}) /\ nearGround \in BOOLEAN /\ modeSeen \in {"GUIDED", "LAND"}
      BY DEF LandingInv, LandingTypes, InTurn
    <3>2. modeSent # <<>> => modeSent[Len(modeSent)] \in {"GUIDED", "LAND"}
      BY <3>1
    <3>3. QED
      BY <1>8, <3>1, <3>2 DEF VehicleMoves
  <2>3. LandingTypes'
    BY <2>0, <2>2 DEF visionVars, LandingInv, LandingTypes
  <2>4. SightInv'
    BY <2>0 DEF visionVars, LandingInv, SightInv
  <2>5. InTurn'
    BY <2>0 DEF LandingInv, InTurn
  <2>6. QED
    BY <2>1, <2>3, <2>4, <2>5 DEF LandingInv
<1>9. QED
  BY <1>1, <1>2, <1>3, <1>4, <1>5, <1>6, <1>7, <1>8 DEF PrecisionNext

\* What the invariants say of the state and of the descent (LandingTypeOK, NoBlindDescent).
LEMMA LandingIsSafe ==
    ASSUME VisionInv, LandingInv
    PROVE  LandingTypeOK /\ NoBlindDescent
<1>0. /\ LastTick \in Nat /\ now \in Nat /\ now <= LastTick
  BY LandingNumbers
<1>1. 0 .. now \subseteq 0 .. LastTick /\ 0 .. now + 1 \subseteq 0 .. LastTick + 1
      /\ 1 .. now + 1 \subseteq 1 .. LastTick + 1 /\ 0 .. now \subseteq 0 .. LastTick + 1
  BY <1>0
<1>2. \A f \in Frames : FrameOK(f)
  BY DEF Frames, FrameOK
<1>3. taken \in 0 .. now /\ 0 .. taken \subseteq 0 .. now
  BY <1>0 DEF VisionInv
<1>4. /\ now \in 1 .. LastTick /\ taken \in 0 .. LastTick + 1
      /\ images.kept \subseteq 1 .. LastTick + 1 /\ Cardinality(images.kept) <= BufferSize
      /\ images.last \in 0 .. LastTick + 1
      /\ acq.pc \in {"none", "capture", "accept", "dead"} /\ acq.exp \in 0 .. LastTick + 1
      /\ acqStop \in BOOLEAN /\ FrameOK(latest) /\ request \in 0 .. MaxRequests
  BY <1>1, <1>2, <1>3 DEF VisionInv
<1>5. ASSUME NEW k \in Requests
      PROVE  /\ workers[k].pc \in {"none", "ask", "wait", "detect", "dead"}
             /\ workers[k].after \in 0 .. LastTick + 1 /\ FrameOK(workers[k].frame)
             /\ workers[k].stop \in BOOLEAN
             /\ \A i \in DOMAIN results[k] : FrameOK(results[k][i])
  <2>1. workers[k] \in WorkerStates /\ results[k] \in Seq(Frames)
    BY DEF VisionInv
  <2>2. \A i \in DOMAIN results[k] : results[k][i] \in Frames
    BY <2>1
  <2>3. QED
    BY <1>2, <2>1, <2>2 DEF WorkerStates
<1>6. VisionTypeOK
  BY <1>4, <1>5 DEF VisionTypeOK
<1>7. /\ modeSent \in Seq({"GUIDED", "LAND"}) /\ DOMAIN modeSent = 1 .. Len(modeSent)
      /\ \A i \in DOMAIN modeSent : modeSent[i] \in {"GUIDED", "LAND"}
  BY DEF LandingInv, InTurn
<1>8. LandingTypeOK
  BY <1>1, <1>6, <1>7 DEF LandingTypeOK, LandingInv, LandingTypes
<1>9. NoBlindDescent
  BY <1>7 DEF NoBlindDescent, LandingInv, SightInv, InTurn
<1>10. QED
  BY <1>8, <1>9

-----------------------------------------------------------------------------
(* The vehicle, as the missions flown without a host see it. *)

\* A report on its way to the companion: into the stream, or into what DroneKit keeps.
Reported(m) ==
    IF flight = "descent" THEN wire' = Append(wire, m) /\ seen' = seen
    ELSE seen' = DroneKitKept(seen, m) /\ wire' = wire

\* What the vehicle says is what it is.
Honest(m) ==
    /\ m \in Telegrams /\ ~ IsAck(m)
    /\ m.kind = "heartbeat" => m.armed = craft'.armed /\ m.mode = craft'.mode
    /\ SaysHigh(m) => craft'.flown
    /\ m.kind = "text" /\ m.text = "saved" => craft'.gains = "saved"

\* An order leaves the queue, and is followed or not.
Obeyed ==
    /\ orders # <<>> /\ orders' = Tail(orders)
    /\ \/ craft' = craft
       \/ CanFollow(Head(orders)) /\ craft' = Followed(Head(orders))
    /\ \E accepted \in BOOLEAN :
         IF flight = "descent"
         THEN /\ wire' = Append(wire, [kind |-> "ack", order |-> Head(orders), accepted |-> accepted])
              /\ seen' = seen
         ELSE UNCHANGED linkVars

\* The vehicle does something by itself, and may report.
Moved ==
    /\ orders' = orders
    /\ craft'.armed \in {craft.armed, "no"} /\ craft'.mode \in {craft.mode, "OTHER"}
    /\ UNCHANGED linkVars \/ \E m \in Telegrams : Honest(m) /\ Reported(m)

LEMMA VehicleEffects ==
    ASSUME LoopTypes, LinkTypes, CraftInv, Obey \/ VehicleActs \/ ModeChanges
    PROVE  /\ craft' \in Crafts /\ CraftInv'
           /\ craft.flown => craft'.flown
           /\ craft.gains = "saved" => craft'.gains = "saved"
           /\ UNCHANGED <<flight, loopVars>>
           /\ directMishaps' \in 0 .. MaxDirectMishaps /\ directMishaps' >= directMishaps
           /\ Obeyed \/ Moved
<1>0. /\ craft \in Crafts /\ craft.mode \in Modes /\ craft.armed \in {"yes", "no"}
      /\ craft.height \in Heights /\ craft.climbing \in BOOLEAN /\ craft.flown \in BOOLEAN
      /\ craft.gains \in {"old", "tuned", "failed", "saved"}
  BY DEF LinkTypes, Crafts
<1>1. /\ directMishaps \in 0 .. MaxDirectMishaps /\ MaxDirectMishaps \in Nat
      /\ DirectMishap => directMishaps' \in 0 .. MaxDirectMishaps /\ directMishaps' >= directMishaps
      /\ directMishaps' = directMishaps => directMishaps' >= directMishaps
  BY DirectAssumption DEF LoopTypes, DirectMishap
<1>2. ASSUME NEW m \in Telegrams, Report(m) PROVE Reported(m)
  BY <1>2 DEF Report, Reported
<1>3. CASE Obey
  <2> DEFINE order == Head(orders)
  <2>1. order \in Commands /\ orders # <<>> /\ orders' = Tail(orders)
    BY <1>3 DEF Obey, LinkTypes
  <2>2. UNCHANGED <<flight, loopVars>>
    BY <1>3 DEF Obey
  <2>3. /\ directMishaps' \in 0 .. MaxDirectMishaps /\ directMishaps' >= directMishaps
    BY <1>1, <1>3 DEF Obey
  <2>4. \/ craft' = craft
        \/ CanFollow(order) /\ craft' = Followed(order)
    BY <1>3 DEF Obey
  <2>5. Obeyed
    <3>1. \E accepted \in BOOLEAN : Acknowledged(order, accepted)
      BY <1>3 DEF Obey
    <3>2. \E accepted \in BOOLEAN :
             IF flight = "descent"
             THEN /\ wire' = Append(wire, [kind |-> "ack", order |-> order, accepted |-> accepted])
                  /\ seen' = seen
             ELSE UNCHANGED linkVars
      BY <3>1 DEF Acknowledged, Report
    <3>3. QED
      BY <2>1, <2>4, <3>2 DEF Obeyed
  <2> HIDE DEF order
  <2>6. CASE craft' = craft
    BY <1>0, <2>2, <2>3, <2>5, <2>6 DEF CraftInv
  <2>7. CASE CanFollow(order) /\ craft' = Followed(order)
    <3>1. CASE order = "ARM"
      <4>1. craft' = [craft EXCEPT !.armed = "yes"]
        BY <2>7, <3>1 DEF Followed
      <4>2. craft' \in Crafts /\ CraftInv' /\ craft'.flown = craft.flown /\ craft'.gains = craft.gains
        BY <1>0, <4>1 DEF Crafts, CraftInv
      <4>3. QED
        BY <2>2, <2>3, <2>5, <4>2
    <3>2. CASE order = "TAKEOFF"
      <4>1. craft' = [craft EXCEPT !.climbing = TRUE]
        BY <2>7, <3>2 DEF Followed
      <4>2. craft' \in Crafts /\ CraftInv' /\ craft'.flown = craft.flown /\ craft'.gains = craft.gains
        BY <1>0, <4>1 DEF Crafts, CraftInv
      <4>3. QED
        BY <2>2, <2>3, <2>5, <4>2
    <3>3. CASE order \notin {"ARM", "TAKEOFF"}
      <4>1. craft' = [craft EXCEPT !.mode = order, !.climbing = FALSE] /\ order \in Modes
        BY <2>1, <2>7, <3>3 DEF Followed, Commands
      <4>2. craft' \in Crafts /\ CraftInv' /\ craft'.flown = craft.flown /\ craft'.gains = craft.gains
        BY <1>0, <4>1 DEF Crafts, CraftInv
      <4>3. QED
        BY <2>2, <2>3, <2>5, <4>2
    <3>4. QED
      BY <3>1, <3>2, <3>3
  <2>8. QED
    BY <2>4, <2>6, <2>7
<1>4. CASE VehicleActs
  <2>1. UNCHANGED <<flight, loopVars, orders, directMishaps>>
    BY <1>4 DEF VehicleActs
  <2>2. CASE Climb
    <3>1. /\ craft' = [craft EXCEPT !.height = IF craft.height = "ground" THEN "low" ELSE "high",
                                    !.flown = craft.flown \/ craft.height = "low"]
          /\ craft.armed = "yes" /\ craft.height # "high" /\ UNCHANGED linkVars
      BY <2>2 DEF Climb
    <3> DEFINE h == IF craft.height = "ground" THEN "low" ELSE "high"
               up == craft.flown \/ craft.height = "low"
    <3>2. h \in Heights /\ up \in BOOLEAN /\ (h = "high" => up) /\ (craft.flown => up)
      BY <1>0, <3>1 DEF Heights
    <3>3. craft' = [craft EXCEPT !.height = h, !.flown = up]
      BY <3>1
    <3> HIDE DEF h, up
    <3>4. /\ craft' \in Crafts /\ craft'.flown = up /\ craft'.height = h /\ craft'.armed = "yes"
          /\ craft'.gains = craft.gains /\ craft'.armed = craft.armed /\ craft'.mode = craft.mode
      BY <1>0, <3>1, <3>2, <3>3 DEF Crafts
    <3>5. CraftInv'
      BY <3>2, <3>4 DEF CraftInv
    <3>6. Moved
      BY <2>1, <3>1, <3>4 DEF Moved
    <3>7. QED
      BY <1>1, <2>1, <3>2, <3>4, <3>5, <3>6
  <2>3. CASE Sink
    <3>1. /\ craft' = [craft EXCEPT !.height = IF craft.height = "high" THEN "low" ELSE "ground"]
          /\ craft.armed = "yes" /\ UNCHANGED linkVars
      BY <2>3 DEF Sink, Aloft
    <3> DEFINE h == IF craft.height = "high" THEN "low" ELSE "ground"
    <3>2. h \in Heights /\ h # "high" /\ craft' = [craft EXCEPT !.height = h]
      BY <3>1 DEF Heights
    <3> HIDE DEF h
    <3>3. /\ craft' \in Crafts /\ craft'.flown = craft.flown /\ craft'.height # "high"
          /\ craft'.armed = "yes" /\ craft'.gains = craft.gains /\ craft'.mode = craft.mode
      BY <1>0, <3>1, <3>2 DEF Crafts
    <3>4. CraftInv' /\ Moved
      BY <2>1, <3>1, <3>3 DEF CraftInv, Moved
    <3>5. QED
      BY <1>1, <2>1, <3>3, <3>4
  <2>4. CASE Disarm
    <3>1. craft.armed = "yes" /\ craft.height = "ground"
      BY <2>4 DEF Disarm
    <3>2. CASE craft.gains = "tuned"
      <4> DEFINE m == [kind |-> "text", text |-> "saved"]
      <4>1. craft' = [craft EXCEPT !.armed = "no", !.gains = "saved"] /\ Report(m)
        BY <2>4, <3>2 DEF Disarm
      <4>2. /\ craft' \in Crafts /\ craft'.flown = craft.flown /\ craft'.height = "ground"
            /\ craft'.armed = "no" /\ craft'.gains = "saved" /\ craft'.mode = craft.mode
        BY <1>0, <3>1, <4>1 DEF Crafts
      <4>3. m \in Telegrams /\ Honest(m)
        BY <4>2 DEF Telegrams, Honest, IsAck, SaysHigh
      <4>4. CraftInv' /\ Moved
        BY <1>2, <2>1, <4>1, <4>2, <4>3 DEF CraftInv, Moved
      <4>5. QED
        BY <1>1, <2>1, <4>2, <4>4
    <3>3. CASE craft.gains # "tuned"
      <4>1. craft' = [craft EXCEPT !.armed = "no"] /\ UNCHANGED linkVars
        BY <2>4, <3>3 DEF Disarm
      <4>2. /\ craft' \in Crafts /\ craft'.flown = craft.flown /\ craft'.height = "ground"
            /\ craft'.armed = "no" /\ craft'.gains = craft.gains /\ craft'.mode = craft.mode
        BY <1>0, <3>1, <4>1 DEF Crafts
      <4>3. CraftInv' /\ Moved
        BY <2>1, <4>1, <4>2 DEF CraftInv, Moved
      <4>4. QED
        BY <1>1, <2>1, <4>2, <4>3
    <3>4. QED
      BY <3>2, <3>3
  <2>5. CASE Tune
    <3>1. PICK g \in {"tuned", "failed"}, x \in {"success", "failed"} :
            craft' = [craft EXCEPT !.gains = g] /\ Report([kind |-> "text", text |-> x])
      BY <2>5 DEF Tune
    <3>2. craft.gains = "old"
      BY <2>5 DEF Tune
    <3>3. /\ craft' \in Crafts /\ craft'.flown = craft.flown /\ craft'.height = craft.height
          /\ craft'.armed = craft.armed /\ craft'.mode = craft.mode
      BY <1>0, <3>1 DEF Crafts
    <3> DEFINE m == [kind |-> "text", text |-> x]
    <3>4. m \in Telegrams /\ Honest(m)
      BY DEF Telegrams, Honest, IsAck, SaysHigh
    <3>5. CraftInv' /\ Moved
      BY <1>2, <2>1, <3>1, <3>3, <3>4 DEF CraftInv, Moved
    <3>6. QED
      BY <1>1, <2>1, <3>2, <3>3, <3>5
  <2>6. CASE Tell
    <3>1. craft' = craft
      BY <2>6 DEF Tell
    <3>2. \E m \in Telegrams : Honest(m) /\ Reported(m)
      <4>1. ASSUME NEW m \in Telegrams, Honest(m), Report(m)
            PROVE  \E n \in Telegrams : Honest(n) /\ Reported(n)
        BY <1>2, <4>1
      <4>2. CASE Report([kind |-> "heartbeat", mode |-> craft.mode, armed |-> craft.armed])
        <5> DEFINE m == [kind |-> "heartbeat", mode |-> craft.mode, armed |-> craft.armed]
        <5>1. m \in Telegrams /\ Honest(m)
          BY <1>0, <3>1 DEF Telegrams, Honest, IsAck, SaysHigh
        <5>2. QED
          BY <4>1, <4>2, <5>1
      <4>3. CASE Report([kind |-> "position", height |-> craft.height,
                         sinking |-> flight = "descent" /\ craft.mode = "LAND" /\ Aloft])
        <5> DEFINE sinks == flight = "descent" /\ craft.mode = "LAND" /\ Aloft
        <5>1. sinks \in BOOLEAN
          OBVIOUS
        <5> HIDE DEF sinks
        <5> DEFINE m == [kind |-> "position", height |-> craft.height, sinking |-> sinks]
        <5>2. m \in [kind : {"position"}, height : Heights, sinking : BOOLEAN]
          BY <1>0, <5>1
        <5>3. Honest(m)
          BY <1>0, <3>1, <5>2 DEF Telegrams, Honest, IsAck, SaysHigh, CraftInv
        <5>4. m \in Telegrams
          BY <5>2 DEF Telegrams
        <5>5. Report(m)
          BY <4>3 DEF sinks
        <5>6. QED
          BY <4>1, <5>3, <5>4, <5>5
      <4>4. CASE Report([kind |-> "landed", landed |-> IF craft.height = "ground" THEN "yes" ELSE "no"])
        <5> DEFINE m == [kind |-> "landed", landed |-> IF craft.height = "ground" THEN "yes" ELSE "no"]
        <5>1. m \in Telegrams /\ Honest(m)
          BY DEF Telegrams, Honest, IsAck, SaysHigh
        <5>2. QED
          BY <4>1, <4>4, <5>1
      <4>5. ASSUME NEW healthy \in {TRUE, flight = "descent"},
                   Report([kind |-> "prearm", healthy |-> healthy])
            PROVE  \E n \in Telegrams : Honest(n) /\ Reported(n)
        <5>1. healthy \in BOOLEAN
          BY <4>5
        <5> DEFINE m == [kind |-> "prearm", healthy |-> healthy]
        <5>2. m \in Telegrams /\ Honest(m)
          BY <5>1 DEF Telegrams, Honest, IsAck, SaysHigh
        <5>3. QED
          BY <4>1, <4>5, <5>2
      <4>6. QED
        BY <2>6, <4>2, <4>3, <4>4, <4>5 DEF Tell
    <3>3. Moved /\ CraftInv'
      BY <2>1, <3>1, <3>2 DEF Moved, CraftInv
    <3>4. QED
      BY <1>0, <1>1, <2>1, <3>1, <3>3
  <2>7. QED
    BY <1>4, <2>2, <2>3, <2>4, <2>5, <2>6 DEF VehicleActs
<1>5. CASE ModeChanges
  <2>1. /\ UNCHANGED <<flight, loopVars, orders>> /\ UNCHANGED linkVars /\ DirectMishap
        /\ craft' = [craft EXCEPT !.mode = "OTHER", !.climbing = FALSE]
    BY <1>5 DEF ModeChanges, Failsafe
  <2>2. /\ craft' \in Crafts /\ craft'.flown = craft.flown /\ craft'.height = craft.height
        /\ craft'.armed = craft.armed /\ craft'.gains = craft.gains /\ craft'.mode = "OTHER"
    BY <1>0, <2>1 DEF Crafts, Modes
  <2>3. CraftInv' /\ Moved
    BY <2>1, <2>2 DEF CraftInv, Moved
  <2>4. QED
    BY <1>1, <2>1, <2>2, <2>3
<1>6. QED
  BY <1>3, <1>4, <1>5

\* The vehicle keeps what the descent counts on: its orders and reports are in order.
LEMMA DescentKeptByVehicle ==
    ASSUME LinkTypes, flight = "descent", OpenInv, ArmInv, HighInv,
           Obeyed \/ Moved, craft.flown => craft'.flown,
           UNCHANGED <<flight, policy, broken>>
    PROVE  OpenInv' /\ ArmInv' /\ HighInv'
<1>0. wire \in Seq(Telegrams) /\ orders \in Seq(Commands) /\ craft \in Crafts /\ seen \in Sights
  BY DEF LinkTypes
<1>1. CASE Moved /\ UNCHANGED linkVars
  <2>1. /\ orders' = orders /\ wire' = wire /\ seen' = seen
        /\ craft'.armed \in {craft.armed, "no"}
    BY <1>1 DEF Moved, linkVars
  <2>2. OpenInv'
    BY <2>1 DEF OpenInv, NoAck
  <2>3. ArmInv'
    BY <2>1 DEF ArmInv, NoYes, Has
  <2>4. HighInv'
    BY <2>1 DEF HighInv
  <2>5. QED
    BY <2>2, <2>3, <2>4
<1>2. CASE Moved /\ ~ UNCHANGED linkVars
  <2>1. PICK m \in Telegrams : Honest(m) /\ wire' = Append(wire, m) /\ seen' = seen
    BY <1>2 DEF Moved, Reported
  <2>2. orders' = orders /\ craft'.armed \in {craft.armed, "no"}
    BY <1>2 DEF Moved
  <2>3. /\ Len(wire') = Len(wire) + 1 /\ Len(wire) \in Nat
        /\ \A i \in 1 .. Len(wire) : wire'[i] = wire[i]
        /\ wire'[Len(wire) + 1] = m
    BY <1>0, <2>1, AppendProperties
  <2>4. \A i \in 1 .. Len(wire') : i \in 1 .. Len(wire) \/ i = Len(wire) + 1
    BY <2>3
  <2>5. ~ IsAck(m) /\ (Beats(m, "yes") => craft'.armed = "yes") /\ (Beats(m, "no") => craft'.armed = "no")
        /\ (SaysHigh(m) => craft'.flown)
    BY <2>1 DEF Honest, Beats
  <2>6. OpenInv'
    <3>1. \A i \in 1 .. Len(wire') : IsAck(wire'[i]) => i \in 1 .. Len(wire) /\ IsAck(wire[i])
      BY <2>3, <2>4, <2>5
    <3>2. NoAck => NoAck'
      BY <3>1 DEF NoAck
    <3>3. \A i, j \in 1 .. Len(wire') : IsAck(wire'[i]) /\ IsAck(wire'[j]) => i = j
      BY <3>1 DEF OpenInv
    <3>4. QED
      BY <2>2, <3>2, <3>3 DEF OpenInv
  <2>7. ArmInv'
    <3>1. NoYes /\ craft.armed = "no" => NoYes' /\ craft'.armed = "no"
      BY <2>1, <2>2, <2>3, <2>4, <2>5 DEF NoYes
    <3>2. ASSUME NEW i \in 1 .. Len(wire'), Beats(wire'[i], "no"),
                 seen'.armed = "yes" \/ \E j \in 1 .. i : Beats(wire'[j], "yes")
          PROVE  craft'.armed = "no"
      <4>1. CASE i = Len(wire) + 1
        BY <2>3, <2>5, <3>2, <4>1
      <4>2. CASE i \in 1 .. Len(wire)
        <5>1. \A j \in 1 .. i : j \in 1 .. Len(wire)
          BY <2>3, <4>2
        <5>2. Beats(wire[i], "no") /\ (seen.armed = "yes" \/ \E j \in 1 .. i : Beats(wire[j], "yes"))
          BY <2>1, <2>3, <3>2, <4>2, <5>1
        <5>3. QED
          BY <2>2, <4>2, <5>2 DEF ArmInv
      <4>3. QED
        BY <2>4, <4>1, <4>2
    <3>3. QED
      BY <2>1, <2>2, <3>1, <3>2 DEF ArmInv, Has
  <2>8. HighInv'
    BY <2>3, <2>4, <2>5 DEF HighInv
  <2>9. QED
    BY <2>6, <2>7, <2>8
<1>3. CASE Obeyed
  <2> DEFINE order == Head(orders)
  <2>1. PICK accepted \in BOOLEAN :
          /\ wire' = Append(wire, [kind |-> "ack", order |-> order, accepted |-> accepted])
          /\ seen' = seen
    BY <1>3 DEF Obeyed
  <2> DEFINE m == [kind |-> "ack", order |-> order, accepted |-> accepted]
  <2>2. /\ orders # <<>> /\ orders' = Tail(orders)
        /\ \/ craft' = craft
           \/ CanFollow(order) /\ craft' = Followed(order)
    BY <1>3 DEF Obeyed
  <2>3. Len(orders) = 1 /\ order = orders[1] /\ orders' = <<>> /\ Len(orders') = 0
    <3>1. Len(orders) = 1 /\ order = orders[1]
      <4>1. Len(orders) \in Nat /\ Len(orders) # 0
        BY <1>0, <2>2, EmptySeq
      <4>2. Len(orders) <= 1
        BY DEF OpenInv
      <4>3. Head(orders) = orders[1]
        BY <1>0, <2>2
      <4>4. Len(orders) = 1
        <5> DEFINE n == Len(orders)
        <5>1. n \in Nat /\ n # 0 /\ n <= 1
          BY <4>1, <4>2
        <5> HIDE DEF n
        <5>2. n = 1
          BY <5>1
        <5>3. QED
          BY <5>2 DEF n
      <4>5. QED
        BY <1>0, <2>2, <4>3, <4>4
    <3>2. Tail(orders) \in Seq(Commands) /\ Len(Tail(orders)) = 0
      BY <1>0, <2>2, <3>1, HeadTailProperties
    <3>3. QED
      BY <2>2, <3>1, <3>2, EmptySeq
  <2>4. IsAck(m) /\ m \in Telegrams /\ ~ Beats(m, "yes") /\ ~ Beats(m, "no") /\ ~ SaysHigh(m)
    <3>1. order \in Commands
      BY <1>0, <2>2, HeadTailProperties
    <3>2. QED
      BY <3>1 DEF IsAck, Telegrams, Beats, SaysHigh
  <2>5. craft'.armed = craft.armed \/ (order = "ARM" /\ craft'.armed = "yes")
    <3>1. CASE craft' = craft
      BY <3>1
    <3>2. CASE order = "ARM" /\ craft' = Followed(order)
      <4>1. craft' = [craft EXCEPT !.armed = "yes"]
        BY <3>2 DEF Followed
      <4>2. QED
        BY <1>0, <3>2, <4>1 DEF Crafts
    <3>3. CASE order = "TAKEOFF" /\ craft' = Followed(order)
      <4>1. craft' = [craft EXCEPT !.climbing = TRUE]
        BY <3>3 DEF Followed
      <4>2. QED
        BY <1>0, <4>1 DEF Crafts
    <3>4. CASE order \notin {"ARM", "TAKEOFF"} /\ craft' = Followed(order)
      <4>1. craft' = [craft EXCEPT !.mode = order, !.climbing = FALSE]
        BY <3>4 DEF Followed
      <4>2. QED
        BY <1>0, <4>1 DEF Crafts
    <3>5. QED
      BY <2>2, <3>1, <3>2, <3>3, <3>4
  <2> HIDE DEF m, order
  <2>6. wire' = Append(wire, m) /\ seen' = seen
    BY <2>1 DEF m
  <2>7. /\ Len(wire') = Len(wire) + 1 /\ Len(wire) \in Nat
        /\ \A i \in 1 .. Len(wire) : wire'[i] = wire[i]
        /\ wire'[Len(wire) + 1] = m
    BY <1>0, <2>4, <2>6, AppendProperties
  <2>8. \A i \in 1 .. Len(wire') : i \in 1 .. Len(wire) \/ i = Len(wire) + 1
    BY <2>7
  <2>9. NoAck
    BY <2>2 DEF OpenInv
  <2>10. OpenInv'
    <3>1. \A i \in 1 .. Len(wire') : IsAck(wire'[i]) => i = Len(wire) + 1
      BY <2>7, <2>8, <2>9 DEF NoAck
    <3>2. ~ (~ broken /\ policy.phase \notin AckPhases \cup {"FAILED"})
      BY <2>2 DEF OpenInv
    <3>3. QED
      BY <2>3, <3>1, <3>2 DEF OpenInv
  <2>11. ArmInv'
    <3>1. Has(orders, "ARM") <=> order = "ARM"
      BY <2>3 DEF Has
    <3>2. ~ Has(orders, "ARM")'
      BY <2>3 DEF Has
    <3>3. NoYes => NoYes'
      BY <2>4, <2>6, <2>7, <2>8 DEF NoYes
    <3>4. craft'.armed = "yes" => craft.armed = "yes" \/ Has(orders, "ARM")
      BY <2>5, <3>1
    <3>5. ASSUME NEW i \in 1 .. Len(wire'), Beats(wire'[i], "no"),
                 seen'.armed = "yes" \/ \E j \in 1 .. i : Beats(wire'[j], "yes")
          PROVE  craft'.armed = "no"
      <4>1. i \in 1 .. Len(wire)
        BY <2>4, <2>7, <2>8, <3>5
      <4>2. \A j \in 1 .. i : j \in 1 .. Len(wire)
        BY <2>7, <4>1
      <4>3. Beats(wire[i], "no") /\ (seen.armed = "yes" \/ \E j \in 1 .. i : Beats(wire[j], "yes"))
        BY <2>6, <2>7, <3>5, <4>1, <4>2
      <4>4. ~ NoYes
        BY <4>2, <4>3 DEF NoYes
      <4>5. craft.armed = "no" /\ ~ Has(orders, "ARM")
        BY <4>1, <4>3, <4>4 DEF ArmInv
      <4>6. QED
        BY <2>5, <3>1, <4>5
    <3>6. craft.armed = "no" /\ ~ Has(orders, "ARM") => craft'.armed = "no"
      BY <2>5, <3>1
    <3>7. QED
      BY <2>6, <3>2, <3>3, <3>5, <3>6 DEF ArmInv, AfterArmed, AfterHigh
  <2>12. HighInv'
    BY <2>4, <2>7, <2>8 DEF HighInv
  <2>13. QED
    BY <2>10, <2>11, <2>12
<1>4. QED
  BY <1>1, <1>2, <1>3

\* The same for the roll missions.
LEMMA RollKeptByVehicle ==
    ASSUME LinkTypes, flight # "descent", RollInv,
           Obeyed \/ Moved, craft.flown => craft'.flown,
           craft.gains = "saved" => craft'.gains = "saved",
           UNCHANGED <<flight, policy>>
    PROVE  RollInv'
<1>0. /\ orders \in Seq(Commands) /\ craft \in Crafts /\ seen \in Sights
      /\ seen.texts \in Seq({"success", "failed", "saved"})
  BY DEF LinkTypes, Sights
<1>1. ASSUME NEW m \in Telegrams, Honest(m), seen' = DroneKitKept(seen, m)
      PROVE  /\ \/ seen'.mode = seen.mode /\ seen'.armed = seen.armed
                \/ seen'.mode = craft'.mode /\ seen'.armed = craft'.armed
             /\ seen'.height = "high" => seen.height = "high" \/ craft'.flown
             /\ Has(seen.texts, "saved")' => Has(seen.texts, "saved") \/ craft'.gains = "saved"
  <2>1. CASE m.kind = "position"
    <3>1. seen' = [seen EXCEPT !.height = m.height]
      BY <1>1, <2>1 DEF DroneKitKept
    <3>2. /\ seen'.mode = seen.mode /\ seen'.armed = seen.armed /\ seen'.texts = seen.texts
          /\ seen'.height = m.height
      BY <1>0, <3>1 DEF Sights
    <3>3. QED
      BY <1>1, <2>1, <3>2 DEF Honest, SaysHigh, Has
  <2>2. CASE m.kind = "prearm"
    <3>1. seen' = [seen EXCEPT !.armable = m.healthy]
      BY <1>1, <2>2 DEF DroneKitKept
    <3>2. /\ seen'.mode = seen.mode /\ seen'.armed = seen.armed /\ seen'.texts = seen.texts
          /\ seen'.height = seen.height
      BY <1>0, <3>1 DEF Sights
    <3>3. QED
      BY <3>2 DEF Has
  <2>3. CASE m.kind = "text"
    <3>0. m.text \in {"success", "failed", "saved"}
      BY <2>3 DEF Telegrams
    <3>1. seen' = [seen EXCEPT !.texts = Append(seen.texts, m.text)]
      BY <1>1, <2>3 DEF DroneKitKept
    <3>2. /\ seen'.mode = seen.mode /\ seen'.armed = seen.armed
          /\ seen'.texts = Append(seen.texts, m.text) /\ seen'.height = seen.height
      BY <1>0, <3>1 DEF Sights
    <3>3. /\ Len(seen'.texts) = Len(seen.texts) + 1 /\ Len(seen.texts) \in Nat
          /\ \A i \in 1 .. Len(seen.texts) : seen'.texts[i] = seen.texts[i]
          /\ seen'.texts[Len(seen.texts) + 1] = m.text
      BY <1>0, <3>0, <3>2, AppendProperties
    <3>4. \A i \in 1 .. Len(seen'.texts) : i \in 1 .. Len(seen.texts) \/ i = Len(seen.texts) + 1
      BY <3>3
    <3>5. Has(seen.texts, "saved")' => Has(seen.texts, "saved") \/ m.text = "saved"
      BY <3>3, <3>4 DEF Has
    <3>6. QED
      BY <1>1, <2>3, <3>2, <3>5 DEF Honest
  <2>4. CASE m.kind = "heartbeat"
    <3>1. seen' = [seen EXCEPT !.mode = m.mode, !.armed = m.armed, !.heartbeat = TRUE]
      BY <1>1, <2>4 DEF DroneKitKept, Kept
    <3>2. /\ seen'.mode = m.mode /\ seen'.armed = m.armed /\ seen'.texts = seen.texts
          /\ seen'.height = seen.height
      BY <1>0, <3>1 DEF Sights
    <3>3. QED
      BY <1>1, <2>4, <3>2 DEF Honest, Has
  <2>5. CASE m.kind = "landed"
    <3>1. seen' = [seen EXCEPT !.landed = m.landed]
      BY <1>1, <2>5 DEF DroneKitKept, Kept
    <3>2. /\ seen'.mode = seen.mode /\ seen'.armed = seen.armed /\ seen'.texts = seen.texts
          /\ seen'.height = seen.height
      BY <1>0, <3>1 DEF Sights
    <3>3. QED
      BY <3>2 DEF Has
  <2>6. QED
    BY <1>1, <2>1, <2>2, <2>3, <2>4, <2>5 DEF Honest, IsAck, Telegrams
<1>2. CASE Moved
  <2>1. /\ orders' = orders /\ craft'.armed \in {craft.armed, "no"}
        /\ craft'.mode \in {craft.mode, "OTHER"}
    BY <1>2 DEF Moved
  <2>2. /\ \/ seen'.mode = seen.mode /\ seen'.armed = seen.armed
           \/ seen'.mode = craft'.mode /\ seen'.armed = craft'.armed
        /\ seen'.height = "high" => seen.height = "high" \/ craft'.flown
        /\ Has(seen.texts, "saved")' => Has(seen.texts, "saved") \/ craft'.gains = "saved"
    <3>1. CASE UNCHANGED linkVars
      BY <3>1 DEF linkVars, Has
    <3>2. CASE \E m \in Telegrams : Honest(m) /\ Reported(m)
      BY <1>1, <3>2 DEF Reported
    <3>3. QED
      BY <1>2, <3>1, <3>2 DEF Moved
  <2>3. craft'.mode = "ALT_HOLD" => craft.mode = "ALT_HOLD"
    BY <2>1
  <2>4. QED
    BY <2>1, <2>2, <2>3 DEF RollInv, Has, Late, Early
<1>3. CASE Obeyed
  <2> DEFINE order == Head(orders)
  <2>1. /\ orders # <<>> /\ orders' = Tail(orders) /\ seen' = seen
        /\ \/ craft' = craft
           \/ CanFollow(order) /\ craft' = Followed(order)
    BY <1>3 DEF Obeyed, linkVars
  <2>2. /\ Len(orders) \in Nat /\ Len(orders) > 0 /\ order = orders[1]
        /\ Len(orders') = Len(orders) - 1
        /\ \A i \in 1 .. Len(orders') : orders'[i] = orders[i + 1]
    BY <1>0, <2>1, HeadTailProperties, EmptySeq
  <2>3. \A i \in 1 .. Len(orders') : i + 1 \in 1 .. Len(orders)
    BY <2>2
  <2>4. Has(orders, order) /\ \A x \in Commands : Has(orders, x)' => Has(orders, x)
    BY <2>2, <2>3 DEF Has
  <2>5. /\ craft'.armed = craft.armed \/ (order = "ARM" /\ craft'.armed = "yes")
        /\ craft'.mode = craft.mode \/ (craft'.mode = order /\ craft'.armed = craft.armed)
    <3>1. CASE craft' = craft
      BY <3>1
    <3>2. CASE order = "ARM" /\ craft' = Followed(order)
      <4>1. craft' = [craft EXCEPT !.armed = "yes"]
        BY <3>2 DEF Followed
      <4>2. QED
        BY <1>0, <3>2, <4>1 DEF Crafts
    <3>3. CASE order = "TAKEOFF" /\ craft' = Followed(order)
      <4>1. craft' = [craft EXCEPT !.climbing = TRUE]
        BY <3>3 DEF Followed
      <4>2. QED
        BY <1>0, <4>1 DEF Crafts
    <3>4. CASE order \notin {"ARM", "TAKEOFF"} /\ craft' = Followed(order)
      <4>1. craft' = [craft EXCEPT !.mode = order, !.climbing = FALSE]
        BY <3>4 DEF Followed
      <4>2. QED
        BY <1>0, <4>1 DEF Crafts
    <3>5. QED
      BY <2>1, <3>1, <3>2, <3>3, <3>4
  <2> HIDE DEF order
  <2>6. \A i, j \in 1 .. Len(orders') : orders'[i] = "ARM" /\ orders'[j] = "ALT_HOLD" => i < j
    <3>1. SUFFICES ASSUME NEW i \in 1 .. Len(orders'), NEW j \in 1 .. Len(orders'),
                          orders'[i] = "ARM", orders'[j] = "ALT_HOLD"
                   PROVE  i < j
      OBVIOUS
    <3>2. orders[i + 1] = "ARM" /\ orders[j + 1] = "ALT_HOLD"
      BY <2>2, <3>1
    <3>3. i + 1 < j + 1
      BY <2>3, <3>2 DEF RollInv
    <3>4. QED
      BY <2>2, <3>3
  <2>7. order = "ALT_HOLD" => ~ Has(orders, "ARM")'
    <3>1. SUFFICES ASSUME order = "ALT_HOLD", NEW i \in 1 .. Len(orders'), orders'[i] = "ARM"
                   PROVE  FALSE
      BY DEF Has
    <3>2. orders[i + 1] = "ARM" /\ orders[1] = "ALT_HOLD" /\ 1 \in 1 .. Len(orders)
      BY <2>2, <3>1
    <3>3. i + 1 < 1
      BY <2>3, <3>2 DEF RollInv
    <3>4. QED
      BY <2>2, <3>3
  <2>8. "ARM" \in Commands /\ "ALT_HOLD" \in Commands
    BY DEF Commands, Modes
  <2>9. ~ Has(orders, "ARM") => ~ Has(orders, "ARM")' /\ craft'.armed = craft.armed
    BY <2>4, <2>5, <2>8
  <2>10. ~ Has(orders, "ALT_HOLD") => ~ Has(orders, "ALT_HOLD")' /\ order # "ALT_HOLD"
    BY <2>4, <2>8
  <2>11. craft'.mode = "ALT_HOLD" \/ seen.mode = "ALT_HOLD" => ~ Has(orders, "ARM")'
    BY <2>5, <2>7, <2>9 DEF RollInv
  <2>12. /\ policy.phase \in Early =>
              ~ Has(orders, "ALT_HOLD")' /\ craft'.mode # "ALT_HOLD" /\ seen.mode # "ALT_HOLD"
         /\ seen.mode = "ALT_HOLD" /\ seen.armed = "no" => craft'.armed = "no"
    BY <2>5, <2>9, <2>10 DEF RollInv
  <2>13. /\ policy.phase \in Late => ~ Has(orders, "ARM")'
         /\ policy.phase \in Late /\ seen.armed = "no" => craft'.armed = "no"
         /\ policy.phase = "COMPLETE" => craft'.armed = "no"
    BY <2>9 DEF RollInv, Late
  <2>14. /\ seen.height = "high" => craft'.flown
         /\ policy.phase \in {"WAIT_ALT_HOLD"} \cup Late => craft'.flown
         /\ policy.saved \/ Has(seen.texts, "saved") => craft'.gains = "saved"
         /\ policy.phase = "COMPLETE" /\ flight = "autotune" => policy.saved
    BY DEF RollInv
  <2>15. Has(seen.texts, "saved")' = Has(seen.texts, "saved")
    BY <2>1 DEF Has
  <2>16. QED
    BY <2>1, <2>6, <2>11, <2>12, <2>13, <2>14, <2>15 DEF RollInv
<1>4. QED
  BY <1>2, <1>3

-----------------------------------------------------------------------------
(* The loop of the descent. *)

Readings == [heartbeat : BOOLEAN, mode : Modes \cup {"none"}, armed : {"yes", "no", "none"},
             landed : {"yes", "no", "none"}, height : Heights \cup {"none"}, sinking : BOOLEAN,
             ack : Commands \cup {"none"}, accepted : BOOLEAN, prearm : BOOLEAN]

LEMMA NoTelemetryReads == NoTelemetry \in Readings
BY DEF NoTelemetry, Readings

\* What a record of MavlinkAdapter says is what the message or an earlier one said.
LEMMA TelemetrySays ==
    ASSUME seen \in Sights, NEW m \in Telegrams
    PROVE  LET s == Kept(seen, m)
               t == Telemetry(s, m)
           IN /\ s \in Sights
              /\ s.armed = IF m.kind = "heartbeat" THEN m.armed ELSE seen.armed
              /\ t \in Readings
              /\ t.ack # "none" => IsAck(m)
              /\ t.armed \in {s.armed, "none"}
              /\ t.height = "high" => SaysHigh(m)
<1> DEFINE s == Kept(seen, m)
           t == Telemetry(s, m)
           known == [NoTelemetry EXCEPT !.mode = s.mode, !.armed = s.armed, !.landed = s.landed]
<1>1. s \in Sights /\ s.armed = IF m.kind = "heartbeat" THEN m.armed ELSE seen.armed
  <2>1. CASE m.kind = "heartbeat"
    <3>1. s = [seen EXCEPT !.mode = m.mode, !.armed = m.armed, !.heartbeat = TRUE]
      BY <2>1 DEF Kept
    <3>2. m.mode \in Modes /\ m.armed \in {"yes", "no"}
      BY <2>1 DEF Telegrams
    <3> HIDE DEF s
    <3>3. QED
      BY <2>1, <3>1, <3>2 DEF Sights
  <2>2. CASE m.kind = "landed"
    <3>1. s = [seen EXCEPT !.landed = m.landed]
      BY <2>2 DEF Kept
    <3>2. m.landed \in {"yes", "no"}
      BY <2>2 DEF Telegrams
    <3> HIDE DEF s
    <3>3. QED
      BY <2>2, <3>1, <3>2 DEF Sights
  <2>3. CASE m.kind \notin {"heartbeat", "landed"}
    <3>1. s = seen
      BY <2>3 DEF Kept
    <3> HIDE DEF s
    <3>2. QED
      BY <2>3, <3>1
  <2>4. QED
    BY <2>1, <2>2, <2>3
<1>2. /\ s.mode \in Modes \cup {"none"} /\ s.armed \in {"yes", "no", "none"}
      /\ s.landed \in {"yes", "no", "none"}
  BY <1>1 DEF Sights
<1> HIDE DEF s
<1>3. known \in Readings /\ known.armed = s.armed /\ known.ack = "none" /\ known.height = "none"
  BY <1>2 DEF NoTelemetry, Readings
<1> HIDE DEF known
<1>4. CASE m.kind = "heartbeat"
  <2>1. t = [known EXCEPT !.heartbeat = TRUE]
    BY <1>4 DEF Telemetry, known
  <2> HIDE DEF t
  <2>2. QED
    BY <1>1, <1>3, <2>1 DEF Readings, s, t
<1>5. CASE m.kind = "landed"
  <2>1. t = known
    BY <1>5 DEF Telemetry, known
  <2> HIDE DEF t
  <2>2. QED
    BY <1>1, <1>3, <2>1 DEF s, t
<1>6. CASE m.kind = "position"
  <2>1. t = [known EXCEPT !.height = m.height, !.sinking = m.sinking]
    BY <1>6 DEF Telemetry, known
  <2>2. m.height \in Heights /\ m.sinking \in BOOLEAN
    BY <1>6 DEF Telegrams
  <2> HIDE DEF t
  <2>3. t \in Readings /\ t.armed = s.armed /\ t.ack = "none" /\ t.height = m.height
    BY <1>3, <2>1, <2>2 DEF Readings
  <2>4. QED
    BY <1>1, <1>6, <2>3 DEF SaysHigh, s, t
<1>7. CASE m.kind = "ack"
  <2>1. t = [NoTelemetry EXCEPT !.ack = m.order, !.accepted = m.accepted]
    BY <1>7 DEF Telemetry
  <2>2. m.order \in Commands /\ m.accepted \in BOOLEAN
    BY <1>7 DEF Telegrams
  <2> HIDE DEF t
  <2>3. t \in Readings /\ t.armed = "none" /\ t.height = "none"
    BY <2>1, <2>2 DEF Readings, NoTelemetry
  <2>4. QED
    BY <1>1, <1>7, <2>3 DEF IsAck, s, t
<1>8. CASE m.kind = "prearm"
  <2>1. t = [NoTelemetry EXCEPT !.prearm = m.healthy]
    BY <1>8 DEF Telemetry
  <2>2. m.healthy \in BOOLEAN
    BY <1>8 DEF Telegrams
  <2> HIDE DEF t
  <2>3. t \in Readings /\ t.armed = "none" /\ t.height = "none" /\ t.ack = "none"
    BY <2>1, <2>2 DEF Readings, NoTelemetry
  <2>4. QED
    BY <1>1, <2>3 DEF s, t
<1>9. CASE m.kind \notin {"heartbeat", "landed", "position", "ack", "prearm"}
  <2>1. t = NoTelemetry
    BY <1>9 DEF Telemetry
  <2> HIDE DEF t
  <2>2. t \in Readings /\ t.armed = "none" /\ t.height = "none" /\ t.ack = "none"
    BY <2>1 DEF Readings, NoTelemetry
  <2>3. QED
    BY <1>1, <2>2 DEF s, t
<1>10. QED
  BY <1>4, <1>5, <1>6, <1>7, <1>8, <1>9

\* The phases of the descent: what is sent when, and what a phase waits for.
Quiet(from, to) ==
    \/ to = from
    \/ to = "FAILED" /\ from # "LANDED"
    \/ from = "WAIT_GUIDED_MODE" /\ to = "WAIT_PREARM_READY"
    \/ from = "DESCENDING" /\ to = "WAIT_DISARM"
Confirmed(from, to) ==
    \/ from = "WAIT_GUIDED_ACK" /\ to = "WAIT_GUIDED_MODE"
    \/ from = "WAIT_ARM_ACK" /\ to = "WAIT_ARMED"
    \/ from = "WAIT_TAKEOFF_ACK" /\ to = "WAIT_ALTITUDE"
    \/ from = "WAIT_LAND_ACK" /\ to = "DESCENDING"
Sends(from, t, order, to) ==
    \/ from = "WAIT_HEARTBEAT" /\ order = "GUIDED" /\ to = "WAIT_GUIDED_ACK"
    \/ from = "WAIT_PREARM_READY" /\ order = "ARM" /\ to = "WAIT_ARM_ACK"
    \/ from = "WAIT_ARMED" /\ order = "TAKEOFF" /\ to = "WAIT_TAKEOFF_ACK" /\ t.armed = "yes"
    \/ from = "WAIT_ALTITUDE" /\ order = "LAND" /\ to = "WAIT_LAND_ACK" /\ t.height = "high"
Transition(from, t, send, to) ==
    \/ send = "none" /\ Quiet(from, to)
    \/ send = "none" /\ t.ack # "none" /\ Confirmed(from, to)
    \/ send = "none" /\ from = "WAIT_DISARM" /\ to = "LANDED" /\ t.armed = "no"
    \/ Sends(from, t, send, to)

LEMMA AdvanceMoves ==
    ASSUME NEW p \in Policies, p.phase \in DescentPhases, NEW t \in Readings
    PROVE  /\ Advance(p, t).p \in Policies /\ Advance(p, t).p.phase \in DescentPhases
           /\ Transition(p.phase, t, Advance(p, t).send, Advance(p, t).p.phase)
<1> DEFINE n == Advance(p, t)
<1>t. /\ DescentPhases \subseteq DescentPhases \cup RollPhases
      /\ \A q \in Policies : q.descended \in BOOLEAN /\ t.sinking \in BOOLEAN
  BY DEF Readings, Policies
<1>a. ASSUME NEW q \in Policies, NEW phase \in DescentPhases, NEW order
      PROVE  /\ To(q, phase).p \in Policies /\ To(q, phase).p.phase = phase /\ To(q, phase).send = "none"
             /\ Command(q, order, phase).p \in Policies /\ Command(q, order, phase).p.phase = phase
             /\ Command(q, order, phase).send = order
  BY <1>t DEF To, Command, Policies
<1>b. \A phase \in {"WAIT_GUIDED_ACK", "WAIT_GUIDED_MODE", "WAIT_PREARM_READY", "WAIT_ARM_ACK",
                    "WAIT_ARMED", "WAIT_TAKEOFF_ACK", "WAIT_ALTITUDE", "WAIT_LAND_ACK",
                    "DESCENDING", "WAIT_DISARM", "LANDED", "FAILED"} : phase \in DescentPhases
  BY DEF DescentPhases
<1>c. ASSUME NEW phase \in DescentPhases, n = To(p, phase), Quiet(p.phase, phase)
      PROVE  /\ n.p \in Policies /\ n.p.phase \in DescentPhases
             /\ Transition(p.phase, t, n.send, n.p.phase)
  BY <1>a, <1>c DEF Transition
<1>d. ASSUME NEW phase \in DescentPhases, NEW order, n = Command(p, order, phase),
             Sends(p.phase, t, order, phase)
      PROVE  /\ n.p \in Policies /\ n.p.phase \in DescentPhases
             /\ Transition(p.phase, t, n.send, n.p.phase)
  BY <1>a, <1>d DEF Transition
<1>1. CASE p.phase \in {"LANDED", "FAILED"}
  <2>1. n = To(p, p.phase)
    BY <1>1 DEF Advance
  <2>2. QED
    BY <1>c, <2>1 DEF Quiet
<1>2. CASE p.phase \notin {"LANDED", "FAILED"} /\ t.ack # "none"
  <2>1. n = Acked(p, t)
    BY <1>2 DEF Advance
  <2>2. CASE n = To(p, "FAILED")
    BY <1>2, <1>b, <1>c, <2>2 DEF Quiet
  <2>3. ASSUME n # To(p, "FAILED")
        PROVE  \E phase \in DescentPhases : n = To(p, phase) /\ Confirmed(p.phase, phase)
    <3>1. p.phase \in DOMAIN Awaited /\ n = To(p, Awaited[p.phase][2])
      BY <2>1, <2>3 DEF Acked
    <3>2. p.phase \in {"WAIT_GUIDED_ACK", "WAIT_ARM_ACK", "WAIT_TAKEOFF_ACK", "WAIT_LAND_ACK"}
      BY <3>1 DEF Awaited
    <3>3. Awaited[p.phase][2] \in DescentPhases /\ Confirmed(p.phase, Awaited[p.phase][2])
      <4>1. CASE p.phase = "WAIT_GUIDED_ACK"
        BY <4>1 DEF Awaited, Confirmed, DescentPhases
      <4>2. CASE p.phase = "WAIT_ARM_ACK"
        BY <4>2 DEF Awaited, Confirmed, DescentPhases
      <4>3. CASE p.phase = "WAIT_TAKEOFF_ACK"
        BY <4>3 DEF Awaited, Confirmed, DescentPhases
      <4>4. CASE p.phase = "WAIT_LAND_ACK"
        BY <4>4 DEF Awaited, Confirmed, DescentPhases
      <4>5. QED
        BY <3>2, <4>1, <4>2, <4>3, <4>4
    <3>4. QED
      BY <3>1, <3>3
  <2> HIDE DEF n
  <2>4. ASSUME NEW phase \in DescentPhases, n = To(p, phase), Confirmed(p.phase, phase)
        PROVE  /\ n.p \in Policies /\ n.p.phase \in DescentPhases
               /\ Transition(p.phase, t, n.send, n.p.phase)
    BY <1>2, <1>a, <2>4 DEF Transition
  <2>5. QED
    BY <2>2, <2>3, <2>4 DEF n
<1>3. CASE p.phase = "WAIT_HEARTBEAT" /\ t.ack = "none"
  <2>1. n = Command(p, "GUIDED", "WAIT_GUIDED_ACK") \/ n = To(p, p.phase)
    BY <1>3 DEF Advance
  <2> HIDE DEF n
  <2>2. QED
    BY <1>3, <1>b, <1>c, <1>d, <2>1 DEF Quiet, Sends, n
<1>4. CASE p.phase = "WAIT_GUIDED_MODE" /\ t.ack = "none"
  <2>1. n = To(p, "WAIT_PREARM_READY") \/ n = To(p, p.phase)
    BY <1>4 DEF Advance
  <2> HIDE DEF n
  <2>2. QED
    BY <1>4, <1>b, <1>c, <2>1 DEF Quiet, n
<1>5. CASE p.phase \notin {"LANDED", "FAILED", "WAIT_HEARTBEAT", "WAIT_GUIDED_MODE"} /\ t.ack = "none"
  <2>1. CASE n = To(p, "FAILED")
    BY <1>5, <1>b, <1>c, <2>1 DEF Quiet
  <2>2. CASE n = To(p, p.phase)
    BY <1>c, <2>2 DEF Quiet
  <2>3. CASE n # To(p, "FAILED")
    <3>1. CASE p.phase = "WAIT_PREARM_READY"
      <4>1. n = Command(p, "ARM", "WAIT_ARM_ACK") \/ n = To(p, p.phase)
        BY <1>5, <2>3, <3>1 DEF Advance
      <4> HIDE DEF n
      <4>2. QED
        BY <1>b, <1>c, <1>d, <3>1, <4>1 DEF Quiet, Sends, n
    <3>2. CASE p.phase = "WAIT_ARMED"
      <4>1. \/ n = Command(p, "TAKEOFF", "WAIT_TAKEOFF_ACK") /\ t.armed = "yes"
            \/ n = To(p, p.phase)
        BY <1>5, <2>3, <3>2 DEF Advance
      <4> HIDE DEF n
      <4>2. QED
        BY <1>b, <1>c, <1>d, <3>2, <4>1 DEF Quiet, Sends, n
    <3>3. CASE p.phase = "WAIT_ALTITUDE"
      <4>1. \/ n = Command(p, "LAND", "WAIT_LAND_ACK") /\ t.height = "high"
            \/ n = To(p, p.phase)
        BY <1>5, <2>3, <3>3 DEF Advance
      <4> HIDE DEF n
      <4>2. QED
        BY <1>b, <1>c, <1>d, <3>3, <4>1 DEF Quiet, Sends, n
    <3>4. CASE p.phase = "DESCENDING"
      <4> DEFINE down == p.descended \/ t.sinking \/ t.height \in {"ground", "low"}
                 q == [p EXCEPT !.descended = down]
      <4>1. n = Descend(p, t)
        BY <1>5, <2>3, <3>4 DEF Advance
      <4>2. n = To(q, "DESCENDING") \/ n = To(q, "WAIT_DISARM") \/ n = To(q, "FAILED")
        BY <4>1 DEF Descend
      <4>3. q \in Policies
        <5>1. down \in BOOLEAN
          BY <1>t
        <5> HIDE DEF down
        <5>2. QED
          BY <5>1 DEF Policies
      <4> HIDE DEF n, q
      <4>4. \E phase \in {"DESCENDING", "WAIT_DISARM", "FAILED"} :
              n.p \in Policies /\ n.p.phase = phase /\ n.send = "none"
        BY <1>a, <1>b, <4>2, <4>3
      <4>5. n.p.phase \in DescentPhases
        BY <1>b, <4>4
      <4>6. Quiet("DESCENDING", n.p.phase)
        BY <4>4 DEF Quiet
      <4>7. QED
        BY <3>4, <4>4, <4>5, <4>6 DEF Transition, n
    <3>5. CASE p.phase = "WAIT_DISARM"
      <4>1. n = AwaitDisarm(p, t)
        BY <1>5, <2>3, <3>5 DEF Advance
      <4>2. \/ n = To(p, "FAILED") \/ n = To(p, p.phase)
            \/ n = To(p, "LANDED") /\ t.armed = "no"
        BY <4>1 DEF AwaitDisarm
      <4> HIDE DEF n
      <4>3. n = To(p, "LANDED") =>
              n.p \in Policies /\ n.p.phase = "LANDED" /\ n.send = "none" /\ n.p.phase \in DescentPhases
        BY <1>a, <1>b
      <4>4. QED
        BY <2>1, <2>2, <3>5, <4>2, <4>3 DEF Transition, n
    <3>6. CASE p.phase \in {"WAIT_GUIDED_ACK", "WAIT_ARM_ACK", "WAIT_TAKEOFF_ACK", "WAIT_LAND_ACK"}
      <4>1. n = To(p, p.phase)
        BY <1>5, <2>3, <3>6 DEF Advance
      <4>2. QED
        BY <2>2, <4>1
    <3>7. QED
      BY <1>5, <3>1, <3>2, <3>3, <3>4, <3>5, <3>6 DEF DescentPhases
  <2>4. QED
    BY <2>1, <2>3
<1>6. QED
  BY <1>1, <1>2, <1>3, <1>4, <1>5

\* What consume does to the state: a transition, or a command that fails on its way.
LEMMA ConsumeMoves ==
    ASSUME LoopTypes, LinkTypes, flight = "descent", NEW t \in Readings, NEW stamp,
           Consume(policy, t, stamp)
    PROVE  /\ policy' \in Policies /\ policy'.phase \in DescentPhases
           /\ broken' \in BOOLEAN /\ directMishaps' \in 0 .. MaxDirectMishaps
           /\ directFacts' \in {directFacts, directFacts \cup {"delivered"}}
           /\ \E send \in Commands \cup {"none"}, to \in DescentPhases :
                /\ Transition(policy.phase, t, send, to)
                /\ \/ /\ broken' = broken /\ policy'.phase = to
                      /\ orders' = IF send = "none" THEN orders ELSE Append(orders, send)
                   \/ /\ broken' /\ policy'.phase = policy.phase /\ send # "none"
                      /\ orders' \in {orders, Append(orders, send)}
<1> DEFINE p == Latched(policy, t)
           next == Advance(p, t)
<1>1. p \in Policies /\ p.phase = policy.phase /\ policy.phase \in DescentPhases
  <2>1. policy \in Policies /\ policy.phase \in DescentPhases
    BY DEF LoopTypes
  <2> DEFINE h == policy.heartbeat \/ t.heartbeat
             r == policy.prearm \/ t.prearm
  <2>2. h \in BOOLEAN /\ r \in BOOLEAN
    BY <2>1 DEF Policies, Readings
  <2>3. p = [policy EXCEPT !.heartbeat = h, !.prearm = r]
    BY DEF Latched
  <2> HIDE DEF h, r, p
  <2>4. QED
    BY <2>1, <2>2, <2>3 DEF Policies
<1>2. \/ /\ policy' = next.p
         /\ orders' = (IF next.send = "none" THEN orders ELSE Append(orders, next.send))
         /\ directFacts' = directFacts \cup
              (IF next.send = "GUIDED" /\ stamp \in FirstWindow THEN {"delivered"} ELSE {})
         /\ UNCHANGED <<broken, directMishaps>>
      \/ /\ next.send # "none" /\ DirectMishap /\ broken' = TRUE
         /\ orders' \in {orders, Append(orders, next.send)}
         /\ policy' = p /\ UNCHANGED directFacts
  BY DEF Consume
<1> HIDE DEF p
<1>3. /\ next.p \in Policies /\ next.p.phase \in DescentPhases
      /\ Transition(policy.phase, t, next.send, next.p.phase)
  BY <1>1, AdvanceMoves
<1>4. next.send \in Commands \cup {"none"}
  BY <1>3 DEF Transition, Sends, Commands, Modes
<1>5. broken \in BOOLEAN /\ directMishaps \in 0 .. MaxDirectMishaps
  BY DEF LoopTypes
<1>6. DirectMishap => directMishaps' \in 0 .. MaxDirectMishaps
  BY <1>5, DirectAssumption DEF DirectMishap
<1> HIDE DEF next
<1>7. CASE /\ policy' = next.p
           /\ orders' = (IF next.send = "none" THEN orders ELSE Append(orders, next.send))
           /\ directFacts' = directFacts \cup
                (IF next.send = "GUIDED" /\ stamp \in FirstWindow THEN {"delivered"} ELSE {})
           /\ UNCHANGED <<broken, directMishaps>>
  <2>1. directFacts' \in {directFacts, directFacts \cup {"delivered"}}
    BY <1>7
  <2>2. policy'.phase = next.p.phase
    BY <1>7
  <2>3. QED
    BY <1>3, <1>4, <1>5, <1>7, <2>1, <2>2
<1>8. CASE /\ next.send # "none" /\ DirectMishap /\ broken' = TRUE
           /\ orders' \in {orders, Append(orders, next.send)}
           /\ policy' = p /\ UNCHANGED directFacts
  BY <1>1, <1>3, <1>4, <1>6, <1>8
<1>9. QED
  BY <1>2, <1>7, <1>8

\* A transition keeps what the descent counts on, if what it reads was said before.
LEMMA TransitionKeeps ==
    ASSUME LinkTypes, flight = "descent", OpenInv, ArmInv, HighInv, ~ broken,
           NEW t \in Readings, UNCHANGED craft,
           NEW send \in Commands \cup {"none"}, NEW to \in DescentPhases,
           Transition(policy.phase, t, send, to),
           \/ /\ broken' = broken /\ policy'.phase = to
              /\ orders' = IF send = "none" THEN orders ELSE Append(orders, send)
           \/ /\ broken' /\ policy'.phase = policy.phase /\ send # "none"
              /\ orders' \in {orders, Append(orders, send)},
           t.ack # "none" => orders = <<>> /\ NoAck',
           t.armed = "yes" => seen'.armed = "yes", t.armed = "no" => seen'.armed = "no",
           t.height = "high" => craft.flown,
           NoAck => NoAck', NoYes => NoYes',
           \A i, j \in 1 .. Len(wire') : IsAck(wire'[i]) /\ IsAck(wire'[j]) => i = j,
           orders # <<>> => NoAck',
           \A i \in 1 .. Len(wire') :
             Beats(wire'[i], "no") /\ (seen'.armed = "yes" \/ \E j \in 1 .. i : Beats(wire'[j], "yes"))
               => craft.armed = "no",
           seen.armed # "none" => seen'.armed # "none",
           policy.phase \in AfterArmed /\ seen'.armed = "no" => craft.armed = "no",
           \A i \in 1 .. Len(wire') : SaysHigh(wire'[i]) => craft.flown
    PROVE  OpenInv' /\ ArmInv' /\ HighInv'
<1> DEFINE from == policy.phase
           after == policy'.phase
<1>0. orders \in Seq(Commands)
  BY DEF LinkTypes
<1>1. ASSUME send # "none"
      PROVE  /\ orders = <<>> /\ NoAck' /\ Sends(from, t, send, to)
             /\ \/ orders' = <<>>
                \/ /\ Len(orders') = 1 /\ orders'[1] = send
             /\ Has(orders, "ARM")' => send = "ARM"
  <2>1. Sends(from, t, send, to)
    BY <1>1 DEF Transition
  <2>2. from \notin AckPhases \cup {"FAILED"}
    BY <2>1 DEF Sends, AckPhases
  <2>3. orders = <<>> /\ NoAck'
    BY <2>2 DEF OpenInv
  <2>4. Len(Append(<<>>, send)) = 1 /\ Append(<<>>, send)[1] = send
    BY AppendProperties
  <2>5. orders' = <<>> \/ (Len(orders') = 1 /\ orders'[1] = send)
    BY <1>1, <2>3, <2>4
  <2>6. Has(orders, "ARM")' => send = "ARM"
    BY <2>5 DEF Has
  <2>7. QED
    BY <2>1, <2>3, <2>5, <2>6
<1>2. OpenInv'
  <2>1. CASE send # "none"
    <3>1. Len(orders') <= 1
      <4>1. orders' = <<>> => Len(orders') = 0
        OBVIOUS
      <4>2. orders' = <<>> \/ Len(orders') = 1
        BY <1>1, <2>1
      <4> DEFINE n == Len(orders')
      <4>3. n = 0 \/ n = 1
        BY <4>1, <4>2
      <4> HIDE DEF n
      <4>4. n <= 1
        BY <4>3
      <4>5. QED
        BY <4>4 DEF n
    <3>2. ~ broken' => after \in AckPhases
      BY <1>1, <2>1 DEF Sends, AckPhases
    <3>3. QED
      BY <1>1, <2>1, <3>1, <3>2 DEF OpenInv
  <2>2. CASE send = "none"
    <3>1. orders' = orders /\ broken' = broken /\ after = to
      BY <2>2
    <3>2. CASE Confirmed(from, to) /\ t.ack # "none"
      BY <3>1, <3>2 DEF OpenInv
    <3>3. CASE \/ Quiet(from, to)
               \/ to = "LANDED" /\ from = "WAIT_DISARM"
      <4>1. to \notin AckPhases \cup {"FAILED"} => from \notin AckPhases \cup {"FAILED"}
        BY <3>3 DEF Quiet, AckPhases
      <4>2. QED
        BY <3>1, <4>1 DEF OpenInv
    <3>4. QED
      BY <2>2, <3>2, <3>3 DEF Transition, Sends
  <2>3. QED
    BY <2>1, <2>2
<1>3. /\ Has(orders, "ARM")' => craft.armed = "no" /\ NoYes'
      /\ ~ broken' /\ after \in BeforeArming => craft.armed = "no" /\ NoYes' /\ ~ Has(orders, "ARM")'
      /\ after \in {"WAIT_ARMED"} \cup AfterArmed => ~ Has(orders, "ARM")'
  <2>1. CASE send # "none"
    <3>1. send = "ARM" => from \in BeforeArming /\ craft.armed = "no" /\ NoYes'
      BY <1>1, <2>1 DEF Sends, ArmInv, BeforeArming
    <3>2. after \in {"WAIT_ARMED"} \cup AfterArmed => send # "ARM"
      BY <1>1, <2>1 DEF Sends, AfterArmed, AfterHigh
    <3>3. ~ broken' /\ after \in BeforeArming => send = "GUIDED" /\ from \in BeforeArming
      BY <1>1, <2>1 DEF Sends, BeforeArming
    <3>4. from \in BeforeArming => craft.armed = "no" /\ NoYes'
      BY DEF ArmInv
    <3>5. QED
      BY <1>1, <2>1, <3>1, <3>2, <3>3, <3>4
  <2>2. CASE send = "none"
    <3>1. orders' = orders /\ broken' = broken /\ after = to
      BY <2>2
    <3>2. Has(orders, "ARM")' <=> Has(orders, "ARM")
      BY <3>1 DEF Has
    <3>3. CASE Confirmed(from, to) /\ t.ack # "none"
      <4>1. ~ Has(orders, "ARM")
        BY <3>3 DEF Has
      <4>2. to \in BeforeArming => from \in BeforeArming
        BY <3>3 DEF Confirmed, BeforeArming
      <4>3. QED
        BY <3>1, <3>2, <4>1, <4>2 DEF ArmInv
    <3>4. CASE \/ Quiet(from, to)
               \/ to = "LANDED" /\ from = "WAIT_DISARM"
      <4>1. /\ to \in BeforeArming => from \in BeforeArming
            /\ to \in {"WAIT_ARMED"} \cup AfterArmed => from \in {"WAIT_ARMED"} \cup AfterArmed
        BY <3>4 DEF Quiet, BeforeArming, AfterArmed, AfterHigh
      <4>2. QED
        BY <3>1, <3>2, <4>1 DEF ArmInv
    <3>5. QED
      BY <2>2, <3>3, <3>4 DEF Transition, Sends
  <2>3. QED
    BY <2>1, <2>2
<1>4. /\ after \in AfterArmed => seen'.armed # "none"
      /\ after \in AfterArmed /\ seen'.armed = "no" => craft.armed = "no"
      /\ after = "LANDED" => craft.armed = "no"
  <2>1. CASE after \in AfterArmed /\ from \notin AfterArmed
    <3>1. t.armed = "yes" /\ after = "WAIT_TAKEOFF_ACK"
      <4>1. after = to
        BY <2>1
      <4>2. QED
        BY <2>1, <4>1 DEF Transition, Quiet, Confirmed, Sends, AfterArmed, AfterHigh
    <3>2. QED
      BY <3>1
  <2>2. CASE after \in AfterArmed /\ from \in AfterArmed
    <3>1. after = "LANDED" => from = "LANDED" \/ t.armed = "no"
      BY DEF Transition, Quiet, Confirmed, Sends
    <3>2. seen'.armed # "none" /\ (seen'.armed = "no" => craft.armed = "no")
      BY <2>2 DEF ArmInv
    <3>3. QED
      BY <3>1, <3>2 DEF ArmInv
  <2>3. CASE after \notin AfterArmed
    BY <2>3 DEF AfterArmed, AfterHigh
  <2>4. QED
    BY <2>1, <2>2, <2>3
<1>5. ArmInv'
  BY <1>3, <1>4 DEF ArmInv
<1>6. HighInv'
  <2>1. after \in AfterHigh => from \in AfterHigh \/ t.height = "high"
    BY DEF Transition, Quiet, Confirmed, Sends, AfterHigh
  <2>2. QED
    BY <2>1 DEF HighInv
<1>7. QED
  BY <1>2, <1>5, <1>6

\* What is left of the stream after its first message is read.
LEMMA StreamPasses ==
    ASSUME LinkTypes, OpenInv, ArmInv, HighInv, wire # <<>>,
           seen' = Kept(seen, Head(wire)), wire' = Tail(wire)
    PROVE  /\ seen' \in Sights /\ wire' \in Seq(Telegrams) /\ Head(wire) \in Telegrams
           /\ IsAck(Head(wire)) => orders = <<>> /\ NoAck'
           /\ SaysHigh(Head(wire)) => craft.flown
           /\ NoAck => NoAck'
           /\ NoYes => NoYes'
           /\ \A i, j \in 1 .. Len(wire') : IsAck(wire'[i]) /\ IsAck(wire'[j]) => i = j
           /\ orders # <<>> => NoAck'
           /\ \A i \in 1 .. Len(wire') :
                Beats(wire'[i], "no") /\ (seen'.armed = "yes" \/ \E j \in 1 .. i : Beats(wire'[j], "yes"))
                  => craft.armed = "no"
           /\ seen.armed # "none" => seen'.armed # "none"
           /\ policy.phase \in AfterArmed /\ seen'.armed = "no" => craft.armed = "no"
           /\ \A i \in 1 .. Len(wire') : SaysHigh(wire'[i]) => craft.flown
<1> DEFINE m == Head(wire)
<1>1. /\ Len(wire) \in Nat /\ Len(wire) > 0 /\ m = wire[1] /\ m \in Telegrams
      /\ Len(wire') = Len(wire) - 1 /\ wire' \in Seq(Telegrams)
      /\ \A i \in 1 .. Len(wire') : wire'[i] = wire[i + 1]
  BY HeadTailProperties, EmptySeq DEF LinkTypes
<1>2. \A i \in 1 .. Len(wire') : i + 1 \in 1 .. Len(wire)
  BY <1>1
<1>3. 1 \in 1 .. Len(wire)
  BY <1>1
<1>4. /\ seen' \in Sights
      /\ seen'.armed = IF m.kind = "heartbeat" THEN m.armed ELSE seen.armed
  BY <1>1, TelemetrySays DEF LinkTypes
<1>5. m.kind = "heartbeat" => m.armed \in {"yes", "no"}
  BY <1>1 DEF Telegrams
<1> HIDE DEF m
<1>6. IsAck(m) => orders = <<>> /\ NoAck'
  <2>1. SUFFICES ASSUME IsAck(m) PROVE orders = <<>> /\ NoAck'
    OBVIOUS
  <2>2. orders = <<>>
    BY <1>1, <1>3, <2>1 DEF OpenInv, NoAck
  <2>3. ASSUME NEW i \in 1 .. Len(wire'), IsAck(wire'[i]) PROVE FALSE
    <3>1. i + 1 = 1
      BY <1>1, <1>2, <1>3, <2>1, <2>3 DEF OpenInv
    <3>2. QED
      BY <1>1, <3>1
  <2>4. QED
    BY <2>2, <2>3 DEF NoAck
<1>7. NoAck => NoAck'
  BY <1>1, <1>2 DEF NoAck
<1>8. NoYes => NoYes'
  BY <1>1, <1>2, <1>3, <1>4 DEF NoYes, Beats
<1>9. ASSUME NEW i \in 1 .. Len(wire'), NEW j \in 1 .. Len(wire'), IsAck(wire'[i]), IsAck(wire'[j])
      PROVE  i = j
  <2>1. i + 1 = j + 1
    BY <1>1, <1>2, <1>9 DEF OpenInv
  <2>2. QED
    BY <1>1, <2>1
<1>10. orders # <<>> => NoAck'
  BY <1>7 DEF OpenInv
<1>11. ASSUME NEW i \in 1 .. Len(wire'), Beats(wire'[i], "no"),
              seen'.armed = "yes" \/ \E j \in 1 .. i : Beats(wire'[j], "yes")
       PROVE  craft.armed = "no"
  <2>1. Beats(wire[i + 1], "no") /\ i + 1 \in 1 .. Len(wire)
    BY <1>1, <1>2, <1>11
  <2>2. CASE seen'.armed = "yes"
    <3>1. CASE m.kind = "heartbeat"
      <4>1. Beats(wire[1], "yes") /\ 1 \in 1 .. i + 1
        BY <1>1, <1>4, <2>2, <3>1 DEF Beats
      <4>2. QED
        BY <2>1, <4>1 DEF ArmInv
    <3>2. CASE m.kind # "heartbeat"
      BY <1>4, <2>1, <2>2, <3>2 DEF ArmInv
    <3>3. QED
      BY <3>1, <3>2
  <2>3. ASSUME NEW j \in 1 .. i, Beats(wire'[j], "yes") PROVE craft.armed = "no"
    <3>1. j \in 1 .. Len(wire') /\ j + 1 \in 1 .. i + 1
      BY <1>1, <2>3
    <3>2. Beats(wire[j + 1], "yes")
      BY <1>1, <2>3, <3>1
    <3>3. QED
      BY <2>1, <3>1, <3>2 DEF ArmInv
  <2>4. QED
    BY <1>11, <2>2, <2>3
<1>12. seen.armed # "none" => seen'.armed # "none"
  BY <1>4, <1>5
<1>13. ASSUME policy.phase \in AfterArmed, seen'.armed = "no" PROVE craft.armed = "no"
  <2>1. seen.armed \in {"yes", "no"}
    BY <1>13 DEF ArmInv, LinkTypes, Sights
  <2>2. CASE seen.armed = "no"
    BY <1>13, <2>2 DEF ArmInv
  <2>3. CASE seen.armed = "yes"
    <3>1. Beats(wire[1], "no")
      BY <1>1, <1>4, <1>13, <2>3 DEF Beats
    <3>2. QED
      BY <1>3, <2>3, <3>1 DEF ArmInv
  <2>4. QED
    BY <2>1, <2>2, <2>3
<1>14. /\ \A i \in 1 .. Len(wire') : SaysHigh(wire'[i]) => craft.flown
       /\ SaysHigh(m) => craft.flown
  BY <1>1, <1>2, <1>3 DEF HighInv
<1>15. QED
  BY <1>1, <1>4, <1>6, <1>7, <1>8, <1>9, <1>10, <1>11, <1>12, <1>13, <1>14 DEF m

-----------------------------------------------------------------------------
(* The loop of the roll missions. *)

Actions == [throttle : {"same", "hold", "down"}, order : Commands \cup {"none"}, snapshot : BOOLEAN]

\* The phases of a roll mission: what is ordered when, and what was seen by then.
RollStep(from, o, order, to, saved) ==
    \/ order = "none" /\ to = from
    \/ order = "none" /\ to = "FAILED" /\ from # "COMPLETE"
    \/ from = "WAIT_READY" /\ order = "GUIDED" /\ to = "WAIT_GUIDED"
    \/ from = "WAIT_GUIDED" /\ order = "ARM" /\ to = "WAIT_ARMED"
    \/ from = "WAIT_ARMED" /\ order = "TAKEOFF" /\ to = "WAIT_ALTITUDE"
    \/ from = "WAIT_ALTITUDE" /\ order = "ALT_HOLD" /\ to = "WAIT_ALT_HOLD" /\ o.height = "high"
    \/ from = "WAIT_ALT_HOLD" /\ order = "AUTOTUNE" /\ to = "WAIT_AUTOTUNE" /\ o.mode = "ALT_HOLD"
    \/ from = "WAIT_ALT_HOLD" /\ order = "none" /\ to = "HOVERING" /\ o.mode = "ALT_HOLD"
    \/ from \in Late /\ order \in {"none", "LAND"} /\ to \in Late \ {"COMPLETE"}
    \/ /\ from \in Late /\ order = "none" /\ to = "COMPLETE" /\ o.armed = "no"
       /\ flight = "autotune" => saved

LEMMA ActionTypes ==
    /\ Nothing \in Actions /\ Nothing.order = "none" /\ Nothing.throttle = "same"
    /\ \A order \in Commands : Ordering(order) \in Actions /\ Ordering(order).order = order
    /\ \A throttle \in {"hold", "down"} :
         Override(throttle) \in Actions /\ Override(throttle).order = "none"
    /\ [Override("hold") EXCEPT !.order = "ALT_HOLD"] \in Actions
    /\ [Override("hold") EXCEPT !.order = "ALT_HOLD"].order = "ALT_HOLD"
    /\ [Nothing EXCEPT !.snapshot = TRUE] \in Actions
    /\ [Nothing EXCEPT !.snapshot = TRUE].order = "none"
    /\ \A phase : Refresh(phase) \in Actions /\ Refresh(phase).order \in {"none", "ARM"}
    /\ \A phase : Refresh(phase).order = "ARM" => phase = "WAIT_ARMED"
    /\ Refresh("COMPLETE") = Nothing
<1>1. /\ Nothing \in Actions /\ Nothing.order = "none" /\ Nothing.throttle = "same"
      /\ \A order \in Commands : Ordering(order) \in Actions /\ Ordering(order).order = order
      /\ \A throttle \in {"hold", "down"} :
           Override(throttle) \in Actions /\ Override(throttle).order = "none"
  BY DEF Nothing, Ordering, Override, Actions
<1>2. "ARM" \in Commands /\ "ALT_HOLD" \in Commands
  BY DEF Commands, Modes
<1>3. /\ [Override("hold") EXCEPT !.order = "ALT_HOLD"] \in Actions
      /\ [Override("hold") EXCEPT !.order = "ALT_HOLD"].order = "ALT_HOLD"
      /\ [Nothing EXCEPT !.snapshot = TRUE] \in Actions
      /\ [Nothing EXCEPT !.snapshot = TRUE].order = "none"
  BY <1>2 DEF Nothing, Override, Actions
<1>4. ASSUME NEW phase
      PROVE  /\ Refresh(phase) \in Actions /\ Refresh(phase).order \in {"none", "ARM"}
             /\ Refresh(phase).order = "ARM" => phase = "WAIT_ARMED"
  <2>1. CASE phase = "WAIT_ARMED"
    <3>1. Refresh(phase) = Ordering("ARM")
      BY <2>1 DEF Refresh
    <3>2. QED
      BY <1>1, <1>2, <2>1, <3>1
  <2>2. CASE phase # "WAIT_ARMED"
    <3>1. Refresh(phase) \in {Override("hold"), Override("down"), Nothing}
      BY <2>2 DEF Refresh
    <3>2. QED
      BY <1>1, <3>1
  <2>3. QED
    BY <2>1, <2>2
<1>5. Refresh("COMPLETE") = Nothing
  BY DEF Refresh
<1>6. QED
  BY <1>1, <1>3, <1>4, <1>5

\* What the mission decides on what it sees.
LEMMA RollMoves ==
    ASSUME NEW p \in Policies, p.phase \in RollPhases, flight \in {"autotune", "hover"},
           NEW o, o.stamp \in 0 .. LastDirectStamp
    PROVE  /\ RollAdvance(p, o).p \in Policies /\ RollAdvance(p, o).p.phase \in RollPhases
           /\ RollAdvance(p, o).action \in Actions
           /\ p.saved => RollAdvance(p, o).p.saved
           /\ RollAdvance(p, o).p.saved => p.saved \/ o.text = "saved"
           /\ RollStep(p.phase, o, RollAdvance(p, o).action.order, RollAdvance(p, o).p.phase,
                       RollAdvance(p, o).p.saved)
           /\ p.phase = "COMPLETE" => RollAdvance(p, o).action = Nothing /\ RollAdvance(p, o).p.phase = "COMPLETE"
<1> DEFINE n == RollAdvance(p, o)
           Good == /\ n.p \in Policies /\ n.p.phase \in RollPhases /\ n.action \in Actions
                   /\ p.saved => n.p.saved
                   /\ n.p.saved => p.saved \/ o.text = "saved"
                   /\ RollStep(p.phase, o, n.action.order, n.p.phase, n.p.saved)
                   /\ p.phase = "COMPLETE" => n.action = Nothing /\ n.p.phase = "COMPLETE"
<1>a. ASSUME NEW q \in Policies, NEW phase \in RollPhases, NEW action
      PROVE  /\ Then(q, phase, action).p \in Policies /\ Then(q, phase, action).p.phase = phase
             /\ Then(q, phase, action).action = action /\ Then(q, phase, action).p.saved = q.saved
  BY DEF Then, Policies
<1>b. \A phase \in {"WAIT_READY", "WAIT_GUIDED", "WAIT_ARMED", "WAIT_ALTITUDE", "WAIT_ALT_HOLD",
                    "WAIT_AUTOTUNE", "TUNING", "LANDING_TO_SAVE", "HOVERING", "WAIT_LAND",
                    "COMPLETE", "FAILED"} : phase \in RollPhases
  BY DEF RollPhases
<1>c. ASSUME NEW q \in Policies, NEW phase \in RollPhases, NEW action \in Actions,
             n = Then(q, phase, action), p.saved => q.saved, q.saved => p.saved \/ o.text = "saved",
             RollStep(p.phase, o, action.order, phase, q.saved), p.phase # "COMPLETE"
      PROVE  Good
  <2>1. /\ n.p \in Policies /\ n.p.phase = phase /\ n.action = action /\ n.p.saved = q.saved
    BY <1>a, <1>c
  <2> HIDE DEF n
  <2>2. QED
    BY <1>c, <2>1
<1>d. CASE p.phase \in {"COMPLETE", "FAILED"}
  <2>1. n = Then(p, p.phase, Nothing)
    BY <1>d DEF RollAdvance
  <2>2. RollStep(p.phase, o, Nothing.order, p.phase, p.saved) /\ Nothing \in Actions
    BY ActionTypes DEF RollStep
  <2>3. /\ n.p \in Policies /\ n.p.phase = p.phase /\ n.action = Nothing /\ n.p.saved = p.saved
    BY <1>a, <2>1
  <2> HIDE DEF n
  <2>4. Good
    BY <2>2, <2>3
  <2>5. QED
    BY <2>4 DEF n
<1>e. CASE p.phase \notin {"COMPLETE", "FAILED"} /\ n = Takeoff(p, o)
  <2>1. CASE p.phase = "WAIT_READY"
    <3>1. n = Then(p, "WAIT_GUIDED", Ordering("GUIDED")) \/ n = Then(p, p.phase, Nothing)
      BY <1>e, <2>1 DEF Takeoff
    <3>2. "GUIDED" \in Commands
      BY DEF Commands, Modes
    <3> HIDE DEF n, Good
    <3>3. Good
      BY <1>b, <1>c, <2>1, <3>1, <3>2, ActionTypes DEF RollStep
    <3>4. QED
      BY <3>3 DEF Good, n
  <2>2. CASE p.phase = "WAIT_GUIDED"
    <3>1. n = Then(p, "WAIT_ARMED", Ordering("ARM")) \/ n = Then(p, p.phase, Nothing)
      BY <1>e, <2>2 DEF Takeoff
    <3>2. "ARM" \in Commands
      BY DEF Commands, Modes
    <3> HIDE DEF n, Good
    <3>3. Good
      BY <1>b, <1>c, <2>2, <3>1, <3>2, ActionTypes DEF RollStep
    <3>4. QED
      BY <3>3 DEF Good, n
  <2>3. CASE p.phase = "WAIT_ARMED"
    <3>1. n = Then(p, "WAIT_ALTITUDE", Ordering("TAKEOFF")) \/ n = Then(p, p.phase, Nothing)
      BY <1>e, <2>3 DEF Takeoff
    <3>2. "TAKEOFF" \in Commands
      BY DEF Commands, Modes
    <3> HIDE DEF n, Good
    <3>3. Good
      BY <1>b, <1>c, <2>3, <3>1, <3>2, ActionTypes DEF RollStep
    <3>4. QED
      BY <3>3 DEF Good, n
  <2>4. CASE p.phase = "WAIT_ALTITUDE"
    <3> DEFINE hold == [Override("hold") EXCEPT !.order = "ALT_HOLD"]
    <3>1. \/ n = Then(p, "WAIT_ALT_HOLD", hold) /\ o.height = "high"
          \/ n = Then(p, p.phase, Nothing)
      BY <1>e, <2>4 DEF Takeoff
    <3>2. hold \in Actions /\ hold.order = "ALT_HOLD"
      BY ActionTypes
    <3> HIDE DEF n, Good, hold
    <3>3. Good
      BY <1>b, <1>c, <2>4, <3>1, <3>2, ActionTypes DEF RollStep
    <3>4. QED
      BY <3>3 DEF Good, n
  <2>5. CASE p.phase \notin {"WAIT_READY", "WAIT_GUIDED", "WAIT_ARMED", "WAIT_ALTITUDE"}
    <3>1. n = Then(p, p.phase, Nothing)
      BY <1>e, <2>5 DEF Takeoff
    <3> HIDE DEF n, Good
    <3>2. Good
      BY <1>c, <1>e, <3>1, ActionTypes DEF RollStep
    <3>3. QED
      BY <3>2 DEF Good, n
  <2>6. QED
    BY <2>1, <2>2, <2>3, <2>4, <2>5
<1>f. CASE p.phase \notin {"COMPLETE", "FAILED"} /\ n # Takeoff(p, o) /\ flight = "autotune"
  <2> DEFINE saved == p.saved \/ o.text = "saved"
             kept == [p EXCEPT !.saved = saved]
             done == [p EXCEPT !.saved = TRUE]
             snapshot == [Nothing EXCEPT !.snapshot = TRUE]
  <2>1. n = AutoTune(p, o)
    BY <1>f DEF RollAdvance
  <2>2. \/ n = Then(p, "FAILED", Nothing)
        \/ /\ n = Then(p, "WAIT_AUTOTUNE", Ordering("AUTOTUNE")) /\ p.phase = "WAIT_ALT_HOLD"
           /\ o.mode = "ALT_HOLD"
        \/ n = Then(p, "TUNING", Nothing) /\ p.phase = "WAIT_AUTOTUNE"
        \/ n = Then(p, "LANDING_TO_SAVE", Override("down")) /\ p.phase = "TUNING"
        \/ n = Then(done, "COMPLETE", snapshot) /\ p.phase = "LANDING_TO_SAVE" /\ saved /\ RollLanded(o)
        \/ n = Then(kept, p.phase, Nothing) /\ p.phase = "LANDING_TO_SAVE"
    BY <1>f, <2>1 DEF AutoTune
  <2>3. done \in Policies /\ done.saved = TRUE /\ done.phase = p.phase
    BY DEF Policies
  <2>4. kept \in Policies /\ kept.saved = saved /\ kept.phase = p.phase
    <3>1. saved \in BOOLEAN
      BY DEF Policies
    <3> HIDE DEF saved
    <3>2. QED
      BY <3>1 DEF Policies
  <2>5. snapshot \in Actions /\ snapshot.order = "none" /\ "AUTOTUNE" \in Commands
    BY ActionTypes DEF Commands, Modes
  <2> HIDE DEF n, Good, done, kept, snapshot
  <2>6. CASE n = Then(p, "FAILED", Nothing)
    BY <1>b, <1>c, <1>f, <2>6, ActionTypes DEF RollStep, Good, n
  <2>7. CASE /\ n = Then(p, "WAIT_AUTOTUNE", Ordering("AUTOTUNE")) /\ p.phase = "WAIT_ALT_HOLD"
             /\ o.mode = "ALT_HOLD"
    BY <1>b, <1>c, <2>5, <2>7, ActionTypes DEF RollStep, Good, n
  <2>8. CASE n = Then(p, "TUNING", Nothing) /\ p.phase = "WAIT_AUTOTUNE"
    BY <1>b, <1>c, <2>8, ActionTypes DEF RollStep, Late, Good, n
  <2>9. CASE n = Then(p, "LANDING_TO_SAVE", Override("down")) /\ p.phase = "TUNING"
    BY <1>b, <1>c, <2>9, ActionTypes DEF RollStep, Late, Good, n
  <2>10. CASE n = Then(done, "COMPLETE", snapshot) /\ p.phase = "LANDING_TO_SAVE" /\ saved /\ RollLanded(o)
    <3>1. RollStep(p.phase, o, snapshot.order, "COMPLETE", done.saved)
      BY <2>3, <2>5, <2>10 DEF RollStep, RollLanded, Late
    <3>2. Good
      BY <1>b, <1>c, <2>3, <2>5, <2>10, <3>1
    <3>3. QED
      BY <3>2 DEF Good, n
  <2>11. CASE n = Then(kept, p.phase, Nothing) /\ p.phase = "LANDING_TO_SAVE"
    <3>1. RollStep(p.phase, o, Nothing.order, p.phase, kept.saved)
      BY ActionTypes DEF RollStep
    <3>2. Good
      BY <1>b, <1>c, <2>4, <2>11, <3>1, ActionTypes
    <3>3. QED
      BY <3>2 DEF Good, n
  <2>12. QED
    BY <2>2, <2>6, <2>7, <2>8, <2>9, <2>10, <2>11
<1>g. CASE p.phase \notin {"COMPLETE", "FAILED"} /\ n # Takeoff(p, o) /\ flight = "hover"
  <2> DEFINE since == [p EXCEPT !.since = o.stamp]
  <2>1. n = Hover(p, o)
    BY <1>g DEF RollAdvance
  <2>2. \/ n = Then(since, "HOVERING", Nothing) /\ p.phase = "WAIT_ALT_HOLD" /\ o.mode = "ALT_HOLD"
        \/ n = Then(p, "FAILED", Nothing)
        \/ n = Then(p, "WAIT_LAND", Ordering("LAND")) /\ p.phase = "HOVERING"
        \/ n = Then(p, "COMPLETE", Nothing) /\ p.phase = "WAIT_LAND" /\ RollLanded(o)
    BY <1>g, <2>1 DEF Hover
  <2>3. since \in Policies /\ since.saved = p.saved
    BY DEF Policies
  <2>4. "LAND" \in Commands
    BY DEF Commands, Modes
  <2> HIDE DEF n, Good, since
  <2>5. CASE n = Then(since, "HOVERING", Nothing) /\ p.phase = "WAIT_ALT_HOLD" /\ o.mode = "ALT_HOLD"
    BY <1>b, <1>c, <2>3, <2>5, ActionTypes DEF RollStep, Good, n
  <2>6. CASE n = Then(p, "FAILED", Nothing)
    BY <1>b, <1>c, <1>g, <2>6, ActionTypes DEF RollStep, Good, n
  <2>7. CASE n = Then(p, "WAIT_LAND", Ordering("LAND")) /\ p.phase = "HOVERING"
    BY <1>b, <1>c, <2>4, <2>7, ActionTypes DEF RollStep, Late, Good, n
  <2>8. CASE n = Then(p, "COMPLETE", Nothing) /\ p.phase = "WAIT_LAND" /\ RollLanded(o)
    BY <1>b, <1>c, <1>g, <2>8, ActionTypes DEF RollStep, RollLanded, Late, Good, n
  <2>9. QED
    BY <2>2, <2>5, <2>6, <2>7, <2>8
<1>h. QED
  BY <1>d, <1>e, <1>f, <1>g

\* An action adds at most one order.
LEMMA OrdersGrow ==
    ASSUME NEW s \in Seq(Commands), NEW x \in Actions
    PROVE  /\ s \o Sent(x) \in Seq(Commands)
           /\ Len(s \o Sent(x)) \in Nat /\ Len(s) \in Nat /\ Len(s) <= Len(s \o Sent(x))
           /\ x.order = "none" => s \o Sent(x) = s
           /\ \A i \in 1 .. Len(s \o Sent(x)) :
                \/ i <= Len(s) /\ (s \o Sent(x))[i] = s[i]
                \/ i > Len(s) /\ x.order # "none" /\ (s \o Sent(x))[i] = x.order
<1>1. CASE x.order = "none"
  <2>1. Sent(x) = <<>>
    BY <1>1 DEF Sent
  <2>2. s \o <<>> = s
    BY ConcatEmptySeq
  <2>3. Len(s) \in Nat
    OBVIOUS
  <2>4. QED
    BY <1>1, <2>1, <2>2, <2>3
<1>2. CASE x.order # "none"
  <2> DEFINE c == x.order
  <2>1. Sent(x) = <<c>> /\ c \in Commands
    BY <1>2 DEF Sent, Actions
  <2> HIDE DEF c
  <2>2. /\ s \o <<c>> \in Seq(Commands) /\ Len(s \o <<c>>) = Len(s) + 1 /\ Len(s) \in Nat
        /\ \A i \in 1 .. Len(s) : (s \o <<c>>)[i] = s[i]
        /\ (s \o <<c>>)[Len(s) + 1] = c
    BY <2>1
  <2>3. \A i \in 1 .. Len(s) + 1 : (i <= Len(s) /\ i \in 1 .. Len(s)) \/ (i > Len(s) /\ i = Len(s) + 1)
    BY <2>2
  <2>4. QED
    BY <1>2, <2>1, <2>2, <2>3 DEF c
<1>3. QED
  BY <1>1, <1>2

\* What a round of a roll mission does to the state.
LEMMA RollControlMoves ==
    ASSUME LoopTypes, LinkTypes, RollControl, dpc = "control" => flight # "descent"
    PROVE  /\ flight \in {"autotune", "hover"} /\ ~ broken /\ dpc = "control" /\ dpc' = "record"
           /\ policy' \in Policies /\ policy'.phase \in RollPhases /\ broken' \in BOOLEAN
           /\ orders' \in Seq(Commands) /\ overrides' \in {"none", "hold", "down"}
           /\ directMishaps' \in 0 .. MaxDirectMishaps
           /\ directFacts' \subseteq directFacts \cup {"mission-ready", "delivered"}
           /\ directFacts \subseteq directFacts'
           /\ seen' \in Sights
           /\ seen'.mode = seen.mode /\ seen'.armed = seen.armed /\ seen'.height = seen.height
           /\ Has(seen.texts, "saved")' => Has(seen.texts, "saved")
           /\ UNCHANGED <<flight, inboxVars, asked, craft, wire>>
           /\ policy.phase = "COMPLETE" => orders' = orders /\ policy'.phase = "COMPLETE"
           /\ \E order \in Commands \cup {"none"} :
                /\ RollStep(policy.phase, seen, order, policy'.phase, policy'.saved)
                /\ policy.saved => policy'.saved
                /\ policy'.saved => policy.saved \/ Has(seen.texts, "saved")
                /\ Len(orders) \in Nat /\ Len(orders') \in Nat /\ Len(orders) <= Len(orders')
                /\ \A i \in 1 .. Len(orders') :
                     \/ i <= Len(orders) /\ orders'[i] = orders[i]
                     \/ /\ i > Len(orders)
                        /\ \/ orders'[i] = order /\ order # "none"
                           \/ orders'[i] = "ARM" /\ policy'.phase = "WAIT_ARMED"
<1> DEFINE o == Observation
           next == RollAdvance(policy, o)
           a == next.action
           to == next.p.phase
           r == Refresh(to)
           facts == RollReady \cup (IF policy.phase = "WAIT_READY" THEN {"delivered"} ELSE {})
           parts == {Nothing, [a EXCEPT !.order = "none"]} \ {a}
<1>0. /\ dpc = "control" /\ ~broken /\ ControlStamp # NoDirectStamp /\ dpc' = "record"
      /\ seen' = [seen EXCEPT !.texts = IF seen.texts = <<>> THEN seen.texts ELSE Tail(seen.texts)]
      /\ UNCHANGED <<flight, inboxVars, asked, craft, wire>>
      /\ \/ /\ policy' = next.p /\ directFacts' = facts
            /\ \/ Execute(a)
               \/ Len(orders) < MaxWire /\ Refreshed(a, to)
               \/ to = "WAIT_LAND" /\ Refreshed(a, "WAIT_LAND")
            /\ UNCHANGED <<broken, directMishaps>>
         \/ /\ policy' = next.p /\ r # Nothing /\ DirectMishap
            /\ broken' = TRUE /\ directFacts' = facts /\ Execute(a)
         \/ /\ DirectMishap /\ broken' = TRUE
            /\ \E part \in parts : Execute(part)
            /\ directFacts' = RollReady /\ UNCHANGED policy
  BY DEF RollControl
<1>1. flight \in {"autotune", "hover"} /\ policy \in Policies /\ policy.phase \in RollPhases
  BY <1>0 DEF LoopTypes
<1>2. o.stamp \in 0 .. LastDirectStamp /\ o.mode = seen.mode /\ o.armed = seen.armed
      /\ o.height = seen.height
  <2>1. ControlStamp \in 0 .. LastDirectStamp
    <3>1. /\ directStamp \in 0 .. LastDirectStamp + 1 /\ LastDirectStamp \in Nat
          /\ NoDirectStamp = LastDirectStamp + 1
      BY DirectAssumption DEF LoopTypes, NoDirectStamp
    <3>2. ControlStamp \in {directStamp, 0, NoDirectStamp}
      BY DEF ControlStamp
    <3>3. QED
      BY <1>0, <3>1, <3>2
  <2>2. QED
    BY <2>1 DEF Observation
<1>3. o.text = "saved" => Has(seen.texts, "saved")
  <2>1. seen.texts \in Seq({"success", "failed", "saved"})
    BY DEF LinkTypes, Sights
  <2>2. o.text = IF seen.texts = <<>> THEN "none" ELSE Head(seen.texts)
    BY DEF Observation
  <2>3. seen.texts # <<>> => 1 \in 1 .. Len(seen.texts) /\ Head(seen.texts) = seen.texts[1]
    BY <2>1, EmptySeq
  <2>4. QED
    BY <2>2, <2>3 DEF Has
<1>4. /\ next.p \in Policies /\ to \in RollPhases /\ a \in Actions
      /\ policy.saved => next.p.saved
      /\ next.p.saved => policy.saved \/ o.text = "saved"
      /\ RollStep(policy.phase, o, a.order, to, next.p.saved)
      /\ policy.phase = "COMPLETE" => a = Nothing /\ to = "COMPLETE"
  BY <1>1, <1>2, RollMoves
<1>5. RollStep(policy.phase, seen, a.order, to, next.p.saved)
  BY <1>2, <1>4 DEF RollStep
<1>s. /\ seen' \in Sights
      /\ seen'.mode = seen.mode /\ seen'.armed = seen.armed /\ seen'.height = seen.height
      /\ Has(seen.texts, "saved")' => Has(seen.texts, "saved")
  <2> DEFINE x == IF seen.texts = <<>> THEN seen.texts ELSE Tail(seen.texts)
  <2>1. seen.texts \in Seq({"success", "failed", "saved"})
    BY DEF LinkTypes, Sights
  <2>2. x \in Seq({"success", "failed", "saved"})
    BY <2>1, HeadTailProperties
  <2>3. Has(x, "saved") => Has(seen.texts, "saved")
    <3>1. CASE seen.texts = <<>>
      BY <3>1
    <3>2. CASE seen.texts # <<>>
      <4>1. /\ Len(seen.texts) \in Nat /\ x = Tail(seen.texts) /\ Len(x) = Len(seen.texts) - 1
            /\ \A i \in 1 .. Len(x) : x[i] = seen.texts[i + 1]
        BY <2>1, <3>2, HeadTailProperties
      <4>2. \A i \in 1 .. Len(x) : i + 1 \in 1 .. Len(seen.texts)
        BY <4>1
      <4> HIDE DEF x
      <4>3. QED
        BY <4>1, <4>2 DEF Has
    <3>3. QED
      BY <3>1, <3>2
  <2>4. seen' = [seen EXCEPT !.texts = x]
    BY <1>0
  <2> HIDE DEF x
  <2>5. /\ seen' \in Sights /\ seen'.texts = x
        /\ seen'.mode = seen.mode /\ seen'.armed = seen.armed /\ seen'.height = seen.height
    BY <2>2, <2>4 DEF LinkTypes, Sights
  <2>6. QED
    BY <2>3, <2>5 DEF Has
<1>f. /\ directFacts' \subseteq directFacts \cup {"mission-ready", "delivered"}
      /\ directFacts \subseteq directFacts'
  BY <1>0 DEF RollReady
<1>m. /\ broken' \in BOOLEAN /\ directMishaps' \in 0 .. MaxDirectMishaps
  <2>1. directMishaps \in 0 .. MaxDirectMishaps /\ broken = FALSE /\ MaxDirectMishaps \in Nat
    BY <1>0, DirectAssumption DEF LoopTypes
  <2>2. DirectMishap => directMishaps' \in 0 .. MaxDirectMishaps
    BY <2>1 DEF DirectMishap
  <2>3. (UNCHANGED <<broken, directMishaps>>) \/ (DirectMishap /\ broken' = TRUE)
    BY <1>0
  <2>4. QED
    BY <2>1, <2>2, <2>3
<1>o. /\ orders \in Seq(Commands) /\ overrides \in {"none", "hold", "down"}
  BY DEF LinkTypes, LoopTypes
<1>h. ASSUME NEW x \in Actions, NEW was \in {"none", "hold", "down"}
      PROVE  Throttle(x, was) \in {"none", "hold", "down"}
  BY DEF Throttle, Actions
<1>r. /\ r \in Actions /\ r.order \in {"none", "ARM"} /\ (r.order = "ARM" => to = "WAIT_ARMED")
      /\ to = "COMPLETE" => r = Nothing
      /\ Nothing.order = "none" /\ Nothing \in Actions
  BY ActionTypes
<1> HIDE DEF next, facts, r, o, a, to
<1>6. ASSUME NEW x \in Actions, x.order \in {a.order, "none"}, Execute(x), a = Nothing => x = Nothing
      PROVE  /\ orders' \in Seq(Commands) /\ overrides' \in {"none", "hold", "down"}
             /\ Len(orders) \in Nat /\ Len(orders') \in Nat /\ Len(orders) <= Len(orders')
             /\ a = Nothing => orders' = orders
             /\ \A i \in 1 .. Len(orders') :
                  \/ i <= Len(orders) /\ orders'[i] = orders[i]
                  \/ i > Len(orders) /\ orders'[i] = a.order /\ a.order # "none"
  <2>1. orders' = orders \o Sent(x) /\ overrides' = Throttle(x, overrides)
    BY <1>6 DEF Execute
  <2>2. QED
    BY <1>6, <1>h, <1>o, <1>r, <2>1, OrdersGrow
<1>7. ASSUME Refreshed(a, to)
      PROVE  /\ orders' \in Seq(Commands) /\ overrides' \in {"none", "hold", "down"}
             /\ Len(orders) \in Nat /\ Len(orders') \in Nat /\ Len(orders) <= Len(orders')
             /\ a = Nothing /\ to = "COMPLETE" => orders' = orders
             /\ \A i \in 1 .. Len(orders') :
                  \/ i <= Len(orders) /\ orders'[i] = orders[i]
                  \/ /\ i > Len(orders)
                     /\ \/ orders'[i] = a.order /\ a.order # "none"
                        \/ orders'[i] = "ARM" /\ to = "WAIT_ARMED"
  <2> DEFINE s == orders \o Sent(a)
  <2>1. /\ orders' = s \o Sent(r)
        /\ overrides' = IF to = "WAIT_LAND" THEN "none" ELSE Throttle(r, Throttle(a, overrides))
    BY <1>7 DEF Refreshed, r
  <2>2. /\ s \in Seq(Commands) /\ Len(s) \in Nat /\ Len(orders) \in Nat /\ Len(orders) <= Len(s)
        /\ a.order = "none" => s = orders
        /\ \A i \in 1 .. Len(s) : \/ i <= Len(orders) /\ s[i] = orders[i]
                                  \/ i > Len(orders) /\ a.order # "none" /\ s[i] = a.order
    BY <1>4, <1>o, OrdersGrow
  <2> HIDE DEF s
  <2>3. /\ orders' \in Seq(Commands) /\ Len(orders') \in Nat /\ Len(s) <= Len(orders')
        /\ r.order = "none" => orders' = s
        /\ \A i \in 1 .. Len(orders') : \/ i <= Len(s) /\ orders'[i] = s[i]
                                        \/ i > Len(s) /\ r.order # "none" /\ orders'[i] = r.order
    BY <1>r, <2>1, <2>2, OrdersGrow
  <2>4. overrides' \in {"none", "hold", "down"}
    BY <1>4, <1>h, <1>o, <1>r, <2>1
  <2>5. ASSUME NEW i \in 1 .. Len(orders')
        PROVE  \/ i <= Len(orders) /\ orders'[i] = orders[i]
               \/ /\ i > Len(orders)
                  /\ \/ orders'[i] = a.order /\ a.order # "none"
                     \/ orders'[i] = "ARM" /\ to = "WAIT_ARMED"
    <3>1. CASE i <= Len(s) /\ orders'[i] = s[i]
      <4>1. i \in 1 .. Len(s)
        BY <2>2, <3>1
      <4>2. QED
        BY <2>2, <3>1, <4>1
    <3>2. CASE i > Len(s) /\ r.order # "none" /\ orders'[i] = r.order
      <4>1. i > Len(orders) /\ orders'[i] = "ARM" /\ to = "WAIT_ARMED"
        BY <1>r, <2>2, <3>2
      <4>2. QED
        BY <4>1
    <3>3. QED
      BY <2>3, <3>1, <3>2
  <2>6. Len(orders) <= Len(orders')
    BY <2>2, <2>3
  <2>7. a = Nothing /\ to = "COMPLETE" => orders' = orders
    BY <1>r, <2>2, <2>3
  <2>8. QED
    BY <2>2, <2>3, <2>4, <2>5, <2>6, <2>7
<1> DEFINE done == /\ orders' \in Seq(Commands) /\ overrides' \in {"none", "hold", "down"}
                   /\ Len(orders) \in Nat /\ Len(orders') \in Nat /\ Len(orders) <= Len(orders')
                   /\ a = Nothing /\ to = "COMPLETE" => orders' = orders
                   /\ \A i \in 1 .. Len(orders') :
                        \/ i <= Len(orders) /\ orders'[i] = orders[i]
                        \/ /\ i > Len(orders)
                           /\ \/ orders'[i] = a.order /\ a.order # "none"
                              \/ orders'[i] = "ARM" /\ to = "WAIT_ARMED"
<1>8. CASE policy' = next.p
  <2>1. ASSUME Execute(a) PROVE done
    BY <1>4, <1>6, <2>1
  <2>2. ASSUME Refreshed(a, to) PROVE done
    BY <1>7, <2>2
  <2>3. done
    <3>1. CASE Execute(a)
      BY <2>1, <3>1
    <3>2. CASE Refreshed(a, to)
      BY <2>2, <3>2
    <3>3. CASE policy' # policy
      BY <1>0, <2>1, <2>2, <3>3
    <3>4. CASE policy' = policy /\ ~ Execute(a) /\ ~ Refreshed(a, to)
      <4>1. PICK part \in parts : Execute(part)
        BY <1>0, <3>4
      <4>2. part \in Actions /\ part.order = "none" /\ (a = Nothing => FALSE)
        <5>1. [a EXCEPT !.order = "none"] \in Actions /\ [a EXCEPT !.order = "none"].order = "none"
          BY <1>4 DEF Actions
        <5>2. a = Nothing => [a EXCEPT !.order = "none"] = Nothing
          BY DEF Nothing
        <5>3. QED
          BY <1>r, <5>1, <5>2
      <4>3. QED
        BY <1>6, <4>1, <4>2
    <3>5. QED
      BY <3>1, <3>2, <3>3, <3>4
  <2>4. policy'.phase = to /\ policy'.saved = next.p.saved /\ policy' \in Policies
    BY <1>4, <1>8 DEF to
  <2>5. a.order \in Commands \cup {"none"}
    BY <1>4 DEF Actions
  <2>6. policy.phase = "COMPLETE" => orders' = orders /\ policy'.phase = "COMPLETE"
    BY <1>4, <2>3, <2>4
  <2>7. RollStep(policy.phase, seen, a.order, policy'.phase, policy'.saved)
    BY <1>5, <2>4
  <2>8. policy'.saved => policy.saved \/ Has(seen.texts, "saved")
    BY <1>3, <1>4, <2>4
  <2>9. policy.saved => policy'.saved
    BY <1>4, <2>4
  <2>10. \E order \in Commands \cup {"none"} :
          /\ RollStep(policy.phase, seen, order, policy'.phase, policy'.saved)
          /\ \A i \in 1 .. Len(orders') :
               \/ i <= Len(orders) /\ orders'[i] = orders[i]
               \/ /\ i > Len(orders)
                  /\ \/ orders'[i] = order /\ order # "none"
                     \/ orders'[i] = "ARM" /\ policy'.phase = "WAIT_ARMED"
    BY <2>3, <2>4, <2>5, <2>7
  <2>11. policy'.phase \in RollPhases
    BY <1>4, <2>4
  <2>12. QED
    BY <1>0, <1>1, <1>f, <1>m, <1>s, <2>3, <2>4, <2>6, <2>8, <2>9, <2>10, <2>11
<1>9. CASE policy' # next.p
  <2>1. PICK part \in parts : Execute(part)
    BY <1>0, <1>9
  <2>2. policy' = policy
    BY <1>0, <1>9
  <2>3. part \in Actions /\ part.order = "none" /\ a # Nothing
    <3>1. [a EXCEPT !.order = "none"] \in Actions /\ [a EXCEPT !.order = "none"].order = "none"
      BY <1>4 DEF Actions
    <3>2. a = Nothing => [a EXCEPT !.order = "none"] = Nothing
      BY DEF Nothing
    <3>3. QED
      BY <1>r, <2>1, <3>1, <3>2
  <2>4. orders' = orders /\ overrides' \in {"none", "hold", "down"}
    BY <1>h, <1>o, <2>1, <2>3, OrdersGrow DEF Execute
  <2>5. RollStep(policy.phase, seen, "none", policy'.phase, policy'.saved)
    BY <2>2 DEF RollStep
  <2>6. Len(orders) \in Nat /\ Len(orders) <= Len(orders)
    BY <1>o
  <2>7. \A i \in 1 .. Len(orders) : i <= Len(orders)
    BY <2>6
  <2>8. QED
    BY <1>0, <1>1, <1>f, <1>m, <1>o, <1>s, <2>2, <2>4, <2>5, <2>6, <2>7
<1>10. QED
  BY <1>8, <1>9

LEMMA RollKeptByControl ==
    ASSUME LoopTypes, LinkTypes, RollInv, RollControl, dpc = "control" => flight # "descent"
    PROVE  RollInv'
<1> DEFINE from == policy.phase
           to == policy'.phase
<1>0. /\ flight \in {"autotune", "hover"} /\ flight' = flight /\ craft' = craft
      /\ seen'.mode = seen.mode /\ seen'.armed = seen.armed /\ seen'.height = seen.height
      /\ Has(seen.texts, "saved")' => Has(seen.texts, "saved")
      /\ from = "COMPLETE" => orders' = orders /\ to = "COMPLETE"
  BY RollControlMoves
<1>1. PICK order \in Commands \cup {"none"} :
        /\ RollStep(from, seen, order, to, policy'.saved)
        /\ policy.saved => policy'.saved
        /\ policy'.saved => policy.saved \/ Has(seen.texts, "saved")
        /\ Len(orders) \in Nat /\ Len(orders') \in Nat /\ Len(orders) <= Len(orders')
        /\ \A i \in 1 .. Len(orders') :
             \/ i <= Len(orders) /\ orders'[i] = orders[i]
             \/ /\ i > Len(orders)
                /\ \/ orders'[i] = order /\ order # "none"
                   \/ orders'[i] = "ARM" /\ to = "WAIT_ARMED"
  BY RollControlMoves
<1>2. \A i \in 1 .. Len(orders') : i <= Len(orders) => i \in 1 .. Len(orders)
  BY <1>1
<1>3. order = "ARM" \/ to = "WAIT_ARMED" => from \in Early
  BY <1>1 DEF RollStep, Early, Late
<1>4. order = "ALT_HOLD" => from \in Early /\ to = "WAIT_ALT_HOLD"
  BY <1>1 DEF RollStep, Early, Late
<1>5. Has(orders, "ARM")' => Has(orders, "ARM") \/ from \in Early
  BY <1>1, <1>2, <1>3 DEF Has
<1>6. Has(orders, "ALT_HOLD")' => Has(orders, "ALT_HOLD") \/ (from \in Early /\ to = "WAIT_ALT_HOLD")
  BY <1>1, <1>2, <1>4 DEF Has
<1>7. ASSUME NEW i \in 1 .. Len(orders'), NEW j \in 1 .. Len(orders'),
             orders'[i] = "ARM", orders'[j] = "ALT_HOLD"
      PROVE  i < j
  <2>1. CASE j <= Len(orders)
    <3>1. orders[j] = "ALT_HOLD" /\ j \in 1 .. Len(orders)
      BY <1>1, <1>2, <1>7, <2>1
    <3>2. from \notin Early
      BY <1>0, <3>1 DEF RollInv, Has
    <3>3. i <= Len(orders) /\ orders[i] = "ARM"
      BY <1>1, <1>3, <1>7, <3>2
    <3>4. QED
      BY <1>0, <1>2, <3>1, <3>3 DEF RollInv
  <2>2. CASE j > Len(orders)
    <3>1. order = "ALT_HOLD" /\ to # "WAIT_ARMED"
      BY <1>1, <1>4, <1>7, <2>2
    <3>2. i <= Len(orders)
      BY <1>1, <1>7, <3>1
    <3>3. QED
      BY <1>1, <2>2, <3>2
  <2>3. QED
    BY <1>1, <2>1, <2>2
<1>8. to \in Early => from \in Early /\ to # "WAIT_ALT_HOLD"
  BY <1>1 DEF RollStep, Early, Late
<1>9. to \in Late => from \in Late \/ (from = "WAIT_ALT_HOLD" /\ seen.mode = "ALT_HOLD")
  BY <1>1 DEF RollStep, Early, Late
<1>10. Early \cap Late = {} /\ "WAIT_ALT_HOLD" \notin Early
  BY DEF Early, Late
<1>11. to = "COMPLETE" => from = "COMPLETE" \/ (from \in Late /\ seen.armed = "no"
                                                /\ (flight = "autotune" => policy'.saved))
  BY <1>1 DEF RollStep, Late
<1>12. to \in {"WAIT_ALT_HOLD"} \cup Late =>
         from \in {"WAIT_ALT_HOLD"} \cup Late \/ seen.height = "high"
  BY <1>1 DEF RollStep, Early, Late
<1>13. /\ to \in Early => ~ Has(orders, "ALT_HOLD")' /\ craft.mode # "ALT_HOLD" /\ seen.mode # "ALT_HOLD"
       /\ craft.mode = "ALT_HOLD" \/ seen.mode = "ALT_HOLD" => ~ Has(orders, "ARM")'
  BY <1>0, <1>5, <1>6, <1>8 DEF RollInv
<1>14. /\ to \in Late => ~ Has(orders, "ARM")'
       /\ to \in Late /\ seen.armed = "no" => craft.armed = "no"
       /\ to = "COMPLETE" => craft.armed = "no"
  BY <1>0, <1>5, <1>9, <1>10, <1>11 DEF RollInv
<1>15. to \in {"WAIT_ALT_HOLD"} \cup Late => craft.flown
  BY <1>0, <1>12 DEF RollInv
<1>16. /\ policy'.saved \/ Has(seen.texts, "saved")' => craft.gains = "saved"
       /\ to = "COMPLETE" /\ flight = "autotune" => policy'.saved
  BY <1>0, <1>1, <1>11 DEF RollInv
<1>17. QED
  BY <1>0, <1>7, <1>13, <1>14, <1>15, <1>16 DEF RollInv

-----------------------------------------------------------------------------
(* The missions flown without a host: every step. *)

LEMMA DirectInvInit ==
    ASSUME DirectInit
    PROVE  DirectInv
<1>1. LoopTypes
  <2>1. /\ NoDirectStamp \in Nat /\ 0 \in 0 .. LastDirectStamp /\ 0 \in 0 .. MaxDirectMishaps
        /\ NoDirectStamp \in 0 .. NoDirectStamp
    BY DirectAssumption DEF NoDirectStamp
  <2> DEFINE phase == IF flight = "descent" THEN "WAIT_HEARTBEAT" ELSE "WAIT_READY"
  <2>2. phase \in (IF flight = "descent" THEN DescentPhases ELSE RollPhases)
    BY DEF DescentPhases, RollPhases
  <2>3. policy = [phase |-> phase, heartbeat |-> FALSE, prearm |-> FALSE, descended |-> FALSE,
                  saved |-> FALSE, since |-> 0]
    BY DEF DirectInit
  <2> HIDE DEF phase
  <2>4. policy \in Policies /\ policy.phase = phase
    BY <2>1, <2>2, <2>3 DEF Policies
  <2>5. QED
    BY <2>1, <2>2, <2>4 DEF DirectInit, LoopTypes, Facts
<1>2. LinkTypes
  <2>1. <<>> \in Seq({"success", "failed", "saved"}) /\ <<>> \in Seq(Telegrams) /\ <<>> \in Seq(Commands)
    BY EmptySeq
  <2>2. seen \in Sights
    BY <2>1 DEF DirectInit, Sights
  <2>3. craft \in Crafts
    BY DEF DirectInit, Crafts, Modes, Heights
  <2>4. QED
    BY <2>1, <2>2, <2>3 DEF DirectInit, LinkTypes
<1>3. LoopInv /\ CraftInv
  BY DEF DirectInit, LoopInv, OverridesEnd, CraftInv
<1>4. /\ Len(wire) = 0 /\ Len(orders) = 0 /\ Len(seen.texts) = 0 /\ orders = <<>>
      /\ \A i \in 1 .. 0 : FALSE
  BY EmptySeq DEF DirectInit
<1>5. NoAck /\ NoYes /\ ~ Has(orders, "ARM") /\ ~ Has(orders, "ALT_HOLD") /\ ~ Has(seen.texts, "saved")
  BY <1>4 DEF NoAck, NoYes, Has, DirectInit
<1>6. DescentInv
  <2>1. SUFFICES ASSUME flight = "descent" PROVE OpenInv /\ ArmInv /\ HighInv
    BY DEF DescentInv
  <2>2. policy.phase = "WAIT_HEARTBEAT" /\ craft.armed = "no"
    BY <2>1 DEF DirectInit
  <2>3. OpenInv
    BY <1>4, <1>5 DEF OpenInv
  <2>4. ArmInv
    BY <1>4, <1>5, <2>2 DEF ArmInv, AfterArmed, AfterHigh
  <2>5. HighInv
    BY <1>4, <2>2 DEF HighInv, AfterHigh
  <2>6. QED
    BY <2>3, <2>4, <2>5
<1>7. RollInv
  <2>1. SUFFICES ASSUME flight # "descent" PROVE RollInv
    BY DEF RollInv
  <2>2. /\ policy.phase = "WAIT_READY" /\ ~ policy.saved /\ craft.armed = "no"
        /\ craft.mode = "STABILIZE" /\ seen.mode = "none" /\ seen.height = "none"
    BY <2>1 DEF DirectInit
  <2>3. policy.phase \notin {"WAIT_ALT_HOLD"} \cup Late
    BY <2>2 DEF Late
  <2>4. QED
    BY <1>4, <1>5, <2>2, <2>3 DEF RollInv
<1>8. QED
  BY <1>1, <1>2, <1>3, <1>6, <1>7 DEF DirectInv

\* What only concerns the loop leaves the vehicle and its stream as they were.
LEMMA LinkUntouched ==
    ASSUME LinkTypes, CraftInv, DescentInv, RollInv, broken' = broken \/ broken',
           UNCHANGED <<flight, policy, seen, craft, wire, orders>>
    PROVE  LinkTypes' /\ CraftInv' /\ DescentInv' /\ RollInv'
<1>1. LinkTypes' /\ CraftInv'
  BY DEF LinkTypes, CraftInv
<1>2. OpenInv => OpenInv'
  BY DEF OpenInv, NoAck
<1>3. ArmInv => ArmInv'
  BY DEF ArmInv, NoYes, Has
<1>4. HighInv => HighInv'
  BY DEF HighInv
<1>5. RollInv'
  BY DEF RollInv, Has
<1>6. QED
  BY <1>1, <1>2, <1>3, <1>4, <1>5 DEF DescentInv

\* DroneKit keeps what is well-formed.
LEMMA DroneKitKeeps ==
    ASSUME seen \in Sights, NEW m \in Telegrams
    PROVE  DroneKitKept(seen, m) \in Sights
<1>1. CASE m.kind = "position"
  <2>1. DroneKitKept(seen, m) = [seen EXCEPT !.height = m.height] /\ m.height \in Heights
    BY <1>1 DEF DroneKitKept, Telegrams
  <2>2. QED
    BY <2>1 DEF Sights
<1>2. CASE m.kind = "prearm"
  <2>1. DroneKitKept(seen, m) = [seen EXCEPT !.armable = m.healthy] /\ m.healthy \in BOOLEAN
    BY <1>2 DEF DroneKitKept, Telegrams
  <2>2. QED
    BY <2>1 DEF Sights
<1>3. CASE m.kind = "text"
  <2> DEFINE texts == Append(seen.texts, m.text)
  <2>1. texts \in Seq({"success", "failed", "saved"})
    BY <1>3, AppendProperties DEF Sights, Telegrams
  <2>2. DroneKitKept(seen, m) = [seen EXCEPT !.texts = texts]
    BY <1>3 DEF DroneKitKept
  <2> HIDE DEF texts
  <2>3. QED
    BY <2>1, <2>2 DEF Sights
<1>4. CASE m.kind \notin {"position", "prearm", "text"}
  <2>1. DroneKitKept(seen, m) = Kept(seen, m)
    BY <1>4 DEF DroneKitKept
  <2>2. QED
    BY <2>1, TelemetrySays
<1>5. QED
  BY <1>1, <1>2, <1>3, <1>4

\* The vehicle acts.
LEMMA DirectInvVehicle ==
    ASSUME DirectInv, Obey \/ VehicleActs \/ ModeChanges
    PROVE  DirectInv'
<1>0. LoopTypes /\ LinkTypes /\ LoopInv /\ CraftInv /\ DescentInv /\ RollInv
  BY DEF DirectInv
<1>1. /\ craft' \in Crafts /\ CraftInv'
      /\ craft.flown => craft'.flown
      /\ craft.gains = "saved" => craft'.gains = "saved"
      /\ UNCHANGED <<flight, loopVars>>
      /\ directMishaps' \in 0 .. MaxDirectMishaps /\ directMishaps' >= directMishaps
      /\ Obeyed \/ Moved
  BY <1>0, VehicleEffects
<1>2. UNCHANGED <<flight, dpc, inboxVars, broken, asked, policy, overrides, directFacts>>
  BY <1>1 DEF loopVars
<1>3. LoopTypes'
  BY <1>0, <1>1, <1>2 DEF LoopTypes, inboxVars
<1>4. LoopInv'
  <2>1. directMishaps \in Nat /\ directMishaps' \in Nat /\ (directMishaps > 0 => directMishaps' > 0)
    BY <1>0, <1>1, DirectAssumption DEF LoopTypes
  <2>2. QED
    BY <1>0, <1>2, <2>1 DEF LoopInv, OverridesEnd
<1>5. LinkTypes'
  <2>1. seen \in Sights /\ wire \in Seq(Telegrams) /\ orders \in Seq(Commands)
    BY <1>0 DEF LinkTypes
  <2>2. orders' \in Seq(Commands)
    BY <1>1, <2>1, HeadTailProperties DEF Obeyed, Moved
  <2>3. CASE Obeyed
    <3>1. Head(orders) \in Commands
      BY <2>1, <2>3, HeadTailProperties DEF Obeyed
    <3>2. \A accepted \in BOOLEAN :
            [kind |-> "ack", order |-> Head(orders), accepted |-> accepted] \in Telegrams
      BY <3>1 DEF Telegrams
    <3>3. wire' \in Seq(Telegrams) /\ seen' = seen
      BY <2>1, <2>3, <3>2, AppendProperties, ZenonT(60) DEF Obeyed, linkVars
    <3>4. QED
      BY <1>1, <2>1, <2>2, <3>3 DEF LinkTypes
  <2>4. CASE Moved
    <3>1. CASE UNCHANGED linkVars
      BY <1>1, <2>1, <2>2, <3>1 DEF LinkTypes, linkVars
    <3>2. CASE ~ UNCHANGED linkVars
      <4>1. PICK m \in Telegrams : Reported(m)
        BY <2>4, <3>2 DEF Moved
      <4>2. DroneKitKept(seen, m) \in Sights
        BY <2>1, DroneKitKeeps
      <4>3. seen' \in Sights /\ wire' \in Seq(Telegrams)
        BY <2>1, <4>1, <4>2, AppendProperties DEF Reported
      <4>4. QED
        BY <1>1, <2>2, <4>3 DEF LinkTypes
    <3>3. QED
      BY <3>1, <3>2
  <2>5. QED
    BY <1>1, <2>3, <2>4
<1>6. DescentInv'
  <2>1. flight = "descent" => OpenInv' /\ ArmInv' /\ HighInv'
    BY <1>0, <1>1, <1>2, DescentKeptByVehicle DEF DescentInv
  <2>2. QED
    BY <1>2, <2>1 DEF DescentInv
<1>7. RollInv'
  <2>1. flight # "descent" => RollInv'
    BY <1>0, <1>1, <1>2, RollKeptByVehicle
  <2>2. QED
    BY <1>2, <2>1 DEF RollInv
<1>8. QED
  BY <1>1, <1>3, <1>4, <1>5, <1>6, <1>7 DEF DirectInv

\* What consume or a look for readiness makes of the round: only the policy, the orders and
\* the files change.
LEMMA ConsumedIsTyped ==
    ASSUME LoopTypes, LoopInv, flight = "descent", ~ broken,
           dpc \in {"spin", "drain"}, dpc' = "drain",
           flight' = flight, asked' = asked, overrides' = overrides,
           directStamp' \in 0 .. NoDirectStamp, started' \in BOOLEAN, ending' \in BOOLEAN,
           policy' \in Policies, policy'.phase \in DescentPhases,
           policy.phase = "LANDED" => policy'.phase = "LANDED",
           broken' \in BOOLEAN,
           directMishaps' \in 0 .. MaxDirectMishaps,
           directFacts' \in {directFacts, directFacts \cup {"delivered"}}
    PROVE  LoopTypes' /\ LoopInv'
<1>1. LoopTypes'
  BY DEF LoopTypes, Facts
<1>2. LoopInv'
  <2>1. policy.phase # "COMPLETE"
    BY DEF LoopTypes, DescentPhases
  <2>2. "finished" \in directFacts' => policy'.phase \in {"LANDED", "COMPLETE"}
    BY <2>1 DEF LoopInv
  <2>3. "failure" \notin directFacts' /\ "quiescence" \notin directFacts'
    BY DEF LoopInv
  <2>4. QED
    BY <2>2, <2>3 DEF LoopInv, OverridesEnd
<1>3. QED
  BY <1>1, <1>2

LEMMA LandedIsEnd ==
    ASSUME NEW t, NEW send, NEW to, Transition("LANDED", t, send, to)
    PROVE  send = "none" /\ to = "LANDED"
BY DEF Transition, Quiet, Confirmed, Sends

\* The mission is begun by a reading of its own, and reads one message at a time.
LEMMA SpinKeeps ==
    ASSUME DirectInv, DirectSpin
    PROVE  DirectInv'
<1>0. LoopTypes /\ LinkTypes /\ LoopInv /\ CraftInv /\ DescentInv /\ RollInv
  BY DEF DirectInv
<1>1. /\ dpc = "spin" /\ ~ broken /\ UNCHANGED <<flight, asked, overrides, seen, craft, wire>>
      /\ dpc' = (IF flight = "descent" THEN "drain" ELSE "control")
  BY <1>0 DEF DirectSpin, LoopInv
<1>2. /\ directStamp' \in 0 .. NoDirectStamp /\ started' \in BOOLEAN /\ ending' \in BOOLEAN
  <2>1. /\ directStamp \in 0 .. NoDirectStamp /\ started \in BOOLEAN /\ ending \in BOOLEAN
        /\ LastDirectStamp \in Nat /\ NoDirectStamp = LastDirectStamp + 1
    BY <1>0, DirectAssumption DEF LoopTypes, NoDirectStamp
  <2>2. /\ directStamp' = directStamp \/ directStamp' = 0
           \/ (directStamp # LastDirectStamp /\ directStamp # NoDirectStamp
               /\ directStamp' = directStamp + 1)
        /\ started' \in {started, TRUE} /\ ending' \in {ending, TRUE}
    BY DEF DirectSpin, SpinOnce, inboxVars
  <2>3. directStamp' \in 0 .. NoDirectStamp
    BY <2>1, <2>2
  <2>4. started' \in BOOLEAN
    BY <2>1, <2>2
  <2>5. ending' \in BOOLEAN
    BY <2>1, <2>2
  <2>6. QED
    BY <2>3, <2>4, <2>5
<1>3. CASE UNCHANGED <<policy, orders, directFacts, broken, directMishaps>>
  <2>1. LinkTypes' /\ CraftInv' /\ DescentInv' /\ RollInv'
    BY <1>0, <1>1, <1>3, LinkUntouched
  <2>2. LoopTypes'
    BY <1>0, <1>1, <1>2, <1>3 DEF LoopTypes
  <2>3. LoopInv'
    BY <1>0, <1>1, <1>3 DEF LoopInv, OverridesEnd, LoopTypes
  <2>4. QED
    BY <2>1, <2>2, <2>3 DEF DirectInv
<1>4. CASE ~ UNCHANGED <<policy, orders, directFacts, broken, directMishaps>>
  <2> DEFINE t == [NoTelemetry EXCEPT !.heartbeat = TRUE, !.prearm = TRUE]
  <2>1. flight = "descent" /\ Consume(policy, t, 0)
    BY <1>4 DEF DirectSpin, BeginMission
  <2>2. /\ t \in Readings /\ t.ack = "none" /\ t.armed = "none" /\ t.height = "none"
    BY DEF NoTelemetry, Readings
  <2> HIDE DEF t
  <2>3. /\ policy' \in Policies /\ policy'.phase \in DescentPhases
        /\ broken' \in BOOLEAN /\ directMishaps' \in 0 .. MaxDirectMishaps
        /\ directFacts' \in {directFacts, directFacts \cup {"delivered"}}
    BY <1>0, <2>1, <2>2, ConsumeMoves
  <2>4. PICK send \in Commands \cup {"none"}, to \in DescentPhases :
          /\ Transition(policy.phase, t, send, to)
          /\ \/ /\ broken' = broken /\ policy'.phase = to
                /\ orders' = IF send = "none" THEN orders ELSE Append(orders, send)
             \/ /\ broken' /\ policy'.phase = policy.phase /\ send # "none"
                /\ orders' \in {orders, Append(orders, send)}
    BY <1>0, <2>1, <2>2, ConsumeMoves
  <2>5. policy.phase = "LANDED" => policy'.phase = "LANDED"
    BY <2>4, LandedIsEnd
  <2>6. LoopTypes' /\ LoopInv'
    BY <1>0, <1>1, <1>2, <2>1, <2>3, <2>5, ConsumedIsTyped
  <2>7. OpenInv /\ ArmInv /\ HighInv
    BY <1>0, <2>1 DEF DescentInv
  <2>8. OpenInv' /\ ArmInv' /\ HighInv'
    <3>1. /\ NoAck' = NoAck /\ (NoYes => NoYes') /\ seen' = seen /\ wire' = wire /\ craft' = craft
      BY <1>1 DEF NoAck, NoYes
    <3>2. /\ orders # <<>> => NoAck'
          /\ \A i, j \in 1 .. Len(wire') : IsAck(wire'[i]) /\ IsAck(wire'[j]) => i = j
      BY <2>7, <3>1 DEF OpenInv
    <3>3. /\ \A i \in 1 .. Len(wire') :
               Beats(wire'[i], "no") /\ (seen'.armed = "yes" \/ \E j \in 1 .. i : Beats(wire'[j], "yes"))
                 => craft.armed = "no"
          /\ policy.phase \in AfterArmed /\ seen'.armed = "no" => craft.armed = "no"
      BY <2>7, <3>1 DEF ArmInv
    <3>4. \A i \in 1 .. Len(wire') : SaysHigh(wire'[i]) => craft.flown
      BY <2>7, <3>1 DEF HighInv
    <3>5. QED
      BY <1>0, <1>1, <2>1, <2>2, <2>4, <2>7, <3>1, <3>2, <3>3, <3>4, TransitionKeeps
  <2>9. LinkTypes' /\ CraftInv'
    <3>1. orders \in Seq(Commands) /\ (send # "none" => Append(orders, send) \in Seq(Commands))
      BY <1>0, AppendProperties DEF LinkTypes
    <3>2. orders' \in Seq(Commands)
      BY <2>4, <3>1
    <3>3. QED
      BY <1>0, <1>1, <3>2 DEF LinkTypes, CraftInv
  <2>10. flight' = "descent"
    BY <1>1, <2>1
  <2>11. QED
    BY <2>6, <2>8, <2>9, <2>10 DEF DirectInv, DescentInv, RollInv
<1>5. QED
  BY <1>3, <1>4

LEMMA DrainKeeps ==
    ASSUME DirectInv, DescentDrain
    PROVE  DirectInv'
<1> DEFINE m == Head(wire)
           s == Kept(seen, m)
           t == Telemetry(s, m)
<1>0. LoopTypes /\ LinkTypes /\ LoopInv /\ CraftInv /\ DescentInv /\ RollInv
  BY DEF DirectInv
<1>1. /\ dpc = "drain" /\ ~ broken /\ wire # <<>>
      /\ seen' = s /\ wire' = Tail(wire)
      /\ UNCHANGED <<flight, dpc, inboxVars, asked, craft, overrides>>
      /\ IF started /\ directStamp # NoDirectStamp
         THEN Consume(policy, t, directStamp)
         ELSE /\ policy' = Latched(policy, t)
              /\ UNCHANGED <<broken, orders, directFacts, directMishaps>>
  BY DEF DescentDrain
<1>2. /\ flight = "descent" /\ OpenInv /\ ArmInv /\ HighInv
      /\ directStamp' \in 0 .. NoDirectStamp /\ started' \in BOOLEAN /\ ending' \in BOOLEAN
  BY <1>0, <1>1 DEF LoopInv, DescentInv, LoopTypes, inboxVars
<1>3. /\ seen' \in Sights /\ wire' \in Seq(Telegrams) /\ m \in Telegrams
      /\ IsAck(m) => orders = <<>> /\ NoAck'
      /\ SaysHigh(m) => craft.flown
      /\ NoAck => NoAck'
      /\ NoYes => NoYes'
      /\ \A i, j \in 1 .. Len(wire') : IsAck(wire'[i]) /\ IsAck(wire'[j]) => i = j
      /\ orders # <<>> => NoAck'
      /\ \A i \in 1 .. Len(wire') :
           Beats(wire'[i], "no") /\ (seen'.armed = "yes" \/ \E j \in 1 .. i : Beats(wire'[j], "yes"))
             => craft.armed = "no"
      /\ seen.armed # "none" => seen'.armed # "none"
      /\ policy.phase \in AfterArmed /\ seen'.armed = "no" => craft.armed = "no"
      /\ \A i \in 1 .. Len(wire') : SaysHigh(wire'[i]) => craft.flown
  BY <1>0, <1>1, <1>2, StreamPasses
<1>4. /\ t \in Readings /\ (t.ack # "none" => IsAck(m)) /\ t.armed \in {seen'.armed, "none"}
      /\ t.height = "high" => SaysHigh(m)
  BY <1>0, <1>1, <1>3, TelemetrySays DEF LinkTypes
<1> HIDE DEF m, s, t
<1>5. /\ t.ack # "none" => orders = <<>> /\ NoAck'
      /\ t.armed = "yes" => seen'.armed = "yes"
      /\ t.armed = "no" => seen'.armed = "no"
      /\ t.height = "high" => craft.flown
  BY <1>3, <1>4
<1>m. /\ policy' \in Policies /\ policy'.phase \in DescentPhases
      /\ broken' \in BOOLEAN /\ directMishaps' \in 0 .. MaxDirectMishaps
      /\ directFacts' \in {directFacts, directFacts \cup {"delivered"}}
      /\ \E send \in Commands \cup {"none"}, to \in DescentPhases :
           /\ Transition(policy.phase, t, send, to)
           /\ \/ /\ broken' = broken /\ policy'.phase = to
                 /\ orders' = IF send = "none" THEN orders ELSE Append(orders, send)
              \/ /\ broken' /\ policy'.phase = policy.phase /\ send # "none"
                 /\ orders' \in {orders, Append(orders, send)}
  <2>1. CASE started /\ directStamp # NoDirectStamp
    <3>1. Consume(policy, t, directStamp)
      BY <1>1, <2>1
    <3>2. QED
      BY <1>0, <1>2, <1>4, <3>1, ConsumeMoves
  <2>2. CASE ~ (started /\ directStamp # NoDirectStamp)
    <3>1. policy' = Latched(policy, t) /\ UNCHANGED <<broken, orders, directFacts, directMishaps>>
      BY <1>1, <2>2
    <3> DEFINE h == policy.heartbeat \/ t.heartbeat
               r == policy.prearm \/ t.prearm
    <3>2. h \in BOOLEAN /\ r \in BOOLEAN /\ policy \in Policies /\ policy.phase \in DescentPhases
      BY <1>0, <1>2, <1>4 DEF Policies, Readings, LoopTypes
    <3>3. policy' = [policy EXCEPT !.heartbeat = h, !.prearm = r]
      BY <3>1 DEF Latched
    <3> HIDE DEF h, r
    <3>4. policy' \in Policies /\ policy'.phase = policy.phase
      BY <3>2, <3>3 DEF Policies
    <3>5. Transition(policy.phase, t, "none", policy.phase)
      BY DEF Transition, Quiet
    <3>6. broken \in BOOLEAN /\ directMishaps \in 0 .. MaxDirectMishaps
      BY <1>0 DEF LoopTypes
    <3>7. QED
      BY <3>1, <3>2, <3>4, <3>5, <3>6
  <2>3. QED
    BY <2>1, <2>2
<1>6. PICK send \in Commands \cup {"none"}, to \in DescentPhases :
        /\ Transition(policy.phase, t, send, to)
        /\ \/ /\ broken' = broken /\ policy'.phase = to
              /\ orders' = IF send = "none" THEN orders ELSE Append(orders, send)
           \/ /\ broken' /\ policy'.phase = policy.phase /\ send # "none"
              /\ orders' \in {orders, Append(orders, send)}
  BY <1>m
<1>7. policy.phase = "LANDED" => policy'.phase = "LANDED"
  BY <1>6, LandedIsEnd
<1>8. LoopTypes' /\ LoopInv'
  BY <1>0, <1>1, <1>2, <1>m, <1>7, ConsumedIsTyped
<1>9. OpenInv' /\ ArmInv' /\ HighInv'
  BY <1>0, <1>1, <1>2, <1>3, <1>4, <1>5, <1>6, TransitionKeeps
<1>10. LinkTypes' /\ CraftInv'
  <2>1. orders \in Seq(Commands) /\ (send # "none" => Append(orders, send) \in Seq(Commands))
    BY <1>0, AppendProperties DEF LinkTypes
  <2>2. orders' \in Seq(Commands)
    BY <1>6, <2>1
  <2>3. QED
    BY <1>0, <1>1, <1>3, <2>2 DEF LinkTypes, CraftInv
<1>11. flight' = "descent"
  BY <1>1, <1>2
<1>12. QED
  BY <1>8, <1>9, <1>10, <1>11 DEF DirectInv, DescentInv, RollInv

\* The rest of a round of the roll missions, and of every round: the files, the outcome and
\* where the loop goes on.
LEMMA RoundKeeps ==
    ASSUME DirectInv, \/ DirectConnect \/ ClockRegresses \/ DrainEnds \/ NoControl
                      \/ DirectRecord \/ DirectClose
    PROVE  DirectInv'
<1>0. LoopTypes /\ LinkTypes /\ LoopInv /\ CraftInv /\ DescentInv /\ RollInv
  BY DEF DirectInv
<1>1. /\ UNCHANGED <<flight, policy, seen, craft, wire, orders, directStamp, started>>
      /\ broken' \in {broken, TRUE} /\ ending' \in {ending, TRUE} /\ asked' \in BOOLEAN
      /\ directMishaps' = directMishaps \/ DirectMishap
  <2>1. CASE DirectRecord
    <3>1. asked \in BOOLEAN /\ ending' \in {ending, TRUE}
      BY <1>0, <2>1 DEF DirectRecord, LoopTypes
    <3>2. asked' \in BOOLEAN
      <4>1. PICK requests \in BOOLEAN : asked' = asked \/ asked' = (asked \/ requests)
        BY <2>1, <3>1 DEF DirectRecord
      <4>2. QED
        BY <3>1, <4>1
    <3>3. QED
      BY <2>1, <3>1, <3>2 DEF DirectRecord, craftVars
  <2>2. CASE DirectConnect \/ ClockRegresses \/ DrainEnds \/ NoControl \/ DirectClose
    BY <1>0, <2>2 DEF DirectConnect, ClockRegresses, DrainEnds, NoControl, DirectClose,
                      craftVars, inboxVars, LoopTypes
  <2>3. QED
    BY <2>1, <2>2
<1>2. LinkTypes' /\ CraftInv' /\ DescentInv' /\ RollInv'
  <2>1. broken' = broken \/ broken'
    BY <1>1
  <2>2. QED
    BY <1>0, <1>1, <2>1, LinkUntouched
<1>3. /\ directMishaps' \in 0 .. MaxDirectMishaps
      /\ DirectMishap => directMishaps' > 0
  <2>1. directMishaps \in 0 .. MaxDirectMishaps /\ MaxDirectMishaps \in Nat
    BY <1>0, DirectAssumption DEF LoopTypes
  <2>2. QED
    BY <1>1, <2>1 DEF DirectMishap
<1>4. broken' \in BOOLEAN
  BY <1>0, <1>1 DEF LoopTypes
<1>5. ending' \in BOOLEAN
  BY <1>0, <1>1 DEF LoopTypes
<1>6. /\ overrides' \in {"none", "hold", "down"} /\ directFacts' \in SUBSET Facts
      /\ dpc' \in {"connect", "spin", "drain", "control", "record", "close", "over"}
      /\ LoopInv'
  <2>1. CASE DirectConnect
    BY <1>0, <1>1, <2>1 DEF DirectConnect, LoopTypes, LoopInv, OverridesEnd, Facts, Terminal
  <2>2. CASE ClockRegresses
    BY <1>0, <1>1, <2>2 DEF ClockRegresses, LoopTypes, LoopInv, OverridesEnd
  <2>3. CASE DrainEnds
    BY <1>0, <1>1, <2>3 DEF DrainEnds, LoopTypes, LoopInv, OverridesEnd, Facts
  <2>4. CASE NoControl
    BY <1>0, <1>1, <2>4 DEF NoControl, RollReady, LoopTypes, LoopInv, OverridesEnd, Facts
  <2>5. CASE DirectRecord
    <3> DEFINE flown == IF policy.phase \in {"LANDED", "COMPLETE"}
                        THEN Outcome(directFacts, "finished") ELSE directFacts
    <3>1. /\ directFacts \in SUBSET Facts /\ dpc = "record" /\ overrides' = overrides
          /\ "failure" \notin directFacts /\ "quiescence" \notin directFacts
      BY <1>0, <2>5 DEF LoopTypes, LoopInv, DirectRecord
    <3>2. /\ flown \in SUBSET Facts /\ "failure" \notin flown /\ "quiescence" \notin flown
          /\ "finished" \in flown => policy.phase \in {"LANDED", "COMPLETE"}
      BY <1>0, <3>1 DEF Outcome, Facts, Terminal, LoopInv
    <3>3. \/ dpc' = "close" /\ directFacts' = directFacts
          \/ dpc' = "close" /\ directFacts' = Outcome(flown, "failure")
          \/ /\ directFacts' = flown /\ ~ broken'
             /\ dpc' \in {"close", "spin"}
      BY <1>1, <2>5 DEF DirectRecord
    <3> HIDE DEF flown
    <3>4. /\ directFacts' \in SUBSET Facts /\ "quiescence" \notin directFacts'
          /\ "failure" \in directFacts' => dpc' = "close"
          /\ "finished" \in directFacts' => policy.phase \in {"LANDED", "COMPLETE"}
      BY <1>0, <3>1, <3>2, <3>3 DEF Outcome, Facts, Terminal, LoopInv
    <3>5. dpc' \in {"close", "spin"} /\ (dpc' = "spin" => ~ broken')
      BY <3>3
    <3>6. QED
      BY <1>0, <1>1, <3>1, <3>4, <3>5 DEF LoopInv, OverridesEnd, LoopTypes
  <2>6. CASE DirectClose
    <3>1. /\ dpc = "close" /\ dpc' = "over" /\ directFacts' = directFacts \cup {"quiescence"}
          /\ overrides' = "none" \/ (DirectMishap /\ overrides' = overrides)
      BY <2>6 DEF DirectClose
    <3>2. QED
      BY <1>0, <1>1, <1>3, <3>1 DEF LoopTypes, LoopInv, OverridesEnd, Facts
  <2>7. QED
    BY <2>1, <2>2, <2>3, <2>4, <2>5, <2>6
<1>7. LoopTypes'
  BY <1>0, <1>1, <1>3, <1>4, <1>5, <1>6 DEF LoopTypes
<1>8. QED
  BY <1>2, <1>6, <1>7 DEF DirectInv

LEMMA AgeKeeps ==
    ASSUME DirectInv, HeartbeatAges
    PROVE  DirectInv'
<1>0. LoopTypes /\ LinkTypes /\ LoopInv /\ CraftInv /\ DescentInv /\ RollInv
  BY DEF DirectInv
<1>1. /\ flight # "descent" /\ seen' = [seen EXCEPT !.heartbeat = FALSE] /\ DirectMishap
      /\ UNCHANGED <<flight, dpc, inboxVars, broken, asked, policy, overrides, directFacts>>
      /\ UNCHANGED <<craft, wire, orders>>
  BY DEF HeartbeatAges, loopVars, craftVars
<1>2. directMishaps' \in 0 .. MaxDirectMishaps /\ directMishaps' > 0
  BY <1>0, <1>1, DirectAssumption DEF DirectMishap, LoopTypes
<1>3. LoopTypes'
  BY <1>0, <1>1, <1>2 DEF LoopTypes, inboxVars
<1>4. LoopInv' /\ CraftInv'
  BY <1>0, <1>1, <1>2 DEF LoopInv, OverridesEnd, CraftInv
<1>5. /\ seen' \in Sights /\ seen'.mode = seen.mode /\ seen'.armed = seen.armed
      /\ seen'.height = seen.height /\ seen'.texts = seen.texts
  BY <1>0, <1>1 DEF LinkTypes, Sights
<1>6. LinkTypes'
  BY <1>0, <1>1, <1>5 DEF LinkTypes
<1>7. RollInv'
  BY <1>0, <1>1, <1>5 DEF RollInv, Has
<1>8. DescentInv'
  BY <1>1 DEF DescentInv
<1>9. QED
  BY <1>3, <1>4, <1>6, <1>7, <1>8 DEF DirectInv

LEMMA ControlKeeps ==
    ASSUME DirectInv, RollControl
    PROVE  DirectInv'
<1>0. LoopTypes /\ LinkTypes /\ LoopInv /\ CraftInv /\ DescentInv /\ RollInv
  BY DEF DirectInv
<1>1. dpc = "control" => flight # "descent"
  BY <1>0 DEF LoopInv
<1>2. /\ flight \in {"autotune", "hover"} /\ dpc = "control" /\ dpc' = "record"
      /\ policy' \in Policies /\ policy'.phase \in RollPhases /\ broken' \in BOOLEAN
      /\ orders' \in Seq(Commands) /\ overrides' \in {"none", "hold", "down"}
      /\ directMishaps' \in 0 .. MaxDirectMishaps
      /\ directFacts' \subseteq directFacts \cup {"mission-ready", "delivered"}
      /\ seen' \in Sights
      /\ UNCHANGED <<flight, inboxVars, asked, craft, wire>>
      /\ policy.phase = "COMPLETE" => policy'.phase = "COMPLETE"
  BY <1>0, <1>1, RollControlMoves
<1>3. LoopTypes'
  <2>1. directFacts' \in SUBSET Facts
    BY <1>0, <1>2 DEF LoopTypes, Facts
  <2>2. QED
    BY <1>0, <1>2, <2>1 DEF LoopTypes, inboxVars
<1>4. LoopInv'
  <2>1. policy.phase # "LANDED"
    BY <1>0, <1>2 DEF LoopTypes, RollPhases
  <2>2. /\ "failure" \notin directFacts' /\ "quiescence" \notin directFacts'
        /\ "finished" \in directFacts' => policy'.phase = "COMPLETE"
    BY <1>0, <1>2, <2>1 DEF LoopInv
  <2>3. QED
    BY <1>2, <2>2 DEF LoopInv, OverridesEnd
<1>5. LinkTypes' /\ CraftInv'
  BY <1>0, <1>2 DEF LinkTypes, CraftInv
<1>6. RollInv'
  BY <1>0, <1>1, RollKeptByControl
<1>7. DescentInv'
  BY <1>2 DEF DescentInv
<1>8. QED
  BY <1>3, <1>4, <1>5, <1>6, <1>7 DEF DirectInv

LEMMA DirectInvStep ==
    ASSUME DirectInv, DirectNext \/ UNCHANGED directVars
    PROVE  DirectInv'
<1>1. CASE UNCHANGED directVars
  <2>1. /\ UNCHANGED <<flight, dpc, inboxVars, broken, asked, policy, overrides, directFacts>>
        /\ UNCHANGED <<seen, craft, wire, orders, directMishaps>>
    BY <1>1 DEF directVars, loopVars, craftVars
  <2>2. LoopTypes' /\ LoopInv'
    BY <2>1 DEF DirectInv, LoopTypes, LoopInv, OverridesEnd, inboxVars
  <2>3. LinkTypes' /\ CraftInv' /\ DescentInv' /\ RollInv'
    BY <2>1, LinkUntouched DEF DirectInv
  <2>4. QED
    BY <2>2, <2>3 DEF DirectInv
<1>2. CASE DirectNext
  BY <1>2, DirectInvVehicle, SpinKeeps, DrainKeeps, RoundKeeps, AgeKeeps, ControlKeeps
  DEF DirectNext
<1>3. QED
  BY <1>1, <1>2

\* What the missions flown without a host promise of every state.
LEMMA DirectIsSafe ==
    ASSUME DirectInv
    PROVE  DirectTypeOK /\ OneOrder /\ FlownIsFlown /\ OverridesEnd
<1>0. LoopTypes /\ LinkTypes /\ LoopInv /\ CraftInv /\ DescentInv /\ RollInv
  BY DEF DirectInv
<1>1. DirectTypeOK
  <2>1. \A i \in 1 .. Len(wire) : OnWire(wire[i])
    <3>1. ASSUME NEW i \in 1 .. Len(wire) PROVE wire[i] \in Telegrams
      BY <1>0 DEF LinkTypes
    <3>2. \A m \in Telegrams : OnWire(m)
      BY DEF Telegrams, OnWire, Ordered, Commands
    <3>3. QED
      BY <3>1, <3>2
  <2>2. \A i \in 1 .. Len(orders) : Ordered(orders[i])
    <3>1. ASSUME NEW i \in 1 .. Len(orders) PROVE orders[i] \in Commands
      BY <1>0 DEF LinkTypes
    <3>2. QED
      BY <3>1 DEF Commands, Ordered
  <2>3. \A i \in 1 .. Len(seen.texts) : seen.texts[i] \in {"success", "failed", "saved"}
    BY <1>0 DEF LinkTypes, Sights
  <2>4. /\ policy.heartbeat \in BOOLEAN /\ policy.prearm \in BOOLEAN
        /\ policy.descended \in BOOLEAN /\ policy.saved \in BOOLEAN
        /\ policy.since \in 0 .. LastDirectStamp
    BY <1>0 DEF LoopTypes, Policies
  <2>5. /\ seen.mode \in Modes \cup {"none"} /\ seen.height \in Heights \cup {"none"}
        /\ {seen.armed, seen.landed} \subseteq {"yes", "no", "none"}
        /\ seen.heartbeat \in BOOLEAN /\ seen.armable \in BOOLEAN
    BY <1>0 DEF LinkTypes, Sights
  <2>6. /\ craft.mode \in Modes /\ craft.armed \in {"yes", "no"} /\ craft.height \in Heights
        /\ craft.climbing \in BOOLEAN /\ craft.flown \in BOOLEAN
        /\ craft.gains \in {"old", "tuned", "failed", "saved"}
    BY <1>0 DEF LinkTypes, Crafts
  <2>7. QED
    BY <1>0, <2>1, <2>2, <2>3, <2>4, <2>5, <2>6 DEF DirectTypeOK, LoopTypes, Facts
<1>2. OneOrder
  <2>1. SUFFICES ASSUME flight = "descent"
                 PROVE  Len(orders) + Cardinality({i \in 1 .. Len(wire) : wire[i].kind = "ack"}) <= 1
    BY DEF OneOrder
  <2> DEFINE acks == {i \in 1 .. Len(wire) : wire[i].kind = "ack"}
             n == Len(orders)
             k == Cardinality(acks)
  <2>2. /\ n \in Nat /\ n <= 1 /\ (n # 0 => orders # <<>>)
        /\ orders # <<>> => acks = {}
        /\ \A i, j \in acks : i = j
    <3>1. OpenInv
      BY <1>0, <2>1 DEF DescentInv
    <3>2. n \in Nat /\ (n # 0 => orders # <<>>)
      BY <1>0, EmptySeq DEF LinkTypes
    <3>3. QED
      BY <3>1, <3>2 DEF OpenInv, NoAck, IsAck
  <2>3. k = 0 \/ k = 1
    <3>1. CASE acks = {}
      BY <3>1, FS_EmptySet
    <3>2. CASE acks # {}
      <4>1. PICK i \in acks : acks = {i}
        BY <2>2, <3>2
      <4>2. QED
        BY <4>1, FS_Singleton
    <3>3. QED
      BY <3>1, <3>2
  <2>4. acks = {} => k = 0
    BY FS_EmptySet
  <2> HIDE DEF n, k, acks
  <2>5. n + k <= 1
    BY <2>2, <2>3, <2>4
  <2>6. QED
    BY <2>5 DEF n, k, acks
<1>3. FlownIsFlown
  <2>1. SUFFICES ASSUME "finished" \in directFacts
                 PROVE  /\ craft.flown /\ craft.height = "ground" /\ craft.armed = "no"
                        /\ flight = "autotune" => craft.gains = "saved"
    BY DEF FlownIsFlown
  <2>2. policy.phase \in {"LANDED", "COMPLETE"} /\ policy.phase \in
          (IF flight = "descent" THEN DescentPhases ELSE RollPhases)
    BY <1>0, <2>1 DEF LoopInv, LoopTypes
  <2>3. CASE flight = "descent"
    <3>1. policy.phase = "LANDED"
      BY <2>2, <2>3 DEF DescentPhases
    <3>2. craft.flown /\ craft.armed = "no"
      BY <1>0, <2>3, <3>1 DEF DescentInv, ArmInv, HighInv, AfterHigh
    <3>3. QED
      BY <1>0, <2>3, <3>2 DEF CraftInv
  <2>4. CASE flight # "descent"
    <3>1. policy.phase = "COMPLETE"
      BY <2>2, <2>4 DEF RollPhases
    <3>2. /\ craft.flown /\ craft.armed = "no"
          /\ flight = "autotune" => craft.gains = "saved"
      BY <1>0, <2>4, <3>1 DEF RollInv, Late
    <3>3. QED
      BY <1>0, <3>2 DEF CraftInv
  <2>5. QED
    BY <2>3, <2>4
<1>4. QED
  BY <1>0, <1>1, <1>2, <1>3 DEF LoopInv

\* And of every step.
LEMMA DirectEndsOnce ==
    ASSUME DirectInv, DirectNext \/ UNCHANGED directVars
    PROVE  DirectIsFinal
<1>0. LoopTypes /\ LinkTypes /\ LoopInv /\ CraftInv /\ DescentInv /\ RollInv
  BY DEF DirectInv
<1> DEFINE less == IF orders = <<>> THEN orders ELSE Tail(orders)
<1>1. ASSUME directFacts \cap Terminal # {}
      PROVE  directFacts' \cap Terminal = directFacts \cap Terminal /\ orders' \in {orders, less}
  <2>1. policy.phase \in {"LANDED", "COMPLETE"} \/ dpc \in {"close", "over"}
    BY <1>0, <1>1 DEF LoopInv, Terminal
  <2>2. CASE DirectSpin \/ DescentDrain
    <3>1. \/ dpc \notin {"close", "over"} /\ flight = "descent"
          \/ UNCHANGED <<orders, directFacts>>
      BY <1>0, <2>2 DEF DirectSpin, DescentDrain, BeginMission, LoopInv
    <3>2. CASE UNCHANGED <<orders, directFacts>>
      BY <3>2
    <3>3. CASE ~ UNCHANGED <<orders, directFacts>>
      <4>1. flight = "descent" /\ policy.phase = "LANDED"
        BY <1>0, <2>1, <3>1, <3>3 DEF LoopTypes, DescentPhases
      <4>2. PICK t \in Readings : \E stamp : Consume(policy, t, stamp)
        <5>1. CASE DirectSpin
          <6>1. [NoTelemetry EXCEPT !.heartbeat = TRUE, !.prearm = TRUE] \in Readings
            BY DEF NoTelemetry, Readings
          <6>2. QED
            BY <3>3, <5>1, <6>1 DEF DirectSpin, BeginMission
        <5>2. CASE DescentDrain
          <6>1. Consume(policy, Telemetry(Kept(seen, Head(wire)), Head(wire)), directStamp)
            BY <3>3, <5>2 DEF DescentDrain
          <6>2. Head(wire) \in Telegrams
            BY <1>0, <5>2, HeadTailProperties DEF DescentDrain, LinkTypes
          <6>3. Telemetry(Kept(seen, Head(wire)), Head(wire)) \in Readings
            BY <1>0, <6>2, TelemetrySays DEF LinkTypes
          <6>4. QED
            BY <6>1, <6>3
        <5>3. QED
          BY <2>2, <5>1, <5>2
      <4>3. directFacts' \in {directFacts, directFacts \cup {"delivered"}}
        BY <1>0, <4>1, <4>2, ConsumeMoves
      <4>4. orders' = orders
        BY <1>0, <4>1, <4>2, ConsumeMoves, LandedIsEnd
      <4>5. QED
        BY <4>3, <4>4 DEF Terminal
    <3>4. QED
      BY <3>2, <3>3
  <2>3. CASE RollControl
    <3>1. dpc = "control" => flight # "descent"
      BY <1>0 DEF LoopInv
    <3>2. /\ flight \in {"autotune", "hover"} /\ dpc = "control"
          /\ directFacts' \subseteq directFacts \cup {"mission-ready", "delivered"}
          /\ directFacts \subseteq directFacts'
          /\ policy.phase = "COMPLETE" => orders' = orders
      BY <1>0, <2>3, <3>1, RollControlMoves
    <3>3. policy.phase = "COMPLETE"
      BY <1>0, <2>1, <3>2 DEF LoopTypes, RollPhases
    <3>4. QED
      BY <3>2, <3>3 DEF Terminal
  <2>4. CASE DirectRecord
    <3> DEFINE flown == IF policy.phase \in {"LANDED", "COMPLETE"}
                        THEN Outcome(directFacts, "finished") ELSE directFacts
    <3>1. flown = directFacts /\ Outcome(flown, "failure") = directFacts
      BY <1>1 DEF Outcome
    <3>2. orders' = orders /\ directFacts' \in {directFacts, flown, Outcome(flown, "failure")}
      BY <2>4 DEF DirectRecord, craftVars
    <3>3. QED
      BY <3>1, <3>2
  <2>5. CASE DirectConnect \/ ClockRegresses \/ DrainEnds \/ NoControl \/ HeartbeatAges \/ DirectClose
    <3>1. /\ orders' = orders
          /\ directFacts' \in {directFacts, directFacts \cup {"mission-ready"},
                               directFacts \cup {"quiescence"}}
      <4>1. CASE DirectConnect
        BY <1>0, <1>1, <4>1 DEF DirectConnect, LoopInv
      <4>2. CASE ClockRegresses \/ DrainEnds \/ NoControl \/ HeartbeatAges \/ DirectClose
        BY <4>2 DEF ClockRegresses, DrainEnds, NoControl, RollReady, HeartbeatAges, DirectClose,
                    craftVars, loopVars
      <4>3. QED
        BY <2>5, <4>1, <4>2
    <3>2. QED
      BY <3>1 DEF Terminal
  <2>6. CASE Obey \/ VehicleActs \/ ModeChanges
    <3>1. directFacts' = directFacts /\ orders' \in {orders, less}
      BY <2>6 DEF Obey, VehicleActs, ModeChanges, loopVars
    <3>2. QED
      BY <3>1
  <2>7. CASE UNCHANGED directVars
    BY <2>7 DEF directVars, loopVars, craftVars
  <2>8. QED
    BY <2>2, <2>3, <2>4, <2>5, <2>6, <2>7 DEF DirectNext
<1>2. ASSUME "quiescence" \in directFacts PROVE UNCHANGED loopVars
  <2>1. dpc = "over"
    BY <1>0, <1>2 DEF LoopInv
  <2>2. QED
    BY <2>1 DEF DirectNext, DirectConnect, DirectSpin, ClockRegresses, DescentDrain, DrainEnds,
                HeartbeatAges, RollControl, NoControl, DirectRecord, DirectClose, Obey, VehicleActs,
                ModeChanges, directVars
<1>3. QED
  BY <1>1, <1>2 DEF DirectIsFinal

-----------------------------------------------------------------------------
(* The configured run. *)

Entries == [tool : Tools, state : {"running", "succeeded", "failed", "cancelled"}]
OpsSet == [status : Seq(Entries), active : Nat, acked : BOOLEAN, due : BOOLEAN, stopped : BOOLEAN,
           recovery : Nat, phase : {"none", "land", "return"}, sent : Seq(Nat),
           mode : {"OTHER", "GUIDED", "LAND"}, armed : {"unknown", "yes", "no"},
           landed : {"unknown", "yes", "no"}, reached : BOOLEAN, failsafe : BOOLEAN,
           fresh : SUBSET Messages, newer : SUBSET Messages,
           service : {"none", "pending", "accepted", "refused", "cancelled"},
           judge : {"none", "pending", "asked", "approved", "rejected"},
           disarmed : {"no", "first", "ready"}]
Hosts == [mission : {"running", "succeeded", "failed", "cancelled"}, step : Nat, op : Nat,
          started : BOOLEAN, error : BOOLEAN, recovery : Nat,
          facts : SUBSET {"execution-ready", "finished", "failure", "quiescence"}]

Bad(o, i) == o.status[i].state \in {"failed", "cancelled"}
Good(o, i) == o.status[i].state \in {"running", "succeeded"}
After(o) == {i \in 1 .. Len(o.status) :
               /\ \E k \in 1 .. Len(o.sent) : o.sent[k] = i
               /\ \E f \in 1 .. Len(o.status) : f < i /\ Bad(o, f)}

\* The newest operation is the one that runs, if any does.
OpsForm(o) ==
    /\ o \in OpsSet
    /\ o.active \in {0, Len(o.status)} /\ o.recovery \in 0 .. Len(o.status)
    /\ \A i \in 1 .. Len(o.status) : o.status[i].state = "running" <=> i = o.active
    /\ \A k \in 1 .. Len(o.sent) : o.sent[k] \in 1 .. Len(o.status)

\* What commanded the vehicle after a failure is one recovery, which goes on commanding only
\* if it is the way home.
OneAfter(o, tools) ==
    /\ \A i, j \in After(o) : i = j
    /\ \A i \in After(o) : o.status[i].tool \in tools
    /\ o.active # 0 /\ Tool(o) = "attempt_recovery" => After(o) \subseteq {o.active}
OpsInv(o) ==
    /\ OpsForm(o) /\ OneAfter(o, {"land", "attempt_recovery"})
    /\ After(o) # {} \/ (o.active # 0 /\ Tool(o) = "attempt_recovery") => o.recovery # 0

\* While the mission runs, every step so far has its operation, and all but the last of
\* them succeeded; a last one that did not fail is the newest of all.
Stepped(o, h) ==
    /\ \A i \in 1 .. Len(o.status) : i < h.op => o.status[i].state = "succeeded"
    /\ h.op = 0 \/ Good(o, h.op) => Len(o.status) = h.op /\ ~ o.stopped /\ o.recovery = 0
    /\ \A i \in 1 .. Len(plan) : i <= h.step /\ plan[i].when = "always" =>
         \E k \in 1 .. Len(o.status) : k <= h.op /\ o.status[k].tool = plan[i].tool

\* A mission on record as finished had every step done, and is left alone unless the host
\* fails afterwards.
Earned(o, h) ==
    /\ h.mission = "succeeded"
    /\ ~ h.error => o.active = 0 /\ \A i \in 1 .. Len(o.status) : o.status[i].state = "succeeded"
    /\ \A i \in 1 .. Len(plan) : plan[i].when = "always" =>
         \E k \in 1 .. Len(o.status) :
           o.status[k].tool = plan[i].tool /\ o.status[k].state = "succeeded"

HostInv(o, h) ==
    /\ h \in Hosts /\ h.step \in 0 .. Len(plan) + 1 /\ h.op \in 0 .. Len(o.status)
    /\ h.recovery \in 0 .. Len(o.status) /\ (h.recovery # 0 => o.recovery # 0)
    /\ h.mission = "running" => Stepped(o, h)
    /\ "finished" \in h.facts => Earned(o, h)
    /\ "failure" \in h.facts => h.error

ConfiguredInv ==
    /\ lpc \in {"start", "loop", "closing", "over"} /\ plan \in Plans
    /\ told \in SUBSET {"running", "stop"} /\ expired \in BOOLEAN
    /\ eligible \in {"none", "yes", "no"} /\ recoveryLate \in BOOLEAN
    /\ runMishaps \in 0 .. MaxRunMishaps
    /\ OpsInv(ops) /\ HostInv(ops, host)
    /\ lpc = "start" => host.facts = {}
    /\ "quiescence" \in host.facts => lpc = "over"

-----------------------------------------------------------------------------
(* The operations of a configured run. *)

\* Operations are only added, and the end of one is final.
Grown(o, p) ==
    /\ Len(o.status) <= Len(p.status)
    /\ \A i \in 1 .. Len(o.status) :
         /\ p.status[i].tool = o.status[i].tool
         /\ o.status[i].state # "running" => p.status[i].state = o.status[i].state
    /\ o.recovery # 0 => p.recovery # 0
\* Nothing was added, stopped or recovered.
Calm(o, p) ==
    Len(p.status) = Len(o.status) /\ p.stopped = o.stopped /\ p.recovery = o.recovery
\* What telemetry and time do: an operation that does not fail is not followed by another.
Flows(o, p) ==
    /\ Grown(o, p)
    /\ o.active = 0 => p.active = 0 /\ Calm(o, p)
    /\ o.active # 0 /\ Good(p, o.active) => Calm(o, p)

LEMMA FormSays ==
    ASSUME NEW o, OpsForm(o)
    PROVE  /\ o.status \in Seq(Entries) /\ Len(o.status) \in Nat /\ o.active \in Nat
           /\ \A i \in 1 .. Len(o.status) : o.status[i] \in Entries
           /\ \A i \in 1 .. Len(o.status) : Good(o, i) \/ Bad(o, i)
           /\ \A i \in 1 .. Len(o.status) : ~ (Good(o, i) /\ Bad(o, i))
           /\ o.active # 0 => o.active \in 1 .. Len(o.status) /\ o.active = Len(o.status)
           /\ o.recovery \in Nat /\ o.sent \in Seq(Nat) /\ Len(o.sent) \in Nat
<1>1. /\ o.status \in Seq(Entries) /\ o.active \in Nat /\ o.recovery \in Nat /\ o.sent \in Seq(Nat)
  BY DEF OpsForm, OpsSet
<1>2. \A i \in 1 .. Len(o.status) : o.status[i] \in Entries
  BY <1>1
<1>3. Len(o.status) \in Nat /\ Len(o.sent) \in Nat
  BY <1>1
<1>4. o.active # 0 => o.active \in 1 .. Len(o.status) /\ o.active = Len(o.status)
  BY <1>1, <1>3 DEF OpsForm
<1>5. /\ \A i \in 1 .. Len(o.status) : Good(o, i) \/ Bad(o, i)
      /\ \A i \in 1 .. Len(o.status) : ~ (Good(o, i) /\ Bad(o, i))
  BY <1>2 DEF Good, Bad, Entries
<1>6. QED
  BY <1>1, <1>2, <1>3, <1>4, <1>5

LEMMA GrownOn ==
    ASSUME NEW o, NEW p, NEW q, OpsForm(o), OpsForm(p), OpsForm(q), Grown(o, p), Grown(p, q)
    PROVE  Grown(o, q)
<1>1. Len(o.status) \in Nat /\ Len(p.status) \in Nat /\ Len(q.status) \in Nat
  BY FormSays
<1>2. \A i \in 1 .. Len(o.status) : i \in 1 .. Len(p.status)
  BY <1>1 DEF Grown
<1>3. Len(o.status) <= Len(q.status)
  BY <1>1 DEF Grown
<1>4. \A i \in 1 .. Len(o.status) :
        /\ q.status[i].tool = o.status[i].tool
        /\ o.status[i].state # "running" => q.status[i].state = o.status[i].state
  BY <1>2 DEF Grown
<1>5. QED
  BY <1>3, <1>4 DEF Grown

LEMMA FlowsOn ==
    ASSUME NEW o, NEW p, NEW q, OpsForm(o), OpsForm(p), OpsForm(q), Flows(o, p), Flows(p, q)
    PROVE  Flows(o, q)
<1>1. Grown(o, q)
  BY GrownOn DEF Flows
<1>2. o.active = 0 => q.active = 0 /\ Calm(o, q)
  BY DEF Flows, Calm
<1>3. ASSUME o.active # 0, Good(q, o.active) PROVE Calm(o, q)
  <2>1. /\ o.active \in 1 .. Len(o.status) /\ o.active = Len(o.status)
        /\ Len(o.status) \in Nat /\ Len(p.status) \in Nat
    BY <1>3, FormSays
  <2>2. o.active \in 1 .. Len(p.status)
    BY <2>1 DEF Flows, Grown
  <2>3. Good(p, o.active)
    <3>1. ~ Bad(p, o.active)
      BY <1>3, <2>2 DEF Flows, Grown, Good, Bad
    <3>2. QED
      BY <2>2, <3>1, FormSays
  <2>4. Calm(o, p)
    BY <1>3, <2>3 DEF Flows
  <2>5. p.active = 0 \/ p.active = o.active
    BY <2>1, <2>4 DEF OpsForm, Calm
  <2>6. Calm(p, q)
    BY <1>3, <2>5 DEF Flows
  <2>7. QED
    BY <2>4, <2>6 DEF Calm
<1>4. QED
  BY <1>1, <1>2, <1>3 DEF Flows

\* What is observed, awaited or answered aside from the operations and orders.
LEMMA OpsAside ==
    ASSUME NEW o, OpsForm(o), NEW p \in OpsSet,
           p.status = o.status, p.active = o.active, p.recovery = o.recovery, p.sent = o.sent
    PROVE  /\ OpsForm(p) /\ After(p) = After(o) /\ Grown(o, p)
           /\ OpsInv(o) => OpsInv(p)
           /\ p.stopped = o.stopped => Flows(o, p)
<1>1. OpsForm(p)
  BY DEF OpsForm
<1>2. After(p) = After(o)
  BY DEF After, Bad
<1>3. OneAfter(o, {"land", "attempt_recovery"}) => OneAfter(p, {"land", "attempt_recovery"})
  BY <1>2 DEF OneAfter, Tool
<1>4. Grown(o, p)
  <2>1. Len(o.status) \in Nat
    BY FormSays
  <2>2. QED
    BY <2>1 DEF Grown
<1>5. OpsInv(o) => OpsInv(p)
  BY <1>1, <1>2, <1>3 DEF OpsInv, Tool
<1>6. p.stopped = o.stopped => Flows(o, p)
  BY <1>4 DEF Flows, Calm
<1>7. QED
  BY <1>1, <1>2, <1>4, <1>5, <1>6

\* The end of an operation: nothing came after it.
LEMMA FinishKeeps ==
    ASSUME NEW o, OpsForm(o), NEW state \in {"succeeded", "failed", "cancelled"}
    PROVE  LET p == Finish(o, state)
           IN /\ OpsForm(p) /\ p.active = 0 /\ After(p) = After(o)
              /\ Len(p.status) = Len(o.status) /\ p.recovery = o.recovery /\ p.sent = o.sent
              /\ p.stopped = o.stopped \/ (o.active # 0 /\ state # "succeeded")
              /\ o.active # 0 => p.status[o.active].state = state
              /\ \A i \in 1 .. Len(o.status) : i # o.active => p.status[i] = o.status[i]
              /\ Flows(o, p)
              /\ OpsInv(o) => OpsInv(p)
<1> DEFINE p == Finish(o, state)
<1>0. /\ o.status \in Seq(Entries) /\ Len(o.status) \in Nat /\ o.active \in Nat
      /\ \A i \in 1 .. Len(o.status) : o.status[i] \in Entries
      /\ o.active # 0 => o.active \in 1 .. Len(o.status) /\ o.active = Len(o.status)
      /\ o \in OpsSet
  BY FormSays DEF OpsForm
<1>1. CASE o.active = 0
  <2>1. p = o
    BY <1>1 DEF Finish
  <2>2. Flows(o, o)
    BY <1>0 DEF Flows, Grown, Calm
  <2>3. QED
    BY <1>1, <2>1, <2>2
<1>2. CASE o.active # 0
  <2> DEFINE a == o.active
             e == [o.status[a] EXCEPT !.state = state]
             st == [o.status EXCEPT ![a] = e]
             stop == o.stopped \/ state # "succeeded"
             serv == IF o.service = "pending" /\ state # "succeeded" THEN "cancelled" ELSE o.service
  <2>1. p = [o EXCEPT !.status = st, !.active = 0, !.acked = FALSE, !.due = FALSE, !.newer = {},
                      !.reached = FALSE, !.stopped = stop, !.service = serv]
    BY <1>0, <1>2 DEF Finish, OpsSet
  <2>2. e \in Entries /\ e.tool = o.status[a].tool /\ e.state = state
    BY <1>0, <1>2 DEF Entries
  <2>3. /\ st \in Seq(Entries) /\ Len(st) = Len(o.status)
        /\ \A i \in 1 .. Len(o.status) : st[i] = IF i = a THEN e ELSE o.status[i]
    <3> HIDE DEF e
    <3>1. QED
      BY <1>0, <1>2, <2>2, ExceptSeq
  <2>4. stop \in BOOLEAN
    BY <1>0 DEF OpsSet
  <2>5. serv \in {"none", "pending", "accepted", "refused", "cancelled"}
    BY <1>0 DEF OpsSet
  <2>6. stop = o.stopped \/ state # "succeeded"
    BY <1>0 DEF OpsSet
  <2> HIDE DEF e, st, stop, serv, p
  <2>7. /\ p.status = st /\ p.active = 0 /\ p.recovery = o.recovery /\ p.sent = o.sent
        /\ p.stopped = stop
    BY <1>0, <2>1 DEF OpsSet
  <2>8. p \in OpsSet
    BY <1>0, <2>1, <2>3, <2>4, <2>5, ZenonT(60) DEF OpsSet
  <2>9. OpsForm(p)
    <3>1. \A i \in 1 .. Len(p.status) : p.status[i].state = "running" <=> i = p.active
      BY <1>0, <1>2, <2>2, <2>3, <2>7 DEF OpsForm
    <3>2. QED
      BY <2>3, <2>7, <2>8, <3>1 DEF OpsForm
  <2>10. After(p) = After(o)
    <3>1. ASSUME NEW f \in 1 .. Len(o.status), NEW i \in 1 .. Len(o.status), f < i
          PROVE  Bad(p, f) <=> Bad(o, f)
      BY <1>0, <1>2, <2>3, <2>7, <3>1 DEF Bad
    <3>2. ASSUME NEW i \in 1 .. Len(o.status)
          PROVE  (\E f \in 1 .. Len(o.status) : f < i /\ Bad(p, f))
                   <=> (\E f \in 1 .. Len(o.status) : f < i /\ Bad(o, f))
      BY <3>1
    <3>3. QED
      BY <2>3, <2>7, <3>2 DEF After
  <2>11. /\ \A i \in 1 .. Len(o.status) : i # o.active => p.status[i] = o.status[i]
         /\ p.status[o.active].state = state
         /\ \A i \in 1 .. Len(o.status) : p.status[i].tool = o.status[i].tool
    BY <1>0, <1>2, <2>2, <2>3, <2>7
  <2>12. Grown(o, p)
    <3>1. \A i \in 1 .. Len(o.status) :
            o.status[i].state # "running" => p.status[i].state = o.status[i].state
      BY <1>0, <1>2, <2>11 DEF OpsForm
    <3>2. QED
      BY <1>0, <2>3, <2>7, <2>11, <3>1 DEF Grown
  <2>13. Flows(o, p)
    <3>1. Good(p, o.active) => state = "succeeded"
      BY <2>11 DEF Good
    <3>2. state = "succeeded" => p.stopped = o.stopped
      BY <2>6, <2>7
    <3>3. QED
      BY <1>2, <2>3, <2>7, <2>12, <3>1, <3>2 DEF Flows, Calm
  <2>14. OpsInv(o) => OpsInv(p)
    <3>1. \A i \in After(o) : i \in 1 .. Len(o.status)
      BY DEF After
    <3>2. OneAfter(o, {"land", "attempt_recovery"}) => OneAfter(p, {"land", "attempt_recovery"})
      BY <2>7, <2>10, <2>11, <3>1 DEF OneAfter
    <3>3. QED
      BY <2>7, <2>9, <2>10, <3>2 DEF OpsInv
  <2>15. p.stopped = o.stopped \/ (o.active # 0 /\ state # "succeeded")
    BY <1>2, <2>6, <2>7
  <2>16. QED
    BY <2>3, <2>7, <2>9, <2>10, <2>11, <2>13, <2>14, <2>15 DEF p
<1>3. QED
  BY <1>1, <1>2

LEMMA BeginForms ==
    ASSUME NEW o, OpsForm(o), o.active = 0, NEW tool \in Tools
    PROVE  LET b == Begin(o, tool)
           IN /\ OpsForm(b) /\ After(b) = After(o) /\ Grown(o, b)
              /\ Len(b.status) = Len(o.status) + 1 /\ b.active = Len(o.status) + 1
              /\ b.active # 0 /\ Tool(b) = tool
              /\ \A i \in 1 .. Len(o.status) : b.status[i] = o.status[i]
              /\ b.recovery = o.recovery /\ b.stopped = o.stopped /\ b.sent = o.sent /\ ~ b.due
              /\ b.mode = o.mode
<1> DEFINE b == Begin(o, tool)
           e == [tool |-> tool, state |-> "running"]
           st == Append(o.status, e)
           k == Len(o.status) + 1
<1>0. /\ o.status \in Seq(Entries) /\ Len(o.status) \in Nat /\ k \in Nat /\ k # 0 /\ o \in OpsSet
      /\ o.recovery \in 0 .. Len(o.status)
  BY FormSays DEF OpsForm
<1>1. b = [o EXCEPT !.status = st, !.active = k, !.acked = FALSE, !.due = FALSE, !.newer = {},
                    !.reached = FALSE]
  BY <1>0 DEF Begin, OpsSet
<1>2. e \in Entries /\ e.tool = tool /\ e.state = "running"
  BY DEF Entries
<1> HIDE DEF e
<1>3. /\ st \in Seq(Entries) /\ Len(st) = k /\ st[k] = e
      /\ \A i \in 1 .. Len(o.status) : st[i] = o.status[i]
  BY <1>0, <1>2, AppendProperties
<1> HIDE DEF st, k, b
<1>4. b \in OpsSet
  BY <1>0, <1>1, <1>3 DEF OpsSet
<1>5. /\ b.status = st /\ b.active = k /\ b.recovery = o.recovery /\ b.stopped = o.stopped
      /\ b.sent = o.sent /\ b.due = FALSE /\ b.mode = o.mode
  BY <1>0, <1>1 DEF OpsSet
<1>6. k = Len(o.status) + 1
  BY DEF k
<1>7. \A i \in 1 .. k : i \in 1 .. Len(o.status) \/ i = k
  BY <1>0, <1>6
<1>8. OpsForm(b)
  <2>1. \A i \in 1 .. Len(b.status) : b.status[i].state = "running" <=> i = b.active
    BY <1>0, <1>2, <1>3, <1>5, <1>6, <1>7 DEF OpsForm
  <2>2. \A j \in 1 .. Len(b.sent) : b.sent[j] \in 1 .. Len(b.status)
    BY <1>0, <1>3, <1>5, <1>6 DEF OpsForm
  <2>3. b.recovery \in 0 .. Len(b.status)
    BY <1>0, <1>3, <1>5, <1>6
  <2>4. QED
    BY <1>3, <1>4, <1>5, <2>1, <2>2, <2>3 DEF OpsForm
<1>9. After(b) = After(o)
  <2>1. ASSUME NEW i \in 1 .. k, \E j \in 1 .. Len(o.sent) : o.sent[j] = i
        PROVE  i \in 1 .. Len(o.status)
    BY <1>0, <1>6, <2>1 DEF OpsForm
  <2>2. \A i \in 1 .. Len(o.status) : i \in 1 .. k /\ (Bad(b, i) <=> Bad(o, i)) /\ i # k
    BY <1>0, <1>3, <1>5, <1>6 DEF Bad
  <2>3. ASSUME NEW i \in 1 .. Len(o.status)
        PROVE  (\E f \in 1 .. k : f < i /\ Bad(b, f))
                 <=> (\E f \in 1 .. Len(o.status) : f < i /\ Bad(o, f))
    BY <1>0, <1>6, <1>7, <2>2
  <2>4. QED
    BY <1>3, <1>5, <2>1, <2>2, <2>3 DEF After
<1>10. Grown(o, b)
  BY <1>0, <1>3, <1>5, <1>6 DEF Grown
<1>11. Tool(b) = tool
  BY <1>2, <1>3, <1>5 DEF Tool
<1>12. QED
  BY <1>0, <1>3, <1>5, <1>6, <1>8, <1>9, <1>10, <1>11 DEF b

LEMMA SendForms ==
    ASSUME NEW o, OpsForm(o), o.active # 0
    PROVE  LET p == Send(o)
           IN /\ OpsForm(p) /\ After(p) \subseteq After(o) \cup {o.active}
              /\ (\A f \in 1 .. Len(o.status) : ~ Bad(o, f)) => After(p) = {}
              /\ p.status = o.status /\ p.active = o.active /\ p.recovery = o.recovery
              /\ p.stopped = o.stopped /\ p.due = o.due
              /\ Flows(o, p)
<1> DEFINE p == Send(o)
           s == Append(o.sent, o.active)
<1>0. /\ o \in OpsSet /\ o.active \in 1 .. Len(o.status) /\ o.active \in Nat
      /\ o.sent \in Seq(Nat) /\ Len(o.sent) \in Nat /\ Len(o.status) \in Nat
  BY FormSays DEF OpsForm
<1>1. /\ s \in Seq(Nat) /\ Len(s) = Len(o.sent) + 1 /\ s[Len(o.sent) + 1] = o.active
      /\ \A j \in 1 .. Len(o.sent) : s[j] = o.sent[j]
  BY <1>0, AppendProperties
<1>2. p = [o EXCEPT !.sent = s]
  BY <1>0 DEF Send, OpsSet
<1> HIDE DEF s, p
<1>3. /\ p \in OpsSet /\ p.sent = s
      /\ p.status = o.status /\ p.active = o.active /\ p.recovery = o.recovery
      /\ p.stopped = o.stopped /\ p.due = o.due
  BY <1>0, <1>1, <1>2 DEF OpsSet
<1>4. \A j \in 1 .. Len(s) : j \in 1 .. Len(o.sent) \/ s[j] = o.active
  BY <1>0, <1>1
<1>5. OpsForm(p)
  <2>1. \A j \in 1 .. Len(p.sent) : p.sent[j] \in 1 .. Len(p.status)
    BY <1>0, <1>1, <1>3, <1>4 DEF OpsForm
  <2>2. QED
    BY <1>3, <2>1 DEF OpsForm
<1>6. After(p) \subseteq After(o) \cup {o.active}
  <2>1. ASSUME NEW i \in 1 .. Len(o.status), \E j \in 1 .. Len(s) : s[j] = i, i # o.active
        PROVE  \E j \in 1 .. Len(o.sent) : o.sent[j] = i
    BY <1>1, <1>4, <2>1
  <2>2. \A f \in 1 .. Len(o.status) : Bad(p, f) <=> Bad(o, f)
    BY <1>3 DEF Bad
  <2>3. QED
    BY <1>3, <2>1, <2>2 DEF After
<1>7. (\A f \in 1 .. Len(o.status) : ~ Bad(o, f)) => After(p) = {}
  BY <1>3 DEF After, Bad
<1>8. Flows(o, p)
  BY <1>0, <1>3 DEF Flows, Grown, Calm
<1>9. QED
  BY <1>3, <1>5, <1>6, <1>7, <1>8 DEF p

\* The way home commands a vehicle that nothing else recovers.
LEMMA ReturnHomeKeeps ==
    ASSUME NEW o, OpsForm(o), o.active = 0, After(o) = {}
    PROVE  LET r == ReturnHome(o)
           IN /\ OpsInv(r) /\ Grown(o, r) /\ Len(r.status) = Len(o.status) + 1
              /\ After(r) \subseteq {Len(o.status) + 1}
              /\ r.active = Len(o.status) + 1 /\ Tool(r) = "attempt_recovery"
              /\ r.recovery # 0
              /\ \A i \in 1 .. Len(o.status) : r.status[i] = o.status[i]
<1> DEFINE b == Begin(o, "attempt_recovery")
           k == Len(o.status) + 1
           ph == IF o.mode = "LAND" THEN "land" ELSE "return"
           q == [b EXCEPT !.recovery = k, !.stopped = TRUE, !.phase = ph]
           r == ReturnHome(o)
<1>1. /\ OpsForm(b) /\ After(b) = After(o) /\ Grown(o, b)
      /\ Len(b.status) = Len(o.status) + 1 /\ b.active = Len(o.status) + 1
      /\ b.active # 0 /\ Tool(b) = "attempt_recovery"
      /\ \A i \in 1 .. Len(o.status) : b.status[i] = o.status[i]
  BY BeginForms DEF Tools
<1>2. Len(o.status) \in Nat /\ k \in Nat /\ k # 0 /\ b \in OpsSet
  BY <1>1, FormSays DEF OpsForm
<1>3. r = IF o.mode = "LAND" THEN q ELSE Send(q)
  BY DEF ReturnHome
<1>k. k = Len(o.status) + 1
  OBVIOUS
<1> HIDE DEF b, k, r
<1>4. /\ q \in OpsSet /\ q.status = b.status /\ q.active = b.active /\ q.sent = b.sent
      /\ q.recovery = k
  <2>1. ph \in {"none", "land", "return"}
    OBVIOUS
  <2> HIDE DEF ph
  <2>2. QED
    BY <1>2, <2>1 DEF OpsSet
<1> HIDE DEF q
<1>5. OpsForm(q) /\ After(q) = {}
  <2>1. OpsForm(q)
    BY <1>1, <1>2, <1>4, <1>k DEF OpsForm
  <2>2. After(q) = After(b)
    BY <1>4 DEF After, Bad
  <2>3. QED
    BY <1>1, <2>1, <2>2
<1>6. /\ OpsForm(r) /\ After(r) \subseteq {k} /\ r.status = b.status /\ r.active = k
      /\ r.recovery = k
  <2>1. /\ OpsForm(Send(q)) /\ After(Send(q)) \subseteq {k} /\ Send(q).status = b.status
        /\ Send(q).active = k /\ Send(q).recovery = k
    BY <1>1, <1>4, <1>5, <1>k, SendForms
  <2>2. QED
    BY <1>1, <1>3, <1>4, <1>5, <1>k, <2>1
<1>7. Tool(r) = "attempt_recovery" /\ r.status[k].tool = "attempt_recovery"
  BY <1>1, <1>6, <1>k DEF Tool
<1>8. OpsInv(r)
  <2>1. OneAfter(r, {"land", "attempt_recovery"})
    BY <1>6, <1>7 DEF OneAfter
  <2>2. QED
    BY <1>2, <1>6, <2>1 DEF OpsInv
<1>9. Grown(o, r)
  <2>1. o.recovery # 0 => r.recovery # 0
    BY <1>2, <1>6
  <2>2. QED
    BY <1>1, <1>6, <2>1 DEF Grown
<1>10. QED
  BY <1>1, <1>2, <1>6, <1>7, <1>8, <1>9, <1>k DEF r

LEMMA StartHomeKeeps ==
    ASSUME NEW o, OpsInv(o), o.active = 0
    PROVE  LET r == StartHomeRecovery(o)
           IN /\ OpsInv(r) /\ Grown(o, r)
              /\ \A i \in 1 .. Len(o.status) : r.status[i] = o.status[i]
<1>1. OpsForm(o) /\ (o.recovery = 0 => After(o) = {})
  BY DEF OpsInv
<1>2. Grown(o, o)
  BY <1>1, FormSays DEF Grown
<1>3. StartHomeRecovery(o) = o \/ (o.recovery = 0 /\ StartHomeRecovery(o) = ReturnHome(o))
  BY DEF StartHomeRecovery
<1>4. QED
  BY <1>1, <1>2, <1>3, ReturnHomeKeeps

LEMMA EvaluateHomeKeeps ==
    ASSUME NEW o, OpsInv(o), o.active # 0, Tool(o) = "attempt_recovery"
    PROVE  OpsInv(EvaluateHomeRecovery(o)) /\ Flows(o, EvaluateHomeRecovery(o))
<1> DEFINE s == Send(o)
           r == [s EXCEPT !.phase = "land"]
<1>1. OpsForm(o) /\ After(o) \subseteq {o.active} /\ o.active \in 1 .. Len(o.status)
  BY FormSays DEF OpsInv, OneAfter
<1>2. Flows(o, o)
  BY <1>1, FormSays DEF Flows, Grown, Calm
<1>3. /\ OpsForm(s) /\ After(s) \subseteq {o.active} /\ Flows(o, s)
      /\ s.status = o.status /\ s.active = o.active /\ s.recovery = o.recovery
  BY <1>1, SendForms
<1>4. OpsInv(s)
  <2>1. OneAfter(s, {"land", "attempt_recovery"})
    BY <1>1, <1>3 DEF OneAfter, Tool
  <2>2. QED
    BY <1>3, <2>1 DEF OpsInv
<1> HIDE DEF s
<1>5. /\ r \in OpsSet /\ r.status = s.status /\ r.active = s.active /\ r.recovery = s.recovery
      /\ r.sent = s.sent /\ r.stopped = s.stopped
  BY <1>3 DEF OpsSet, OpsForm
<1> HIDE DEF r
<1>6. OpsInv(r) /\ Flows(o, r)
  <2>1. OpsInv(r) /\ OpsForm(r) /\ Flows(s, r)
    BY <1>3, <1>4, <1>5, OpsAside
  <2>2. QED
    BY <1>1, <1>3, <2>1, FlowsOn
<1>7. /\ OpsInv(Finish(o, "failed")) /\ Flows(o, Finish(o, "failed"))
      /\ OpsInv(Finish(o, "succeeded")) /\ Flows(o, Finish(o, "succeeded"))
  BY <1>1, FinishKeeps
<1>8. EvaluateHomeRecovery(o) \in {o, r, Finish(o, "failed"), Finish(o, "succeeded")}
  BY DEF EvaluateHomeRecovery, r, s
<1>9. QED
  BY <1>2, <1>6, <1>7, <1>8

\* Every look at the operation that runs keeps the order of the operations.
LEMMA EvaluateKeeps ==
    ASSUME NEW o, OpsInv(o)
    PROVE  OpsInv(Evaluate(o)) /\ Flows(o, Evaluate(o))
<1>1. OpsForm(o)
  BY DEF OpsInv
<1>2. Flows(o, o)
  BY <1>1, FormSays DEF Flows, Grown, Calm
<1>3. /\ OpsInv(Finish(o, "failed")) /\ Flows(o, Finish(o, "failed"))
      /\ OpsInv(Finish(o, "succeeded")) /\ Flows(o, Finish(o, "succeeded"))
  BY <1>1, FinishKeeps
<1>4. CASE o.active # 0 /\ Tool(o) # "attempt_recovery" /\ expired
  <2> DEFINE p == Finish(o, "failed")
             r == StartHomeRecovery(p)
  <2>1. Evaluate(o) = r
    BY <1>4 DEF Evaluate
  <2>2. /\ OpsInv(p) /\ OpsForm(p) /\ p.active = 0 /\ p.status[o.active].state = "failed"
        /\ o.active \in 1 .. Len(p.status) /\ Grown(o, p)
    BY <1>1, <1>3, <1>4, FinishKeeps, FormSays DEF Flows
  <2> HIDE DEF p
  <2>3. /\ OpsInv(r) /\ Grown(p, r)
        /\ \A i \in 1 .. Len(p.status) : r.status[i] = p.status[i]
    BY <2>2, StartHomeKeeps
  <2> HIDE DEF r
  <2>4. Grown(o, r)
    BY <1>1, <2>2, <2>3, GrownOn DEF OpsInv
  <2>5. ~ Good(r, o.active)
    BY <2>2, <2>3 DEF Good
  <2>6. QED
    BY <1>4, <2>1, <2>3, <2>4, <2>5 DEF Flows
<1>5. CASE o.active # 0 /\ Tool(o) = "attempt_recovery"
  <2>1. Evaluate(o) \in {Finish(o, "failed"), EvaluateHomeRecovery(o)}
    BY <1>5 DEF Evaluate
  <2>2. QED
    BY <1>3, <1>5, <2>1, EvaluateHomeKeeps
<1>6. CASE o.active = 0 \/ (Tool(o) # "attempt_recovery" /\ ~ expired)
  <2>1. Evaluate(o) \in {o, Finish(o, "failed"), Finish(o, "succeeded")}
    BY <1>6 DEF Evaluate
  <2>2. QED
    BY <1>2, <1>3, <2>1
<1>7. QED
  BY <1>4, <1>5, <1>6

LEMMA DispatchForms ==
    ASSUME NEW o, OpsForm(o), o.active # 0, After(o) = {}, ~ o.due
    PROVE  LET d == Dispatch(o)
           IN /\ OpsForm(d) /\ After(d) \subseteq {o.active} /\ Flows(o, d) /\ Calm(o, d)
              /\ (\A f \in 1 .. Len(o.status) : ~ Bad(o, f)) => After(d) = {}
              /\ d.active \in {0, o.active} /\ (d.active # 0 => ~ d.due)
              /\ d.status[o.active].tool = Tool(o)
              /\ \A i \in 1 .. Len(o.status) : i # o.active => d.status[i] = o.status[i]
<1> DEFINE d == Dispatch(o)
           p == [o EXCEPT !.service = "pending"]
           q == [o EXCEPT !.judge = IF o.disarmed = "ready" THEN "asked" ELSE "pending"]
<1>0. o \in OpsSet /\ o.active \in 1 .. Len(o.status) /\ Len(o.status) \in Nat
  BY FormSays DEF OpsForm
<1>1. d \in {o, p, q, Finish(o, "succeeded"), Send(o)}
  BY <1>0 DEF Dispatch, OpsSet
<1>2. /\ Flows(o, o) /\ Calm(o, o) /\ Tool(o) = o.status[o.active].tool
  BY <1>0 DEF Flows, Grown, Calm, Tool
<1>3. CASE d = o
  BY <1>2, <1>3
<1>4. CASE d \in {p, q}
  <2>a. o \in OpsSet
    BY <1>0
  <2>p. /\ p \in OpsSet
        /\ p.status = o.status /\ p.active = o.active /\ p.recovery = o.recovery /\ p.sent = o.sent
        /\ p.stopped = o.stopped /\ p.due = o.due
    BY <2>a, SMTT(30) DEF OpsSet
  <2>q. /\ q \in OpsSet
        /\ q.status = o.status /\ q.active = o.active /\ q.recovery = o.recovery /\ q.sent = o.sent
        /\ q.stopped = o.stopped /\ q.due = o.due
    <3> DEFINE j == IF o.disarmed = "ready" THEN "asked" ELSE "pending"
    <3>1. j \in {"asked", "pending"} /\ q = [o EXCEPT !.judge = j]
      OBVIOUS
    <3> HIDE DEF j, q
    <3>2. QED
      BY <2>a, <3>1, SMTT(30) DEF OpsSet
  <2> HIDE DEF p, q, d
  <2>2. /\ d \in OpsSet
        /\ d.status = o.status /\ d.active = o.active /\ d.recovery = o.recovery /\ d.sent = o.sent
        /\ d.stopped = o.stopped /\ d.due = o.due
    BY <1>4, <2>p, <2>q
  <2>3. OpsForm(d) /\ After(d) = After(o) /\ Flows(o, d)
    BY <2>2, OpsAside
  <2>4. QED
    BY <1>2, <2>2, <2>3 DEF d, Calm
<1>5. CASE d = Finish(o, "succeeded")
  <2>1. /\ OpsForm(d) /\ d.active = 0 /\ After(d) = After(o) /\ Len(d.status) = Len(o.status)
        /\ d.recovery = o.recovery /\ d.stopped = o.stopped /\ Flows(o, d)
        /\ \A i \in 1 .. Len(o.status) : i # o.active => d.status[i] = o.status[i]
    BY <1>5, FinishKeeps
  <2>2. d.status[o.active].tool = Tool(o)
    BY <1>0, <2>1 DEF Flows, Grown, Tool
  <2>3. QED
    BY <2>1, <2>2 DEF Calm
<1>6. CASE d = Send(o)
  <2>1. /\ OpsForm(d) /\ After(d) \subseteq After(o) \cup {o.active}
        /\ (\A f \in 1 .. Len(o.status) : ~ Bad(o, f)) => After(d) = {}
        /\ d.status = o.status /\ d.active = o.active /\ d.recovery = o.recovery
        /\ d.stopped = o.stopped /\ d.due = o.due
        /\ Flows(o, d)
    BY <1>6, SendForms
  <2>2. QED
    BY <1>2, <2>1 DEF Calm
<1>7. QED
  BY <1>1, <1>3, <1>4, <1>5, <1>6

\* A new operation follows operations that did not fail, or is the one landing that recovers.
LEMMA StartKeeps ==
    ASSUME NEW o, OpsForm(o), o.active = 0, After(o) = {}, NEW tool \in PlanTools, NEW raised,
           tool = "land" \/ \A f \in 1 .. Len(o.status) : ~ Bad(o, f)
    PROVE  LET r == Start(o, tool, raised)
               k == Len(o.status) + 1
           IN /\ OpsForm(r) /\ Grown(o, r) /\ k \in 1 .. Len(r.status) /\ r.status[k].tool = tool
              /\ \A i \in 1 .. Len(o.status) : r.status[i] = o.status[i]
              /\ Good(r, k) => Len(r.status) = k /\ r.stopped = o.stopped /\ r.recovery = o.recovery
              /\ OneAfter(r, {"land", "attempt_recovery"})
              /\ r.active # 0 /\ Tool(r) = "attempt_recovery" => r.recovery # 0
              /\ (\A f \in 1 .. Len(o.status) : ~ Bad(o, f)) => OpsInv(r)
<1> DEFINE b == Begin(o, tool)
           k == Len(o.status) + 1
           r == Start(o, tool, raised)
           f == Finish(b, "failed")
           clean == \A i \in 1 .. Len(o.status) : ~ Bad(o, i)
           L == {"land", "attempt_recovery"}
<1>0. tool \in Tools /\ tool # "attempt_recovery"
  BY DEF Tools, PlanTools, AckTools, GuidedTools, PayloadTools, PhaseTools
<1>1. /\ OpsForm(b) /\ After(b) = {} /\ Grown(o, b) /\ Len(b.status) = k /\ b.active = k
      /\ b.active # 0 /\ Tool(b) = tool /\ b.status[k].tool = tool
      /\ \A i \in 1 .. Len(o.status) : b.status[i] = o.status[i]
      /\ b.recovery = o.recovery /\ b.stopped = o.stopped /\ ~ b.due
  BY <1>0, BeginForms DEF Tool
<1>2. /\ Len(o.status) \in Nat /\ k \in Nat /\ k \in 1 .. k
      /\ \A i \in 1 .. Len(o.status) : i \in 1 .. k /\ i # k
      /\ \A i \in 1 .. k : i \in 1 .. Len(o.status) \/ i = k
  BY FormSays
<1>3. b.status[k].state = "running"
  BY <1>1, <1>2 DEF OpsForm
<1> HIDE DEF b, k
<1>4. clean => \A i \in 1 .. Len(b.status) : ~ Bad(b, i)
  BY <1>1, <1>2, <1>3 DEF Bad
<1>5. /\ OpsForm(f) /\ f.active = 0 /\ After(f) = {} /\ Len(f.status) = k
      /\ \A i \in 1 .. Len(o.status) : f.status[i] = o.status[i]
      /\ Flows(b, f) /\ f.status[k].state = "failed" /\ f.status[k].tool = tool
      /\ f.recovery = b.recovery
  <2>1. /\ OpsForm(f) /\ f.active = 0 /\ After(f) = After(b) /\ Len(f.status) = Len(b.status)
        /\ f.recovery = b.recovery
        /\ b.active # 0 => f.status[b.active].state = "failed"
        /\ \A i \in 1 .. Len(b.status) : i # b.active => f.status[i] = b.status[i]
        /\ Flows(b, f)
    BY <1>1, FinishKeeps
  <2>2. f.status[k].tool = tool
    BY <1>1, <1>2, <2>1 DEF Flows, Grown
  <2>3. QED
    BY <1>1, <1>2, <2>1, <2>2
<1> HIDE DEF f
<1>6. OpsInv(f)
  BY <1>5 DEF OpsInv, OneAfter
<1>7. Grown(o, f)
  BY <1>1, <1>5, GrownOn DEF Flows
<1>8. CASE expired
  <2>1. r = StartHomeRecovery(f)
    BY <1>8 DEF Start, f, b
  <2>2. /\ OpsInv(r) /\ Grown(f, r) /\ \A i \in 1 .. Len(f.status) : r.status[i] = f.status[i]
    BY <1>5, <1>6, <2>1, StartHomeKeeps
  <2> HIDE DEF r
  <2>3. Grown(o, r)
    BY <1>5, <1>7, <2>2, GrownOn DEF OpsInv
  <2>4. k \in 1 .. Len(r.status)
    <3>1. Len(r.status) \in Nat /\ Len(r.status) >= k
      BY <1>2, <1>5, <2>2, FormSays DEF OpsInv, Grown
    <3>2. QED
      BY <1>2, <3>1
  <2>5. ~ Good(r, k) /\ r.status[k].tool = tool
    BY <1>2, <1>5, <2>2 DEF Good
  <2>6. \A i \in 1 .. Len(o.status) : r.status[i] = o.status[i]
    BY <1>2, <1>5, <2>2
  <2>7. QED
    BY <2>2, <2>3, <2>4, <2>5, <2>6 DEF OpsInv, k, r
<1>9. CASE ~ expired /\ (Refused(b) \/ raised)
  <2>1. r = f
    BY <1>9 DEF Start, f, b
  <2>2. ~ Good(f, k)
    BY <1>5 DEF Good
  <2>3. QED
    BY <1>2, <1>5, <1>6, <1>7, <2>1, <2>2 DEF OpsInv, k
<1>10. CASE ~ expired /\ ~ (Refused(b) \/ raised)
  <2> DEFINE d == Dispatch(b)
  <2>1. r = Evaluate(d)
    BY <1>10 DEF Start, b
  <2>2. /\ OpsForm(d) /\ After(d) \subseteq {k} /\ Flows(b, d) /\ Calm(b, d)
        /\ clean => After(d) = {}
        /\ d.active \in {0, k} /\ (d.active # 0 => ~ d.due)
        /\ d.status[k].tool = tool
        /\ \A i \in 1 .. Len(b.status) : i # k => d.status[i] = b.status[i]
    BY <1>1, <1>4, DispatchForms
  <2> HIDE DEF d, r
  <2>3. r \in {d, Finish(d, "failed"), Finish(d, "succeeded")}
    <3>1. d.active # 0 => Tool(d) # "attempt_recovery"
      BY <1>0, <2>2 DEF Tool
    <3>2. QED
      BY <1>10, <2>1, <2>2, <3>1 DEF Evaluate
  <2>4. /\ OpsForm(r) /\ After(r) = After(d) /\ Flows(d, r) /\ r.active \in {0, k}
        /\ Len(r.status) = k
        /\ \A i \in 1 .. Len(o.status) : r.status[i] = o.status[i]
    <3>1. Len(d.status) = k /\ \A i \in 1 .. Len(o.status) : d.status[i] = o.status[i]
      BY <1>1, <1>2, <2>2 DEF Calm
    <3>2. CASE r = d
      <4>1. Flows(d, d)
        BY <1>2, <3>1 DEF Flows, Grown, Calm
      <4>2. QED
        BY <2>2, <3>1, <3>2, <4>1
    <3>3. CASE r # d
      <4>1. PICK state \in {"failed", "succeeded"} : r = Finish(d, state)
        BY <2>3, <3>3
      <4>2. /\ OpsForm(r) /\ After(r) = After(d) /\ Flows(d, r) /\ r.active = 0
            /\ Len(r.status) = Len(d.status)
            /\ \A i \in 1 .. Len(d.status) : i # d.active => r.status[i] = d.status[i]
        BY <2>2, <4>1, FinishKeeps
      <4>3. \A i \in 1 .. Len(o.status) : i # d.active
        <5>1. k # 0 /\ \A i \in 1 .. Len(o.status) : i # 0
          BY <1>2
        <5>2. QED
          BY <1>2, <2>2, <5>1
      <4>4. QED
        BY <1>2, <3>1, <4>2, <4>3
    <3>4. QED
      BY <3>2, <3>3
  <2>5. Grown(o, r)
    <3>1. Grown(o, d)
      BY <1>1, <2>2, GrownOn DEF Flows
    <3>2. QED
      BY <2>2, <2>4, <3>1, GrownOn DEF Flows
  <2>6. r.status[k].tool = tool
    BY <1>1, <1>2, <2>2, <2>4 DEF Flows, Grown, Calm
  <2>7. Good(r, k) => r.stopped = o.stopped /\ r.recovery = o.recovery
    <3>1. CASE d.active = 0
      BY <1>1, <2>2, <2>4, <3>1 DEF Flows, Calm
    <3>2. CASE d.active # 0
      BY <1>1, <2>2, <2>4, <3>2 DEF Flows, Calm
    <3>3. QED
      BY <3>1, <3>2
  <2>8. ~ (r.active # 0 /\ Tool(r) = "attempt_recovery")
    BY <1>0, <2>4, <2>6 DEF Tool
  <2>9. OneAfter(r, L)
    <3>1. \A i, j \in After(r) : i = j
      BY <2>2, <2>4
    <3>2. \A i \in After(r) : r.status[i].tool \in L
      BY <2>2, <2>4, <2>6
    <3>3. QED
      BY <2>8, <3>1, <3>2 DEF OneAfter
  <2>10. clean => OpsInv(r)
    BY <2>2, <2>4, <2>8, <2>9 DEF OpsInv
  <2>11. QED
    BY <1>2, <2>4, <2>5, <2>6, <2>7, <2>8, <2>9, <2>10 DEF k, r
<1>11. QED
  BY <1>8, <1>9, <1>10

LEMMA AbortKeeps ==
    ASSUME NEW o, OpsInv(o)
    PROVE  LET p == Abort(o)
           IN /\ OpsInv(p) /\ Grown(o, p) /\ p.active = 0 /\ Len(p.status) = Len(o.status)
              /\ p.recovery = o.recovery
              /\ o.active = 0 => \A i \in 1 .. Len(o.status) : p.status[i] = o.status[i]
<1> DEFINE f == Finish(o, "cancelled")
           p == [f EXCEPT !.stopped = TRUE]
<1>1. /\ OpsInv(f) /\ OpsForm(f) /\ Flows(o, f) /\ f.active = 0 /\ Len(f.status) = Len(o.status)
      /\ f.recovery = o.recovery /\ OpsForm(o)
      /\ \A i \in 1 .. Len(o.status) : i # o.active => f.status[i] = o.status[i]
  BY FinishKeeps DEF OpsInv
<1> HIDE DEF f
<1>2. /\ p \in OpsSet /\ p.status = f.status /\ p.active = f.active /\ p.recovery = f.recovery
      /\ p.sent = f.sent
  BY <1>1 DEF OpsForm, OpsSet
<1>3. Abort(o) = p
  BY DEF Abort, f
<1> HIDE DEF p
<1>4. OpsInv(p) /\ Grown(f, p)
  BY <1>1, <1>2, OpsAside
<1>5. Grown(o, p)
  BY <1>1, <1>4, GrownOn DEF Flows, OpsInv
<1>6. \A i \in 1 .. Len(o.status) : i # 0
  BY <1>1, FormSays
<1>7. QED
  BY <1>1, <1>2, <1>3, <1>4, <1>5, <1>6

\* One LAND, if nothing recovers yet.
LEMMA RecoverLandKeeps ==
    ASSUME NEW o, OpsInv(o)
    PROVE  LET p == RecoverLand(o)
           IN OpsInv(p) /\ Grown(o, p) /\ (o.recovery # 0 => p = o)
<1> DEFINE a == Abort(o)
           q == [a EXCEPT !.stopped = FALSE]
           s == Start(q, "land", FALSE)
           k == Len(o.status) + 1
           p == [s EXCEPT !.recovery = k, !.stopped = TRUE]
<1>1. Grown(o, o) /\ OpsForm(o)
  BY FormSays DEF Grown, OpsInv
<1>2. RecoverLand(o) = o \/ (o.recovery = 0 /\ RecoverLand(o) = p)
  BY DEF RecoverLand
<1>3. CASE RecoverLand(o) = o
  BY <1>1, <1>3
<1>4. CASE o.recovery = 0 /\ RecoverLand(o) = p
  <2>1. /\ OpsInv(a) /\ OpsForm(a) /\ Grown(o, a) /\ a.active = 0 /\ Len(a.status) = Len(o.status)
        /\ a.recovery = 0
    BY <1>4, AbortKeeps DEF OpsInv
  <2>2. After(a) = {}
    BY <2>1 DEF OpsInv
  <2> HIDE DEF a
  <2>3. /\ q \in OpsSet /\ q.status = a.status /\ q.active = a.active /\ q.recovery = a.recovery
        /\ q.sent = a.sent
    BY <2>1 DEF OpsForm, OpsSet
  <2> HIDE DEF q
  <2>4. OpsForm(q) /\ After(q) = {} /\ Grown(a, q) /\ q.active = 0 /\ Len(q.status) + 1 = k
    BY <2>1, <2>2, <2>3, OpsAside
  <2>5. "land" \in PlanTools
    BY DEF PlanTools, AckTools
  <2> HIDE DEF k
  <2>6. /\ OpsForm(s) /\ Grown(q, s) /\ k \in 1 .. Len(s.status)
        /\ OneAfter(s, {"land", "attempt_recovery"})
    BY <2>4, <2>5, StartKeeps
  <2> HIDE DEF s
  <2>7. k \in Nat /\ k # 0
    BY <1>1, FormSays DEF k
  <2>8. /\ p \in OpsSet /\ p.status = s.status /\ p.active = s.active /\ p.recovery = k
        /\ p.sent = s.sent
    BY <2>6, <2>7 DEF OpsForm, OpsSet
  <2> HIDE DEF p
  <2>9. OpsForm(p)
    <3>1. k \in 0 .. Len(p.status)
      BY <2>6, <2>7, <2>8, FormSays
    <3>2. QED
      BY <2>6, <2>8, <3>1 DEF OpsForm
  <2>10. OneAfter(p, {"land", "attempt_recovery"})
    <3>1. After(p) = After(s)
      BY <2>8 DEF After, Bad
    <3>2. QED
      BY <2>6, <2>8, <3>1 DEF OneAfter, Tool
  <2>11. OpsInv(p)
    BY <2>7, <2>8, <2>9, <2>10 DEF OpsInv
  <2>12. Grown(o, p)
    <3>1. Grown(o, s)
      BY <1>1, <2>1, <2>4, <2>6, GrownOn
    <3>2. QED
      BY <1>4, <2>8, <3>1 DEF Grown
  <2>13. QED
    BY <1>4, <2>11, <2>12 DEF p
<1>5. QED
  BY <1>2, <1>3, <1>4

-----------------------------------------------------------------------------
(* The host of a configured run. *)

\* What telemetry and time do to the operations is no step of the mission.
LEMMA HostFollows ==
    ASSUME NEW o, NEW p, NEW h, OpsInv(o), OpsInv(p), HostInv(o, h), Flows(o, p)
    PROVE  HostInv(p, h)
<1>0. /\ OpsForm(o) /\ OpsForm(p) /\ Len(o.status) \in Nat /\ Len(p.status) \in Nat
      /\ Grown(o, p) /\ Len(o.status) <= Len(p.status)
  BY FormSays DEF OpsInv, Flows, Grown
<1>1. \A i \in 1 .. Len(o.status) : i \in 1 .. Len(p.status)
  BY <1>0
<1>2. /\ h.op \in 0 .. Len(p.status) /\ h.recovery \in 0 .. Len(p.status)
      /\ h.recovery # 0 => p.recovery # 0
  BY <1>0 DEF HostInv, Grown
<1>3. ASSUME h.mission = "running" PROVE Stepped(p, h)
  <2>1. Stepped(o, h) /\ h.op \in 0 .. Len(o.status)
    BY <1>3 DEF HostInv
  <2>2. \A i \in 1 .. Len(p.status) : i < h.op => i \in 1 .. Len(o.status)
    BY <1>0, <2>1
  <2>3. \A i \in 1 .. Len(p.status) : i < h.op => p.status[i].state = "succeeded"
    BY <1>0, <2>1, <2>2 DEF Stepped, Grown
  <2>4. ASSUME h.op = 0 \/ Good(p, h.op) PROVE Calm(o, p) /\ Len(o.status) = h.op /\ ~ o.stopped
                                              /\ o.recovery = 0
    <3>1. h.op = 0 \/ Good(o, h.op)
      <4>1. SUFFICES ASSUME h.op # 0 PROVE Good(o, h.op)
        OBVIOUS
      <4>2. h.op \in 1 .. Len(o.status)
        BY <1>0, <2>1, <4>1
      <4>3. ~ Bad(o, h.op)
        BY <1>0, <2>4, <4>1, <4>2 DEF Grown, Good, Bad
      <4>4. QED
        BY <1>0, <4>2, <4>3, FormSays
    <3>2. Len(o.status) = h.op /\ ~ o.stopped /\ o.recovery = 0
      BY <2>1, <3>1 DEF Stepped
    <3>3. o.active = 0 \/ o.active = h.op
      BY <1>0, <3>2 DEF OpsForm
    <3>4. Calm(o, p)
      BY <2>4, <3>3 DEF Flows
    <3>5. QED
      BY <3>2, <3>4
  <2>5. h.op = 0 \/ Good(p, h.op) => Len(p.status) = h.op /\ ~ p.stopped /\ p.recovery = 0
    BY <2>4 DEF Calm
  <2>6. \A i \in 1 .. Len(plan) : i <= h.step /\ plan[i].when = "always" =>
          \E k \in 1 .. Len(p.status) : k <= h.op /\ p.status[k].tool = plan[i].tool
    BY <1>0, <1>1, <2>1 DEF Stepped, Grown
  <2>7. QED
    BY <2>3, <2>5, <2>6 DEF Stepped
<1>4. ASSUME "finished" \in h.facts PROVE Earned(p, h)
  <2>1. Earned(o, h)
    BY <1>4 DEF HostInv
  <2>2. ASSUME ~ h.error
        PROVE  p.active = 0 /\ \A i \in 1 .. Len(p.status) : p.status[i].state = "succeeded"
    <3>1. o.active = 0 /\ \A i \in 1 .. Len(o.status) : o.status[i].state = "succeeded"
      BY <2>1, <2>2 DEF Earned
    <3>2. p.active = 0 /\ Len(p.status) = Len(o.status)
      BY <3>1 DEF Flows, Calm
    <3>3. QED
      BY <1>0, <3>1, <3>2 DEF Grown
  <2>3. \A i \in 1 .. Len(plan) : plan[i].when = "always" =>
          \E k \in 1 .. Len(p.status) :
            p.status[k].tool = plan[i].tool /\ p.status[k].state = "succeeded"
    BY <1>0, <1>1, <2>1 DEF Earned, Grown
  <2>4. QED
    BY <2>1, <2>2, <2>3 DEF Earned
<1>5. QED
  BY <1>2, <1>3, <1>4 DEF HostInv

\* The first failure ends the mission, unless a recovery already did.
LEMMA FailKeeps ==
    ASSUME NEW o, NEW h, NEW recover, OpsInv(o), HostInv(o, h)
    PROVE  LET s == Fail(o, h, recover)
           IN /\ OpsInv(s[1]) /\ HostInv(s[1], s[2]) /\ s[2].error
              /\ s[2].facts \subseteq h.facts \cup {"failure"}
<1> DEFINE a == IF o.recovery # 0 THEN o ELSE Abort(o)
           r == IF recover THEN RecoverLand(a) ELSE a
           m == IF o.recovery = 0 /\ h.mission = "running" THEN "cancelled" ELSE h.mission
           f == IF "finished" \in h.facts THEN h.facts ELSE h.facts \cup {"failure"}
           g == [h EXCEPT !.error = TRUE, !.mission = m, !.recovery = r.recovery, !.facts = f]
<1>0. h \in Hosts /\ OpsForm(o)
  BY DEF HostInv, OpsInv
<1>1. CASE h.error
  <2>1. Fail(o, h, recover) = <<o, h>>
    BY <1>1 DEF Fail
  <2>2. QED
    BY <1>1, <2>1
<1>2. CASE ~ h.error
  <2>1. Fail(o, h, recover) = <<r, g>>
    BY <1>0, <1>2 DEF Fail, Hosts
  <2>2. /\ OpsInv(a) /\ Grown(o, a) /\ a.recovery = o.recovery
        /\ o.recovery # 0 => a = o
        /\ o.active = 0 => a.active = 0 /\ Len(a.status) = Len(o.status)
    <3>1. Grown(o, o)
      BY <1>0, FormSays DEF Grown
    <3>2. QED
      BY <3>1, AbortKeeps
  <2> HIDE DEF a
  <2>3. OpsInv(r) /\ Grown(o, r) /\ (o.recovery # 0 => r = o)
    <3>1. OpsInv(RecoverLand(a)) /\ Grown(a, RecoverLand(a)) /\ (a.recovery # 0 => RecoverLand(a) = a)
      BY <2>2, RecoverLandKeeps
    <3>2. Grown(o, RecoverLand(a))
      BY <1>0, <2>2, <3>1, GrownOn DEF OpsInv
    <3>3. QED
      BY <2>2, <3>1, <3>2
  <2> HIDE DEF r
  <2>4. /\ OpsForm(r) /\ r.recovery \in 0 .. Len(r.status) /\ r.recovery \in Nat
        /\ Len(r.status) \in Nat /\ Len(o.status) \in Nat
    BY <1>0, <2>3, FormSays DEF OpsInv, OpsForm
  <2>5. m \in {"running", "succeeded", "failed", "cancelled"}
    BY <1>0 DEF Hosts
  <2>6. /\ f \in SUBSET {"execution-ready", "finished", "failure", "quiescence"}
        /\ f \subseteq h.facts \cup {"failure"} /\ ("finished" \in f => "finished" \in h.facts)
    BY <1>0 DEF Hosts
  <2>7. m = "running" => h.mission = "running" /\ o.recovery # 0
    BY <1>0
  <2>8. "finished" \in h.facts => m = "succeeded"
    BY DEF HostInv, Earned
  <2> HIDE DEF m, f
  <2>9. /\ g \in Hosts /\ g.error = TRUE /\ g.mission = m /\ g.recovery = r.recovery /\ g.facts = f
        /\ g.step = h.step /\ g.op = h.op
    BY <1>0, <2>4, <2>5, <2>6 DEF Hosts
  <2> HIDE DEF g
  <2>10. g.step \in 0 .. Len(plan) + 1 /\ g.op \in 0 .. Len(r.status)
    <3>1. h.op \in 0 .. Len(o.status) /\ Len(o.status) <= Len(r.status) /\ h.step \in 0 .. Len(plan) + 1
      BY <2>3 DEF HostInv, Grown
    <3>2. QED
      BY <2>4, <2>9, <3>1
  <2>11. ASSUME g.mission = "running" PROVE Stepped(r, g)
    <3>1. r = o /\ Stepped(o, h)
      BY <2>3, <2>7, <2>9, <2>11 DEF HostInv
    <3>2. QED
      BY <2>9, <3>1 DEF Stepped
  <2>12. ASSUME "finished" \in g.facts PROVE Earned(r, g)
    <3>1. Earned(o, h) /\ g.mission = "succeeded"
      BY <2>6, <2>8, <2>9, <2>12 DEF HostInv
    <3>2. \A i \in 1 .. Len(o.status) : i \in 1 .. Len(r.status)
      BY <2>3, <2>4 DEF Grown
    <3>3. \A i \in 1 .. Len(plan) : plan[i].when = "always" =>
            \E k \in 1 .. Len(r.status) :
              r.status[k].tool = plan[i].tool /\ r.status[k].state = "succeeded"
      BY <2>3, <3>1, <3>2 DEF Earned, Grown
    <3>4. QED
      BY <2>9, <3>1, <3>3 DEF Earned
  <2>13. HostInv(r, g)
    BY <2>4, <2>9, <2>10, <2>11, <2>12 DEF HostInv
  <2>14. g.error /\ g.facts \subseteq h.facts \cup {"failure"}
    BY <2>6, <2>9
  <2>15. Fail(o, h, recover)[1] = r /\ Fail(o, h, recover)[2] = g
    BY <2>1
  <2>16. QED
    BY <2>3, <2>13, <2>14, <2>15
<1>3. QED
  BY <1>1, <1>2

\* The next step is one that always runs, or comes before every such step that is left.
LEMMA NextStepIs ==
    ASSUME NEW h, plan \in Plans, h.step \in 0 .. Len(plan) + 1
    PROVE  LET n == NextStep(h)
           IN /\ Len(plan) \in Nat /\ n \in 0 .. Len(plan) + 1
              /\ n # 0 => \A i \in 1 .. Len(plan) : h.step < i /\ i < n => plan[i].when # "always"
              /\ n # 0 /\ n <= Len(plan) => n \in 1 .. Len(plan) /\ plan[n].tool \in PlanTools
<1> DEFINE rest == {i \in h.step + 1 .. Len(plan) : plan[i].when = "always" \/ eligible # "no"}
           all == rest \cup {Len(plan) + 1}
           next == CHOOSE i \in all : \A j \in all : i <= j
<1>1. plan \in Seq([tool : PlanTools, when : {"always", "eligible"}])
  BY PlansAssumption
<1>2. Len(plan) \in Nat /\ \A i \in 1 .. Len(plan) : plan[i].tool \in PlanTools
  <2> DEFINE Steps == [tool : PlanTools, when : {"always", "eligible"}]
  <2>1. plan \in Seq(Steps) /\ \A x \in Steps : x.tool \in PlanTools
    BY <1>1
  <2> HIDE DEF Steps
  <2>2. Len(plan) \in Nat /\ \A i \in 1 .. Len(plan) : plan[i] \in Steps
    BY <2>1
  <2>3. QED
    BY <2>1, <2>2
<1>3. all \in SUBSET Nat /\ all # {} /\ \A i \in all : i \in 1 .. Len(plan) + 1
  BY <1>2
<1>4. \E i \in all : \A j \in all : i <= j
  <2> HIDE DEF all
  <2>1. IsWellFoundedOn(OpToRel(<, Nat), Nat)
    BY NatLessThanWellFounded
  <2>2. PICK i \in all : \A j \in all : ~ (<<j, i>> \in OpToRel(<, Nat))
    BY <1>3, <2>1, WFMin
  <2>3. \A j \in all : ~ (j < i)
    BY <1>3, <2>2 DEF OpToRel
  <2>4. QED
    BY <1>3, <2>3
<1>5. next \in all /\ \A j \in all : next <= j
  <2> HIDE DEF all
  <2>1. QED
    BY <1>4
<1>6. NextStep(h) \in {0, next}
  BY DEF NextStep
<1> HIDE DEF next
<1>7. next \in 1 .. Len(plan) + 1
  BY <1>3, <1>5
<1>8. ASSUME NEW i \in 1 .. Len(plan), h.step < i, i < next, plan[i].when = "always" PROVE FALSE
  <2>1. i \in all
    BY <1>2, <1>8
  <2>2. QED
    BY <1>5, <1>7, <1>8, <2>1
<1>9. QED
  BY <1>2, <1>6, <1>7, <1>8

\* A step of the mission begins after every operation before it succeeded, and the end is
\* on record when every step did.
LEMMA MissionTickKeeps ==
    ASSUME NEW o, NEW h, NEW raised, plan \in Plans, OpsInv(o), HostInv(o, h), ~ h.error
    PROVE  LET s == MissionTick(o, h, raised)
           IN /\ OpsInv(s[1]) /\ HostInv(s[1], s[2])
              /\ s[2].facts \subseteq h.facts \cup {"failure", "finished"}
<1> DEFINE state == IF h.op = 0 THEN "succeeded" ELSE o.status[h.op].state
           next == NextStep(h)
           k == Len(o.status) + 1
           s == Start(o, plan[next].tool, raised)
           begun == [h EXCEPT !.step = next, !.op = k]
           ends(m) == [h EXCEPT !.mission = m]
           outcome == MissionTick(o, h, raised)
           Fine(x) == /\ OpsInv(x[1]) /\ HostInv(x[1], x[2])
                      /\ x[2].facts \subseteq h.facts \cup {"failure", "finished"}
<1>0. /\ h \in Hosts /\ h.step \in 0 .. Len(plan) + 1 /\ h.op \in 0 .. Len(o.status)
      /\ h.recovery \in 0 .. Len(o.status) /\ (h.recovery # 0 => o.recovery # 0)
      /\ OpsForm(o) /\ Len(o.status) \in Nat
  BY FormSays DEF HostInv, OpsInv
<1>1. CASE outcome = <<o, h>>
  <2>1. outcome[1] = o /\ outcome[2] = h
    BY <1>1
  <2>2. QED
    BY <2>1
<1>2. CASE outcome # <<o, h>>
  <2>1. h.mission = "running" /\ state # "running"
    BY <1>2 DEF MissionTick
  <2>2. Stepped(o, h) /\ "finished" \notin h.facts
    BY <2>1 DEF HostInv, Earned
  <2>3. ASSUME NEW m \in {"succeeded", "failed", "cancelled"}
        PROVE  Fine(Fail(o, ends(m), TRUE))
    <3>1. /\ ends(m) \in Hosts /\ ends(m).mission = m /\ ends(m).facts = h.facts
          /\ ends(m).step = h.step /\ ends(m).op = h.op /\ ends(m).recovery = h.recovery
          /\ ends(m).error = h.error
      BY <1>0 DEF Hosts
    <3>2. HostInv(o, ends(m))
      BY <2>2, <3>1 DEF HostInv
    <3> HIDE DEF ends
    <3> DEFINE x == Fail(o, ends(m), TRUE)
    <3>3. /\ OpsInv(x[1]) /\ HostInv(x[1], x[2])
          /\ x[2].facts \subseteq ends(m).facts \cup {"failure"}
      BY <3>2, FailKeeps
    <3> HIDE DEF x
    <3>4. QED
      BY <3>1, <3>3 DEF x
  <2>4. CASE state # "succeeded"
    <3>1. h.op \in 1 .. Len(o.status) /\ state = o.status[h.op].state
      BY <1>0, <2>4
    <3>2. state \in {"failed", "cancelled"}
      BY <1>0, <2>1, <2>4, <3>1, FormSays DEF Good, Bad
    <3>3. outcome = Fail(o, ends(state), TRUE)
      BY <2>1, <2>4 DEF MissionTick
    <3> HIDE DEF state, outcome, ends
    <3>4. QED
      BY <2>3, <3>2, <3>3 DEF outcome
  <2>5. CASE state = "succeeded"
    <3>1. h.op = 0 \/ (h.op \in 1 .. Len(o.status) /\ o.status[h.op].state = "succeeded")
      BY <1>0, <2>5
    <3>2. Len(o.status) = h.op /\ ~ o.stopped /\ o.recovery = 0
      BY <2>2, <3>1 DEF Stepped, Good
    <3>3. \A i \in 1 .. Len(o.status) : o.status[i].state = "succeeded"
      BY <1>0, <2>2, <3>1, <3>2 DEF Stepped
    <3>4. \A i \in 1 .. Len(o.status) : ~ Bad(o, i)
      BY <3>3 DEF Bad
    <3>5. o.active = 0
      <4>1. o.active # 0 => o.active \in 1 .. Len(o.status)
        BY <1>0, FormSays
      <4>2. QED
        BY <1>0, <3>3, <4>1 DEF OpsForm
    <3>6. After(o) = {}
      BY <3>4 DEF After
    <3>7. /\ Len(plan) \in Nat /\ next \in 0 .. Len(plan) + 1
          /\ next # 0 => \A i \in 1 .. Len(plan) : h.step < i /\ i < next => plan[i].when # "always"
          /\ next # 0 /\ next <= Len(plan) => next \in 1 .. Len(plan) /\ plan[next].tool \in PlanTools
      BY <1>0, NextStepIs
    <3>8. CASE next = 0
      <4>1. outcome = Fail(o, ends("failed"), TRUE)
        BY <2>1, <2>5, <3>8 DEF MissionTick
      <4> HIDE DEF outcome, ends
      <4>2. QED
        BY <2>3, <4>1 DEF outcome
    <3>9. CASE next # 0 /\ next <= Len(plan)
      <4>0. outcome = IF s.status[k].state \in {"failed", "cancelled"}
                      THEN Fail(s, [begun EXCEPT !.mission = s.status[k].state], TRUE)
                      ELSE <<s, begun>>
        BY <2>1, <2>5, <3>9 DEF MissionTick
      <4> HIDE DEF next, outcome
      <4>1. /\ OpsForm(s) /\ Grown(o, s) /\ k \in 1 .. Len(s.status)
            /\ s.status[k].tool = plan[next].tool
            /\ \A i \in 1 .. Len(o.status) : s.status[i] = o.status[i]
            /\ Good(s, k) => Len(s.status) = k /\ s.stopped = o.stopped /\ s.recovery = o.recovery
            /\ OpsInv(s)
        BY <1>0, <3>4, <3>5, <3>6, <3>7, <3>9, StartKeeps
      <4>2. /\ k \in Nat /\ k # 0 /\ next \in Nat /\ next \in 0 .. Len(plan) + 1
            /\ Len(s.status) \in Nat /\ k \in 0 .. Len(s.status)
        BY <1>0, <3>7, <4>1, FormSays
      <4>k. k = h.op + 1
        BY <3>2
      <4> HIDE DEF s, k
      <4>3. /\ begun \in Hosts /\ begun.step = next /\ begun.op = k /\ begun.recovery = h.recovery
            /\ begun.facts = h.facts /\ begun.error = h.error /\ begun.mission = "running"
        BY <1>0, <2>1, <4>2 DEF Hosts
      <4>4. h.recovery = 0 /\ 0 \in 0 .. Len(s.status)
        BY <1>0, <3>2, <4>2
      <4> HIDE DEF begun
      <4>5. CASE s.status[k].state \in {"failed", "cancelled"}
        <5> DEFINE m == s.status[k].state
                   g == [begun EXCEPT !.mission = m]
        <5>1. outcome = Fail(s, g, TRUE)
          BY <4>0, <4>5
        <5>2. m \in {"failed", "cancelled"}
          BY <4>5
        <5> HIDE DEF m
        <5>3. /\ g \in Hosts /\ g.mission = m /\ g.step = next /\ g.op = k
              /\ g.recovery = h.recovery /\ g.facts = h.facts
          BY <4>3, <5>2 DEF Hosts
        <5> HIDE DEF g
        <5>4. "failure" \notin g.facts /\ "finished" \notin g.facts
          BY <2>2, <5>3 DEF HostInv
        <5>5. HostInv(s, g)
          BY <4>2, <4>4, <5>2, <5>3, <5>4 DEF HostInv
        <5> DEFINE x == Fail(s, g, TRUE)
        <5>6. /\ OpsInv(x[1]) /\ HostInv(x[1], x[2])
              /\ x[2].facts \subseteq g.facts \cup {"failure"}
          BY <4>1, <5>5, FailKeeps
        <5> HIDE DEF x
        <5>7. QED
          BY <5>1, <5>3, <5>6 DEF x, outcome
      <4>6. CASE s.status[k].state \notin {"failed", "cancelled"}
        <5>1. outcome[1] = s /\ outcome[2] = begun
          BY <4>0, <4>6
        <5>2. Good(s, k)
          BY <4>1, <4>6, FormSays DEF Bad
        <5>3. Len(s.status) = k /\ ~ s.stopped /\ s.recovery = 0
          BY <3>2, <4>1, <5>2
        <5>4. \A i \in 1 .. k : i < k => i \in 1 .. Len(o.status)
          BY <1>0, <3>2, <4>2, <4>k
        <5>5. \A i \in 1 .. Len(s.status) : i < k => s.status[i].state = "succeeded"
          BY <3>3, <4>1, <5>3, <5>4
        <5>6. ASSUME NEW i \in 1 .. Len(plan), i <= next, plan[i].when = "always"
              PROVE  \E j \in 1 .. Len(s.status) : j <= k /\ s.status[j].tool = plan[i].tool
          <6>1. CASE i <= h.step
            <7>1. PICK j \in 1 .. Len(o.status) : j <= h.op /\ o.status[j].tool = plan[i].tool
              BY <2>2, <5>6, <6>1 DEF Stepped
            <7>2. j \in 1 .. Len(s.status) /\ j <= k
              BY <1>0, <4>2, <4>k, <5>3, <7>1
            <7>3. QED
              BY <4>1, <7>1, <7>2
          <6>2. CASE h.step < i
            <7>1. ~ (i < next)
              BY <3>7, <3>9, <5>6, <6>2 DEF next
            <7>2. i = next
              BY <4>2, <5>6, <7>1
            <7>3. QED
              BY <4>1, <4>2, <7>2
          <6>3. QED
            BY <1>0, <3>7, <6>1, <6>2
        <5>7. Stepped(s, begun)
          BY <4>3, <5>3, <5>5, <5>6 DEF Stepped
        <5>8. "failure" \notin begun.facts /\ "finished" \notin begun.facts
          BY <2>2, <4>3 DEF HostInv
        <5>9. HostInv(s, begun)
          BY <4>2, <4>3, <4>4, <5>7, <5>8 DEF HostInv
        <5>10. QED
          BY <4>1, <4>3, <5>1, <5>9 DEF outcome
      <4>7. QED
        BY <4>5, <4>6
    <3>10. CASE next # 0 /\ ~ (next <= Len(plan)) /\ Grounded(o)
      <4> DEFINE g == [h EXCEPT !.mission = "succeeded", !.facts = h.facts \cup {"finished"}]
      <4>1. outcome = <<o, g>>
        BY <1>0, <2>1, <2>5, <3>10 DEF MissionTick, Hosts
      <4>2. outcome[1] = o /\ outcome[2] = g
        BY <4>1
      <4> HIDE DEF outcome
      <4>3. /\ g \in Hosts /\ g.mission = "succeeded" /\ g.facts = h.facts \cup {"finished"}
            /\ g.step = h.step /\ g.op = h.op /\ g.recovery = h.recovery /\ g.error = h.error
        BY <1>0 DEF Hosts
      <4> HIDE DEF g
      <4>4. ASSUME NEW i \in 1 .. Len(plan), plan[i].when = "always"
            PROVE  \E j \in 1 .. Len(o.status) :
                     o.status[j].tool = plan[i].tool /\ o.status[j].state = "succeeded"
        <5>1. i < next
          BY <3>7, <3>10
        <5>2. ~ (h.step < i)
          BY <3>7, <3>10, <4>4, <5>1
        <5>3. i <= h.step
          BY <1>0, <3>7, <5>2
        <5>4. QED
          BY <2>2, <3>3, <4>4, <5>3 DEF Stepped
      <4>5. Earned(o, g)
        BY <3>3, <3>5, <4>3, <4>4 DEF Earned
      <4>6. HostInv(o, g)
        <5>1. "failure" \notin g.facts
          BY <4>3 DEF HostInv
        <5>2. QED
          BY <1>0, <4>3, <4>5, <5>1 DEF HostInv
      <4>7. QED
        BY <4>2, <4>3, <4>6 DEF outcome
    <3>11. CASE next # 0 /\ ~ (next <= Len(plan)) /\ ~ Grounded(o)
      <4>1. outcome = Fail(o, ends("succeeded"), TRUE)
        BY <2>1, <2>5, <3>11 DEF MissionTick
      <4> HIDE DEF outcome, ends
      <4>2. QED
        BY <2>3, <4>1 DEF outcome
    <3>12. QED
      BY <3>8, <3>9, <3>10, <3>11
  <2>6. QED
    BY <2>4, <2>5, SMTT(30)
<1>3. QED
  BY <1>1, <1>2

LEMMA HostTickKeeps ==
    ASSUME NEW o, NEW h, NEW raised, plan \in Plans, OpsInv(o), HostInv(o, h)
    PROVE  LET s == HostTick(o, h, raised)
           IN /\ OpsInv(s[1]) /\ HostInv(s[1], s[2])
              /\ s[2].facts \subseteq h.facts \cup {"execution-ready", "failure", "finished"}
<1> DEFINE e == Evaluate(o)
           g == [h EXCEPT !.started = TRUE, !.facts = h.facts \cup {"execution-ready"}]
           x == MissionTick(e, g, raised)
           s == HostTick(o, h, raised)
<1>0. h \in Hosts
  BY DEF HostInv
<1>1. s = <<o, h>> \/ (~ h.error /\ s = x)
  BY <1>0 DEF HostTick, Hosts
<1>2. CASE s = <<o, h>>
  <2>1. s[1] = o /\ s[2] = h
    BY <1>2
  <2>2. QED
    BY <2>1
<1>3. CASE ~ h.error /\ s = x
  <2>1. OpsInv(e) /\ HostInv(e, h)
    BY EvaluateKeeps, HostFollows
  <2> HIDE DEF e
  <2>2. /\ g \in Hosts /\ g.facts = h.facts \cup {"execution-ready"} /\ g.error = h.error
        /\ g.step = h.step /\ g.op = h.op /\ g.recovery = h.recovery /\ g.mission = h.mission
    BY <1>0 DEF Hosts
  <2> HIDE DEF g
  <2>3. HostInv(e, g)
    BY <2>1, <2>2 DEF HostInv, Stepped, Earned
  <2>4. /\ OpsInv(x[1]) /\ HostInv(x[1], x[2])
        /\ x[2].facts \subseteq g.facts \cup {"failure", "finished"}
    BY <1>3, <2>1, <2>2, <2>3, MissionTickKeeps
  <2> HIDE DEF x, s
  <2>5. QED
    BY <1>3, <2>2, <2>4 DEF s
<1>4. QED
  BY <1>1, <1>2, <1>3

\* A message, or the lack of one, is kept aside or ends the operation.
LEMMA HeardKeeps ==
    ASSUME NEW o, OpsInv(o), NEW p \in Heard(o)
    PROVE  OpsInv(p) /\ Flows(o, p)
<1> DEFINE busy(tools) == o.active # 0 /\ Tool(o) \in tools
           hear(m, q) == [q EXCEPT !.fresh = q.fresh \cup {m},
                                   !.newer = IF busy(AckTools) THEN q.newer \cup {m} ELSE q.newer]
           beat(m, a) == [o EXCEPT !.mode = m, !.armed = a,
                                   !.disarmed = IF a = "yes" THEN "no" ELSE o.disarmed]
<1>0. o \in OpsSet /\ OpsForm(o)
  BY DEF OpsInv, OpsForm
<1>1. \/ \E m \in {"GUIDED", "LAND"}, a \in {"yes", "no"} : p = hear("heartbeat", beat(m, a))
      \/ \E l \in {"yes", "no"} : p = hear("landed", [o EXCEPT !.landed = l])
      \/ \E r \in BOOLEAN : p = [o EXCEPT !.reached = r]
      \/ p = [o EXCEPT !.acked = TRUE]
      \/ p = Finish(o, "failed")
  <2>1. CASE \E m \in {"GUIDED", "LAND"}, a \in {"yes", "no"} :
               p = [[o EXCEPT !.mode = m, !.armed = a,
                              !.disarmed = IF a = "yes" THEN "no" ELSE @]
                    EXCEPT !.fresh = @ \cup {"heartbeat"},
                           !.newer = IF busy(AckTools) THEN @ \cup {"heartbeat"} ELSE @]
    BY <1>0, <2>1 DEF OpsSet
  <2>2. CASE \E l \in {"yes", "no"} :
               p = [[o EXCEPT !.landed = l]
                    EXCEPT !.fresh = @ \cup {"landed"},
                           !.newer = IF busy(AckTools) THEN @ \cup {"landed"} ELSE @]
    BY <1>0, <2>2 DEF OpsSet
  <2>3. CASE \/ \E r \in BOOLEAN : p = [o EXCEPT !.reached = r]
             \/ p = [o EXCEPT !.acked = TRUE]
             \/ p = Finish(o, "failed")
    BY <2>3
  <2>4. QED
    BY <2>1, <2>2, <2>3 DEF Heard
<1>2. ASSUME p \in OpsSet, p.status = o.status, p.active = o.active, p.recovery = o.recovery,
             p.sent = o.sent, p.stopped = o.stopped
      PROVE  OpsInv(p) /\ Flows(o, p)
  BY <1>0, <1>2, OpsAside
<1>3. ASSUME NEW q \in OpsSet, NEW m \in Messages,
             q.status = o.status, q.active = o.active, q.recovery = o.recovery,
             q.sent = o.sent, q.stopped = o.stopped, p = hear(m, q)
      PROVE  OpsInv(p) /\ Flows(o, p)
  <2> DEFINE f == q.fresh \cup {m}
             n == IF busy(AckTools) THEN q.newer \cup {m} ELSE q.newer
  <2>1. f \in SUBSET Messages /\ n \in SUBSET Messages
    BY <1>3 DEF OpsSet
  <2>2. p = [q EXCEPT !.fresh = f, !.newer = n]
    BY <1>3
  <2> HIDE DEF f, n
  <2>3. /\ p \in OpsSet /\ p.status = o.status /\ p.active = o.active /\ p.recovery = o.recovery
        /\ p.sent = o.sent /\ p.stopped = o.stopped
    BY <1>3, <2>1, <2>2, ZenonT(60) DEF OpsSet
  <2>4. QED
    BY <1>2, <2>3
<1>4. CASE \E m \in {"GUIDED", "LAND"}, a \in {"yes", "no"} : p = hear("heartbeat", beat(m, a))
  <2>1. PICK m \in {"GUIDED", "LAND"}, a \in {"yes", "no"} : p = hear("heartbeat", beat(m, a))
    BY <1>4
  <2> DEFINE q == beat(m, a)
             d == IF a = "yes" THEN "no" ELSE o.disarmed
  <2>2. d \in {"no", "first", "ready"}
    BY <1>0 DEF OpsSet
  <2>3. q = [o EXCEPT !.mode = m, !.armed = a, !.disarmed = d] /\ p = hear("heartbeat", q)
    BY <2>1
  <2> HIDE DEF d, q, beat, hear
  <2>4. /\ q \in OpsSet /\ q.status = o.status /\ q.active = o.active /\ q.recovery = o.recovery
        /\ q.sent = o.sent /\ q.stopped = o.stopped
    BY <1>0, <2>2, <2>3, ZenonT(60) DEF OpsSet
  <2>5. QED
    BY <1>3, <2>3, <2>4 DEF Messages
<1>5. CASE \E l \in {"yes", "no"} : p = hear("landed", [o EXCEPT !.landed = l])
  <2>1. PICK l \in {"yes", "no"} : p = hear("landed", [o EXCEPT !.landed = l])
    BY <1>5
  <2> DEFINE q == [o EXCEPT !.landed = l]
  <2>2. /\ q \in OpsSet /\ q.status = o.status /\ q.active = o.active /\ q.recovery = o.recovery
        /\ q.sent = o.sent /\ q.stopped = o.stopped
    BY <1>0 DEF OpsSet
  <2> HIDE DEF hear
  <2>3. p = hear("landed", q)
    BY <2>1
  <2> HIDE DEF q
  <2>4. QED
    BY <1>3, <2>2, <2>3 DEF Messages
<1>6. CASE \E r \in BOOLEAN : p = [o EXCEPT !.reached = r]
  <2>1. /\ p \in OpsSet /\ p.status = o.status /\ p.active = o.active /\ p.recovery = o.recovery
        /\ p.sent = o.sent /\ p.stopped = o.stopped
    BY <1>0, <1>6 DEF OpsSet
  <2>2. QED
    BY <1>2, <2>1
<1>7. CASE p = [o EXCEPT !.acked = TRUE]
  <2>1. /\ p \in OpsSet /\ p.status = o.status /\ p.active = o.active /\ p.recovery = o.recovery
        /\ p.sent = o.sent /\ p.stopped = o.stopped
    BY <1>0, <1>7 DEF OpsSet
  <2>2. QED
    BY <1>2, <2>1
<1>8. CASE p = Finish(o, "failed")
  BY <1>0, <1>8, FinishKeeps
<1>9. QED
  BY <1>1, <1>4, <1>5, <1>6, <1>7, <1>8

LEMMA ElapsedKeeps ==
    ASSUME NEW o, OpsInv(o), NEW p \in Elapsed(o)
    PROVE  OpsInv(p) /\ Flows(o, p)
<1>1. o \in OpsSet /\ OpsForm(o)
  BY DEF OpsInv, OpsForm
<1>2. Flows(o, o)
  BY <1>1, FormSays DEF Flows, Grown, Calm
<1>3. CASE p = o
  BY <1>2, <1>3
<1>4. CASE p # o
  <2> DEFINE d == o.active # 0
  <2>1. p = [o EXCEPT !.due = d] /\ d \in BOOLEAN
    BY <1>4 DEF Elapsed
  <2> HIDE DEF d
  <2>2. /\ p \in OpsSet /\ p.status = o.status /\ p.active = o.active /\ p.recovery = o.recovery
        /\ p.sent = o.sent /\ p.stopped = o.stopped
    BY <1>1, <2>1 DEF OpsSet
  <2>3. QED
    BY <1>1, <2>2, OpsAside
<1>5. QED
  BY <1>3, <1>4

LEMMA SampledKeeps ==
    ASSUME NEW o, OpsInv(o), NEW p \in Sampled(o)
    PROVE  OpsInv(p) /\ Flows(o, p)
<1>1. o \in OpsSet /\ OpsForm(o)
  BY DEF OpsInv, OpsForm
<1>2. Flows(o, o)
  BY <1>1, FormSays DEF Flows, Grown, Calm
<1>3. CASE p = o
  BY <1>2, <1>3
<1>4. CASE p # o
  <2> DEFINE d == IF o.armed = "yes" THEN "no" ELSE IF o.disarmed = "no" THEN "first" ELSE "ready"
             j == IF o.judge = "pending" /\ d = "ready" THEN "asked" ELSE o.judge
  <2>1. p = [o EXCEPT !.disarmed = d, !.judge = j]
    BY <1>1, <1>4 DEF Sampled, OpsSet
  <2>2. d \in {"no", "first", "ready"}
    BY <1>1 DEF OpsSet
  <2>j. j \in {"none", "pending", "asked", "approved", "rejected"}
    BY <1>1 DEF OpsSet
  <2>o. o \in OpsSet
    BY <1>1
  <2> HIDE DEF d, j
  <2>3. p \in OpsSet
    <3> DEFINE q == [o EXCEPT !.disarmed = d]
    <3>1. q \in OpsSet
      BY <2>2, <2>o, ZenonT(60) DEF OpsSet
    <3>2. p = [q EXCEPT !.judge = j]
      BY <2>1, <2>o DEF OpsSet
    <3> HIDE DEF q
    <3>3. QED
      BY <2>j, <3>1, <3>2 DEF OpsSet
  <2>4. /\ p.status = o.status /\ p.active = o.active /\ p.recovery = o.recovery
        /\ p.sent = o.sent /\ p.stopped = o.stopped
    BY <2>1, <2>o DEF OpsSet
  <2>5. QED
    BY <1>1, <2>3, <2>4, OpsAside
<1>5. QED
  BY <1>3, <1>4

LEMMA ConfiguredInvInit ==
    ASSUME ConfiguredInit
    PROVE  ConfiguredInv
<1>1. <<>> \in Seq(Entries) /\ <<>> \in Seq(Nat) /\ Len(<<>>) = 0
  BY EmptySeq
<1>2. /\ ops \in OpsSet /\ ops.status = <<>> /\ ops.active = 0 /\ ops.recovery = 0
      /\ ops.sent = <<>> /\ ~ ops.stopped
  BY <1>1 DEF ConfiguredInit, OpsSet
<1>3. \A i \in 1 .. 0 : FALSE
  OBVIOUS
<1>4. OpsInv(ops)
  BY <1>1, <1>2, <1>3 DEF OpsInv, OpsForm, OneAfter, After
<1>5. /\ host \in Hosts /\ host.facts = {} /\ host.step = 0 /\ host.op = 0 /\ host.recovery = 0
  BY DEF ConfiguredInit, Hosts
<1>6. plan \in Plans
  BY DEF ConfiguredInit
<1>7. Len(plan) \in Nat
  BY <1>6, PlansAssumption
<1>8. Stepped(ops, host)
  BY <1>1, <1>2, <1>3, <1>5, <1>7 DEF Stepped
<1>9. HostInv(ops, host)
  BY <1>1, <1>2, <1>5, <1>7, <1>8 DEF HostInv
<1>10. 0 \in 0 .. MaxRunMishaps
  BY PlansAssumption
<1>11. QED
  BY <1>4, <1>5, <1>6, <1>9, <1>10 DEF ConfiguredInit, ConfiguredInv

\* What is shown of the operations and the host in every step but the one of a round.
LEMMA RunFollows ==
    ASSUME OpsInv(ops), HostInv(ops, host), OpsInv(ops'), Flows(ops, ops'), UNCHANGED <<host, plan>>
    PROVE  OpsInv(ops)' /\ HostInv(ops, host)'
<1>1. HostInv(ops', host)
  BY HostFollows
<1>2. HostInv(ops, host)'
  BY <1>1 DEF HostInv, Stepped, Earned
<1>3. QED
  BY <1>2

\* A round of the loop.
LEMMA ConfiguredRoundKeeps ==
    ASSUME plan \in Plans, OpsInv(ops), HostInv(ops, host), Round
    PROVE  /\ OpsInv(ops)' /\ HostInv(ops, host)'
           /\ host'.facts \subseteq host.facts \cup {"execution-ready", "failure", "finished"}
           /\ lpc = "loop" /\ lpc' \in {"loop", "closing"}
           /\ UNCHANGED <<plan, told, expired, eligible, recoveryLate>>
           /\ RunMishap \/ UNCHANGED runMishaps
<1> DEFINE First(o) == IF "stop" \in told /\ host.mission # "succeeded" THEN Fail(o, host, TRUE)
                       ELSE <<o, host>>
<1>1. /\ lpc = "loop" /\ UNCHANGED <<plan, told, expired, eligible, recoveryLate>>
      /\ RunMishap \/ UNCHANGED runMishaps
  BY DEF Round
<1> DEFINE Rest(s, o, raised) ==
             IF "stop" \in told /\ ~s[2].error
             THEN ops' = o /\ lpc' = "closing" /\ UNCHANGED host
             ELSE \E e \in {Evaluate(x) : x \in Elapsed(s[1])} :
                  \E t \in {HostTick(e, s[2], raised)} :
                    /\ ops' = t[1] /\ host' = t[2]
                    /\ lpc' = IF t[2].error /\ (recoveryLate \/ ~RecoveryPending(t[1], t[2]))
                              THEN "closing" ELSE "loop"
<1>r. \E o \in Sampled(ops), raised \in BOOLEAN : \E s \in {First(o)} : Rest(s, o, raised)
  BY Zenon DEF Round
<1> HIDE DEF Rest, First
<1>2. PICK o \in Sampled(ops), raised \in BOOLEAN : Rest(First(o), o, raised)
  BY <1>r
<1> USE DEF First
<1> DEFINE s == First(o)
<1>3. OpsInv(o) /\ HostInv(o, host)
  BY SampledKeeps, HostFollows
<1>4. OpsInv(s[1]) /\ HostInv(s[1], s[2]) /\ s[2].facts \subseteq host.facts \cup {"failure"}
  <2>1. CASE s = <<o, host>>
    <3> HIDE DEF s
    <3>1. s[1] = o /\ s[2] = host
      BY <2>1
    <3>2. QED
      BY <1>3, <3>1
  <2>2. CASE s = Fail(o, host, TRUE)
    <3> HIDE DEF s
    <3> DEFINE y == Fail(o, host, TRUE)
    <3>1. OpsInv(y[1]) /\ HostInv(y[1], y[2]) /\ y[2].facts \subseteq host.facts \cup {"failure"}
      BY <1>3, FailKeeps
    <3> HIDE DEF y
    <3>2. QED
      BY <2>2, <3>1 DEF y
  <2>3. QED
    BY <2>1, <2>2
<1>s. Rest(s, o, raised)
  BY <1>2
<1> HIDE DEF s, First
<1>5. /\ OpsInv(ops') /\ HostInv(ops', host') /\ lpc' \in {"loop", "closing"}
      /\ host'.facts \subseteq host.facts \cup {"execution-ready", "failure", "finished"}
  <2>1. CASE "stop" \in told /\ ~s[2].error
    BY <1>3, <1>s, <2>1 DEF Rest
  <2>2. CASE ~ ("stop" \in told /\ ~s[2].error)
    <3>0. PICK f \in {Evaluate(x) : x \in Elapsed(s[1])} :
            \E t \in {HostTick(f, s[2], raised)} :
              /\ ops' = t[1] /\ host' = t[2]
              /\ lpc' = IF t[2].error /\ (recoveryLate \/ ~RecoveryPending(t[1], t[2]))
                        THEN "closing" ELSE "loop"
      BY <1>s, <2>2, Zenon DEF Rest
    <3>1. PICK x \in Elapsed(s[1]) : f = Evaluate(x)
      BY Zenon
    <3> DEFINE e == Evaluate(x)
               t == HostTick(e, s[2], raised)
    <3>2. OpsInv(x) /\ HostInv(x, s[2])
      BY <1>4, ElapsedKeeps, HostFollows
    <3>3. OpsInv(e) /\ HostInv(e, s[2])
      BY <3>2, EvaluateKeeps, HostFollows
    <3>4. ops' = t[1] /\ host' = t[2] /\ lpc' \in {"loop", "closing"}
      BY <3>0, <3>1
    <3> HIDE DEF e
    <3>5. /\ OpsInv(t[1]) /\ HostInv(t[1], t[2])
          /\ t[2].facts \subseteq s[2].facts \cup {"execution-ready", "failure", "finished"}
      BY <3>3, HostTickKeeps
    <3> HIDE DEF t
    <3>6. QED
      BY <1>4, <3>4, <3>5
  <2>3. QED
    BY <2>1, <2>2
<1>6. HostInv(ops, host)'
  BY <1>1, <1>5 DEF HostInv, Stepped, Earned
<1>7. QED
  BY <1>1, <1>5, <1>6

\* What telemetry should not bring.
LEMMA BadTelemetryKeeps ==
    ASSUME OpsInv(ops), BadTelemetry
    PROVE  OpsInv(ops') /\ Flows(ops, ops')
<1>0. ops \in OpsSet /\ OpsForm(ops)
  BY DEF OpsInv, OpsForm
<1>1. PICK p : /\ ops' = Evaluate(p)
               /\ \/ p = Finish(ops, "failed")
                  \/ p = [ops EXCEPT !.failsafe = TRUE]
                  \/ p = [ops EXCEPT !.mode = "OTHER", !.fresh = ops.fresh \cup {"heartbeat"}]
                  \/ \E m \in Messages : p = [ops EXCEPT !.fresh = ops.fresh \ {m}]
  <2>1. PICK p \in {Finish(ops, "failed"), [ops EXCEPT !.failsafe = TRUE],
                    [ops EXCEPT !.mode = "OTHER", !.fresh = @ \cup {"heartbeat"}]}
                   \cup {[ops EXCEPT !.fresh = @ \ {m}] : m \in Messages} : ops' = Evaluate(p)
    BY DEF BadTelemetry
  <2>2. QED
    BY <1>0, <2>1 DEF OpsSet
<1>2. ASSUME p \in OpsSet, p.status = ops.status, p.active = ops.active, p.recovery = ops.recovery,
             p.sent = ops.sent, p.stopped = ops.stopped
      PROVE  OpsInv(p) /\ Flows(ops, p)
  BY <1>0, <1>2, OpsAside
<1>3. OpsInv(p) /\ Flows(ops, p)
  <2>1. CASE p = Finish(ops, "failed")
    BY <1>0, <2>1, FinishKeeps
  <2>2. CASE p = [ops EXCEPT !.failsafe = TRUE]
    <3>1. /\ p \in OpsSet /\ p.status = ops.status /\ p.active = ops.active
          /\ p.recovery = ops.recovery /\ p.sent = ops.sent /\ p.stopped = ops.stopped
      BY <1>0, <2>2 DEF OpsSet
    <3>2. QED
      BY <1>2, <3>1
  <2>3. CASE \E f \in SUBSET Messages, m \in {ops.mode, "OTHER"} :
               p = [ops EXCEPT !.mode = m, !.fresh = f]
    <3>1. PICK f \in SUBSET Messages, m \in {ops.mode, "OTHER"} :
            p = [ops EXCEPT !.mode = m, !.fresh = f]
      BY <2>3
    <3>2. m \in {"OTHER", "GUIDED", "LAND"}
      BY <1>0 DEF OpsSet
    <3>3. ops \in OpsSet
      BY <1>0
    <3>4. /\ p \in OpsSet /\ p.status = ops.status /\ p.active = ops.active
          /\ p.recovery = ops.recovery /\ p.sent = ops.sent /\ p.stopped = ops.stopped
      BY <3>1, <3>2, <3>3 DEF OpsSet
    <3>5. QED
      BY <1>2, <3>4
  <2>4. CASE p = [ops EXCEPT !.mode = "OTHER", !.fresh = ops.fresh \cup {"heartbeat"}]
    <3>1. ops.fresh \cup {"heartbeat"} \in SUBSET Messages
      BY <1>0 DEF OpsSet, Messages
    <3>2. QED
      BY <2>3, <2>4, <3>1
  <2>5. CASE \E m \in Messages : p = [ops EXCEPT !.fresh = ops.fresh \ {m}]
    <3>1. PICK m \in Messages : p = [ops EXCEPT !.fresh = ops.fresh \ {m}]
      BY <2>5
    <3> DEFINE f == ops.fresh \ {m}
    <3>2. f \in SUBSET Messages
      BY <1>0 DEF OpsSet
    <3>3. p = [ops EXCEPT !.fresh = f]
      BY <3>1
    <3> HIDE DEF f
    <3>4. ops \in OpsSet
      BY <1>0
    <3>5. /\ p \in OpsSet /\ p.status = ops.status /\ p.active = ops.active
          /\ p.recovery = ops.recovery /\ p.sent = ops.sent /\ p.stopped = ops.stopped
      BY <3>2, <3>3, <3>4 DEF OpsSet
    <3>6. QED
      BY <1>2, <3>5
  <2>6. QED
    BY <1>1, <2>1, <2>2, <2>4, <2>5
<1>4. OpsInv(Evaluate(p)) /\ Flows(p, Evaluate(p))
  BY <1>3, EvaluateKeeps
<1>5. QED
  BY <1>0, <1>1, <1>3, <1>4, FlowsOn DEF OpsInv

LEMMA CallbackKeeps ==
    ASSUME OpsInv(ops), Callback
    PROVE  OpsInv(ops') /\ Flows(ops, ops')
<1>0. ops \in OpsSet /\ OpsForm(ops)
  BY DEF OpsInv, OpsForm
<1>1. Flows(ops, ops)
  BY <1>0, FormSays DEF Flows, Grown, Calm
<1>2. \/ ops' = ops
      \/ \E a \in {"accepted", "refused"} : ops' = [ops EXCEPT !.service = a]
      \/ \E a \in {"rejected", "approved"} : ops' = [ops EXCEPT !.judge = a]
  BY DEF Callback
<1>3. CASE ops' = ops
  BY <1>1, <1>3
<1>4. ASSUME NEW p, p \in OpsSet, p.status = ops.status, p.active = ops.active,
             p.recovery = ops.recovery, p.sent = ops.sent, p.stopped = ops.stopped, ops' = p
      PROVE  OpsInv(ops') /\ Flows(ops, ops')
  BY <1>0, <1>4, OpsAside
<1>5. CASE \E a \in {"accepted", "refused"} : ops' = [ops EXCEPT !.service = a]
  <2>0. PICK a \in {"accepted", "refused"} : ops' = [ops EXCEPT !.service = a]
    BY <1>5
  <2> DEFINE p == [ops EXCEPT !.service = a]
  <2>1. ops \in OpsSet
    BY <1>0
  <2>2. /\ p \in OpsSet /\ p.status = ops.status /\ p.active = ops.active
        /\ p.recovery = ops.recovery /\ p.sent = ops.sent /\ p.stopped = ops.stopped
    BY <2>1 DEF OpsSet
  <2>3. ops' = p
    BY <2>0
  <2> HIDE DEF p
  <2>4. QED
    BY <1>4, <2>2, <2>3
<1>6. CASE \E a \in {"rejected", "approved"} : ops' = [ops EXCEPT !.judge = a]
  <2>0. PICK a \in {"rejected", "approved"} : ops' = [ops EXCEPT !.judge = a]
    BY <1>6
  <2> DEFINE p == [ops EXCEPT !.judge = a]
  <2>1. ops \in OpsSet
    BY <1>0
  <2>2. /\ p \in OpsSet /\ p.status = ops.status /\ p.active = ops.active
        /\ p.recovery = ops.recovery /\ p.sent = ops.sent /\ p.stopped = ops.stopped
    BY <2>1, ZenonT(60) DEF OpsSet
  <2>3. ops' = p
    BY <2>0
  <2> HIDE DEF p
  <2>4. QED
    BY <1>4, <2>2, <2>3
<1>7. QED
  BY <1>2, <1>3, <1>5, <1>6

\* What HostInv says does not depend on the rest of the facts.
LEMMA FactsAside ==
    ASSUME NEW o, NEW h, NEW g, HostInv(o, h), g \in Hosts,
           g.mission = h.mission, g.step = h.step, g.op = h.op, g.recovery = h.recovery,
           h.error => g.error, "finished" \in g.facts => "finished" \in h.facts,
           "failure" \in g.facts => g.error
    PROVE  HostInv(o, g)
  BY DEF HostInv, Stepped, Earned

\* The end of the host: a recovery that still runs is aborted.
LEMMA FinalizeKeeps ==
    ASSUME OpsInv(ops), HostInv(ops, host), FinalizeHost
    PROVE  /\ OpsInv(ops') /\ HostInv(ops', host')
           /\ host'.facts \subseteq host.facts \cup {"failure", "quiescence"}
<1>0. /\ OpsForm(ops) /\ host \in Hosts
  BY DEF OpsInv, HostInv
<1>1. OpsInv(ops') /\ HostInv(ops', host)
  <2>1. CASE ~ RecoveryPending(ops, host)
    <3>1. ops' = ops
      BY <2>1 DEF FinalizeHost
    <3>2. QED
      BY <3>1
  <2>2. CASE RecoveryPending(ops, host)
    <3> DEFINE p == Abort(ops)
    <3>1. ops' = p
      BY <2>2 DEF FinalizeHost
    <3>2. /\ OpsInv(p) /\ Grown(ops, p) /\ p.active = 0 /\ Len(p.status) = Len(ops.status)
          /\ p.recovery = ops.recovery
          /\ ops.active = 0 => \A i \in 1 .. Len(ops.status) : p.status[i] = ops.status[i]
      BY AbortKeeps
    <3> HIDE DEF p
    <3>3. ops.recovery # 0 /\ host.recovery # 0
      BY <2>2 DEF RecoveryPending, HostInv
    <3>4. Len(ops.status) \in Nat /\ OpsForm(p)
      BY <1>0, <3>2, FormSays DEF OpsInv
    <3>5. ASSUME host.mission = "running" PROVE Stepped(p, host)
      <4>1. Stepped(ops, host) /\ host.op \in 0 .. Len(ops.status)
        BY <3>5 DEF HostInv
      <4>2. host.op # 0 /\ ~ Good(ops, host.op)
        BY <3>3, <4>1 DEF Stepped
      <4>3. host.op \in 1 .. Len(ops.status)
        BY <3>4, <4>1, <4>2
      <4>4. Bad(ops, host.op)
        BY <1>0, <4>2, <4>3, FormSays
      <4>5. ~ Good(p, host.op)
        BY <3>2, <4>3, <4>4 DEF Grown, Bad, Good
      <4>6. QED
        BY <3>2, <4>1, <4>2, <4>5 DEF Stepped, Grown
    <3>6. ASSUME "finished" \in host.facts PROVE Earned(p, host)
      <4>1. Earned(ops, host)
        BY <3>6 DEF HostInv
      <4>2. QED
        BY <3>2, <4>1 DEF Earned, Grown
    <3>7. HostInv(p, host)
      BY <3>2, <3>3, <3>5, <3>6 DEF HostInv
    <3>8. QED
      BY <3>1, <3>2, <3>7
  <2>3. QED
    BY <2>1, <2>2
<1> DEFINE f == host.facts \cup {"quiescence"} \cup (IF host.error THEN {"failure"} ELSE {})
<1>2. /\ f \in SUBSET {"execution-ready", "finished", "failure", "quiescence"}
      /\ f \subseteq host.facts \cup {"failure", "quiescence"}
      /\ "finished" \in f => "finished" \in host.facts
      /\ "failure" \in f => host.error
  BY <1>0 DEF Hosts, HostInv
<1>3. host' = [host EXCEPT !.facts = f]
  BY DEF FinalizeHost
<1> HIDE DEF f
<1>4. /\ host' \in Hosts /\ host'.facts = f /\ host'.mission = host.mission
      /\ host'.step = host.step /\ host'.op = host.op /\ host'.recovery = host.recovery
      /\ host'.error = host.error
  BY <1>0, <1>2, <1>3 DEF Hosts
<1>5. HostInv(ops', host')
  BY <1>1, <1>2, <1>4, FactsAside
<1>6. QED
  BY <1>1, <1>2, <1>4, <1>5

\* Without a connection there is no host: the failure is reported, and that is all.
LEMMA StartupKeeps ==
    ASSUME OpsInv(ops), HostInv(ops, host), host.facts = {}, Startup
    PROVE  /\ OpsInv(ops') /\ HostInv(ops', host')
           /\ lpc' = "over" \/ (lpc' = "loop" /\ host'.facts = {})
<1>0. host \in Hosts /\ ops' = ops
  BY DEF HostInv, Startup
<1>1. CASE lpc' = "loop" /\ UNCHANGED host
  BY <1>0, <1>1
<1>2. CASE lpc' = "over" /\ host' = [host EXCEPT !.error = TRUE, !.facts = {"failure", "quiescence"}]
  <2>1. /\ host' \in Hosts /\ host'.facts = {"failure", "quiescence"} /\ host'.mission = host.mission
        /\ host'.step = host.step /\ host'.op = host.op /\ host'.recovery = host.recovery
        /\ host'.error = TRUE
    BY <1>0, <1>2 DEF Hosts
  <2>2. HostInv(ops, host')
    BY <2>1, FactsAside
  <2>3. QED
    BY <1>0, <1>2, <2>2
<1>3. QED
  BY <1>1, <1>2 DEF Startup

\* A telemetry message.
LEMMA PollKeeps ==
    ASSUME OpsInv(ops), Poll
    PROVE  OpsInv(ops') /\ Flows(ops, ops')
<1>1. PICK o \in Elapsed(ops) : ops' \in {Evaluate(p) : p \in Heard(o)}
  BY Zenon DEF Poll
<1>2. PICK p \in Heard(o) : ops' = Evaluate(p)
  BY <1>1
<1>3. OpsInv(o) /\ Flows(ops, o)
  BY ElapsedKeeps
<1>4. OpsInv(p) /\ Flows(o, p)
  BY <1>3, HeardKeeps
<1>5. OpsInv(Evaluate(p)) /\ Flows(p, Evaluate(p))
  BY <1>4, EvaluateKeeps
<1>6. Flows(ops, p)
  BY <1>3, <1>4, FlowsOn DEF OpsInv
<1>7. Flows(ops, Evaluate(p))
  BY <1>4, <1>5, <1>6, FlowsOn DEF OpsInv
<1>8. QED
  BY <1>2, <1>5, <1>7

LEMMA ConfiguredInvStep ==
    ASSUME ConfiguredInv, ConfiguredNext \/ UNCHANGED runVars
    PROVE  ConfiguredInv'
<1>0. /\ lpc \in {"start", "loop", "closing", "over"} /\ plan \in Plans
      /\ told \in SUBSET {"running", "stop"} /\ expired \in BOOLEAN
      /\ eligible \in {"none", "yes", "no"} /\ recoveryLate \in BOOLEAN
      /\ runMishaps \in 0 .. MaxRunMishaps
      /\ OpsInv(ops) /\ HostInv(ops, host)
      /\ lpc = "start" => host.facts = {}
      /\ "quiescence" \in host.facts => lpc = "over"
  BY DEF ConfiguredInv
<1>m. RunMishap => runMishaps' \in 0 .. MaxRunMishaps
  BY <1>0, PlansAssumption DEF RunMishap
<1>1. CASE Startup
  <2>1. /\ OpsInv(ops') /\ HostInv(ops', host')
        /\ lpc = "start" /\ (lpc' = "over" \/ (lpc' = "loop" /\ host'.facts = {}))
    BY <1>0, <1>1, StartupKeeps DEF Startup
  <2>2. UNCHANGED <<plan, told, expired, eligible, recoveryLate>> /\ runMishaps' \in 0 .. MaxRunMishaps
    BY <1>0, <1>1, <1>m DEF Startup
  <2>3. HostInv(ops, host)'
    BY <2>1, <2>2 DEF HostInv, Stepped, Earned
  <2>4. QED
    BY <1>0, <2>1, <2>2, <2>3 DEF ConfiguredInv
<1>2. CASE Round
  <2>1. /\ OpsInv(ops)' /\ HostInv(ops, host)'
        /\ host'.facts \subseteq host.facts \cup {"execution-ready", "failure", "finished"}
        /\ lpc = "loop" /\ lpc' \in {"loop", "closing"}
        /\ UNCHANGED <<plan, told, expired, eligible, recoveryLate>>
        /\ RunMishap \/ UNCHANGED runMishaps
    BY <1>0, <1>2, ConfiguredRoundKeeps
  <2>2. "quiescence" \notin host'.facts
    BY <1>0, <2>1
  <2>3. QED
    BY <1>0, <1>m, <2>1, <2>2 DEF ConfiguredInv
<1>3. CASE FinalizeHost
  <2>1. /\ OpsInv(ops') /\ HostInv(ops', host') /\ lpc' = "over"
        /\ UNCHANGED <<plan, told, expired, eligible, recoveryLate, runMishaps>>
    BY <1>0, <1>3, FinalizeKeeps DEF FinalizeHost
  <2>2. HostInv(ops, host)'
    BY <2>1 DEF HostInv, Stepped, Earned
  <2>3. QED
    BY <1>0, <2>1, <2>2 DEF ConfiguredInv
<1>4. CASE Callback
  <2>1. /\ lpc = "loop" /\ UNCHANGED <<lpc, plan, host, recoveryLate, runMishaps>>
        /\ told' \in SUBSET {"running", "stop"} /\ eligible' \in {"none", "yes", "no"}
    BY <1>0, <1>4 DEF Callback
  <2>2. expired' \in BOOLEAN
    BY <1>0, <1>4 DEF Callback
  <2>3. OpsInv(ops)' /\ HostInv(ops, host)'
    BY <1>0, <1>4, <2>1, CallbackKeeps, RunFollows
  <2>4. QED
    BY <1>0, <2>1, <2>2, <2>3 DEF ConfiguredInv
<1>5. CASE Poll
  <2>1. /\ lpc = "loop"
        /\ UNCHANGED <<lpc, plan, host, told, expired, eligible, recoveryLate, runMishaps>>
    BY <1>5 DEF Poll
  <2>2. OpsInv(ops)' /\ HostInv(ops, host)'
    BY <1>0, <1>5, <2>1, PollKeeps, RunFollows
  <2>3. QED
    BY <1>0, <2>1, <2>2 DEF ConfiguredInv
<1>6. CASE BadTelemetry
  <2>1. /\ lpc = "loop" /\ RunMishap
        /\ UNCHANGED <<lpc, plan, host, told, expired, eligible, recoveryLate>>
    BY <1>6 DEF BadTelemetry
  <2>2. OpsInv(ops)' /\ HostInv(ops, host)'
    BY <1>0, <1>6, <2>1, BadTelemetryKeeps, RunFollows
  <2>3. QED
    BY <1>0, <1>m, <2>1, <2>2 DEF ConfiguredInv
<1>7. CASE LoopBreaks
  <2> DEFINE s == Fail(ops, host, FALSE)
  <2>1. /\ lpc = "loop" /\ RunMishap /\ ops' = s[1] /\ host' = s[2] /\ lpc' = "closing"
        /\ UNCHANGED <<plan, told, expired, eligible, recoveryLate>>
    BY <1>7 DEF LoopBreaks
  <2>2. /\ OpsInv(s[1]) /\ HostInv(s[1], s[2]) /\ s[2].facts \subseteq host.facts \cup {"failure"}
    BY <1>0, FailKeeps
  <2> HIDE DEF s
  <2>3. OpsInv(ops') /\ HostInv(ops', host') /\ "quiescence" \notin host'.facts
    BY <1>0, <2>1, <2>2
  <2>4. HostInv(ops, host)'
    BY <2>1, <2>3 DEF HostInv, Stepped, Earned
  <2>5. QED
    BY <1>0, <1>m, <2>1, <2>3, <2>4 DEF ConfiguredInv
<1>8. CASE RecoveryDeadline \/ UNCHANGED runVars
  <2>1. UNCHANGED <<lpc, plan, ops, host, told, expired, eligible, runMishaps>>
    BY <1>8 DEF RecoveryDeadline, runVars
  <2>2. recoveryLate' \in BOOLEAN
    BY <1>0, <1>8 DEF RecoveryDeadline, runVars
  <2>3. OpsInv(ops)'
    BY <1>0, <2>1
  <2>4. HostInv(ops, host)'
    BY <1>0, <2>1 DEF HostInv, Stepped, Earned
  <2>5. QED
    BY <1>0, <2>1, <2>2, <2>3, <2>4 DEF ConfiguredInv
<1>9. QED
  BY <1>1, <1>2, <1>3, <1>4, <1>5, <1>6, <1>7, <1>8 DEF ConfiguredNext, Loop

\* What the invariant says of the state and of what was commanded (RunStateOK, OneOperation,
\* FinishIsEarned).
LEMMA ConfiguredIsSafe ==
    ASSUME ConfiguredInv
    PROVE  RunStateOK /\ OneOperation /\ FinishIsEarned
<1>0. /\ OpsInv(ops) /\ HostInv(ops, host) /\ OpsForm(ops) /\ ops \in OpsSet /\ host \in Hosts
      /\ plan \in Plans /\ Len(ops.status) \in Nat
  BY FormSays DEF ConfiguredInv, OpsInv, OpsForm, HostInv
<1>1. /\ DOMAIN ops.status = 1 .. Len(ops.status) /\ DOMAIN ops.sent = 1 .. Len(ops.sent)
      /\ ops.status \in Seq(Entries) /\ ops.sent \in Seq(Nat) /\ Len(ops.sent) \in Nat
      /\ \A i \in 1 .. Len(ops.status) : ops.status[i] \in Entries
  BY <1>0, FormSays
<1>2. DOMAIN plan = 1 .. Len(plan)
  BY <1>0, PlansAssumption
<1>3. RunStateOK
  <2>1. /\ \A i \in DOMAIN ops.status :
             /\ ops.status[i].tool \in Tools
             /\ ops.status[i].state \in {"running", "succeeded", "failed", "cancelled"}
    BY <1>1 DEF Entries
  <2>2. ops.active \in 0 .. Len(ops.status) /\ ops.recovery \in 0 .. Len(ops.status)
    BY <1>0 DEF OpsForm
  <2>3. /\ ops.fresh \subseteq Messages /\ ops.newer \subseteq Messages
        /\ ops.service \in {"none", "pending", "accepted", "refused", "cancelled"}
        /\ ops.judge \in {"none", "pending", "asked", "approved", "rejected"}
        /\ ops.disarmed \in {"no", "first", "ready"}
    BY <1>0 DEF OpsSet
  <2>4. /\ host.mission \in {"running", "succeeded", "failed", "cancelled"}
        /\ host.step \in 0 .. Len(plan) + 1
        /\ host.facts \subseteq {"execution-ready", "finished", "failure", "quiescence"}
    BY <1>0 DEF Hosts, HostInv
  <2>5. QED
    BY <2>1, <2>2, <2>3, <2>4 DEF RunStateOK, ConfiguredInv
<1>4. OneOperation
  <2>1. \A i \in DOMAIN ops.status : ops.status[i].state = "running" <=> i = ops.active
    BY <1>0, <1>1 DEF OpsForm
  <2>2. ASSUME NEW f \in DOMAIN ops.status, ops.status[f].state \in {"failed", "cancelled"}
        PROVE  LET after == {i \in f + 1 .. Len(ops.status) :
                               \E k \in DOMAIN ops.sent : ops.sent[k] = i}
               IN /\ Cardinality(after) <= 1
                  /\ \A i \in after : ops.status[i].tool \in {"land", "attempt_recovery"}
    <3> DEFINE after == {i \in f + 1 .. Len(ops.status) : \E k \in DOMAIN ops.sent : ops.sent[k] = i}
    <3>1. after \subseteq After(ops)
      BY <1>0, <1>1, <2>2 DEF After, Bad
    <3>2. /\ \A i, j \in After(ops) : i = j
          /\ \A i \in After(ops) : ops.status[i].tool \in {"land", "attempt_recovery"}
      BY <1>0 DEF OpsInv, OneAfter
    <3> HIDE DEF after
    <3>3. Cardinality(after) <= 1
      <4>1. CASE after = {}
        BY <4>1, FS_EmptySet
      <4>2. CASE after # {}
        <5>1. PICK i \in after : TRUE
          BY <4>2
        <5>2. after = {i}
          BY <3>1, <3>2, <5>1
        <5>3. Cardinality({i}) = 1
          BY FS_Singleton
        <5>4. QED
          BY <5>2, <5>3
      <4>3. QED
        BY <4>1, <4>2
    <3>4. QED
      BY <3>1, <3>2, <3>3 DEF after
  <2>3. host.mission = "running" /\ host.op = 0 => ~ ops.stopped
    BY <1>0 DEF HostInv, Stepped
  <2>4. QED
    BY <2>1, <2>2, <2>3 DEF OneOperation
<1>5. FinishIsEarned
  <2>1. SUFFICES ASSUME "finished" \in host.facts
                 PROVE  /\ host.mission = "succeeded"
                        /\ \A i \in DOMAIN ops.status :
                             ops.status[i].state = "succeeded" \/ i = ops.recovery \/ host.error
                        /\ \A i \in DOMAIN plan : plan[i].when = "always" =>
                             \E k \in DOMAIN ops.status :
                               ops.status[k] = [tool |-> plan[i].tool, state |-> "succeeded"]
    BY DEF FinishIsEarned
  <2>2. Earned(ops, host)
    BY <1>0, <2>1 DEF HostInv
  <2>3. \A x \in Entries : x = [tool |-> x.tool, state |-> x.state]
    BY DEF Entries
  <2>4. \A i \in 1 .. Len(plan) : plan[i].when = "always" =>
          \E k \in 1 .. Len(ops.status) :
            ops.status[k] = [tool |-> plan[i].tool, state |-> "succeeded"]
    <3>1. SUFFICES ASSUME NEW i \in 1 .. Len(plan), plan[i].when = "always"
                   PROVE  \E k \in 1 .. Len(ops.status) :
                            ops.status[k] = [tool |-> plan[i].tool, state |-> "succeeded"]
      OBVIOUS
    <3>2. PICK k \in 1 .. Len(ops.status) :
            ops.status[k].tool = plan[i].tool /\ ops.status[k].state = "succeeded"
      BY <2>2, <3>1 DEF Earned
    <3>3. ops.status[k] = [tool |-> ops.status[k].tool, state |-> ops.status[k].state]
      BY <1>1, <2>3, <3>2
    <3>4. QED
      BY <3>2, <3>3
  <2>5. QED
    BY <1>1, <1>2, <2>2, <2>4 DEF Earned
<1>6. QED
  BY <1>3, <1>4, <1>5

\* A host that failed changes no more in a round.
LEMMA RoundAfterError ==
    ASSUME Round, host.error
    PROVE  host' = host
<1> DEFINE First(o) == IF "stop" \in told /\ host.mission # "succeeded" THEN Fail(o, host, TRUE)
                       ELSE <<o, host>>
           Rest(s, o, raised) ==
             IF "stop" \in told /\ ~s[2].error
             THEN ops' = o /\ lpc' = "closing" /\ UNCHANGED host
             ELSE \E e \in {Evaluate(x) : x \in Elapsed(s[1])} :
                  \E t \in {HostTick(e, s[2], raised)} :
                    /\ ops' = t[1] /\ host' = t[2]
                    /\ lpc' = IF t[2].error /\ (recoveryLate \/ ~RecoveryPending(t[1], t[2]))
                              THEN "closing" ELSE "loop"
<1>1. \E o \in Sampled(ops), raised \in BOOLEAN : \E s \in {First(o)} : Rest(s, o, raised)
  BY Zenon DEF Round
<1> HIDE DEF Rest, First
<1>2. PICK o \in Sampled(ops), raised \in BOOLEAN : Rest(First(o), o, raised)
  BY <1>1
<1>3. First(o) = <<o, host>>
  BY DEF First, Fail
<1> DEFINE s == First(o)
<1>4. s[1] = o /\ s[2] = host /\ Rest(s, o, raised)
  BY <1>2, <1>3
<1> HIDE DEF s
<1>5. PICK e \in {Evaluate(x) : x \in Elapsed(s[1])} :
        \E t \in {HostTick(e, s[2], raised)} :
          /\ ops' = t[1] /\ host' = t[2]
          /\ lpc' = IF t[2].error /\ (recoveryLate \/ ~RecoveryPending(t[1], t[2]))
                    THEN "closing" ELSE "loop"
  BY <1>4, Zenon DEF Rest
<1> DEFINE t == HostTick(e, s[2], raised)
<1>6. host' = t[2]
  BY <1>5
<1>7. t = <<e, host>>
  BY <1>4 DEF HostTick
<1> HIDE DEF t
<1>8. QED
  BY <1>6, <1>7

\* The failure and the finish are final, and the marker is the last of a run
\* (ConfiguredIsFinal).
LEMMA ConfiguredEndsOnce ==
    ASSUME ConfiguredInv, ConfiguredNext \/ UNCHANGED runVars
    PROVE  ConfiguredIsFinal
<1>0. /\ OpsInv(ops) /\ HostInv(ops, host) /\ host \in Hosts
      /\ "failure" \in host.facts => host.error
      /\ "quiescence" \in host.facts => lpc = "over"
      /\ lpc = "start" => host.facts = {}
  BY DEF ConfiguredInv, HostInv
<1>1. ASSUME "failure" \in host.facts PROVE "finished" \notin host'.facts \ host.facts
  <2>1. host.error /\ lpc # "start"
    BY <1>0, <1>1
  <2>2. CASE Round
    BY <2>1, <2>2, RoundAfterError
  <2>3. CASE FinalizeHost
    <3>1. host'.facts \subseteq host.facts \cup {"failure", "quiescence"}
      BY <1>0, <2>3, FinalizeKeeps
    <3>2. QED
      BY <3>1
  <2>4. CASE LoopBreaks
    <3> DEFINE s == Fail(ops, host, FALSE)
    <3>1. host' = s[2]
      BY <2>4 DEF LoopBreaks
    <3>2. s[2].facts \subseteq host.facts \cup {"failure"}
      BY <1>0, FailKeeps
    <3> HIDE DEF s
    <3>3. QED
      BY <3>1, <3>2
  <2>5. CASE Startup
    BY <2>1, <2>5 DEF Startup
  <2>6. CASE Callback \/ Poll \/ BadTelemetry \/ RecoveryDeadline \/ UNCHANGED runVars
    <3>1. host' = host
      BY <2>6 DEF Callback, Poll, BadTelemetry, RecoveryDeadline, runVars
    <3>2. QED
      BY <3>1
  <2>7. QED
    BY <2>2, <2>3, <2>4, <2>5, <2>6 DEF ConfiguredNext, Loop
<1>2. ASSUME "quiescence" \in host.facts PROVE UNCHANGED <<ops, host>>
  <2>1. lpc = "over"
    BY <1>0, <1>2
  <2>2. UNCHANGED runVars
    BY <2>1 DEF ConfiguredNext, Loop, Startup, Round, FinalizeHost, Callback, Poll, BadTelemetry,
                LoopBreaks, RecoveryDeadline
  <2>3. QED
    BY <2>2 DEF runVars
<1>3. QED
  BY <1>1, <1>2 DEF ConfiguredIsFinal

-----------------------------------------------------------------------------
(* The units together. *)

\* Every unit keeps its own invariant, the one that runs and those that stay where they began.
CompanionInv == VisionInv /\ LandingInv /\ DirectInv /\ ConfiguredInv

LEMMA CompanionInvInit == CompanionInit => CompanionInv
<1> SUFFICES ASSUME CompanionInit PROVE CompanionInv
  OBVIOUS
<1>1. VisionInv /\ LandingInv
  BY VisionInvInit, LandingInvInit DEF CompanionInit, LandingInit
<1>2. DirectInv
  BY DirectInvInit DEF CompanionInit
<1>3. ConfiguredInv
  BY ConfiguredInvInit DEF CompanionInit
<1>4. QED
  BY <1>1, <1>2, <1>3 DEF CompanionInv

LEMMA CompanionInvStep ==
    ASSUME CompanionInv, [CompanionNext]_companionVars
    PROVE  CompanionInv'
<1>0. VisionInv /\ LandingInv /\ DirectInv /\ ConfiguredInv
  BY DEF CompanionInv
<1>1. /\ ConfiguredNext \/ UNCHANGED runVars
      /\ PrecisionNext \/ UNCHANGED precisionVars
      /\ DirectNext \/ UNCHANGED directVars
  BY Zenon DEF CompanionNext, OnlyConfigured, OnlyLanding, OnlyDirect, companionVars
<1>2. DirectInv' /\ ConfiguredInv'
  BY <1>0, <1>1, DirectInvStep, ConfiguredInvStep
<1>3. VisionInv' /\ LandingInv'
  <2>1. CASE PrecisionNext
    BY <1>0, <2>1, LandingInvStep
  <2>2. CASE UNCHANGED precisionVars
    <3>1. VisionInv'
      BY <1>0, <2>2 DEF precisionVars, visionVars, VisionInv
    <3>2. LandingInv'
      BY <1>0, <2>2 DEF precisionVars, visionVars, landingVars, LandingInv, LandingTypes, SightInv, InTurn
    <3>3. QED
      BY <3>1, <3>2
  <2>3. QED
    BY <1>1, <2>1, <2>2
<1>4. QED
  BY <1>2, <1>3 DEF CompanionInv

\* The inductive invariant of the companion: the way of a frame from the camera to the landing,
\* the orders a mission has open and what its vehicle did of them, the operations of a run and
\* the steps of the plan they stand for.
THEOREM CompanionInvariant == CompanionSpec => []CompanionInv
<1>1. CompanionInit => CompanionInv
  BY CompanionInvInit
<1>2. CompanionInv /\ [CompanionNext]_companionVars => CompanionInv'
  BY CompanionInvStep
<1>3. QED
  BY <1>1, <1>2, PTL DEF CompanionSpec

\* What the companion commands is safe (DroneOperations, ConfiguredHost.tick, PrecisionLand.tick,
\* DirectMission.on_telemetry): for every plan, one operation at a time and one recovery after a
\* failure, a finish that was flown, a descent only with the marker in sight, one order open.
THEOREM CommandsSafe == CompanionSpec => []CommandsAreSafe
<1>1. CompanionInv => CommandsAreSafe
  BY LandingIsSafe, DirectIsSafe, ConfiguredIsSafe DEF CompanionInv, CommandsAreSafe
<1>2. QED
  BY <1>1, CompanionInvariant, PTL

\* The end of a run is the end (ConfiguredHost.fail and finalize, the direct mission's finish):
\* no success after a failure, no command after the outcome, nothing after the marker.
THEOREM EndsOnce == CompanionSpec => EndIsFinal
<1>1. CompanionInv /\ [CompanionNext]_companionVars => ConfiguredIsFinal /\ DirectIsFinal
  <2>1. SUFFICES ASSUME CompanionInv, [CompanionNext]_companionVars
                 PROVE  ConfiguredIsFinal /\ DirectIsFinal
    OBVIOUS
  <2>2. (ConfiguredNext \/ UNCHANGED runVars) /\ (DirectNext \/ UNCHANGED directVars)
    BY <2>1, Zenon DEF CompanionNext, OnlyConfigured, OnlyLanding, OnlyDirect, companionVars
  <2>3. QED
    BY <2>1, <2>2, ConfiguredEndsOnce, DirectEndsOnce DEF CompanionInv
<1>2. QED
  BY <1>1, CompanionInvariant, PTL DEF CompanionSpec, EndIsFinal
=============================================================================
