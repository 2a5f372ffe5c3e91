--------------------------- MODULE DirectMission ---------------------------
(***************************************************************************)
(* The missions the companion flies by itself: the controlled descent over *)
(* PyMAVLink, and the roll tuning with its hover check over DroneKit.      *)
(* Each is a loop of one thread: one ROS callback, what the vehicle sent,  *)
(* what has to be written.  Telemetry is a stream, in order but late: what *)
(* the loop acts on is what the vehicle was when it reported.  DroneKit    *)
(* reads the stream in a thread of its own, and the loop what it kept; as  *)
(* nobody else looks at it, a message is kept as soon as it is sent.       *)
(*                                                                         *)
(* The vehicle is external: it obeys or refuses an order, climbs, sinks,   *)
(* disarms on the ground only, tunes, and may change its mode by itself.   *)
(* A height is ground, low or high (where the mission takes the climb for  *)
(* done).  The peak is high whenever a descent is looked for, so a lower   *)
(* height is a descent.                                                    *)
(***************************************************************************)
EXTENDS Naturals, Sequences, FiniteSets

CONSTANTS
    LastDirectStamp,     \* bound: the clock stops here; only stamp 0 is within 50 ms of the epoch
    MaxWire,             \* bound: messages or orders under way
    HoverStamps,         \* HOVER_DURATION_NS
    MaxDirectMishaps     \* bound: failing calls, refusals, changes of mode, bad clocks

ASSUME DirectAssumption ==
    /\ LastDirectStamp \in Nat \ {0} /\ MaxWire \in Nat \ {0}
    /\ HoverStamps \in 1 .. LastDirectStamp /\ MaxDirectMishaps \in Nat

NoDirectStamp == LastDirectStamp + 1
FirstWindow == {0}

VARIABLES
    flight,      \* descent, autotune, hover
    dpc,         \* where the loop is
    directStamp, \* latest_clock_ns
    started,     \* mission_running
    ending,      \* finalizing, a signal or a finalize request
    broken,      \* the failure of the loop
    asked,       \* telemetry_requested
    policy,      \* the mission's state, and the readiness latched in the controller
    seen,        \* what the link keeps of the messages it has read
    craft,       \* the vehicle
    wire,        \* messages under way to the companion
    orders,      \* commands under way to the vehicle
    overrides,   \* the throttle the RC override asks for
    directFacts, \* the files the mission wrote
    directMishaps

inboxVars == <<directStamp, started, ending>>
linkVars == <<wire, seen>>
craftVars == <<craft, wire, orders>>
loopVars == <<dpc, inboxVars, broken, asked, policy, overrides, directFacts>>
directVars == <<flight, loopVars, seen, craftVars, directMishaps>>

DescentPhases == {"WAIT_HEARTBEAT", "WAIT_GUIDED_ACK", "WAIT_GUIDED_MODE", "WAIT_PREARM_READY",
                  "WAIT_ARM_ACK", "WAIT_ARMED", "WAIT_TAKEOFF_ACK", "WAIT_ALTITUDE",
                  "WAIT_LAND_ACK", "DESCENDING", "WAIT_DISARM", "LANDED", "FAILED"}
RollPhases == {"WAIT_READY", "WAIT_GUIDED", "WAIT_ARMED", "WAIT_ALTITUDE", "WAIT_ALT_HOLD",
               "WAIT_AUTOTUNE", "TUNING", "LANDING_TO_SAVE", "HOVERING", "WAIT_LAND",
               "COMPLETE", "FAILED"}
Modes == {"STABILIZE", "GUIDED", "LAND", "ALT_HOLD", "AUTOTUNE", "OTHER"}
Heights == {"ground", "low", "high"}
Terminal == {"finished", "failure"}

Ordered(order) == order \in {"ARM", "TAKEOFF"} \cup Modes
OnWire(m) ==
    \/ m.kind = "heartbeat" /\ m.mode \in Modes /\ m.armed \in {"yes", "no"}
    \/ m.kind = "ack" /\ Ordered(m.order) /\ m.accepted \in BOOLEAN
    \/ m.kind = "position" /\ m.height \in Heights /\ m.sinking \in BOOLEAN
    \/ m.kind = "landed" /\ m.landed \in {"yes", "no"}
    \/ m.kind = "prearm" /\ m.healthy \in BOOLEAN
    \/ m.kind = "text" /\ m.text \in {"success", "failed", "saved"}

DirectTypeOK ==
    /\ flight \in {"descent", "autotune", "hover"}
    /\ dpc \in {"connect", "spin", "drain", "control", "record", "close", "over"}
    /\ directStamp \in 0 .. NoDirectStamp /\ started \in BOOLEAN /\ ending \in BOOLEAN
    /\ broken \in BOOLEAN /\ asked \in BOOLEAN
    /\ policy.phase \in (IF flight = "descent" THEN DescentPhases ELSE RollPhases)
    /\ policy.heartbeat \in BOOLEAN /\ policy.prearm \in BOOLEAN
    /\ policy.descended \in BOOLEAN /\ policy.saved \in BOOLEAN
    /\ policy.since \in 0 .. LastDirectStamp
    /\ seen.mode \in Modes \cup {"none"} /\ seen.height \in Heights \cup {"none"}
    /\ {seen.armed, seen.landed} \subseteq {"yes", "no", "none"}
    /\ seen.heartbeat \in BOOLEAN /\ seen.armable \in BOOLEAN
    /\ \A i \in 1 .. Len(seen.texts) : seen.texts[i] \in {"success", "failed", "saved"}
    /\ craft.mode \in Modes /\ craft.armed \in {"yes", "no"} /\ craft.height \in Heights
    /\ craft.climbing \in BOOLEAN /\ craft.flown \in BOOLEAN
    /\ craft.gains \in {"old", "tuned", "failed", "saved"}
    /\ \A i \in 1 .. Len(wire) : OnWire(wire[i])
    /\ \A i \in 1 .. Len(orders) : Ordered(orders[i])
    /\ overrides \in {"none", "hold", "down"}
    /\ directFacts \subseteq
         {"companion-ready", "mission-ready", "delivered", "quiescence"} \cup Terminal
    /\ directMishaps \in 0 .. MaxDirectMishaps

DirectInit ==
    /\ flight \in {"descent", "autotune", "hover"}
    /\ dpc = "connect"
    /\ directStamp = NoDirectStamp /\ started = FALSE /\ ending = FALSE
    /\ broken = FALSE /\ asked = FALSE
    /\ policy = [phase |-> IF flight = "descent" THEN "WAIT_HEARTBEAT" ELSE "WAIT_READY",
                 heartbeat |-> FALSE, prearm |-> FALSE, descended |-> FALSE, saved |-> FALSE,
                 since |-> 0]
    /\ seen = [mode |-> "none", armed |-> "none", landed |-> "none", height |-> "none",
               heartbeat |-> FALSE, armable |-> FALSE, texts |-> <<>>]
    /\ craft = [mode |-> "STABILIZE", armed |-> "no", height |-> "ground", climbing |-> FALSE,
                flown |-> FALSE, gains |-> "old"]
    /\ wire = <<>> /\ orders = <<>> /\ overrides = "none"
    /\ directFacts = {} /\ directMishaps = 0

DirectMishap == directMishaps < MaxDirectMishaps /\ directMishaps' = directMishaps + 1

-----------------------------------------------------------------------------
(* The vehicle.                                                             *)

\* What MavlinkAdapter and DroneKit keep of a message.
Kept(s, m) ==
    CASE m.kind = "heartbeat" -> [s EXCEPT !.mode = m.mode, !.armed = m.armed, !.heartbeat = TRUE]
      [] m.kind = "landed" -> [s EXCEPT !.landed = m.landed]
      [] OTHER -> s
DroneKitKept(s, m) ==
    CASE m.kind = "position" -> [s EXCEPT !.height = m.height]
      [] m.kind = "prearm" -> [s EXCEPT !.armable = m.healthy]
      [] m.kind = "text" -> [s EXCEPT !.texts = Append(@, m.text)]
      [] OTHER -> Kept(s, m)

Connected == dpc \notin {"connect", "over"}
Report(m) ==
    IF flight = "descent"
    THEN Len(wire) < MaxWire /\ wire' = Append(wire, m) /\ UNCHANGED seen
    ELSE seen' = DroneKitKept(seen, m) /\ UNCHANGED wire
Aloft == craft.armed = "yes" /\ craft.height # "ground"

\* An order that the vehicle can follow is accepted unless something is wrong with it.
CanFollow(order) ==
    CASE order = "ARM" -> craft.mode = "GUIDED"
      [] order = "TAKEOFF" -> craft.mode = "GUIDED" /\ craft.armed = "yes"
      [] OTHER -> TRUE

Followed(order) ==
    CASE order = "ARM" -> [craft EXCEPT !.armed = "yes"]
      [] order = "TAKEOFF" -> [craft EXCEPT !.climbing = TRUE]
      [] OTHER -> [craft EXCEPT !.mode = order, !.climbing = FALSE]

\* DroneKit does not wait for acknowledgements.
Acknowledged(order, accepted) ==
    IF flight = "descent"
    THEN Report([kind |-> "ack", order |-> order, accepted |-> accepted])
    ELSE UNCHANGED linkVars

Obey ==
    /\ Connected /\ orders # <<>> /\ orders' = Tail(orders)
    /\ LET order == Head(orders)
       IN \/ /\ CanFollow(order) /\ craft' = Followed(order) /\ Acknowledged(order, TRUE)
             /\ UNCHANGED directMishaps
          \/ /\ IF CanFollow(order) THEN DirectMishap ELSE UNCHANGED directMishaps
             /\ Acknowledged(order, FALSE) /\ UNCHANGED craft
    /\ UNCHANGED <<flight, loopVars>>

Climb ==
    /\ craft.climbing /\ craft.armed = "yes" /\ craft.height # "high"
    /\ craft' = [craft EXCEPT !.height = IF @ = "ground" THEN "low" ELSE "high",
                              !.flown = @ \/ craft.height = "low"]
    /\ UNCHANGED linkVars

Sink ==
    /\ Aloft /\ (craft.mode \in {"LAND", "OTHER"} \/ overrides = "down")
    /\ craft' = [craft EXCEPT !.height = IF @ = "high" THEN "low" ELSE "ground"]
    /\ UNCHANGED linkVars

\* On the ground only.  Gains that were tuned are saved by it.
Disarm ==
    /\ craft.armed = "yes" /\ craft.height = "ground"
    /\ IF craft.gains = "tuned"
       THEN /\ craft' = [craft EXCEPT !.armed = "no", !.gains = "saved"]
            /\ Report([kind |-> "text", text |-> "saved"])
       ELSE craft' = [craft EXCEPT !.armed = "no"] /\ UNCHANGED linkVars

Tune ==
    /\ craft.mode = "AUTOTUNE" /\ Aloft /\ craft.gains = "old"
    /\ \/ craft' = [craft EXCEPT !.gains = "tuned"] /\ Report([kind |-> "text", text |-> "success"])
       \/ craft' = [craft EXCEPT !.gains = "failed"] /\ Report([kind |-> "text", text |-> "failed"])

Tell ==
    /\ UNCHANGED craft
    /\ \/ Report([kind |-> "heartbeat", mode |-> craft.mode, armed |-> craft.armed])
       \/ Report([kind |-> "position", height |-> craft.height,
                  sinking |-> flight = "descent" /\ craft.mode = "LAND" /\ Aloft])
       \/ /\ flight = "descent"
          /\ Report([kind |-> "landed", landed |-> IF craft.height = "ground" THEN "yes" ELSE "no"])
       \/ /\ craft.armed = "no"
          /\ \E healthy \in {TRUE, flight = "descent"} : Report([kind |-> "prearm", healthy |-> healthy])

Failsafe ==
    /\ craft.mode # "OTHER" /\ craft.armed = "yes" /\ DirectMishap
    /\ craft' = [craft EXCEPT !.mode = "OTHER", !.climbing = FALSE] /\ UNCHANGED linkVars

VehicleActs ==
    /\ Connected
    /\ Climb \/ Sink \/ Disarm \/ Tune \/ Tell
    /\ UNCHANGED <<flight, loopVars, orders, directMishaps>>

ModeChanges == Connected /\ Failsafe
               /\ UNCHANGED <<flight, loopVars, orders>>

-----------------------------------------------------------------------------
(* What a telemetry record of MavlinkAdapter says.                          *)

NoTelemetry == [heartbeat |-> FALSE, mode |-> "none", armed |-> "none", landed |-> "none",
                height |-> "none", sinking |-> FALSE, ack |-> "none", accepted |-> FALSE,
                prearm |-> FALSE]

\* MavlinkAdapter.poll: heartbeats, positions and landed states carry the last mode, arming
\* and landed state, whichever message brought them.
Telemetry(s, m) ==
    LET known == [NoTelemetry EXCEPT !.mode = s.mode, !.armed = s.armed, !.landed = s.landed]
    IN CASE m.kind = "heartbeat" -> [known EXCEPT !.heartbeat = TRUE]
         [] m.kind = "landed" -> known
         [] m.kind = "position" -> [known EXCEPT !.height = m.height, !.sinking = m.sinking]
         [] m.kind = "ack" -> [NoTelemetry EXCEPT !.ack = m.order, !.accepted = m.accepted]
         [] m.kind = "prearm" -> [NoTelemetry EXCEPT !.prearm = m.healthy]
         [] OTHER -> NoTelemetry

-----------------------------------------------------------------------------
(* The descent: mission.advance and MissionController.                      *)

To(p, phase) == [p |-> [p EXCEPT !.phase = phase], send |-> "none"]
Command(p, order, phase) == [p |-> [p EXCEPT !.phase = phase], send |-> order]

Awaited == [WAIT_GUIDED_ACK |-> <<"GUIDED", "WAIT_GUIDED_MODE">>,
            WAIT_ARM_ACK |-> <<"ARM", "WAIT_ARMED">>,
            WAIT_TAKEOFF_ACK |-> <<"TAKEOFF", "WAIT_ALTITUDE">>,
            WAIT_LAND_ACK |-> <<"LAND", "DESCENDING">>]

Acked(p, t) ==
    IF p.phase \in DOMAIN Awaited /\ t.ack = Awaited[p.phase][1] /\ t.accepted
    THEN To(p, Awaited[p.phase][2])
    ELSE To(p, "FAILED")

Descend(p, t) ==
    LET down == p.descended \/ t.sinking \/ t.height \in {"ground", "low"}
        q == [p EXCEPT !.descended = down]
    IN IF t.landed # "yes" THEN To(q, "DESCENDING")
       ELSE To(q, IF down THEN "WAIT_DISARM" ELSE "FAILED")

AwaitDisarm(p, t) ==
    To(p, CASE t.landed = "no" -> "FAILED"
            [] t.landed = "yes" /\ t.armed = "no" -> "LANDED"
            [] OTHER -> p.phase)

\* A stamp cannot go back here: the clock callback refuses one that does.
Advance(p, t) ==
    IF p.phase \in {"LANDED", "FAILED"} THEN To(p, p.phase)
    ELSE IF t.ack # "none" THEN Acked(p, t)
    ELSE IF p.phase = "WAIT_HEARTBEAT"
    THEN IF t.heartbeat THEN Command(p, "GUIDED", "WAIT_GUIDED_ACK") ELSE To(p, p.phase)
    ELSE IF p.phase = "WAIT_GUIDED_MODE"
    THEN To(p, IF t.mode = "GUIDED" THEN "WAIT_PREARM_READY" ELSE p.phase)
    ELSE IF p.phase # "WAIT_GUIDED_ACK" /\ t.mode \notin {"none", "GUIDED", "LAND"}
    THEN To(p, "FAILED")
    ELSE CASE p.phase = "WAIT_PREARM_READY" /\ t.prearm -> Command(p, "ARM", "WAIT_ARM_ACK")
           [] p.phase = "WAIT_ARMED" /\ t.mode = "LAND" -> To(p, "FAILED")
           [] p.phase = "WAIT_ARMED" /\ t.mode # "LAND" /\ t.armed = "yes" ->
                Command(p, "TAKEOFF", "WAIT_TAKEOFF_ACK")
           [] p.phase = "WAIT_ALTITUDE" /\ t.height = "high" -> Command(p, "LAND", "WAIT_LAND_ACK")
           [] p.phase = "DESCENDING" -> Descend(p, t)
           [] p.phase = "WAIT_DISARM" -> AwaitDisarm(p, t)
           [] OTHER -> To(p, p.phase)

\* observe_readiness: a fact once seen stays.
Latched(p, t) == [p EXCEPT !.heartbeat = @ \/ t.heartbeat, !.prearm = @ \/ t.prearm]
MissionReady == policy.heartbeat /\ policy.prearm

\* consume: the commands are sent and on record before the state moves.
Consume(p, t, stamp) ==
    LET next == Advance(Latched(p, t), t)
    IN \/ /\ policy' = next.p
          /\ orders' = (IF next.send = "none" THEN orders ELSE Append(orders, next.send))
          /\ directFacts' = directFacts \cup
               (IF next.send = "GUIDED" /\ stamp \in FirstWindow THEN {"delivered"} ELSE {})
          /\ UNCHANGED <<broken, directMishaps>>
       \/ /\ next.send # "none" /\ DirectMishap /\ broken' = TRUE
          /\ orders' \in {orders, Append(orders, next.send)}
          /\ policy' = Latched(p, t) /\ UNCHANGED directFacts

-----------------------------------------------------------------------------
(* The roll missions: advance of autotune.py and of hover.py, with the      *)
(* actions each transition takes.                                           *)

\* What a transition does: an override first, then a command, or the snapshot, which only
\* reads and writes files.
Nothing == [throttle |-> "same", order |-> "none", snapshot |-> FALSE]
Ordering(order) == [Nothing EXCEPT !.order = order]
Override(throttle) == [Nothing EXCEPT !.throttle = throttle]
Then(p, phase, action) == [p |-> [p EXCEPT !.phase = phase], action |-> action]

\* Up to the hold at 5 m, which both begin with; the parameters they set are left out.
Takeoff(p, o) ==
    CASE p.phase = "WAIT_READY" /\ o.heartbeat /\ o.armable ->
           Then(p, "WAIT_GUIDED", Ordering("GUIDED"))
      [] p.phase = "WAIT_GUIDED" /\ o.mode = "GUIDED" -> Then(p, "WAIT_ARMED", Ordering("ARM"))
      [] p.phase = "WAIT_ARMED" /\ o.armed = "yes" -> Then(p, "WAIT_ALTITUDE", Ordering("TAKEOFF"))
      [] p.phase = "WAIT_ALTITUDE" /\ o.height = "high" ->
           Then(p, "WAIT_ALT_HOLD", [Override("hold") EXCEPT !.order = "ALT_HOLD"])
      [] OTHER -> Then(p, p.phase, Nothing)

\* armed is False and the altitude is at most 0.3 m.
RollLanded(o) == o.armed = "no" /\ o.height = "ground"

AutoTune(p, o) ==
    LET saved == p.saved \/ o.text = "saved"
    IN CASE o.text = "failed" -> Then(p, "FAILED", Nothing)
         [] o.text # "failed" /\ p.phase = "WAIT_ALT_HOLD" /\ o.mode = "ALT_HOLD" ->
              Then(p, "WAIT_AUTOTUNE", Ordering("AUTOTUNE"))
         [] o.text # "failed" /\ p.phase = "WAIT_AUTOTUNE" /\ o.mode = "AUTOTUNE" ->
              Then(p, "TUNING", Nothing)
         [] o.text = "success" /\ p.phase = "TUNING" -> Then(p, "LANDING_TO_SAVE", Override("down"))
         [] o.text # "failed" /\ p.phase = "LANDING_TO_SAVE" ->
              IF saved /\ RollLanded(o)
              THEN Then([p EXCEPT !.saved = TRUE], "COMPLETE", [Nothing EXCEPT !.snapshot = TRUE])
              ELSE Then([p EXCEPT !.saved = saved], p.phase, Nothing)
         [] OTHER -> Takeoff(p, o)

Hover(p, o) ==
    CASE p.phase = "WAIT_ALT_HOLD" /\ o.mode = "ALT_HOLD" ->
           Then([p EXCEPT !.since = o.stamp], "HOVERING", Nothing)
      [] p.phase = "HOVERING" /\ o.mode # "ALT_HOLD" -> Then(p, "FAILED", Nothing)
      [] p.phase = "HOVERING" /\ o.mode = "ALT_HOLD" /\ o.stamp - p.since >= HoverStamps ->
           Then(p, "WAIT_LAND", Ordering("LAND"))
      [] p.phase = "WAIT_LAND" /\ RollLanded(o) -> Then(p, "COMPLETE", Nothing)
      [] OTHER -> Takeoff(p, o)

RollAdvance(p, o) ==
    IF p.phase \in {"COMPLETE", "FAILED"} THEN Then(p, p.phase, Nothing)
    ELSE IF flight = "autotune" THEN AutoTune(p, o) ELSE Hover(p, o)

\* execute_actions: modes, arming and takeoff go to the vehicle, an override replaces the
\* last.
Sent(action) == IF action.order = "none" THEN <<>> ELSE <<action.order>>
Throttle(action, was) == IF action.throttle = "same" THEN was ELSE action.throttle
Execute(action) ==
    /\ orders' = orders \o Sent(action)
    /\ overrides' = Throttle(action, overrides)

\* refresh_override, every half second: the arming again, the throttle again, or none when
\* the hover lands.
Refresh(phase) ==
    CASE phase = "WAIT_ARMED" -> Ordering("ARM")
      [] phase \in {"WAIT_ALT_HOLD", "WAIT_AUTOTUNE", "TUNING", "HOVERING"} -> Override("hold")
      [] phase = "LANDING_TO_SAVE" -> Override("down")
      [] OTHER -> Nothing
Refreshed(action, phase) ==
    /\ orders' = orders \o Sent(action) \o Sent(Refresh(phase))
    /\ overrides' = IF phase = "WAIT_LAND" THEN "none"
                    ELSE Throttle(Refresh(phase), Throttle(action, overrides))

-----------------------------------------------------------------------------
(* The loop.                                                                *)

\* connect_mavlink and connect_autotune_vehicle, with their time limit.
DirectConnect ==
    /\ dpc = "connect"
    /\ \/ /\ dpc' = "spin" /\ directFacts' = {"companion-ready"} /\ UNCHANGED directMishaps
       \/ /\ DirectMishap /\ dpc' = "over" /\ directFacts' = {"failure", "quiescence"}
    /\ UNCHANGED <<flight, inboxVars, broken, asked, policy, overrides, seen, craftVars>>

\* At most one callback.  The roll missions do not look at the clock before RUNNING.
SpinOnce ==
    \/ UNCHANGED inboxVars
    \/ started' = TRUE /\ UNCHANGED <<directStamp, ending>>
    \/ ending' = TRUE /\ UNCHANGED <<directStamp, started>>
    \/ /\ directStamp # LastDirectStamp /\ (flight = "descent" \/ started)
       /\ directStamp' = (IF directStamp = NoDirectStamp THEN 0 ELSE directStamp + 1)
       /\ UNCHANGED <<started, ending>>

\* begin_mission, once the clock shows zero and everything is ready.
BeginMission ==
    IF /\ flight = "descent" /\ started' /\ directStamp' = 0 /\ MissionReady
       /\ policy.phase = "WAIT_HEARTBEAT"
    THEN Consume(policy, [NoTelemetry EXCEPT !.heartbeat = TRUE, !.prearm = TRUE], 0)
    ELSE UNCHANGED <<policy, orders, directFacts, broken, directMishaps>>

DirectSpin ==
    /\ dpc = "spin" /\ dpc' = (IF flight = "descent" THEN "drain" ELSE "control")
    /\ SpinOnce /\ BeginMission
    /\ UNCHANGED <<flight, asked, overrides, seen, craft, wire>>

\* A stamp that goes back is the end.
ClockRegresses ==
    /\ dpc = "spin" /\ dpc' = (IF flight = "descent" THEN "drain" ELSE "control")
    /\ directStamp \in 1 .. LastDirectStamp /\ DirectMishap /\ broken' = TRUE
    /\ UNCHANGED <<flight, inboxVars, asked, policy, overrides, directFacts, seen, craftVars>>

\* One message of the round, up to a hundred of them: before RUNNING and the clock it is
\* only looked at for readiness.
DescentDrain ==
    /\ dpc = "drain" /\ ~broken /\ wire # <<>>
    /\ LET s == Kept(seen, Head(wire))
           t == Telemetry(s, Head(wire))
       IN /\ seen' = s /\ wire' = Tail(wire)
          /\ IF started /\ directStamp # NoDirectStamp
             THEN Consume(policy, t, directStamp)
             ELSE /\ policy' = Latched(policy, t)
                  /\ UNCHANGED <<broken, orders, directFacts, directMishaps>>
    /\ UNCHANGED <<flight, dpc, inboxVars, asked, craft, overrides>>

DrainEnds ==
    /\ dpc = "drain" /\ dpc' = "record"
    /\ directFacts' = directFacts \cup (IF MissionReady THEN {"mission-ready"} ELSE {})
    /\ UNCHANGED <<flight, inboxVars, broken, asked, policy, overrides, seen, craftVars, directMishaps>>

\* last_heartbeat is more than a minute old.
HeartbeatAges ==
    /\ flight # "descent" /\ seen.heartbeat /\ Connected /\ DirectMishap
    /\ seen' = [seen EXCEPT !.heartbeat = FALSE]
    /\ UNCHANGED <<flight, loopVars, craftVars>>

\* autotune_control_timestamp_ns: the first command may go out before the clock ticks.
ControlStamp ==
    IF started /\ directStamp # NoDirectStamp THEN directStamp
    ELSE IF started /\ policy.phase = "WAIT_READY" THEN 0 ELSE NoDirectStamp
Observation ==
    [stamp |-> ControlStamp, heartbeat |-> seen.heartbeat, armable |-> seen.armable,
     mode |-> seen.mode, armed |-> seen.armed, height |-> seen.height,
     text |-> IF seen.texts = <<>> THEN "none" ELSE Head(seen.texts)]
RollReady == directFacts \cup (IF seen.heartbeat /\ seen.armable THEN {"mission-ready"} ELSE {})

\* One observation, then the refresh if it is due.  The first observation puts the delivery
\* of the initial command on record, whether or not it sent one.
RollControl ==
    /\ dpc = "control" /\ ~broken /\ ControlStamp # NoDirectStamp /\ dpc' = "record"
    /\ seen' = [seen EXCEPT !.texts = IF @ = <<>> THEN @ ELSE Tail(@)]
    /\ LET next == RollAdvance(policy, Observation)
           told == RollReady \cup (IF policy.phase = "WAIT_READY" THEN {"delivered"} ELSE {})
           parts == {Nothing, [next.action EXCEPT !.order = "none"]} \ {next.action}
       IN \/ /\ policy' = next.p /\ directFacts' = told
             /\ \/ Execute(next.action)
                \/ Len(orders) < MaxWire /\ Refreshed(next.action, next.p.phase)
                \/ next.p.phase = "WAIT_LAND" /\ Refreshed(next.action, "WAIT_LAND")
             /\ UNCHANGED <<broken, directMishaps>>
          \/ /\ policy' = next.p /\ Refresh(next.p.phase) # Nothing /\ DirectMishap
             /\ broken' = TRUE /\ directFacts' = told /\ Execute(next.action)
          \/ /\ DirectMishap /\ broken' = TRUE
             /\ \E part \in parts : Execute(part)
             /\ directFacts' = RollReady /\ UNCHANGED policy
    /\ UNCHANGED <<flight, inboxVars, asked, craft, wire>>

NoControl ==
    /\ dpc = "control" /\ (broken \/ ControlStamp = NoDirectStamp) /\ dpc' = "record"
    /\ directFacts' = RollReady
    /\ UNCHANGED <<flight, inboxVars, broken, asked, policy, overrides, seen, craftVars, directMishaps>>

\* Mutant: each outcome is written.
OutcomeAgain(facts, fact) == facts \cup {fact}

\* observe_terminal: the first outcome is the outcome.
Outcome(facts, fact) == IF facts \cap Terminal = {} THEN facts \cup {fact} ELSE facts

\* The rest of the round: the telemetry request, which nobody catches, the outcome, the
\* heartbeat's time limit and the finalize request.
DirectRecord ==
    /\ dpc = "record"
    /\ LET requests == /\ flight = "descent" /\ started /\ directStamp # NoDirectStamp
                       /\ policy.heartbeat /\ ~asked /\ ~broken
           heard == IF flight = "descent" THEN policy.heartbeat ELSE seen.heartbeat
           flown == IF policy.phase \in {"LANDED", "COMPLETE"}
                    THEN Outcome(directFacts, "finished") ELSE directFacts
           failed == broken \/ policy.phase = "FAILED"
       IN \/ /\ requests /\ DirectMishap /\ dpc' = "close" /\ UNCHANGED <<ending, asked, directFacts>>
          \/ /\ asked' = (asked \/ requests) /\ dpc' = "close"
             /\ directFacts' = Outcome(flown, "failure") /\ UNCHANGED ending
             /\ \/ failed /\ UNCHANGED directMishaps
                \/ ~failed /\ ~heard /\ DirectMishap
          \/ /\ ~failed /\ asked' = (asked \/ requests) /\ directFacts' = flown
             /\ ending' \in {ending, TRUE} /\ dpc' = (IF ending' THEN "close" ELSE "spin")
             /\ UNCHANGED directMishaps
    /\ UNCHANGED <<flight, directStamp, started, broken, policy, overrides, seen, craftVars>>

\* The finally clause: the overrides are let go of, if that call does not fail.
DirectClose ==
    /\ dpc = "close" /\ dpc' = "over" /\ directFacts' = directFacts \cup {"quiescence"}
    /\ \/ overrides' = "none" /\ UNCHANGED directMishaps
       \/ flight # "descent" /\ DirectMishap /\ UNCHANGED overrides
    /\ UNCHANGED <<flight, inboxVars, broken, asked, policy, seen, craftVars>>

DirectNext ==
    \/ DirectConnect \/ DirectSpin \/ ClockRegresses \/ DescentDrain \/ DrainEnds
    \/ HeartbeatAges \/ RollControl \/ NoControl \/ DirectRecord \/ DirectClose
    \/ Obey \/ VehicleActs \/ ModeChanges

-----------------------------------------------------------------------------
(* Properties.                                                              *)

\* A mission on record as finished was flown: the vehicle was up, is down again and is
\* disarmed, and tuned gains are saved, although everything the mission knows of it is late
\* and its landed state may be from before the takeoff.
FlownIsFlown ==
    "finished" \in directFacts =>
        /\ craft.flown /\ craft.height = "ground" /\ craft.armed = "no"
        /\ flight = "autotune" => craft.gains = "saved"

\* The descent has one command open at a time, until it is acknowledged.
OneOrder ==
    flight = "descent" =>
        Len(orders) + Cardinality({i \in 1 .. Len(wire) : wire[i].kind = "ack"}) <= 1

\* The RC override ends with the mission, unless the call that ends it fails.
OverridesEnd == dpc = "over" /\ overrides # "none" => directMishaps > 0

\* There is one outcome, no command after it, and nothing after the quiescence marker.
DirectIsFinal ==
    /\ directFacts \cap Terminal # {} =>
         /\ directFacts' \cap Terminal = directFacts \cap Terminal
         /\ orders' \in {orders, IF orders = <<>> THEN orders ELSE Tail(orders)}
    /\ "quiescence" \in directFacts => UNCHANGED loopVars
=============================================================================
