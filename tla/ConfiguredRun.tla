--------------------------- MODULE ConfiguredRun ---------------------------
(***************************************************************************)
(* The companion of a configured run: one thread whose loop takes a        *)
(* callback, reads telemetry, and ticks the host, the plan and the one     *)
(* operation that may command the vehicle (run_configured, ConfiguredHost, *)
(* ConfiguredMission, DroneOperations).                                    *)
(*                                                                         *)
(* Telemetry is kept by message: a heartbeat (mode, armed) and the landed  *)
(* state.  `fresh' are those at most 3 s old, `newer' those received since *)
(* the operation started.  `reached' says that a position, altitude or     *)
(* parameter message since the start shows what the operation waits for.   *)
(* Time is what it does: a message grows stale, an operation is due, a     *)
(* deadline passes.                                                        *)
(***************************************************************************)
EXTENDS Naturals, Sequences, FiniteSets

CONSTANTS
    Plans,           \* plans to fly: sequences of [tool, when]
    MaxRunMishaps    \* bound: failing calls, invalid telemetry, a clock that goes back

AckTools == {"set_mode", "arm", "takeoff", "land"}
GuidedTools == {"takeoff", "goto", "hold"}
PayloadTools == {"attach", "release"}
PhaseTools == {"begin", "check"}
PlanTools == AckTools \cup GuidedTools \cup PayloadTools \cup PhaseTools \cup {"configure", "wait"}

\* The validated plans name the tools of the registry; the recovery is nobody's to ask for.
ASSUME PlansAssumption ==
    /\ \A p \in Plans : p \in Seq([tool : PlanTools, when : {"always", "eligible"}])
    /\ MaxRunMishaps \in Nat

VARIABLES
    lpc,        \* where the loop is
    plan,       \* the validated plan
    ops,        \* DroneOperations and the adapters it calls
    host,       \* ConfiguredHost and its ConfiguredMission
    told,       \* what callbacks and signals told: running, stop
    expired,    \* the attempt's time, or the time to take off in, is over
    eligible,   \* the last approved FM2 decision: none, yes, no
    recoveryLate,       \* the deadline of the recovery passed
    runMishaps

runVars == <<lpc, plan, ops, host, told, expired, eligible, recoveryLate, runMishaps>>

Tools == PlanTools \cup {"attempt_recovery"}
Goals == {"configure", "takeoff", "goto", "hold", "attempt_recovery"}
Messages == {"heartbeat", "landed"}

RunMishap == runMishaps < MaxRunMishaps /\ runMishaps' = runMishaps + 1

RunStateOK ==
    /\ lpc \in {"start", "loop", "closing", "over"}
    /\ plan \in Plans
    /\ \A i \in DOMAIN ops.status :
         /\ ops.status[i].tool \in Tools
         /\ ops.status[i].state \in {"running", "succeeded", "failed", "cancelled"}
    /\ ops.active \in 0 .. Len(ops.status) /\ ops.recovery \in 0 .. Len(ops.status)
    /\ ops.fresh \subseteq Messages /\ ops.newer \subseteq Messages
    /\ ops.service \in {"none", "pending", "accepted", "refused", "cancelled"}
    /\ ops.judge \in {"none", "pending", "asked", "approved", "rejected"}
    /\ ops.disarmed \in {"no", "first", "ready"}
    /\ host.mission \in {"running", "succeeded", "failed", "cancelled"}
    /\ host.step \in 0 .. Len(plan) + 1
    /\ host.facts \subseteq {"execution-ready", "finished", "failure", "quiescence"}
    /\ told \subseteq {"running", "stop"} /\ expired \in BOOLEAN
    /\ eligible \in {"none", "yes", "no"}
    /\ recoveryLate \in BOOLEAN
    /\ runMishaps \in 0 .. MaxRunMishaps

ConfiguredInit ==
    /\ lpc = "start" /\ plan \in Plans
    /\ ops = [status |-> <<>>, active |-> 0, acked |-> FALSE, due |-> FALSE, stopped |-> FALSE,
              recovery |-> 0, phase |-> "none", sent |-> <<>>,
              mode |-> "OTHER", armed |-> "unknown", landed |-> "unknown", reached |-> FALSE,
              failsafe |-> FALSE, fresh |-> {}, newer |-> {},
              service |-> "none", judge |-> "none", disarmed |-> "no"]
    /\ host = [mission |-> "running", step |-> 0, op |-> 0, started |-> FALSE, error |-> FALSE,
               recovery |-> 0, facts |-> {}]
    /\ told = {} /\ expired = FALSE /\ eligible = "none" /\ recoveryLate = FALSE /\ runMishaps = 0

-----------------------------------------------------------------------------
(* DroneOperations.                                                         *)

Tool(o) == o.status[o.active].tool
Fresh(o, messages) == messages \subseteq o.fresh
AfterStart(o, messages) == messages \subseteq o.fresh \cap o.newer
GuidedArmed(o) == o.mode = "GUIDED" /\ o.armed = "yes"
Grounded(o) == o.landed = "yes" /\ o.armed = "no"
Flyable(o) == o.mode \in {"GUIDED", "LAND"}
Send(o) == [o EXCEPT !.sent = Append(@, o.active)]

Finish(o, state) ==
    IF o.active = 0 THEN o
    ELSE [o EXCEPT !.status[o.active].state = state, !.active = 0, !.acked = FALSE,
                   !.due = FALSE, !.newer = {}, !.reached = FALSE,
                   !.stopped = @ \/ state # "succeeded",
                   !.service = IF @ = "pending" /\ state # "succeeded" THEN "cancelled" ELSE @]

Abort(o) == [Finish(o, "cancelled") EXCEPT !.stopped = TRUE]

\* A new operation becomes the active one.
Begin(o, tool) ==
    [o EXCEPT !.status = Append(@, [tool |-> tool, state |-> "running"]),
              !.active = Len(o.status) + 1, !.acked = FALSE, !.due = FALSE, !.newer = {},
              !.reached = FALSE]

\* _start_home_recovery needs authority over a vehicle that flies.
NoWayHome(o) == ~Fresh(o, {"heartbeat", "landed"}) \/ o.failsafe \/ ~Flyable(o) \/ Grounded(o)

ReturnHome(o) ==
    LET r == [Begin(o, "attempt_recovery") EXCEPT
                !.recovery = Len(o.status) + 1, !.stopped = TRUE,
                !.phase = IF o.mode = "LAND" THEN "land" ELSE "return"]
    IN IF o.mode = "LAND" THEN r ELSE Send(r)

\* _start_home_recovery, once.
StartHomeRecovery(o) == IF o.recovery # 0 \/ NoWayHome(o) THEN o ELSE ReturnHome(o)

EvaluateHomeRecovery(o) ==
    IF ~Fresh(o, {"heartbeat", "landed"}) \/ o.failsafe \/ ~Flyable(o) THEN Finish(o, "failed")
    ELSE IF Grounded(o) THEN Finish(o, "succeeded")
    ELSE IF o.phase = "return" /\ o.reached
         THEN [Send(o) EXCEPT !.phase = "land"]
         ELSE o

\* What the operation waits for is observed: since it started, where it matters.
Complete(o) ==
    CASE Tool(o) \in Goals -> o.reached
      [] Tool(o) = "wait" -> Fresh(o, {"heartbeat", "landed"}) /\ Grounded(o)
      [] Tool(o) = "set_mode" -> AfterStart(o, {"heartbeat"}) /\ o.mode = "GUIDED"
      [] Tool(o) = "arm" -> AfterStart(o, {"heartbeat"}) /\ o.armed = "yes"
      [] Tool(o) = "land" -> AfterStart(o, {"landed", "heartbeat"}) /\ Grounded(o)
      [] Tool(o) \in PayloadTools -> o.service = "accepted"
      [] Tool(o) = "begin" -> TRUE
      [] Tool(o) = "check" -> o.judge = "approved"

\* What the operation must not lose while it runs.
Lost(o) ==
    \/ Tool(o) \notin PhaseTools \cup {"wait"} /\ ~Fresh(o, {"heartbeat"})
    \/ Tool(o) \in GuidedTools /\ ~GuidedArmed(o)
    \/ Tool(o) = "configure" /\ ~(Fresh(o, {"landed"}) /\ Grounded(o))
    \/ Tool(o) \in PayloadTools /\ o.service = "refused"
    \/ Tool(o) = "check" /\ o.judge = "rejected"

\* _evaluate: what ends the operation is looked at in this order.
Evaluate(o) ==
    IF o.active = 0 THEN o
    ELSE IF Tool(o) # "attempt_recovery" /\ expired THEN StartHomeRecovery(Finish(o, "failed"))
    ELSE IF o.due THEN Finish(o, "failed")
    ELSE IF Tool(o) = "attempt_recovery" THEN EvaluateHomeRecovery(o)
    ELSE IF Lost(o) THEN Finish(o, "failed")
    ELSE IF Tool(o) \in AckTools /\ ~o.acked THEN o
    ELSE IF Complete(o) THEN Finish(o, "succeeded")
    ELSE o

\* _dispatch: what an operation asks of the observed state before it commands ...
Refused(o) ==
    /\ Tool(o) \notin PhaseTools \cup {"wait"}
    /\ \/ ~Fresh(o, {"heartbeat"})
       \/ Tool(o) = "configure" /\ ~(Fresh(o, {"landed"}) /\ Grounded(o))
       \/ Tool(o) \in GuidedTools /\ ~GuidedArmed(o)
       \/ Tool(o) = "arm" /\ o.mode # "GUIDED"
       \/ Tool(o) = "attach" /\ ~Grounded(o)
       \/ /\ Tool(o) = "release"
          /\ ~(GuidedArmed(o) /\ o.landed = "no") /\ ~Grounded(o)

\* ... and what it then sends, to the vehicle, the payload service or the judge, whose
\* check waits until the vehicle was seen disarmed (PhaseExchange.check).
Dispatch(o) ==
    CASE Tool(o) \in {"begin", "wait", "hold"} -> o
      [] Tool(o) \in PayloadTools -> [o EXCEPT !.service = "pending"]
      [] Tool(o) = "check" ->
           [o EXCEPT !.judge = IF o.disarmed = "ready" THEN "asked" ELSE "pending"]
      [] Tool(o) = "land" /\ Fresh(o, {"landed"}) /\ Grounded(o) -> Finish(o, "succeeded")
      [] OTHER -> Send(o)

\* start(); `broken' if the call to the vehicle or the service raises.
Start(o, tool, broken) ==
    LET b == Begin(o, tool) IN
    IF expired THEN StartHomeRecovery(Finish(b, "failed"))
    ELSE IF Refused(b) \/ broken THEN Finish(b, "failed")
    ELSE Evaluate(Dispatch(b))

\* recover_land: one LAND, then nothing.
RecoverLand(o) ==
    IF o.recovery # 0 \/ ~Fresh(o, {"heartbeat"}) \/ o.armed # "yes" \/ ~Flyable(o) THEN o
    ELSE [Start([Abort(o) EXCEPT !.stopped = FALSE], "land", FALSE) EXCEPT
            !.recovery = Len(o.status) + 1, !.stopped = TRUE]

\* Simulation time since the last tick: the operation may be due.
Elapsed(o) == {o, [o EXCEPT !.due = (o.active # 0)]}

\* observe(): one telemetry message.
Heard(o) ==
    LET busy(tools) == o.active # 0 /\ Tool(o) \in tools
        hear(m, p) == [p EXCEPT !.fresh = @ \cup {m},
                                !.newer = IF busy(AckTools) THEN @ \cup {m} ELSE @]
        beat == {hear("heartbeat", [o EXCEPT !.mode = m, !.armed = a,
                                             !.disarmed = IF a = "yes" THEN "no" ELSE @]) :
                   m \in {"GUIDED", "LAND"}, a \in {"yes", "no"}}
        land == {hear("landed", [o EXCEPT !.landed = l]) : l \in {"yes", "no"}}
        move == IF busy(Goals) THEN {[o EXCEPT !.reached = r] : r \in BOOLEAN} ELSE {}
        acks == IF busy(AckTools) THEN {[o EXCEPT !.acked = TRUE], Finish(o, "failed")} ELSE {}
    IN beat \cup land \cup move \cup acks

-----------------------------------------------------------------------------
(* ConfiguredHost and ConfiguredMission.                                    *)

RecoveryPending(o, h) == h.recovery # 0 /\ o.status[h.recovery].state = "running"

\* ConfiguredHost.fail, the first time: an operation that recovers goes on, else the plan
\* is aborted and, if asked, LAND is commanded.  <<operations, host>> afterwards.
Fail(o, h, recover) ==
    LET a == IF o.recovery # 0 THEN o ELSE Abort(o)
        r == IF recover THEN RecoverLand(a) ELSE a
    IN IF h.error THEN <<o, h>>
       ELSE <<r, [h EXCEPT
                    !.error = TRUE,
                    !.mission = IF o.recovery = 0 /\ @ = "running" THEN "cancelled" ELSE @,
                    !.recovery = r.recovery,
                    !.facts = IF "finished" \in @ THEN @ ELSE @ \cup {"failure"}]>>

\* _next_step: the next step whose condition holds; 0 if the eligibility is unknown.
NextStep(h) ==
    LET rest == {i \in h.step + 1 .. Len(plan) : plan[i].when = "always" \/ eligible # "no"}
        next == CHOOSE i \in rest \cup {Len(plan) + 1} :
                  \A j \in rest \cup {Len(plan) + 1} : i <= j
    IN IF next <= Len(plan) /\ plan[next].when = "eligible" /\ eligible = "none" THEN 0
       ELSE next

\* ConfiguredMission.tick and what the host makes of its state.
MissionTick(o, h, broken) ==
    LET state == IF h.op = 0 THEN "succeeded" ELSE o.status[h.op].state
        next == NextStep(h)
        k == Len(o.status) + 1
        s == Start(o, plan[next].tool, broken)
        begun == [h EXCEPT !.step = next, !.op = k]
    IN IF state = "running" \/ h.mission # "running" THEN <<o, h>>
       ELSE IF state # "succeeded" THEN Fail(o, [h EXCEPT !.mission = state], TRUE)
       ELSE IF next = 0 THEN Fail(o, [h EXCEPT !.mission = "failed"], TRUE)
       ELSE IF next <= Len(plan)
       THEN IF s.status[k].state \in {"failed", "cancelled"}
            THEN Fail(s, [begun EXCEPT !.mission = s.status[k].state], TRUE)
            ELSE <<s, begun>>
       ELSE IF Grounded(o)
       THEN <<o, [h EXCEPT !.mission = "succeeded", !.facts = @ \cup {"finished"}]>>
       ELSE Fail(o, [h EXCEPT !.mission = "succeeded"], TRUE)

\* ConfiguredHost.tick, after the operation was ticked.
HostTick(o, h, broken) ==
    IF h.error \/ (~h.started /\ ~("running" \in told /\ Fresh(o, {"heartbeat"}))) THEN <<o, h>>
    ELSE MissionTick(Evaluate(o), [h EXCEPT !.started = TRUE, !.facts = @ \cup {"execution-ready"}],
                     broken)

-----------------------------------------------------------------------------
(* run_configured.                                                          *)

\* Connect and compose; before there is a host a failure is only reported.
Startup ==
    /\ lpc = "start"
    /\ \/ lpc' = "loop" /\ UNCHANGED <<host, runMishaps>>
       \/ RunMishap /\ lpc' = "over"
          /\ host' = [host EXCEPT !.error = TRUE, !.facts = {"failure", "quiescence"}]
    /\ UNCHANGED <<plan, ops, told, expired, eligible, recoveryLate>>

\* spin_once: a callback.  The judge decides the request it was sent; an approval of FM2
\* also says whether a payload is eligible.
Callback ==
    /\ lpc = "loop"
    /\ \/ /\ told' \in {told \cup {"running"}, told \cup {"stop"}}
          /\ UNCHANGED <<ops, expired, eligible>>
       \/ expired' = TRUE /\ UNCHANGED <<ops, told, eligible>>
       \/ /\ ops.service = "pending"
          /\ \E a \in {"accepted", "refused"} : ops' = [ops EXCEPT !.service = a]
          /\ UNCHANGED <<told, expired, eligible>>
       \/ /\ ops.judge = "asked"
          /\ \/ ops' = [ops EXCEPT !.judge = "rejected"] /\ UNCHANGED eligible
             \/ ops' = [ops EXCEPT !.judge = "approved"] /\ eligible' \in {"yes", "no"}
          /\ UNCHANGED <<told, expired>>
    /\ UNCHANGED <<lpc, plan, host, recoveryLate, runMishaps>>

\* A telemetry message.
Poll ==
    /\ lpc = "loop"
    /\ \E o \in Elapsed(ops) : ops' \in {Evaluate(p) : p \in Heard(o)}
    /\ UNCHANGED <<lpc, plan, host, told, expired, eligible, recoveryLate, runMishaps>>

\* What telemetry should not bring: a value that is not finite, a failsafe, a mode the
\* companion did not ask for, or nothing for 3 s.
BadTelemetry ==
    /\ lpc = "loop" /\ RunMishap
    /\ ops' \in {Evaluate(p) : p \in
                   {Finish(ops, "failed"), [ops EXCEPT !.failsafe = TRUE],
                    [ops EXCEPT !.mode = "OTHER", !.fresh = @ \cup {"heartbeat"}]}
                   \cup {[ops EXCEPT !.fresh = @ \ {m}] : m \in Messages}}
    /\ UNCHANGED <<lpc, plan, host, told, expired, eligible, recoveryLate>>

\* VehicleStatusStream.sample, and a check that waited for it (PhaseExchange.advance).
Sampled(o) ==
    LET d == IF o.armed = "yes" THEN "no" ELSE IF o.disarmed = "no" THEN "first" ELSE "ready"
    IN IF o.armed = "unknown" THEN {o}
       ELSE {o, [o EXCEPT !.disarmed = d,
                          !.judge = IF @ = "pending" /\ d = "ready" THEN "asked" ELSE @]}

\* The rest of a round: a stop lands first, and after a success ends the loop; the host
\* is ticked; a host that failed and waits for no recovery ends the loop.
Round ==
    /\ lpc = "loop"
    /\ \E o \in Sampled(ops), broken \in BOOLEAN :
       \E s \in {IF "stop" \in told /\ host.mission # "succeeded" THEN Fail(o, host, TRUE)
                 ELSE <<o, host>>} :
         /\ IF broken THEN RunMishap ELSE UNCHANGED runMishaps
         /\ IF "stop" \in told /\ ~s[2].error
            THEN ops' = o /\ lpc' = "closing" /\ UNCHANGED host
            ELSE \E e \in {Evaluate(x) : x \in Elapsed(s[1])} :
                 \E t \in {HostTick(e, s[2], broken)} :
                   /\ ops' = t[1] /\ host' = t[2]
                   /\ lpc' = IF t[2].error /\ (recoveryLate \/ ~RecoveryPending(t[1], t[2]))
                             THEN "closing" ELSE "loop"
    /\ UNCHANGED <<plan, told, expired, eligible, recoveryLate>>

\* The loop ends without a recovery of its own: the readiness or the overall deadline
\* passed, the clock went back, or a call raised.
LoopBreaks ==
    /\ lpc = "loop" /\ RunMishap
    /\ LET s == Fail(ops, host, FALSE) IN ops' = s[1] /\ host' = s[2]
    /\ lpc' = "closing"
    /\ UNCHANGED <<plan, told, expired, eligible, recoveryLate>>

\* The transports are closed, then ConfiguredHost.finalize.
FinalizeHost ==
    /\ lpc = "closing" /\ lpc' = "over"
    /\ ops' = IF RecoveryPending(ops, host) THEN Abort(ops) ELSE ops
    /\ host' = [host EXCEPT !.facts = @ \cup {"quiescence"}
                                        \cup (IF host.error THEN {"failure"} ELSE {})]
    /\ UNCHANGED <<plan, told, expired, eligible, recoveryLate, runMishaps>>

\* Wall time since the failure.
RecoveryDeadline ==
    /\ host.error /\ ~recoveryLate /\ lpc # "over" /\ recoveryLate' = TRUE
    /\ UNCHANGED <<lpc, plan, ops, host, told, expired, eligible, runMishaps>>

-----------------------------------------------------------------------------

Loop == Startup \/ Round \/ FinalizeHost

ConfiguredNext == Loop \/ Callback \/ Poll \/ BadTelemetry \/ LoopBreaks \/ RecoveryDeadline

-----------------------------------------------------------------------------
(* Properties.                                                              *)

\* One operation runs at a time.  After the first that did not succeed no step of the plan
\* starts, and one recovery at most commands the vehicle, whoever asked for it: the
\* expired attempt, the host or both (DroneOperations.start, _start_home_recovery).
OneOperation ==
    /\ \A i \in DOMAIN ops.status : ops.status[i].state = "running" <=> i = ops.active
    /\ \A f \in DOMAIN ops.status :
         ops.status[f].state \in {"failed", "cancelled"} =>
           LET after == {i \in f + 1 .. Len(ops.status) :
                           \E k \in DOMAIN ops.sent : ops.sent[k] = i}
           IN /\ Cardinality(after) <= 1
              /\ \A i \in after : ops.status[i].tool \in {"land", "attempt_recovery"}
    /\ host.mission = "running" /\ host.op = 0 => ~ops.stopped

\* The mission is reported finished only when every operation of the plan succeeded, and
\* not after a failure was reported (ConfiguredHost.tick).
FinishIsEarned ==
    "finished" \in host.facts =>
        /\ host.mission = "succeeded"
        /\ \A i \in DOMAIN ops.status :
             ops.status[i].state = "succeeded" \/ i = ops.recovery \/ host.error
        /\ \A i \in DOMAIN plan : plan[i].when = "always" =>
             \E k \in DOMAIN ops.status : ops.status[k] = [tool |-> plan[i].tool, state |-> "succeeded"]

\* The failure and the finish are final, and nothing follows the quiescence marker.
ConfiguredIsFinal ==
    /\ "failure" \in host.facts => "finished" \notin host'.facts \ host.facts
    /\ "quiescence" \in host.facts => UNCHANGED <<ops, host>>
=============================================================================
