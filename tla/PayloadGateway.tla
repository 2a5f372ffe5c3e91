--------------------------- MODULE PayloadGateway ---------------------------
(***************************************************************************)
(* The electromagnet service: PayloadAuthority (payload.py), PayloadGateway*)
(* and ScenarioController (controller.py) and the process main loop of     *)
(* runtime_node.py.                                                        *)
(*                                                                         *)
(* Service calls run on the threads of a MultiThreadedExecutor.  A call    *)
(* holds the operation lock from its ledger lookup to its reply; the data  *)
(* callbacks (vehicle truth, payload truth, coordinator results) only take *)
(* the short state lock, so they interleave with a call at every point at  *)
(* which it does not hold that lock.  One action below is one such         *)
(* critical section.                                                       *)
(*                                                                         *)
(* Data abstraction: a position is a model value of Places; its pickup     *)
(* zones and the centre-error test are constant relations.  Simulation     *)
(* timestamps are small naturals and Horizon stands for the 500 ms history *)
(* horizon.                                                                *)
(***************************************************************************)
EXTENDS Integers, FiniteSets

CONSTANTS
    Markers,       \* the payload ids of PAYLOAD_IDS
    Places,        \* abstract positions of the vehicle and of a payload
    ZonesAt,       \* [Places -> SUBSET zones]: PickupZone.contains
    CloseTo,       \* pairs <<p, q>> whose centre error is within tolerance
    PickupZones,   \* [Markers -> SUBSET zones]: PayloadAuthority._payload_zones
    Ids,           \* command ids, well formed or not
    ValidIds,      \* the ids that match _COMMAND_ID
    RunId,         \* the run this process serves
    Requests,      \* the requests callers may send
    Callers,       \* concurrent clients of the PayloadCommand service
    NumThreads,    \* executor threads
    MaxResponses,  \* bound: callers stop once this many answers were numbered
    Horizon,       \* history horizon, in timestamp units
    VehicleFacts,  \* vehicle truth samples the environment may deliver
    PayloadFacts,  \* payload truth samples the environment may deliver
    None           \* Python's None

Codes == {"OK", "STALE_RUN", "INVALID_COMMAND_ID", "UNKNOWN_MARKER",
          "INVALID_ACTION", "NOT_ATTACHED", "WRONG_PICKUP_ZONE", "NOT_LANDED",
          "OUTSIDE_PICKUP_ZONE", "PAYLOAD_NOT_GROUNDED", "CAPACITY_OCCUPIED",
          "CENTER_ERROR", "NOT_READY", "STALE_PHYSICAL_STATE",
          "INVALID_PHYSICAL_STATE", "COORDINATOR_PUBLISH_FAILED",
          "PHYSICAL_CONFIRMATION_TIMEOUT", "PHYSICAL_CONFIRMATION_MISMATCH",
          "COMMAND_ID_CONFLICT", "COMMAND_ID_ACTION_CONFLICT",
          "PHYSICAL_COMMAND_PUBLISH_FAILED"}

\* What parse_physical_result lets through: a confirmation names a state and
\* the code OK, an error names no state.
PhysicalResults ==
    [id : Ids, status : {"confirmed"}, state : {"attached", "detached"}, code : {"OK"}]
      \cup
    [id : Ids, status : {"error"}, state : {"unknown"},
     code : {"COMMAND_ID_ACTION_CONFLICT", "PHYSICAL_COMMAND_PUBLISH_FAILED"}]

\* _VehicleFact and _PayloadFact.
VehicleTruths == [t : Nat, place : Places, grounded : BOOLEAN]
PayloadTruths == [t : Nat, place : Places, grounded : BOOLEAN, attached : BOOLEAN]

\* _PendingResult, with the id it is registered under.
PendingResults ==
    [id : Ids, marker : Markers, value : PhysicalResults \cup {None}]

Phases == {"idle", "queued", "authorize", "publish", "wait", "resolve",
           "record", "emit"}

ResponseRecords ==
    [accepted : BOOLEAN, code : Codes, id : Ids, seq : Nat]

EventRecords ==
    [t : Nat, event_id : Nat, marker : Markers, id : Ids,
     state : {"attached", "detached"}]

\* A ledger entry: the request and the response it got.
LedgerEntries == [req : Requests, resp : ResponseRecords]

\* What a service thread holds in its locals.
CallRecords == [phase : Phases, req : Requests \cup {None}, confirmed : BOOLEAN,
                event : EventRecords \cup {None}]

ASSUME GatewayAssumption ==
    /\ \A r \in Requests : r.id \in Ids
    /\ ValidIds \subseteq Ids
    /\ PickupZones \in [Markers -> SUBSET UNION {ZonesAt[p] : p \in Places}]
    /\ NumThreads \in Nat \ {0}
    /\ MaxResponses \in Nat
    /\ Horizon \in Nat
    /\ VehicleFacts \subseteq VehicleTruths
    /\ PayloadFacts \subseteq PayloadTruths
    /\ None \notin VehicleTruths \cup PayloadTruths \cup PendingResults
                     \cup PhysicalResults \cup LedgerEntries \cup EventRecords

VARIABLES
    vehicle,          \* _vehicle: latest vehicle truth, or None
    payloads,         \* _payloads: latest truth of each marker, or None
    vehicleHistory,   \* _vehicle_history
    payloadHistories, \* _payload_histories
    pending,          \* _pending: the one registered result slot, or None
    responses,        \* _responses: the command-id ledger
    responseSequence, \* _response_sequence
    eventId,          \* _event_id
    calls,            \* what each service thread is doing
    ready,            \* ScenarioController._ready
    stopping,         \* the main loop left: finalizing or requested_stop
    expired,          \* a confirmation wait ran out after the loop was left
    quiescent,        \* ScenarioController._quiescent
    destroyed,        \* node.destroy_node() took the publishers away
    wires,            \* history: coordinator commands published per id
    events,           \* history: payload events published
    replies           \* history: answers handed back to callers

factVars == <<vehicle, payloads, vehicleHistory, payloadHistories>>
ledgerVars == <<responses, responseSequence>>
loopVars == <<ready, stopping, expired, quiescent, destroyed>>
gatewayVars == <<vehicle, payloads, vehicleHistory, payloadHistories, pending,
                 responses, responseSequence, eventId, calls, ready, stopping,
                 expired, quiescent, destroyed, wires, events, replies>>

-----------------------------------------------------------------------------
(* Truth samples and their histories.                                       *)

Idle == [phase |-> "idle", req |-> None, confirmed |-> FALSE, event |-> None]

Latest == {f.t : f \in ({vehicle} \cup {payloads[m] : m \in Markers}) \ {None}}

\* _prune_histories_locked: drop what is older than the horizon below the
\* newest sample of any stream.
Prune(history, latest) ==
    {f \in history : \A t \in latest : f.t >= t - Horizon}

\* A service call occupies its thread until it returns; a data callback runs
\* on a free thread, until the executor has been shut down.
FreeThread ==
    /\ ~quiescent
    /\ Cardinality({c \in Callers : calls[c].phase # "idle"}) < NumThreads

\* accept_vehicle: samples that do not advance the stream are dropped.
AcceptVehicle(f) ==
    /\ FreeThread
    /\ vehicle # None => f.t > vehicle.t
    /\ vehicle' = f
    /\ LET latest == Latest \cup {f.t}
           accepted == {g \in vehicleHistory : g.t # f.t} \cup {f}
       IN /\ vehicleHistory' = Prune(accepted, latest)
          /\ payloadHistories' =
                [m \in Markers |-> Prune(payloadHistories[m], latest)]
    /\ UNCHANGED <<payloads, pending, ledgerVars, eventId, calls, loopVars,
                   wires, events, replies>>

\* accept_payload
AcceptPayload(m, f) ==
    /\ FreeThread
    /\ payloads[m] # None => f.t > payloads[m].t
    /\ payloads' = [payloads EXCEPT ![m] = f]
    /\ LET latest == Latest \cup {f.t}
           accepted == {g \in payloadHistories[m] : g.t # f.t} \cup {f}
       IN /\ vehicleHistory' = Prune(vehicleHistory, latest)
          /\ payloadHistories' =
                [n \in Markers |->
                    Prune(IF n = m THEN accepted ELSE payloadHistories[n], latest)]
    /\ UNCHANGED <<vehicle, pending, ledgerVars, eventId, calls, loopVars,
                   wires, events, replies>>

\* accept_result: only the first result for the registered id, from the
\* registered marker's topic, is kept.  Callbacks are handed to the threads by
\* spin_once, which the loop no longer calls once it is left: after a wait has
\* run out behind it, the command in flight went out too late to be answered.
AcceptResult(m, result) ==
    /\ FreeThread
    /\ ~expired
    /\ pending # None
    /\ pending.id = result.id
    /\ pending.marker = m
    /\ pending.value = None
    /\ pending' = [pending EXCEPT !.value = result]
    /\ UNCHANGED <<factVars, ledgerVars, eventId, calls, loopVars, wires,
                   events, replies>>

-----------------------------------------------------------------------------
(* Authorisation.                                                           *)

Attached(facts) == {m \in Markers : facts[m].attached}

\* _snapshot: the newest timestamp every stream has, refused when a later
\* sample changed the contact or attachment picture since.
CommonTimestamps ==
    {t \in {f.t : f \in vehicleHistory} :
        \A m \in Markers : \E g \in payloadHistories[m] : g.t = t}

NewestCommon ==
    CHOOSE t \in CommonTimestamps : \A u \in CommonTimestamps : u <= t

VehicleAt(t) == CHOOSE f \in vehicleHistory : f.t = t

PayloadsAt(t) ==
    [m \in Markers |-> CHOOSE f \in payloadHistories[m] : f.t = t]

SnapshotError ==
    IF vehicle = None \/ \E m \in Markers : payloads[m] = None
      THEN "NOT_READY"
    ELSE IF CommonTimestamps = {}
      THEN "STALE_PHYSICAL_STATE"
    ELSE LET v == VehicleAt(NewestCommon)
             p == PayloadsAt(NewestCommon)
         IN IF \/ Cardinality(Attached(p)) > 1
               \/ Cardinality(Attached(payloads)) > 1
              THEN "INVALID_PHYSICAL_STATE"
            ELSE IF \/ Attached(payloads) # Attached(p)
                    \/ vehicle.grounded # v.grounded
                    \/ \E m \in Markers : payloads[m].grounded # p[m].grounded
              THEN "STALE_PHYSICAL_STATE"
            ELSE "OK"

\* PayloadAuthority.decide on the snapshot of the newest common timestamp
\* (v: vehicle fact, p: payload facts).
Decide(req, v, p) ==
    LET allowed == PickupZones[req.marker]
        vehicleZones == allowed \cap ZonesAt[v.place]
        payloadZones == allowed \cap ZonesAt[p[req.marker].place]
    IN IF req.run # RunId THEN "STALE_RUN"
       ELSE IF req.id \notin ValidIds THEN "INVALID_COMMAND_ID"
       ELSE IF req.marker \notin Markers THEN "UNKNOWN_MARKER"
       ELSE IF req.action \notin {"attach", "release"} THEN "INVALID_ACTION"
       ELSE IF req.action = "release" THEN
               IF Attached(p) = {req.marker} THEN "OK" ELSE "NOT_ATTACHED"
       ELSE IF allowed = {} THEN "WRONG_PICKUP_ZONE"
       ELSE IF ~v.grounded THEN "NOT_LANDED"
       ELSE IF vehicleZones = {} THEN "OUTSIDE_PICKUP_ZONE"
       ELSE IF vehicleZones \cap payloadZones = {} THEN "WRONG_PICKUP_ZONE"
       ELSE IF ~p[req.marker].grounded THEN "PAYLOAD_NOT_GROUNDED"
       ELSE IF Attached(p) # {} THEN "CAPACITY_OCCUPIED"
       ELSE IF <<v.place, p[req.marker].place>> \notin CloseTo THEN "CENTER_ERROR"
       ELSE "OK"

Authorization(req) ==
    IF SnapshotError # "OK" THEN SnapshotError
    ELSE Decide(req, VehicleAt(NewestCommon), PayloadsAt(NewestCommon))

-----------------------------------------------------------------------------
(* One service call.                                                        *)

Holding(c) == calls[c].phase \notin {"idle", "queued"}
OperationLockFree == \A c \in Callers : ~Holding(c)

\* Mutant of Response: the number is taken before the counter is advanced twice.
ResponseBehind(req, accepted, code) ==
    [accepted |-> accepted, code |-> code, id |-> req.id,
     seq |-> responseSequence - 1]

Response(req, accepted, code) ==
    [accepted |-> accepted, code |-> code, id |-> req.id,
     seq |-> responseSequence + 1]

Return(c, req, response) ==
    /\ calls' = [calls EXCEPT ![c] = Idle]
    /\ replies' = replies \cup {[req |-> req, resp |-> response]}

\* Mutant of Answer: failures are not entered in the ledger.
AnswerUncached(c, accepted, code) ==
    LET req == calls[c].req
    IN /\ responseSequence' = responseSequence + 1
       /\ UNCHANGED responses
       /\ Return(c, req, Response(req, accepted, code))

\* _response with cache=True followed by the return to the caller.
Answer(c, accepted, code) ==
    LET req == calls[c].req
        response == Response(req, accepted, code)
    IN /\ responseSequence' = responseSequence + 1
       /\ responses' = [responses EXCEPT ![req.id] = [req |-> req, resp |-> response]]
       /\ Return(c, req, response)

\* service_callback: the loop hands the request to a thread, which then
\* queues for the operation lock.
Call(c, req) ==
    /\ FreeThread
    /\ ~stopping
    /\ responseSequence < MaxResponses
    /\ calls[c].phase = "idle"
    /\ calls' = [calls EXCEPT ![c] = [Idle EXCEPT !.phase = "queued", !.req = req]]
    /\ UNCHANGED <<factVars, pending, ledgerVars, eventId, loopVars, wires,
                   events, replies>>

\* execute / _execute_serialized up to the ledger lookup: an exact duplicate
\* replays its answer, a reused id is a conflict that is not cached.
Lookup(c) ==
    /\ calls[c].phase = "queued"
    /\ OperationLockFree
    /\ LET req == calls[c].req
           known == responses[req.id]
       IN \/ /\ known # None
             /\ known.req = req
             /\ Return(c, req, known.resp)
             /\ UNCHANGED responseSequence
          \/ /\ known # None
             /\ known.req # req
             /\ responseSequence' = responseSequence + 1
             /\ Return(c, req, Response(req, FALSE, "COMMAND_ID_CONFLICT"))
          \/ /\ known = None
             /\ calls' = [calls EXCEPT ![c].phase = "authorize"]
             /\ UNCHANGED <<responseSequence, replies>>
    /\ UNCHANGED <<factVars, pending, responses, eventId, loopVars, wires, events>>

\* _snapshot, decide, and the registration of the result slot.
Authorize(c) ==
    /\ calls[c].phase = "authorize"
    /\ LET req == calls[c].req
           code == Authorization(req)
       IN \/ /\ code # "OK"
             /\ Answer(c, FALSE, code)
             /\ UNCHANGED pending
          \/ /\ code = "OK"
             /\ pending' = [id |-> req.id, marker |-> req.marker, value |-> None]
             /\ calls' = [calls EXCEPT ![c].phase = "publish"]
             /\ UNCHANGED <<ledgerVars, replies>>
    /\ UNCHANGED <<factVars, eventId, loopVars, wires, events>>

\* _publish_command; a destroyed publisher raises instead.
PublishCommand(c) ==
    /\ calls[c].phase = "publish"
    /\ ~destroyed
    /\ wires' = [wires EXCEPT ![calls[c].req.id] = @ + 1]
    /\ calls' = [calls EXCEPT ![c].phase = "wait"]
    /\ UNCHANGED <<factVars, pending, ledgerVars, eventId, loopVars, events, replies>>

\* Mutant of PublishCommandFails: the exception is swallowed.
PublishFailureIgnored(c) ==
    /\ calls[c].phase = "publish"
    /\ calls' = [calls EXCEPT ![c].phase = "wait"]
    /\ UNCHANGED <<factVars, pending, ledgerVars, eventId, loopVars, wires,
                   events, replies>>

\* _publish_command raised: the slot is withdrawn and the call answered.
PublishCommandFails(c) ==
    /\ calls[c].phase = "publish"
    /\ pending' = None
    /\ Answer(c, FALSE, "COORDINATOR_PUBLISH_FAILED")
    /\ UNCHANGED <<factVars, eventId, loopVars, wires, events>>

\* pending.event.wait returns because the result arrived ...
WaitConfirmed(c) ==
    /\ calls[c].phase = "wait"
    /\ pending.value # None
    /\ calls' = [calls EXCEPT ![c].phase = "resolve", ![c].confirmed = TRUE]
    /\ UNCHANGED <<factVars, pending, ledgerVars, eventId, loopVars, wires,
                   events, replies>>

\* Mutant of WaitTimeout: an unanswered command is sent again.
WaitTimeoutResends(c) ==
    /\ calls[c].phase = "wait"
    /\ pending.value = None
    /\ calls' = [calls EXCEPT ![c].phase = "publish"]
    /\ UNCHANGED <<factVars, pending, ledgerVars, eventId, loopVars, wires,
                   events, replies>>

\* Mutant of WaitTimeout: the wait has no timeout.
WaitForever(c) == FALSE /\ calls[c].phase = "wait" /\ UNCHANGED gatewayVars

\* ... or because the confirmation timeout ran out.  The result may still
\* arrive between the timeout and the critical section of Resolve.
WaitTimeout(c) ==
    /\ calls[c].phase = "wait"
    /\ pending.value = None
    /\ calls' = [calls EXCEPT ![c].phase = "resolve", ![c].confirmed = FALSE]
    /\ expired' = stopping
    /\ UNCHANGED <<factVars, pending, ledgerVars, eventId, ready, stopping,
                   quiescent, destroyed, wires, events, replies>>

Expected(req) == IF req.action = "attach" THEN "attached" ELSE "detached"

ResolutionCode(req, confirmed, physical) ==
    IF ~confirmed \/ physical = None THEN "PHYSICAL_CONFIRMATION_TIMEOUT"
    ELSE IF physical.status = "error" THEN physical.code
    ELSE IF physical.state # Expected(req) THEN "PHYSICAL_CONFIRMATION_MISMATCH"
    ELSE "OK"

\* The slot is popped and the result judged; every failure is answered here.
Resolve(c) ==
    /\ calls[c].phase = "resolve"
    /\ pending' = None
    /\ LET code == ResolutionCode(calls[c].req, calls[c].confirmed, pending.value)
       IN \/ /\ code # "OK"
             /\ Answer(c, FALSE, code)
          \/ /\ code = "OK"
             /\ calls' = [calls EXCEPT ![c].phase = "record"]
             /\ UNCHANGED <<ledgerVars, replies>>
    /\ UNCHANGED <<factVars, eventId, loopVars, wires, events>>

\* Mutant of RecordSuccess: the event id is not advanced.
RecordSuccessSameEventId(c) ==
    /\ calls[c].phase = "record"
    /\ LET req == calls[c].req
           fact == [payloads[req.marker] EXCEPT !.attached = (req.action = "attach")]
           response == Response(req, TRUE, "OK")
           event == [t |-> fact.t, event_id |-> eventId, marker |-> req.marker,
                     id |-> req.id, state |-> Expected(req)]
       IN /\ payloads' = [payloads EXCEPT ![req.marker] = fact]
          /\ responses' = [responses EXCEPT ![req.id] = [req |-> req, resp |-> response]]
          /\ calls' = [calls EXCEPT ![c].phase = "emit", ![c].event = event]
    /\ responseSequence' = responseSequence + 1
    /\ UNCHANGED <<vehicle, vehicleHistory, payloadHistories, pending, eventId,
                   loopVars, wires, events, replies>>

\* Success: the local attachment fact is overridden at its own timestamp, the
\* event id is taken and the answer is cached, all before the event goes out.
RecordSuccess(c) ==
    /\ calls[c].phase = "record"
    /\ LET req == calls[c].req
           fact == [payloads[req.marker] EXCEPT !.attached = (req.action = "attach")]
           stamp == IF vehicle # None /\ vehicle.t > fact.t THEN vehicle.t ELSE fact.t
           response == Response(req, TRUE, "OK")
           event == [t |-> stamp, event_id |-> eventId, marker |-> req.marker,
                     id |-> req.id, state |-> Expected(req)]
       IN /\ payloads' = [payloads EXCEPT ![req.marker] = fact]
          /\ payloadHistories' =
                [payloadHistories EXCEPT
                    ![req.marker] = {g \in @ : g.t # fact.t} \cup {fact}]
          /\ responses' = [responses EXCEPT ![req.id] = [req |-> req, resp |-> response]]
          /\ calls' = [calls EXCEPT ![c].phase = "emit", ![c].event = event]
    /\ responseSequence' = responseSequence + 1
    /\ eventId' = eventId + 1
    /\ UNCHANGED <<vehicle, vehicleHistory, pending, loopVars, wires, events, replies>>

\* _publish_event and the return of the cached response.
EmitEvent(c) ==
    /\ calls[c].phase = "emit"
    /\ ~destroyed
    /\ events' = events \cup {calls[c].event}
    /\ Return(c, calls[c].req, responses[calls[c].req.id].resp)
    /\ UNCHANGED <<factVars, pending, ledgerVars, eventId, loopVars, wires>>

\* _publish_event raised: the exception leaves execute and the caller gets no
\* answer; the cached success stays.
EmitEventRaises(c) ==
    /\ calls[c].phase = "emit"
    /\ calls' = [calls EXCEPT ![c] = Idle]
    /\ UNCHANGED <<factVars, pending, ledgerVars, eventId, loopVars, wires,
                   events, replies>>

-----------------------------------------------------------------------------
(* The main loop: readiness and finalization.                               *)

\* PayloadGateway.ready with all result publishers present.
MarkReady ==
    /\ ~stopping
    /\ ~ready
    /\ vehicle # None
    /\ \A m \in Markers : payloads[m] # None
    /\ \A m \in Markers : payloads[m].t = vehicle.t
    /\ Cardinality(Attached(payloads)) <= 1
    /\ ready' = TRUE
    /\ UNCHANGED <<factVars, pending, ledgerVars, eventId, calls, stopping,
                   expired, quiescent, destroyed, wires, events, replies>>

\* FINALIZING was observed, a finalize request was read or a signal arrived.
StopLoop ==
    /\ ~stopping
    /\ stopping' = TRUE
    /\ UNCHANGED <<factVars, pending, ledgerVars, eventId, calls, ready,
                   expired, quiescent, destroyed, wires, events, replies>>

\* Mutant of Quiesce: finalize does not wait for the executor.
QuiesceAtOnce ==
    /\ stopping
    /\ ~quiescent
    /\ quiescent' = TRUE
    /\ UNCHANGED <<factVars, pending, ledgerVars, eventId, calls, ready,
                   stopping, expired, destroyed, wires, events, replies>>

\* executor.shutdown(timeout_sec=6.0) returns when the threads are done or
\* after six seconds, one second more than a confirmation wait; then
\* ScenarioController.finalize writes the quiescence marker.
Quiesce ==
    /\ stopping
    /\ ~quiescent
    /\ \/ \A c \in Callers : calls[c].phase = "idle"
       \/ /\ expired
          /\ \E c \in Callers : calls[c].phase = "wait"
          /\ \A c \in Callers : calls[c].phase \in {"idle", "queued", "wait"}
    /\ quiescent' = TRUE
    /\ UNCHANGED <<factVars, pending, ledgerVars, eventId, calls, ready,
                   stopping, expired, destroyed, wires, events, replies>>

\* node.destroy_node(), the statement after finalize.
DestroyNode ==
    /\ quiescent
    /\ ~destroyed
    /\ destroyed' = TRUE
    /\ UNCHANGED <<factVars, pending, ledgerVars, eventId, calls, ready,
                   stopping, expired, quiescent, wires, events, replies>>

-----------------------------------------------------------------------------
GatewayInit ==
    /\ vehicle = None
    /\ payloads = [m \in Markers |-> None]
    /\ vehicleHistory = {}
    /\ payloadHistories = [m \in Markers |-> {}]
    /\ pending = None
    /\ responses = [i \in Ids |-> None]
    /\ responseSequence = 0
    /\ eventId = 0
    /\ calls = [c \in Callers |-> Idle]
    /\ ready = FALSE
    /\ stopping = FALSE
    /\ expired = FALSE
    /\ quiescent = FALSE
    /\ destroyed = FALSE
    /\ wires = [i \in Ids |-> 0]
    /\ events = {}
    /\ replies = {}

\* The critical sections of a call that has the operation lock or may take it.
Proceed(c) ==
    \/ Lookup(c)
    \/ Authorize(c)
    \/ PublishCommand(c)
    \/ PublishCommandFails(c)
    \/ WaitConfirmed(c)
    \/ WaitTimeout(c)
    \/ Resolve(c)
    \/ RecordSuccess(c)
    \/ EmitEvent(c)
    \/ EmitEventRaises(c)

\* Truth and results as an unconstrained environment delivers them.
Deliver ==
    \/ \E f \in VehicleFacts : AcceptVehicle(f)
    \/ \E m \in Markers, f \in PayloadFacts : AcceptPayload(m, f)
    \/ \E m \in Markers, result \in PhysicalResults : AcceptResult(m, result)

GatewayNext ==
    \/ Deliver
    \/ \E c \in Callers, req \in Requests : Call(c, req)
    \/ \E c \in Callers : Proceed(c)
    \/ MarkReady
    \/ StopLoop
    \/ Quiesce
    \/ DestroyNode

GatewaySpec == GatewayInit /\ [][GatewayNext]_gatewayVars

\* A thread that runs keeps running: its steps are weakly fair, and a
\* confirmation wait ends by itself after five wall seconds.
GatewayFairSpec ==
    GatewaySpec /\ \A c \in Callers : WF_gatewayVars(Proceed(c))

-----------------------------------------------------------------------------
(* Properties.                                                              *)

\* Type invariant: the types of the gateway's fields.
GatewayTypeOK ==
    /\ vehicle \in VehicleTruths \cup {None}
    /\ payloads \in [Markers -> PayloadTruths \cup {None}]
    /\ vehicleHistory \subseteq VehicleTruths
    /\ payloadHistories \in [Markers -> SUBSET PayloadTruths]
    /\ pending \in PendingResults \cup {None}
    /\ responses \in [Ids -> LedgerEntries \cup {None}]
    /\ responseSequence \in Nat
    /\ eventId \in Nat
    /\ calls \in [Callers -> CallRecords]
    /\ ready \in BOOLEAN
    /\ stopping \in BOOLEAN
    /\ expired \in BOOLEAN
    /\ quiescent \in BOOLEAN
    /\ destroyed \in BOOLEAN
    /\ wires \in [Ids -> Nat]
    /\ events \subseteq EventRecords
    /\ replies \subseteq LedgerEntries

\* The gateway sends at most one coordinator command per command id, however
\* often the request is retried or raced (electromagnet README: "replays its
\* original response and sequence without another wire or event").
OneWirePerCommand == \A i \in Ids : wires[i] <= 1

\* Retrying a request yields the same answer, sequence number included; an id
\* reused for a different request is a conflict every time; and a sequence number is
\* never given to two different answers.
RepliesAreStable ==
    \A a, b \in replies :
        /\ a.req = b.req =>
             \/ a.resp = b.resp
             \/ a.resp.code = "COMMAND_ID_CONFLICT" /\ b.resp.code = "COMMAND_ID_CONFLICT"
        /\ a.resp.seq = b.resp.seq => a = b

\* Every published payload event belongs to a command answered (or to be
\* answered) accepted, names the requested effect, and is the only one of its
\* command and of its event id: rejections fail closed, without an event.
EventsAreTruthful ==
    /\ \A e \in events :
          /\ responses[e.id] # None
          /\ responses[e.id].resp.accepted
          /\ e.marker = responses[e.id].req.marker
          /\ e.state = Expected(responses[e.id].req)
          /\ e.event_id < eventId
    /\ \A e, f \in events : (e.id = f.id \/ e.event_id = f.event_id) => e = f

\* An accepted answer always follows a command that really went out.
AcceptedWasSent ==
    \A i \in Ids : responses[i] # None /\ responses[i].resp.accepted => wires[i] = 1

\* The command-id ledger is write-once.
LedgerIsWriteOnce ==
    [][\A i \in Ids : responses[i] # None => responses'[i] = responses[i]]_gatewayVars

\* Once the quiescence marker is written no event goes out, and no command
\* either (electromagnet README: "after which the module must remain silent").
\* What can slip out is the command of a call that was still queued when the
\* shutdown gave up on a wait, between the marker and destroy_node.
SilentAfterQuiescence ==
    [][quiescent => /\ UNCHANGED events
                    /\ (expired /\ ~destroyed) \/ UNCHANGED wires]_gatewayVars

\* A call that got the operation lock gives it back, whatever Gazebo does.
OperationCompletes ==
    \A c \in Callers : Holding(c) ~> calls[c].phase = "idle"

=============================================================================
