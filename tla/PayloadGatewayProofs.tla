----------------------- MODULE PayloadGatewayProofs -----------------------
(***************************************************************************)
(* Proofs about PayloadGateway for every set of callers, ids, markers and  *)
(* requests, and every number of executor threads.                         *)
(***************************************************************************)
EXTENDS PayloadGateway, TLAPS

\* Only one thread is past the operation lock.
OneHolder ==
    \A c, d \in Callers : Holding(c) /\ Holding(d) => c = d

\* What a thread knows at each point of execute: the ledger entry of its id,
\* whether its command is out, its registered slot and the truth it relies on.
CallsAreConsistent ==
    \A c \in Callers :
        LET call == calls[c]
        IN /\ call.phase # "idle" => call.req \in Requests
           /\ call.phase \in {"authorize", "publish"} =>
                 responses[call.req.id] = None /\ wires[call.req.id] = 0
           /\ call.phase \in {"wait", "resolve", "record"} =>
                 responses[call.req.id] = None /\ wires[call.req.id] = 1
           /\ call.phase = "emit" =>
                 responses[call.req.id] # None /\ call.event # None
           /\ call.phase \in {"publish", "wait", "resolve"} => pending # None
           /\ call.phase \in {"publish", "wait", "resolve", "record"} =>
                 /\ call.req.marker \in Markers
                 /\ \A m \in Markers : payloads[m] # None

\* A command that is out belongs to an answered id or to a thread that still
\* waits for its confirmation.
WiresAccounted ==
    \A i \in Ids :
        \/ wires[i] = 0
        \/ /\ wires[i] = 1
           /\ \/ responses[i] # None
              \/ \E c \in Callers : /\ calls[c].phase \in {"wait", "resolve", "record"}
                                    /\ calls[c].req.id = i

\* The inductive invariant.
GatewayInv ==
    /\ GatewayTypeOK
    /\ OneHolder
    /\ CallsAreConsistent
    /\ WiresAccounted
    /\ AcceptedWasSent

USE DEF CallRecords

\* Pruning a history only drops samples.
LEMMA PruneSubset ==
    ASSUME NEW history, NEW latest
    PROVE  Prune(history, latest) \subseteq history
  BY DEF Prune

\* Every authorisation result and every resolution is a documented code.
LEMMA AuthorizationCode ==
    ASSUME NEW req
    PROVE  Authorization(req) \in Codes
  <1>1. SnapshotError \in Codes
    BY DEF SnapshotError, Codes
  <1>2. ASSUME NEW v, NEW p PROVE Decide(req, v, p) \in Codes
    BY DEF Decide, Codes
  <1> QED BY <1>1, <1>2 DEF Authorization

\* A request that passes names a known marker, and was judged on a complete
\* picture.
LEMMA AuthorizedRequest ==
    ASSUME NEW req, Authorization(req) = "OK"
    PROVE  /\ req.marker \in Markers
           /\ \A m \in Markers : payloads[m] # None
  <1>1. SnapshotError = "OK"
    BY DEF Authorization
  <1>2. Decide(req, VehicleAt(NewestCommon), PayloadsAt(NewestCommon)) = "OK"
    BY <1>1 DEF Authorization
  <1>3. \A m \in Markers : payloads[m] # None
    BY <1>1 DEF SnapshotError
  <1>4. ASSUME NEW v, NEW p, Decide(req, v, p) = "OK" PROVE req.marker \in Markers
    BY <1>4 DEF Decide
  <1> QED BY <1>2, <1>3, <1>4

\* An answer keeps the ledger, the calls and the replies well typed.
LEMMA AnswerTypes ==
    ASSUME GatewayTypeOK, NEW c \in Callers, NEW accepted \in BOOLEAN,
           NEW code \in Codes, calls[c].req \in Requests, Answer(c, accepted, code)
    PROVE  /\ responses' \in [Ids -> LedgerEntries \cup {None}]
           /\ responseSequence' \in Nat
           /\ calls' = [calls EXCEPT ![c] = Idle]
           /\ replies' \subseteq LedgerEntries
           /\ \E entry \in LedgerEntries :
                 /\ entry.resp.accepted = accepted
                 /\ responses' = [responses EXCEPT ![calls[c].req.id] = entry]
  <1>1. calls[c].req.id \in Ids
    BY GatewayAssumption
  <1>2. Response(calls[c].req, accepted, code) \in ResponseRecords
    BY <1>1 DEF Response, ResponseRecords, GatewayTypeOK
  <1> DEFINE entry == [req |-> calls[c].req,
                       resp |-> Response(calls[c].req, accepted, code)]
  <1>3. entry \in LedgerEntries
    BY <1>2 DEF LedgerEntries
  <1>4. entry.resp.accepted = accepted
    BY DEF Response
  <1>5. /\ responses' = [responses EXCEPT ![calls[c].req.id] = entry]
        /\ responseSequence' = responseSequence + 1
        /\ calls' = [calls EXCEPT ![c] = Idle]
        /\ replies' = replies \cup {entry}
    BY DEF Answer, Return
  <1> HIDE DEF entry
  <1>6. /\ responses' \in [Ids -> LedgerEntries \cup {None}]
        /\ responseSequence' \in Nat
        /\ replies' \subseteq LedgerEntries
    BY <1>1, <1>3, <1>5 DEF GatewayTypeOK
  <1> QED BY <1>3, <1>4, <1>5, <1>6

\* The initial state satisfies the inductive invariant.
LEMMA GatewayInitInv == GatewayInit => GatewayInv
  <1> SUFFICES ASSUME GatewayInit PROVE GatewayInv
    OBVIOUS
  <1>1. GatewayTypeOK
    BY DEF GatewayInit, GatewayTypeOK, Idle, Phases
  <1>2. OneHolder /\ CallsAreConsistent /\ WiresAccounted /\ AcceptedWasSent
    BY DEF GatewayInit, OneHolder, Holding, CallsAreConsistent, WiresAccounted,
           AcceptedWasSent, Idle
  <1> QED BY <1>1, <1>2 DEF GatewayInv

\* Truth samples touch only the facts.
LEMMA DeliverTruthInv ==
    ASSUME GatewayInv,
           \/ \E f \in VehicleFacts : AcceptVehicle(f)
           \/ \E m \in Markers, f \in PayloadFacts : AcceptPayload(m, f)
    PROVE  GatewayInv'
  <1> USE DEF GatewayInv
  <1>1. CASE \E f \in VehicleFacts : AcceptVehicle(f)
    <2> PICK f \in VehicleFacts : AcceptVehicle(f)
      BY <1>1
    <2>0. f \in VehicleTruths
      BY GatewayAssumption
    <2>1. vehicleHistory' \subseteq VehicleTruths
      BY <2>0, PruneSubset DEF AcceptVehicle, GatewayTypeOK
    <2>2. payloadHistories' \in [Markers -> SUBSET PayloadTruths]
      BY PruneSubset DEF AcceptVehicle, GatewayTypeOK
    <2>3. GatewayTypeOK'
      BY <2>0, <2>1, <2>2 DEF AcceptVehicle, GatewayTypeOK, ledgerVars, loopVars
    <2>4. (OneHolder /\ CallsAreConsistent /\ WiresAccounted /\ AcceptedWasSent)'
      BY DEF AcceptVehicle, OneHolder, Holding, CallsAreConsistent, WiresAccounted,
             AcceptedWasSent, ledgerVars, loopVars
    <2> QED BY <2>3, <2>4
  <1>2. CASE \E m \in Markers, f \in PayloadFacts : AcceptPayload(m, f)
    <2> PICK m \in Markers, f \in PayloadFacts : AcceptPayload(m, f)
      BY <1>2
    <2>0. f \in PayloadTruths /\ f # None
      BY GatewayAssumption
    <2>1. vehicleHistory' \subseteq VehicleTruths
      BY PruneSubset DEF AcceptPayload, GatewayTypeOK
    <2>2. payloadHistories' \in [Markers -> SUBSET PayloadTruths]
      BY <2>0, PruneSubset DEF AcceptPayload, GatewayTypeOK
    <2>3. GatewayTypeOK'
      BY <2>0, <2>1, <2>2 DEF AcceptPayload, GatewayTypeOK, ledgerVars, loopVars
    <2>4. \A n \in Markers : payloads[n] # None => payloads'[n] # None
      BY <2>0 DEF AcceptPayload, GatewayTypeOK
    <2>5. (OneHolder /\ CallsAreConsistent /\ WiresAccounted /\ AcceptedWasSent)'
      BY <2>4 DEF AcceptPayload, OneHolder, Holding, CallsAreConsistent,
             WiresAccounted, AcceptedWasSent, ledgerVars, loopVars
    <2> QED BY <2>3, <2>5
  <1> QED BY <1>1, <1>2

\* A physical result only fills the registered slot.
LEMMA AcceptResultInv ==
    ASSUME GatewayInv, NEW m \in Markers, NEW result \in PhysicalResults,
           AcceptResult(m, result)
    PROVE  GatewayInv'
  <1> USE DEF GatewayInv
  <1>1. pending' \in PendingResults
    BY DEF AcceptResult, GatewayTypeOK, PendingResults
  <1>2. pending' # None
    BY <1>1, GatewayAssumption
  <1>3. GatewayTypeOK'
    BY <1>1 DEF AcceptResult, GatewayTypeOK, factVars, ledgerVars, loopVars
  <1>4. (OneHolder /\ CallsAreConsistent /\ WiresAccounted /\ AcceptedWasSent)'
    BY <1>2 DEF AcceptResult, OneHolder, Holding, CallsAreConsistent, WiresAccounted,
           AcceptedWasSent, factVars, ledgerVars, loopVars
  <1> QED BY <1>3, <1>4

\* A new call queues for the operation lock.
LEMMA CallInv ==
    ASSUME GatewayInv, NEW c \in Callers, NEW req \in Requests, Call(c, req)
    PROVE  GatewayInv'
  <1> USE DEF GatewayInv
  <1>1. GatewayTypeOK'
    BY DEF Call, GatewayTypeOK, Idle, Phases, factVars, ledgerVars, loopVars
  <1>2. /\ calls' = [calls EXCEPT ![c] = [Idle EXCEPT !.phase = "queued", !.req = req]]
        /\ UNCHANGED <<responses, wires, pending, payloads>>
    BY DEF Call, factVars, ledgerVars
  <1>3. OneHolder' /\ CallsAreConsistent' /\ AcceptedWasSent'
    BY <1>2 DEF OneHolder, Holding, CallsAreConsistent, AcceptedWasSent, Idle,
                GatewayTypeOK
  <1>4. WiresAccounted'
    BY <1>2 DEF WiresAccounted, Idle, GatewayTypeOK, Call
  <1> QED BY <1>1, <1>3, <1>4

\* An answered call: the ledger entry of its id is filled, the caller leaves.
LEMMA AnswerInv ==
    ASSUME GatewayInv, NEW c \in Callers, NEW code \in Codes,
           Holding(c), responses[calls[c].req.id] = None,
           Answer(c, FALSE, code), pending' \in {pending, None},
           UNCHANGED <<factVars, eventId, loopVars, wires, events>>
    PROVE  GatewayInv'
  <1> USE DEF GatewayInv
  <1>0. calls[c].req \in Requests /\ calls[c].req.id \in Ids
    BY GatewayAssumption DEF CallsAreConsistent, Holding
  <1>a. /\ responses' \in [Ids -> LedgerEntries \cup {None}]
        /\ responseSequence' \in Nat
        /\ calls' = [calls EXCEPT ![c] = Idle]
        /\ replies' \subseteq LedgerEntries
        /\ \E entry \in LedgerEntries :
              /\ entry.resp.accepted = FALSE
              /\ responses' = [responses EXCEPT ![calls[c].req.id] = entry]
    BY <1>0, AnswerTypes
  <1>1. GatewayTypeOK'
    BY <1>a DEF GatewayTypeOK, Idle, Phases, factVars, loopVars
  <1>2. calls' = [calls EXCEPT ![c] = Idle]
    BY <1>a
  <1>3. \A d \in Callers : d # c => calls'[d] = calls[d] /\ ~Holding(d)
    BY <1>2 DEF OneHolder, GatewayTypeOK
  <1>4. OneHolder'
    BY <1>2, <1>3 DEF OneHolder, Holding, Idle, GatewayTypeOK
  <1>5. CallsAreConsistent'
    BY <1>2, <1>3 DEF CallsAreConsistent, Holding, Idle, GatewayTypeOK
  <1>6. \E entry : /\ responses' = [responses EXCEPT ![calls[c].req.id] = entry]
                   /\ entry # None
                   /\ ~entry.resp.accepted
    BY <1>a, GatewayAssumption
  <1>7. WiresAccounted'
    BY <1>0, <1>2, <1>3, <1>6 DEF WiresAccounted, GatewayTypeOK
  <1>8. AcceptedWasSent'
    BY <1>0, <1>6 DEF AcceptedWasSent, GatewayTypeOK
  <1> QED BY <1>1, <1>4, <1>5, <1>7, <1>8

\* A call that moves on to phase without touching the ledger or the wires.
LEMMA AdvanceInv ==
    ASSUME GatewayInv, NEW c \in Callers, NEW call,
           call \in CallRecords,
           call.req = calls[c].req,
           Holding(c) \/ OperationLockFree,
           calls' = [calls EXCEPT ![c] = call]
    PROVE  /\ calls' \in [Callers -> CallRecords]
           /\ OneHolder'
           /\ calls'[c] = call
           /\ \A d \in Callers : d # c => calls'[d] = calls[d] /\ ~Holding(d)
  BY DEF GatewayInv, OneHolder, Holding, OperationLockFree, GatewayTypeOK

\* Lookup: an exact duplicate and a conflict leave the ledger alone.
LEMMA LookupInv ==
    ASSUME GatewayInv, NEW c \in Callers, Lookup(c)
    PROVE  GatewayInv'
  <1> USE DEF GatewayInv
  <1> DEFINE req == calls[c].req
             known == responses[req.id]
  <1>0. req \in Requests /\ req.id \in Ids
    BY GatewayAssumption DEF CallsAreConsistent, Lookup
  <1>a. UNCHANGED <<vehicle, payloads, vehicleHistory, payloadHistories, pending,
                    responses, eventId, ready, stopping, expired, quiescent, destroyed,
                    wires, events>>
    BY DEF Lookup, factVars, loopVars
  <1>1. CASE known = None
    <2>1. /\ calls' = [calls EXCEPT ![c].phase = "authorize"]
          /\ UNCHANGED <<responseSequence, replies>>
      BY <1>1 DEF Lookup
    <2>2. calls' = [calls EXCEPT ![c] = [calls[c] EXCEPT !.phase = "authorize"]]
      BY <2>1 DEF GatewayTypeOK
    <2>3. /\ [calls[c] EXCEPT !.phase = "authorize"] \in CallRecords
          /\ [calls[c] EXCEPT !.phase = "authorize"].req = calls[c].req
          /\ [calls[c] EXCEPT !.phase = "authorize"].phase = "authorize"
      BY DEF GatewayTypeOK, Phases
    <2>4. /\ calls' \in [Callers -> CallRecords]
          /\ OneHolder'
          /\ calls'[c].phase = "authorize" /\ calls'[c].req = req
          /\ \A d \in Callers : d # c => calls'[d] = calls[d] /\ ~Holding(d)
      BY <2>2, <2>3, AdvanceInv DEF Lookup
    <2>5. wires[req.id] = 0
      BY <1>0, <1>1 DEF WiresAccounted, Lookup, OperationLockFree, Holding
    <2>6. GatewayTypeOK'
      BY <1>a, <2>1, <2>4 DEF GatewayTypeOK
    <2>7. CallsAreConsistent'
      BY <1>0, <1>1, <1>a, <2>4, <2>5 DEF CallsAreConsistent, Holding
    <2>8. WiresAccounted'
      BY <1>a, <2>4 DEF WiresAccounted, Lookup
    <2>9. AcceptedWasSent'
      BY <1>a DEF AcceptedWasSent
    <2> QED BY <2>4, <2>6, <2>7, <2>8, <2>9
  <1>2. CASE known # None
    <2>0. known \in LedgerEntries
      BY <1>0, <1>2 DEF GatewayTypeOK
    <2>1. /\ calls' = [calls EXCEPT ![c] = Idle]
          /\ responseSequence' \in {responseSequence, responseSequence + 1}
          /\ replies' \in {replies \cup {[req |-> req, resp |-> known.resp]},
                           replies \cup {[req |-> req, resp |->
                              Response(req, FALSE, "COMMAND_ID_CONFLICT")]}}
      BY <1>2 DEF Lookup, Return
    <2>2. /\ [req |-> req, resp |-> known.resp] \in LedgerEntries
          /\ [req |-> req, resp |-> Response(req, FALSE, "COMMAND_ID_CONFLICT")]
                \in LedgerEntries
      BY <1>0, <2>0 DEF LedgerEntries, Response, ResponseRecords, Codes, GatewayTypeOK
    <2>a. replies' \subseteq LedgerEntries
      BY <2>1, <2>2 DEF GatewayTypeOK
    <2>b. responseSequence' \in Nat
      BY <2>1 DEF GatewayTypeOK
    <2>c. calls' \in [Callers -> CallRecords]
      BY <2>1 DEF GatewayTypeOK, Idle, Phases
    <2>3. GatewayTypeOK'
      BY <1>a, <2>a, <2>b, <2>c DEF GatewayTypeOK
    <2>4. OneHolder' /\ CallsAreConsistent' /\ AcceptedWasSent'
      BY <1>a, <2>1 DEF OneHolder, Holding, CallsAreConsistent, AcceptedWasSent,
                        Idle, GatewayTypeOK
    <2>5. WiresAccounted'
      BY <1>a, <2>1 DEF WiresAccounted, Idle, GatewayTypeOK, Lookup
    <2> QED BY <2>3, <2>4, <2>5
  <1> QED BY <1>1, <1>2

\* Authorize: a rejection is an answer, a pass registers the result slot.
LEMMA AuthorizeInv ==
    ASSUME GatewayInv, NEW c \in Callers, Authorize(c)
    PROVE  GatewayInv'
  <1> USE DEF GatewayInv
  <1> DEFINE req == calls[c].req
             code == Authorization(req)
  <1>0. req \in Requests /\ req.id \in Ids /\ Holding(c) /\ responses[req.id] = None
    BY GatewayAssumption DEF CallsAreConsistent, Authorize, Holding
  <1>1. CASE code # "OK"
    <2>1. code \in Codes
      BY AuthorizationCode
    <2>2. /\ Answer(c, FALSE, code)
          /\ UNCHANGED <<pending, factVars, eventId, loopVars, wires, events>>
      BY <1>1 DEF Authorize
    <2> HIDE DEF code
    <2> QED BY <1>0, <2>1, <2>2, AnswerInv
  <1>2. CASE code = "OK"
    <2> DEFINE slot == [id |-> req.id, marker |-> req.marker, value |-> None]
    <2>1. req.marker \in Markers /\ \A m \in Markers : payloads[m] # None
      BY <1>2, AuthorizedRequest
    <2>2. /\ pending' = slot
          /\ calls' = [calls EXCEPT ![c].phase = "publish"]
          /\ UNCHANGED <<vehicle, payloads, vehicleHistory, payloadHistories,
                         responses, responseSequence, eventId, ready, stopping,
                         expired, quiescent, destroyed, wires, events, replies>>
      BY <1>2 DEF Authorize, factVars, loopVars, ledgerVars
    <2>3. slot \in PendingResults /\ slot # None
      BY <1>0, <2>1, GatewayAssumption DEF PendingResults
    <2>4. calls' = [calls EXCEPT ![c] = [calls[c] EXCEPT !.phase = "publish"]]
      BY <2>2 DEF GatewayTypeOK
    <2>5. /\ [calls[c] EXCEPT !.phase = "publish"] \in CallRecords
          /\ [calls[c] EXCEPT !.phase = "publish"].req = calls[c].req
          /\ [calls[c] EXCEPT !.phase = "publish"].phase = "publish"
      BY DEF GatewayTypeOK, Phases
    <2>6. /\ calls' \in [Callers -> CallRecords]
          /\ OneHolder'
          /\ calls'[c].phase = "publish" /\ calls'[c].req = req
          /\ \A d \in Callers : d # c => calls'[d] = calls[d] /\ ~Holding(d)
      BY <1>0, <2>4, <2>5, AdvanceInv
    <2> HIDE DEF slot
    <2>7. GatewayTypeOK'
      BY <2>2, <2>3, <2>6 DEF GatewayTypeOK
    <2>8. CallsAreConsistent'
      BY <1>0, <2>1, <2>2, <2>3, <2>6 DEF CallsAreConsistent, Holding, Authorize
    <2>9. WiresAccounted' /\ AcceptedWasSent'
      BY <2>2, <2>6 DEF WiresAccounted, AcceptedWasSent, Authorize
    <2> QED BY <2>6, <2>7, <2>8, <2>9
  <1> QED BY <1>1, <1>2

\* PublishCommand: the one place where a command goes out.
LEMMA PublishCommandInv ==
    ASSUME GatewayInv, NEW c \in Callers, PublishCommand(c)
    PROVE  GatewayInv'
  <1> USE DEF GatewayInv
  <1> DEFINE req == calls[c].req
  <1>0. /\ req \in Requests /\ req.id \in Ids /\ Holding(c)
        /\ responses[req.id] = None /\ wires[req.id] = 0
    BY GatewayAssumption DEF CallsAreConsistent, PublishCommand, Holding
  <1>1. /\ wires' = [wires EXCEPT ![req.id] = 1]
        /\ calls' = [calls EXCEPT ![c] = [calls[c] EXCEPT !.phase = "wait"]]
        /\ UNCHANGED <<vehicle, payloads, vehicleHistory, payloadHistories, pending,
                       responses, responseSequence, eventId, ready, stopping,
                       expired, quiescent, destroyed, events, replies>>
    BY <1>0 DEF PublishCommand, GatewayTypeOK, factVars, loopVars, ledgerVars
  <1>2. /\ [calls[c] EXCEPT !.phase = "wait"] \in CallRecords
        /\ [calls[c] EXCEPT !.phase = "wait"].req = calls[c].req
        /\ [calls[c] EXCEPT !.phase = "wait"].phase = "wait"
    BY DEF GatewayTypeOK, Phases
  <1>3. /\ calls' \in [Callers -> CallRecords]
        /\ OneHolder'
        /\ calls'[c].phase = "wait" /\ calls'[c].req = req
        /\ \A d \in Callers : d # c => calls'[d] = calls[d] /\ ~Holding(d)
    BY <1>0, <1>1, <1>2, AdvanceInv
  <1>4. GatewayTypeOK'
    BY <1>0, <1>1, <1>3 DEF GatewayTypeOK
  <1>5. CallsAreConsistent'
    BY <1>0, <1>1, <1>3 DEF CallsAreConsistent, Holding, PublishCommand, GatewayTypeOK
  <1>6. WiresAccounted'
    BY <1>0, <1>1, <1>3 DEF WiresAccounted, PublishCommand, GatewayTypeOK
  <1>7. AcceptedWasSent'
    BY <1>0, <1>1 DEF AcceptedWasSent, GatewayTypeOK
  <1> QED BY <1>3, <1>4, <1>5, <1>6, <1>7

\* A publication failure withdraws the slot and is answered.
LEMMA PublishCommandFailsInv ==
    ASSUME GatewayInv, NEW c \in Callers, PublishCommandFails(c)
    PROVE  GatewayInv'
  <1>1. /\ Holding(c) /\ responses[calls[c].req.id] = None
        /\ "COORDINATOR_PUBLISH_FAILED" \in Codes
    BY DEF PublishCommandFails, Holding, GatewayInv, CallsAreConsistent, Codes
  <1> QED BY <1>1, AnswerInv DEF PublishCommandFails

\* The end of the confirmation wait, by a result or by the timeout.
LEMMA WaitInv ==
    ASSUME GatewayInv, NEW c \in Callers, WaitConfirmed(c) \/ WaitTimeout(c)
    PROVE  GatewayInv'
  <1> USE DEF GatewayInv
  <1> DEFINE req == calls[c].req
  <1>0. Holding(c) /\ calls[c].phase = "wait" /\ req \in Requests
    BY DEF WaitConfirmed, WaitTimeout, Holding, CallsAreConsistent
  <1>1. PICK b \in BOOLEAN : calls' =
           [calls EXCEPT ![c] = [calls[c] EXCEPT !.phase = "resolve", !.confirmed = b]]
    BY DEF WaitConfirmed, WaitTimeout, GatewayTypeOK
  <1> DEFINE call == [calls[c] EXCEPT !.phase = "resolve", !.confirmed = b]
  <1>2. /\ call \in CallRecords
        /\ calls' = [calls EXCEPT ![c] = call]
        /\ call.req = req /\ call.phase = "resolve"
    BY <1>1 DEF GatewayTypeOK, Phases
  <1> HIDE DEF call
  <1>3. /\ calls' \in [Callers -> CallRecords]
        /\ OneHolder'
        /\ calls'[c].phase = "resolve" /\ calls'[c].req = req
        /\ \A d \in Callers : d # c => calls'[d] = calls[d] /\ ~Holding(d)
    BY <1>0, <1>2, AdvanceInv
  <1>4. /\ UNCHANGED <<vehicle, payloads, vehicleHistory, payloadHistories, pending,
                       responses, responseSequence, eventId, ready, stopping,
                       quiescent, destroyed, wires, events, replies>>
        /\ expired' \in BOOLEAN
    BY DEF WaitConfirmed, WaitTimeout, factVars, loopVars, ledgerVars, GatewayTypeOK
  <1>5. GatewayTypeOK'
    BY <1>3, <1>4 DEF GatewayTypeOK
  <1>6. CallsAreConsistent'
    BY <1>0, <1>3, <1>4 DEF CallsAreConsistent, Holding
  <1>7. WiresAccounted' /\ AcceptedWasSent'
    BY <1>0, <1>3, <1>4 DEF WiresAccounted, AcceptedWasSent
  <1> QED BY <1>3, <1>5, <1>6, <1>7

\* Resolve: the slot is popped; a failure is answered, a success recorded next.
LEMMA ResolveInv ==
    ASSUME GatewayInv, NEW c \in Callers, Resolve(c)
    PROVE  GatewayInv'
  <1> USE DEF GatewayInv
  <1> DEFINE req == calls[c].req
             code == ResolutionCode(req, calls[c].confirmed, pending.value)
  <1>0. /\ Holding(c) /\ calls[c].phase = "resolve" /\ req \in Requests
        /\ responses[req.id] = None /\ pending \in PendingResults
    BY DEF Resolve, Holding, CallsAreConsistent, GatewayTypeOK
  <1>1. CASE code # "OK"
    <2>0. pending.value \in PhysicalResults \cup {None}
      BY <1>0 DEF PendingResults
    <2>a. pending.value # None => pending.value.code \in Codes
      BY <2>0 DEF PhysicalResults, Codes
    <2>1. code \in Codes
      BY <2>a DEF ResolutionCode, Codes
    <2>2. /\ Answer(c, FALSE, code)
          /\ pending' = None
          /\ UNCHANGED <<factVars, eventId, loopVars, wires, events>>
      BY <1>1 DEF Resolve
    <2> HIDE DEF code
    <2> QED BY <1>0, <2>1, <2>2, AnswerInv
  <1>2. CASE code = "OK"
    <2>1. /\ pending' = None
          /\ calls' = [calls EXCEPT ![c] = [calls[c] EXCEPT !.phase = "record"]]
          /\ UNCHANGED <<vehicle, payloads, vehicleHistory, payloadHistories,
                         responses, responseSequence, eventId, ready, stopping,
                         expired, quiescent, destroyed, wires, events, replies>>
      BY <1>2 DEF Resolve, GatewayTypeOK, factVars, loopVars, ledgerVars
    <2>2. /\ [calls[c] EXCEPT !.phase = "record"] \in CallRecords
          /\ [calls[c] EXCEPT !.phase = "record"].req = calls[c].req
          /\ [calls[c] EXCEPT !.phase = "record"].phase = "record"
      BY DEF GatewayTypeOK, Phases
    <2>3. /\ calls' \in [Callers -> CallRecords]
          /\ OneHolder'
          /\ calls'[c].phase = "record" /\ calls'[c].req = req
          /\ \A d \in Callers : d # c => calls'[d] = calls[d] /\ ~Holding(d)
      BY <1>0, <2>1, <2>2, AdvanceInv
    <2>4. GatewayTypeOK'
      BY <2>1, <2>3 DEF GatewayTypeOK
    <2>5. CallsAreConsistent'
      BY <1>0, <2>1, <2>3 DEF CallsAreConsistent, Holding
    <2>6. WiresAccounted' /\ AcceptedWasSent'
      BY <1>0, <2>1, <2>3 DEF WiresAccounted, AcceptedWasSent
    <2> QED BY <2>3, <2>4, <2>5, <2>6
  <1> QED BY <1>1, <1>2

\* RecordSuccess: the accepted answer enters the ledger; its command is out.
LEMMA RecordSuccessInv ==
    ASSUME GatewayInv, NEW c \in Callers, RecordSuccess(c)
    PROVE  GatewayInv'
  <1> USE DEF GatewayInv
  <1> DEFINE req == calls[c].req
             old == payloads[req.marker]
             fact == [old EXCEPT !.attached = (req.action = "attach")]
             stamp == IF vehicle # None /\ vehicle.t > fact.t THEN vehicle.t ELSE fact.t
             response == Response(req, TRUE, "OK")
             entry == [req |-> req, resp |-> response]
             event == [t |-> stamp, event_id |-> eventId, marker |-> req.marker,
                       id |-> req.id, state |-> Expected(req)]
             call == [calls[c] EXCEPT !.phase = "emit", !.event = event]
  <1>0. /\ Holding(c) /\ req \in Requests /\ req.id \in Ids /\ req.marker \in Markers
        /\ responses[req.id] = None /\ wires[req.id] = 1
        /\ calls[c].phase = "record"
    BY GatewayAssumption DEF RecordSuccess, Holding, CallsAreConsistent
  <1>1. old \in PayloadTruths
    BY <1>0 DEF CallsAreConsistent, GatewayTypeOK
  <1>2. fact \in PayloadTruths /\ fact # None /\ fact.t \in Nat
    BY <1>1, GatewayAssumption DEF PayloadTruths
  <1>3. stamp \in Nat
    BY <1>2 DEF GatewayTypeOK, VehicleTruths
  <1>4. event \in EventRecords /\ event # None
    <2>1. Expected(req) \in {"attached", "detached"}
      BY DEF Expected
    <2> HIDE DEF stamp
    <2> QED BY <1>0, <1>3, <2>1, GatewayAssumption DEF EventRecords, GatewayTypeOK
  <1>5. /\ entry \in LedgerEntries /\ entry # None
        /\ entry.resp.accepted
    <2>1. response \in ResponseRecords /\ response.accepted
      BY <1>0 DEF Response, ResponseRecords, Codes, GatewayTypeOK
    <2> HIDE DEF response
    <2>2. entry \in LedgerEntries
      BY <1>0, <2>1 DEF LedgerEntries
    <2> QED BY <2>1, <2>2, GatewayAssumption
  <1>6. /\ payloads' = [payloads EXCEPT ![req.marker] = fact]
        /\ payloadHistories' = [payloadHistories EXCEPT
               ![req.marker] = {g \in payloadHistories[req.marker] : g.t # fact.t} \cup {fact}]
        /\ responses' = [responses EXCEPT ![req.id] = entry]
        /\ calls' = [calls EXCEPT ![c].phase = "emit", ![c].event = event]
        /\ responseSequence' = responseSequence + 1
        /\ eventId' = eventId + 1
        /\ UNCHANGED <<vehicle, vehicleHistory, pending, ready, stopping, expired,
                       quiescent, destroyed, wires, events, replies>>
    BY <1>0 DEF RecordSuccess, loopVars, GatewayTypeOK
  <1> HIDE DEF fact, event, entry
  <1>7. calls' = [calls EXCEPT ![c] = call]
    BY <1>6 DEF GatewayTypeOK
  <1>8. /\ call \in CallRecords
        /\ call.req = req /\ call.phase = "emit" /\ call.event = event
    BY <1>4 DEF GatewayTypeOK, Phases
  <1> HIDE DEF call
  <1>9. /\ calls' \in [Callers -> CallRecords]
        /\ OneHolder'
        /\ calls'[c] = call
        /\ \A d \in Callers : d # c => calls'[d] = calls[d] /\ ~Holding(d)
    BY <1>0, <1>7, <1>8, AdvanceInv
  <1>10. /\ payloads' \in [Markers -> PayloadTruths \cup {None}]
         /\ payloadHistories' \in [Markers -> SUBSET PayloadTruths]
    BY <1>0, <1>2, <1>6 DEF GatewayTypeOK
  <1>11. /\ responses' \in [Ids -> LedgerEntries \cup {None}]
         /\ responseSequence' \in Nat /\ eventId' \in Nat
    BY <1>0, <1>5, <1>6 DEF GatewayTypeOK
  <1>12. GatewayTypeOK'
    BY <1>6, <1>9, <1>10, <1>11 DEF GatewayTypeOK
  <1>13. CallsAreConsistent'
    BY <1>0, <1>4, <1>5, <1>6, <1>8, <1>9 DEF CallsAreConsistent, Holding, GatewayTypeOK
  <1>14. WiresAccounted'
    BY <1>0, <1>5, <1>6, <1>8, <1>9 DEF WiresAccounted, GatewayTypeOK
  <1>15. AcceptedWasSent'
    BY <1>0, <1>6 DEF AcceptedWasSent, GatewayTypeOK
  <1> QED BY <1>9, <1>12, <1>13, <1>14, <1>15

\* EmitEvent and its failure leave the ledger and the wires alone.
LEMMA EmitInv ==
    ASSUME GatewayInv, NEW c \in Callers, EmitEvent(c) \/ EmitEventRaises(c)
    PROVE  GatewayInv'
  <1> USE DEF GatewayInv
  <1> DEFINE req == calls[c].req
  <1>0. /\ Holding(c) /\ calls[c].phase = "emit" /\ req \in Requests /\ req.id \in Ids
        /\ responses[req.id] \in LedgerEntries
        /\ calls[c].event \in EventRecords
    BY GatewayAssumption
       DEF EmitEvent, EmitEventRaises, Holding, CallsAreConsistent, GatewayTypeOK
  <1>1. /\ calls' = [calls EXCEPT ![c] = Idle]
        /\ UNCHANGED <<vehicle, payloads, vehicleHistory, payloadHistories, pending,
                       responses, responseSequence, eventId, ready, stopping,
                       expired, quiescent, destroyed, wires>>
        /\ events' \in {events, events \cup {calls[c].event}}
        /\ replies' \in {replies,
                         replies \cup {[req |-> req, resp |-> responses[req.id].resp]}}
    BY DEF EmitEvent, EmitEventRaises, Return, factVars, ledgerVars, loopVars
  <1>2. events' \subseteq EventRecords
    BY <1>0, <1>1 DEF GatewayTypeOK
  <1>3. replies' \subseteq LedgerEntries
    <2>1. [req |-> req, resp |-> responses[req.id].resp] \in LedgerEntries
      BY <1>0 DEF LedgerEntries
    <2> QED BY <2>1, <1>1 DEF GatewayTypeOK
  <1>4. calls' \in [Callers -> CallRecords]
    BY <1>1 DEF GatewayTypeOK, Idle, Phases
  <1>5. GatewayTypeOK'
    BY <1>1, <1>2, <1>3, <1>4 DEF GatewayTypeOK
  <1>6. OneHolder' /\ CallsAreConsistent' /\ AcceptedWasSent'
    BY <1>1 DEF OneHolder, Holding, CallsAreConsistent, AcceptedWasSent, Idle,
                GatewayTypeOK
  <1>7. WiresAccounted'
    BY <1>0, <1>1 DEF WiresAccounted, GatewayTypeOK, Idle
  <1> QED BY <1>5, <1>6, <1>7

\* The main loop only moves its own flags.
LEMMA LoopInv ==
    ASSUME GatewayInv,
           MarkReady \/ StopLoop \/ Quiesce \/ DestroyNode \/ UNCHANGED gatewayVars
    PROVE  GatewayInv'
  <1> USE DEF GatewayInv
  <1>1. /\ UNCHANGED <<vehicle, payloads, vehicleHistory, payloadHistories, pending,
                       responses, responseSequence, eventId, calls, wires, events,
                       replies>>
        /\ ready' \in BOOLEAN /\ stopping' \in BOOLEAN
        /\ expired' \in BOOLEAN /\ quiescent' \in BOOLEAN /\ destroyed' \in BOOLEAN
    BY DEF MarkReady, StopLoop, Quiesce, DestroyNode, gatewayVars, factVars, ledgerVars, GatewayTypeOK
  <1>2. GatewayTypeOK'
    BY <1>1 DEF GatewayTypeOK
  <1>3. (OneHolder /\ CallsAreConsistent /\ WiresAccounted /\ AcceptedWasSent)'
    BY <1>1 DEF OneHolder, Holding, CallsAreConsistent, WiresAccounted, AcceptedWasSent
  <1> QED BY <1>2, <1>3

\* Every step of the gateway preserves the inductive invariant.
LEMMA GatewayStepInv == GatewayInv /\ [GatewayNext]_gatewayVars => GatewayInv'
  <1> SUFFICES ASSUME GatewayInv, [GatewayNext]_gatewayVars PROVE GatewayInv'
    OBVIOUS
  <1>1. CASE Deliver
    BY <1>1, DeliverTruthInv, AcceptResultInv DEF Deliver
  <1>2. CASE \E c \in Callers, req \in Requests : Call(c, req)
    BY <1>2, CallInv
  <1>3. CASE \E c \in Callers : Proceed(c)
    BY <1>3, LookupInv, AuthorizeInv, PublishCommandInv, PublishCommandFailsInv,
       WaitInv, ResolveInv, RecordSuccessInv, EmitInv DEF Proceed
  <1>4. CASE MarkReady \/ StopLoop \/ Quiesce \/ DestroyNode \/ UNCHANGED gatewayVars
    BY <1>4, LoopInv
  <1> QED BY <1>1, <1>2, <1>3, <1>4 DEF GatewayNext

\* The inductive invariant holds in every reachable state.
THEOREM GatewayInvariant == GatewaySpec => []GatewayInv
  <1> QED BY GatewayInitInv, GatewayStepInv, PTL DEF GatewaySpec

\* Type correctness of the gateway.
THEOREM GatewayTypeCorrect == GatewaySpec => []GatewayTypeOK
  <1>1. GatewayInv => GatewayTypeOK
    BY DEF GatewayInv
  <1> QED BY <1>1, GatewayInvariant, PTL

\* However many clients retry and race, no command id is sent twice.
THEOREM SentAtMostOnce == GatewaySpec => []OneWirePerCommand
  <1>1. GatewayInv => OneWirePerCommand
    BY DEF GatewayInv, WiresAccounted, OneWirePerCommand
  <1> QED BY <1>1, GatewayInvariant, PTL

\* No command is answered accepted unless it was sent.
THEOREM AcceptedOnlyIfSent == GatewaySpec => []AcceptedWasSent
  <1>1. GatewayInv => AcceptedWasSent
    BY DEF GatewayInv
  <1> QED BY <1>1, GatewayInvariant, PTL

\* An entry of the command-id ledger is never overwritten.
THEOREM LedgerNeverRewritten == GatewaySpec => LedgerIsWriteOnce
  <1> DEFINE Keeps == \A i \in Ids : responses[i] # None => responses'[i] = responses[i]
  <1>1. ASSUME GatewayInv, [GatewayNext]_gatewayVars PROVE Keeps
    <2> USE <1>1 DEF GatewayInv
    <2>1. ASSUME NEW c \in Callers, Proceed(c) PROVE Keeps
      <3>1. CASE Lookup(c) \/ PublishCommand(c) \/ WaitConfirmed(c) \/ WaitTimeout(c)
                   \/ EmitEvent(c) \/ EmitEventRaises(c)
        BY <3>1 DEF Lookup, PublishCommand, WaitConfirmed, WaitTimeout, EmitEvent,
                    EmitEventRaises, ledgerVars
      <3>2. CASE Authorize(c) \/ PublishCommandFails(c) \/ Resolve(c) \/ RecordSuccess(c)
        <4>1. /\ responses[calls[c].req.id] = None
              /\ \/ UNCHANGED responses
                 \/ \E e : responses' = [responses EXCEPT ![calls[c].req.id] = e]
          BY <3>2 DEF CallsAreConsistent, Authorize, PublishCommandFails, Resolve,
                      RecordSuccess, Answer, ledgerVars
        <4> QED BY <4>1 DEF GatewayTypeOK
      <3> QED BY <2>1, <3>1, <3>2 DEF Proceed
    <2>2. CASE ~\E c \in Callers : Proceed(c)
      <3>1. UNCHANGED responses
        BY <1>1, <2>2 DEF GatewayNext, Deliver, AcceptVehicle, AcceptPayload,
           AcceptResult, Call, MarkReady, StopLoop, Quiesce, DestroyNode, ledgerVars,
           gatewayVars
      <3> QED BY <3>1
    <2> QED BY <2>1, <2>2
  <1>2. GatewayInv /\ [GatewayNext]_gatewayVars => [Keeps]_gatewayVars
    BY <1>1
  <1> QED BY <1>2, GatewayInvariant, PTL DEF GatewaySpec, LedgerIsWriteOnce

-----------------------------------------------------------------------------
(* The answers.  A step replays the ledger, refuses a reused id, or enters  *)
(* one new answer under a fresh sequence number.                            *)

\* Everything that carries a sequence number: the answers handed back and the
\* entries of the ledger.
Given == replies \cup {responses[i] : i \in {j \in Ids : responses[j] # None}}

\* The inductive invariant behind RepliesAreStable: an answer is the entry of
\* its id or a conflict with it, and sequence numbers are never shared.
AnswersInv ==
    /\ \A c \in Callers :
          calls[c].phase = "emit" => responses[calls[c].req.id].req = calls[c].req
    /\ \A i \in Ids : responses[i] # None => responses[i].req.id = i
    /\ \A a \in replies :
          /\ responses[a.req.id] # None
          /\ a.req = responses[a.req.id].req => a = responses[a.req.id]
          /\ a.req # responses[a.req.id].req => a.resp.code = "COMMAND_ID_CONFLICT"
    /\ \A x \in Given : x.resp.seq <= responseSequence
    /\ \A x, y \in Given : x.resp.seq = y.resp.seq => x = y

\* The step hands back nothing, or what the ledger holds.
Replays ==
    /\ UNCHANGED <<responses, responseSequence>>
    /\ \A a \in replies' : a \in replies \/ (responses[a.req.id] # None /\ a = responses[a.req.id])

\* The step refuses x, whose id answered a different request.
Refuses(x) ==
    /\ UNCHANGED responses
    /\ responseSequence' = responseSequence + 1
    /\ x.resp.seq = responseSequence + 1
    /\ x.resp.code = "COMMAND_ID_CONFLICT"
    /\ responses[x.req.id] # None
    /\ responses[x.req.id].req # x.req
    /\ replies' = replies \cup {x}

\* The step enters x in the ledger under an unused id.
Enters(x) ==
    /\ responses[x.req.id] = None
    /\ responses' = [responses EXCEPT ![x.req.id] = x]
    /\ responseSequence' = responseSequence + 1
    /\ x.resp.seq = responseSequence + 1
    /\ replies' \in {replies, replies \cup {x}}

\* Answer, in terms of the entry it makes.
LEMMA AnswerEnters ==
    ASSUME GatewayInv, NEW c \in Callers, NEW accepted \in BOOLEAN, NEW code \in Codes,
           calls[c].req \in Requests, responses[calls[c].req.id] = None,
           Answer(c, accepted, code)
    PROVE  \E x \in LedgerEntries : Enters(x)
  <1> DEFINE x == [req |-> calls[c].req, resp |-> Response(calls[c].req, accepted, code)]
  <1>1. calls[c].req.id \in Ids
    BY GatewayAssumption
  <1>2. Response(calls[c].req, accepted, code) \in ResponseRecords
    BY <1>1 DEF Response, ResponseRecords, GatewayInv, GatewayTypeOK
  <1>3. x \in LedgerEntries
    BY <1>2 DEF LedgerEntries
  <1>4. Enters(x)
    BY DEF Enters, Answer, Return, Response
  <1> QED BY <1>3, <1>4

\* Every step of the gateway does one of the three.
LEMMA AnswerSteps ==
    ASSUME GatewayInv, AnswersInv, [GatewayNext]_gatewayVars
    PROVE  Replays \/ \E x \in LedgerEntries : Refuses(x) \/ Enters(x)
  <1> USE DEF GatewayInv
  <1>1. ASSUME NEW c \in Callers, Lookup(c)
        PROVE  Replays \/ \E x \in LedgerEntries : Refuses(x)
    <2> DEFINE req == calls[c].req
               known == responses[req.id]
    <2>0. req \in Requests /\ req.id \in Ids
      BY <1>1, GatewayAssumption DEF CallsAreConsistent, Lookup
    <2>1. CASE known = None
      BY <1>1, <2>1 DEF Lookup, Replays
    <2>2. CASE known # None /\ known.req = req
      <3>1. known \in LedgerEntries
        BY <2>0, <2>2 DEF GatewayTypeOK
      <3>2. [req |-> req, resp |-> known.resp] = known
        BY <2>2, <3>1 DEF LedgerEntries
      <3>3. /\ replies' = replies \cup {known}
            /\ UNCHANGED <<responses, responseSequence>>
        BY <1>1, <2>2, <3>2 DEF Lookup, Return
      <3> QED BY <2>2, <3>3 DEF Replays
    <2>3. CASE known # None /\ known.req # req
      <3> DEFINE x == [req |-> req, resp |-> Response(req, FALSE, "COMMAND_ID_CONFLICT")]
      <3>1. x \in LedgerEntries
        BY <2>0 DEF LedgerEntries, Response, ResponseRecords, Codes, GatewayTypeOK
      <3>2. Refuses(x)
        BY <1>1, <2>3 DEF Lookup, Return, Refuses, Response
      <3> QED BY <3>1, <3>2
    <2> QED BY <2>1, <2>2, <2>3
  <1>2. ASSUME NEW c \in Callers, Authorize(c)
        PROVE  Replays \/ \E x \in LedgerEntries : Enters(x)
    <2> DEFINE code == Authorization(calls[c].req)
    <2>0. calls[c].req \in Requests /\ responses[calls[c].req.id] = None
      BY <1>2 DEF Authorize, CallsAreConsistent
    <2>1. code \in Codes
      BY AuthorizationCode
    <2>2. CASE code # "OK"
      <3>1. Answer(c, FALSE, code)
        BY <1>2, <2>2 DEF Authorize
      <3> HIDE DEF code
      <3> QED BY <2>0, <2>1, <3>1, AnswerEnters
    <2>3. CASE code = "OK"
      BY <1>2, <2>3 DEF Authorize, Replays, ledgerVars
    <2> QED BY <2>2, <2>3
  <1>3. ASSUME NEW c \in Callers, PublishCommandFails(c)
        PROVE  \E x \in LedgerEntries : Enters(x)
    <2>1. /\ calls[c].req \in Requests /\ responses[calls[c].req.id] = None
          /\ Answer(c, FALSE, "COORDINATOR_PUBLISH_FAILED")
          /\ "COORDINATOR_PUBLISH_FAILED" \in Codes
      BY <1>3 DEF PublishCommandFails, CallsAreConsistent, Codes
    <2> QED BY <2>1, AnswerEnters
  <1>4. ASSUME NEW c \in Callers, Resolve(c)
        PROVE  Replays \/ \E x \in LedgerEntries : Enters(x)
    <2> DEFINE code == ResolutionCode(calls[c].req, calls[c].confirmed, pending.value)
    <2>0. /\ calls[c].req \in Requests /\ responses[calls[c].req.id] = None
          /\ pending \in PendingResults
      BY <1>4 DEF Resolve, CallsAreConsistent, GatewayTypeOK
    <2>1. code \in Codes
      BY <2>0 DEF PendingResults, PhysicalResults, ResolutionCode, Codes
    <2>2. CASE code # "OK"
      <3>1. Answer(c, FALSE, code)
        BY <1>4, <2>2 DEF Resolve
      <3> HIDE DEF code
      <3> QED BY <2>0, <2>1, <3>1, AnswerEnters
    <2>3. CASE code = "OK"
      BY <1>4, <2>3 DEF Resolve, Replays, ledgerVars
    <2> QED BY <2>2, <2>3
  <1>5. ASSUME NEW c \in Callers, RecordSuccess(c)
        PROVE  \E x \in LedgerEntries : Enters(x)
    <2> DEFINE req == calls[c].req
               x == [req |-> req, resp |-> Response(req, TRUE, "OK")]
    <2>0. req \in Requests /\ req.id \in Ids /\ responses[req.id] = None
      BY <1>5, GatewayAssumption DEF RecordSuccess, CallsAreConsistent
    <2>1. x \in LedgerEntries
      BY <2>0 DEF LedgerEntries, Response, ResponseRecords, Codes, GatewayTypeOK
    <2>2. /\ responses' = [responses EXCEPT ![req.id] = x]
          /\ responseSequence' = responseSequence + 1
          /\ replies' = replies
      BY <1>5 DEF RecordSuccess
    <2>3. x.resp.seq = responseSequence + 1 /\ x.req.id = req.id
      BY DEF Response
    <2> HIDE DEF x
    <2> QED BY <2>0, <2>1, <2>2, <2>3 DEF Enters
  <1>6. ASSUME NEW c \in Callers, EmitEvent(c) \/ EmitEventRaises(c) PROVE Replays
    <2> DEFINE req == calls[c].req
               known == responses[req.id]
    <2>0. /\ calls[c].phase = "emit" /\ req \in Requests /\ req.id \in Ids
          /\ known # None /\ known.req = req
      BY <1>6, GatewayAssumption
         DEF EmitEvent, EmitEventRaises, CallsAreConsistent, AnswersInv
    <2>1. known \in LedgerEntries
      BY <2>0 DEF GatewayTypeOK
    <2>2. [req |-> req, resp |-> known.resp] = known
      BY <2>0, <2>1 DEF LedgerEntries
    <2>3. /\ replies' \in {replies, replies \cup {known}}
          /\ UNCHANGED <<responses, responseSequence>>
      BY <1>6, <2>2 DEF EmitEvent, EmitEventRaises, Return, ledgerVars
    <2> QED BY <2>0, <2>3 DEF Replays
  <1>7. ASSUME NEW c \in Callers, PublishCommand(c) \/ WaitConfirmed(c) \/ WaitTimeout(c)
        PROVE  Replays
    BY <1>7 DEF PublishCommand, WaitConfirmed, WaitTimeout, Replays, ledgerVars
  <1>8. CASE ~\E c \in Callers : Proceed(c)
    <2>1. UNCHANGED <<responses, responseSequence, replies>>
      BY <1>8 DEF GatewayNext, Deliver, AcceptVehicle, AcceptPayload, AcceptResult, Call,
         MarkReady, StopLoop, Quiesce, DestroyNode, ledgerVars, gatewayVars
    <2> QED BY <2>1 DEF Replays
  <1> QED BY <1>1, <1>2, <1>3, <1>4, <1>5, <1>6, <1>7, <1>8 DEF Proceed

\* The physical result confirms what the call asked for.
ResolvedOK(c) == ResolutionCode(calls[c].req, calls[c].confirmed, pending.value) = "OK"

\* How a thread gets to record a success, and from there to emit its event.
LEMMA PhaseSteps ==
    ASSUME GatewayInv, [GatewayNext]_gatewayVars, NEW c \in Callers
    PROVE  \/ calls'[c] = calls[c]
           \/ calls'[c].phase \notin {"record", "emit"}
           \/ calls'[c].phase = "record" /\ Resolve(c) /\ ResolvedOK(c)
           \/ calls'[c].phase = "emit" /\ RecordSuccess(c) /\ calls'[c].req = calls[c].req
  <1> USE DEF GatewayInv
  <1> DEFINE Goal == \/ calls'[c] = calls[c]
                     \/ calls'[c].phase \notin {"record", "emit"}
                     \/ calls'[c].phase = "record" /\ Resolve(c) /\ ResolvedOK(c)
                     \/ /\ calls'[c].phase = "emit" /\ RecordSuccess(c)
                        /\ calls'[c].req = calls[c].req
  <1>1. ASSUME NEW d \in Callers, Proceed(d) PROVE Goal
    <2>0. calls[d] \in CallRecords
      BY DEF GatewayTypeOK
    <2>1. CASE RecordSuccess(d)
      <3>1. PICK e : calls' = [calls EXCEPT ![d].phase = "emit", ![d].event = e]
        BY <2>1 DEF RecordSuccess
      <3>2. calls' = [calls EXCEPT ![d] = [calls[d] EXCEPT !.phase = "emit", !.event = e]]
        BY <3>1 DEF GatewayTypeOK
      <3>3. /\ [calls[d] EXCEPT !.phase = "emit", !.event = e].req = calls[d].req
            /\ [calls[d] EXCEPT !.phase = "emit", !.event = e].phase = "emit"
        BY <2>0
      <3> QED BY <2>1, <3>2, <3>3 DEF GatewayTypeOK
    <2>2. CASE Resolve(d) /\ ResolvedOK(d)
      <3>1. calls' = [calls EXCEPT ![d] = [calls[d] EXCEPT !.phase = "record"]]
        BY <2>2 DEF Resolve, ResolvedOK, GatewayTypeOK
      <3>2. [calls[d] EXCEPT !.phase = "record"].phase = "record"
        BY <2>0
      <3> QED BY <2>2, <3>1, <3>2 DEF GatewayTypeOK
    <2>3. CASE ~RecordSuccess(d) /\ ~(Resolve(d) /\ ResolvedOK(d))
      <3>1. CASE \E f : /\ f \in {"authorize", "publish", "wait"}
                        /\ calls' = [calls EXCEPT ![d].phase = f]
        <4>1. PICK f : /\ f \in {"authorize", "publish", "wait"}
                       /\ calls' = [calls EXCEPT ![d].phase = f]
          BY <3>1
        <4>2. calls' = [calls EXCEPT ![d] = [calls[d] EXCEPT !.phase = f]]
          BY <4>1 DEF GatewayTypeOK
        <4>3. [calls[d] EXCEPT !.phase = f].phase \notin {"record", "emit"}
          BY <2>0, <4>1
        <4> QED BY <4>2, <4>3 DEF GatewayTypeOK
      <3>2. CASE \E b : calls' = [calls EXCEPT ![d].phase = "resolve", ![d].confirmed = b]
        <4>1. PICK b : calls' = [calls EXCEPT ![d].phase = "resolve", ![d].confirmed = b]
          BY <3>2
        <4>2. calls' = [calls EXCEPT ![d] =
                           [calls[d] EXCEPT !.phase = "resolve", !.confirmed = b]]
          BY <4>1 DEF GatewayTypeOK
        <4>3. [calls[d] EXCEPT !.phase = "resolve", !.confirmed = b].phase
                 \notin {"record", "emit"}
          BY <2>0
        <4> QED BY <4>2, <4>3 DEF GatewayTypeOK
      <3>3. CASE calls' = [calls EXCEPT ![d] = Idle]
        BY <3>3 DEF Idle, GatewayTypeOK
      <3> QED BY <1>1, <2>3, <3>1, <3>2, <3>3
           DEF Proceed, Lookup, Authorize, PublishCommand, PublishCommandFails,
               WaitConfirmed, WaitTimeout, Resolve, ResolvedOK, EmitEvent,
               EmitEventRaises, Answer, Return
    <2> QED BY <2>1, <2>2, <2>3
  <1>2. ASSUME NEW d \in Callers, NEW req \in Requests, Call(d, req) PROVE Goal
    BY <1>2 DEF Call, Idle, GatewayTypeOK
  <1>3. CASE /\ ~\E d \in Callers : Proceed(d)
             /\ ~\E d \in Callers, req \in Requests : Call(d, req)
    BY <1>3 DEF GatewayNext, Deliver, AcceptVehicle, AcceptPayload, AcceptResult,
       MarkReady, StopLoop, Quiesce, DestroyNode, gatewayVars
  <1> QED BY <1>1, <1>2, <1>3

\* A thread that is about to emit recorded its success in this step or was
\* already about to emit.
LEMMA EmitPhase ==
    ASSUME GatewayInv, [GatewayNext]_gatewayVars,
           NEW c \in Callers, calls'[c].phase = "emit"
    PROVE  \/ calls'[c] = calls[c]
           \/ RecordSuccess(c) /\ calls'[c].req = calls[c].req
  BY PhaseSteps

\* Every step preserves the invariant of the answers.
LEMMA AnswersStepInv ==
    ASSUME GatewayInv, AnswersInv, [GatewayNext]_gatewayVars
    PROVE  AnswersInv'
  <1> USE DEF GatewayInv
  <1>0. /\ \A x \in LedgerEntries : x # None /\ x.req.id \in Ids /\ x.resp.seq \in Nat
        /\ responseSequence \in Nat /\ replies \subseteq LedgerEntries
        /\ responses \in [Ids -> LedgerEntries \cup {None}]
    BY GatewayAssumption DEF LedgerEntries, ResponseRecords, GatewayTypeOK
  <1>a. replies' \subseteq LedgerEntries
    BY GatewayStepInv DEF GatewayTypeOK
  <1>b. \A i \in Ids : responses[i] # None => responses[i] \in LedgerEntries
    BY <1>0
  <1>c. \A x \in Given : x \in LedgerEntries
    BY <1>0 DEF Given
  <1>1. \A i \in Ids : responses[i] # None => responses'[i] = responses[i]
    BY <1>0, AnswerSteps DEF Replays, Refuses, Enters
  <1>2. ASSUME NEW c \in Callers, calls'[c].phase = "emit"
        PROVE  responses'[calls'[c].req.id].req = calls'[c].req
    <2>1. CASE calls'[c] = calls[c]
      <3>1. /\ calls[c].req.id \in Ids /\ responses[calls[c].req.id] # None
            /\ responses[calls[c].req.id].req = calls[c].req
        BY <1>2, <2>1, GatewayAssumption DEF CallsAreConsistent, AnswersInv
      <3> QED BY <1>1, <2>1, <3>1
    <2>2. CASE RecordSuccess(c) /\ calls'[c].req = calls[c].req
      <3>1. calls[c].req.id \in Ids
        BY <2>2, GatewayAssumption DEF RecordSuccess, CallsAreConsistent
      <3> QED BY <1>0, <2>2, <3>1 DEF RecordSuccess
    <2> QED BY <1>2, <2>1, <2>2, EmitPhase
  <1>3. CASE Replays
    <2>1. UNCHANGED <<responses, responseSequence>>
      BY <1>3 DEF Replays
    <2>2. \A a \in replies' : a \in replies \/ (responses[a.req.id] # None /\ a = responses[a.req.id])
      BY <1>3 DEF Replays
    <2>3. \A a \in replies' : a.req.id \in Ids
      BY <1>a, <1>0
    <2>4. Given' \subseteq Given
      BY <2>1, <2>2, <2>3 DEF Given
    <2> QED BY <1>2, <2>1, <2>2, <2>4 DEF AnswersInv
  <1>4. ASSUME NEW x \in LedgerEntries, Refuses(x) PROVE AnswersInv'
    <2>1. Given' = Given \cup {x}
      BY <1>4 DEF Given, Refuses
    <2>2. responseSequence' = responseSequence + 1 /\ x.resp.seq = responseSequence + 1
      BY <1>4 DEF Refuses
    <2>3. /\ \A y \in Given' : y.resp.seq <= responseSequence'
          /\ \A y, z \in Given' : y.resp.seq = z.resp.seq => y = z
      BY <1>0, <1>c, <2>1, <2>2 DEF AnswersInv
    <2> QED BY <1>2, <1>4, <2>3 DEF AnswersInv, Refuses
  <1>5. ASSUME NEW x \in LedgerEntries, Enters(x) PROVE AnswersInv'
    <2>1. x # None /\ x.req.id \in Ids /\ responses'[x.req.id] = x
      BY <1>0, <1>5 DEF Enters
    <2>2. \A i \in Ids : i # x.req.id => responses'[i] = responses[i]
      BY <1>0, <1>5 DEF Enters
    <2>3. Given' \subseteq Given \cup {x}
      BY <1>5, <2>1, <2>2 DEF Given, Enters
    <2>4. responseSequence' = responseSequence + 1 /\ x.resp.seq = responseSequence + 1
      BY <1>5 DEF Enters
    <2>5. /\ \A y \in Given' : y.resp.seq <= responseSequence'
          /\ \A y, z \in Given' : y.resp.seq = z.resp.seq => y = z
      BY <1>0, <1>c, <2>3, <2>4 DEF AnswersInv
    <2>6. \A a \in replies' : a \in replies \/ a = x
      BY <1>5 DEF Enters
    <2>7. \A a \in replies : a.req.id \in Ids /\ a.req.id # x.req.id
      BY <1>0, <1>5 DEF AnswersInv, Enters
    <2>8. \A i \in Ids : responses'[i] # None => responses'[i].req.id = i
      BY <2>1, <2>2 DEF AnswersInv
    <2>9. \A a \in replies' :
             /\ responses'[a.req.id] # None
             /\ a.req = responses'[a.req.id].req => a = responses'[a.req.id]
             /\ a.req # responses'[a.req.id].req => a.resp.code = "COMMAND_ID_CONFLICT"
      BY <2>1, <2>2, <2>6, <2>7 DEF AnswersInv
    <2> QED BY <1>2, <2>5, <2>8, <2>9 DEF AnswersInv
  <1> QED BY <1>3, <1>4, <1>5, AnswerSteps

-----------------------------------------------------------------------------
(* The events.                                                              *)

\* The events that went out and those about to.
Sent == events \cup {calls[c].event : c \in {d \in Callers : calls[d].phase = "emit"}}

\* The inductive invariant behind EventsAreTruthful: it holds from the moment
\* the event is recorded, not only once it is out.
EventsInv ==
    /\ \A e \in Sent :
          /\ e.id \in Ids
          /\ responses[e.id] # None
          /\ responses[e.id].resp.accepted
          /\ e.marker = responses[e.id].req.marker
          /\ e.state = Expected(responses[e.id].req)
          /\ e.event_id < eventId
    /\ \A e, f \in Sent : (e.id = f.id \/ e.event_id = f.event_id) => e = f

\* An entry of the ledger stays as it is.
LEMMA LedgerKept ==
    ASSUME GatewayInv, AnswersInv, [GatewayNext]_gatewayVars,
           NEW i \in Ids, responses[i] # None
    PROVE  responses'[i] = responses[i]
  <1>1. responses \in [Ids -> LedgerEntries \cup {None}]
    BY DEF GatewayInv, GatewayTypeOK
  <1> QED BY <1>1, AnswerSteps DEF Replays, Refuses, Enters

\* Only EmitEvent publishes, and what its thread had recorded.
LEMMA PublishedEvents ==
    ASSUME [GatewayNext]_gatewayVars
    PROVE  events' \subseteq Sent
  <1>1. ASSUME NEW c \in Callers, Proceed(c) PROVE events' \subseteq Sent
    BY <1>1 DEF Sent, Proceed, Lookup, Authorize, PublishCommand, PublishCommandFails,
       WaitConfirmed, WaitTimeout, Resolve, RecordSuccess, EmitEvent, EmitEventRaises
  <1>2. CASE ~\E c \in Callers : Proceed(c)
    BY <1>2 DEF Sent, GatewayNext, Deliver, AcceptVehicle, AcceptPayload, AcceptResult,
       Call, MarkReady, StopLoop, Quiesce, DestroyNode, gatewayVars
  <1> QED BY <1>1, <1>2

\* The event counter moves only with a recorded success.
LEMMA EventIdSteps ==
    ASSUME [GatewayNext]_gatewayVars, ~\E c \in Callers : RecordSuccess(c)
    PROVE  eventId' = eventId
  <1>1. ASSUME NEW c \in Callers, Proceed(c) PROVE eventId' = eventId
    BY <1>1 DEF Proceed, Lookup, Authorize, PublishCommand, PublishCommandFails,
       WaitConfirmed, WaitTimeout, Resolve, EmitEvent, EmitEventRaises
  <1>2. CASE ~\E c \in Callers : Proceed(c)
    BY <1>2 DEF GatewayNext, Deliver, AcceptVehicle, AcceptPayload, AcceptResult,
       Call, MarkReady, StopLoop, Quiesce, DestroyNode, gatewayVars
  <1> QED BY <1>1, <1>2

\* What RecordSuccess adds: one event, under a fresh number, for an id that
\* had no answer and is now accepted.
LEMMA RecordedEvent ==
    ASSUME GatewayInv, AnswersInv, [GatewayNext]_gatewayVars,
           NEW c \in Callers, RecordSuccess(c)
    PROVE  \E e : /\ Sent' \subseteq Sent \cup {e}
                  /\ e.id \in Ids /\ responses[e.id] = None
                  /\ e.event_id = eventId /\ eventId' = eventId + 1
                  /\ responses'[e.id] # None
                  /\ responses'[e.id].resp.accepted
                  /\ e.marker = responses'[e.id].req.marker
                  /\ e.state = Expected(responses'[e.id].req)
  <1> USE DEF GatewayInv
  <1> DEFINE req == calls[c].req
             e == calls'[c].event
             x == [req |-> req, resp |-> Response(req, TRUE, "OK")]
  <1>0. req \in Requests /\ req.id \in Ids /\ responses[req.id] = None
    BY GatewayAssumption DEF RecordSuccess, CallsAreConsistent
  <1>1. PICK stamp : calls' = [calls EXCEPT ![c].phase = "emit", ![c].event =
           [t |-> stamp, event_id |-> eventId, marker |-> req.marker,
            id |-> req.id, state |-> Expected(req)]]
    BY DEF RecordSuccess
  <1>2. e = [t |-> stamp, event_id |-> eventId, marker |-> req.marker,
             id |-> req.id, state |-> Expected(req)]
    BY <1>1 DEF GatewayTypeOK
  <1>3. /\ events' = events /\ eventId' = eventId + 1
        /\ responses' = [responses EXCEPT ![req.id] = x]
    BY DEF RecordSuccess
  <1>4. ASSUME NEW d \in Callers, calls'[d].phase = "emit", d # c
        PROVE  calls'[d].event \in Sent
    <2>1. ~RecordSuccess(d)
      BY <1>4 DEF RecordSuccess, OneHolder, Holding
    <2>2. calls'[d] = calls[d]
      BY <1>4, <2>1, EmitPhase
    <2> QED BY <1>4, <2>2 DEF Sent
  <1>5. Sent' \subseteq Sent \cup {e}
    BY <1>3, <1>4 DEF Sent
  <1>6. x \in LedgerEntries
    BY <1>0 DEF LedgerEntries, Response, ResponseRecords, Codes, GatewayTypeOK
  <1>7. responses'[req.id] = x /\ x # None /\ x.req = req /\ x.resp.accepted
    BY <1>0, <1>3, <1>6, GatewayAssumption DEF Response, GatewayTypeOK
  <1> HIDE DEF x, e
  <1>8. e.id = req.id /\ e.event_id = eventId /\ e.marker = req.marker
        /\ e.state = Expected(req)
    BY <1>2
  <1> QED BY <1>0, <1>3, <1>5, <1>7, <1>8

\* Every step preserves the invariant of the events.
LEMMA EventsStepInv ==
    ASSUME GatewayInv, AnswersInv, EventsInv, [GatewayNext]_gatewayVars
    PROVE  EventsInv'
  <1>0. eventId \in Nat /\ \A f \in Sent : f.event_id \in Int
    BY DEF GatewayInv, GatewayTypeOK, EventRecords, Sent, CallsAreConsistent
  <1>1. \A f \in Sent : responses'[f.id] = responses[f.id]
    BY LedgerKept DEF EventsInv
  <1>2. CASE \E c \in Callers : RecordSuccess(c)
    <2>1. PICK e : /\ Sent' \subseteq Sent \cup {e}
                   /\ e.id \in Ids /\ responses[e.id] = None
                   /\ e.event_id = eventId /\ eventId' = eventId + 1
                   /\ responses'[e.id] # None
                   /\ responses'[e.id].resp.accepted
                   /\ e.marker = responses'[e.id].req.marker
                   /\ e.state = Expected(responses'[e.id].req)
      BY <1>2, RecordedEvent
    <2>2. \A f \in Sent : f.id # e.id /\ f.event_id # e.event_id
      BY <1>0, <2>1 DEF EventsInv
    <2> QED BY <1>0, <1>1, <2>1, <2>2 DEF EventsInv
  <1>3. CASE ~\E c \in Callers : RecordSuccess(c)
    <2>1. ASSUME NEW c \in Callers, calls'[c].phase = "emit"
          PROVE  calls'[c].event \in Sent
      <3>1. calls'[c] = calls[c]
        BY <1>3, <2>1, EmitPhase
      <3> QED BY <2>1, <3>1 DEF Sent
    <2>2. Sent' \subseteq Sent
      BY <2>1, PublishedEvents DEF Sent
    <2>3. eventId' = eventId
      BY <1>3, EventIdSteps
    <2> QED BY <1>1, <2>2, <2>3 DEF EventsInv
  <1> QED BY <1>2, <1>3

\* The answers and the events keep their invariants together with the ledger.
THEOREM GatewayHistoryInvariant == GatewaySpec => [](AnswersInv /\ EventsInv)
  <1>1. GatewayInit => AnswersInv /\ EventsInv
    BY DEF GatewayInit, AnswersInv, Given, EventsInv, Sent, Idle
  <1>2. /\ GatewayInv /\ AnswersInv /\ EventsInv
        /\ [GatewayNext]_gatewayVars
        => (AnswersInv /\ EventsInv)'
    BY AnswersStepInv, EventsStepInv
  <1> QED BY <1>1, <1>2, GatewayInvariant, PTL DEF GatewaySpec

\* However often a request is retried, raced or its id reused, it is answered
\* alike, and no sequence number is given to two answers.
THEOREM AnswersAreStable == GatewaySpec => []RepliesAreStable
  <1>1. AnswersInv => RepliesAreStable
    <2> SUFFICES ASSUME AnswersInv, NEW a \in replies, NEW b \in replies
                 PROVE  /\ a.req = b.req =>
                              \/ a.resp = b.resp
                              \/ /\ a.resp.code = "COMMAND_ID_CONFLICT"
                                 /\ b.resp.code = "COMMAND_ID_CONFLICT"
                        /\ a.resp.seq = b.resp.seq => a = b
      BY DEF RepliesAreStable
    <2> QED BY DEF AnswersInv, Given
  <1> QED BY <1>1, GatewayHistoryInvariant, PTL

\* A published event is the only one of an accepted command, and says what the
\* command did.
THEOREM EventsTellTheTruth == GatewaySpec => []EventsAreTruthful
  <1>1. EventsInv => EventsAreTruthful
    BY DEF EventsInv, EventsAreTruthful, Sent
  <1> QED BY <1>1, GatewayHistoryInvariant, PTL

-----------------------------------------------------------------------------
(* The end of the process.                                                  *)

\* The inductive invariant behind SilentAfterQuiescence: once a wait has run
\* out behind the loop no further result is accepted, so no call can succeed;
\* and without such a wait the marker finds every thread idle.
QuietInv ==
    /\ expired => stopping /\ (pending # None => pending.value = None)
    /\ quiescent =>
          /\ stopping
          /\ \/ \A c \in Callers : calls[c].phase = "idle"
             \/ /\ expired
                /\ \A c \in Callers : calls[c].phase \notin {"record", "emit"}

\* Every step preserves it.
LEMMA QuietStepInv ==
    ASSUME GatewayInv, QuietInv, [GatewayNext]_gatewayVars
    PROVE  QuietInv'
  <1> USE DEF GatewayInv
  <1>1. ASSUME quiescent, NEW c \in Callers, calls[c].phase # "idle"
        PROVE  expired /\ ~RecordSuccess(c) /\ ~(Resolve(c) /\ ResolvedOK(c))
    <2>1. expired /\ calls[c].phase \notin {"record", "emit"}
      BY <1>1 DEF QuietInv
    <2>2. Resolve(c) => pending.value = None
      BY <2>1 DEF QuietInv, Resolve, CallsAreConsistent
    <2> QED BY <2>1, <2>2 DEF RecordSuccess, ResolvedOK, ResolutionCode
  <1>2. ASSUME NEW c \in Callers, Proceed(c) PROVE QuietInv'
    <2>0. calls[c].phase # "idle" /\ UNCHANGED <<stopping, quiescent>>
      BY <1>2 DEF Proceed, Lookup, Authorize, PublishCommand, PublishCommandFails,
         WaitConfirmed, WaitTimeout, Resolve, RecordSuccess, EmitEvent, EmitEventRaises,
         loopVars
    <2>1. /\ expired' \in {expired, stopping}
          /\ expired' = expired \/ (pending' = pending /\ pending.value = None)
          /\ pending' = pending \/ pending' = None \/ pending'.value = None
      <3>1. CASE WaitTimeout(c)
        BY <3>1 DEF WaitTimeout
      <3>2. CASE Authorize(c)
        <4>1. \/ pending' = pending
              \/ \E i, m : pending' = [id |-> i, marker |-> m, value |-> None]
          BY <3>2 DEF Authorize
        <4>2. expired' = expired
          BY <3>2 DEF Authorize, loopVars
        <4> QED BY <4>1, <4>2
      <3>3. CASE Lookup(c) \/ PublishCommand(c) \/ WaitConfirmed(c) \/ RecordSuccess(c)
                   \/ EmitEvent(c) \/ EmitEventRaises(c)
        BY <3>3 DEF Lookup, PublishCommand, WaitConfirmed, RecordSuccess, EmitEvent,
                    EmitEventRaises, loopVars
      <3>4. CASE PublishCommandFails(c) \/ Resolve(c)
        BY <3>4 DEF PublishCommandFails, Resolve, loopVars
      <3> QED BY <1>2, <3>1, <3>2, <3>3, <3>4 DEF Proceed
    <2>2. expired' => stopping' /\ (pending' # None => pending'.value = None)
      BY <2>0, <2>1 DEF QuietInv
    <2>3. ASSUME quiescent
          PROVE  expired' /\ \A d \in Callers : calls'[d].phase \notin {"record", "emit"}
      <3>1. expired /\ stopping /\ \A d \in Callers : calls[d].phase \notin {"record", "emit"}
        BY <2>0, <2>3 DEF QuietInv
      <3>2. ASSUME NEW d \in Callers PROVE ~RecordSuccess(d) /\ ~(Resolve(d) /\ ResolvedOK(d))
        BY <1>1, <2>3 DEF RecordSuccess, Resolve
      <3> QED BY <2>1, <3>1, <3>2, PhaseSteps
    <2> QED BY <2>0, <2>2, <2>3 DEF QuietInv
  <1>3. CASE /\ ~\E c \in Callers : Proceed(c)
             /\ ~Quiesce
    <2>1. CASE Deliver
      <3>1. UNCHANGED <<calls, stopping, expired, quiescent>>
        BY <2>1 DEF Deliver, AcceptVehicle, AcceptPayload, AcceptResult, loopVars
      <3>2. expired => pending' = pending
        BY <2>1 DEF Deliver, AcceptVehicle, AcceptPayload, AcceptResult
      <3> QED BY <3>1, <3>2 DEF QuietInv
    <2>2. ASSUME NEW c \in Callers, NEW req \in Requests, Call(c, req) PROVE QuietInv'
      BY <2>2 DEF Call, loopVars, QuietInv
    <2>3. CASE MarkReady \/ StopLoop \/ DestroyNode \/ UNCHANGED gatewayVars
      BY <2>3 DEF MarkReady, StopLoop, DestroyNode, gatewayVars, QuietInv
    <2> QED BY <1>3, <2>1, <2>2, <2>3 DEF GatewayNext
  <1>4. CASE Quiesce
    BY <1>4 DEF Quiesce, QuietInv
  <1> QED BY <1>2, <1>3, <1>4

\* After the quiescence marker no event goes out; a command only when the
\* shutdown gave up on a wait, and only until the node is destroyed.
THEOREM SilentOnceQuiescent == GatewaySpec => SilentAfterQuiescence
  <1> DEFINE Quiet == quiescent => /\ UNCHANGED events
                                   /\ (expired /\ ~destroyed) \/ UNCHANGED wires
  <1>1. GatewayInit => QuietInv
    BY DEF GatewayInit, QuietInv
  <1>2. GatewayInv /\ QuietInv /\ [GatewayNext]_gatewayVars => QuietInv'
    BY QuietStepInv
  <1>3. ASSUME GatewayInv, QuietInv, [GatewayNext]_gatewayVars PROVE Quiet
    <2>1. ASSUME quiescent, NEW c \in Callers, Proceed(c)
          PROVE  /\ UNCHANGED events
                 /\ (expired /\ ~destroyed) \/ UNCHANGED wires
      <3>1. calls[c].phase # "idle"
        BY <2>1 DEF Proceed, Lookup, Authorize, PublishCommand, PublishCommandFails,
           WaitConfirmed, WaitTimeout, Resolve, RecordSuccess, EmitEvent, EmitEventRaises
      <3>2. expired /\ calls[c].phase # "emit"
        BY <1>3, <2>1, <3>1 DEF QuietInv
      <3> QED BY <2>1, <3>2
           DEF Proceed, Lookup, Authorize, PublishCommand, PublishCommandFails,
               WaitConfirmed, WaitTimeout, Resolve, RecordSuccess, EmitEvent,
               EmitEventRaises
    <2>2. CASE ~\E c \in Callers : Proceed(c)
      BY <1>3, <2>2 DEF GatewayNext, Deliver, AcceptVehicle, AcceptPayload, AcceptResult,
         Call, MarkReady, StopLoop, Quiesce, DestroyNode, gatewayVars
    <2> QED BY <2>1, <2>2
  <1>4. GatewayInv /\ QuietInv /\ [GatewayNext]_gatewayVars => [Quiet]_gatewayVars
    BY <1>3
  <1> QED BY <1>1, <1>2, <1>4, GatewayInvariant, PTL DEF GatewaySpec, SilentAfterQuiescence

=============================================================================
