-------------------------- MODULE MCPayloadGateway --------------------------
(***************************************************************************)
(* Two payloads in one pickup zone, two command ids and two clients that   *)
(* retry a request, reuse its id and race each other.                      *)
(***************************************************************************)
EXTENDS PayloadGateway, TLC

CONSTANTS atS, aloft, thisRun, otherRun, a, b

mcPlaces == {atS, aloft}
mcZonesAt == (atS :> {"S"}) @@ (aloft :> {})
mcCloseTo == {<<atS, atS>>}
mcMarkers == {3, 4}
mcPickupZones == [m \in mcMarkers |-> {"S"}]

\* An attach, its release, an attach of the other payload under the release's
\* id, and a request left over from another run under the attach's id.
mcRequests ==
    {[run |-> thisRun, marker |-> 3, action |-> "attach", id |-> a],
     [run |-> thisRun, marker |-> 3, action |-> "release", id |-> b],
     [run |-> thisRun, marker |-> 4, action |-> "attach", id |-> b],
     [run |-> otherRun, marker |-> 3, action |-> "attach", id |-> a]}

mcVehicleFacts ==
    {[t |-> 1, place |-> atS, grounded |-> TRUE],
     [t |-> 2, place |-> aloft, grounded |-> FALSE]}

mcPayloadFacts ==
    {[t |-> 1, place |-> atS, grounded |-> TRUE, attached |-> FALSE],
     [t |-> 2, place |-> aloft, grounded |-> FALSE, attached |-> TRUE]}
=============================================================================
