--------------------------- MODULE VehicleControl ---------------------------
(***************************************************************************)
(* DroneControl and FlightState: what an operation needs to see before its *)
(* order leaves, what it takes for the order's completion, and who is      *)
(* thought to command the vehicle.                                         *)
(*                                                                         *)
(* What was seen is late: mode and armed come with a heartbeat, the landed *)
(* state with a message of its own, each when it comes.  An operation      *)
(* begins with a look, looks again in the moment its order leaves (under   *)
(* the lock of FlightState), then waits for the acknowledgement and for    *)
(* evidence newer than the order.  The vehicle is external; the orders on  *)
(* their way to it keep their order.                                       *)
(***************************************************************************)
EXTENDS Naturals, Sequences, FiniteSets

VARIABLES
    craft,      \* the vehicle: mode, armed, landed, where it is
    told,       \* the orders it has not handled yet
    acked,      \* the acknowledgement of the newest order
    seen,       \* mode, armed and landed state as last observed
    newer,      \* the messages that came since the operation began to wait
    authority,  \* FlightState's authority: none until it is acquired; lost to whom is left out
    home,       \* the pinned mission home
    act         \* the operation under way: op, its step, armed when its wait began

craftVars == <<craft, told, acked>>
controlVars == <<craftVars, seen, newer, authority, home, act>>

Modes == {"GUIDED", "LAND", "other"}
LandedStates == {"ground", "takeoff", "air", "landing"}
Operations == {"guided", "arm", "takeoff", "climb", "goto", "hold", "home", "release", "land",
               "touchdown", "disarm"}
Orders == {"guided", "arm", "takeoff", "climb", "to H", "to L", "land", "disarm"}
NoAct == [op |-> "none", step |-> "begin", was |-> FALSE]
Doing(op) == [NoAct EXCEPT !.op = op]
View(c) == [mode |-> c.mode, armed |-> c.armed, landed |-> c.landed]

ControlTypeOK ==
    /\ craft \in [mode : Modes, armed : BOOLEAN, landed : LandedStates, at : {"H", "L"}]
    /\ told \in Seq(Orders) /\ Len(told) <= 2 /\ acked \in {"none", "yes", "no"}
    /\ seen \in [mode : Modes, armed : BOOLEAN, landed : LandedStates]
    /\ newer \subseteq {"heartbeat", "landed"}
    /\ authority \in {"none", "COMPANION", "lost"}
    /\ home \in {"none", "H", "L"}
    /\ act \in [op : Operations \cup {"none"},
                step : {"begin", "order", "wait"}, was : BOOLEAN]

NewCraft == [mode |-> "other", armed |-> FALSE, landed |-> "ground", at |-> "H"]

ControlInit ==
    /\ craft = NewCraft
    /\ told = <<>> /\ acked = "none" /\ seen = View(craft) /\ newer = {}
    /\ authority = "none" /\ home = "none" /\ act = NoAct

-----------------------------------------------------------------------------
(* The operations.                                                          *)

OnGround == seen.landed = "ground"
Descending == seen.landed = "landing" \/ seen.mode = "LAND"

\* What an operation needs to see.
Needs(op) ==
    CASE op = "guided" -> OnGround /\ ~seen.armed
      [] op = "arm" -> OnGround /\ ~seen.armed /\ seen.mode = "GUIDED"
      [] op = "takeoff" -> OnGround /\ seen.armed /\ seen.mode = "GUIDED"
      [] op \in {"climb", "goto", "home"} ->
            seen.landed = "air" /\ seen.armed /\ seen.mode = "GUIDED"
      [] op \in {"hold", "release"} -> seen.armed /\ seen.mode = "GUIDED"
      [] op = "land" -> ~OnGround /\ ~Descending
      [] op = "disarm" -> OnGround
      [] op = "touchdown" -> Descending

\* Nothing has to be sent: it is so already.
NothingToDo(op) ==
    \/ op \in {"land", "disarm"} /\ OnGround /\ ~seen.armed
    \/ op = "touchdown" /\ OnGround

\* The evidence an operation waits for.
Confirmed ==
    LET op == act.op IN
    CASE op = "guided" -> "heartbeat" \in newer /\ seen.mode = "GUIDED"
      [] op = "arm" -> "heartbeat" \in newer /\ seen.armed
      [] op = "takeoff" -> "landed" \in newer /\ seen.landed = "air" /\ seen.armed
      [] op = "climb" -> seen.landed = "air" /\ seen.armed
      [] op \in {"goto", "hold"} -> craft.at = "L"
      [] op = "home" -> craft.at = home
      [] op = "land" -> "heartbeat" \in newer /\ seen.mode = "LAND"
      [] op = "touchdown" ->
            /\ OnGround
            /\ "landed" \in newer \/ (act.was /\ "heartbeat" \in newer /\ ~seen.armed)
      [] op = "disarm" -> OnGround /\ "heartbeat" \in newer /\ ~seen.armed
      [] OTHER -> FALSE

\* The order of an operation; a waypoint is the place it names.
Order(op) ==
    CASE op \in {"goto", "hold"} \/ (op = "home" /\ home = "L") -> "to L"
      [] op = "home" /\ home # "L" -> "to H"
      [] OTHER -> op

\* The first look.  A landing that finds the vehicle descending only waits for it.
OpBegins ==
    /\ act.op # "none" /\ act.step = "begin"
    /\ \/ NothingToDo(act.op) /\ act' = NoAct /\ UNCHANGED newer
       \/ /\ act.op \in {"land", "touchdown"} /\ ~OnGround /\ Descending
          /\ act' = [op |-> "touchdown", step |-> "wait", was |-> seen.armed] /\ newer' = {}
       \/ /\ act.op # "touchdown" /\ ~NothingToDo(act.op) /\ Needs(act.op)
          /\ act' = [act EXCEPT !.step = "order"] /\ UNCHANGED newer
    /\ UNCHANGED <<craftVars, seen, authority, home>>

\* The order leaves.  Only the first GUIDED of a session looks at the vehicle again, and a
\* landing that was overtaken by the vehicle's own only waits.  A release is no order.
OpOrders(first) ==
    /\ act.step = "order"
    /\ \/ /\ Needs(act.op) \/ (act.op = "guided" /\ ~first)
          /\ IF act.op = "release" THEN act' = NoAct /\ UNCHANGED <<told, acked>>
             ELSE /\ told' = Append(IF Len(told) = 2 THEN Tail(told) ELSE told, Order(act.op))
                  /\ acked' = "none" /\ act' = [act EXCEPT !.step = "wait"]
          /\ newer' = {}
       \/ /\ act.op = "land" /\ ~Needs("land") /\ act' = Doing("touchdown")
          /\ UNCHANGED <<told, acked, newer>>
    /\ UNCHANGED <<craft, seen, authority, home>>

\* The end of the wait; LAND is followed by the wait for touchdown.
OpConfirms ==
    /\ act.step = "wait" /\ Confirmed
    /\ acked = "yes" \/ act.op = "touchdown"
    /\ act' = IF act.op = "land"
              THEN [op |-> "touchdown", step |-> "wait", was |-> seen.armed] ELSE NoAct
    /\ newer' = {} /\ acked' = "none"
    /\ UNCHANGED <<craft, told, seen, authority, home>>

-----------------------------------------------------------------------------
(* FlightState.                                                             *)

\* The mode that an operation has registered.
Expected ==
    CASE act.op = "guided" /\ act.step # "begin" -> {"GUIDED"}
      [] act.op = "land" /\ act.step # "begin" -> {"LAND"}
      [] OTHER -> {}

\* A mode that nobody here asked for revokes the authority; so does the pilot's, whenever
\* the mode switch has moved.
SeeHeartbeat ==
    /\ seen' = [seen EXCEPT !.mode = craft.mode, !.armed = craft.armed]
    /\ newer' = IF act.step = "wait" THEN newer \cup {"heartbeat"} ELSE newer
    /\ \/ authority' = IF authority = "COMPANION" /\ craft.mode \notin {seen.mode} \cup Expected
                       THEN "lost" ELSE authority
       \/ craft.mode = "other" /\ authority' = "lost"
    /\ UNCHANGED <<craftVars, home, act>>

SeeLanded ==
    /\ seen' = [seen EXCEPT !.landed = craft.landed]
    /\ newer' = IF act.step = "wait" THEN newer \cup {"landed"} ELSE newer
    /\ UNCHANGED <<craftVars, authority, home, act>>

\* Vital evidence is stale or unhealthy, or a failsafe of the flight controller is active.
LoseAuthority ==
    /\ authority # "lost" /\ authority' = "lost"
    /\ UNCHANGED <<craftVars, seen, newer, home, act>>

\* acquire_initial_companion_authority and set_mission_home, each once in a session.
Acquires ==
    /\ authority = "none" /\ OnGround /\ ~seen.armed
    /\ authority' = "COMPANION" /\ home' = craft.at

-----------------------------------------------------------------------------
(* The vehicle.                                                             *)

Obeyed(order) ==
    CASE order = "guided" -> [craft EXCEPT !.mode = "GUIDED"]
      [] order = "land" -> [craft EXCEPT !.mode = "LAND"]
      [] order = "arm" -> [craft EXCEPT !.armed = TRUE]
      [] order = "disarm" -> [craft EXCEPT !.armed = FALSE]
      [] order = "takeoff" -> [craft EXCEPT !.landed = "takeoff"]
      [] order = "to L" -> [craft EXCEPT !.at = "L"]
      [] order = "to H" -> [craft EXCEPT !.at = "H"]
      [] OTHER -> craft

Willing(order) ==
    CASE order \in {"guided", "land"} -> TRUE
      [] order = "arm" -> craft.landed = "ground" /\ craft.mode = "GUIDED"
      [] order = "disarm" -> craft.landed = "ground"
      [] order = "takeoff" -> craft.landed = "ground" /\ craft.armed /\ craft.mode = "GUIDED"
      [] OTHER -> craft.landed = "air" /\ craft.mode = "GUIDED"

\* It obeys or refuses; the newest order's answer is awaited.
Obey ==
    /\ told # <<>>
    /\ \E yes \in {Willing(Head(told)), FALSE} :
         /\ craft' = IF yes THEN Obeyed(Head(told)) ELSE craft
         /\ acked' = IF Len(told) > 1 \/ act.step # "wait" \/ act.op = "touchdown" THEN acked
                     ELSE IF yes THEN "yes" ELSE "no"
    /\ told' = Tail(told)
    /\ UNCHANGED <<seen, newer, authority, home, act>>

\* It climbs until it flies, comes down in every mode but GUIDED, and disarms on the
\* ground.
Drift ==
    /\ \/ craft.landed = "takeoff" /\ craft' = [craft EXCEPT !.landed = "air"]
       \/ /\ craft.landed \in {"takeoff", "air"} /\ craft.mode # "GUIDED"
          /\ craft' = [craft EXCEPT !.landed = "landing"]
       \/ craft.landed = "landing" /\ craft' = [craft EXCEPT !.landed = "ground"]
       \/ /\ craft.landed = "ground" /\ craft.armed
          /\ craft' = [craft EXCEPT !.armed = FALSE]
    /\ UNCHANGED <<told, acked, seen, newer, authority, home, act>>

\* The pilot or the flight controller changes the mode of a vehicle that flies.
ModeChanges ==
    /\ craft.armed /\ craft.mode # "other"
    /\ craft' = [craft EXCEPT !.mode = "other"]
    /\ UNCHANGED <<told, acked, seen, newer, authority, home, act>>

Vehicle == Obey \/ Drift \/ ModeChanges
=============================================================================
