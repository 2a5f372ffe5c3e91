------------------------- MODULE SupervisedAttempt -------------------------
(***************************************************************************)
(* The comp2026 listener: a session of the companion that flies one        *)
(* prepared attempt on the ground station's commands.                      *)
(*                                                                         *)
(* The radio thread admits a command to the supervisor and then puts it    *)
(* on the queue; the owner thread takes commands from there, flies them,   *)
(* and recovers the vehicle, at most once.  An abort is latched first and  *)
(* applied by whoever asks the supervisor next.  The ledger on disk        *)
(* outlives the session: FM1 uses its attempt up before anything moves.    *)
(***************************************************************************)
EXTENDS VehicleControl

CONSTANT MaxAttempts    \* bound: attempts prepared, a consumed one counted twice
ASSUME AttemptAssumption == MaxAttempts \in Nat \ {0}

VARIABLES
    ledger,     \* the last attempt prepared, the last consumed, whether it can be read
    session,    \* the listener runs; its attempt; its ledger file is still the named one
    sup,        \* MissionSupervisor: states, latched abort, final result, recovery outcome
    radio,      \* what the radio thread is in the middle of
    queue,      \* the command queue
    owner,      \* CommandExecutionOwner
    rec,        \* its recovery: stage, came home, a failed stage may still land
    timer,      \* the attempt's deadline: off, runs, due
    sites,      \* the waypoints are known; FM1's frozen copy is what is known
    flown       \* history: how often an attempt was admitted

sessionVars == <<session, sup, radio, queue, owner, rec, timer>>
attemptVars == <<controlVars, ledger, sessionVars, sites, flown>>

Phases == {"FM1", "FM2"}
Commands == Phases \cup {"SET"}
Results == {"SUCCEEDED", "FAILED", "ABORTED"}
Outcomes == {"HOME_LANDED", "LOCAL_LANDED", "YIELDED", "UNCONFIRMED"}
Busy == {"QUEUED", "RUNNING"}
Over == {"monitor", "ended", "raised"}
Plan == [FM1 |-> <<"guided", "arm", "takeoff", "goto", "land", "disarm">>,
         FM2 |-> <<"guided", "arm", "takeoff", "goto", "hold", "release">>]

AttemptTypeOK ==
    /\ ControlTypeOK
    /\ ledger \in [prepared : 0 .. MaxAttempts, consumed : 0 .. MaxAttempts, whole : BOOLEAN]
    /\ session \in [up : BOOLEAN, attempt : 0 .. MaxAttempts, pinned : BOOLEAN]
    /\ sup \in [st : [Commands -> {"none"} \cup Busy \cup Results], latched : BOOLEAN,
                final : {"none"} \cup Results, outcome : {"none"} \cup Outcomes]
    /\ radio \in Commands \cup {"none"}
    /\ queue \in Seq(Commands) /\ Len(queue) <= 2
    /\ owner \in [pc : {"idle", "begin", "fly", "finish", "recover", "turn", "monitor", "ended",
                        "raised"},
                  cmd : {"none"} \cup Commands, k : 1 .. 7, result : Results, cancel : BOOLEAN,
                  started : BOOLEAN, next : {"turn", "taken", "judge", "monitor", "raised"}]
    /\ rec \in [stage : {"look", "return", "approach", "goto", "land", "landing", "preserve",
                         "ground", "disarmed"}, returned : BOOLEAN, again : BOOLEAN]
    /\ timer \in {"off", "runs", "due"}
    /\ sites \in [known : BOOLEAN, frozen : BOOLEAN]
    /\ flown \in [1 .. MaxAttempts -> 0 .. 2]

NewSup == [st |-> [c \in Commands |-> "none"], latched |-> FALSE, final |-> "none",
           outcome |-> "none"]
NewOwner == [pc |-> "idle", cmd |-> "none", k |-> 1, result |-> "FAILED", cancel |-> FALSE,
             started |-> FALSE, next |-> "turn"]
NewRec == [stage |-> "look", returned |-> FALSE, again |-> FALSE]

AttemptInit ==
    /\ ControlInit
    /\ ledger = [prepared |-> 0, consumed |-> 0, whole |-> TRUE]
    /\ session = [up |-> FALSE, attempt |-> 0, pinned |-> FALSE]
    /\ sup = NewSup /\ radio = "none" /\ queue = <<>> /\ owner = NewOwner /\ rec = NewRec
    /\ timer = "off" /\ sites \in [known : BOOLEAN, frozen : {FALSE}]
    /\ flown = [a \in 1 .. MaxAttempts |-> 0]

\* _apply_output_abort_locked
Apply(s) ==
    IF s.latched /\ s.final = "none"
    THEN [s EXCEPT !.final = "ABORTED",
                   !.st = [c \in Commands |-> IF c \in Phases /\ @[c] = "QUEUED"
                                              THEN "ABORTED" ELSE @[c]]]
    ELSE s

-----------------------------------------------------------------------------
(* The session.                                                             *)

\* AttemptLedger.prepare_next, by another process; the file it writes is a new one.
Prepare ==
    /\ ledger.whole /\ ledger.prepared + ledger.consumed < MaxAttempts
    /\ ledger' = [ledger EXCEPT !.prepared = @ + 1]
    /\ session' = [session EXCEPT !.pinned = FALSE]
    /\ UNCHANGED <<controlVars, sup, radio, queue, owner, rec, timer, sites, flown>>

\* require_current_unconsumed and build_live_listener.  The orders of an earlier session
\* have arrived or are lost.
StartSession ==
    /\ ~session.up /\ ledger.whole /\ ledger.prepared > ledger.consumed
    /\ session' = [up |-> TRUE, attempt |-> ledger.prepared, pinned |-> TRUE]
    /\ told' = <<>> /\ seen' = View(craft)
    /\ UNCHANGED <<craft, acked, newer, authority, home, act, ledger, sup, radio, queue, owner,
                   rec, timer, sites, flown>>

\* The process dies, or exits after run(); with it goes all it knew.
Forget ==
    /\ session' = [session EXCEPT !.up = FALSE]
    /\ sup' = NewSup /\ radio' = "none" /\ queue' = <<>> /\ owner' = NewOwner /\ rec' = NewRec
    /\ timer' = "off" /\ sites' = [sites EXCEPT !.frozen = FALSE]
    /\ acked' = "none" /\ seen' = View(NewCraft) /\ newer' = {}
    /\ authority' = "none" /\ home' = "none" /\ act' = NoAct
    /\ UNCHANGED <<craft, told, flown>>

SessionEnds == session.up /\ Forget /\ UNCHANGED ledger

-----------------------------------------------------------------------------
(* The radio thread.                                                        *)

RadioFree == session.up /\ radio = "none"

\* admission_check: the vehicle is on the ground and disarmed.
SafeGround == OnGround /\ ~seen.armed

\* A coordinate command; denied once an attempt is active.
AdmitSet ==
    /\ RadioFree /\ SafeGround
    /\ sup.st["SET"] = "none" /\ sup.final = "none" /\ sup.st["FM1"] = "none"
    /\ sup' = [sup EXCEPT !.st["SET"] = "QUEUED"] /\ radio' = "SET"
    /\ UNCHANGED <<controlVars, ledger, session, queue, owner, rec, timer, sites, flown>>

\* Mutant: FM1 does not wait for a coordinate command that is still to be carried out.
FM1AdmissibleAtOnce ==
    /\ RadioFree /\ SafeGround /\ sites.known
    /\ sup.st["FM1"] = "none" /\ sup.final = "none"
    /\ session.pinned /\ ledger.whole
    /\ session.attempt = ledger.prepared /\ session.attempt > ledger.consumed

\* admit(FM1): nothing else is busy, and the ledger lets the attempt be consumed.
FM1Admissible ==
    /\ RadioFree /\ SafeGround /\ sites.known
    /\ sup.st["FM1"] = "none" /\ sup.final = "none" /\ sup.st["SET"] \notin Busy
    /\ session.pinned /\ ledger.whole
    /\ session.attempt = ledger.prepared /\ session.attempt > ledger.consumed

\* consume_and_acquire: the attempt is consumed whatever becomes of the rest.
AdmitFM1 ==
    /\ FM1Admissible
    /\ sites' = [sites EXCEPT !.frozen = TRUE]
    /\ ledger' = [ledger EXCEPT !.consumed = session.attempt]
    /\ \/ /\ Acquires
          /\ sup' = [sup EXCEPT !.st["FM1"] = "QUEUED"] /\ radio' = "FM1"
          /\ flown' = [flown EXCEPT ![session.attempt] = @ + 1]
       \/ Acquires /\ UNCHANGED <<sup, radio, flown>>
       \/ UNCHANGED <<authority, home, sup, radio, flown>>
    /\ UNCHANGED <<craftVars, seen, newer, act, session, queue, owner, rec, timer>>

\* The process dies while it writes the ledger in place.
DieConsuming ==
    /\ FM1Admissible
    /\ ledger' \in {[ledger EXCEPT !.consumed = session.attempt], [ledger EXCEPT !.whole = FALSE]}
    /\ Forget

\* admit(FM2): after FM1; the evidence has to be fresh, the authority is not looked at.
AdmitFM2 ==
    /\ RadioFree
    /\ sup.st["FM1"] = "SUCCEEDED" /\ sup.st["FM2"] = "none" /\ sup.final = "none"
    /\ sup' = [sup EXCEPT !.st["FM2"] = "QUEUED"] /\ radio' = "FM2"
    /\ UNCHANGED <<controlVars, ledger, session, queue, owner, rec, timer, sites, flown>>

\* _admit_or_status: command_queue.put after admit().
Enqueue ==
    /\ session.up /\ radio \in Commands
    /\ queue' = Append(queue, radio) /\ radio' = "none"
    /\ UNCHANGED <<controlVars, ledger, session, sup, owner, rec, timer, sites, flown>>

\* admit(ABORT_AND_RECOVER) and LiveListenerRuntime.request_abort, from the ground
\* station, a signal or another thread: latched under the output gate, and applied if
\* nobody has the supervisor's lock.
RequestAbort ==
    /\ session.up /\ ~sup.latched /\ owner.pc \notin Over
    /\ sup' \in {[sup EXCEPT !.latched = TRUE], Apply([sup EXCEPT !.latched = TRUE])}
    /\ UNCHANGED <<controlVars, ledger, session, radio, queue, owner, rec, timer, sites, flown>>

\* Telemetry comes on the radio thread, evidence goes stale on any.  What is seen after
\* the authority is lost, or the owner is done, changes nothing.
Telemetry ==
    /\ session.up /\ authority # "lost" /\ owner.pc \notin Over
    /\ \/ radio = "none" /\ (SeeHeartbeat \/ SeeLanded)
       \/ LoseAuthority
    /\ UNCHANGED <<ledger, sessionVars, sites, flown>>

DeadlinePasses ==
    /\ session.up /\ timer = "runs" /\ timer' = "due"
    /\ UNCHANGED <<controlVars, ledger, session, sup, radio, queue, owner, rec, sites, flown>>

VehicleActs ==
    /\ session.up => authority # "lost" /\ owner.pc \notin Over
    /\ Vehicle
    /\ UNCHANGED <<ledger, sessionVars, sites, flown>>

-----------------------------------------------------------------------------
(* The owner: commands.                                                     *)

OwnerAt(pc) == session.up /\ owner.pc = pc
OwnerRest == <<controlVars, ledger, session, radio, queue, rec, timer, sites, flown>>

\* _recover_once, on o's way to next: it needs a pinned home.
Recovering(o, next) ==
    CASE o.started -> [o EXCEPT !.pc = IF next = "taken" THEN "turn" ELSE next]
      [] ~o.started /\ home = "none" ->
           [o EXCEPT !.started = TRUE, !.pc = IF next = "taken" THEN "turn" ELSE "raised"]
      [] OTHER -> [o EXCEPT !.started = TRUE, !.pc = "recover", !.next = next]

\* process_next, up to _interruption_result.
TakeCommand ==
    /\ OwnerAt("idle") /\ queue # <<>>
    /\ queue' = Tail(queue)
    /\ LET s == Apply(sup)
           o == [owner EXCEPT !.cmd = Head(queue)] IN
       IF s.final = "ABORTED" \/ timer = "due"
       THEN /\ sup' = [s EXCEPT !.latched = TRUE]
            /\ owner' = Recovering(o, "taken")
       ELSE sup' = s /\ owner' = [o EXCEPT !.pc = "begin"]
    /\ rec' = NewRec
    /\ UNCHANGED <<controlVars, ledger, session, radio, timer, sites, flown>>

\* begin(), the deadline, and the call of the handler.  A command that an abort took
\* from the queue is not begun; the clock or the observer of the phase may fail.
BeginCommand ==
    /\ OwnerAt("begin")
    /\ LET c == owner.cmd
           due == timer = "due" IN
       IF sup.st[c] # "QUEUED"
       THEN /\ sup' = Apply(sup) /\ owner' = Recovering(owner, "turn") /\ UNCHANGED timer
       ELSE /\ sup' = [sup EXCEPT !.st[c] = "RUNNING", !.latched = @ \/ due]
            /\ timer' = IF c = "FM1" THEN "runs" ELSE timer
            /\ \/ owner' = [owner EXCEPT !.pc = IF due THEN "finish" ELSE "fly"]
               \/ c \in Phases /\ owner' = [owner EXCEPT !.pc = "finish", !.cancel = TRUE]
    /\ UNCHANGED <<controlVars, ledger, session, radio, queue, rec, sites, flown>>

\* mutation_handler: the vehicle is looked at again, then the waypoint is stored.
Mutate ==
    /\ OwnerAt("fly") /\ owner.cmd = "SET"
    /\ \/ /\ SafeGround /\ sites' = [known |-> TRUE, frozen |-> FALSE]
          /\ owner' = [owner EXCEPT !.pc = "finish", !.result = "SUCCEEDED"]
       \/ owner' = [owner EXCEPT !.pc = "finish"] /\ UNCHANGED sites
    /\ UNCHANGED <<controlVars, ledger, session, sup, radio, queue, rec, timer, flown>>

Flying == OwnerAt("fly") /\ owner.cmd \in Phases

\* fm1 and fm2: operation after operation, each with a permission check before it.
NextOperation ==
    /\ Flying /\ act.op = "none" /\ owner.k <= Len(Plan[owner.cmd])
    /\ authority = "COMPANION" /\ ~sup.latched
    /\ act' = Doing(Plan[owner.cmd][owner.k])
    /\ owner' = [owner EXCEPT !.k = @ + 1]
    /\ UNCHANGED <<craftVars, seen, newer, authority, home, ledger, session, sup, radio, queue,
                   rec, timer, sites, flown>>

\* A step of the operation; every check on the way asks for authority and abort.
FlyOperation ==
    /\ Flying /\ authority = "COMPANION" /\ ~sup.latched
    /\ OpBegins \/ OpOrders(owner.cmd = "FM1") \/ OpConfirms
    /\ UNCHANGED <<ledger, sessionVars, sites, flown>>

\* An operation or a check raises: refused, timed out, no authority, abort, the deadline
\* of the attempt, or the clock.
FlightFails ==
    /\ Flying
    /\ \E why \in {"failed", "clock"} \cup {w \in {"due"} : timer = "due"} :
         /\ sup' = Apply([sup EXCEPT !.latched = @ \/ why = "due"])
         /\ owner' = [owner EXCEPT !.pc = "finish", !.k = 1, !.cancel = why = "clock"]
    /\ act' = NoAct /\ newer' = {} /\ acked' = "none"
    /\ UNCHANGED <<craft, told, seen, authority, home, ledger, session, radio, queue, rec, timer,
                   sites, flown>>

\* The handler returns; after FM2 the vehicle is brought home.
HandlerReturns ==
    /\ Flying /\ act.op = "none" /\ owner.k > Len(Plan[owner.cmd])
    /\ sup' = [sup EXCEPT !.latched = @ \/ timer = "due"]
    /\ LET o == [owner EXCEPT !.k = 1] IN
       owner' = CASE timer = "due" -> [o EXCEPT !.pc = "finish"]
                  [] timer # "due" /\ owner.cmd = "FM2" -> Recovering(o, "judge")
                  [] OTHER -> [o EXCEPT !.pc = "finish", !.result = "SUCCEEDED"]
    /\ rec' = NewRec
    /\ UNCHANGED <<controlVars, ledger, session, radio, queue, timer, sites, flown>>

\* finish(): the supervisor's result of a command.
Finished(s, c, result) ==
    LET r == IF s.final = "ABORTED" THEN "ABORTED" ELSE result IN
    [s EXCEPT !.st[c] = IF c = "SET" THEN "none" ELSE r,
              !.final = IF c = "SET" \/ s.final # "none" THEN @
                        ELSE IF r # "SUCCEEDED" \/ c = "FM2" THEN r ELSE @]

\* The rest of process_next: finish, the acknowledgement, recovery.
FinishCommand ==
    /\ OwnerAt("finish")
    /\ sup' = Finished(Apply(sup), owner.cmd, owner.result)
    /\ LET good == sup'.st[owner.cmd] = "SUCCEEDED"
           o == [NewOwner EXCEPT !.started = owner.started] IN
       \/ owner' = CASE owner.cancel -> Recovering(o, "raised")
                     [] ~owner.cancel /\ owner.cmd \in Phases /\ ~good -> Recovering(o, "turn")
                     [] OTHER -> [o EXCEPT !.pc = "turn"]
       \/ good /\ ~owner.cancel /\ owner' = Recovering(o, "raised")
    /\ rec' = NewRec
    /\ UNCHANGED <<controlVars, ledger, session, radio, queue, timer, sites, flown>>

\* _process_idle: an abort, the deadline, or (an attempt is under way) stale evidence.
Idle ==
    /\ OwnerAt("idle") /\ queue = <<>>
    /\ LET s == Apply(sup) IN
       /\ \/ (s.final = "ABORTED" \/ timer = "due") /\ UNCHANGED authority
          \/ s.final = "none" /\ timer = "runs"
             /\ authority' = "lost"
       /\ sup' = [s EXCEPT !.latched = TRUE] /\ owner' = Recovering(owner, "turn")
    /\ rec' = NewRec
    /\ UNCHANGED <<craftVars, seen, newer, home, act, ledger, session, radio, queue, timer, sites,
                   flown>>

\* The clock fails while the owner waits for a command of an attempt under way.
ClockFailsIdle ==
    /\ OwnerAt("idle") /\ timer # "off"
    /\ sup' = [sup EXCEPT !.latched = TRUE] /\ owner' = Recovering(owner, "raised")
    /\ rec' = NewRec
    /\ UNCHANGED <<controlVars, ledger, session, radio, queue, timer, sites, flown>>

\* run(): the loop ends with the final result, recovered unless it is a success.
Turn ==
    /\ OwnerAt("turn")
    /\ sup' = Apply(sup)
    /\ owner' = CASE sup'.final = "none" -> [owner EXCEPT !.pc = "idle", !.cmd = "none"]
                  [] sup'.final = "SUCCEEDED" -> [owner EXCEPT !.pc = "monitor"]
                  [] OTHER -> Recovering(owner, "monitor")
    /\ rec' = NewRec
    /\ UNCHANGED <<controlVars, ledger, session, radio, queue, timer, sites, flown>>

\* _monitor_if_required: silent, until the vehicle is down or someone stops it.
Monitor ==
    /\ OwnerAt("monitor") /\ owner' = [owner EXCEPT !.pc = "ended"]
    /\ UNCHANGED <<OwnerRest, sup>>
-----------------------------------------------------------------------------
(* The owner: recovery, by what a fresh look at the vehicle shows.          *)

RecoveringNow == OwnerAt("recover")
RecoveryRest == <<craft, told, seen, authority, home, ledger, session, radio, queue, timer,
                  sites, flown>>

\* _complete_recovery, and where the owner goes on; a recovery that brought FM2's vehicle
\* home is its success.
RecoveryEnds(outcome, raises) ==
    /\ sup' = [sup EXCEPT !.outcome = outcome]
    /\ owner' = CASE owner.next = "judge" ->
                       [owner EXCEPT !.pc = "finish", !.cancel = raises,
                                     !.result = IF outcome = "HOME_LANDED" THEN "SUCCEEDED"
                                                ELSE "FAILED"]
                  [] owner.next # "judge" /\ raises -> [owner EXCEPT !.pc = "raised"]
                  [] owner.next = "taken" /\ ~raises -> [owner EXCEPT !.pc = "turn"]
                  [] OTHER -> [owner EXCEPT !.pc = owner.next]
    /\ act' = NoAct /\ newer' = {} /\ acked' = "none" /\ rec' = NewRec

Stage(stage) ==
    rec' = [rec EXCEPT !.stage = stage] /\ UNCHANGED <<sup, owner, newer, acked>>

\* _recover's first look and _stage_interruption: what every stage in the air does first.
\* The landing stage does not mind a takeoff.
Interrupts ==
    \/ OnGround
    \/ Descending
    \/ seen.landed = "takeoff" /\ rec.stage # "land"
    \/ ~seen.armed /\ seen.landed # "takeoff"

Interrupted ==
    \/ /\ OnGround
       /\ rec' = [rec EXCEPT !.stage = "ground", !.again = rec.stage \in {"return", "approach"}]
       /\ UNCHANGED <<sup, owner, act, newer, acked>>
    \/ /\ ~OnGround /\ Descending /\ (seen.armed \/ rec.stage # "look")
       /\ act' = Doing("touchdown") /\ Stage("preserve")
    \/ /\ seen.landed = "takeoff" /\ ~Descending /\ rec.stage # "land"
       /\ (seen.armed \/ rec.stage # "look")
       /\ Stage("land") /\ UNCHANGED act
    \/ /\ ~OnGround /\ ~seen.armed
       /\ rec.stage = "look" \/ (seen.landed = "air" /\ ~Descending)
       /\ RecoveryEnds("UNCONFIRMED", FALSE)

\* The way home, and down.
Approach ==
    \/ rec.stage = "look" /\ Stage("return") /\ UNCHANGED act
    \/ rec.stage = "return" /\ act' \in {NoAct, Doing("climb")} /\ Stage("approach")
    \/ rec.stage = "approach" /\ act' = Doing("home") /\ Stage("goto")
    \/ rec.stage = "goto" /\ rec' = [rec EXCEPT !.stage = "land", !.returned = TRUE]
       /\ UNCHANGED <<sup, owner, act, newer, acked>>
    \/ rec.stage = "land" /\ act' = Doing("land") /\ Stage("landing")

\* _confirm_recovery_ground.
ConfirmGround ==
    \/ /\ rec.stage \in {"landing", "preserve"} /\ Stage("ground") /\ UNCHANGED act
    \/ /\ rec.stage = "ground" /\ OnGround /\ seen.armed
       /\ act' = Doing("disarm") /\ Stage("disarmed")
    \/ /\ rec.stage \in {"ground", "disarmed"} /\ OnGround /\ ~seen.armed
       /\ RecoveryEnds(IF rec.returned THEN "HOME_LANDED" ELSE "LOCAL_LANDED", FALSE)
    \/ /\ rec.stage \in {"ground", "disarmed"} /\ (~OnGround \/ (rec.stage = "disarmed" /\ seen.armed))
       /\ RecoveryEnds("UNCONFIRMED", FALSE)

\* The owner looks, between two operations, while it has the authority.
RecoverStage ==
    /\ RecoveringNow /\ act.op = "none" /\ authority = "COMPANION"
    /\ IF rec.stage \in {"look", "return", "approach", "land"} /\ Interrupts THEN Interrupted
       ELSE Approach \/ ConfirmGround
    /\ UNCHANGED RecoveryRest

RecoverOperation ==
    /\ RecoveringNow /\ authority = "COMPANION"
    /\ OpBegins \/ OpOrders(FALSE) \/ OpConfirms
    /\ UNCHANGED <<ledger, sessionVars, sites, flown>>

\* An operation or a look fails: on the way home the vehicle is landed where it is, and
\* so it is if the ground was met on that way and could not be confirmed.
RecoverFails ==
    /\ RecoveringNow /\ authority = "COMPANION"
    /\ IF rec.stage \in {"return", "approach", "goto"} \/ rec.again
       THEN /\ rec' = [NewRec EXCEPT !.stage = "land"]
            /\ act' = NoAct /\ newer' = {} /\ acked' = "none"
            /\ UNCHANGED <<sup, owner>>
       ELSE RecoveryEnds("UNCONFIRMED", FALSE)
    /\ UNCHANGED RecoveryRest

\* Someone else has the vehicle.
RecoverYields ==
    /\ RecoveringNow /\ authority # "COMPANION"
    /\ RecoveryEnds("YIELDED", FALSE)
    /\ UNCHANGED RecoveryRest

RecoveryClockFails ==
    /\ RecoveringNow
    /\ RecoveryEnds("UNCONFIRMED", TRUE)
    /\ UNCHANGED RecoveryRest

-----------------------------------------------------------------------------

Owner ==
    \/ TakeCommand \/ BeginCommand \/ Mutate \/ NextOperation \/ FlyOperation \/ FlightFails
    \/ HandlerReturns \/ FinishCommand \/ Idle \/ ClockFailsIdle \/ Turn \/ Monitor
    \/ RecoverStage \/ RecoverOperation \/ RecoverFails \/ RecoverYields \/ RecoveryClockFails

Radio == AdmitSet \/ AdmitFM1 \/ AdmitFM2 \/ Enqueue \/ RequestAbort \/ Telemetry

AttemptNext ==
    \/ Prepare \/ StartSession \/ SessionEnds \/ DieConsuming
    \/ Radio \/ Owner \/ DeadlinePasses \/ VehicleActs

-----------------------------------------------------------------------------
(* Properties.                                                              *)

\* An attempt is flown once, whatever crashes and restarts there are, and not before it
\* is consumed (consume_and_acquire); it flies the waypoints it froze, which nobody
\* changes under it (admit, mutation_handler); FM2 follows a successful FM1 and is itself
\* a success only if the vehicle came home (process_next); and the owner does not let go
\* of an attempt before its recovery has an outcome (run).
AttemptSafe ==
    /\ \A a \in DOMAIN flown :
         flown[a] <= 1 /\ (flown[a] = 1 /\ ledger.whole => a <= ledger.consumed)
    /\ sup.st["FM1"] # "none" => sites.frozen /\ sup.st["SET"] \notin Busy
    /\ sup.st["FM2"] # "none" => sup.st["FM1"] = "SUCCEEDED"
    /\ sup.st["FM2"] = "SUCCEEDED" => sup.outcome = "HOME_LANDED"
    /\ sup.st["FM1"] # "none" /\ owner.pc \in Over =>
         sup.outcome # "none" /\ (owner.pc = "raised" \/ sup.final # "none")

\* A recovery that reports the vehicle landed has it on the ground, and at home and
\* disarmed if it says so, late as its telemetry is (_confirm_recovery_ground); results
\* and outcome are not revised; and once an abort is latched, or the authority or the
\* recovery is gone, no order leaves but those of the recovery (output_transaction,
\* execute_command_output).
AttemptSteps ==
    /\ session'.up /\ sup'.outcome # sup.outcome =>
         /\ sup.outcome = "none"
         /\ sup'.outcome = "LOCAL_LANDED" => craft.landed = "ground"
         /\ sup'.outcome = "HOME_LANDED" =>
              craft.landed = "ground" /\ ~craft.armed /\ craft.at = home
    /\ session'.up => \A c \in Phases : sup.st[c] \in Results => sup'.st[c] = sup.st[c]
    /\ told' # told /\ Len(told') >= Len(told) =>
         /\ authority = "COMPANION" /\ sup.outcome = "none"
         /\ sup.latched => owner.pc = "recover"

\* What an attempt may do, in every state and in every step.
AttemptIsSafe == [][AttemptTypeOK' /\ AttemptSafe' /\ AttemptSteps]_attemptVars

\* An abort was asked for; the owner has let go of the vehicle, or its process is gone.
AbortAsked == sup.latched
AttemptEnded == ~session.up \/ owner.pc \in Over
=============================================================================
