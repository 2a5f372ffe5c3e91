---------------------------- MODULE PayloadPlant ----------------------------
(***************************************************************************)
(* The Gazebo side of the electromagnet: one PayloadCommandCoordinator and *)
(* one DetachableJoint system per payload, all joints on the same exclusive*)
(* parent link.                                                            *)
(*                                                                         *)
(* Three threads meet here.  OnCommand runs on the thread that receives    *)
(* remote messages, OnPhysicalState and the joint's trigger callbacks on   *)
(* the one that delivers messages of the own process in the order in which *)
(* they were published, and PreUpdate on the simulation thread.  A message *)
(* concerns one payload only, so the delivery queue is kept per payload.   *)
(* The trigger callbacks test and set atomics without a lock; the test and *)
(* the set are one step because only PreUpdate changes what is tested, and *)
(* only on a request of the one command that is active.                    *)
(***************************************************************************)
EXTENDS Integers, Sequences, FiniteSets

CONSTANTS
    Markers,   \* payload ids; the joints are updated in the order of the ids
    Ids,       \* command ids
    Held,      \* the payloads whose joint is <initially_attached>
    MaxMail,   \* bound: no state is published while so many messages wait
    None       \* std::nullopt

ASSUME PlantAssumption ==
    /\ Markers \subseteq Int
    /\ Held \subseteq Markers
    /\ \A m, n \in Held : m = n
    /\ MaxMail \in Nat
    /\ None \notin [id : Ids, action : {"attach", "detach"}]
    /\ None \notin {"attached", "detached"}

Actions == {"attach", "detach"}
States == {"attached", "detached"}
Commands == [id : Ids, action : Actions]

\* CompletedCommand under its id: what a command was answered.
Answers == [id : Ids, action : Actions, status : {"confirmed", "failed"}]

VARIABLES
    queue,            \* [Markers -> Seq(Commands)]: coordinator, queue
    active,           \* [Markers -> Commands or None]: coordinator, active
    view,             \* [Markers -> States or None]: coordinator, physicalState
    completed,        \* [Markers -> SUBSET Answers]: coordinator, completed
    isAttached,       \* [Markers -> BOOLEAN]: joint
    attachRequested,  \* [Markers -> BOOLEAN]: joint
    detachRequested,  \* [Markers -> BOOLEAN]: joint
    published,        \* BOOLEAN: the first joint states went out
    mail              \* [Markers -> Seq]: published, not yet delivered locally

coordinatorVars == <<queue, active, view, completed>>
jointVars == <<isAttached, attachRequested, detachRequested>>
plantVars == <<queue, active, view, completed, isAttached, attachRequested,
               detachRequested, published, mail>>

PlantTypeOK ==
    /\ queue \in [Markers -> Seq(Commands)]
    /\ active \in [Markers -> Commands \cup {None}]
    /\ view \in [Markers -> States \cup {None}]
    /\ completed \in [Markers -> SUBSET Answers]
    /\ isAttached \in [Markers -> BOOLEAN]
    /\ attachRequested \in [Markers -> BOOLEAN]
    /\ detachRequested \in [Markers -> BOOLEAN]
    /\ published \in BOOLEAN
    /\ mail \in [Markers -> Seq(States \cup Actions)]

PlantInit ==
    /\ queue = [m \in Markers |-> <<>>]
    /\ active = [m \in Markers |-> None]
    /\ view = [m \in Markers |-> None]
    /\ completed = [m \in Markers |-> {}]
    /\ isAttached = [m \in Markers |-> FALSE]
    /\ attachRequested = [m \in Markers |-> m \in Held]
    /\ detachRequested = [m \in Markers |-> FALSE]
    /\ published = FALSE
    /\ mail = [m \in Markers |-> <<>>]

DesiredState(action) == IF action = "attach" THEN "attached" ELSE "detached"

PhysicalState(m) == IF isAttached[m] THEN "attached" ELSE "detached"

-----------------------------------------------------------------------------
(* The coordinator. *)

\* Mutant: the failure to publish a trigger is reported as a confirmation.
AnswerConfirmed(c, state) ==
    [id |-> c.id, action |-> c.action, status |-> "confirmed"]

Answer(c, state) ==
    [id |-> c.id, action |-> c.action,
     status |-> IF DesiredState(c.action) = state THEN "confirmed" ELSE "failed"]

\* The first n commands of q are answered: with a confirmation if the payload
\* is seen in the desired state, else with the failure to publish the trigger.
\* The next one becomes active and its trigger is published behind box.
StartNext(m, q, state, box, answers) ==
    \E n \in 0..Len(q) :
      /\ n < Len(q) => DesiredState(q[n + 1].action) # state
      /\ active' = [active EXCEPT ![m] = IF n < Len(q) THEN q[n + 1] ELSE None]
      /\ queue' = [queue EXCEPT ![m] = SubSeq(q, n + 2, Len(q))]
      /\ mail' = [mail EXCEPT ![m] =
                    IF n < Len(q) THEN Append(box, q[n + 1].action) ELSE box]
      /\ completed' = [completed EXCEPT ![m] =
                         @ \cup (answers \cup {Answer(q[k], state) : k \in 1..n})]

\* Mutant: answered commands are forgotten.
KnownUnanswered(m) ==
    ({active[m]} \ {None}) \cup {queue[m][k] : k \in 1..Len(queue[m])}

\* The commands a coordinator knows: answered, active or queued.
KnownCommands(m) ==
    {[id |-> a.id, action |-> a.action] : a \in completed[m]}
      \cup ({active[m]} \ {None})
      \cup {queue[m][k] : k \in 1..Len(queue[m])}

\* OnCommand.  The electromagnet service commands a payload only once it has
\* its physical truth, so the joints have published.  An id that is known is
\* ignored, or its result or a conflict is published; no state changes then.
Command(m, c) ==
    /\ published
    /\ \A d \in KnownCommands(m) : d.id # c.id
    /\ \/ /\ active[m] # None
          /\ queue' = [queue EXCEPT ![m] = Append(@, c)]
          /\ UNCHANGED <<active, completed, mail>>
       \/ /\ active[m] = None
          /\ StartNext(m, Append(queue[m], c), view[m], mail[m], {})
    /\ UNCHANGED <<view, jointVars, published>>

-----------------------------------------------------------------------------
(* Local delivery. *)

\* OnPhysicalState.
DeliverState(m) ==
    /\ mail[m] # <<>> /\ Head(mail[m]) \in States
    /\ view' = [view EXCEPT ![m] = Head(mail[m])]
    /\ IF active[m] # None /\ DesiredState(active[m].action) = Head(mail[m])
         THEN StartNext(m, queue[m], Head(mail[m]), Tail(mail[m]),
                        {Answer(active[m], Head(mail[m]))})
         ELSE /\ mail' = [mail EXCEPT ![m] = Tail(@)]
              /\ UNCHANGED <<queue, active, completed>>
    /\ UNCHANGED <<jointVars, published>>

\* Mutant: the callbacks do not test whether the joint is attached.
TriggerUntested(m) ==
    /\ mail[m] # <<>> /\ Head(mail[m]) \in Actions
    /\ attachRequested' = [attachRequested EXCEPT ![m] = @ \/ Head(mail[m]) = "attach"]
    /\ detachRequested' = [detachRequested EXCEPT ![m] = @ \/ Head(mail[m]) = "detach"]
    /\ mail' = [mail EXCEPT ![m] = Tail(@)]
    /\ UNCHANGED <<coordinatorVars, isAttached, published>>

\* Mutant: the detach callback has the test of the attach callback.
TriggerTestSwapped(m) ==
    /\ mail[m] # <<>> /\ Head(mail[m]) \in Actions
    /\ attachRequested' = [attachRequested EXCEPT ![m] =
                             @ \/ (Head(mail[m]) = "attach" /\ ~ isAttached[m])]
    /\ detachRequested' = [detachRequested EXCEPT ![m] =
                             @ \/ (Head(mail[m]) = "detach" /\ ~ isAttached[m])]
    /\ mail' = [mail EXCEPT ![m] = Tail(@)]
    /\ UNCHANGED <<coordinatorVars, isAttached, published>>

\* The joint's callbacks for the two trigger topics.
DeliverTrigger(m) ==
    /\ mail[m] # <<>> /\ Head(mail[m]) \in Actions
    /\ attachRequested' = [attachRequested EXCEPT ![m] =
                             @ \/ (Head(mail[m]) = "attach" /\ ~ isAttached[m])]
    /\ detachRequested' = [detachRequested EXCEPT ![m] =
                             @ \/ (Head(mail[m]) = "detach" /\ isAttached[m])]
    /\ mail' = [mail EXCEPT ![m] = Tail(@)]
    /\ UNCHANGED <<coordinatorVars, isAttached, published>>

-----------------------------------------------------------------------------
(* The simulation step. *)

\* An attached joint is seen on the parent for the whole step, also when it is
\* removed in it: removal takes effect after the step.
ParentFree == \A m \in Markers : ~ isAttached[m]

\* Mutant: the parent is not tested.
AttachesShared(m) == ~ isAttached[m] /\ attachRequested[m]

\* A detached joint attaches on request; a request that finds the parent
\* occupied stays.  The joint updated first wins.
Attaches(m) ==
    /\ ParentFree /\ attachRequested[m]
    /\ \A n \in Markers : attachRequested[n] => m <= n

\* An attached joint is removed on request, in the step it attaches too.
Detaches(m) == (isAttached[m] \/ Attaches(m)) /\ detachRequested[m]

\* PreUpdate of all joints.  All of them publish their state when the
\* simulation time is a new multiple of the period (tick).
Step(tick) ==
    /\ isAttached' = [m \in Markers |->
                        (isAttached[m] \/ Attaches(m)) /\ ~ Detaches(m)]
    /\ attachRequested' = [m \in Markers |-> attachRequested[m] /\ ~ Attaches(m)]
    /\ detachRequested' = [m \in Markers |-> detachRequested[m] /\ ~ Detaches(m)]
    /\ IF tick
         THEN /\ \A m \in Markers : Len(mail[m]) < MaxMail
              /\ mail' = [m \in Markers |->
                            Append(mail[m], IF isAttached'[m] THEN "attached"
                                                              ELSE "detached")]
              /\ published' = TRUE
         ELSE UNCHANGED <<mail, published>>
    /\ UNCHANGED coordinatorVars

PlantNext ==
    \/ \E m \in Markers, c \in Commands : Command(m, c)
    \/ \E m \in Markers : DeliverState(m)
    \/ \E m \in Markers : DeliverTrigger(m)
    \/ \E tick \in BOOLEAN : Step(tick)

PlantSpec == PlantInit /\ [][PlantNext]_plantVars

\* The simulation advances, so it keeps reaching multiples of the period, and
\* the delivery thread runs.
PlantFairSpec ==
    /\ PlantSpec
    /\ WF_plantVars(Step(TRUE))
    /\ \A m \in Markers : WF_plantVars(DeliverState(m) \/ DeliverTrigger(m))

-----------------------------------------------------------------------------
(* Properties. *)

\* The hardpoint never carries two payloads, although every joint decides on
\* its own: the exclusive_parent test of DetachableJoint::PreUpdate.
Exclusive ==
    \A m, n \in Markers : isAttached[m] /\ isAttached[n] => m = n

\* An idle coordinator's view of its payload is the physical truth or missing,
\* and no request is left at the joint, so that the payload does not move
\* without a command and the shortcut of StartNextLocked, which confirms
\* without asking the joint, is sound.
IdleIsAtRest ==
    \A m \in Markers : published /\ active[m] = None =>
        /\ view[m] \in {None, PhysicalState(m)}
        /\ ~ attachRequested[m] /\ ~ detachRequested[m]

\* No command id is ever answered twice, however often it is delivered: the
\* result that OnCommand repeats is the only one.
AnsweredOnce ==
    \A m \in Markers : \A a, b \in completed[m] : a.id = b.id => a = b

\* The coordinators and joints implement one exclusive magnet that serves each
\* payload's commands in order, at most once, and confirms only what is true.
Line(m) == IF active[m] = None THEN queue[m] ELSE <<active[m]>> \o queue[m]

Magnet == INSTANCE PayloadMagnet WITH
    holding <- {m \in Markers : isAttached[m] \/ (~ published /\ attachRequested[m])},
    line <- [m \in Markers |-> Line(m)],
    answered <- completed

ImplementsMagnet == Magnet!MagnetSpec

\* An active detach command is answered: its trigger finds the joint attached,
\* the next step removes the joint and the state published then confirms it.  And a
\* free hardpoint does not stay free while some attach command is active.
CommandsAreServed ==
    /\ \A m \in Markers, c \in Commands :
         active[m] = c /\ c.action = "detach" ~> active[m] # c
    /\ (\E m \in Markers : active[m] # None /\ active[m].action = "attach")
         /\ ParentFree ~> ~ ParentFree
=============================================================================
