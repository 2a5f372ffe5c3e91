---------------------------- MODULE EpochAdapter ----------------------------
(***************************************************************************)
(* GazeboAdapterNode from the moment the public epoch is armed: the native *)
(* streams of Gazebo are joined, epoch by epoch of 50 ms, into the public  *)
(* frames, ranges, payload states and ground truth.                        *)
(*                                                                         *)
(* A stream is in order; between streams nothing is ordered, and the main  *)
(* loop takes a message of any of them.  Odometry, leg contact and range   *)
(* are best effort; the topics of the payload keep the last ten messages   *)
(* only.  Leg contact is sparse: Gazebo says nothing of an epoch without   *)
(* it.  One payload stands for three, and an epoch number for a timestamp. *)
(***************************************************************************)
EXTENDS Naturals, Sequences, FiniteSets

CONSTANTS
    Flights,          \* [support, competition: BOOLEAN, frames, legs, hook, floor]:
                      \*   the world, expected_frames, and the epochs in which the legs
                      \*   touch, the payload hangs on the vehicle, and it touches
    AdapterCapacity,  \* _COMPLETED_CAPACITY, _PENDING_PAIR_CAPACITY, _UNMATCHED_FRAME_CAPACITY
    MaxLost,          \* bound: messages lost
    MaxLead           \* bound: epochs simulated before the clock of the public epoch arrives

ASSUME AdapterAssumption ==
    /\ AdapterCapacity \in Nat \ {0} /\ {MaxLost, MaxLead} \subseteq Nat
    /\ Flights \subseteq [support : BOOLEAN, competition : BOOLEAN, frames : Nat \ {0},
                          legs : SUBSET Nat, hook : SUBSET Nat, floor : SUBSET Nat]
    /\ \A f \in Flights : f.support => f.competition

VARIABLES
    flight,      \* the world and what happens in it
    native,      \* epochs that Gazebo simulated
    taken,       \* per stream: the epoch of the last message taken, or passed over
    missed,      \* the messages lost, <<stream, epoch>>
    gate,        \* OutputEpochGate: armed, latched
    wanted,      \* _public_output_requested
    output,      \* _output_active
    early,       \* _pre_zero_outputs
    truth,       \* PrivateTruthAggregator
    support,     \* VehicleSupportTracker
    parcel,      \* PayloadTracker: samples waiting, poses accepted
    truths,      \* ground truth released by LiveAdapter
    public,      \* what was published: the clock, the count of each topic, the truths
    adapterIs    \* working, faulted, complete

adapterVars == <<flight, native, taken, missed, gate, wanted, output, early, truth, support,
                 parcel, truths, public, adapterIs>>

Cameras == {"onboard", "observer"}
ParcelStreams == {"pose", "floor", "joint"}
Streams == Cameras \cup ParcelStreams \cup {"odometry", "contact", "range"}
Lossy == {"odometry", "contact", "range", "pose", "floor"}

\* What the node takes from Gazebo in this world.
Subscribed(s) == s \in ParcelStreams \cup {"range"} => flight.competition

\* A message of stream s is stamped with epoch t.
Sent(s, t) == s = "contact" => t \in flight.legs

\* The empty buffers of the aggregator and the trackers.
NoTruth == [odometry |-> 0, contacts |-> {}, lastContact |-> 0, completed |-> <<>>]
NoSupport == [legs |-> {}, lastLeg |-> 0, lastOdometry |-> 0, odometry |-> {}, parcel |-> <<>>]
NoParcel == [pose |-> {}, floor |-> {}, joint |-> {}, accepted |-> 0]

AdapterInit ==
    /\ flight \in Flights /\ native = 0
    /\ taken = [s \in Streams |-> 0] /\ missed = {}
    /\ gate = "armed" /\ wanted \in BOOLEAN /\ output = FALSE /\ early = <<>>
    /\ truth = NoTruth /\ support = NoSupport /\ parcel = NoParcel /\ truths = 0
    /\ public = [clock |-> 0, count |-> [k \in Cameras \cup {"range", "parcel"} |-> 0],
                 truths |-> <<>>]
    /\ adapterIs = "working"

MinOf(a, b) == IF a <= b THEN a ELSE b
MaxOf(a, b) == IF a >= b THEN a ELSE b

-----------------------------------------------------------------------------
(* PrivateTruthAggregator; Broken stands for the fault it raises.           *)

Broken == [completed |-> "fault"]

\* For the property: the odometry of the next epoch is here before the contact of this one.
Overtaken(t) == taken'["odometry"] > t /\ taken'["contact"] < t

\* Mutant: the next epoch counts as contact, whatever this one did.
CompleteWithNext(a, t, on) ==
    IF Len(a.completed) = AdapterCapacity THEN Broken
    ELSE [a EXCEPT !.completed = Append(@, [t |-> t, on |-> on \/ a.lastContact > t,
                                                overtaken |-> Overtaken(t)]),
                   !.contacts = {c \in @ : c.t > t}]

CompleteTruth(a, t, on) ==
    IF Len(a.completed) = AdapterCapacity THEN Broken
    ELSE [a EXCEPT !.completed = Append(@, [t |-> t, on |-> on, overtaken |-> Overtaken(t)]),
                   !.contacts = {c \in @ : c.t > t}]

Combine(a) ==
    LET t == a.odometry
        known == {c \in a.contacts : c.t = t}
    IN IF t # 0 /\ (known # {} \/ a.lastContact > t)
       THEN CompleteTruth([a EXCEPT !.odometry = 0], t, \E c \in known : c.on)
       ELSE a

\* An epoch whose contact is not known by the time of the next odometry had none.
AcceptOdometry(a, t) ==
    IF Len(a.completed) = AdapterCapacity THEN Broken
    ELSE IF a.odometry # 0 THEN CompleteTruth([a EXCEPT !.odometry = t], a.odometry, FALSE)
    ELSE Combine([a EXCEPT !.odometry = t])

AcceptContact(a, t, on) ==
    Combine([a EXCEPT !.lastContact = t, !.contacts = @ \cup {[t |-> t, on |-> on]}])

-----------------------------------------------------------------------------
(* LiveAdapter and AdapterModel: a truth goes out with its camera pair.  A  *)
(* callback works on k: the aggregator, the support tracker, the truths     *)
(* released and the outputs so far.                                         *)

NewCallback == [a |-> truth, s |-> support, n |-> truths, outs |-> <<>>]

CameraPairs(at) == MinOf(at["onboard"], at["observer"])

\* Mutant: a truth goes out without its camera pair.
ReleaseUnpaired(k, pairs) ==
    IF k.a = Broken THEN k
    ELSE IF k.a.completed = <<>> THEN k
    ELSE [k EXCEPT !.a.completed = Tail(@), !.n = @ + 1,
                   !.outs = Append(@, [kind |-> "truth", t |-> k.n + 1, of |-> Head(k.a.completed)])]

\* _release_truth: one truth at most, that of the oldest pair.
ReleaseTruth(k, pairs) ==
    IF k.a = Broken \/ pairs = k.n THEN k
    ELSE IF k.a.completed = <<>> THEN k
    ELSE IF Head(k.a.completed).t # k.n + 1 THEN [k EXCEPT !.a = Broken]
    ELSE [k EXCEPT !.a.completed = Tail(@), !.n = @ + 1,
                   !.outs = Append(@, [kind |-> "truth", t |-> k.n + 1, of |-> Head(k.a.completed)])]

LiveOdometry(k, t) ==
    IF k.a = Broken THEN k
    ELSE ReleaseTruth([k EXCEPT !.a = AcceptOdometry(k.a, t)], CameraPairs(taken))

LiveContact(k, t, on) ==
    IF k.a = Broken THEN k
    ELSE ReleaseTruth([k EXCEPT !.a = AcceptContact(k.a, t, on)], CameraPairs(taken))

\* VehicleSupportTracker._drain and _accept_vehicle_truth: an epoch waits for its payload
\* and its odometry; its legs are known, or a later message shows there is nothing to know.
Joinable(s, e) ==
    e.t \in s.odometry /\ (e.t \in s.legs \/ s.lastLeg > e.t \/ s.lastOdometry > e.t)

JoinSupport(k, s, e) == LiveOdometry(LiveContact(k, e.t, e.on \/ e.t \in s.legs), e.t)

\* What is left of the tracker when the first n states of the payload are joined.
AfterJoin(s, n) ==
    LET joined == {s.parcel[i].t : i \in 1 .. n}
    IN [s EXCEPT !.parcel = SubSeq(@, n + 1, Len(@)), !.odometry = @ \ joined,
                 !.legs = {l \in @ : \A t \in joined : l > t}]

DrainSupport(k) ==
    LET s == k.s
        n == CHOOSE m \in 0 .. Len(s.parcel) :
               /\ \A i \in 1 .. m : Joinable(s, s.parcel[i])
               /\ m < Len(s.parcel) => ~Joinable(s, s.parcel[m + 1])
        kept == AfterJoin(s, n)
        step[i \in 0 .. n] ==
          IF i = 0 THEN [k EXCEPT !.s = kept] ELSE JoinSupport(step[i - 1], s, s.parcel[i])
    IN IF Len(kept.parcel) > AdapterCapacity \/ Cardinality(kept.odometry) > AdapterCapacity
       THEN [k EXCEPT !.a = Broken] ELSE step[n]

-----------------------------------------------------------------------------
(* PayloadTracker.                                                          *)

\* The pose of an epoch needs its own joint state, and its own contact or, if that never
\* came, the one before.
ParcelReady(p, t) ==
    /\ t \in p.joint
    /\ t \in p.floor \/ (t - 1 \in p.floor /\ \E u \in p.floor : u > t)

ParcelStuck(p, t) ==
    \/ t \notin p.joint /\ \E u \in p.joint : u > t
    \/ t \in p.joint /\ {t - 1, t} \cap p.floor = {} /\ \E u \in p.floor : u > t

\* Attached and grounded.
Supports(p, t) == t \in flight.hook /\ (IF t \in p.floor THEN t ELSE t - 1) \in flight.floor

\* One round of _drain: the state of epoch t is complete.
AcceptParcel(k, p, t) ==
    LET j == IF ~flight.support \/ k.a = Broken THEN k
             ELSE DrainSupport([k EXCEPT !.s.parcel = Append(@, [t |-> t, on |-> Supports(p, t)])])
    IN [j EXCEPT !.outs = Append(@, [kind |-> "parcel", t |-> t])]

-----------------------------------------------------------------------------
(* Publication.                                                             *)

\* _publish: a frame, a payload state or a range brings the clock to its own epoch first.
PublishOne(p, o) ==
    IF o.kind = "truth"
    THEN [p EXCEPT !.truths = Append(@, [t |-> o.t, on |-> o.of.on, clock |-> p.clock,
                                         overtaken |-> o.of.overtaken])]
    ELSE [p EXCEPT !.clock = MaxOf(@, o.t), !.count[o.kind] = @ + 1]

Publish(p, outs) ==
    LET step[i \in 0 .. Len(outs)] == IF i = 0 THEN p ELSE PublishOne(step[i - 1], outs[i])
    IN step[Len(outs)]

\* _maybe_complete
EverythingOut(n) ==
    /\ \A c \in Cameras : taken'[c] = flight.frames
    /\ n = flight.frames
    /\ flight.competition => /\ taken'["range"] = flight.frames /\ parcel'.accepted = flight.frames
                             /\ \A m \in missed : m[1] # "range"

\* _emit: published, or kept for public zero.
PreZeroLimit == 2 * (IF flight.competition THEN 5 ELSE 3)

Emit(outs, n) ==
    IF outs = <<>> THEN UNCHANGED <<early, public, output, adapterIs>>
    ELSE IF output
    THEN /\ public' = Publish(public, outs) /\ UNCHANGED early
         /\ adapterIs' = IF EverythingOut(n) THEN "complete" ELSE "working"
         /\ output' = ~EverythingOut(n)
    ELSE IF Len(early) + Len(outs) > PreZeroLimit
    THEN adapterIs' = "faulted" /\ UNCHANGED <<early, public, output>>
    ELSE early' = early \o outs /\ UNCHANGED <<public, output, adapterIs>>

\* _fail: the first fault closes the output.
AdapterFail ==
    adapterIs' = "faulted" /\ output' = FALSE /\ UNCHANGED <<early, public, truth, support, truths>>

\* The end of a callback.
FinishCallback(k) ==
    IF k.a = Broken THEN AdapterFail
    ELSE truth' = k.a /\ support' = k.s /\ truths' = k.n /\ Emit(k.outs, k.n)

-----------------------------------------------------------------------------
(* The callbacks.                                                           *)

NextStamp(s) ==
    LET due == {t \in taken[s] + 1 .. native : Sent(s, t)}
    IN IF due = {} THEN 0 ELSE CHOOSE t \in due : \A u \in due : t <= u

\* The next message of a stream is taken.
TakeFrom(s) ==
    /\ adapterIs = "working" /\ (output \/ gate = "armed") /\ Subscribed(s) /\ NextStamp(s) # 0
    /\ taken' = [taken EXCEPT ![s] = NextStamp(s)]
    /\ UNCHANGED <<flight, native, missed, gate, wanted>>

\* _accept_image: a pair that is complete may release a truth.
TakeImage(c) ==
    /\ TakeFrom(c) /\ UNCHANGED parcel
    /\ IF \/ CameraPairs(taken) - truths = AdapterCapacity
          \/ taken[c] - CameraPairs(taken) = AdapterCapacity
       THEN AdapterFail
       ELSE FinishCallback(ReleaseTruth([NewCallback EXCEPT !.outs = <<[kind |-> c, t |-> taken'[c]]>>],
                                 CameraPairs(taken')))

\* _accept_odometry and _accept_contacts: to the aggregator, or to the support tracker.
TakeOdometry ==
    /\ TakeFrom("odometry") /\ UNCHANGED parcel
    /\ LET t == NextStamp("odometry") IN
       FinishCallback(IF flight.support
               THEN DrainSupport([NewCallback EXCEPT !.s.odometry = @ \cup {t}, !.s.lastOdometry = t])
               ELSE LiveOdometry(NewCallback, t))

TakeContact ==
    /\ TakeFrom("contact") /\ UNCHANGED parcel
    /\ LET t == NextStamp("contact") IN
       FinishCallback(IF flight.support
               THEN DrainSupport([NewCallback EXCEPT !.s.legs = @ \cup {t}, !.s.lastLeg = t])
               ELSE LiveContact(NewCallback, t, TRUE))

\* A gap: the message before this one was lost.
Gap(s) == <<s, NextStamp(s) - 1>> \in missed

\* _accept_payload_pose, _accept_payload_contact, _accept_payload_attachment, and the loop
\* of PayloadTracker._drain: a state that is complete goes to the support tracker and out.
TakeParcel(s) ==
    /\ TakeFrom(s)
    /\ LET p == [parcel EXCEPT ![s] = @ \cup {NextStamp(s)}]
           next == p.accepted + 1
           due == {t \in p.pose : \A u \in next .. t : ParcelReady(p, u)}
           blocked == p.pose \ due # {} /\ ParcelStuck(p, next + Cardinality(due))
           step[i \in 0 .. Cardinality(due)] ==
             IF i = 0 THEN NewCallback ELSE AcceptParcel(step[i - 1], p, p.accepted + i)
       IN IF (s # "floor" /\ Gap(s)) \/ blocked
          THEN AdapterFail /\ UNCHANGED parcel
          ELSE /\ parcel' = [p EXCEPT !.pose = @ \ due, !.joint = @ \ due,
                                      !.accepted = @ + Cardinality(due)]
               /\ FinishCallback(step[Cardinality(due)])

\* _accept_range
TakeRange ==
    /\ TakeFrom("range") /\ UNCHANGED parcel
    /\ IF Gap("range") THEN AdapterFail
       ELSE FinishCallback([NewCallback EXCEPT !.outs = <<[kind |-> "range", t |-> taken'["range"]]>>])

\* _enable_public_output: public zero, then what waited for it.
EnableOutput ==
    /\ early' = <<>>
    /\ public' = Publish([public EXCEPT !.clock = 0], early)
    /\ output' = ~EverythingOut(truths)
    /\ adapterIs' = IF EverythingOut(truths) THEN "complete" ELSE "working"

\* _accept_clock: the epoch is latched, and output begins if it was asked for; later the
\* clock is published once per epoch, unless a sample of the epoch did (_publish_clock).
TakeClock ==
    /\ adapterIs = "working" /\ wanted
    /\ UNCHANGED <<flight, native, missed, wanted, truth, support, parcel, truths>>
    /\ \/ gate = "armed" /\ gate' = "latched" /\ UNCHANGED taken /\ EnableOutput
       \/ /\ gate = "latched" /\ output /\ public.clock < native
          /\ public' = [public EXCEPT !.clock = @ + 1]
          /\ UNCHANGED <<gate, taken, early, output, adapterIs>>

\* The clock reaches the epoch before the output is asked for.
LatchUnasked ==
    /\ adapterIs = "working" /\ ~wanted /\ gate = "armed" /\ gate' = "latched"
    /\ UNCHANGED <<flight, native, taken, missed, wanted, output, early, truth, support, parcel,
                   truths, public, adapterIs>>

\* activate_output
ActivateOutput ==
    /\ adapterIs = "working" /\ ~wanted /\ wanted' = TRUE
    /\ UNCHANGED <<flight, native, taken, missed, gate, truth, support, parcel, truths>>
    /\ IF gate = "latched" THEN EnableOutput ELSE UNCHANGED <<early, public, output, adapterIs>>

\* Gazebo waits at the epoch until the output is asked for (PublicEpochRendezvous).
Simulate ==
    /\ adapterIs = "working" /\ wanted /\ native' = native + 1
    /\ native < IF gate = "armed" THEN MinOf(MaxLead, flight.frames) ELSE flight.frames
    /\ UNCHANGED <<flight, taken, missed, gate, wanted, output, early, truth, support, parcel,
                   truths, public, adapterIs>>

\* A message that never arrives.
Lose(s) ==
    /\ adapterIs = "working" /\ s \in Lossy /\ Subscribed(s) /\ NextStamp(s) # 0
    /\ Cardinality(missed) < MaxLost
    /\ missed' = missed \cup {<<s, NextStamp(s)>>}
    /\ taken' = [taken EXCEPT ![s] = NextStamp(s)]
    /\ UNCHANGED <<flight, native, gate, wanted, output, early, truth, support, parcel, truths,
                   public, adapterIs>>

AdapterCallbacks ==
    \/ \E c \in Cameras : TakeImage(c)
    \/ TakeOdometry \/ TakeContact \/ \E s \in ParcelStreams : TakeParcel(s)
    \/ TakeRange \/ TakeClock

AdapterNext ==
    AdapterCallbacks \/ LatchUnasked \/ ActivateOutput \/ Simulate \/ \E s \in Lossy : Lose(s)

-----------------------------------------------------------------------------
(* Properties.                                                              *)

AdapterTypeOK ==
    /\ flight \in Flights /\ native \in 0 .. flight.frames
    /\ taken \in [Streams -> 0 .. native] /\ Cardinality(missed) <= MaxLost
    /\ gate \in {"armed", "latched"} /\ {wanted, output} \subseteq BOOLEAN
    /\ truth.odometry \in 0 .. native /\ Len(truth.completed) <= AdapterCapacity
    /\ truths \in 0 .. CameraPairs(taken) /\ Len(early) <= PreZeroLimit
    /\ public.clock \in 0 .. native
    /\ adapterIs \in {"working", "faulted", "complete"}

Touching(t) == t \in flight.legs \/ (flight.support /\ t \in flight.hook \cap flight.floor)

\* Whatever the order of the callbacks and whatever is lost, the ground truth that goes out
\* is the truth: epoch by epoch without a gap, after the clock and both frames of its
\* epoch; contact is never invented, the support of a payload is never missed (the contact
\* topic of the payload may lose one message, which repeats the one before), and leg
\* contact is only missed for an epoch whose contact message was lost or came after the
\* odometry of the next one.  And the run is only complete with all of it published
\* (PrivateTruthAggregator, VehicleSupportTracker, LiveAdapter, _publish).
TruthIsKept ==
    /\ \A i \in DOMAIN public.truths :
         LET e == public.truths[i] IN
         /\ e.t = i /\ e.clock >= e.t /\ \A c \in Cameras : public.count[c] >= e.t
         /\ e.on => Touching(e.t) \/ <<"floor", e.t>> \in missed
         /\ ~e.on /\ flight.support /\ e.t \in flight.hook \cap flight.floor
              => <<"floor", e.t>> \in missed
         /\ ~e.on /\ e.t \in flight.legs
              => <<"contact", e.t>> \in missed \/ e.overtaken
    /\ adapterIs = "complete" =>
         /\ Len(public.truths) = flight.frames /\ early = <<>>
         /\ \A c \in Cameras : public.count[c] = flight.frames
         /\ flight.competition => public.count["range"] = flight.frames
                                  /\ public.count["parcel"] = flight.frames
=============================================================================
