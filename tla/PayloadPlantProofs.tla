------------------------- MODULE PayloadPlantProofs -------------------------
(***************************************************************************)
(* Theorems about PayloadPlant, for every set of payloads and command ids  *)
(* and every bound on the delivery queues.                                 *)
(***************************************************************************)
EXTENDS PayloadPlant, SequenceTheorems, TLAPS

StatesAre(m, s) ==
    \A k \in 1..Len(mail[m]) : mail[m][k] \in States => mail[m][k] = s

TriggersAsk(m, s) ==
    \A k \in 1..Len(mail[m]) :
        mail[m][k] \in Actions => DesiredState(mail[m][k]) = s

\* No command in service: nothing under way can move the payload or show the
\* coordinator another state.
Idle(m) ==
    /\ active[m] = None
    /\ queue[m] = <<>>
    /\ view[m] \in {None, PhysicalState(m)}
    /\ ~ attachRequested[m] /\ ~ detachRequested[m]
    /\ StatesAre(m, PhysicalState(m))
    /\ TriggersAsk(m, PhysicalState(m))

\* The payload has yet to move for the active command.  Triggers left over
\* from earlier commands are ahead of the one of this command.
Waiting(m) ==
    /\ active[m] # None
    /\ DesiredState(active[m].action) # PhysicalState(m)
    /\ view[m] \in {None, PhysicalState(m)}
    /\ StatesAre(m, PhysicalState(m))
    /\ attachRequested[m] => active[m].action = "attach"
    /\ detachRequested[m] => active[m].action = "detach"
    /\ attachRequested[m] \/ detachRequested[m] =>
         TriggersAsk(m, DesiredState(active[m].action))
    /\ \A i, j \in 1..Len(mail[m]) :
         i < j /\ mail[m][i] = active[m].action /\ mail[m][j] \in Actions
           => mail[m][j] = active[m].action

\* The payload is where the active command wants it; the coordinator has yet
\* to see it.  States published before the move are ahead of those after it.
Arrived(m) ==
    /\ active[m] # None
    /\ DesiredState(active[m].action) = PhysicalState(m)
    /\ view[m] # PhysicalState(m)
    /\ ~ attachRequested[m] /\ ~ detachRequested[m]
    /\ TriggersAsk(m, PhysicalState(m))
    /\ \A i, j \in 1..Len(mail[m]) :
         i < j /\ mail[m][i] = PhysicalState(m) /\ mail[m][j] \in States
           => mail[m][j] = PhysicalState(m)

\* Before the first joint states are published there are no commands.
Starting(m) ==
    /\ active[m] = None /\ queue[m] = <<>> /\ view[m] = None
    /\ completed[m] = {} /\ mail[m] = <<>>
    /\ ~ detachRequested[m]
    /\ attachRequested[m] \/ isAttached[m] => m \in Held

Phase(m) ==
    IF published THEN Idle(m) \/ Waiting(m) \/ Arrived(m) ELSE Starting(m)

PlantInv ==
    /\ PlantTypeOK
    /\ Exclusive
    /\ \A m \in Markers : isAttached[m] => ~ attachRequested[m]
    /\ \A m \in Markers : Phase(m)

-----------------------------------------------------------------------------
(* Typing. *)

\* The loop of StartNextLocked keeps the types, given a typed queue and mail.
LEMMA StartNextTypes ==
    ASSUME PlantTypeOK, NEW m \in Markers, NEW q \in Seq(Commands),
           NEW state \in States \cup {None}, NEW box \in Seq(States \cup Actions),
           NEW answers \in SUBSET Answers,
           StartNext(m, q, state, box, answers)
    PROVE  /\ queue' \in [Markers -> Seq(Commands)]
           /\ active' \in [Markers -> Commands \cup {None}]
           /\ completed' \in [Markers -> SUBSET Answers]
           /\ mail' \in [Markers -> Seq(States \cup Actions)]
<1>1. PICK n \in 0..Len(q) :
        /\ active' = [active EXCEPT ![m] = IF n < Len(q) THEN q[n + 1] ELSE None]
        /\ queue' = [queue EXCEPT ![m] = SubSeq(q, n + 2, Len(q))]
        /\ mail' = [mail EXCEPT ![m] =
                      IF n < Len(q) THEN Append(box, q[n + 1].action) ELSE box]
        /\ completed' = [completed EXCEPT ![m] =
                           @ \cup (answers \cup {Answer(q[k], state) : k \in 1..n})]
  BY DEF StartNext
<1>2. Len(q) \in Nat /\ n \in Int /\ \A k \in 1..Len(q) : q[k] \in Commands
  OBVIOUS
<1>3. SubSeq(q, n + 2, Len(q)) \in Seq(Commands)
  <2>1. n + 2 \in Int /\ Len(q) \in Int /\ \A i \in (n + 2)..Len(q) : q[i] \in Commands
    BY <1>2
  <2>2. QED
    BY <2>1, SubSeqProperties
<1>4. queue' \in [Markers -> Seq(Commands)]
  BY <1>1, <1>3 DEF PlantTypeOK
<1>5. n < Len(q) => q[n + 1] \in Commands
  BY <1>2
<1>6. active' \in [Markers -> Commands \cup {None}]
  BY <1>1, <1>5 DEF PlantTypeOK
<1>7. n < Len(q) => Append(box, q[n + 1].action) \in Seq(States \cup Actions)
  BY <1>5 DEF Commands
<1>8. mail' \in [Markers -> Seq(States \cup Actions)]
  BY <1>1, <1>7 DEF PlantTypeOK
<1>9. {Answer(q[k], state) : k \in 1..n} \subseteq Answers
  <2>1. \A k \in 1..n : q[k] \in Commands
    BY <1>2
  <2>2. \A c \in Commands : Answer(c, state) \in Answers
    BY DEF Answer, Answers, Commands, Actions
  <2>3. QED
    BY <2>1, <2>2
<1>10. completed' \in [Markers -> SUBSET Answers]
  BY <1>1, <1>9 DEF PlantTypeOK
<1>11. QED
  BY <1>4, <1>6, <1>8, <1>10

LEMMA TypeInvariance == PlantTypeOK /\ [PlantNext]_plantVars => PlantTypeOK'
<1> SUFFICES ASSUME PlantTypeOK, [PlantNext]_plantVars PROVE PlantTypeOK'
  OBVIOUS
<1>1. ASSUME NEW m \in Markers, NEW c \in Commands, Command(m, c)
      PROVE  PlantTypeOK'
  <2>1. CASE /\ queue' = [queue EXCEPT ![m] = Append(@, c)]
             /\ UNCHANGED <<active, completed, mail, view>>
    BY <1>1, <2>1 DEF Command, PlantTypeOK, jointVars
  <2>2. CASE /\ StartNext(m, Append(queue[m], c), view[m], mail[m], {})
             /\ UNCHANGED view
    <3>1. /\ Append(queue[m], c) \in Seq(Commands)
          /\ view[m] \in States \cup {None}
          /\ mail[m] \in Seq(States \cup Actions)
          /\ {} \in SUBSET Answers
      BY DEF PlantTypeOK
    <3>2. QED
      BY <1>1, <2>2, <3>1, StartNextTypes DEF Command, PlantTypeOK, jointVars
  <2>3. QED
    BY <1>1, <2>1, <2>2 DEF Command
<1>2. ASSUME NEW m \in Markers, DeliverState(m) PROVE PlantTypeOK'
  <2>1. /\ mail[m] \in Seq(States \cup Actions)
        /\ Tail(mail[m]) \in Seq(States \cup Actions)
        /\ Head(mail[m]) \in States
    BY <1>2, HeadTailProperties DEF DeliverState, PlantTypeOK
  <2>2. view' \in [Markers -> States \cup {None}]
    BY <1>2, <2>1 DEF DeliverState, PlantTypeOK
  <2>3. CASE /\ active[m] # None
             /\ StartNext(m, queue[m], Head(mail[m]), Tail(mail[m]),
                          {Answer(active[m], Head(mail[m]))})
    <3>1. active[m] \in Commands /\ queue[m] \in Seq(Commands)
      BY <2>3 DEF PlantTypeOK
    <3>2. {Answer(active[m], Head(mail[m]))} \in SUBSET Answers
      BY <3>1 DEF Answer, Answers, Commands, Actions
    <3>3. QED
      BY <1>2, <2>1, <2>2, <2>3, <3>1, <3>2, StartNextTypes
         DEF DeliverState, PlantTypeOK, jointVars
  <2>4. CASE /\ mail' = [mail EXCEPT ![m] = Tail(@)]
             /\ UNCHANGED <<queue, active, completed>>
    BY <1>2, <2>1, <2>2, <2>4 DEF DeliverState, PlantTypeOK, jointVars
  <2>5. QED
    BY <1>2, <2>3, <2>4 DEF DeliverState
<1>3. ASSUME NEW m \in Markers, DeliverTrigger(m) PROVE PlantTypeOK'
  <2>1. Tail(mail[m]) \in Seq(States \cup Actions)
    BY <1>3, HeadTailProperties DEF DeliverTrigger, PlantTypeOK
  <2>2. QED
    BY <1>3, <2>1 DEF DeliverTrigger, PlantTypeOK, coordinatorVars
<1>4. ASSUME NEW tick \in BOOLEAN, Step(tick) PROVE PlantTypeOK'
  <2>1. CASE tick
    <3>1. \A m \in Markers :
            Append(mail[m], IF isAttached'[m] THEN "attached" ELSE "detached")
              \in Seq(States \cup Actions)
      BY DEF PlantTypeOK, States
    <3>2. mail' \in [Markers -> Seq(States \cup Actions)] /\ published' \in BOOLEAN
      BY <1>4, <2>1, <3>1 DEF Step
    <3>3. QED
      BY <1>4, <3>2 DEF Step, PlantTypeOK, coordinatorVars
  <2>2. CASE ~ tick
    BY <1>4, <2>2 DEF Step, PlantTypeOK, coordinatorVars
  <2>3. QED
    BY <2>1, <2>2
<1>5. CASE UNCHANGED plantVars
  BY <1>5 DEF plantVars, PlantTypeOK
<1>6. QED
  BY <1>1, <1>2, <1>3, <1>4, <1>5 DEF PlantNext

-----------------------------------------------------------------------------
(* The inductive invariant. *)

\* A payload none of whose state changes stays in its phase.
LEMMA Frame ==
    ASSUME NEW m \in Markers, Phase(m),
           published' = published, active'[m] = active[m], queue'[m] = queue[m],
           view'[m] = view[m], completed'[m] = completed[m], mail'[m] = mail[m],
           isAttached'[m] = isAttached[m],
           attachRequested'[m] = attachRequested[m],
           detachRequested'[m] = detachRequested[m]
    PROVE  Phase(m)'
<1>1. PhysicalState(m)' = PhysicalState(m)
  BY DEF PhysicalState
<1>2. Starting(m)' = Starting(m)
  BY DEF Starting
<1>3. Idle(m) => Idle(m)'
  BY <1>1 DEF Idle, StatesAre, TriggersAsk
<1>4. Waiting(m) => Waiting(m)'
  BY <1>1 DEF Waiting, StatesAre, TriggersAsk
<1>5. Arrived(m) => Arrived(m)'
  BY <1>1 DEF Arrived, TriggersAsk
<1>6. QED
  BY <1>2, <1>3, <1>4, <1>5 DEF Phase

\* StartNextLocked at a payload at rest, when nothing under way can move it,
\* leaves it idle, waiting for the command it started or arrived already.
LEMMA StartNextPhase ==
    ASSUME PlantTypeOK, NEW m \in Markers, NEW q \in Seq(Commands),
           NEW state \in {None, PhysicalState(m)},
           NEW box \in Seq(States \cup Actions), NEW answers,
           StartNext(m, q, state, box, answers),
           view'[m] = state, published, UNCHANGED <<jointVars, published>>,
           ~ attachRequested[m], ~ detachRequested[m],
           \A k \in 1..Len(box) :
             /\ box[k] \in States => box[k] = PhysicalState(m)
             /\ box[k] \in Actions => DesiredState(box[k]) = PhysicalState(m)
    PROVE  Phase(m)'
<1>1. PICK n \in 0..Len(q) :
        /\ n < Len(q) => DesiredState(q[n + 1].action) # state
        /\ active' = [active EXCEPT ![m] = IF n < Len(q) THEN q[n + 1] ELSE None]
        /\ queue' = [queue EXCEPT ![m] = SubSeq(q, n + 2, Len(q))]
        /\ mail' = [mail EXCEPT ![m] =
                      IF n < Len(q) THEN Append(box, q[n + 1].action) ELSE box]
  BY DEF StartNext
<1>2. PhysicalState(m)' = PhysicalState(m) /\ PhysicalState(m) \in States
  BY DEF PhysicalState, jointVars, States
<1>3. /\ active'[m] = (IF n < Len(q) THEN q[n + 1] ELSE None)
      /\ queue'[m] = SubSeq(q, n + 2, Len(q))
      /\ mail'[m] = IF n < Len(q) THEN Append(box, q[n + 1].action) ELSE box
  BY <1>1 DEF PlantTypeOK
<1>4. /\ attachRequested'[m] = FALSE /\ detachRequested'[m] = FALSE /\ published'
  BY DEF jointVars, PlantTypeOK
<1>5. CASE n = Len(q)
  <2>1. queue'[m] = <<>>
    BY <1>3, <1>5, SubSeqEmpty
  <2>2. active'[m] = None /\ mail'[m] = box
    BY <1>3, <1>5
  <2>3. Idle(m)'
    BY <1>2, <1>4, <2>1, <2>2 DEF Idle, StatesAre, TriggersAsk, DesiredState
  <2>4. QED
    BY <1>4, <2>3 DEF Phase
<1>6. CASE n < Len(q)
  <2> DEFINE c == q[n + 1]
  <2>1. c \in Commands /\ c # None
    <3>1. n + 1 \in 1..Len(q)
      BY <1>6
    <3>2. c \in Commands
      BY <3>1
    <3>3. QED
      BY <3>2, PlantAssumption DEF Commands, Actions
  <2>2. active'[m] = c /\ mail'[m] = Append(box, c.action)
    BY <1>3, <1>6
  <2>3. c.action \in Actions /\ c.action \notin States
    BY <2>1 DEF Commands, Actions, States
  <2>4. DesiredState(c.action) # state
    BY <1>1, <1>6
  <2> HIDE DEF c
  <2>5. /\ Len(mail'[m]) = Len(box) + 1
        /\ \A k \in 1..Len(box) : mail'[m][k] = box[k]
        /\ mail'[m][Len(box) + 1] = c.action
    BY <2>2
  <2>6. \A k \in 1..Len(mail'[m]) : mail'[m][k] \in States => mail'[m][k] = PhysicalState(m)
    BY <2>3, <2>5
  <2>7. \A k \in 1..Len(mail'[m]) :
          k # Len(box) + 1 /\ mail'[m][k] \in Actions
            => DesiredState(mail'[m][k]) = PhysicalState(m)
    BY <2>5
  <2>8. CASE DesiredState(c.action) # PhysicalState(m)
    <3>1. \A i, j \in 1..Len(mail'[m]) :
            i < j /\ mail'[m][i] = c.action /\ mail'[m][j] \in Actions
              => mail'[m][j] = c.action
      BY <2>3, <2>5, <2>7, <2>8
    <3>2. Waiting(m)'
      BY <1>2, <1>4, <2>1, <2>2, <2>6, <2>8, <3>1 DEF Waiting, StatesAre, DesiredState
    <3>3. QED
      BY <1>4, <3>2 DEF Phase
  <2>9. CASE DesiredState(c.action) = PhysicalState(m)
    <3>1. TriggersAsk(m, PhysicalState(m))'
      BY <1>2, <2>5, <2>7, <2>9 DEF TriggersAsk, DesiredState
    <3>2. view'[m] # PhysicalState(m)
      BY <2>4, <2>9
    <3>3. Arrived(m)'
      BY <1>2, <1>4, <2>1, <2>2, <2>6, <2>9, <3>1, <3>2 DEF Arrived, DesiredState
    <3>4. QED
      BY <1>4, <3>3 DEF Phase
  <2>10. QED
    BY <2>8, <2>9
<1>7. QED
  BY <1>5, <1>6

LEMMA CommandPhase ==
    ASSUME PlantInv, NEW m \in Markers, NEW c \in Commands, Command(m, c),
           NEW n \in Markers
    PROVE  Phase(n)'
<1>1. Phase(n) /\ Phase(m) /\ published /\ UNCHANGED <<jointVars, published>> /\ PlantTypeOK
  BY DEF PlantInv, Command
<1>2. CASE n # m
  <2>1. /\ active'[n] = active[n] /\ queue'[n] = queue[n] /\ view'[n] = view[n]
        /\ completed'[n] = completed[n] /\ mail'[n] = mail[n]
    BY <1>2 DEF Command, StartNext, PlantInv, PlantTypeOK
  <2>2. QED
    BY <1>1, <2>1, Frame DEF jointVars
<1>3. CASE /\ n = m /\ active[m] # None
           /\ queue' = [queue EXCEPT ![m] = Append(@, c)]
           /\ UNCHANGED <<active, completed, mail, view>>
  <2>1. PhysicalState(m)' = PhysicalState(m)
    BY <1>1 DEF PhysicalState, jointVars
  <2>2. Waiting(m) => Waiting(m)'
    BY <1>1, <1>3, <2>1 DEF Waiting, StatesAre, TriggersAsk, jointVars
  <2>3. Arrived(m) => Arrived(m)'
    BY <1>1, <1>3, <2>1 DEF Arrived, TriggersAsk, jointVars
  <2>4. QED
    BY <1>1, <1>3, <2>2, <2>3 DEF Phase, Idle
<1>4. CASE /\ n = m /\ active[m] = None
           /\ StartNext(m, Append(queue[m], c), view[m], mail[m], {})
           /\ UNCHANGED view
  <2>1. Idle(m)
    BY <1>1, <1>4 DEF Phase, Waiting, Arrived
  <2>2. /\ Append(queue[m], c) \in Seq(Commands)
        /\ mail[m] \in Seq(States \cup Actions)
    BY <1>1 DEF PlantTypeOK
  <2>3. /\ view[m] \in {None, PhysicalState(m)}
        /\ ~ attachRequested[m] /\ ~ detachRequested[m]
        /\ \A k \in 1..Len(mail[m]) :
             /\ mail[m][k] \in States => mail[m][k] = PhysicalState(m)
             /\ mail[m][k] \in Actions => DesiredState(mail[m][k]) = PhysicalState(m)
    BY <2>1 DEF Idle, StatesAre, TriggersAsk
  <2>4. view'[m] = view[m]
    BY <1>4
  <2> HIDE DEF Idle, StatesAre, TriggersAsk
  <2>5. Phase(m)'
    BY <1>1, <1>4, <2>2, <2>3, <2>4, StartNextPhase
  <2>6. QED
    BY <1>4, <2>5
<1>5. QED
  BY <1>2, <1>3, <1>4 DEF Command

LEMMA DeliverStatePhase ==
    ASSUME PlantInv, NEW m \in Markers, DeliverState(m), NEW n \in Markers
    PROVE  Phase(n)'
<1>1. Phase(n) /\ Phase(m) /\ UNCHANGED <<jointVars, published>> /\ PlantTypeOK
  BY DEF PlantInv, DeliverState
<1>2. CASE n # m
  <2>1. /\ active'[n] = active[n] /\ queue'[n] = queue[n] /\ view'[n] = view[n]
        /\ completed'[n] = completed[n] /\ mail'[n] = mail[n]
    BY <1>2 DEF DeliverState, StartNext, PlantInv, PlantTypeOK
  <2>2. QED
    BY <1>1, <2>1, Frame DEF jointVars
<1>3. CASE n = m
  <2> DEFINE box == Tail(mail[m])
             state == Head(mail[m])
  <2>1. /\ mail[m] \in Seq(States \cup Actions) /\ mail[m] # <<>>
        /\ state \in States /\ state \notin Actions
    BY <1>1 DEF DeliverState, PlantTypeOK, States, Actions
  <2>2. /\ box \in Seq(States \cup Actions)
        /\ Len(mail[m]) \in Nat \ {0}
        /\ Len(box) = Len(mail[m]) - 1
        /\ \A k \in 1..Len(box) : box[k] = mail[m][k + 1]
        /\ state = mail[m][1]
    BY <2>1, HeadTailProperties
  <2>3. published
    BY <1>1, <2>1 DEF Phase, Starting
  <2>4. PhysicalState(m)' = PhysicalState(m) /\ PhysicalState(m) \in States
    BY <1>1 DEF PhysicalState, jointVars, States
  <2>5. view'[m] = state
    BY <1>1 DEF DeliverState, PlantTypeOK
  <2>6. CASE /\ mail' = [mail EXCEPT ![m] = Tail(@)]
             /\ UNCHANGED <<queue, active, completed>>
             /\ ~ (active[m] # None /\ DesiredState(active[m].action) = state)
    <3>1. mail'[m] = box
      BY <1>1, <2>6 DEF PlantTypeOK
    <3> HIDE DEF box, state
    <3>2. Idle(m) => Idle(m)'
      <4> SUFFICES ASSUME Idle(m) PROVE Idle(m)'
        OBVIOUS
      <4>1. state = PhysicalState(m)
        BY <2>1, <2>2 DEF Idle, StatesAre
      <4>2. StatesAre(m, PhysicalState(m))'
        BY <2>2, <2>4, <3>1 DEF Idle, StatesAre
      <4>3. TriggersAsk(m, PhysicalState(m))'
        <5>1. \A k \in 1..Len(box) :
                box[k] \in Actions => DesiredState(box[k]) = PhysicalState(m)
          BY <2>2 DEF Idle, TriggersAsk
        <5>2. QED
          BY <2>4, <3>1, <5>1 DEF TriggersAsk, DesiredState
      <4>4. QED
        BY <1>1, <2>4, <2>5, <2>6, <4>1, <4>2, <4>3 DEF Idle, jointVars
    <3>3. Waiting(m) => Waiting(m)'
      <4> SUFFICES ASSUME Waiting(m) PROVE Waiting(m)'
        OBVIOUS
      <4>1. state = PhysicalState(m)
        BY <2>1, <2>2 DEF Waiting, StatesAre
      <4>2. StatesAre(m, PhysicalState(m))'
        BY <2>2, <2>4, <3>1 DEF Waiting, StatesAre
      <4>3. attachRequested[m] \/ detachRequested[m] =>
              TriggersAsk(m, DesiredState(active[m].action))'
        <5>1. attachRequested[m] \/ detachRequested[m] =>
                \A k \in 1..Len(box) : box[k] \in Actions =>
                  DesiredState(box[k]) = DesiredState(active[m].action)
          BY <2>2 DEF Waiting, TriggersAsk
        <5>2. QED
          BY <2>6, <3>1, <5>1 DEF TriggersAsk, DesiredState
      <4>4. \A i, j \in 1..Len(box) :
              i < j /\ box[i] = active[m].action /\ box[j] \in Actions
                => box[j] = active[m].action
        <5> SUFFICES ASSUME NEW i \in 1..Len(box), NEW j \in 1..Len(box), i < j,
                            box[i] = active[m].action, box[j] \in Actions
                     PROVE  box[j] = active[m].action
          OBVIOUS
        <5>1. i + 1 \in 1..Len(mail[m]) /\ j + 1 \in 1..Len(mail[m]) /\ i + 1 < j + 1
          BY <2>2
        <5>2. QED
          BY <2>2, <5>1 DEF Waiting
      <4>5. QED
        <5>1. (attachRequested[m] \/ detachRequested[m] =>
                 TriggersAsk(m, DesiredState(active[m].action)))'
          BY <1>1, <4>3 DEF jointVars
        <5>2. /\ active'[m] = active[m] /\ active[m] # None
              /\ (DesiredState(active[m].action) # PhysicalState(m))'
          BY <2>4, <2>6 DEF Waiting, DesiredState
        <5>3. /\ attachRequested'[m] => active'[m].action = "attach"
              /\ detachRequested'[m] => active'[m].action = "detach"
          BY <1>1, <5>2 DEF Waiting, jointVars
        <5>4. QED
          BY <2>4, <2>5, <3>1, <4>1, <4>2, <4>4, <5>1, <5>2, <5>3 DEF Waiting
    <3>4. Arrived(m) => Arrived(m)'
      <4> SUFFICES ASSUME Arrived(m) PROVE Arrived(m)'
        OBVIOUS
      <4>1. state # PhysicalState(m)
        BY <2>6 DEF Arrived
      <4>2. TriggersAsk(m, PhysicalState(m))'
        BY <2>2, <2>4, <3>1 DEF Arrived, TriggersAsk, DesiredState
      <4>3. \A i, j \in 1..Len(box) :
              i < j /\ box[i] = PhysicalState(m) /\ box[j] \in States
                => box[j] = PhysicalState(m)
        <5> SUFFICES ASSUME NEW i \in 1..Len(box), NEW j \in 1..Len(box), i < j,
                            box[i] = PhysicalState(m), box[j] \in States
                     PROVE  box[j] = PhysicalState(m)
          OBVIOUS
        <5>1. i + 1 \in 1..Len(mail[m]) /\ j + 1 \in 1..Len(mail[m]) /\ i + 1 < j + 1
          BY <2>2
        <5>2. QED
          BY <2>2, <5>1 DEF Arrived
      <4>4. QED
        <5>1. /\ active'[m] = active[m] /\ active[m] # None
              /\ (DesiredState(active[m].action) = PhysicalState(m))'
          BY <2>4, <2>6 DEF Arrived, DesiredState
        <5>2. view'[m] # PhysicalState(m)'
          BY <2>4, <2>5, <4>1
        <5>3. ~ attachRequested'[m] /\ ~ detachRequested'[m]
          BY <1>1 DEF Arrived, jointVars
        <5>4. \A i, j \in 1..Len(mail'[m]) :
                i < j /\ mail'[m][i] = PhysicalState(m)' /\ mail'[m][j] \in States
                  => mail'[m][j] = PhysicalState(m)'
          BY <2>4, <3>1, <4>3
        <5>5. QED
          BY <4>2, <5>1, <5>2, <5>3, <5>4 DEF Arrived
    <3>5. QED
      BY <1>1, <1>3, <2>3, <3>2, <3>3, <3>4 DEF Phase
  <2>7. CASE /\ active[m] # None /\ DesiredState(active[m].action) = state
             /\ StartNext(m, queue[m], state, box, {Answer(active[m], state)})
    <3> HIDE DEF box, state
    <3>1. ~ Waiting(m)
      <4> SUFFICES ASSUME Waiting(m) PROVE FALSE
        OBVIOUS
      <4>1. state = PhysicalState(m)
        BY <2>1, <2>2 DEF Waiting, StatesAre
      <4>2. QED
        BY <2>7, <4>1 DEF Waiting
    <3>2. Arrived(m)
      BY <1>1, <2>3, <2>7, <3>1 DEF Phase, Idle
    <3>3. state = PhysicalState(m)
      BY <2>7, <3>2 DEF Arrived
    <3>4. \A k \in 1..Len(box) :
            /\ box[k] \in States => box[k] = PhysicalState(m)
            /\ box[k] \in Actions => DesiredState(box[k]) = PhysicalState(m)
      <4> SUFFICES ASSUME NEW k \in 1..Len(box)
                   PROVE  /\ box[k] \in States => box[k] = PhysicalState(m)
                          /\ box[k] \in Actions => DesiredState(box[k]) = PhysicalState(m)
        OBVIOUS
      <4>1. 1 \in 1..Len(mail[m]) /\ k + 1 \in 1..Len(mail[m]) /\ 1 < k + 1
        BY <2>2
      <4>2. box[k] = mail[m][k + 1] /\ mail[m][1] = PhysicalState(m)
        BY <2>2, <3>3
      <4>3. QED
        BY <3>2, <4>1, <4>2 DEF Arrived, TriggersAsk
    <3>5. /\ queue[m] \in Seq(Commands) /\ state \in {None, PhysicalState(m)}
          /\ ~ attachRequested[m] /\ ~ detachRequested[m]
      BY <1>1, <3>2, <3>3 DEF PlantTypeOK, Arrived
    <3>6. Phase(m)'
      BY <1>1, <2>2, <2>3, <2>5, <2>7, <3>4, <3>5, StartNextPhase
    <3>7. QED
      BY <1>3, <3>6
  <2>8. QED
    BY <2>6, <2>7 DEF DeliverState
<1>4. QED
  BY <1>2, <1>3

LEMMA DeliverTriggerPhase ==
    ASSUME PlantInv, NEW m \in Markers, DeliverTrigger(m), NEW n \in Markers
    PROVE  Phase(n)'
<1>1. /\ Phase(n) /\ Phase(m) /\ PlantTypeOK
      /\ UNCHANGED <<coordinatorVars, isAttached, published>>
  BY DEF PlantInv, DeliverTrigger
<1>2. CASE n # m
  <2>1. /\ mail'[n] = mail[n] /\ attachRequested'[n] = attachRequested[n]
        /\ detachRequested'[n] = detachRequested[n]
    BY <1>2 DEF DeliverTrigger, PlantInv, PlantTypeOK
  <2>2. QED
    BY <1>1, <2>1, Frame DEF coordinatorVars
<1>3. CASE n = m
  <2> DEFINE box == Tail(mail[m])
             trigger == Head(mail[m])
  <2>1. /\ mail[m] \in Seq(States \cup Actions) /\ mail[m] # <<>>
        /\ trigger \in Actions /\ trigger \notin States
    BY <1>1 DEF DeliverTrigger, PlantTypeOK, States, Actions
  <2>2. /\ box \in Seq(States \cup Actions)
        /\ Len(mail[m]) \in Nat \ {0}
        /\ Len(box) = Len(mail[m]) - 1
        /\ \A k \in 1..Len(box) : box[k] = mail[m][k + 1]
        /\ trigger = mail[m][1]
    BY <2>1, HeadTailProperties
  <2>3. published
    BY <1>1, <2>1 DEF Phase, Starting
  <2>4. PhysicalState(m)' = PhysicalState(m) /\ PhysicalState(m) \in States
    BY <1>1 DEF PhysicalState, States
  <2>5. mail'[m] = box
    BY <1>1 DEF DeliverTrigger, PlantTypeOK
  <2>6. /\ attachRequested'[m] = (attachRequested[m] \/ (trigger = "attach" /\ ~ isAttached[m]))
        /\ detachRequested'[m] = (detachRequested[m] \/ (trigger = "detach" /\ isAttached[m]))
    BY <1>1 DEF DeliverTrigger, PlantTypeOK
  <2>7. DesiredState(trigger) = PhysicalState(m) =>
          attachRequested'[m] = attachRequested[m] /\ detachRequested'[m] = detachRequested[m]
    BY <1>1, <2>1, <2>6 DEF DesiredState, PhysicalState, Actions, PlantTypeOK
  <2> HIDE DEF box, trigger
  <2>8. ASSUME Idle(m) PROVE Idle(m)'
    <3>1. DesiredState(trigger) = PhysicalState(m)
      BY <2>1, <2>2, <2>8 DEF Idle, TriggersAsk
    <3>2. StatesAre(m, PhysicalState(m))'
      BY <2>2, <2>4, <2>5, <2>8 DEF Idle, StatesAre
    <3>3. TriggersAsk(m, PhysicalState(m))'
      <4>1. \A k \in 1..Len(box) :
              box[k] \in Actions => DesiredState(box[k]) = PhysicalState(m)
        BY <2>2, <2>8 DEF Idle, TriggersAsk
      <4>2. QED
        BY <2>4, <2>5, <4>1 DEF TriggersAsk, DesiredState
    <3>4. QED
      BY <1>1, <2>4, <2>7, <2>8, <3>1, <3>2, <3>3 DEF Idle, coordinatorVars
  <2>9. ASSUME Arrived(m) PROVE Arrived(m)'
    <3>1. DesiredState(trigger) = PhysicalState(m)
      BY <2>1, <2>2, <2>9 DEF Arrived, TriggersAsk
    <3>2. TriggersAsk(m, PhysicalState(m))'
      <4>1. \A k \in 1..Len(box) :
              box[k] \in Actions => DesiredState(box[k]) = PhysicalState(m)
        BY <2>2, <2>9 DEF Arrived, TriggersAsk
      <4>2. QED
        BY <2>4, <2>5, <4>1 DEF TriggersAsk, DesiredState
    <3>3. \A i, j \in 1..Len(box) :
            i < j /\ box[i] = PhysicalState(m) /\ box[j] \in States
              => box[j] = PhysicalState(m)
      <4> SUFFICES ASSUME NEW i \in 1..Len(box), NEW j \in 1..Len(box), i < j,
                          box[i] = PhysicalState(m), box[j] \in States
                   PROVE  box[j] = PhysicalState(m)
        OBVIOUS
      <4>1. i + 1 \in 1..Len(mail[m]) /\ j + 1 \in 1..Len(mail[m]) /\ i + 1 < j + 1
        BY <2>2
      <4>2. QED
        BY <2>2, <2>9, <4>1 DEF Arrived
    <3>4. QED
      BY <1>1, <2>4, <2>5, <2>7, <2>9, <3>1, <3>2, <3>3
         DEF Arrived, coordinatorVars, DesiredState
  <2>10. ASSUME Waiting(m) PROVE Waiting(m)'
    <3> DEFINE action == active[m].action
    <3>1. /\ active'[m] = active[m] /\ active[m] # None /\ action \in Actions
          /\ view'[m] = view[m]
      BY <1>1, <2>10 DEF Waiting, coordinatorVars, PlantTypeOK, Commands
    <3>2. StatesAre(m, PhysicalState(m))'
      BY <2>2, <2>4, <2>5, <2>10 DEF Waiting, StatesAre
    <3>3. \A i, j \in 1..Len(box) :
            i < j /\ box[i] = action /\ box[j] \in Actions => box[j] = action
      <4> SUFFICES ASSUME NEW i \in 1..Len(box), NEW j \in 1..Len(box), i < j,
                          box[i] = action, box[j] \in Actions
                   PROVE  box[j] = action
        OBVIOUS
      <4>1. i + 1 \in 1..Len(mail[m]) /\ j + 1 \in 1..Len(mail[m]) /\ i + 1 < j + 1
        BY <2>2
      <4>2. QED
        BY <2>2, <2>10, <4>1 DEF Waiting
    <3>4. /\ attachRequested'[m] => action = "attach"
          /\ detachRequested'[m] => action = "detach"
      BY <2>1, <2>6, <2>10, <3>1 DEF Waiting, DesiredState, PhysicalState, Actions
    <3>5. attachRequested'[m] \/ detachRequested'[m] =>
            \A k \in 1..Len(box) : box[k] \in Actions => DesiredState(box[k]) = DesiredState(action)
      <4>1. CASE attachRequested[m] \/ detachRequested[m]
        BY <2>2, <2>10, <4>1 DEF Waiting, TriggersAsk
      <4>2. CASE trigger = action
        <5> SUFFICES ASSUME NEW k \in 1..Len(box), box[k] \in Actions PROVE box[k] = action
          OBVIOUS
        <5>1. 1 \in 1..Len(mail[m]) /\ k + 1 \in 1..Len(mail[m]) /\ 1 < k + 1
          BY <2>2
        <5>2. QED
          BY <2>2, <2>10, <4>2, <5>1 DEF Waiting
      <4>3. CASE trigger # action /\ ~ attachRequested[m] /\ ~ detachRequested[m]
        BY <2>1, <2>7, <2>10, <3>1, <4>3 DEF Waiting, DesiredState, PhysicalState, Actions
      <4>4. QED
        BY <4>1, <4>2, <4>3
    <3>6. (attachRequested[m] \/ detachRequested[m] =>
             TriggersAsk(m, DesiredState(active[m].action)))'
      BY <2>5, <3>1, <3>5 DEF TriggersAsk, DesiredState
    <3>7. (DesiredState(active[m].action) # PhysicalState(m))'
      BY <2>4, <2>10, <3>1 DEF Waiting, DesiredState
    <3>8. QED
      BY <2>4, <2>5, <2>10, <3>1, <3>2, <3>3, <3>4, <3>6, <3>7 DEF Waiting
  <2>11. QED
    BY <1>1, <1>3, <2>3, <2>8, <2>9, <2>10 DEF Phase
<1>4. QED
  BY <1>2, <1>3

LEMMA StepPhase ==
    ASSUME PlantInv, NEW tick \in BOOLEAN, Step(tick), NEW m \in Markers
    PROVE  Phase(m)'
<1> DEFINE moves == Attaches(m) \/ Detaches(m)
<1>1. Phase(m) /\ PlantTypeOK /\ UNCHANGED coordinatorVars
  BY DEF PlantInv, Step
<1>2. /\ isAttached'[m] = ((isAttached[m] \/ Attaches(m)) /\ ~ Detaches(m))
      /\ attachRequested'[m] = (attachRequested[m] /\ ~ Attaches(m))
      /\ detachRequested'[m] = (detachRequested[m] /\ ~ Detaches(m))
  BY DEF Step
<1>3. /\ PhysicalState(m) \in States /\ PhysicalState(m)' \in States
      /\ States \cap Actions = {}
      /\ PhysicalState(m)' = IF isAttached'[m] THEN "attached" ELSE "detached"
  BY DEF PhysicalState, States, Actions
<1>4. \/ tick /\ published' /\ mail'[m] = Append(mail[m], PhysicalState(m)')
      \/ ~ tick /\ published' = published /\ mail'[m] = mail[m]
  BY <1>3 DEF Step
<1>5. /\ mail[m] \in Seq(States \cup Actions)
      /\ Len(mail[m]) \in Nat
      /\ \A k \in 1..Len(mail'[m]) :
           \/ k \in 1..Len(mail[m]) /\ mail'[m][k] = mail[m][k]
           \/ k = Len(mail[m]) + 1 /\ mail'[m][k] = PhysicalState(m)'
  <2>1. mail[m] \in Seq(States \cup Actions) /\ Len(mail[m]) \in Nat
    BY <1>1 DEF PlantTypeOK
  <2>2. CASE mail'[m] = mail[m]
    BY <2>1, <2>2
  <2>3. CASE mail'[m] = Append(mail[m], PhysicalState(m)')
    BY <2>1, <2>3
  <2>4. QED
    BY <1>4, <2>1, <2>2, <2>3
<1>6. /\ active'[m] = active[m] /\ queue'[m] = queue[m] /\ view'[m] = view[m]
      /\ completed'[m] = completed[m]
  BY <1>1 DEF coordinatorVars
<1>7. ASSUME ~ published PROVE Phase(m)'
  <2>1. Starting(m)
    BY <1>1, <1>7 DEF Phase
  <2>2. ASSUME attachRequested[m] PROVE Attaches(m)
    <3>1. m \in Held
      BY <2>1, <2>2 DEF Starting
    <3>2. \A n \in Markers : (attachRequested[n] \/ isAttached[n]) => n = m
      BY <1>7, <3>1, PlantAssumption DEF PlantInv, Phase, Starting
    <3>3. ~ isAttached[m]
      BY <2>2 DEF PlantInv
    <3>4. QED
      BY <2>2, <3>2, <3>3, PlantAssumption DEF Attaches, ParentFree
  <2>3. ~ detachRequested[m] /\ ~ Detaches(m)
    BY <2>1 DEF Starting, Detaches
  <2>4. CASE ~ tick
    <3>1. Starting(m)'
      BY <1>2, <1>4, <1>6, <2>1, <2>3, <2>4 DEF Starting, Attaches
    <3>2. QED
      BY <1>4, <1>7, <2>4, <3>1 DEF Phase
  <2>5. CASE tick
    <3>1. ~ attachRequested'[m] /\ ~ detachRequested'[m]
      BY <1>2, <2>2, <2>3
    <3>2. mail[m] = <<>> /\ Len(mail[m]) = 0
      BY <2>1 DEF Starting
    <3>3. \A k \in 1..Len(mail'[m]) : mail'[m][k] = PhysicalState(m)'
      BY <1>5, <3>2
    <3>4. StatesAre(m, PhysicalState(m))' /\ TriggersAsk(m, PhysicalState(m))'
      BY <1>3, <3>3 DEF StatesAre, TriggersAsk
    <3>5. Idle(m)'
      BY <1>6, <2>1, <3>1, <3>4 DEF Idle, Starting
    <3>6. QED
      BY <1>4, <2>5, <3>5 DEF Phase
  <2>6. QED
    BY <2>4, <2>5
<1>8. ASSUME published, Idle(m) \/ Arrived(m) PROVE Phase(m)'
  <2>1. /\ ~ attachRequested'[m] /\ ~ detachRequested'[m] /\ isAttached'[m] = isAttached[m]
    BY <1>1, <1>2, <1>8 DEF Idle, Arrived, Attaches, Detaches, PlantTypeOK
  <2>2. PhysicalState(m)' = PhysicalState(m)
    BY <2>1 DEF PhysicalState
  <2>3. published'
    BY <1>4, <1>8
  <2>4. TriggersAsk(m, PhysicalState(m))'
    <3>1. \A k \in 1..Len(mail'[m]) :
            mail'[m][k] \in Actions => DesiredState(mail'[m][k]) = PhysicalState(m)
      BY <1>3, <1>5, <1>8, <2>2 DEF Idle, Arrived, TriggersAsk
    <3>2. QED
      BY <2>2, <3>1 DEF TriggersAsk, DesiredState
  <2>5. CASE Idle(m)
    <3>1. StatesAre(m, PhysicalState(m))'
      BY <1>3, <1>5, <2>2, <2>5 DEF Idle, StatesAre
    <3>2. Idle(m)'
      BY <1>6, <2>1, <2>2, <2>4, <2>5, <3>1 DEF Idle
    <3>3. QED
      BY <2>3, <3>2 DEF Phase
  <2>6. CASE Arrived(m)
    <3>1. \A i, j \in 1..Len(mail'[m]) :
            i < j /\ mail'[m][i] = PhysicalState(m) /\ mail'[m][j] \in States
              => mail'[m][j] = PhysicalState(m)
      BY <1>5, <2>2, <2>6 DEF Arrived
    <3>2. Arrived(m)'
      BY <1>6, <2>1, <2>2, <2>4, <2>6, <3>1 DEF Arrived, DesiredState
    <3>3. QED
      BY <2>3, <3>2 DEF Phase
  <2>7. QED
    BY <1>8, <2>5, <2>6
<1>9. ASSUME published, Waiting(m) PROVE Phase(m)'
  <2> DEFINE action == active[m].action
  <2>1. /\ action \in Actions /\ active'[m].action = action /\ active[m] # None
        /\ DesiredState(action) # PhysicalState(m)
        /\ isAttached[m] \in BOOLEAN /\ published'
    BY <1>1, <1>4, <1>6, <1>9 DEF Waiting, PlantTypeOK, Commands
  <2>2. /\ attachRequested[m] => action = "attach" /\ ~ isAttached[m]
        /\ detachRequested[m] => action = "detach" /\ isAttached[m]
    BY <1>9, <2>1 DEF Waiting, DesiredState, PhysicalState
  <2>3. CASE moves
    <3>1. /\ ~ attachRequested'[m] /\ ~ detachRequested'[m]
          /\ attachRequested[m] \/ detachRequested[m]
          /\ isAttached'[m] = ~ isAttached[m]
      BY <1>2, <2>1, <2>2, <2>3 DEF Attaches, Detaches
    <3>2. PhysicalState(m)' = DesiredState(action) /\ PhysicalState(m)' # PhysicalState(m)
      BY <2>1, <2>2, <3>1 DEF PhysicalState, DesiredState
    <3>3. TriggersAsk(m, PhysicalState(m))'
      <4>1. \A k \in 1..Len(mail'[m]) :
              mail'[m][k] \in Actions => DesiredState(mail'[m][k]) = DesiredState(action)
        BY <1>3, <1>5, <1>9, <3>1 DEF Waiting, TriggersAsk
      <4>2. QED
        BY <3>2, <4>1 DEF TriggersAsk, DesiredState
    <3>4. \A i, j \in 1..Len(mail'[m]) :
            i < j /\ mail'[m][i] = PhysicalState(m)' /\ mail'[m][j] \in States
              => mail'[m][j] = PhysicalState(m)'
      BY <1>3, <1>5, <1>9, <3>2 DEF Waiting, StatesAre
    <3>5. view'[m] # PhysicalState(m)'
      <4>1. view[m] \in {None, PhysicalState(m)}
        BY <1>9 DEF Waiting
      <4>2. PhysicalState(m)' # None
        BY <1>3, PlantAssumption DEF States
      <4>3. QED
        BY <1>6, <3>2, <4>1, <4>2
    <3>6. (DesiredState(active[m].action) = PhysicalState(m))'
      BY <2>1, <3>2 DEF DesiredState
    <3>7. Arrived(m)'
      BY <1>6, <2>1, <3>1, <3>3, <3>4, <3>5, <3>6 DEF Arrived
    <3>8. QED
      BY <2>1, <3>7 DEF Phase
  <2>4. CASE ~ moves
    <3>1. /\ attachRequested'[m] = attachRequested[m]
          /\ detachRequested'[m] = detachRequested[m] /\ isAttached'[m] = isAttached[m]
      BY <1>1, <1>2, <2>4 DEF PlantTypeOK
    <3>2. PhysicalState(m)' = PhysicalState(m)
      BY <3>1 DEF PhysicalState
    <3>3. StatesAre(m, PhysicalState(m))'
      BY <1>3, <1>5, <1>9, <3>2 DEF Waiting, StatesAre
    <3>4. attachRequested'[m] \/ detachRequested'[m] =>
            \A k \in 1..Len(mail'[m]) :
              mail'[m][k] \in Actions => DesiredState(mail'[m][k]) = DesiredState(action)
      BY <1>3, <1>5, <1>9, <3>1 DEF Waiting, TriggersAsk
    <3>5. (attachRequested[m] \/ detachRequested[m] =>
             TriggersAsk(m, DesiredState(active[m].action)))'
      BY <2>1, <3>4 DEF TriggersAsk, DesiredState
    <3>6. \A i, j \in 1..Len(mail'[m]) :
            i < j /\ mail'[m][i] = action /\ mail'[m][j] \in Actions
              => mail'[m][j] = action
      BY <1>3, <1>5, <1>9 DEF Waiting
    <3>7. (DesiredState(active[m].action) # PhysicalState(m))'
      BY <2>1, <3>2 DEF DesiredState
    <3>8. Waiting(m)'
      BY <1>6, <1>9, <2>1, <3>1, <3>2, <3>3, <3>5, <3>6, <3>7 DEF Waiting
    <3>9. QED
      BY <2>1, <3>8 DEF Phase
  <2>5. QED
    BY <2>3, <2>4
<1>10. QED
  BY <1>1, <1>7, <1>8, <1>9 DEF Phase

LEMMA StepExclusive ==
    ASSUME PlantInv, NEW tick \in BOOLEAN, Step(tick)
    PROVE  Exclusive'
<1> SUFFICES ASSUME NEW m \in Markers, NEW n \in Markers,
                    isAttached'[m], isAttached'[n]
             PROVE  m = n
  BY DEF Exclusive
<1>1. (isAttached[m] \/ Attaches(m)) /\ (isAttached[n] \/ Attaches(n))
  BY DEF Step
<1>2. m \in Int /\ n \in Int
  BY PlantAssumption
<1>3. CASE ParentFree
  BY <1>1, <1>2, <1>3 DEF ParentFree, Attaches
<1>4. CASE ~ ParentFree
  BY <1>1, <1>4 DEF Attaches, PlantInv, Exclusive
<1>5. QED
  BY <1>3, <1>4

LEMMA PlantInvariance == PlantInv /\ [PlantNext]_plantVars => PlantInv'
<1> SUFFICES ASSUME PlantInv, [PlantNext]_plantVars PROVE PlantInv'
  OBVIOUS
<1>1. PlantTypeOK'
  BY TypeInvariance DEF PlantInv
<1>2. ASSUME NEW m \in Markers, NEW c \in Commands, Command(m, c) PROVE PlantInv'
  <2>1. UNCHANGED jointVars
    BY <1>2 DEF Command
  <2>2. QED
    BY <1>1, <1>2, <2>1, CommandPhase DEF PlantInv, Exclusive, jointVars
<1>3. ASSUME NEW m \in Markers, DeliverState(m) PROVE PlantInv'
  <2>1. UNCHANGED jointVars
    BY <1>3 DEF DeliverState
  <2>2. QED
    BY <1>1, <1>3, <2>1, DeliverStatePhase DEF PlantInv, Exclusive, jointVars
<1>4. ASSUME NEW m \in Markers, DeliverTrigger(m) PROVE PlantInv'
  <2>1. Exclusive'
    BY <1>4 DEF PlantInv, Exclusive, DeliverTrigger
  <2>2. \A n \in Markers : isAttached'[n] => ~ attachRequested'[n]
    BY <1>4 DEF PlantInv, DeliverTrigger, PlantTypeOK
  <2>3. QED
    BY <1>1, <1>4, <2>1, <2>2, DeliverTriggerPhase DEF PlantInv
<1>5. ASSUME NEW tick \in BOOLEAN, Step(tick) PROVE PlantInv'
  <2>1. \A n \in Markers : isAttached'[n] => ~ attachRequested'[n]
    BY <1>5 DEF PlantInv, Step
  <2>2. QED
    BY <1>1, <1>5, <2>1, StepPhase, StepExclusive DEF PlantInv
<1>6. CASE UNCHANGED plantVars
  <2>1. \A n \in Markers : Phase(n)'
    BY <1>6, Frame DEF plantVars, PlantInv
  <2>2. QED
    BY <1>1, <1>6, <2>1 DEF plantVars, PlantInv, Exclusive
<1>7. QED
  BY <1>2, <1>3, <1>4, <1>5, <1>6 DEF PlantNext

LEMMA PlantInitially == PlantInit => PlantInv
<1> SUFFICES ASSUME PlantInit PROVE PlantInv
  OBVIOUS
<1>1. PlantTypeOK
  <2>1. queue \in [Markers -> Seq(Commands)] /\ mail \in [Markers -> Seq(States \cup Actions)]
    BY EmptySeq DEF PlantInit
  <2>2. attachRequested \in [Markers -> BOOLEAN]
    BY DEF PlantInit
  <2>3. QED
    BY <2>1, <2>2 DEF PlantInit, PlantTypeOK
<1>2. \A m \in Markers : Phase(m)
  BY DEF PlantInit, Phase, Starting
<1>3. QED
  BY <1>1, <1>2 DEF PlantInit, PlantInv, Exclusive

\* Every reachable state satisfies the inductive invariant.
THEOREM PlantInvariant == PlantSpec => []PlantInv
BY PlantInitially, PlantInvariance, PTL DEF PlantSpec

\* The types of the coordinators' and the joints' state.
THEOREM PlantTyped == PlantSpec => []PlantTypeOK
<1>1. PlantInv => PlantTypeOK
  BY DEF PlantInv
<1>2. QED
  BY PlantInvariant, <1>1, PTL

\* The hardpoint never carries two payloads, whatever the number of joints
\* that compete for it: the exclusive_parent test of DetachableJoint.
THEOREM PlantExclusive == PlantSpec => []Exclusive
<1>1. PlantInv => Exclusive
  BY DEF PlantInv
<1>2. QED
  BY PlantInvariant, <1>1, PTL

\* A payload without a command in service is at rest and seen as it is, so the
\* confirmation that StartNextLocked gives without asking the joint is true.
THEOREM PlantIdleIsAtRest == PlantSpec => []IdleIsAtRest
<1>1. PlantInv => IdleIsAtRest
  BY DEF PlantInv, Phase, Idle, Waiting, Arrived, IdleIsAtRest
<1>2. QED
  BY PlantInvariant, <1>1, PTL

-----------------------------------------------------------------------------
(* The refinement. *)

LEMMA LineTypes ==
    ASSUME PlantTypeOK, NEW m \in Markers
    PROVE  Line(m) \in Seq(Commands)
<1>1. CASE active[m] = None
  BY <1>1 DEF Line, PlantTypeOK
<1>2. CASE active[m] # None
  <2>1. <<active[m]>> \in Seq(Commands) /\ queue[m] \in Seq(Commands)
    BY <1>2 DEF PlantTypeOK
  <2>2. QED
    BY <1>2, <2>1, ConcatProperties DEF Line
<1>3. QED
  BY <1>1, <1>2

\* Taking n commands off a line and starting the next leaves the rest of it.
LEMMA RestOfLine ==
    ASSUME NEW q \in Seq(Commands), NEW n \in 0..Len(q), n < Len(q)
    PROVE  <<q[n + 1]>> \o SubSeq(q, n + 2, Len(q)) = SubSeq(q, n + 1, Len(q))
<1>1. n + 1 \in 1..Len(q) /\ Len(q) \in (n + 1)..Len(q) /\ (n + 1) + 1 = n + 2
  OBVIOUS
<1>2. SubSeq(q, n + 1, Len(q)) = <<q[n + 1]>> \o SubSeq(q, (n + 1) + 1, Len(q))
  BY <1>1, SubSeqRecursiveFirst
<1>3. QED
  BY <1>1, <1>2

\* Answering a prefix of the line, with at most one new command behind it, is
\* a Serve step of the magnet.
LEMMA ServeStep ==
    ASSUME PlantInv, NEW m \in Markers, published,
           UNCHANGED <<jointVars, published>>,
           NEW state \in {None, PhysicalState(m)},
           NEW added \in {<<>>} \cup
             {<<c>> : c \in {d \in Commands : \A e \in KnownCommands(m) : e.id # d.id}},
           NEW all, all = Line(m) \o added, all \in Seq(Commands),
           NEW n \in 0..Len(all),
           Line(m)' = SubSeq(all, n + 1, Len(all)),
           \A k \in Markers \ {m} : Line(k)' = Line(k),
           completed' = [completed EXCEPT ![m] =
                           @ \cup {Answer(all[k], state) : k \in 1..n}]
    PROVE  Magnet!Serve(m)
<1> DEFINE status == [k \in 1..n |-> Answer(all[k], state).status]
           given == {[id |-> all[k].id, action |-> all[k].action,
                      status |-> status[k]] : k \in 1..n}
<1>1. /\ PlantTypeOK
      /\ \A k \in 1..n : all[k] \in Commands
  BY DEF PlantInv
<1>2. status \in [1..n -> {"confirmed", "failed"}]
  BY DEF Answer
<1>3. given = {Answer(all[k], state) : k \in 1..n}
  BY DEF Answer
<1>4. ASSUME NEW d \in Commands, \A e \in KnownCommands(m) : e.id # d.id
      PROVE  d \in Magnet!Commands /\ ~ Magnet!Known(m, d.id)
  <2>1. d \in Magnet!Commands
    BY DEF Commands, Actions, Magnet!Commands, Magnet!Actions
  <2>2. \A a \in completed[m] : a.id # d.id
    <3>1. \A a \in completed[m] : [id |-> a.id, action |-> a.action] \in KnownCommands(m)
      BY DEF KnownCommands
    <3>2. QED
      BY <1>4, <3>1
  <2>3. \A k \in 1..Len(Line(m)) : Line(m)[k] \in KnownCommands(m)
    <3>1. CASE active[m] = None
      BY <3>1 DEF Line, KnownCommands
    <3>2. CASE active[m] # None
      <4>1. <<active[m]>> \in Seq(Commands) /\ queue[m] \in Seq(Commands)
            /\ Len(<<active[m]>>) = 1 /\ <<active[m]>>[1] = active[m]
        BY <1>1, <3>2 DEF PlantTypeOK
      <4>2. /\ Len(Line(m)) = 1 + Len(queue[m])
            /\ \A k \in 1..(1 + Len(queue[m])) :
                 Line(m)[k] = IF k <= 1 THEN active[m] ELSE queue[m][k - 1]
        BY <3>2, <4>1, ConcatProperties DEF Line
      <4>3. Len(queue[m]) \in Nat
        BY <4>1
      <4>4. active[m] \in KnownCommands(m)
        BY <3>2 DEF KnownCommands
      <4>5. \A k \in 1..Len(queue[m]) : queue[m][k] \in KnownCommands(m)
        BY DEF KnownCommands
      <4>6. ASSUME NEW k \in 1..(1 + Len(queue[m])) PROVE Line(m)[k] \in KnownCommands(m)
        <5>1. CASE k = 1
          BY <4>2, <4>4, <5>1
        <5>2. CASE k # 1
          <6>1. k - 1 \in 1..Len(queue[m]) /\ ~ (k <= 1)
            BY <4>3, <5>2
          <6>2. Line(m)[k] = queue[m][k - 1]
            BY <4>2, <6>1
          <6>3. QED
            BY <4>5, <6>1, <6>2
        <5>3. QED
          BY <5>1, <5>2
      <4>7. QED
        BY <4>2, <4>6
    <3>3. QED
      BY <3>1, <3>2
  <2>4. QED
    BY <1>4, <2>1, <2>2, <2>3 DEF Magnet!Known
<1>5. added \in {<<>>} \cup {<<c>> : c \in {d \in Magnet!Commands : ~ Magnet!Known(m, d.id)}}
  BY <1>4
<1>6. \A a \in given : Magnet!Truthful(m, a)
  <2> SUFFICES ASSUME NEW k \in 1..n
               PROVE  Magnet!Truthful(m, Answer(all[k], state))
    BY <1>3
  <2>1. all[k] \in Commands
    BY <1>1
  <2>2. CASE DesiredState(all[k].action) = state
    <3>1. state = PhysicalState(m)
      BY <2>2, PlantAssumption DEF DesiredState
    <3>2. all[k].action = "attach" <=> isAttached[m]
      BY <2>1, <2>2, <3>1 DEF DesiredState, PhysicalState, Commands, Actions
    <3>3. QED
      BY <3>2 DEF Magnet!Truthful, Answer
  <2>3. CASE DesiredState(all[k].action) # state
    BY <2>3 DEF Magnet!Truthful, Answer
  <2>4. QED
    BY <2>2, <2>3
<1>7. completed' = [completed EXCEPT ![m] = @ \cup given]
  BY <1>3
<1>8. [k \in Markers |-> Line(k)]' =
        [[k \in Markers |-> Line(k)] EXCEPT ![m] = SubSeq(all, n + 1, Len(all))]
  OBVIOUS
<1>9. UNCHANGED {k \in Markers : isAttached[k] \/ (~ published /\ attachRequested[k])}
  BY DEF jointVars
<1> HIDE DEF status, given
<1>10. /\ all = [k \in Markers |-> Line(k)][m] \o added
  OBVIOUS
<1>11. QED
  <2> DEFINE Q(al, l, st) ==
        LET g == {[id |-> al[k].id, action |-> al[k].action,
                   status |-> st[k]] : k \in 1..l}
        IN /\ \A a \in g : Magnet!Truthful(m, a)
           /\ completed' = [completed EXCEPT ![m] = @ \cup g]
           /\ [k \in Markers |-> Line(k)]' =
                [[k \in Markers |-> Line(k)] EXCEPT ![m] = SubSeq(al, l + 1, Len(al))]
  <2>1. Q(all, n, status)
    BY <1>6, <1>7, <1>8 DEF given
  <2> HIDE DEF Q
  <2>2. \E l \in 0..Len(all) : \E st \in [1..l -> {"confirmed", "failed"}] : Q(all, l, st)
    BY <1>2, <2>1
  <2>3. \E ad \in {<<>>} \cup
                   {<<c>> : c \in {d \in Magnet!Commands : ~ Magnet!Known(m, d.id)}} :
          LET al == [k \in Markers |-> Line(k)][m] \o ad IN
          \E l \in 0..Len(al) : \E st \in [1..l -> {"confirmed", "failed"}] : Q(al, l, st)
    BY <1>5, <1>10, <2>2
  <2>4. QED
    BY <1>9, <2>3 DEF Magnet!Serve, Q

\* OnCommand and OnPhysicalState answer a prefix of the line or change nothing
\* the magnet shows.
LEMMA CommandRefines ==
    ASSUME PlantInv, NEW m \in Markers, NEW c \in Commands, Command(m, c)
    PROVE  Magnet!Serve(m) \/ UNCHANGED Magnet!magnetVars
<1>1. /\ PlantTypeOK /\ Phase(m) /\ published /\ UNCHANGED <<jointVars, published>>
  BY DEF PlantInv, Command
<1>2. /\ queue[m] \in Seq(Commands) /\ Line(m) \in Seq(Commands)
      /\ <<c>> \in Seq(Commands) /\ <<>> \in Seq(Commands)
  BY <1>1, LineTypes DEF PlantTypeOK
<1>3. CASE /\ \A d \in KnownCommands(m) : d.id # c.id
           /\ active[m] # None
           /\ queue' = [queue EXCEPT ![m] = Append(@, c)]
           /\ UNCHANGED <<active, completed, mail, view>>
  <2> DEFINE all == Line(m) \o <<c>>
  <2>1. all \in Seq(Commands) /\ SubSeq(all, 1, Len(all)) = all /\ Len(all) \in Nat
    BY <1>2, ConcatProperties, SubSeqFull
  <2>2. Line(m)' = all
    <3>1. <<active[m]>> \in Seq(Commands)
      BY <1>1, <1>3 DEF PlantTypeOK
    <3>2. queue'[m] = queue[m] \o <<c>>
      BY <1>1, <1>2, <1>3, AppendIsConcat DEF PlantTypeOK
    <3>3. Line(m)' = <<active[m]>> \o (queue[m] \o <<c>>)
      BY <1>3, <3>2 DEF Line
    <3>4. (<<active[m]>> \o queue[m]) \o <<c>> = <<active[m]>> \o (queue[m] \o <<c>>)
      <4> DEFINE r == <<active[m]>>
                 s == queue[m]
                 t == <<c>>
      <4>1. r \in Seq(Commands) /\ s \in Seq(Commands) /\ t \in Seq(Commands)
        BY <1>2, <3>1
      <4> HIDE DEF r, s, t
      <4>2. (r \o s) \o t = r \o (s \o t)
        BY <4>1, ConcatAssociative
      <4>3. QED
        BY <4>2 DEF r, s, t
    <3>5. QED
      BY <1>3, <3>3, <3>4 DEF Line
  <2>3. \A k \in Markers \ {m} : Line(k)' = Line(k)
    BY <1>1, <1>3 DEF Line, PlantTypeOK
  <2>4. completed' = [completed EXCEPT ![m] = @ \cup {Answer(all[k], None) : k \in 1..0}]
    <3>1. {Answer(all[k], None) : k \in 1..0} = {}
      OBVIOUS
    <3>2. QED
      BY <1>1, <1>3, <3>1 DEF PlantTypeOK
  <2>5. <<c>> \in {<<>>} \cup
          {<<x>> : x \in {d \in Commands : \A e \in KnownCommands(m) : e.id # d.id}}
    BY <1>3
  <2> HIDE DEF all
  <2>6. all = Line(m) \o <<c>>
    BY DEF all
  <2>7. 0 \in 0..Len(all) /\ Line(m)' = SubSeq(all, 0 + 1, Len(all))
    BY <2>1, <2>2
  <2>8. Magnet!Serve(m)
    BY <1>1, <2>1, <2>3, <2>4, <2>5, <2>6, <2>7, ServeStep
  <2>9. QED
    BY <2>8
<1>4. CASE /\ \A d \in KnownCommands(m) : d.id # c.id
           /\ active[m] = None
           /\ StartNext(m, Append(queue[m], c), view[m], mail[m], {})
           /\ UNCHANGED view
  <2> DEFINE all == Append(queue[m], c)
  <2>1. Idle(m)
    BY <1>1, <1>4 DEF Phase, Waiting, Arrived
  <2>2. /\ all = Line(m) \o <<c>> /\ all \in Seq(Commands)
    BY <1>2, <1>4, AppendIsConcat, AppendProperties DEF Line
  <2>3. PICK n \in 0..Len(all) :
          /\ active' = [active EXCEPT ![m] = IF n < Len(all) THEN all[n + 1] ELSE None]
          /\ queue' = [queue EXCEPT ![m] = SubSeq(all, n + 2, Len(all))]
          /\ completed' = [completed EXCEPT ![m] =
                             @ \cup ({} \cup {Answer(all[k], view[m]) : k \in 1..n})]
    BY <1>4 DEF StartNext
  <2> HIDE DEF all
  <2>4. Line(m)' = SubSeq(all, n + 1, Len(all))
    <3>1. /\ active'[m] = (IF n < Len(all) THEN all[n + 1] ELSE None)
          /\ queue'[m] = SubSeq(all, n + 2, Len(all))
      BY <1>1, <2>3 DEF PlantTypeOK
    <3>2. CASE n < Len(all)
      <4>1. all[n + 1] # None
        <5>1. n + 1 \in 1..Len(all) /\ all \in Seq(Commands)
          BY <2>2, <3>2
        <5>2. all[n + 1] \in Commands
          BY <5>1, ElementOfSeq
        <5>3. QED
          BY <5>2, PlantAssumption DEF Commands, Actions
      <4>2. QED
        BY <2>2, <3>1, <3>2, <4>1, RestOfLine DEF Line
    <3>3. CASE n = Len(all)
      <4>1. SubSeq(all, n + 2, Len(all)) = <<>> /\ SubSeq(all, n + 1, Len(all)) = <<>>
        BY <2>2, <3>3, SubSeqEmpty
      <4>2. QED
        BY <3>1, <3>3, <4>1 DEF Line
    <3>4. QED
      BY <2>2, <3>2, <3>3
  <2>5. \A k \in Markers \ {m} : Line(k)' = Line(k)
    BY <1>1, <2>3 DEF Line, PlantTypeOK
  <2>6. completed' = [completed EXCEPT ![m] =
                        @ \cup {Answer(all[k], view[m]) : k \in 1..n}]
    BY <2>3
  <2>7. view[m] \in {None, PhysicalState(m)}
    BY <2>1 DEF Idle
  <2>8. <<c>> \in {<<>>} \cup
          {<<x>> : x \in {d \in Commands : \A e \in KnownCommands(m) : e.id # d.id}}
    BY <1>4
  <2>9. Magnet!Serve(m)
    <3> DEFINE state == view[m]
    <3>1. /\ state \in {None, PhysicalState(m)}
          /\ completed' = [completed EXCEPT ![m] =
                             @ \cup {Answer(all[k], state) : k \in 1..n}]
      BY <2>6, <2>7
    <3> HIDE DEF state
    <3>2. QED
      BY <1>1, <2>2, <2>4, <2>5, <2>8, <3>1, ServeStep
  <2>10. QED
    BY <2>9
<1>5. QED
  BY <1>3, <1>4 DEF Command

LEMMA DeliverStateRefines ==
    ASSUME PlantInv, NEW m \in Markers, DeliverState(m)
    PROVE  Magnet!Serve(m) \/ UNCHANGED Magnet!magnetVars
<1> DEFINE state == Head(mail[m])
<1>1. /\ PlantTypeOK /\ Phase(m) /\ UNCHANGED <<jointVars, published>>
  BY DEF PlantInv, DeliverState
<1>2. CASE UNCHANGED <<queue, active, completed>>
  <2>1. \A k \in Markers : Line(k)' = Line(k)
    BY <1>2 DEF Line
  <2>2. QED
    BY <1>1, <1>2, <2>1 DEF Magnet!magnetVars, jointVars
<1>3. CASE /\ active[m] # None /\ DesiredState(active[m].action) = state
           /\ StartNext(m, queue[m], state, Tail(mail[m]), {Answer(active[m], state)})
  <2>1. published /\ mail[m] \in Seq(States \cup Actions) /\ mail[m] # <<>> /\ state \in States
    BY <1>1 DEF Phase, Starting, DeliverState, PlantTypeOK
  <2>2. state = mail[m][1] /\ 1 \in 1..Len(mail[m])
    BY <2>1
  <2>3. state = PhysicalState(m)
    BY <1>1, <1>3, <2>1, <2>2 DEF Phase, Idle, Waiting, Arrived, StatesAre
  <2> DEFINE q == queue[m]
             all == <<active[m]>> \o q
  <2>4. <<active[m]>> \in Seq(Commands) /\ q \in Seq(Commands) /\ Len(<<active[m]>>) = 1
        /\ <<active[m]>>[1] = active[m]
    BY <1>1, <1>3 DEF PlantTypeOK
  <2>5. /\ all \in Seq(Commands) /\ Len(all) = 1 + Len(q) /\ Len(q) \in Nat
        /\ \A i \in 1..(1 + Len(q)) : all[i] = IF i <= 1 THEN active[m] ELSE q[i - 1]
    BY <2>4, ConcatProperties
  <2>6. PICK n \in 0..Len(q) :
          /\ active' = [active EXCEPT ![m] = IF n < Len(q) THEN q[n + 1] ELSE None]
          /\ queue' = [queue EXCEPT ![m] = SubSeq(q, n + 2, Len(q))]
          /\ completed' = [completed EXCEPT ![m] =
               @ \cup ({Answer(active[m], state)} \cup {Answer(q[k], state) : k \in 1..n})]
    BY <1>3 DEF StartNext
  <2>7. all = Line(m) \o <<>>
    BY <1>3, <2>5, ConcatEmptySeq DEF Line
  <2> HIDE DEF all, q, state
  <2>8. Line(m)' = SubSeq(q, n + 1, Len(q))
    <3>1. /\ active'[m] = (IF n < Len(q) THEN q[n + 1] ELSE None)
          /\ queue'[m] = SubSeq(q, n + 2, Len(q))
      BY <1>1, <2>6 DEF PlantTypeOK
    <3>2. CASE n < Len(q)
      <4>1. q[n + 1] # None
        <5>1. n + 1 \in 1..Len(q) /\ q \in Seq(Commands)
          BY <2>4, <3>2
        <5>2. q[n + 1] \in Commands
          BY <5>1, ElementOfSeq
        <5>3. QED
          BY <5>2, PlantAssumption DEF Commands, Actions
      <4>2. QED
        BY <2>4, <3>1, <3>2, <4>1, RestOfLine DEF Line
    <3>3. CASE n = Len(q)
      <4>1. SubSeq(q, n + 2, Len(q)) = <<>> /\ SubSeq(q, n + 1, Len(q)) = <<>>
        BY <2>4, <3>3, SubSeqEmpty
      <4>2. QED
        BY <3>1, <3>3, <4>1 DEF Line
    <3>4. QED
      BY <2>5, <3>2, <3>3
  <2>9. SubSeq(q, n + 1, Len(q)) = SubSeq(all, (n + 1) + 1, Len(all))
    <3>1. /\ n + 1 \in Int /\ n + 2 \in Int /\ Len(q) \in Int /\ Len(all) \in Int
          /\ \A i \in (n + 1)..Len(q) : q[i] \in Commands
          /\ \A i \in (n + 2)..Len(all) : all[i] \in Commands
      BY <2>4, <2>5
    <3>2. /\ SubSeq(q, n + 1, Len(q)) \in Seq(Commands)
          /\ Len(SubSeq(q, n + 1, Len(q))) =
               (IF n + 1 <= Len(q) THEN Len(q) - (n + 1) + 1 ELSE 0)
          /\ \A i \in 1..(Len(q) - (n + 1) + 1) :
               SubSeq(q, n + 1, Len(q))[i] = q[(n + 1) + i - 1]
      BY <3>1, SubSeqProperties
    <3>3. /\ SubSeq(all, n + 2, Len(all)) \in Seq(Commands)
          /\ Len(SubSeq(all, n + 2, Len(all))) =
               (IF n + 2 <= Len(all) THEN Len(all) - (n + 2) + 1 ELSE 0)
          /\ \A i \in 1..(Len(all) - (n + 2) + 1) :
               SubSeq(all, n + 2, Len(all))[i] = all[(n + 2) + i - 1]
      BY <3>1, SubSeqProperties
    <3> DEFINE s == SubSeq(q, n + 1, Len(q))
               t == SubSeq(all, n + 2, Len(all))
    <3>4. Len(s) = Len(t) /\ Len(s) = Len(q) - n
      BY <2>5, <3>2, <3>3
    <3>5. ASSUME NEW i \in 1..Len(s) PROVE s[i] = t[i]
      <4>1. i \in 1..(Len(q) - n)
        BY <3>4
      <4>2. s[i] = q[n + i]
        <5>1. i \in 1..(Len(q) - (n + 1) + 1) /\ (n + 1) + i - 1 = n + i
          BY <2>5, <4>1
        <5>2. QED
          BY <3>2, <5>1
      <4>3. t[i] = all[n + i + 1]
        <5>1. i \in 1..(Len(all) - (n + 2) + 1) /\ (n + 2) + i - 1 = n + i + 1
          BY <2>5, <4>1
        <5>2. QED
          BY <3>3, <5>1
      <4>4. n + i + 1 \in 1..(1 + Len(q)) /\ ~ (n + i + 1 <= 1) /\ (n + i + 1) - 1 = n + i
        BY <2>5, <4>1
      <4>5. QED
        BY <2>5, <4>2, <4>3, <4>4
    <3> HIDE DEF s, t
    <3>6. s = t
      BY <3>2, <3>3, <3>4, <3>5, SeqEqual DEF s, t
    <3>7. (n + 1) + 1 = n + 2
      OBVIOUS
    <3>8. QED
      BY <3>6, <3>7 DEF s, t
  <2>10. {Answer(active[m], state)} \cup {Answer(q[k], state) : k \in 1..n} =
           {Answer(all[k], state) : k \in 1..(n + 1)}
    <3>1. all[1] = active[m] /\ \A k \in 1..n : all[k + 1] = q[k]
      BY <2>5
    <3>2. \A k \in 1..n : k + 1 \in 1..(n + 1)
      OBVIOUS
    <3>3. \A k \in 1..(n + 1) : k = 1 \/ (k - 1 \in 1..n /\ all[k] = q[k - 1])
      BY <2>5
    <3>4. 1 \in 1..(n + 1)
      OBVIOUS
    <3>5. {Answer(active[m], state)} \cup {Answer(q[k], state) : k \in 1..n}
            \subseteq {Answer(all[k], state) : k \in 1..(n + 1)}
      BY <3>1, <3>2, <3>4
    <3>6. {Answer(all[k], state) : k \in 1..(n + 1)}
            \subseteq {Answer(active[m], state)} \cup {Answer(q[k], state) : k \in 1..n}
      BY <3>1, <3>3
    <3>7. QED
      BY <3>5, <3>6
  <2>11. completed' = [completed EXCEPT ![m] =
                         @ \cup {Answer(all[k], state) : k \in 1..(n + 1)}]
    BY <2>6, <2>10
  <2>12. \A k \in Markers \ {m} : Line(k)' = Line(k)
    BY <1>1, <2>6 DEF Line, PlantTypeOK
  <2>13. n + 1 \in 0..Len(all) /\ Line(m)' = SubSeq(all, (n + 1) + 1, Len(all))
    BY <2>5, <2>8, <2>9
  <2>14. Magnet!Serve(m)
    <3>1. state \in {None, PhysicalState(m)}
      BY <2>3
    <3>2. <<>> \in {<<>>} \cup
            {<<c>> : c \in {d \in Commands : \A e \in KnownCommands(m) : e.id # d.id}}
      OBVIOUS
    <3>3. all \in Seq(Commands)
      BY <2>5
    <3>4. QED
      BY <1>1, <2>1, <2>7, <2>11, <2>12, <2>13, <3>1, <3>2, <3>3, ServeStep
  <2>15. QED
    BY <2>14
<1>4. QED
  BY <1>2, <1>3 DEF DeliverState

\* A trigger callback moves nothing.
LEMMA DeliverTriggerRefines ==
    ASSUME PlantInv, NEW m \in Markers, DeliverTrigger(m)
    PROVE  UNCHANGED Magnet!magnetVars
<1>1. mail[m] # <<>> /\ Phase(m) /\ UNCHANGED <<coordinatorVars, isAttached, published>>
  BY DEF DeliverTrigger, PlantInv
<1>2. published
  BY <1>1 DEF Phase, Starting
<1>3. \A k \in Markers : Line(k)' = Line(k)
  BY <1>1 DEF Line, coordinatorVars
<1>4. QED
  BY <1>1, <1>2, <1>3 DEF Magnet!magnetVars, coordinatorVars

\* In a simulation step the hardpoint takes a payload, drops it, or nothing
\* changes; the first step takes what was declared to be attached initially.
LEMMA StepRefines ==
    ASSUME PlantInv, NEW tick \in BOOLEAN, Step(tick)
    PROVE  (\E m \in Markers : Magnet!Take(m) \/ Magnet!Drop(m))
             \/ UNCHANGED Magnet!magnetVars
<1> DEFINE holding == {k \in Markers : isAttached[k] \/ (~ published /\ attachRequested[k])}
<1>1. UNCHANGED coordinatorVars /\ PlantTypeOK /\ \A k \in Markers : Phase(k)
  BY DEF Step, PlantInv
<1>2. \A k \in Markers :
        /\ isAttached'[k] = ((isAttached[k] \/ Attaches(k)) /\ ~ Detaches(k))
        /\ attachRequested'[k] = (attachRequested[k] /\ ~ Attaches(k))
  BY DEF Step
<1>3. [k \in Markers |-> Line(k)]' = [k \in Markers |-> Line(k)]
  BY <1>1 DEF Line, coordinatorVars
<1>4. published => published'
  BY DEF Step
<1>5. ASSUME ~ published PROVE UNCHANGED Magnet!magnetVars
  <2>1. ASSUME NEW m \in Markers, attachRequested[m] PROVE Attaches(m)
    <3>1. m \in Held
      BY <1>1, <1>5, <2>1 DEF Phase, Starting
    <3>2. \A n \in Markers : (attachRequested[n] \/ isAttached[n]) => n = m
      BY <1>1, <1>5, <3>1, PlantAssumption DEF Phase, Starting
    <3>3. ~ isAttached[m]
      BY <2>1 DEF PlantInv
    <3>4. QED
      BY <2>1, <3>2, <3>3, PlantAssumption DEF Attaches, ParentFree
  <2>2. \A m \in Markers : ~ Detaches(m)
    BY <1>1, <1>5 DEF Phase, Starting, Detaches
  <2>3. \A m \in Markers : (Attaches(m) <=> attachRequested[m])
    BY <2>1 DEF Attaches
  <2>4. \A m \in Markers : ~ attachRequested'[m] /\ (isAttached'[m] <=> isAttached[m] \/ attachRequested[m])
    BY <1>2, <2>2, <2>3
  <2>5. holding' = holding
    BY <1>5, <2>4
  <2>6. QED
    BY <1>1, <1>3, <2>5 DEF Magnet!magnetVars, coordinatorVars
<1>6. ASSUME published, NEW m \in Markers, Attaches(m) \/ Detaches(m)
      PROVE  Magnet!Take(m) \/ Magnet!Drop(m)
  <2>1. Waiting(m)
    BY <1>1, <1>6 DEF Phase, Idle, Arrived, Attaches, Detaches
  <2>2. /\ attachRequested[m] => active[m].action = "attach" /\ ~ isAttached[m]
        /\ detachRequested[m] => active[m].action = "detach" /\ isAttached[m]
    BY <2>1 DEF Waiting, DesiredState, PhysicalState
  <2>3. Line(m) # <<>> /\ Head(Line(m)) = active[m]
    <3>1. /\ active[m] \in Commands /\ queue[m] \in Seq(Commands)
          /\ Line(m) = <<active[m]>> \o queue[m]
      BY <1>1, <2>1 DEF Waiting, PlantTypeOK, Line
    <3>2. <<active[m]>> \in Seq(Commands) /\ Len(<<active[m]>>) = 1
          /\ <<active[m]>>[1] = active[m] /\ Len(queue[m]) \in Nat
      BY <3>1
    <3>3. /\ Line(m) \in Seq(Commands) /\ Len(Line(m)) = 1 + Len(queue[m])
          /\ \A i \in 1..(1 + Len(queue[m])) :
               Line(m)[i] = IF i <= 1 THEN active[m] ELSE queue[m][i - 1]
      BY <3>1, <3>2, ConcatProperties
    <3>4. QED
      BY <3>2, <3>3
  <2>4. CASE Attaches(m)
    <3>1. attachRequested[m] /\ active[m].action = "attach" /\ ~ detachRequested[m]
      BY <2>2, <2>4 DEF Attaches
    <3>2. \A k \in Markers : ~ isAttached[k]
      BY <2>4 DEF Attaches, ParentFree
    <3>3. \A k \in Markers : Attaches(k) => k = m
      <4>1. \A k \in Markers : k \in Int
        BY PlantAssumption
      <4>2. QED
        BY <2>4, <4>1 DEF Attaches
    <3>4. ~ Detaches(m)
      BY <3>1 DEF Detaches
    <3>5. holding = {} /\ holding' = {m}
      BY <1>2, <1>4, <1>6, <2>4, <3>2, <3>3, <3>4
    <3>6. Magnet!Take(m)
      BY <1>1, <1>3, <2>3, <3>1, <3>5 DEF Magnet!Take, coordinatorVars
    <3>7. QED
      BY <3>6
  <2>5. CASE Detaches(m)
    <3>1. detachRequested[m] /\ isAttached[m] /\ active[m].action = "detach"
      BY <2>2, <2>5 DEF Detaches
    <3>2. \A k \in Markers : (isAttached[k] <=> k = m) /\ ~ Attaches(k)
      BY <3>1 DEF PlantInv, Exclusive, Attaches, ParentFree
    <3>3. holding' = {} /\ holding = {m}
      BY <1>2, <1>4, <1>6, <2>5, <3>2
    <3>4. Magnet!Drop(m)
      BY <1>1, <1>3, <2>3, <3>1, <3>3 DEF Magnet!Drop, coordinatorVars
    <3>5. QED
      BY <3>4
  <2>6. QED
    BY <1>6, <2>4, <2>5
<1>7. ASSUME published, \A m \in Markers : ~ Attaches(m) /\ ~ Detaches(m)
      PROVE  UNCHANGED Magnet!magnetVars
  <2>1. holding' = holding
    BY <1>1, <1>2, <1>4, <1>7 DEF PlantTypeOK
  <2>2. QED
    BY <1>1, <1>3, <2>1 DEF Magnet!magnetVars, coordinatorVars
<1>8. QED
  BY <1>5, <1>6, <1>7

\* Every step of the coordinators and joints is one of the magnet's, or shows
\* nothing of it.
LEMMA StepImplements ==
    PlantInv /\ [PlantNext]_plantVars => [Magnet!MagnetNext]_(Magnet!magnetVars)
<1> SUFFICES ASSUME PlantInv, [PlantNext]_plantVars
             PROVE  Magnet!MagnetNext \/ UNCHANGED Magnet!magnetVars
  OBVIOUS
<1>1. ASSUME NEW m \in Markers, NEW c \in Commands, Command(m, c)
      PROVE  Magnet!MagnetNext \/ UNCHANGED Magnet!magnetVars
  BY <1>1, CommandRefines DEF Magnet!MagnetNext
<1>2. ASSUME NEW m \in Markers, DeliverState(m)
      PROVE  Magnet!MagnetNext \/ UNCHANGED Magnet!magnetVars
  BY <1>2, DeliverStateRefines DEF Magnet!MagnetNext
<1>3. ASSUME NEW m \in Markers, DeliverTrigger(m)
      PROVE  UNCHANGED Magnet!magnetVars
  BY <1>3, DeliverTriggerRefines
<1>4. ASSUME NEW tick \in BOOLEAN, Step(tick)
      PROVE  Magnet!MagnetNext \/ UNCHANGED Magnet!magnetVars
  BY <1>4, StepRefines DEF Magnet!MagnetNext
<1>5. CASE UNCHANGED plantVars
  <2>1. \A k \in Markers : Line(k)' = Line(k)
    BY <1>5 DEF plantVars, Line
  <2>2. QED
    BY <1>5, <2>1 DEF plantVars, Magnet!magnetVars
<1>6. QED
  BY <1>1, <1>2, <1>3, <1>4, <1>5 DEF PlantNext

\* The coordinators and joints implement the exclusive magnet: payloads move
\* only for the command in service, commands are served in order and at most
\* once, and what OnPhysicalState or StartNextLocked confirms is true.
THEOREM PlantImplementsMagnet == PlantSpec => ImplementsMagnet
<1>1. PlantInit => Magnet!MagnetInit
  <2> SUFFICES ASSUME PlantInit PROVE Magnet!MagnetInit
    OBVIOUS
  <2>1. {k \in Markers : isAttached[k] \/ (~ published /\ attachRequested[k])} = Held
    BY PlantAssumption DEF PlantInit
  <2>2. \A m \in Markers : Line(m) = <<>>
    BY DEF PlantInit, Line
  <2>3. QED
    BY <2>1, <2>2 DEF PlantInit, Magnet!MagnetInit
<1>2. QED
  BY <1>1, StepImplements, PlantInvariant, PTL DEF PlantSpec, ImplementsMagnet, Magnet!MagnetSpec

-----------------------------------------------------------------------------
(* Answers.  The refinement makes this a proof about the magnet. *)

\* The ids in a line are distinct and none of them is among the answers.
Distinct(line, answers) ==
    /\ \A j, k \in 1..Len(line) : line[j].id = line[k].id => j = k
    /\ \A a \in answers : \A k \in 1..Len(line) : a.id # line[k].id

\* The inductive invariant behind AnsweredOnce: an id stands in the line of a
\* payload or among its answers, and only once.
OnceInv ==
    \A m \in Markers :
      /\ Distinct(Line(m), completed[m])
      /\ \A a, b \in completed[m] : a.id = b.id => a = b

\* A new command behind such a line leaves it so.
LEMMA LineGrows ==
    ASSUME NEW line \in Seq(Commands), NEW answers, Distinct(line, answers),
           NEW c \in Commands, \A k \in 1..Len(line) : line[k].id # c.id,
           \A a \in answers : a.id # c.id
    PROVE  line \o <<c>> \in Seq(Commands) /\ Distinct(line \o <<c>>, answers)
<1>1. /\ line \o <<c>> = Append(line, c)
      /\ Append(line, c) \in Seq(Commands)
      /\ Len(line) \in Nat
      /\ Len(Append(line, c)) = Len(line) + 1
      /\ \A k \in 1..Len(line) : Append(line, c)[k] = line[k]
      /\ Append(line, c)[Len(line) + 1] = c
  BY AppendIsConcat, AppendProperties
<1>2. \A k \in 1..(Len(line) + 1) : k \in 1..Len(line) \/ k = Len(line) + 1
  BY <1>1
<1>3. QED
  BY <1>1, <1>2 DEF Distinct

\* Answering a prefix moves its ids from the line to the answers.
LEMMA ServedOnce ==
    ASSUME PlantTypeOK, OnceInv, NEW m \in Markers, Magnet!Serve(m)
    PROVE  OnceInv'
<1> DEFINE line == Line(m)
           fresh == {<<c>> : c \in {d \in Magnet!Commands : ~ Magnet!Known(m, d.id)}}
           Answered(seq) ==
             \E n \in 0..Len(seq) :
               \E status \in [1..n -> {"confirmed", "failed"}] :
                 LET given == {[id |-> seq[k].id, action |-> seq[k].action,
                                status |-> status[k]] : k \in 1..n}
                 IN /\ completed' = [completed EXCEPT ![m] = @ \cup given]
                    /\ [k \in Markers |-> Line(k)]' =
                         [[k \in Markers |-> Line(k)] EXCEPT
                            ![m] = SubSeq(seq, n + 1, Len(seq))]
<1>1. PICK added \in {<<>>} \cup fresh : Answered([k \in Markers |-> Line(k)][m] \o added)
  BY DEF Magnet!Serve
<1> DEFINE all == line \o added
<1>2. /\ line \in Seq(Commands) /\ Distinct(line, completed[m])
      /\ \A a, b \in completed[m] : a.id = b.id => a = b
  BY LineTypes DEF OnceInv
<1>3. all \in Seq(Commands) /\ Distinct(all, completed[m])
  <2>1. CASE added = <<>>
    <3>1. line \o <<>> = line
      BY <1>2, ConcatEmptySeq
    <3>2. QED
      BY <1>2, <2>1, <3>1
  <2>2. CASE added \in fresh
    <3>1. PICK c \in Commands :
            /\ added = <<c>>
            /\ \A k \in 1..Len(line) : line[k].id # c.id
            /\ \A a \in completed[m] : a.id # c.id
      BY <2>2 DEF Commands, Actions, Magnet!Commands, Magnet!Actions, Magnet!Known
    <3>2. all = line \o <<c>>
      BY <3>1
    <3>4. (\A k \in 1..Len(line) : line[k].id # c.id) /\ (\A a \in completed[m] : a.id # c.id)
      BY <3>1
    <3> HIDE DEF line, all
    <3>3. line \in Seq(Commands) /\ Distinct(line, completed[m])
      BY <1>2
    <3>5. line \o <<c>> \in Seq(Commands) /\ Distinct(line \o <<c>>, completed[m])
      BY <3>3, <3>4, LineGrows, Zenon
    <3>6. QED
      BY <3>2, <3>5
  <2>3. QED
    BY <2>1, <2>2
<1>4. Answered(all)
  <2>1. [k \in Markers |-> Line(k)][m] = line
    OBVIOUS
  <2> HIDE DEF Answered
  <2>2. QED
    BY <1>1, <2>1
<1> HIDE DEF all
<1>a. PICK n \in 0..Len(all) :
        \E status \in [1..n -> {"confirmed", "failed"}] :
          LET given == {[id |-> all[k].id, action |-> all[k].action,
                         status |-> status[k]] : k \in 1..n}
          IN /\ completed' = [completed EXCEPT ![m] = @ \cup given]
             /\ [k \in Markers |-> Line(k)]' =
                  [[k \in Markers |-> Line(k)] EXCEPT
                     ![m] = SubSeq(all, n + 1, Len(all))]
  BY <1>4
<1>5. PICK status \in [1..n -> {"confirmed", "failed"}] :
        /\ completed' = [completed EXCEPT ![m] = @ \cup
             {[id |-> all[k].id, action |-> all[k].action, status |-> status[k]] : k \in 1..n}]
        /\ [k \in Markers |-> Line(k)]' =
             [[k \in Markers |-> Line(k)] EXCEPT ![m] = SubSeq(all, n + 1, Len(all))]
  BY <1>a
<1> DEFINE given == {[id |-> all[k].id, action |-> all[k].action,
                      status |-> status[k]] : k \in 1..n}
<1>6. /\ Line(m)' = SubSeq(all, n + 1, Len(all))
      /\ \A k \in Markers \ {m} : Line(k)' = Line(k)
  BY <1>5
<1>7. /\ completed'[m] = completed[m] \cup given
      /\ \A k \in Markers \ {m} : completed'[k] = completed[k]
  BY <1>5 DEF PlantTypeOK
<1>8. \A a \in given : \E k \in 1..n :
        a = [id |-> all[k].id, action |-> all[k].action, status |-> status[k]]
  OBVIOUS
<1> HIDE DEF line, all, given
<1>9. /\ Len(all) \in Nat /\ n \in Nat /\ n <= Len(all)
      /\ Len(Line(m)') = Len(all) - n
      /\ \A k \in 1..(Len(all) - n) : Line(m)'[k] = all[n + k]
  BY <1>3, <1>6, SubSeqProperties
<1>10. \A j, k \in 1..Len(Line(m)') : Line(m)'[j].id = Line(m)'[k].id => j = k
  <2> SUFFICES ASSUME NEW j \in 1..Len(Line(m)'), NEW k \in 1..Len(Line(m)'),
                      Line(m)'[j].id = Line(m)'[k].id
               PROVE  j = k
    OBVIOUS
  <2>1. /\ j \in 1..(Len(all) - n) /\ k \in 1..(Len(all) - n)
        /\ n + j \in 1..Len(all) /\ n + k \in 1..Len(all)
    BY <1>9
  <2>2. all[n + j].id = all[n + k].id
    BY <1>9, <2>1
  <2>3. n + j = n + k
    BY <1>3, <2>1, <2>2 DEF Distinct
  <2>4. QED
    BY <1>9, <2>1, <2>3
<1>11. \A a \in completed'[m] : \A k \in 1..Len(Line(m)') : a.id # Line(m)'[k].id
  <2> SUFFICES ASSUME NEW a \in completed'[m], NEW k \in 1..Len(Line(m)')
               PROVE  a.id # Line(m)'[k].id
    OBVIOUS
  <2>1. k \in 1..(Len(all) - n) /\ n + k \in 1..Len(all) /\ Line(m)'[k] = all[n + k]
    BY <1>9
  <2>2. CASE a \in completed[m]
    BY <1>3, <2>1, <2>2 DEF Distinct
  <2>3. CASE a \in given
    <3>1. PICK j \in 1..n : a.id = all[j].id
      BY <1>8, <2>3
    <3>2. j \in 1..Len(all) /\ j # n + k
      BY <1>9, <2>1, <3>1
    <3>3. all[j].id # all[n + k].id
      BY <1>3, <2>1, <3>2 DEF Distinct
    <3>4. QED
      BY <2>1, <3>1, <3>3
  <2>4. QED
    BY <1>7, <2>2, <2>3
<1>12. \A a, b \in completed'[m] : a.id = b.id => a = b
  <2>1. \A k \in 1..n : k \in 1..Len(all)
    BY <1>9
  <2>2. \A a, b \in given : a.id = b.id => a = b
    <3> SUFFICES ASSUME NEW a \in given, NEW b \in given, a.id = b.id PROVE a = b
      OBVIOUS
    <3>1. PICK j \in 1..n :
            a = [id |-> all[j].id, action |-> all[j].action, status |-> status[j]]
      BY <1>8
    <3>2. PICK k \in 1..n :
            b = [id |-> all[k].id, action |-> all[k].action, status |-> status[k]]
      BY <1>8
    <3>3. j = k
      BY <1>3, <2>1, <3>1, <3>2 DEF Distinct
    <3>4. QED
      BY <3>1, <3>2, <3>3
  <2>3. \A a \in completed[m], b \in given : a.id # b.id
    BY <1>3, <1>8, <2>1 DEF Distinct
  <2>4. QED
    BY <1>2, <1>7, <2>2, <2>3
<1>13. ASSUME NEW k \in Markers, k # m
       PROVE  Line(k)' = Line(k) /\ completed'[k] = completed[k]
  BY <1>6, <1>7, <1>13
<1>14. QED
  BY <1>10, <1>11, <1>12, <1>13 DEF OnceInv, Distinct

\* The magnet's other steps answer nothing.
LEMMA OnceStepInv == PlantInv /\ OnceInv /\ [PlantNext]_plantVars => OnceInv'
<1> SUFFICES ASSUME PlantInv, OnceInv, [PlantNext]_plantVars PROVE OnceInv'
  OBVIOUS
<1>1. CASE \E m \in Markers : Magnet!Serve(m)
  BY <1>1, ServedOnce DEF PlantInv
<1>2. CASE ~ \E m \in Markers : Magnet!Serve(m)
  <2>1. UNCHANGED <<completed, [k \in Markers |-> Line(k)]>>
    BY <1>2, StepImplements
       DEF Magnet!MagnetNext, Magnet!Take, Magnet!Drop, Magnet!magnetVars
  <2>2. \A k \in Markers : Line(k)' = Line(k)
    BY <2>1
  <2>3. QED
    BY <2>1, <2>2 DEF OnceInv
<1>3. QED
  BY <1>1, <1>2

\* However often a command is delivered, its id is answered once.
THEOREM PlantAnswersOnce == PlantSpec => []AnsweredOnce
<1>1. PlantInit => OnceInv
  BY DEF PlantInit, OnceInv, Distinct, Line
<1>2. OnceInv => AnsweredOnce
  BY DEF OnceInv, AnsweredOnce
<1>3. QED
  BY <1>1, <1>2, OnceStepInv, PlantInvariant, PTL DEF PlantSpec
=============================================================================
