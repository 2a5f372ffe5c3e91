------------------------ MODULE GazeboRuntimeProofs ------------------------
(***************************************************************************)
(* Theorems about GazeboRuntime, for every set of troubles.                *)
(***************************************************************************)
EXTENDS GazeboRuntime, SequenceTheorems, TLAPS

\* Before the delivery the world stands, or runs to the end of its run-to.
WorldIsHeld ==
    /\ epoch.call # "none" => "delivered" \in facts /\ epoch.runTo
    /\ ~ epoch.runTo => world.place = "before" /\ ~ world.running /\ ~ world.target
    /\ "delivered" \notin facts =>
         /\ world.place # "beyond"
         /\ world.running => world.target /\ world.place \in {"before", "window"}

\* The effects that belong to the end of a run.
Closing == {"runtime-failure", "stop", "quiescence"}

\* What leads to a record of failure or quiescence comes after BeginFinalization,
\* and BeginFinalization comes with the freeze of the output.
FreezeComesFirst ==
    /\ "begun" \in flags => "faulted" \in adapter
    /\ "faulted" \in adapter => "active" \notin adapter
    /\ \/ \E x \in Closing : Has(todo, x)
       \/ Has(inbox, "STOPPED")
       \/ facts \cap {"runtime-failure", "quiescence"} # {}
       => "begun" \in flags

GazeboInv ==
    /\ GazeboTypeOK
    /\ pc = "apply" => todo # <<>>
    /\ WorldIsHeld
    /\ FreezeComesFirst

-----------------------------------------------------------------------------
(* Sequences of events and effects. *)

\* A concatenation has what one of its parts has.
LEMMA HasConcat ==
    ASSUME NEW S, NEW s \in Seq(S), NEW t \in Seq(S), NEW x
    PROVE  Has(s \o t, x) <=> Has(s, x) \/ Has(t, x)
<1>1. /\ Len(s) \in Nat /\ Len(t) \in Nat /\ Len(s \o t) = Len(s) + Len(t)
      /\ \A i \in 1..Len(s) + Len(t) :
           (s \o t)[i] = IF i <= Len(s) THEN s[i] ELSE t[i - Len(s)]
  BY ConcatProperties
<1>2. ASSUME NEW i \in 1..Len(s \o t), (s \o t)[i] = x PROVE Has(s, x) \/ Has(t, x)
  <2>1. CASE i <= Len(s)
    BY <1>1, <1>2, <2>1 DEF Has
  <2>2. CASE i > Len(s)
    <3>1. i - Len(s) \in 1..Len(t) /\ t[i - Len(s)] = x
      BY <1>1, <1>2, <2>2
    <3>2. QED
      BY <3>1 DEF Has
  <2>3. QED
    BY <1>1, <2>1, <2>2
<1>3. ASSUME NEW i \in 1..Len(s), s[i] = x PROVE Has(s \o t, x)
  BY <1>1, <1>3 DEF Has
<1>4. ASSUME NEW i \in 1..Len(t), t[i] = x PROVE Has(s \o t, x)
  <2>1. Len(s) + i \in 1..Len(s \o t) /\ (s \o t)[Len(s) + i] = x
    BY <1>1, <1>4
  <2>2. QED
    BY <2>1 DEF Has
<1>5. QED
  BY <1>2, <1>3, <1>4 DEF Has

\* What the tail, the head and the append of a sequence have.
LEMMA HasParts ==
    ASSUME NEW S, NEW s \in Seq(S), NEW e \in S, NEW x
    PROVE  /\ Append(s, e) \in Seq(S)
           /\ Has(Append(s, e), x) <=> Has(s, x) \/ x = e
           /\ ~ Has(<< >>, x)
           /\ Has(<<e>>, x) <=> x = e
           /\ s # << >> => /\ Head(s) \in S /\ Tail(s) \in Seq(S)
                           /\ Has(s, Head(s))
                           /\ Has(Tail(s), x) => Has(s, x)
<1>1. /\ Append(s, e) \in Seq(S) /\ Len(s) \in Nat /\ Len(Append(s, e)) = Len(s) + 1
      /\ \A i \in 1..Len(s) : Append(s, e)[i] = s[i]
      /\ Append(s, e)[Len(s) + 1] = e
  BY AppendProperties
<1>2. Has(Append(s, e), x) <=> Has(s, x) \/ x = e
  <2>1. ASSUME NEW i \in 1..Len(s) + 1, Append(s, e)[i] = x PROVE Has(s, x) \/ x = e
    BY <1>1, <2>1 DEF Has
  <2>2. Has(s, x) => Has(Append(s, e), x)
    BY <1>1 DEF Has
  <2>3. x = e => Has(Append(s, e), x)
    BY <1>1 DEF Has
  <2>4. QED
    BY <1>1, <2>1, <2>2, <2>3 DEF Has
<1>3. ~ Has(<< >>, x) /\ (Has(<<e>>, x) <=> x = e)
  BY DEF Has
<1>4. ASSUME s # << >>
      PROVE  /\ Head(s) \in S /\ Tail(s) \in Seq(S) /\ Has(s, Head(s))
             /\ Has(Tail(s), x) => Has(s, x)
  <2>1. /\ Head(s) \in S /\ Tail(s) \in Seq(S) /\ Head(s) = s[1]
        /\ Len(Tail(s)) = Len(s) - 1
        /\ \A i \in 1..Len(Tail(s)) : Tail(s)[i] = s[i + 1]
    BY <1>4, HeadTailProperties
  <2>2. Len(s) \in Nat /\ Len(s) # 0
    BY <1>4, EmptySeq, LenProperties
  <2>3. Has(s, Head(s))
    BY <2>1, <2>2 DEF Has
  <2>4. ASSUME NEW i \in 1..Len(Tail(s)), Tail(s)[i] = x PROVE Has(s, x)
    <3>1. i + 1 \in 1..Len(s) /\ s[i + 1] = x
      BY <2>1, <2>2, <2>4
    <3>2. QED
      BY <3>1 DEF Has
  <2>5. QED
    BY <2>1, <2>3, <2>4 DEF Has
<1>5. QED
  BY <1>1, <1>2, <1>3, <1>4

-----------------------------------------------------------------------------
(* The results of RuntimeModel. *)

Results == [flags : SUBSET Flags, lifecycle : RunStates \ {"TERMINAL"}, effects : Seq(Effects)]

\* The result extends the model, and where it begins finalization it says so.
Shaped(r) ==
    /\ r \in Results
    /\ "begun" \in flags => "begun" \in r.flags
    /\ "begun" \in r.flags => "begun" \in flags \/ Has(r.effects, "begin")

\* Shaped, and the closing effects come with the begin of finalization.
Sound(r) ==
    /\ Shaped(r)
    /\ \A x \in Closing : Has(r.effects, x) => "begun" \in r.flags

LEMMA UnchangedIsSound ==
    ASSUME GazeboTypeOK
    PROVE  Sound(Unchanged) /\ Unchanged.effects = << >>
<1>1. Unchanged \in Results /\ Unchanged.effects = << >> /\ Unchanged.flags = flags
  BY DEF Unchanged, Results, GazeboTypeOK
<1>2. \A x : ~ Has(<< >>, x)
  BY DEF Has
<1>3. QED
  BY <1>1, <1>2 DEF Sound, Shaped

\* Flags other than "begun", and effects, can be added.
LEMMA WithIsShaped ==
    ASSUME NEW r, Shaped(r), NEW set \in SUBSET (Flags \ {"begun"}), NEW e \in Seq(Effects)
    PROVE  /\ Shaped(With(r, set, e))
           /\ "begun" \in With(r, set, e).flags <=> "begun" \in r.flags
           /\ \A x : Has(With(r, set, e).effects, x) <=> Has(r.effects, x) \/ Has(e, x)
<1>1. r \in Results
  BY DEF Shaped
<1>2. /\ With(r, set, e).flags = r.flags \cup set
      /\ With(r, set, e).lifecycle = r.lifecycle
      /\ With(r, set, e).effects = r.effects \o e
      /\ r.effects \in Seq(Effects) /\ r.effects \o e \in Seq(Effects)
  BY <1>1, ConcatProperties DEF With, Results
<1>3. With(r, set, e) \in Results
  BY <1>1, <1>2, ConcatProperties DEF With, Results
<1>4. \A x : Has(With(r, set, e).effects, x) <=> Has(r.effects, x) \/ Has(e, x)
  BY <1>2, HasConcat
<1>5. "begun" \in With(r, set, e).flags <=> "begun" \in r.flags
  BY <1>2
<1>6. QED
  BY <1>3, <1>4, <1>5 DEF Shaped

\* Closing effects can be added only once finalization has begun.
LEMMA WithIsSound ==
    ASSUME NEW r, Sound(r), NEW set \in SUBSET (Flags \ {"begun"}), NEW e \in Seq(Effects),
           \A x \in Closing : Has(e, x) => "begun" \in r.flags
    PROVE  Sound(With(r, set, e))
  BY WithIsShaped DEF Sound

LEMMA PauseIsShaped ==
    ASSUME NEW r, Shaped(r)
    PROVE  /\ Shaped(Pause(r))
           /\ "begun" \in Pause(r).flags <=> "begun" \in r.flags
           /\ \A x : Has(Pause(r).effects, x) => Has(r.effects, x) \/ x = "pause"
<1>1. {"paused"} \in SUBSET (Flags \ {"begun"}) /\ <<"pause">> \in Seq(Effects)
  BY DEF Flags, Effects
<1>2. \A x : Has(<<"pause">>, x) => x = "pause"
  BY DEF Has
<1>3. QED
  BY <1>1, <1>2, WithIsShaped DEF Pause

LEMMA PauseIsSound ==
    ASSUME NEW r, Sound(r)
    PROVE  Sound(Pause(r))
  BY PauseIsShaped DEF Sound, Closing

LEMMA BeginIsSound ==
    ASSUME NEW r, Shaped(r)
    PROVE  Sound(Begin(r)) /\ "begun" \in Begin(r).flags
<1>1. CASE "begun" \in r.flags
  BY <1>1 DEF Begin, Sound
<1>2. CASE "begun" \notin r.flags
  <2>1. r \in Results
    BY DEF Shaped
  <2>2. /\ Begin(r).flags = r.flags \cup {"begun"}
        /\ Begin(r).lifecycle = r.lifecycle
        /\ Begin(r).effects = r.effects \o <<"begin">>
        /\ r.effects \in Seq(Effects) /\ <<"begin">> \in Seq(Effects)
    BY <1>2, <2>1 DEF Begin, With, Results, Effects
  <2>3. Begin(r) \in Results
    BY <1>2, <2>1, <2>2, ConcatProperties DEF Begin, With, Results, Flags
  <2>4. Has(<<"begin">>, "begin")
    BY DEF Has
  <2>5. Has(Begin(r).effects, "begin")
    <3>1. \A t \in Seq(Effects) : Has(t, "begin") => Has(r.effects \o t, "begin")
      BY <2>2, HasConcat
    <3>2. Has(r.effects \o <<"begin">>, "begin")
      BY <2>2, <2>4, <3>1
    <3>3. QED
      BY <2>2, <3>2
  <2>6. QED
    BY <2>2, <2>3, <2>5 DEF Sound, Shaped
<1>3. QED
  BY <1>1, <1>2

LEMMA FailureIsSound ==
    ASSUME NEW r, Sound(r)
    PROVE  Sound(Failure(r))
<1>1. /\ {"failed", "preempted"} \in SUBSET (Flags \ {"begun"})
      /\ <<"runtime-failure">> \in Seq(Effects)
  BY DEF Flags, Effects, Writes
<1>2. Shaped(Pause(With(r, {"failed", "preempted"}, <<"runtime-failure">>)))
  BY <1>1, WithIsShaped, PauseIsShaped DEF Sound
<1>3. QED
  BY <1>2, BeginIsSound DEF Failure

LEMMA ReadyIsSound ==
    ASSUME NEW r, Sound(r)
    PROVE  Sound(Ready(r))
<1>1. {"readyPublished"} \in SUBSET (Flags \ {"begun"}) /\ <<"gazebo-ready">> \in Seq(Effects)
  BY DEF Flags, Effects, Writes
<1>2. \A x \in Closing : ~ Has(<<"gazebo-ready">>, x)
  BY DEF Has, Closing
<1>3. QED
  BY <1>1, <1>2, WithIsSound DEF Ready

\* A result with another lifecycle state.
LEMMA LifecycleIsSound ==
    ASSUME NEW r, Sound(r), NEW state \in RunStates \ {"TERMINAL"}
    PROVE  Sound([r EXCEPT !.lifecycle = state])
<1>1. r \in Results
  BY DEF Sound, Shaped
<1>2. /\ [r EXCEPT !.lifecycle = state] \in Results
      /\ [r EXCEPT !.lifecycle = state].flags = r.flags
      /\ [r EXCEPT !.lifecycle = state].effects = r.effects
  BY <1>1 DEF Results
<1>3. QED
  BY <1>2 DEF Sound, Shaped

LEMMA FinalizationIsSound ==
    ASSUME GazeboTypeOK, NEW terminal \in Requests
    PROVE  Sound(AcceptFinalization(terminal))
<1>1. Sound(Unchanged) /\ Sound(Failure(Unchanged))
  BY UnchangedIsSound, FailureIsSound
<1>2. CASE "stopRequested" \in flags
  BY <1>1, <1>2 DEF AcceptFinalization
<1>3. CASE "stopRequested" \notin flags
  <2> DEFINE checked == IF terminal = "COMPLETED" /\ "source" \notin flags
                        THEN Failure(Unchanged) ELSE Unchanged
             moved == [checked EXCEPT !.lifecycle = "FINALIZING"]
             stopping == With(moved, {"preempted", "stopRequested"}, << >>)
             begun == Begin(Pause(stopping))
  <2>1. Sound(checked)
    BY <1>1
  <2>2. Sound(moved)
    BY <2>1, LifecycleIsSound DEF RunStates
  <2>3. {"preempted", "stopRequested"} \in SUBSET (Flags \ {"begun"}) /\ << >> \in Seq(Effects)
    BY DEF Flags
  <2>4. Shaped(stopping)
    <3> HIDE DEF moved
    <3>1. QED
      BY <2>2, <2>3, WithIsShaped DEF Sound
  <2>5. Sound(begun) /\ "begun" \in begun.flags
    <3> HIDE DEF stopping
    <3>1. QED
      BY <2>4, PauseIsShaped, BeginIsSound
  <2>6. {} \in SUBSET (Flags \ {"begun"}) /\ <<"stop">> \in Seq(Effects)
    BY DEF Effects
  <2>7. Sound(With(begun, {}, <<"stop">>))
    <3> HIDE DEF begun
    <3>1. QED
      BY <2>5, <2>6, WithIsSound
  <2>8. QED
    BY <1>3, <2>7 DEF AcceptFinalization
<1>4. QED
  BY <1>2, <1>3

LEMMA RunStateIsSound ==
    ASSUME GazeboTypeOK, NEW state \in RunStates
    PROVE  Sound(AcceptRunState(state))
<1> USE DEF RunStates
<1>1. Sound(Unchanged) /\ Sound(Failure(Unchanged)) /\ Unchanged.effects = << >>
  BY UnchangedIsSound, FailureIsSound
<1>2. CASE state = lifecycle /\ state # "FINALIZING"
  BY <1>1, <1>2 DEF AcceptRunState
<1>3. CASE /\ state # lifecycle /\ state = "READY" /\ lifecycle = "STARTING"
           /\ "readyPublished" \in flags
  <2> DEFINE r == [flags |-> flags \ {"paused"}, lifecycle |-> "READY", effects |-> <<"warmup">>]
  <2>1. r \in Results
    BY DEF Results, GazeboTypeOK, Effects
  <2>2. \A x \in Closing : ~ Has(<<"warmup">>, x)
    BY DEF Has, Closing
  <2>3. Sound(r)
    BY <2>1, <2>2 DEF Sound, Shaped
  <2>4. QED
    BY <1>3, <2>3 DEF AcceptRunState
<1>4. CASE state # lifecycle /\ state = "RUNNING" /\ lifecycle = "READY"
  <2> DEFINE r == [flags |-> flags, lifecycle |-> "RUNNING", effects |-> <<"activate">>]
  <2>1. r \in Results /\ r.flags = flags /\ r.effects = <<"activate">>
    <3>1. <<"activate">> \in Seq(Effects)
      BY DEF Effects
    <3>2. QED
      BY <3>1 DEF Results, GazeboTypeOK
  <2>2. \A x \in Closing : ~ Has(<<"activate">>, x)
    BY DEF Has, Closing
  <2>3. Sound(r)
    BY <2>1, <2>2 DEF Sound, Shaped
  <2>4. QED
    BY <1>4, <2>3 DEF AcceptRunState
<1>5. CASE state = "FINALIZING"
  <2> DEFINE moved == [Unchanged EXCEPT !.lifecycle = "FINALIZING"]
             r == With(moved, {"preempted"}, << >>)
  <2>1. Sound(moved)
    BY <1>1, LifecycleIsSound
  <2>2. {"preempted"} \in SUBSET (Flags \ {"begun"}) /\ << >> \in Seq(Effects)
    BY DEF Flags
  <2>3. \A x \in Closing : ~ Has(<< >>, x)
    BY DEF Has, Closing
  <2>4. Sound(r)
    <3> HIDE DEF moved
    <3>1. QED
      BY <2>1, <2>2, <2>3, WithIsSound
  <2>5. Sound(Pause(r))
    <3> HIDE DEF r
    <3>1. QED
      BY <2>4, PauseIsSound
  <2>6. QED
    BY <1>5, <2>5 DEF AcceptRunState
<1>6. CASE /\ ~ (state = lifecycle /\ state # "FINALIZING")
           /\ ~ (state = "READY" /\ lifecycle = "STARTING" /\ "readyPublished" \in flags)
           /\ ~ (state = "RUNNING" /\ lifecycle = "READY")
           /\ state # "FINALIZING"
  BY <1>1, <1>6 DEF AcceptRunState
<1>7. QED
  BY <1>2, <1>3, <1>4, <1>5, <1>6

LEMMA CompletionIsSound ==
    ASSUME GazeboTypeOK, NEW valid \in BOOLEAN
    PROVE  Sound(AcceptCompletion(valid))
<1>1. Sound(Unchanged) /\ Sound(Failure(Unchanged))
  BY UnchangedIsSound, FailureIsSound
<1>2. /\ {"source"} \in SUBSET (Flags \ {"begun"}) /\ {} \in SUBSET (Flags \ {"begun"})
      /\ << >> \in Seq(Effects) /\ <<"source-finished">> \in Seq(Effects)
  BY DEF Flags, Effects, Writes
<1>3. \A x \in Closing : ~ Has(<< >>, x) /\ ~ Has(<<"source-finished">>, x)
  BY DEF Has, Closing
<1>4. Sound(Pause(With(Unchanged, {"source"}, << >>)))
  BY <1>1, <1>2, <1>3, WithIsSound, PauseIsSound
<1>5. Sound(With(Pause(With(Unchanged, {"source"}, << >>)), {}, <<"source-finished">>))
  BY <1>2, <1>3, <1>4, WithIsSound
<1>6. QED
  BY <1>1, <1>5 DEF AcceptCompletion

\* Whatever the event, the result is sound.
LEMMA AcceptIsSound ==
    ASSUME GazeboTypeOK, NEW event \in Events, event = "STOPPED" => "begun" \in flags
    PROVE  Sound(Accept(event))
<1>1. Sound(Unchanged) /\ Sound(Failure(Unchanged))
  BY UnchangedIsSound, FailureIsSound
<1>2. /\ \A f \in {"frozen", "stopFailed", "artifactsReady", "exchange"} :
           {f} \in SUBSET (Flags \ {"begun"})
      /\ << >> \in Seq(Effects) /\ <<"quiescence">> \in Seq(Effects)
  BY DEF Flags, Effects, Writes
<1>3. \A x \in Closing : ~ Has(<< >>, x)
  BY DEF Has
<1>4. event = "STOPPED" => Sound(AcceptStopped)
  <2>1. Unchanged.flags = flags
    BY DEF Unchanged
  <2>2. QED
    BY <1>1, <1>2, <2>1, WithIsSound DEF AcceptStopped
<1>5. Sound(With(Failure(Unchanged), {"stopFailed"}, << >>))
  BY <1>1, <1>2, <1>3, WithIsSound
<1>6. \A f \in {"artifactsReady", "exchange"} : Sound(Ready(With(Unchanged, {f}, << >>)))
  BY <1>1, <1>2, <1>3, WithIsSound, ReadyIsSound
<1>7. \A terminal \in Requests : Sound(AcceptFinalization(terminal))
  BY FinalizationIsSound
<1>8. \A state \in RunStates : Sound(AcceptRunState(state))
  BY RunStateIsSound
<1>9. \A valid \in BOOLEAN : Sound(AcceptCompletion(valid))
  BY CompletionIsSound
<1>10. QED
  BY <1>1, <1>4, <1>5, <1>6, <1>7, <1>8, <1>9 DEF Accept

-----------------------------------------------------------------------------
(* The inductive invariant. *)

\* The exception handler of main().
LEMMA RaiseKeeps ==
    ASSUME GazeboInv, Raise
    PROVE  /\ pc' \in {"failed", "apply"} /\ (pc' = "apply" => todo' # << >>)
           /\ flags' \subseteq Flags /\ lifecycle' \in RunStates \ {"TERMINAL"}
           /\ inbox' = << >> /\ todo' \in Seq(Effects) /\ handling' \in BOOLEAN
           /\ adapter' \in {adapter, Freeze}
           /\ "begun" \in flags => "begun" \in flags'
           /\ "begun" \in flags' => "begun" \in flags \/ adapter' = Freeze
           /\ \A x \in Closing : Has(todo', x) => "begun" \in flags'
<1>1. CASE handling \/ "request" \in seen
  <2>1. \A x : ~ Has(<< >>, x)
    BY DEF Has
  <2>2. /\ pc' = "failed" /\ inbox' = << >> /\ todo' = << >>
        /\ UNCHANGED <<flags, lifecycle, handling, adapter>>
    BY <1>1 DEF Raise, modelVars
  <2>3. << >> \in Seq(Effects)
    OBVIOUS
  <2>4. flags \subseteq Flags /\ lifecycle \in RunStates \ {"TERMINAL"} /\ handling \in BOOLEAN
    BY DEF GazeboInv, GazeboTypeOK
  <2>5. QED
    BY <2>1, <2>2, <2>3, <2>4
<1>2. CASE ~ (handling \/ "request" \in seen)
  <2> DEFINE r == AcceptFinalization("OTHER")
  <2>1. Sound(r)
    BY FinalizationIsSound DEF GazeboInv, Requests
  <2>2. /\ flags' = r.flags /\ lifecycle' = r.lifecycle /\ todo' = r.effects
        /\ inbox' = << >> /\ handling' = TRUE /\ adapter' = Freeze
        /\ pc' = IF r.effects = << >> THEN "failed" ELSE "apply"
    BY <1>2 DEF Raise
  <2>3. QED
    BY <2>1, <2>2 DEF Sound, Shaped, Results
<1>3. QED
  BY <1>1, <1>2

\* Appending an event other than STOPPED.
LEMMA PostKeeps ==
    ASSUME GazeboInv, NEW event \in Events \ {"STOPPED"}, Post(event)
    PROVE  inbox' \in Seq(Events) /\ (Has(inbox', "STOPPED") => Has(inbox, "STOPPED"))
<1>1. inbox \in Seq(Events) /\ inbox' = Append(inbox, event)
  BY DEF GazeboInv, GazeboTypeOK, Post
<1>2. QED
  BY <1>1, HasParts

\* Applying an effect.
LEMMA AppliedKeeps ==
    ASSUME GazeboInv, pc = "apply", Applied
    PROVE  /\ todo' \in Seq(Effects) /\ Head(todo) \in Effects
           /\ pc' \in {"drain", "apply"} /\ (pc' = "apply" => todo' # << >>)
           /\ Has(todo, Head(todo))
           /\ \A x : Has(todo', x) => Has(todo, x)
           /\ UNCHANGED <<flags, lifecycle, handling>>
<1>1. todo \in Seq(Effects) /\ todo # << >>
  BY DEF GazeboInv, GazeboTypeOK
<1>2. /\ todo' = Tail(todo) /\ pc' = IF Len(todo) = 1 THEN "drain" ELSE "apply"
      /\ UNCHANGED <<flags, lifecycle, handling>>
  BY DEF Applied, modelVars
<1>3. Len(Tail(todo)) = Len(todo) - 1 /\ Head(todo) \in Effects /\ Tail(todo) \in Seq(Effects)
  BY <1>1, HeadTailProperties
<1>4. Len(todo) # 1 => Tail(todo) # << >>
  BY <1>1, <1>3
<1>5. Has(todo, Head(todo)) /\ \A x : Has(Tail(todo), x) => Has(todo, x)
  BY <1>1, <1>3, HasParts
<1>6. QED
  BY <1>2, <1>3, <1>4, <1>5

\* GazeboInv holds initially.
LEMMA GazeboInvInit == GazeboInit => GazeboInv
<1>1. \A x : ~ Has(<< >>, x)
  BY DEF Has
<1>2. << >> \in Seq(Events) /\ << >> \in Seq(Effects)
  OBVIOUS
<1>3. ASSUME GazeboInit PROVE GazeboTypeOK
  <2>1. /\ epoch \in [begun : BOOLEAN, runTo : BOOLEAN, released : BOOLEAN,
                      call : {"none", "calling", "ok", "error"}]
        /\ world \in [place : {"before", "window", "held", "beyond"},
                      running : BOOLEAN, target : BOOLEAN]
    BY <1>3 DEF GazeboInit
  <2>2. inbox \in Seq(Events) /\ todo \in Seq(Effects)
    BY <1>2, <1>3 DEF GazeboInit
  <2>3. flags \subseteq Flags /\ lifecycle \in RunStates \ {"TERMINAL"} /\ topic \in RunStates
    BY <1>3 DEF GazeboInit, Flags, RunStates
  <2>4. QED
    BY <1>3, <2>1, <2>2, <2>3 DEF GazeboInit, GazeboTypeOK
<1>4. GazeboInit => WorldIsHeld
  BY DEF GazeboInit, WorldIsHeld
<1>5. GazeboInit => FreezeComesFirst
  BY <1>1 DEF GazeboInit, FreezeComesFirst
<1>6. QED
  BY <1>3, <1>4, <1>5 DEF GazeboInv, GazeboInit

\* The steps of the loop that poll.
LEMMA GazeboInvPolls ==
    ASSUME GazeboInv,
           \/ SpinTimeout \/ TakeRunState \/ AdapterFails
           \/ \E exact \in BOOLEAN : LatchEpoch(exact)
           \/ \E valid \in BOOLEAN : Complete(valid)
           \/ PollArtifacts \/ PollChildren \/ PollRequest \/ Drained
    PROVE  GazeboInv'
<1> USE DEF GazeboInv, GazeboTypeOK, WorldIsHeld, FreezeComesFirst,
            Go, modelVars, processVars, peerVars
<1>1. \A event \in Events \ {"STOPPED"} : Post(event) =>
        inbox' \in Seq(Events) /\ (Has(inbox', "STOPPED") => Has(inbox, "STOPPED"))
  BY PostKeeps
<1>2. /\ RunStates \subseteq Events \ {"STOPPED"} /\ Requests \subseteq Events \ {"STOPPED"}
      /\ {"ARTIFACTS", "EXITED", "VALID_SUMMARY", "INVALID_SUMMARY"} \subseteq Events \ {"STOPPED"}
  BY DEF Events, RunStates, Requests
<1>3. CASE SpinTimeout
  BY <1>3 DEF SpinTimeout
<1>4. CASE TakeRunState
  BY <1>1, <1>2, <1>4 DEF TakeRunState
<1>5. CASE AdapterFails
  BY <1>1, <1>2, <1>5 DEF AdapterFails, Freeze
<1>6. CASE \E exact \in BOOLEAN : LatchEpoch(exact)
  BY <1>6 DEF LatchEpoch
<1>7. CASE \E valid \in BOOLEAN : Complete(valid)
  BY <1>1, <1>2, <1>7 DEF Complete
<1>8. CASE PollArtifacts
  <2>1. inbox' \in Seq(Events) /\ (Has(inbox', "STOPPED") => Has(inbox, "STOPPED"))
    BY <1>1, <1>2, <1>8 DEF PollArtifacts
  <2>2. seen' \subseteq {"exchange", "artifacts", "child", "request"}
    BY <1>8 DEF PollArtifacts
  <2>3. /\ pc' \in {"children", "request", "drain"}
        /\ UNCHANGED <<flags, lifecycle, todo, handling, adapter, epoch, world,
                       children, server, facts, topic, request, heard>>
    BY <1>8 DEF PollArtifacts
  <2>4. QED
    BY <2>1, <2>2, <2>3
<1>9. CASE PollChildren
  <2>1. inbox' \in Seq(Events) /\ (Has(inbox', "STOPPED") => Has(inbox, "STOPPED"))
    BY <1>1, <1>2, <1>9 DEF PollChildren
  <2>2. seen' \subseteq {"exchange", "artifacts", "child", "request"}
    BY <1>9 DEF PollChildren
  <2>3. /\ pc' \in {"children", "request", "drain"}
        /\ UNCHANGED <<flags, lifecycle, todo, handling, adapter, epoch, world,
                       children, server, facts, topic, request, heard>>
    BY <1>9 DEF PollChildren
  <2>4. QED
    BY <2>1, <2>2, <2>3
<1>10. CASE PollRequest
  <2>1. inbox' \in Seq(Events) /\ (Has(inbox', "STOPPED") => Has(inbox, "STOPPED"))
    BY <1>1, <1>2, <1>10 DEF PollRequest
  <2>2. seen' \subseteq {"exchange", "artifacts", "child", "request"}
    BY <1>10 DEF PollRequest
  <2>3. /\ pc' \in {"children", "request", "drain"}
        /\ UNCHANGED <<flags, lifecycle, todo, handling, adapter, epoch, world,
                       children, server, facts, topic, request, heard>>
    BY <1>10 DEF PollRequest
  <2>4. QED
    BY <2>1, <2>2, <2>3
<1>11. CASE Drained
  BY <1>11 DEF Drained
<1>12. QED
  BY <1>3, <1>4, <1>5, <1>6, <1>7, <1>8, <1>9, <1>10, <1>11

\* The exception handler changes nothing that it does not freeze.
LEMMA GazeboInvRaises ==
    ASSUME GazeboInv, Raise, UNCHANGED <<seen, epoch, processVars, facts, peerVars, heard>>,
           world' \in {world, [world EXCEPT !.running = FALSE]}
    PROVE  GazeboInv'
<1> USE DEF processVars, peerVars
<1>1. /\ pc' \in {"failed", "apply"} /\ (pc' = "apply" => todo' # << >>)
      /\ flags' \subseteq Flags /\ lifecycle' \in RunStates \ {"TERMINAL"}
      /\ inbox' = << >> /\ todo' \in Seq(Effects) /\ handling' \in BOOLEAN
      /\ adapter' \in {adapter, Freeze}
      /\ "begun" \in flags => "begun" \in flags'
      /\ "begun" \in flags' => "begun" \in flags \/ adapter' = Freeze
      /\ \A x \in Closing : Has(todo', x) => "begun" \in flags'
  BY RaiseKeeps
<1>2. << >> \in Seq(Events) /\ ~ Has(<< >>, "STOPPED")
  BY DEF Has
<1>3. /\ adapter' \subseteq {"armed", "latched", "requested", "active", "faulted", "completed"}
      /\ adapter' = Freeze => "faulted" \in adapter' /\ "active" \notin adapter'
  BY <1>1 DEF Freeze, GazeboInv, GazeboTypeOK
<1>4. /\ world' \in [place : {"before", "window", "held", "beyond"},
                    running : BOOLEAN, target : BOOLEAN]
      /\ world'.place = world.place /\ world'.target = world.target
      /\ world'.running => world.running
  BY DEF GazeboInv, GazeboTypeOK
<1>5. GazeboTypeOK'
  BY <1>1, <1>2, <1>3, <1>4 DEF GazeboInv, GazeboTypeOK
<1>6. WorldIsHeld'
  BY <1>4 DEF GazeboInv, WorldIsHeld
<1>7. FreezeComesFirst'
  BY <1>1, <1>2, <1>3 DEF GazeboInv, FreezeComesFirst
<1>8. QED
  BY <1>1, <1>5, <1>6, <1>7 DEF GazeboInv

LEMMA GazeboInvRelease ==
    ASSUME GazeboInv, Release
    PROVE  GazeboInv'
<1> USE DEF Release, Go, modelVars, processVars, peerVars
<1>1. CASE ReleaseWaits /\ Go("probe") /\ UNCHANGED <<modelVars, inbox, adapter, epoch>>
  BY <1>1 DEF GazeboInv, GazeboTypeOK, WorldIsHeld, FreezeComesFirst
<1>2. CASE /\ ~ ReleaseWaits
           /\ \/ epoch' = [epoch EXCEPT !.call = "calling"]
              \/ epoch' = [epoch EXCEPT !.call = "calling", !.released = TRUE]
           /\ Go("probe") /\ UNCHANGED <<modelVars, inbox, adapter>>
  <2>1. "delivered" \in facts /\ epoch.runTo
    BY <1>2 DEF ReleaseWaits
  <2>2. /\ epoch'.runTo = epoch.runTo
        /\ epoch' \in [begun : BOOLEAN, runTo : BOOLEAN, released : BOOLEAN,
                       call : {"none", "calling", "ok", "error"}]
    BY <1>2 DEF GazeboInv, GazeboTypeOK
  <2>3. GazeboTypeOK'
    BY <1>2, <2>2 DEF GazeboInv, GazeboTypeOK
  <2>4. WorldIsHeld'
    BY <1>2, <2>1, <2>2 DEF GazeboInv, WorldIsHeld
  <2>5. FreezeComesFirst'
    BY <1>2 DEF GazeboInv, FreezeComesFirst
  <2>6. QED
    BY <1>2, <2>3, <2>4, <2>5 DEF GazeboInv
<1>3. CASE Raise /\ UNCHANGED epoch
  BY <1>3, GazeboInvRaises
<1>4. QED
  BY <1>1, <1>2, <1>3

LEMMA GazeboInvProbe ==
    ASSUME GazeboInv, Probe
    PROVE  GazeboInv'
<1> USE DEF Probe, Go, modelVars, processVars, peerVars
<1>1. CASE /\ seen' = seen \cup {"exchange"} /\ Post("EXCHANGE")
           /\ Go("artifacts") /\ UNCHANGED <<modelVars, adapter>>
  <2>1. "EXCHANGE" \in Events \ {"STOPPED"}
    BY DEF Events
  <2>2. inbox' \in Seq(Events) /\ (Has(inbox', "STOPPED") => Has(inbox, "STOPPED"))
    BY <1>1, <2>1, PostKeeps
  <2>3. QED
    BY <1>1, <2>2 DEF GazeboInv, GazeboTypeOK, WorldIsHeld, FreezeComesFirst
<1>2. CASE Go("artifacts") /\ UNCHANGED <<modelVars, inbox, seen, adapter>>
  BY <1>2 DEF GazeboInv, GazeboTypeOK, WorldIsHeld, FreezeComesFirst
<1>3. CASE Raise /\ UNCHANGED seen
  BY <1>3, GazeboInvRaises
<1>4. QED
  BY <1>1, <1>2, <1>3

LEMMA GazeboInvDrain ==
    ASSUME GazeboInv, Drain
    PROVE  GazeboInv'
<1> USE DEF modelVars, processVars, peerVars
<1> DEFINE event == Head(inbox)
           r == Accept(event)
<1>1. inbox \in Seq(Events) /\ inbox # << >>
  BY DEF Drain, GazeboInv, GazeboTypeOK
<1>2. event \in Events /\ Tail(inbox) \in Seq(Events) /\ Has(inbox, event)
  <2>1. event \in Events
    BY <1>1, HeadTailProperties
  <2>2. QED
    BY <1>1, <2>1, HasParts
<1>3. Has(Tail(inbox), "STOPPED") => Has(inbox, "STOPPED")
  <2>1. \A x : Has(Tail(inbox), x) => Has(inbox, x)
    BY <1>1, <1>2, HasParts, Zenon
  <2>2. QED
    BY <2>1
<1>4. Sound(r)
  BY <1>2, AcceptIsSound DEF GazeboInv, FreezeComesFirst
<1>5. CASE Refused(event)
  <2>1. Raise /\ UNCHANGED <<seen, epoch, world, processVars, facts, peerVars, heard>>
    BY <1>5 DEF Drain
  <2>2. QED
    BY <2>1, GazeboInvRaises
<1>6. CASE ~ Refused(event)
  <2>1. /\ flags' = r.flags /\ lifecycle' = r.lifecycle /\ todo' = r.effects
        /\ adapter' = IF Has(r.effects, "begin") THEN Freeze ELSE adapter
        /\ pc' = IF r.effects = << >> THEN "drain" ELSE "apply"
        /\ inbox' = Tail(inbox) /\ handling' = handling
        /\ UNCHANGED <<seen, epoch, world, children, server, facts, topic, request, heard>>
    BY <1>6 DEF Drain
  <2> HIDE DEF r
  <2>2. /\ r.flags \subseteq Flags /\ r.lifecycle \in RunStates \ {"TERMINAL"}
        /\ r.effects \in Seq(Effects)
        /\ "begun" \in flags => "begun" \in r.flags
        /\ "begun" \in r.flags => "begun" \in flags \/ Has(r.effects, "begin")
        /\ \A x \in Closing : Has(r.effects, x) => "begun" \in r.flags
    BY <1>4 DEF Sound, Shaped, Results
  <2>3. /\ adapter' \subseteq {"armed", "latched", "requested", "active", "faulted", "completed"}
        /\ adapter' = Freeze => "faulted" \in adapter' /\ "active" \notin adapter'
        /\ adapter' \in {adapter, Freeze}
    BY <2>1 DEF Freeze, GazeboInv, GazeboTypeOK
  <2>4. GazeboTypeOK'
    BY <1>2, <2>1, <2>2, <2>3 DEF GazeboInv, GazeboTypeOK
  <2>5. WorldIsHeld'
    BY <2>1 DEF GazeboInv, WorldIsHeld
  <2>6. FreezeComesFirst'
    BY <1>3, <2>1, <2>2, <2>3 DEF GazeboInv, FreezeComesFirst
  <2>7. QED
    BY <2>1, <2>4, <2>5, <2>6 DEF GazeboInv
<1>7. QED
  BY <1>5, <1>6

\* ActionExecutor.apply.
LEMMA GazeboInvEffects ==
    ASSUME GazeboInv,
           \/ ApplyWrite \/ ApplyWarmup \/ ApplyPause \/ ApplyActivate \/ ApplyBegin \/ ApplyStop
    PROVE  GazeboInv'
<1> USE DEF processVars, peerVars
<1>1. pc = "apply" /\ Applied =>
        /\ todo' \in Seq(Effects) /\ pc' \in {"drain", "apply"} /\ (pc' = "apply" => todo' # << >>)
        /\ Has(todo, Head(todo)) /\ \A x : Has(todo', x) => Has(todo, x)
        /\ UNCHANGED <<flags, lifecycle, handling>>
  BY AppliedKeeps
<1>2. CASE ApplyWrite
  <2>1. CASE Applied /\ facts' = facts \cup {Head(todo)} /\ UNCHANGED <<inbox, adapter>>
    <3>1. /\ Head(todo) \in Writes
          /\ Head(todo) \in {"runtime-failure", "quiescence"} => "begun" \in flags
      BY <1>1, <1>2, <2>1 DEF ApplyWrite, GazeboInv, FreezeComesFirst, Closing
    <3>2. GazeboTypeOK'
      BY <1>1, <1>2, <2>1, <3>1 DEF ApplyWrite, GazeboInv, GazeboTypeOK
    <3>3. WorldIsHeld'
      BY <1>2, <2>1 DEF ApplyWrite, GazeboInv, WorldIsHeld, Writes
    <3>4. FreezeComesFirst'
      BY <1>1, <1>2, <2>1, <3>1 DEF ApplyWrite, GazeboInv, FreezeComesFirst
    <3>5. QED
      BY <1>1, <1>2, <2>1, <3>2, <3>3, <3>4 DEF ApplyWrite, GazeboInv
  <2>2. CASE Raise /\ UNCHANGED facts
    BY <1>2, <2>2, GazeboInvRaises DEF ApplyWrite
  <2>3. QED
    BY <1>2, <2>1, <2>2 DEF ApplyWrite
<1>3. CASE ApplyWarmup
  <2>1. /\ adapter' \in {adapter, adapter \cup {"armed"}}
        /\ world' \in {world, [place |-> world.place, running |-> TRUE, target |-> TRUE]}
        /\ epoch.runTo => world' = world
        /\ epoch' = [epoch EXCEPT !.runTo = TRUE]
        /\ UNCHANGED <<inbox, seen, children, server, facts, topic, request, heard>>
    BY <1>3 DEF ApplyWarmup
  <2>2. /\ epoch' \in [begun : BOOLEAN, runTo : BOOLEAN, released : BOOLEAN,
                       call : {"none", "calling", "ok", "error"}]
        /\ epoch'.runTo /\ epoch'.call = epoch.call
    BY <2>1 DEF GazeboInv, GazeboTypeOK
  <2>3. /\ world' \in [place : {"before", "window", "held", "beyond"},
                      running : BOOLEAN, target : BOOLEAN]
        /\ world'.place = world.place
    <3>1. world \in [place : {"before", "window", "held", "beyond"},
                     running : BOOLEAN, target : BOOLEAN]
      BY DEF GazeboInv, GazeboTypeOK
    <3>2. CASE world' = world
      BY <3>1, <3>2
    <3>3. CASE world' = [place |-> world.place, running |-> TRUE, target |-> TRUE]
      BY <3>1, <3>3
    <3>4. QED
      BY <2>1, <3>2, <3>3
  <2>4. world' # world => world'.target /\ ~ epoch.runTo
    BY <2>1
  <2>5. GazeboTypeOK'
    BY <1>1, <1>3, <2>1, <2>2, <2>3 DEF ApplyWarmup, GazeboInv, GazeboTypeOK
  <2>6. WorldIsHeld'
    <3>1. CASE world' = world
      BY <2>1, <2>2, <3>1 DEF GazeboInv, WorldIsHeld
    <3>2. CASE world' # world
      BY <2>1, <2>2, <2>3, <2>4, <3>2 DEF GazeboInv, WorldIsHeld
    <3>3. QED
      BY <3>1, <3>2
  <2>7. FreezeComesFirst'
    BY <1>1, <1>3, <2>1 DEF ApplyWarmup, GazeboInv, FreezeComesFirst
  <2>8. QED
    BY <1>1, <1>3, <2>5, <2>6, <2>7 DEF ApplyWarmup, GazeboInv
<1>4. CASE ApplyPause
  <2>1. CASE Applied /\ world' = [world EXCEPT !.running = FALSE] /\ UNCHANGED <<inbox, adapter>>
    <3>1. /\ world' \in [place : {"before", "window", "held", "beyond"},
                        running : BOOLEAN, target : BOOLEAN]
          /\ world'.place = world.place /\ world'.target = world.target /\ ~ world'.running
      BY <2>1 DEF GazeboInv, GazeboTypeOK
    <3>2. GazeboTypeOK'
      BY <1>1, <1>4, <2>1, <3>1 DEF ApplyPause, GazeboInv, GazeboTypeOK
    <3>3. WorldIsHeld'
      BY <1>4, <3>1 DEF ApplyPause, GazeboInv, WorldIsHeld
    <3>4. FreezeComesFirst'
      BY <1>1, <1>4, <2>1 DEF ApplyPause, GazeboInv, FreezeComesFirst
    <3>5. QED
      BY <1>1, <1>4, <2>1, <3>2, <3>3, <3>4 DEF ApplyPause, GazeboInv
  <2>2. CASE Raise /\ world' \in {world, [world EXCEPT !.running = FALSE]}
    BY <1>4, <2>2, GazeboInvRaises DEF ApplyPause
  <2>3. QED
    BY <1>4, <2>1, <2>2 DEF ApplyPause
<1>5. CASE ApplyActivate
  <2>1. /\ adapter' \subseteq adapter \cup {"requested", "armed", "active"}
        /\ adapter \subseteq adapter'
        /\ "faulted" \in adapter => adapter' = adapter
        /\ epoch' = [epoch EXCEPT !.begun = TRUE]
        /\ UNCHANGED <<inbox, seen, world, children, server, facts, topic, request, heard>>
    BY <1>5 DEF ApplyActivate
  <2>2. /\ epoch' \in [begun : BOOLEAN, runTo : BOOLEAN, released : BOOLEAN,
                       call : {"none", "calling", "ok", "error"}]
        /\ epoch'.runTo = epoch.runTo /\ epoch'.call = epoch.call
    BY <2>1 DEF GazeboInv, GazeboTypeOK
  <2>3. GazeboTypeOK'
    BY <1>1, <1>5, <2>1, <2>2 DEF ApplyActivate, GazeboInv, GazeboTypeOK
  <2>4. WorldIsHeld'
    BY <2>1, <2>2 DEF GazeboInv, WorldIsHeld
  <2>5. FreezeComesFirst'
    BY <1>1, <1>5, <2>1 DEF ApplyActivate, GazeboInv, FreezeComesFirst
  <2>6. QED
    BY <1>1, <1>5, <2>3, <2>4, <2>5 DEF ApplyActivate, GazeboInv
<1>6. CASE ApplyBegin
  BY <1>1, <1>6 DEF ApplyBegin, GazeboInv, GazeboTypeOK, WorldIsHeld, FreezeComesFirst
<1>7. CASE ApplyStop
  <2>1. PICK event \in {"STOPPED", "STOP_FAILED"} : inbox' = Append(inbox, event)
    BY <1>7 DEF ApplyStop, Post
  <2>2. inbox' \in Seq(Events)
    BY <2>1, AppendProperties DEF GazeboInv, GazeboTypeOK, Events
  <2>3. "begun" \in flags
    BY <1>1, <1>7 DEF ApplyStop, GazeboInv, FreezeComesFirst, Closing
  <2>4. /\ children' \in {"up", "dead", "stopped"} /\ server' \in {"up", "stopped"}
        /\ UNCHANGED <<seen, adapter, epoch, world, facts, topic, request, heard>>
    BY <1>7 DEF ApplyStop, GazeboInv, GazeboTypeOK
  <2>5. GazeboTypeOK'
    BY <1>1, <1>7, <2>2, <2>4 DEF ApplyStop, GazeboInv, GazeboTypeOK
  <2>6. WorldIsHeld'
    BY <2>4 DEF GazeboInv, WorldIsHeld
  <2>7. FreezeComesFirst'
    BY <1>1, <1>7, <2>3, <2>4 DEF ApplyStop, GazeboInv, FreezeComesFirst
  <2>8. QED
    BY <1>1, <1>7, <2>5, <2>6, <2>7 DEF ApplyStop, GazeboInv
<1>8. QED
  BY <1>2, <1>3, <1>4, <1>5, <1>6, <1>7

\* The unpause thread, Gazebo and the peers.
LEMMA GazeboInvSurroundings ==
    ASSUME GazeboInv,
           \/ UnpauseLands \/ UnpauseLost \/ Tick \/ ChildDies
           \/ \E fact \in {"artifacts-ready", "exchange", "delivered"} : PeerWrites(fact)
           \/ \E terminal \in Requests : RequestFinalization(terminal)
           \/ \E state \in RunStates \ {"STARTING"} : PublishState(state)
    PROVE  GazeboInv'
<1> USE DEF modelVars, loopVars, processVars, peerVars
<1>1. CASE UnpauseLands
  <2>1. epoch.call = "calling" /\ "delivered" \in facts /\ epoch.runTo
    BY <1>1 DEF UnpauseLands, GazeboInv, WorldIsHeld
  <2>2. PICK answer \in {"ok", "error"} : epoch' = [epoch EXCEPT !.call = answer]
    BY <1>1 DEF UnpauseLands
  <2>3. /\ epoch' \in [begun : BOOLEAN, runTo : BOOLEAN, released : BOOLEAN,
                       call : {"none", "calling", "ok", "error"}]
        /\ epoch'.runTo = epoch.runTo
    BY <2>2 DEF GazeboInv, GazeboTypeOK
  <2>4. world' \in [place : {"before", "window", "held", "beyond"},
                    running : BOOLEAN, target : BOOLEAN]
    BY <1>1 DEF UnpauseLands, GazeboInv, GazeboTypeOK
  <2>5. QED
    BY <1>1, <2>1, <2>3, <2>4
       DEF UnpauseLands, GazeboInv, GazeboTypeOK, WorldIsHeld, FreezeComesFirst
<1>2. CASE UnpauseLost
  <2>1. /\ epoch' \in [begun : BOOLEAN, runTo : BOOLEAN, released : BOOLEAN,
                       call : {"none", "calling", "ok", "error"}]
        /\ epoch'.runTo = epoch.runTo /\ epoch.call = "calling"
    BY <1>2 DEF UnpauseLost, GazeboInv, GazeboTypeOK
  <2>2. QED
    BY <1>2, <2>1 DEF UnpauseLost, GazeboInv, GazeboTypeOK, WorldIsHeld, FreezeComesFirst
<1>3. CASE Tick
  <2>1. /\ world' \in [place : {"before", "window", "held", "beyond"},
                      running : BOOLEAN, target : BOOLEAN]
        /\ world.running
        /\ \/ world'.place = "window" /\ world'.target = world.target
           \/ world'.place = "held" /\ ~ world'.running
           \/ world'.place = "beyond" /\ ~ (world.place = "window" /\ world.target)
                                      /\ world.place # "before"
    BY <1>3 DEF Tick, GazeboInv, GazeboTypeOK
  <2>2. WorldIsHeld'
    BY <1>3, <2>1 DEF Tick, GazeboInv, WorldIsHeld
  <2>3. QED
    BY <1>3, <2>1, <2>2 DEF Tick, GazeboInv, GazeboTypeOK, FreezeComesFirst
<1>4. CASE ChildDies
  BY <1>4 DEF ChildDies, GazeboInv, GazeboTypeOK, WorldIsHeld, FreezeComesFirst
<1>5. CASE \E fact \in {"artifacts-ready", "exchange", "delivered"} : PeerWrites(fact)
  BY <1>5 DEF PeerWrites, GazeboInv, GazeboTypeOK, WorldIsHeld, FreezeComesFirst
<1>6. CASE \E terminal \in Requests : RequestFinalization(terminal)
  BY <1>6 DEF RequestFinalization, GazeboInv, GazeboTypeOK, WorldIsHeld, FreezeComesFirst
<1>7. CASE \E state \in RunStates \ {"STARTING"} : PublishState(state)
  BY <1>7 DEF PublishState, GazeboInv, GazeboTypeOK, WorldIsHeld, FreezeComesFirst
<1>8. QED
  BY <1>1, <1>2, <1>3, <1>4, <1>5, <1>6, <1>7

\* Every step preserves GazeboInv.
LEMMA GazeboInvStep == GazeboInv /\ [GazeboNext]_gazeboVars => GazeboInv'
<1> SUFFICES ASSUME GazeboInv, [GazeboNext]_gazeboVars PROVE GazeboInv'
  OBVIOUS
<1>1. CASE LoopNext
  BY <1>1, GazeboInvPolls, GazeboInvRelease, GazeboInvProbe, GazeboInvDrain, GazeboInvEffects
     DEF LoopNext
<1>2. CASE GazeboNext /\ ~ LoopNext
  BY <1>2, GazeboInvSurroundings DEF GazeboNext
<1>3. CASE UNCHANGED gazeboVars
  BY <1>3 DEF gazeboVars, modelVars, loopVars, processVars, peerVars, GazeboInv, GazeboTypeOK,
     WorldIsHeld, FreezeComesFirst
<1>4. QED
  BY <1>1, <1>2, <1>3

-----------------------------------------------------------------------------
(* Theorems. *)

\* The runtime keeps its types, and the invariant the other theorems rest on.
THEOREM GazeboInvariant == GazeboSpec => []GazeboInv
  BY GazeboInvInit, GazeboInvStep, PTL DEF GazeboSpec

\* The main loop, the model, the executor and the surroundings keep their types.
THEOREM GazeboTypeCorrect == GazeboSpec => []GazeboTypeOK
<1>1. GazeboInv => GazeboTypeOK
  BY DEF GazeboInv
<1>2. QED
  BY <1>1, GazeboInvariant, PTL

\* Whatever fails and however late the calls land, physics does not pass the
\* public epoch before the first command was delivered (PublicEpochRendezvous).
THEOREM PhysicsHeld == GazeboSpec => []HeldUntilDelivered
<1>1. GazeboInv => HeldUntilDelivered
  BY DEF GazeboInv, WorldIsHeld, HeldUntilDelivered
<1>2. QED
  BY <1>1, GazeboInvariant, PTL

\* The adapter's public output is closed before a failure or the quiescence of
\* the runtime is on record, and stays closed.
THEOREM EvidenceClosed == GazeboSpec => []EvidenceIsClosed
<1>1. GazeboInv => EvidenceIsClosed
  BY DEF GazeboInv, FreezeComesFirst, EvidenceIsClosed
<1>2. QED
  BY <1>1, GazeboInvariant, PTL

-----------------------------------------------------------------------------
(* Quiescence.  The stop is asked for once, by the last effect of a           *)
(* finalization, and its result is the last event the loop handles.           *)

\* x stands in the sequence at its end, if at all.
AtEnd(s, x) == \A k \in 1..Len(s) : s[k] = x => k = Len(s)

Asked == Has(todo, "stop")
Answered == Has(inbox, "STOPPED")

\* The inductive invariant behind QuiescenceIsEarned.
QuietInv ==
    /\ \/ "quiescence" \in facts \/ Has(todo, "quiescence")
       \/ Answered \/ "frozen" \in flags
       => children = "stopped" /\ server = "stopped"
    /\ Asked \/ Answered \/ "frozen" \in flags => "stopRequested" \in flags
    /\ Asked => ~ Answered /\ "frozen" \notin flags
    /\ AtEnd(todo, "stop") /\ AtEnd(inbox, "STOPPED")
    /\ Answered => pc \in {"apply", "drain"}
    /\ "frozen" \in flags => inbox = <<>> /\ pc \in {"apply", "drain", "quiescent", "failed"}

\* Effects and flags that do not concern the stop of the processes.
MildEffects == Effects \ {"stop", "quiescence"}
MildFlags == Flags \ {"stopRequested", "frozen"}

\* The result neither stops nor freezes.
Mild(r) ==
    /\ r \in Results /\ r.effects \in Seq(MildEffects)
    /\ \A f \in {"stopRequested", "frozen"} : f \in r.flags <=> f \in flags

LEMMA UnchangedIsMild == ASSUME GazeboTypeOK PROVE Mild(Unchanged)
<1>1. Unchanged \in Results /\ Unchanged.effects = << >> /\ Unchanged.flags = flags
  BY DEF Unchanged, Results, GazeboTypeOK
<1>2. QED
  BY <1>1 DEF Mild

LEMMA WithIsMild ==
    ASSUME NEW r, Mild(r), NEW set \in SUBSET MildFlags, NEW e \in Seq(MildEffects)
    PROVE  Mild(With(r, set, e))
<1>1. r \in Results /\ r.effects \in Seq(MildEffects)
  BY DEF Mild
<1>2. /\ r.effects \o e \in Seq(MildEffects)
      /\ r.effects \o e \in Seq(Effects)
  <2>1. e \in Seq(Effects) /\ r.effects \in Seq(Effects)
    BY <1>1 DEF MildEffects, Results
  <2>2. QED
    BY <1>1, <2>1, ConcatProperties
<1>3. /\ With(r, set, e).flags = r.flags \cup set
      /\ With(r, set, e).effects = r.effects \o e
      /\ With(r, set, e) \in Results
  BY <1>1, <1>2 DEF With, Results, MildFlags
<1>4. QED
  BY <1>2, <1>3 DEF Mild, MildFlags

LEMMA PauseIsMild == ASSUME NEW r, Mild(r) PROVE Mild(Pause(r))
<1>1. {"paused"} \in SUBSET MildFlags /\ <<"pause">> \in Seq(MildEffects)
  BY DEF MildFlags, MildEffects, Flags, Effects
<1>2. QED
  BY <1>1, WithIsMild DEF Pause

LEMMA BeginIsMild == ASSUME NEW r, Mild(r) PROVE Mild(Begin(r))
<1>1. {"begun"} \in SUBSET MildFlags /\ <<"begin">> \in Seq(MildEffects)
  BY DEF MildFlags, MildEffects, Flags, Effects
<1>2. QED
  BY <1>1, WithIsMild DEF Begin

LEMMA FailureIsMild == ASSUME NEW r, Mild(r) PROVE Mild(Failure(r))
<1>1. /\ {"failed", "preempted"} \in SUBSET MildFlags
      /\ <<"runtime-failure">> \in Seq(MildEffects)
  BY DEF MildFlags, MildEffects, Flags, Effects, Writes
<1>2. QED
  BY <1>1, WithIsMild, PauseIsMild, BeginIsMild DEF Failure

LEMMA ReadyIsMild == ASSUME NEW r, Mild(r) PROVE Mild(Ready(r))
<1>1. {"readyPublished"} \in SUBSET MildFlags /\ <<"gazebo-ready">> \in Seq(MildEffects)
  BY DEF MildFlags, MildEffects, Flags, Effects, Writes
<1>2. QED
  BY <1>1, WithIsMild DEF Ready

LEMMA LifecycleIsMild ==
    ASSUME NEW r, Mild(r), NEW state \in RunStates \ {"TERMINAL"}
    PROVE  Mild([r EXCEPT !.lifecycle = state])
<1>1. r \in Results
  BY DEF Mild
<1>2. /\ [r EXCEPT !.lifecycle = state] \in Results
      /\ [r EXCEPT !.lifecycle = state].flags = r.flags
      /\ [r EXCEPT !.lifecycle = state].effects = r.effects
  BY <1>1 DEF Results
<1>3. QED
  BY <1>2 DEF Mild

LEMMA RunStateIsMild ==
    ASSUME GazeboTypeOK, NEW state \in RunStates
    PROVE  Mild(AcceptRunState(state))
<1>1. Mild(Unchanged) /\ Mild(Failure(Unchanged))
  BY UnchangedIsMild, FailureIsMild
<1>2. ASSUME state = "READY"
      PROVE  Mild([flags |-> flags \ {"paused"}, lifecycle |-> "READY", effects |-> <<"warmup">>])
  <2>1. <<"warmup">> \in Seq(MildEffects) /\ <<"warmup">> \in Seq(Effects)
    BY DEF MildEffects, Effects
  <2>2. QED
    BY <2>1 DEF Mild, Results, RunStates, GazeboTypeOK
<1>3. ASSUME state = "RUNNING"
      PROVE  Mild([flags |-> flags, lifecycle |-> "RUNNING", effects |-> <<"activate">>])
  <2>1. <<"activate">> \in Seq(MildEffects) /\ <<"activate">> \in Seq(Effects)
    BY DEF MildEffects, Effects
  <2>2. QED
    BY <2>1 DEF Mild, Results, RunStates, GazeboTypeOK
<1>4. ASSUME state = "FINALIZING"
      PROVE  Mild(Pause(With([Unchanged EXCEPT !.lifecycle = state], {"preempted"}, <<>>)))
  <2> DEFINE moved == [Unchanged EXCEPT !.lifecycle = state]
  <2>1. Mild(moved)
    BY <1>1, <1>4, LifecycleIsMild DEF RunStates
  <2>2. {"preempted"} \in SUBSET MildFlags /\ << >> \in Seq(MildEffects)
    BY DEF MildFlags, Flags
  <2>3. Mild(Pause(With(moved, {"preempted"}, <<>>)))
    <3> HIDE DEF moved
    <3>1. QED
      BY <2>1, <2>2, WithIsMild, PauseIsMild
  <2>4. QED
    BY <2>3
<1>5. QED
  BY <1>1, <1>2, <1>3, <1>4 DEF AcceptRunState

LEMMA CompletionIsMild ==
    ASSUME GazeboTypeOK, NEW valid \in BOOLEAN
    PROVE  Mild(AcceptCompletion(valid))
<1>1. Mild(Unchanged) /\ Mild(Failure(Unchanged))
  BY UnchangedIsMild, FailureIsMild
<1>2. /\ {"source"} \in SUBSET MildFlags /\ {} \in SUBSET MildFlags
      /\ << >> \in Seq(MildEffects) /\ <<"source-finished">> \in Seq(MildEffects)
  BY DEF MildFlags, MildEffects, Flags, Effects, Writes
<1>3. Mild(With(Pause(With(Unchanged, {"source"}, << >>)), {}, <<"source-finished">>))
  BY <1>1, <1>2, WithIsMild, PauseIsMild
<1>4. QED
  BY <1>1, <1>3 DEF AcceptCompletion

\* A finalization asks for one stop, as its last effect, unless one was asked for.
LEMMA FinalizationStopsOnce ==
    ASSUME GazeboTypeOK, NEW terminal \in Requests
    PROVE  \/ AcceptFinalization(terminal) = Unchanged
           \/ /\ "stopRequested" \notin flags
              /\ "stopRequested" \in AcceptFinalization(terminal).flags
              /\ "frozen" \in AcceptFinalization(terminal).flags <=> "frozen" \in flags
              /\ \E e \in Seq(MildEffects) :
                   AcceptFinalization(terminal).effects = Append(e, "stop")
<1>1. Mild(Unchanged) /\ Mild(Failure(Unchanged))
  BY UnchangedIsMild, FailureIsMild
<1>2. CASE "stopRequested" \in flags
  BY <1>2 DEF AcceptFinalization
<1>3. CASE "stopRequested" \notin flags
  <2> DEFINE checked == IF terminal = "COMPLETED" /\ "source" \notin flags
                        THEN Failure(Unchanged) ELSE Unchanged
             moved == [checked EXCEPT !.lifecycle = "FINALIZING"]
             stopping == With(moved, {"preempted", "stopRequested"}, << >>)
             begun == Begin(Pause(stopping))
             Stopping(r) == /\ r \in Results /\ r.effects \in Seq(MildEffects)
                            /\ "stopRequested" \in r.flags
                            /\ "frozen" \in r.flags <=> "frozen" \in flags
  <2>1. Mild(moved)
    BY <1>1, LifecycleIsMild DEF RunStates
  <2>2. Stopping(stopping)
    <3> HIDE DEF moved
    <3>1. moved \in Results /\ moved.effects \in Seq(MildEffects)
      BY <2>1 DEF Mild
    <3>2. moved.effects \o << >> = moved.effects
      BY <3>1, ConcatEmptySeq
    <3>3. /\ stopping \in Results /\ stopping.effects = moved.effects
          /\ stopping.flags = moved.flags \cup {"preempted", "stopRequested"}
      BY <3>1, <3>2 DEF With, Results, Flags
    <3>4. QED
      BY <2>1, <3>1, <3>3 DEF Mild
  <2>3. ASSUME NEW r, Stopping(r), NEW set \in SUBSET MildFlags, NEW e \in Seq(MildEffects)
        PROVE  Stopping(With(r, set, e))
    <3>1. r \in Results /\ r.effects \in Seq(MildEffects)
      BY <2>3
    <3>2. r.effects \o e \in Seq(MildEffects) /\ r.effects \o e \in Seq(Effects)
      <4>1. e \in Seq(Effects) /\ r.effects \in Seq(Effects)
        BY <2>3, <3>1 DEF MildEffects, Results
      <4>2. QED
        BY <2>3, <3>1, <4>1, ConcatProperties
    <3>3. /\ With(r, set, e).flags = r.flags \cup set
          /\ With(r, set, e).effects = r.effects \o e
          /\ With(r, set, e) \in Results
      BY <2>3, <3>1, <3>2 DEF With, Results, MildFlags
    <3>4. QED
      BY <2>3, <3>2, <3>3 DEF MildFlags
  <2>4. Stopping(begun)
    <3>1. /\ {"paused"} \in SUBSET MildFlags /\ {"begun"} \in SUBSET MildFlags
          /\ <<"pause">> \in Seq(MildEffects) /\ <<"begin">> \in Seq(MildEffects)
      BY DEF MildFlags, MildEffects, Flags, Effects
    <3> HIDE DEF stopping, Stopping
    <3>2. Stopping(Pause(stopping))
      BY <2>2, <2>3, <3>1 DEF Pause
    <3>3. QED
      BY <2>3, <3>1, <3>2 DEF Begin
  <2>5. AcceptFinalization(terminal) = With(begun, {}, <<"stop">>)
    BY <1>3 DEF AcceptFinalization
  <2> HIDE DEF begun
  <2>6. /\ With(begun, {}, <<"stop">>).flags = begun.flags
        /\ With(begun, {}, <<"stop">>).effects = begun.effects \o <<"stop">>
    BY <2>4 DEF With, Results
  <2>7. begun.effects \o <<"stop">> = Append(begun.effects, "stop")
    <3>1. begun.effects \in Seq(Effects) /\ "stop" \in Effects
      BY <2>4 DEF Results, Effects
    <3>2. QED
      BY <3>1, AppendIsConcat
  <2>8. QED
    BY <1>3, <2>4, <2>5, <2>6, <2>7
<1>4. QED
  BY <1>2, <1>3

\* Mild effects do not stop; a stop after them is the last.
LEMMA MildEnd ==
    ASSUME NEW e \in Seq(MildEffects)
    PROVE  /\ ~ Has(e, "stop") /\ ~ Has(e, "quiescence") /\ AtEnd(e, "stop")
           /\ Has(Append(e, "stop"), "stop") /\ ~ Has(Append(e, "stop"), "quiescence")
           /\ AtEnd(Append(e, "stop"), "stop")
<1>1. \A k \in 1..Len(e) : e[k] \in MildEffects
  BY ElementOfSeq
<1>2. ~ Has(e, "stop") /\ ~ Has(e, "quiescence") /\ AtEnd(e, "stop")
  BY <1>1 DEF Has, AtEnd, MildEffects
<1>3. /\ Len(e) \in Nat /\ Len(Append(e, "stop")) = Len(e) + 1
      /\ \A k \in 1..Len(e) : Append(e, "stop")[k] = e[k]
      /\ Append(e, "stop")[Len(e) + 1] = "stop"
  BY AppendProperties
<1>4. Has(Append(e, "stop"), "stop")
  BY <1>3 DEF Has
<1>5. ASSUME NEW k \in 1..Len(Append(e, "stop"))
      PROVE  /\ Append(e, "stop")[k] # "quiescence"
             /\ Append(e, "stop")[k] = "stop" => k = Len(Append(e, "stop"))
  BY <1>1, <1>3 DEF MildEffects
<1>6. QED
  BY <1>2, <1>4, <1>5 DEF Has, AtEnd

\* The tail keeps what stands at the end, and is empty behind it.
LEMMA TailEnd ==
    ASSUME NEW S, NEW s \in Seq(S), s # << >>, NEW x, AtEnd(s, x)
    PROVE  AtEnd(Tail(s), x) /\ (Head(s) = x => Tail(s) = << >>)
<1> DEFINE t == Tail(s)
           n == Len(s)
<1>1. /\ Head(s) = s[1] /\ t \in Seq(S) /\ Len(t) = n - 1
      /\ \A i \in 1..Len(t) : t[i] = s[i + 1]
  BY HeadTailProperties
<1>2. n \in Nat /\ n # 0
  BY EmptySeq, LenProperties
<1>3. \A k \in 1..n : s[k] = x => k = n
  BY DEF AtEnd
<1>4. Len(t) = 0 => t = << >>
  BY <1>1, EmptySeq
<1>5. (\A k \in 1..Len(t) : t[k] = x => k = Len(t)) /\ (Head(s) = x => Len(t) = 0)
  <2> HIDE DEF t, n
  <2>1. ASSUME NEW k \in 1..Len(t), t[k] = x PROVE k = Len(t)
    <3>1. k + 1 \in 1..n /\ s[k + 1] = x
      BY <1>1, <1>2, <2>1
    <3>2. k + 1 = n
      BY <1>3, <3>1
    <3>3. QED
      BY <1>1, <1>2, <3>2
  <2>2. ASSUME Head(s) = x PROVE Len(t) = 0
    <3>1. 1 \in 1..n /\ s[1] = x
      BY <1>1, <1>2, <2>2
    <3>2. 1 = n
      BY <1>3, <3>1
    <3>3. QED
      BY <1>1, <3>2
  <2>3. QED
    BY <2>1, <2>2
<1>6. QED
  BY <1>4, <1>5 DEF AtEnd

\* What an event does to a model that is not frozen.
LEMMA AcceptStopsOnce ==
    ASSUME GazeboTypeOK, "frozen" \notin flags, NEW event \in Events
    PROVE  \/ Mild(Accept(event))
           \/ /\ "stopRequested" \notin flags
              /\ "stopRequested" \in Accept(event).flags
              /\ "frozen" \notin Accept(event).flags
              /\ \E e \in Seq(MildEffects) : Accept(event).effects = Append(e, "stop")
           \/ /\ event = "STOPPED" /\ Accept(event).effects = <<"quiescence">>
              /\ Accept(event).flags = flags \cup {"frozen"}
<1> DEFINE Stops(r) == /\ "stopRequested" \notin flags
                       /\ "stopRequested" \in r.flags
                       /\ "frozen" \notin r.flags
                       /\ \E e \in Seq(MildEffects) : r.effects = Append(e, "stop")
           Freezes(r) == /\ event = "STOPPED" /\ r.effects = <<"quiescence">>
                         /\ r.flags = flags \cup {"frozen"}
           Once(r) == Mild(r) \/ Stops(r) \/ Freezes(r)
<1>1. Mild(Unchanged) /\ Mild(Failure(Unchanged))
  BY UnchangedIsMild, FailureIsMild
<1>2. \A terminal \in Requests : Once(AcceptFinalization(terminal))
  BY <1>1, FinalizationStopsOnce
<1>3. event = "STOPPED" => Once(AcceptStopped)
  <2>1. CASE "stopFailed" \in flags
    BY <1>1, <2>1 DEF AcceptStopped
  <2>2. CASE "stopFailed" \notin flags
    <3>1. << >> \o <<"quiescence">> = <<"quiescence">>
      OBVIOUS
    <3>2. /\ AcceptStopped.flags = flags \cup {"frozen"}
          /\ AcceptStopped.effects = <<"quiescence">>
      BY <2>2, <3>1 DEF AcceptStopped, With, Unchanged
    <3>3. QED
      BY <3>2
  <2>3. QED
    BY <2>1, <2>2
<1>4. /\ \A f \in {"stopFailed", "artifactsReady", "exchange"} : {f} \in SUBSET MildFlags
      /\ << >> \in Seq(MildEffects)
  BY DEF MildFlags, Flags
<1>5. Mild(With(Failure(Unchanged), {"stopFailed"}, <<>>))
  BY <1>1, <1>4, WithIsMild
<1>6. \A f \in {"artifactsReady", "exchange"} : Mild(Ready(With(Unchanged, {f}, <<>>)))
  BY <1>1, <1>4, WithIsMild, ReadyIsMild
<1>7. \A state \in RunStates : Mild(AcceptRunState(state))
  BY RunStateIsMild
<1>8. \A valid \in BOOLEAN : Mild(AcceptCompletion(valid))
  BY CompletionIsMild
<1>9. \A r : Mild(r) => Once(r)
  OBVIOUS
<1>10. Once(Accept(event))
  <2> HIDE DEF Once
  <2>1. QED
    BY <1>1, <1>2, <1>3, <1>5, <1>6, <1>7, <1>8, <1>9 DEF Accept
<1>11. QED
  BY <1>10

LEMMA QuietInit == GazeboInit => QuietInv
  BY DEF GazeboInit, QuietInv, Asked, Answered, Has, AtEnd

\* The exception handler drops the events and asks for the stop, once.
LEMMA QuietRaises ==
    ASSUME GazeboInv, QuietInv, Raise, UNCHANGED <<children, server, facts>>
    PROVE  QuietInv'
<1> DEFINE r == AcceptFinalization("OTHER")
<1>1. /\ inbox' = << >> /\ pc' \in {"failed", "apply"}
      /\ \/ todo' = << >> /\ flags' = flags
         \/ todo' = r.effects /\ flags' = r.flags
  BY DEF Raise, modelVars
<1>2. ~ Answered' /\ AtEnd(inbox', "STOPPED")
  BY <1>1 DEF Answered, Has, AtEnd
<1>3. Unchanged.flags = flags /\ Unchanged.effects = << >>
  BY DEF Unchanged
<1>4. CASE todo' = << >> /\ flags' = flags
  <2>1. ~ Asked' /\ ~ Has(todo', "quiescence") /\ AtEnd(todo', "stop")
    BY <1>4 DEF Asked, Has, AtEnd
  <2>2. QED
    BY <1>1, <1>2, <1>4, <2>1 DEF QuietInv
<1>5. CASE ~ (todo' = << >> /\ flags' = flags)
  <2>1. r # Unchanged /\ todo' = r.effects /\ flags' = r.flags
    BY <1>1, <1>3, <1>5
  <2>2. PICK e \in Seq(MildEffects) : r.effects = Append(e, "stop")
    BY <2>1, FinalizationStopsOnce DEF GazeboInv, Requests
  <2>3. /\ "stopRequested" \notin flags /\ "stopRequested" \in r.flags
        /\ "frozen" \in r.flags <=> "frozen" \in flags
    BY <2>1, FinalizationStopsOnce DEF GazeboInv, Requests
  <2>4. "frozen" \notin flags'
    BY <2>1, <2>3 DEF QuietInv
  <2>5. Asked' /\ ~ Has(todo', "quiescence") /\ AtEnd(todo', "stop")
    BY <2>1, <2>2, MildEnd DEF Asked
  <2>6. QED
    BY <1>1, <1>2, <2>1, <2>3, <2>4, <2>5 DEF QuietInv
<1>6. QED
  BY <1>4, <1>5

\* Outside of apply and drain, an event may come in; it is not STOPPED.
LEMMA QuietPolls ==
    ASSUME GazeboInv, QuietInv,
           pc \in {"spin", "release", "probe", "artifacts", "children", "request"},
           UNCHANGED <<flags, todo, children, server, facts>>,
           \/ inbox' = inbox
           \/ \E event \in Events \ {"STOPPED"} : Post(event)
    PROVE  QuietInv'
<1>1. "frozen" \notin flags /\ ~ Answered
  BY DEF QuietInv
<1>2. ~ Answered'
  BY <1>1, PostKeeps DEF Answered
<1>3. AtEnd(inbox', "STOPPED")
  BY <1>2 DEF Answered, Has, AtEnd
<1>4. QED
  BY <1>1, <1>2, <1>3 DEF QuietInv, Asked

LEMMA QuietDrain == ASSUME GazeboInv, QuietInv, Drain PROVE QuietInv'
<1> DEFINE event == Head(inbox)
           r == Accept(event)
<1>1. /\ pc = "drain" /\ inbox \in Seq(Events) /\ inbox # << >>
      /\ UNCHANGED <<children, server, facts>>
  BY DEF Drain, GazeboInv, GazeboTypeOK, processVars
<1>2. event \in Events /\ Has(inbox, event)
  <2>1. event \in Events
    BY <1>1, HeadTailProperties
  <2>2. QED
    BY <1>1, <2>1, HasParts
<1>3. \A x : Has(Tail(inbox), x) => Has(inbox, x)
  BY <1>1, <1>2, HasParts, Zenon
<1>4. /\ AtEnd(Tail(inbox), "STOPPED")
      /\ event = "STOPPED" => Tail(inbox) = << >>
  BY <1>1, TailEnd DEF QuietInv
<1>5. "frozen" \notin flags
  BY <1>1 DEF QuietInv
<1>6. CASE Refused(event)
  BY <1>5, <1>6 DEF Refused
<1>7. CASE ~ Refused(event)
  <2>1. /\ flags' = r.flags /\ todo' = r.effects /\ inbox' = Tail(inbox)
        /\ pc' \in {"drain", "apply"}
    BY <1>7 DEF Drain
  <2>2. event # "STOPPED" /\ Answered' => Answered
    BY <1>3, <2>1 DEF Answered
  <2>3. event = "STOPPED" => Answered /\ ~ Answered' /\ inbox' = << >>
    <3>1. ~ Has(<< >>, "STOPPED")
      BY DEF Has
    <3>2. QED
      BY <1>2, <1>4, <2>1, <3>1 DEF Answered
  <2>4. CASE Mild(r)
    <3>1. ~ Asked' /\ ~ Has(todo', "quiescence") /\ AtEnd(todo', "stop")
      BY <2>1, <2>4, MildEnd DEF Mild, Asked
    <3>2. "frozen" \notin flags' /\ ("stopRequested" \in flags => "stopRequested" \in flags')
      BY <1>5, <2>1, <2>4 DEF Mild
    <3>3. QED
      BY <1>1, <1>4, <2>1, <2>2, <2>3, <3>1, <3>2 DEF QuietInv
  <2>5. CASE /\ "stopRequested" \notin flags /\ "stopRequested" \in r.flags
             /\ "frozen" \notin r.flags
             /\ \E e \in Seq(MildEffects) : r.effects = Append(e, "stop")
    <3>1. Asked' /\ ~ Has(todo', "quiescence") /\ AtEnd(todo', "stop")
      BY <2>1, <2>5, MildEnd DEF Asked
    <3>2. ~ Answered'
      BY <2>2, <2>3, <2>5 DEF QuietInv
    <3>3. QED
      BY <1>1, <1>4, <2>1, <2>5, <3>1, <3>2 DEF QuietInv
  <2>6. CASE event = "STOPPED" /\ r.effects = <<"quiescence">> /\ r.flags = flags \cup {"frozen"}
    <3>1. ~ Asked' /\ AtEnd(todo', "stop")
      BY <2>1, <2>6 DEF Asked, Has, AtEnd
    <3>2. /\ children = "stopped" /\ server = "stopped" /\ "stopRequested" \in flags
      BY <2>3, <2>6 DEF QuietInv
    <3>3. QED
      BY <1>1, <1>4, <2>1, <2>3, <2>6, <3>1, <3>2 DEF QuietInv
  <2>7. QED
    BY <1>2, <1>5, <2>4, <2>5, <2>6, AcceptStopsOnce DEF GazeboInv
<1>8. QED
  BY <1>6, <1>7

\* Applying an effect: the write of the marker and the stop are what matters.
LEMMA QuietEffects ==
    ASSUME GazeboInv, QuietInv,
           \/ ApplyWrite \/ ApplyWarmup \/ ApplyPause \/ ApplyActivate \/ ApplyBegin \/ ApplyStop
    PROVE  QuietInv'
<1> USE DEF processVars
<1>1. todo \in Seq(Effects) /\ inbox \in Seq(Events) /\ pc = "apply" /\ todo # << >>
  BY DEF ApplyWrite, ApplyWarmup, ApplyPause, ApplyActivate, ApplyBegin, ApplyStop,
         GazeboInv, GazeboTypeOK
<1>2. ASSUME Applied
      PROVE  /\ pc' \in {"drain", "apply"} /\ flags' = flags
             /\ Has(todo, Head(todo)) /\ \A x : Has(todo', x) => Has(todo, x)
             /\ AtEnd(todo', "stop") /\ (Head(todo) = "stop" => todo' = << >>)
  <2>1. todo' = Tail(todo)
    BY <1>2 DEF Applied
  <2>2. AtEnd(Tail(todo), "stop") /\ (Head(todo) = "stop" => Tail(todo) = << >>)
    BY <1>1, TailEnd DEF QuietInv
  <2>3. QED
    BY <1>1, <1>2, <2>1, <2>2, AppliedKeeps
<1>3. CASE Raise /\ UNCHANGED <<children, server, facts>>
  BY <1>3, QuietRaises
<1>4. CASE Applied /\ UNCHANGED <<inbox, children, server>>
           /\ (facts' = facts \/ facts' = facts \cup {Head(todo)})
  <2>1. "quiescence" \in facts' => "quiescence" \in facts \/ Has(todo, "quiescence")
    BY <1>2, <1>4
  <2>2. Asked' => Asked
    BY <1>2, <1>4 DEF Asked
  <2>3. QED
    BY <1>2, <1>4, <2>1, <2>2 DEF QuietInv, Answered
<1>5. CASE ApplyStop
  <2>1. /\ Applied /\ Head(todo) = "stop" /\ facts' = facts
        /\ \/ children' = "stopped" /\ server' = "stopped" /\ inbox' = Append(inbox, "STOPPED")
           \/ /\ children' \in {children, "stopped"} /\ server' \in {server, "stopped"}
              /\ inbox' = Append(inbox, "STOP_FAILED")
    BY <1>5 DEF ApplyStop, Post
  <2>2. Asked /\ ~ Answered /\ "frozen" \notin flags /\ "stopRequested" \in flags
    BY <1>2, <2>1 DEF QuietInv, Asked
  <2>3. ~ Asked' /\ ~ Has(todo', "quiescence")
    <3>1. \A x : ~ Has(<< >>, x)
      BY DEF Has
    <3>2. QED
      BY <1>2, <2>1, <3>1 DEF Asked
  <2>4. /\ AtEnd(inbox', "STOPPED")
        /\ Answered' => inbox' = Append(inbox, "STOPPED")
    <3>1. \A e \in Events : /\ Len(inbox) \in Nat /\ Len(Append(inbox, e)) = Len(inbox) + 1
                            /\ \A k \in 1..Len(inbox) : Append(inbox, e)[k] = inbox[k]
                            /\ Append(inbox, e)[Len(inbox) + 1] = e
      BY <1>1, AppendProperties
    <3>2. "STOPPED" \in Events /\ "STOP_FAILED" \in Events
      BY DEF Events
    <3>3. \A k \in 1..Len(inbox) : inbox[k] # "STOPPED"
      BY <2>2 DEF Answered, Has
    <3>4. \A k \in 1..Len(inbox') : inbox'[k] = "STOPPED" => k = Len(inbox')
      BY <2>1, <3>1, <3>2, <3>3
    <3>5. CASE inbox' = Append(inbox, "STOP_FAILED")
      <4>1. ~ Has(inbox', "STOPPED")
        BY <3>1, <3>2, <3>3, <3>5 DEF Has
      <4>2. QED
        BY <3>4, <4>1 DEF AtEnd, Answered
    <3>6. QED
      BY <2>1, <3>4, <3>5 DEF AtEnd
  <2>5. /\ Answered' => children' = "stopped" /\ server' = "stopped"
        /\ "quiescence" \in facts => children' = "stopped" /\ server' = "stopped"
    <3>1. "STOPPED" # "STOP_FAILED"
      OBVIOUS
    <3>2. CASE children' = "stopped" /\ server' = "stopped"
      BY <3>2
    <3>3. CASE /\ children' \in {children, "stopped"} /\ server' \in {server, "stopped"}
               /\ inbox' = Append(inbox, "STOP_FAILED")
      <4>1. Append(inbox, "STOP_FAILED") # Append(inbox, "STOPPED")
        <5>1. /\ Append(inbox, "STOP_FAILED")[Len(inbox) + 1] = "STOP_FAILED"
              /\ Append(inbox, "STOPPED")[Len(inbox) + 1] = "STOPPED"
          BY <1>1, AppendProperties DEF Events
        <5>2. QED
          BY <3>1, <5>1
      <4>2. QED
        BY <2>4, <3>3, <4>1 DEF QuietInv
    <3>4. QED
      BY <2>1, <3>2, <3>3
  <2>6. QED
    BY <1>2, <2>1, <2>2, <2>3, <2>4, <2>5 DEF QuietInv
<1>6. CASE \/ ApplyWrite \/ ApplyWarmup \/ ApplyPause \/ ApplyActivate \/ ApplyBegin
  BY <1>3, <1>4, <1>6 DEF ApplyWrite, ApplyWarmup, ApplyPause, ApplyActivate, ApplyBegin
<1>7. QED
  BY <1>5, <1>6

\* What happens around the loop stops nothing and starts nothing again.
LEMMA QuietSurroundings ==
    ASSUME QuietInv, UNCHANGED <<flags, pc, inbox, todo, server>>,
           children' = children \/ children = "up",
           "quiescence" \in facts' => "quiescence" \in facts
    PROVE  QuietInv'
  BY DEF QuietInv, Asked, Answered

LEMMA QuietStepInv == GazeboInv /\ QuietInv /\ [GazeboNext]_gazeboVars => QuietInv'
<1> SUFFICES ASSUME GazeboInv, QuietInv, [GazeboNext]_gazeboVars PROVE QuietInv'
  OBVIOUS
<1> USE DEF modelVars, loopVars, processVars, peerVars
<1>1. /\ RunStates \subseteq Events \ {"STOPPED"} /\ Requests \subseteq Events \ {"STOPPED"}
      /\ {"ARTIFACTS", "EXCHANGE", "EXITED", "VALID_SUMMARY", "INVALID_SUMMARY"}
           \subseteq Events \ {"STOPPED"}
      /\ topic \in RunStates /\ request \in Requests \cup {"none"}
  BY DEF Events, RunStates, Requests, GazeboInv, GazeboTypeOK
<1>2. CASE SpinTimeout \/ TakeRunState \/ AdapterFails
  BY <1>1, <1>2, QuietPolls DEF SpinTimeout, TakeRunState, AdapterFails, Go
<1>3. CASE \E exact \in BOOLEAN : LatchEpoch(exact)
  BY <1>3, QuietPolls DEF LatchEpoch, Go
<1>4. CASE \E valid \in BOOLEAN : Complete(valid)
  BY <1>1, <1>4, QuietPolls DEF Complete, Go
<1>5. CASE Release
  BY <1>5, QuietPolls, QuietRaises DEF Release, Go
<1>6. CASE Probe
  BY <1>1, <1>6, QuietPolls, QuietRaises DEF Probe, Go
<1>7. CASE PollArtifacts \/ PollChildren
  BY <1>1, <1>7, QuietPolls DEF PollArtifacts, PollChildren, Go
<1>8. CASE PollRequest
  BY <1>1, <1>8, QuietPolls DEF PollRequest, Go
<1>9. CASE Drain
  BY <1>9, QuietDrain
<1>10. CASE Drained
  <2>1. /\ inbox = << >> /\ UNCHANGED <<flags, inbox, todo, children, server, facts>>
        /\ "frozen" \in flags => pc' \in {"failed", "quiescent"}
    BY <1>10 DEF Drained, Go
  <2>2. ~ Answered
    BY <2>1 DEF Answered, Has
  <2>3. QED
    BY <2>1, <2>2 DEF QuietInv, Asked, Answered
<1>11. CASE \/ ApplyWrite \/ ApplyWarmup \/ ApplyPause \/ ApplyActivate \/ ApplyBegin
            \/ ApplyStop
  BY <1>11, QuietEffects
<1>12. CASE UnpauseLands \/ UnpauseLost \/ Tick \/ ChildDies
  BY <1>12, QuietSurroundings DEF UnpauseLands, UnpauseLost, Tick, ChildDies
<1>13. CASE \E fact \in {"artifacts-ready", "exchange", "delivered"} : PeerWrites(fact)
  BY <1>13, QuietSurroundings DEF PeerWrites
<1>14. CASE \E terminal \in Requests : RequestFinalization(terminal)
  BY <1>14, QuietSurroundings DEF RequestFinalization
<1>15. CASE \E state \in RunStates \ {"STARTING"} : PublishState(state)
  BY <1>15, QuietSurroundings DEF PublishState
<1>16. CASE UNCHANGED gazeboVars
  BY <1>16, QuietSurroundings DEF gazeboVars
<1>17. QED
  BY <1>2, <1>3, <1>4, <1>5, <1>6, <1>7, <1>8, <1>9, <1>10, <1>11, <1>12, <1>13, <1>14,
     <1>15, <1>16 DEF GazeboNext, LoopNext

\* Whatever fails, and whether main() or its exception handler asked for the
\* stop, the quiescence marker is written only when the bridges and the server
\* were stopped, and the frozen model leaves no event behind.
THEOREM QuiescenceEarned == GazeboSpec => []QuiescenceIsEarned
<1>1. QuietInv => QuiescenceIsEarned
  BY DEF QuietInv, QuiescenceIsEarned
<1>2. QED
  BY <1>1, QuietInit, QuietStepInv, GazeboInvariant, PTL DEF GazeboSpec
=============================================================================
