---------------------------- MODULE PayloadMagnet ----------------------------
(***************************************************************************)
(* What the Gazebo side of the electromagnet promises: one hardpoint that  *)
(* holds at most one payload, and for every payload a line of commands     *)
(* that is served in order of arrival, each at most once.                  *)
(***************************************************************************)
EXTENDS Integers, Sequences

CONSTANTS
    Markers,   \* payload ids
    Ids,       \* command ids
    Held       \* the payloads that are on the hardpoint when the run starts

Actions == {"attach", "detach"}
Commands == [id : Ids, action : Actions]
Answers == [id : Ids, action : Actions, status : {"confirmed", "failed"}]

VARIABLES
    holding,   \* the set of payloads on the hardpoint
    line,      \* [Markers -> Seq(Commands)]: accepted and not yet answered
    answered   \* [Markers -> SUBSET Answers]

magnetVars == <<holding, line, answered>>

Known(m, i) ==
    \/ \E a \in answered[m] : a.id = i
    \/ \E k \in 1..Len(line[m]) : line[m][k].id = i

MagnetInit ==
    /\ holding = Held
    /\ line = [m \in Markers |-> <<>>]
    /\ answered = [m \in Markers |-> {}]

\* The payload at the head of whose line an attach command waits is taken,
\* provided that the hardpoint is free.
Take(m) ==
    /\ holding = {}
    /\ line[m] # <<>> /\ Head(line[m]).action = "attach"
    /\ holding' = {m}
    /\ UNCHANGED <<line, answered>>

\* The payload is dropped for the detach command at the head of its line.
Drop(m) ==
    /\ m \in holding
    /\ line[m] # <<>> /\ Head(line[m]).action = "detach"
    /\ holding' = holding \ {m}
    /\ UNCHANGED <<line, answered>>

\* A confirmation tells the truth about the payload at the moment it is given.
Truthful(m, a) ==
    a.status = "confirmed" => (a.action = "attach" <=> m \in holding)

\* Zero or one new command joins the line and some commands at its head are
\* answered.
Serve(m) ==
    /\ \E added \in {<<>>} \cup {<<c>> : c \in {d \in Commands : ~ Known(m, d.id)}} :
         LET all == line[m] \o added IN
         \E n \in 0..Len(all) :
           \E status \in [1..n -> {"confirmed", "failed"}] :
             LET given == {[id |-> all[k].id, action |-> all[k].action,
                            status |-> status[k]] : k \in 1..n}
             IN /\ \A a \in given : Truthful(m, a)
                /\ answered' = [answered EXCEPT ![m] = @ \cup given]
                /\ line' = [line EXCEPT ![m] = SubSeq(all, n + 1, Len(all))]
    /\ UNCHANGED holding

MagnetNext == \E m \in Markers : Take(m) \/ Drop(m) \/ Serve(m)

MagnetSpec == MagnetInit /\ [][MagnetNext]_magnetVars
=============================================================================
