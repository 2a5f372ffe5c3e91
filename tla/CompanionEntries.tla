-------------------------- MODULE CompanionEntries --------------------------
(***************************************************************************)
(* The two ways a competition is flown: the host of the simulator's run,   *)
(* which calls the mission itself, and the listener of comp2026, which     *)
(* flies on the ground station's commands.  They are processes of their    *)
(* own that never run together, so one of them is looked at while the      *)
(* other has not started.                                                  *)
(***************************************************************************)
EXTENDS CompanionHost, SupervisedAttempt

VARIABLE entry   \* the one that runs; it never changes

entryVars == <<entry, hostVars, attemptVars>>

EntriesInit ==
    /\ entry \in {"host", "listener"}
    /\ HostInit /\ AttemptInit
    /\ entry = "host" => ~sites.known

OnlyHost == entry = "host" /\ UNCHANGED <<entry, attemptVars>>
OnlyListener == entry = "listener" /\ UNCHANGED <<entry, hostVars>>

EntriesNext == (OnlyHost /\ HostNext) \/ (OnlyListener /\ AttemptNext)

\* The threads of the host are scheduled; messages and the clock may cease.  A wait of its
\* main thread may time out, but it is not helped by that: the fairness is of the steps
\* that do not.  The owner thread of the listener is scheduled, and each of its waits has
\* a deadline; radio, telemetry and vehicle owe nothing.
EntriesSpec ==
    /\ EntriesInit /\ [][EntriesNext]_entryVars
    /\ WF_hostVars(entry = "host" /\ HostMain /\ late' = late)
    /\ WF_hostVars(entry = "host" /\ HostWorker)
    /\ WF_hostVars(entry = "host" /\ CompleteFailure)
    /\ WF_attemptVars(entry = "listener" /\ Owner)

-----------------------------------------------------------------------------
(* Properties.                                                              *)

\* Who is asked to end, ends.  The host, on a request to finalize or a signal, however the
\* mission is blocked at the time: everything it waits for is woken.  The listener, on an
\* abort, whatever the vehicle and the radio do: it recovers, once, and lets go.
CompanionEnds ==
    (IF entry = "host" THEN EndAsked ELSE AbortAsked) ~>
        (IF entry = "host" THEN HostEnded ELSE AttemptEnded)
=============================================================================
