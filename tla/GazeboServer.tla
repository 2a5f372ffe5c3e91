---------------------------- MODULE GazeboServer ----------------------------
(***************************************************************************)
(* GazeboServer of the Gazebo container: it spawns the simulator in a      *)
(* session of its own, and on stop() ends the whole process group, then    *)
(* compresses the native state log and publishes server.log, all before    *)
(* one absolute deadline.                                                  *)
(*                                                                         *)
(* The group has a leader, whose pid names the group, and may have one     *)
(* more member.  The leader stays a zombie until it is reaped, which keeps *)
(* its pid from being given to somebody else.  gzTime counts the deadlines *)
(* of stop() that passed: that of the SIGTERM phase, then the absolute     *)
(* one; gzFaults are system calls that fail for reasons of their own.      *)
(***************************************************************************)
EXTENDS Naturals

CONSTANT MaxGzFaults

ASSUME GzAssumption == MaxGzFaults \in Nat

VARIABLES
    gpc,         \* where the owner of the server is
    leader,      \* the leader: none, alive, zombie, reaped
    member,      \* another member of the group is alive
    reused,      \* the leader's pid was given to a stranger
    strangerHit, \* a signal reached the stranger
    sent,        \* signals sent: 0, 1 (SIGTERM), 2 (SIGTERM, SIGKILL)
    gzTime,
    tlog,        \* state.tlog: none, exists, removed
    zst,         \* state.tlog.zst: none, partial, linked (the .partial name still there), final
    serverLog,   \* server.log: none, partial, linked (both names), final
    gzFaults

groupVars == <<leader, member, reused, strangerHit>>
gzFileVars == <<tlog, zst, serverLog>>
gzVars == <<gpc, groupVars, sent, gzTime, gzFileVars, gzFaults>>

GzStopping ==
    {"probe", "signal", "wait", "quiescence", "reap", "seal", "state", "zstd", "zlink",
     "zclean", "zremove", "compressed", "slink", "commit"}

GzTypeOK ==
    /\ gpc \in GzStopping \cup {"new", "running", "stopped", "failed"}
    /\ leader \in {"none", "alive", "zombie", "reaped"}
    /\ member \in BOOLEAN /\ reused \in BOOLEAN /\ strangerHit \in BOOLEAN
    /\ sent \in 0 .. 2 /\ gzTime \in 0 .. 2
    /\ tlog \in {"none", "exists", "removed"}
    /\ zst \in {"none", "partial", "linked", "final"}
    /\ serverLog \in {"none", "partial", "linked", "final"}
    /\ gzFaults \in 0 .. MaxGzFaults

GzInit ==
    /\ gpc = "new"
    /\ leader = "none" /\ member = FALSE /\ reused = FALSE /\ strangerHit = FALSE
    /\ sent = 0 /\ gzTime = 0
    /\ tlog = "none" /\ zst = "none" /\ serverLog = "none"
    /\ gzFaults = 0

GzFault == gzFaults < MaxGzFaults /\ gzFaults' = gzFaults + 1

-----------------------------------------------------------------------------
(* The processes (external).                                                *)

\* The simulator writes its state log, starts a helper, or ends by itself.
SimulatorActs ==
    /\ leader = "alive"
    /\ \/ tlog' = "exists" /\ tlog = "none" /\ UNCHANGED <<leader, member>>
       \/ member' = TRUE /\ gpc = "running" /\ UNCHANGED <<leader, tlog>>
       \/ leader' = "zombie" /\ UNCHANGED <<member, tlog>>
    /\ UNCHANGED <<gpc, reused, strangerHit, sent, gzTime, zst, serverLog, gzFaults>>

MemberExits ==
    /\ member
    /\ member' = FALSE
    /\ UNCHANGED <<gpc, leader, reused, strangerHit, sent, gzTime, gzFileVars, gzFaults>>

\* SIGKILL cannot be ignored.
Killed ==
    /\ sent = 2 /\ (leader = "alive" \/ member)
    /\ leader' = (IF leader = "alive" THEN "zombie" ELSE leader)
    /\ member' = FALSE
    /\ UNCHANGED <<gpc, reused, strangerHit, sent, gzTime, gzFileVars, gzFaults>>

PidIsReused ==
    /\ leader = "reaped" /\ ~member /\ ~reused
    /\ reused' = TRUE
    /\ UNCHANGED <<gpc, leader, member, strangerHit, sent, gzTime, gzFileVars, gzFaults>>

GzTimePasses ==
    /\ gpc \in GzStopping /\ gzTime < 2
    /\ gzTime' = gzTime + 1
    /\ UNCHANGED <<gpc, groupVars, sent, gzFileVars, gzFaults>>

-----------------------------------------------------------------------------
(* start().                                                                 *)

\* The preamble is durable before the child exists; a failure is latched.
StartServer ==
    /\ gpc = "new"
    /\ \/ /\ gpc' = "running" /\ leader' = "alive" /\ serverLog' = "partial"
          /\ UNCHANGED gzFaults
       \/ /\ gpc' = "failed" /\ serverLog' \in {"none", "partial"} /\ GzFault
          /\ UNCHANGED leader
    /\ UNCHANGED <<member, reused, strangerHit, sent, gzTime, tlog, zst>>

-----------------------------------------------------------------------------
(* _stop_process().                                                         *)

StopServer ==
    /\ gpc = "running"
    /\ gpc' = "probe"
    /\ UNCHANGED <<groupVars, sent, gzTime, gzFileVars, gzFaults>>

\* A call of stop() raises: the failure is latched, the log handle dropped, the
\* directories closed, and the processes are left as they are.  In zstd's phase the
\* .partial name is removed.
StopFails ==
    /\ gpc \in GzStopping
    /\ \/ gzTime = 2 /\ gpc \notin {"zlink", "zclean", "zremove"} /\ UNCHANGED gzFaults
       \/ GzFault
    /\ gpc' = "failed"
    /\ zst' = IF zst = "partial" THEN "none" ELSE zst
    /\ UNCHANGED <<groupVars, sent, gzTime, tlog, serverLog>>

\* Mutant: only the leader is asked for.
GroupIsLeader == leader = "alive"

\* _linux_process_group_exists: zombies do not count.
GroupExists == leader = "alive" \/ member

\* The first probe: an empty group needs no signal.
ProbeGroup ==
    /\ gpc = "probe" /\ gzTime < 2
    /\ gpc' = IF GroupExists THEN "signal" ELSE "reap"
    /\ UNCHANGED <<groupVars, sent, gzTime, gzFileVars, gzFaults>>

\* One round of the loop over SIGTERM and SIGKILL: probe again, verify the retained
\* leader's group, signal the group.
SignalGroup ==
    /\ gpc = "signal" /\ gzTime < 2
    /\ IF ~GroupExists \/ sent = 2
       THEN gpc' = "quiescence" /\ UNCHANGED <<sent, strangerHit>>
       ELSE IF leader = "reaped"
       THEN gpc' = "failed" /\ UNCHANGED <<sent, strangerHit>>
       ELSE /\ sent' = sent + 1 /\ gpc' = "wait"
            /\ strangerHit' = (strangerHit \/ reused)
    /\ UNCHANGED <<leader, member, reused, gzTime, gzFileVars, gzFaults>>

\* _wait_for_group_empty: until the phase's deadline, half of what remained at SIGTERM
\* and all of it at SIGKILL.
WaitForGroupEmpty ==
    /\ gpc = "wait"
    /\ \/ ~GroupExists /\ gpc' = "quiescence"
       \/ gzTime >= sent /\ gpc' = (IF sent = 1 THEN "signal" ELSE "quiescence")
    /\ UNCHANGED <<groupVars, sent, gzTime, gzFileVars, gzFaults>>

\* The final probe: a group that is still there is a timeout.
Quiescence ==
    /\ gpc = "quiescence" /\ gzTime < 2
    /\ gpc' = IF GroupExists THEN "failed" ELSE "reap"
    /\ UNCHANGED <<groupVars, sent, gzTime, gzFileVars, gzFaults>>

\* _wait_for_leader_exit and _reap_leader: the leader's pid is given back only now.
ReapLeader ==
    /\ gpc = "reap" /\ gzTime < 2
    /\ leader = "zombie"
    /\ leader' = "reaped" /\ gpc' = "seal"
    /\ UNCHANGED <<member, reused, strangerHit, sent, gzTime, gzFileVars, gzFaults>>

-----------------------------------------------------------------------------
(* Evidence.                                                                *)

\* _seal_log, _acquire_native_state_directory, _verify_owned_directories.
SealServerLog ==
    /\ gpc = "seal" /\ gzTime < 2
    /\ gpc' = "state"
    /\ UNCHANGED <<groupVars, sent, gzTime, gzFileVars, gzFaults>>

\* _validate_native_state and _verify_native_state_binding: a state log that is missing
\* or empty fails the stop.
ValidateNativeState ==
    /\ gpc = "state" /\ gzTime < 2
    /\ gpc' = IF tlog = "exists" THEN "zstd" ELSE "failed"
    /\ UNCHANGED <<groupVars, sent, gzTime, gzFileVars, gzFaults>>

\* _compress_state_log: zstd writes the .partial name, which is tested and synced.
RunZstd ==
    /\ gpc = "zstd" /\ gzTime < 2
    /\ IF zst = "none" THEN zst' = "partial" /\ UNCHANGED gpc
       ELSE gpc' = "zlink" /\ UNCHANGED zst
    /\ UNCHANGED <<groupVars, sent, gzTime, tlog, serverLog, gzFaults>>

\* The rest of _compress_state_log, without a deadline: link, remove the .partial name,
\* remove the source.
LinkCompressed ==
    /\ gpc \in {"zlink", "zclean", "zremove"}
    /\ \/ gpc = "zlink" /\ zst' = "linked" /\ gpc' = "zclean" /\ UNCHANGED tlog
       \/ gpc = "zclean" /\ zst' = "final" /\ gpc' = "zremove" /\ UNCHANGED tlog
       \/ gpc = "zremove" /\ tlog' = "removed" /\ gpc' = "compressed" /\ UNCHANGED zst
    /\ UNCHANGED <<groupVars, sent, gzTime, serverLog, gzFaults>>

\* _publish_log: the final name is linked and made durable, then the .partial name is
\* removed.  That is the commit point: nothing after it can fail.
PublishLog ==
    /\ gpc \in {"compressed", "slink", "commit"} /\ gzTime < 2
    /\ \/ gpc = "compressed" /\ serverLog' = "linked" /\ gpc' = "slink"
       \/ gpc = "slink" /\ gpc' = "commit" /\ UNCHANGED serverLog
       \/ gpc = "commit" /\ serverLog' = "final" /\ gpc' = "stopped"
    /\ UNCHANGED <<groupVars, sent, gzTime, tlog, zst, gzFaults>>

\* The thread that calls start() and stop().
GzOwner ==
    \/ StartServer \/ StopServer \/ StopFails \/ ProbeGroup \/ SignalGroup \/ WaitForGroupEmpty
    \/ Quiescence \/ ReapLeader \/ SealServerLog \/ ValidateNativeState \/ RunZstd \/ LinkCompressed
    \/ PublishLog

GzNext ==
    \/ GzOwner \/ SimulatorActs \/ MemberExits \/ Killed \/ PidIsReused \/ GzTimePasses

-----------------------------------------------------------------------------
(* Properties.                                                              *)

\* A signal never reaches a process that got the leader's pid after Gazebo was gone:
\* the leader is kept as a zombie until the last signal (_stop_process, start: "possibly
\* reaped / reused leader").
NoStrangerSignalled == ~strangerHit

\* Nobody who could write to them is left when the native state is compressed and the
\* server log gets its final name (_stop_process before the evidence).
EvidenceIsQuiet ==
    zst # "none" \/ serverLog \in {"linked", "final"} => leader = "reaped" /\ ~member

\* The native state is never lost, whatever fails: until the compressed log has its
\* name the uncompressed one is there (_compress_state_log: "without ever deleting an
\* uncompressed failure").
StateIsKept == tlog = "removed" => zst \in {"linked", "final"}

\* Once the .partial name of the log is gone the stop has succeeded; a stop that failed
\* leaves it (_publish_log: "no later clock observation can reverse" the commit).
CommitIsFinal ==
    /\ serverLog = "final" => gpc = "stopped"
    /\ gpc = "stopped" => serverLog = "final" /\ zst = "final" /\ tlog = "removed"

\* What stop() leaves behind is complete and nobody writes to it, and only Gazebo's own
\* processes were signalled on the way.
ServerIsEvidence == NoStrangerSignalled /\ EvidenceIsQuiet /\ StateIsKept /\ CommitIsFinal
=============================================================================
