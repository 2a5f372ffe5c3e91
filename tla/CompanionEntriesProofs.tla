----------------------- MODULE CompanionEntriesProofs -----------------------
(***************************************************************************)
(* Theorems about the two ways a competition is flown: the host's threads  *)
(* keep out of each other's way, and the listener flies an attempt once,   *)
(* for every number of stamps, events, attempts and failing calls.         *)
(***************************************************************************)
EXTENDS CompanionEntries, FiniteSetTheorems, SequenceTheorems, TLAPS

-----------------------------------------------------------------------------
(* The host. *)

\* The worker is gone, or was never started.
NoWorker == wpc \in {"none", "dead"}

Completing == failing \in {"inputs", "emitter", "write"}

\* The main thread's way out, after the worker was joined.
Leaving == {"shutdown", "close", "recoverLast", "finalize", "done"}

\* GUIDED goes out once, in its window, and is what opens the gate for the worker.
GuidedInv ==
    /\ guided = {} \/ \E t \in 0 .. 1 : guided = {t}
    /\ "command" \in gate <=> guided # {}
    /\ wpc \in {"flying", "blocked", "paying", "retrying", "home"} => guided # {}

\* A failure is latched by one thread, which is on its path to record it until the attempt
\* is stopped.
FailureInv ==
    /\ failing = "none" <=> ~ Failed
    /\ failing \in {"write", "done"} => emitterDown
    /\ "failure" \in hostFacts => failing = "done"
    /\ Completing =>
         /\ failedBy = "worker" => wpc = "failing"
         /\ failedBy = "ros" => executor
         /\ failedBy = "main" => hpc \in {"loop", "housekeep", "finalize"}

\* The main thread leaves only after the others, unless a wait of it was cut short.
LeavingInv ==
    /\ hpc = "connect" => wpc = "none" /\ recovery = "none"
    /\ recovery # "none" => NoWorker /\ Failed
    /\ hpc \in {"recover", "recoverLast"} => recovery # "none"
    /\ hpc \in Leaving /\ ~ late => NoWorker
    /\ hpc \in Leaving \ {"shutdown"} /\ ~ late => ~ executor
    /\ "quiescence" \in hostFacts => hpc = "done" /\ ~ late /\ ~ Completing

HostInv ==
    /\ HostTypeOK
    /\ GuidedInv
    /\ FailureInv
    /\ LeavingInv

LEMMA HostInvInit ==
    HostInit => HostInv
<1> SUFFICES ASSUME HostInit PROVE HostInv
  OBVIOUS
<1>1. 0 \in 0 .. MaxEvents /\ 0 \in 0 .. MaxHostMishaps /\ NoStamp \in 0 .. NoStamp
  BY HostAssumption DEF NoStamp
<1>2. HostTypeOK
  BY <1>1 DEF HostInit, HostTypeOK
<1>3. GuidedInv /\ FailureInv /\ LeavingInv
  BY DEF HostInit, GuidedInv, FailureInv, LeavingInv, Failed, Completing, NoWorker, Leaving
<1>4. QED
  BY <1>2, <1>3 DEF HostInv

LEMMA HostMishapBound ==
    ASSUME hostMishaps \in 0 .. MaxHostMishaps, HostMishap \/ UNCHANGED hostMishaps
    PROVE  hostMishaps' \in 0 .. MaxHostMishaps
<1>1. QED
  BY HostAssumption DEF HostMishap

\* Every step of the host keeps the invariant, and what is over stays over.
LEMMA HostInvStep ==
    ASSUME HostInv, HostNext
    PROVE  HostInv' /\ OverIsOver
<1> USE DEF threadVars, inputHostVars, failureVars, outputVars
<1>a. HostTypeOK /\ GuidedInv /\ FailureInv /\ LeavingInv
  BY DEF HostInv
<1>b. HostMishap \/ UNCHANGED hostMishaps => hostMishaps' \in 0 .. MaxHostMishaps
  BY <1>a, HostMishapBound DEF HostTypeOK
<1>c. LastStamp \in Nat /\ MaxEvents \in Nat /\ MaxEvents > 0 /\ NoStamp = LastStamp + 1
  BY HostAssumption DEF NoStamp
<1>1. CASE Connect
  <2>0. /\ running' \in BOOLEAN /\ inputsDown' \in BOOLEAN /\ emitterDown' \in BOOLEAN
        /\ executor' \in BOOLEAN /\ late' \in BOOLEAN
    BY <1>a, <1>1 DEF Connect, HostTypeOK
  <2>1. HostTypeOK'
    BY <1>a, <1>b, <1>c, <1>1, <2>0 DEF Connect, HostTypeOK, Latch, StartMarks
  <2>2. GuidedInv'
    BY <1>a, <1>c, <1>1 DEF Connect, HostTypeOK, GuidedInv, LeavingInv, StartMarks
  <2>3. FailureInv'
    BY <1>a, <1>1 DEF Connect, HostTypeOK, FailureInv, LeavingInv, Failed, Completing, Latch
  <2>4. LeavingInv'
    BY <1>a, <1>1 DEF Connect, HostTypeOK, FailureInv, LeavingInv, Failed, Completing, NoWorker, Leaving, Latch
  <2>5. OverIsOver
    BY <1>a, <1>1 DEF Connect, HostTypeOK, FailureInv, LeavingInv, Failed, Completing, NoWorker,
        Leaving, OverIsOver
  <2>6. QED
    BY <2>1, <2>2, <2>3, <2>4, <2>5 DEF HostInv
<1>2. CASE PollGate
  <2>0. /\ running' \in BOOLEAN /\ inputsDown' \in BOOLEAN /\ emitterDown' \in BOOLEAN
        /\ executor' \in BOOLEAN /\ late' \in BOOLEAN
    BY <1>a, <1>2 DEF PollGate, HostTypeOK
  <2>1. HostTypeOK'
    BY <1>a, <1>b, <1>c, <1>2, <2>0 DEF PollGate, HostTypeOK, StartMarks
  <2>2. GuidedInv'
    BY <1>a, <1>c, <1>2 DEF PollGate, HostTypeOK, GuidedInv, LeavingInv, StartMarks
  <2>3. FailureInv'
    BY <1>a, <1>2 DEF PollGate, HostTypeOK, FailureInv, LeavingInv, Failed, Completing, Free
  <2>4. LeavingInv'
    BY <1>a, <1>2 DEF PollGate, HostTypeOK, FailureInv, LeavingInv, Failed, Completing, NoWorker, Leaving, Free
  <2>5. OverIsOver
    BY <1>a, <1>2 DEF PollGate, HostTypeOK, FailureInv, LeavingInv, Failed, Completing, NoWorker,
        Leaving, OverIsOver
  <2>6. QED
    BY <2>1, <2>2, <2>3, <2>4, <2>5 DEF HostInv
<1>3. CASE DeliverInitialCommand
  <2>0. /\ running' \in BOOLEAN /\ inputsDown' \in BOOLEAN /\ emitterDown' \in BOOLEAN
        /\ executor' \in BOOLEAN /\ late' \in BOOLEAN
    BY <1>a, <1>3 DEF DeliverInitialCommand, HostTypeOK
  <2>1. HostTypeOK'
    <3>1. /\ failedBy' \in {"nobody", "main", "worker", "ros"}
          /\ failing' \in {"none", "inputs", "emitter", "write", "done"}
          /\ hostFacts' \subseteq {"mission-ready", "delivered", "finished", "failure", "quiescence"}
          /\ recovery' \in {"none", "claimed", "done"}
      BY <1>a, <1>3 DEF DeliverInitialCommand, HostTypeOK, Latch
    <3>2. /\ gate' \subseteq StartMarks /\ sensed' \subseteq {"frame", "range", "off"}
          /\ admission' \subseteq {"finalizing", "signal"}
      BY <1>a, <1>3 DEF DeliverInitialCommand, HostTypeOK, StartMarks
    <3>3. simClock' \in 0 .. NoStamp /\ guided' \subseteq 0 .. LastStamp
      <4>1. simClock' = simClock /\ (guided' = guided \/ (simClock # NoStamp
                                                          /\ guided' = guided \cup {simClock}))
        BY <1>3 DEF DeliverInitialCommand
      <4>2. simClock \in 0 .. NoStamp /\ guided \subseteq 0 .. LastStamp
        BY <1>a DEF HostTypeOK
      <4>3. simClock # NoStamp => simClock \in 0 .. LastStamp
        BY <1>c, <4>2
      <4>4. QED
        BY <4>1, <4>2, <4>3
    <3>4. hostMishaps' \in 0 .. MaxHostMishaps
      BY <1>b, <1>3 DEF DeliverInitialCommand
    <3>5. hpc' \in {"connect", "loop", "deliver", "housekeep", "recover", "recoverLast", "stop", "emitter",
                   "join", "shutdown", "close", "finalize", "done"}
          /\ UNCHANGED <<wpc, payloadCalls, missionEvents>>
      BY <1>a, <1>3 DEF DeliverInitialCommand, HostTypeOK
    <3>6. QED
      BY <1>a, <2>0, <3>1, <3>2, <3>3, <3>4, <3>5 DEF HostTypeOK
  <2>2. GuidedInv'
    <3>1. CASE UNCHANGED <<guided, gate>>
      BY <1>a, <1>3, <3>1 DEF DeliverInitialCommand, GuidedInv
    <3>2. CASE /\ "command" \notin gate /\ simClock # NoStamp /\ ~ (simClock > 1)
               /\ guided' = guided \cup {simClock} /\ gate' = gate \cup {"command"}
      <4>1. simClock \in 0 .. 1
        BY <1>a, <1>c, <3>2 DEF HostTypeOK
      <4>2. guided' = {simClock}
        BY <1>a, <3>2 DEF GuidedInv
      <4>3. QED
        BY <3>2, <4>1, <4>2 DEF GuidedInv
    <3>3. QED
      BY <1>3, <3>1, <3>2 DEF DeliverInitialCommand
  <2>3. FailureInv'
    BY <1>a, <1>3 DEF DeliverInitialCommand, HostTypeOK, FailureInv, LeavingInv, Failed, Completing, Latch, Free
  <2>4. LeavingInv'
    BY <1>a, <1>3 DEF DeliverInitialCommand, HostTypeOK, FailureInv, LeavingInv, Failed, Completing, NoWorker, Leaving, Latch, Free
  <2>5. OverIsOver
    BY <1>a, <1>3 DEF DeliverInitialCommand, HostTypeOK, FailureInv, LeavingInv, Failed, Completing, NoWorker,
        Leaving, OverIsOver
  <2>6. QED
    BY <2>1, <2>2, <2>3, <2>4, <2>5 DEF HostInv
<1>4. CASE Housekeep
  <2>0. /\ running' \in BOOLEAN /\ inputsDown' \in BOOLEAN /\ emitterDown' \in BOOLEAN
        /\ executor' \in BOOLEAN /\ late' \in BOOLEAN
    BY <1>a, <1>4 DEF Housekeep, HostTypeOK
  <2>1. HostTypeOK'
    <3>1. /\ failedBy' \in {"nobody", "main", "worker", "ros"}
          /\ failing' \in {"none", "inputs", "emitter", "write", "done"}
          /\ hostFacts' \subseteq {"mission-ready", "delivered", "finished", "failure", "quiescence"}
          /\ recovery' \in {"none", "claimed", "done"}
      BY <1>a, <1>4 DEF Housekeep, HostTypeOK, Latch
    <3>2. /\ gate' \subseteq StartMarks /\ sensed' \subseteq {"frame", "range", "off"}
          /\ admission' \subseteq {"finalizing", "signal"}
      BY <1>a, <1>4 DEF Housekeep, HostTypeOK, StartMarks
    <3>3. simClock' \in 0 .. NoStamp /\ guided' \subseteq 0 .. LastStamp
      BY <1>a, <1>c, <1>4 DEF Housekeep, HostTypeOK
    <3>4. hostMishaps' \in 0 .. MaxHostMishaps
      BY <1>b, <1>4 DEF Housekeep
    <3>5. hpc' \in {"connect", "loop", "deliver", "housekeep", "recover", "recoverLast", "stop", "emitter",
                   "join", "shutdown", "close", "finalize", "done"}
          /\ UNCHANGED <<wpc, payloadCalls, missionEvents>>
      BY <1>a, <1>4 DEF Housekeep, HostTypeOK
    <3>6. QED
      BY <1>a, <2>0, <3>1, <3>2, <3>3, <3>4, <3>5 DEF HostTypeOK
  <2>2. GuidedInv'
    BY <1>a, <1>c, <1>4 DEF Housekeep, HostTypeOK, GuidedInv, LeavingInv, StartMarks
  <2>3. FailureInv'
    BY <1>a, <1>4 DEF Housekeep, HostTypeOK, FailureInv, LeavingInv, Failed, Completing, Latch, Free
  <2>4. LeavingInv'
    BY <1>a, <1>4 DEF Housekeep, HostTypeOK, FailureInv, LeavingInv, Failed, Completing, NoWorker, Leaving, Latch, Free, RecoveryDue
  <2>5. OverIsOver
    BY <1>a, <1>4 DEF Housekeep, HostTypeOK, FailureInv, LeavingInv, Failed, Completing, NoWorker,
        Leaving, OverIsOver
  <2>6. QED
    BY <2>1, <2>2, <2>3, <2>4, <2>5 DEF HostInv
<1>5. CASE Recover
  <2>0. /\ running' \in BOOLEAN /\ inputsDown' \in BOOLEAN /\ emitterDown' \in BOOLEAN
        /\ executor' \in BOOLEAN /\ late' \in BOOLEAN
    BY <1>a, <1>5 DEF Recover, HostTypeOK
  <2>1. HostTypeOK'
    BY <1>a, <1>b, <1>c, <1>5, <2>0 DEF Recover, HostTypeOK
  <2>2. GuidedInv'
    BY <1>a, <1>c, <1>5 DEF Recover, HostTypeOK, GuidedInv, LeavingInv, StartMarks
  <2>3. FailureInv'
    BY <1>a, <1>5 DEF Recover, HostTypeOK, FailureInv, LeavingInv, Failed, Completing
  <2>4. LeavingInv'
    BY <1>a, <1>5 DEF Recover, HostTypeOK, FailureInv, LeavingInv, Failed, Completing, NoWorker, Leaving
  <2>5. OverIsOver
    BY <1>a, <1>5 DEF Recover, HostTypeOK, FailureInv, LeavingInv, Failed, Completing, NoWorker,
        Leaving, OverIsOver
  <2>6. QED
    BY <2>1, <2>2, <2>3, <2>4, <2>5 DEF HostInv
<1>6. CASE StopAttempt
  <2>0. /\ running' \in BOOLEAN /\ inputsDown' \in BOOLEAN /\ emitterDown' \in BOOLEAN
        /\ executor' \in BOOLEAN /\ late' \in BOOLEAN
    BY <1>a, <1>6 DEF StopAttempt, HostTypeOK
  <2>1. HostTypeOK'
    BY <1>a, <1>b, <1>c, <1>6, <2>0 DEF StopAttempt, HostTypeOK
  <2>2. GuidedInv'
    BY <1>a, <1>c, <1>6 DEF StopAttempt, HostTypeOK, GuidedInv, LeavingInv, StartMarks
  <2>3. FailureInv'
    BY <1>a, <1>6 DEF StopAttempt, HostTypeOK, FailureInv, LeavingInv, Failed, Completing
  <2>4. LeavingInv'
    BY <1>a, <1>6 DEF StopAttempt, HostTypeOK, FailureInv, LeavingInv, Failed, Completing, NoWorker, Leaving
  <2>5. OverIsOver
    BY <1>a, <1>6 DEF StopAttempt, HostTypeOK, FailureInv, LeavingInv, Failed, Completing, NoWorker,
        Leaving, OverIsOver
  <2>6. QED
    BY <2>1, <2>2, <2>3, <2>4, <2>5 DEF HostInv
<1>7. CASE JoinWorker
  <2>0. /\ running' \in BOOLEAN /\ inputsDown' \in BOOLEAN /\ emitterDown' \in BOOLEAN
        /\ executor' \in BOOLEAN /\ late' \in BOOLEAN
    BY <1>a, <1>7 DEF JoinWorker, HostTypeOK
  <2>1. HostTypeOK'
    BY <1>a, <1>b, <1>c, <1>7, <2>0 DEF JoinWorker, HostTypeOK
  <2>2. GuidedInv'
    BY <1>a, <1>c, <1>7 DEF JoinWorker, HostTypeOK, GuidedInv, LeavingInv, StartMarks
  <2>3. FailureInv'
    BY <1>a, <1>7 DEF JoinWorker, HostTypeOK, FailureInv, LeavingInv, Failed, Completing
  <2>4. LeavingInv'
    BY <1>a, <1>7 DEF JoinWorker, HostTypeOK, FailureInv, LeavingInv, Failed, Completing, NoWorker, Leaving
  <2>5. OverIsOver
    BY <1>a, <1>7 DEF JoinWorker, HostTypeOK, FailureInv, LeavingInv, Failed, Completing, NoWorker,
        Leaving, OverIsOver
  <2>6. QED
    BY <2>1, <2>2, <2>3, <2>4, <2>5 DEF HostInv
<1>8. CASE ShutdownExecutor
  <2>0. /\ running' \in BOOLEAN /\ inputsDown' \in BOOLEAN /\ emitterDown' \in BOOLEAN
        /\ executor' \in BOOLEAN /\ late' \in BOOLEAN
    BY <1>a, <1>8 DEF ShutdownExecutor, HostTypeOK
  <2>1. HostTypeOK'
    BY <1>a, <1>b, <1>c, <1>8, <2>0 DEF ShutdownExecutor, HostTypeOK
  <2>2. GuidedInv'
    BY <1>a, <1>c, <1>8 DEF ShutdownExecutor, HostTypeOK, GuidedInv, LeavingInv, StartMarks
  <2>3. FailureInv'
    BY <1>a, <1>8 DEF ShutdownExecutor, HostTypeOK, FailureInv, LeavingInv, Failed, Completing, Free
  <2>4. LeavingInv'
    BY <1>a, <1>8 DEF ShutdownExecutor, HostTypeOK, FailureInv, LeavingInv, Failed, Completing, NoWorker, Leaving, Free
  <2>5. OverIsOver
    BY <1>a, <1>8 DEF ShutdownExecutor, HostTypeOK, FailureInv, LeavingInv, Failed, Completing, NoWorker,
        Leaving, OverIsOver
  <2>6. QED
    BY <2>1, <2>2, <2>3, <2>4, <2>5 DEF HostInv
<1>9. CASE CloseOutputs
  <2>0. /\ running' \in BOOLEAN /\ inputsDown' \in BOOLEAN /\ emitterDown' \in BOOLEAN
        /\ executor' \in BOOLEAN /\ late' \in BOOLEAN
    BY <1>a, <1>9 DEF CloseOutputs, HostTypeOK
  <2>1. HostTypeOK'
    BY <1>a, <1>b, <1>c, <1>9, <2>0 DEF CloseOutputs, HostTypeOK
  <2>2. GuidedInv'
    BY <1>a, <1>c, <1>9 DEF CloseOutputs, HostTypeOK, GuidedInv, LeavingInv, StartMarks
  <2>3. FailureInv'
    BY <1>a, <1>9 DEF CloseOutputs, HostTypeOK, FailureInv, LeavingInv, Failed, Completing
  <2>4. LeavingInv'
    BY <1>a, <1>9 DEF CloseOutputs, HostTypeOK, FailureInv, LeavingInv, Failed, Completing, NoWorker, Leaving, RecoveryDue
  <2>5. OverIsOver
    BY <1>a, <1>9 DEF CloseOutputs, HostTypeOK, FailureInv, LeavingInv, Failed, Completing, NoWorker,
        Leaving, OverIsOver
  <2>6. QED
    BY <2>1, <2>2, <2>3, <2>4, <2>5 DEF HostInv
<1>10. CASE FinalizeCompanion
  <2>0. /\ running' \in BOOLEAN /\ inputsDown' \in BOOLEAN /\ emitterDown' \in BOOLEAN
        /\ executor' \in BOOLEAN /\ late' \in BOOLEAN
    BY <1>a, <1>10 DEF FinalizeCompanion, HostTypeOK
  <2>1. HostTypeOK'
    BY <1>a, <1>b, <1>c, <1>10, <2>0 DEF FinalizeCompanion, HostTypeOK, Latch
  <2>2. GuidedInv'
    BY <1>a, <1>c, <1>10 DEF FinalizeCompanion, HostTypeOK, GuidedInv, LeavingInv, StartMarks
  <2>3. FailureInv'
    BY <1>a, <1>10 DEF FinalizeCompanion, HostTypeOK, FailureInv, LeavingInv, Failed, Completing, Latch, Free
  <2>4. LeavingInv'
    BY <1>a, <1>10 DEF FinalizeCompanion, HostTypeOK, FailureInv, LeavingInv, Failed, Completing, NoWorker, Leaving, Latch, Free
  <2>5. OverIsOver
    BY <1>a, <1>10 DEF FinalizeCompanion, HostTypeOK, FailureInv, LeavingInv, Failed, Completing, NoWorker,
        Leaving, OverIsOver
  <2>6. QED
    BY <2>1, <2>2, <2>3, <2>4, <2>5 DEF HostInv
<1>11. CASE WorkerStarts
  <2>0. /\ running' \in BOOLEAN /\ inputsDown' \in BOOLEAN /\ emitterDown' \in BOOLEAN
        /\ executor' \in BOOLEAN /\ late' \in BOOLEAN
    BY <1>a, <1>11 DEF WorkerStarts, HostTypeOK
  <2>1. HostTypeOK'
    BY <1>a, <1>b, <1>c, <1>11, <2>0 DEF WorkerStarts, HostTypeOK
  <2>2. GuidedInv'
    BY <1>a, <1>c, <1>11 DEF WorkerStarts, HostTypeOK, GuidedInv, LeavingInv, StartMarks
  <2>3. FailureInv'
    BY <1>a, <1>11 DEF WorkerStarts, HostTypeOK, FailureInv, LeavingInv, Failed, Completing
  <2>4. LeavingInv'
    BY <1>a, <1>11 DEF WorkerStarts, HostTypeOK, FailureInv, LeavingInv, Failed, Completing, NoWorker, Leaving
  <2>5. OverIsOver
    BY <1>a, <1>11 DEF WorkerStarts, HostTypeOK, FailureInv, LeavingInv, Failed, Completing, NoWorker,
        Leaving, OverIsOver
  <2>6. QED
    BY <2>1, <2>2, <2>3, <2>4, <2>5 DEF HostInv
<1>12. CASE Fly
  <2>0. /\ running' \in BOOLEAN /\ inputsDown' \in BOOLEAN /\ emitterDown' \in BOOLEAN
        /\ executor' \in BOOLEAN /\ late' \in BOOLEAN
    BY <1>a, <1>12 DEF Fly, HostTypeOK
  <2>1. HostTypeOK'
    BY <1>a, <1>b, <1>c, <1>12, <2>0 DEF Fly, HostTypeOK
  <2>2. GuidedInv'
    BY <1>a, <1>c, <1>12 DEF Fly, HostTypeOK, GuidedInv, LeavingInv, StartMarks
  <2>3. FailureInv'
    BY <1>a, <1>12 DEF Fly, HostTypeOK, FailureInv, LeavingInv, Failed, Completing
  <2>4. LeavingInv'
    BY <1>a, <1>12 DEF Fly, HostTypeOK, FailureInv, LeavingInv, Failed, Completing, NoWorker, Leaving
  <2>5. OverIsOver
    BY <1>a, <1>12 DEF Fly, HostTypeOK, FailureInv, LeavingInv, Failed, Completing, NoWorker,
        Leaving, OverIsOver
  <2>6. QED
    BY <2>1, <2>2, <2>3, <2>4, <2>5 DEF HostInv
<1>13. CASE WorkerWakesUp
  <2>0. /\ running' \in BOOLEAN /\ inputsDown' \in BOOLEAN /\ emitterDown' \in BOOLEAN
        /\ executor' \in BOOLEAN /\ late' \in BOOLEAN
    BY <1>a, <1>13 DEF WorkerWakesUp, HostTypeOK
  <2>1. HostTypeOK'
    BY <1>a, <1>b, <1>c, <1>13, <2>0 DEF WorkerWakesUp, HostTypeOK
  <2>2. GuidedInv'
    BY <1>a, <1>c, <1>13 DEF WorkerWakesUp, HostTypeOK, GuidedInv, LeavingInv, StartMarks
  <2>3. FailureInv'
    BY <1>a, <1>13 DEF WorkerWakesUp, HostTypeOK, FailureInv, LeavingInv, Failed, Completing
  <2>4. LeavingInv'
    BY <1>a, <1>13 DEF WorkerWakesUp, HostTypeOK, FailureInv, LeavingInv, Failed, Completing, NoWorker, Leaving
  <2>5. OverIsOver
    BY <1>a, <1>13 DEF WorkerWakesUp, HostTypeOK, FailureInv, LeavingInv, Failed, Completing, NoWorker,
        Leaving, OverIsOver
  <2>6. QED
    BY <2>1, <2>2, <2>3, <2>4, <2>5 DEF HostInv
<1>14. CASE PayloadAnswer
  <2>0. /\ running' \in BOOLEAN /\ inputsDown' \in BOOLEAN /\ emitterDown' \in BOOLEAN
        /\ executor' \in BOOLEAN /\ late' \in BOOLEAN
    BY <1>a, <1>14 DEF PayloadAnswer, HostTypeOK
  <2>1. HostTypeOK'
    BY <1>a, <1>b, <1>c, <1>14, <2>0 DEF PayloadAnswer, HostTypeOK
  <2>2. GuidedInv'
    BY <1>a, <1>c, <1>14 DEF PayloadAnswer, HostTypeOK, GuidedInv, LeavingInv, StartMarks
  <2>3. FailureInv'
    BY <1>a, <1>14 DEF PayloadAnswer, HostTypeOK, FailureInv, LeavingInv, Failed, Completing
  <2>4. LeavingInv'
    BY <1>a, <1>14 DEF PayloadAnswer, HostTypeOK, FailureInv, LeavingInv, Failed, Completing, NoWorker, Leaving
  <2>5. OverIsOver
    BY <1>a, <1>14 DEF PayloadAnswer, HostTypeOK, FailureInv, LeavingInv, Failed, Completing, NoWorker,
        Leaving, OverIsOver
  <2>6. QED
    BY <2>1, <2>2, <2>3, <2>4, <2>5 DEF HostInv
<1>15. CASE FinishSuccess
  <2>0. /\ running' \in BOOLEAN /\ inputsDown' \in BOOLEAN /\ emitterDown' \in BOOLEAN
        /\ executor' \in BOOLEAN /\ late' \in BOOLEAN
    BY <1>a, <1>15 DEF FinishSuccess, HostTypeOK
  <2>1. HostTypeOK'
    BY <1>a, <1>b, <1>c, <1>15, <2>0 DEF FinishSuccess, HostTypeOK
  <2>2. GuidedInv'
    BY <1>a, <1>c, <1>15 DEF FinishSuccess, HostTypeOK, GuidedInv, LeavingInv, StartMarks
  <2>3. FailureInv'
    BY <1>a, <1>15 DEF FinishSuccess, HostTypeOK, FailureInv, LeavingInv, Failed, Completing
  <2>4. LeavingInv'
    BY <1>a, <1>15 DEF FinishSuccess, HostTypeOK, FailureInv, LeavingInv, Failed, Completing, NoWorker, Leaving
  <2>5. OverIsOver
    BY <1>a, <1>15 DEF FinishSuccess, HostTypeOK, FailureInv, LeavingInv, Failed, Completing, NoWorker,
        Leaving, OverIsOver
  <2>6. QED
    BY <2>1, <2>2, <2>3, <2>4, <2>5 DEF HostInv
<1>16. CASE WorkerRaises
  <2>0. /\ running' \in BOOLEAN /\ inputsDown' \in BOOLEAN /\ emitterDown' \in BOOLEAN
        /\ executor' \in BOOLEAN /\ late' \in BOOLEAN
    BY <1>a, <1>16 DEF WorkerRaises, HostTypeOK
  <2>1. HostTypeOK'
    BY <1>a, <1>b, <1>c, <1>16, <2>0 DEF WorkerRaises, HostTypeOK, Latch
  <2>2. GuidedInv'
    BY <1>a, <1>c, <1>16 DEF WorkerRaises, HostTypeOK, GuidedInv, LeavingInv, StartMarks
  <2>3. FailureInv'
    BY <1>a, <1>16 DEF WorkerRaises, HostTypeOK, FailureInv, LeavingInv, Failed, Completing, Latch
  <2>4. LeavingInv'
    BY <1>a, <1>16 DEF WorkerRaises, HostTypeOK, FailureInv, LeavingInv, Failed, Completing, NoWorker, Leaving, Latch
  <2>5. OverIsOver
    BY <1>a, <1>16 DEF WorkerRaises, HostTypeOK, FailureInv, LeavingInv, Failed, Completing, NoWorker,
        Leaving, OverIsOver
  <2>6. QED
    BY <2>1, <2>2, <2>3, <2>4, <2>5 DEF HostInv
<1>17. CASE WorkerDies
  <2>0. /\ running' \in BOOLEAN /\ inputsDown' \in BOOLEAN /\ emitterDown' \in BOOLEAN
        /\ executor' \in BOOLEAN /\ late' \in BOOLEAN
    BY <1>a, <1>17 DEF WorkerDies, HostTypeOK
  <2>1. HostTypeOK'
    BY <1>a, <1>b, <1>c, <1>17, <2>0 DEF WorkerDies, HostTypeOK
  <2>2. GuidedInv'
    BY <1>a, <1>c, <1>17 DEF WorkerDies, HostTypeOK, GuidedInv, LeavingInv, StartMarks
  <2>3. FailureInv'
    BY <1>a, <1>17 DEF WorkerDies, HostTypeOK, FailureInv, LeavingInv, Failed, Completing, Free
  <2>4. LeavingInv'
    BY <1>a, <1>17 DEF WorkerDies, HostTypeOK, FailureInv, LeavingInv, Failed, Completing, NoWorker, Leaving, Free
  <2>5. OverIsOver
    BY <1>a, <1>17 DEF WorkerDies, HostTypeOK, FailureInv, LeavingInv, Failed, Completing, NoWorker,
        Leaving, OverIsOver
  <2>6. QED
    BY <2>1, <2>2, <2>3, <2>4, <2>5 DEF HostInv
<1>18. CASE CompleteFailure
  <2>0. /\ running' \in BOOLEAN /\ inputsDown' \in BOOLEAN /\ emitterDown' \in BOOLEAN
        /\ executor' \in BOOLEAN /\ late' \in BOOLEAN
    BY <1>a, <1>18 DEF CompleteFailure, HostTypeOK
  <2>1. HostTypeOK'
    <3>1. /\ failedBy' \in {"nobody", "main", "worker", "ros"}
          /\ failing' \in {"none", "inputs", "emitter", "write", "done"}
          /\ hostFacts' \subseteq {"mission-ready", "delivered", "finished", "failure", "quiescence"}
          /\ recovery' \in {"none", "claimed", "done"}
      BY <1>a, <1>18 DEF CompleteFailure, HostTypeOK, Latch
    <3>2. /\ gate' \subseteq StartMarks /\ sensed' \subseteq {"frame", "range", "off"}
          /\ admission' \subseteq {"finalizing", "signal"}
      BY <1>a, <1>18 DEF CompleteFailure, HostTypeOK, StartMarks
    <3>3. simClock' \in 0 .. NoStamp /\ guided' \subseteq 0 .. LastStamp
      BY <1>a, <1>c, <1>18 DEF CompleteFailure, HostTypeOK
    <3>4. hostMishaps' \in 0 .. MaxHostMishaps
      BY <1>b, <1>18 DEF CompleteFailure
    <3>5. hpc' \in {"connect", "loop", "deliver", "housekeep", "recover", "recoverLast", "stop", "emitter",
                   "join", "shutdown", "close", "finalize", "done"}
          /\ UNCHANGED <<wpc, payloadCalls, missionEvents>>
      BY <1>a, <1>18 DEF CompleteFailure, HostTypeOK
    <3>6. QED
      BY <1>a, <2>0, <3>1, <3>2, <3>3, <3>4, <3>5 DEF HostTypeOK
  <2>2. GuidedInv'
    BY <1>a, <1>c, <1>18 DEF CompleteFailure, HostTypeOK, GuidedInv, LeavingInv, StartMarks
  <2>3. FailureInv'
    BY <1>a, <1>18 DEF CompleteFailure, HostTypeOK, FailureInv, LeavingInv, Failed, Completing
  <2>4. LeavingInv'
    BY <1>a, <1>18 DEF CompleteFailure, HostTypeOK, FailureInv, LeavingInv, Failed, Completing, NoWorker, Leaving
  <2>5. OverIsOver
    BY <1>a, <1>18 DEF CompleteFailure, HostTypeOK, FailureInv, LeavingInv, Failed, Completing, NoWorker,
        Leaving, OverIsOver
  <2>6. QED
    BY <2>1, <2>2, <2>3, <2>4, <2>5 DEF HostInv
<1>19. CASE StateCallback
  <2>0. /\ running' \in BOOLEAN /\ inputsDown' \in BOOLEAN /\ emitterDown' \in BOOLEAN
        /\ executor' \in BOOLEAN /\ late' \in BOOLEAN
    BY <1>a, <1>19 DEF StateCallback, HostTypeOK
  <2>1. HostTypeOK'
    <3>1. /\ failedBy' \in {"nobody", "main", "worker", "ros"}
          /\ failing' \in {"none", "inputs", "emitter", "write", "done"}
          /\ hostFacts' \subseteq {"mission-ready", "delivered", "finished", "failure", "quiescence"}
          /\ recovery' \in {"none", "claimed", "done"}
      BY <1>a, <1>19 DEF StateCallback, HostTypeOK, Latch
    <3>2. /\ gate' \subseteq StartMarks /\ sensed' \subseteq {"frame", "range", "off"}
          /\ admission' \subseteq {"finalizing", "signal"}
      BY <1>a, <1>19 DEF StateCallback, HostTypeOK, StartMarks
    <3>3. simClock' \in 0 .. NoStamp /\ guided' \subseteq 0 .. LastStamp
      BY <1>a, <1>c, <1>19 DEF StateCallback, HostTypeOK
    <3>4. hostMishaps' \in 0 .. MaxHostMishaps
      BY <1>b, <1>19 DEF StateCallback
    <3>5. hpc' \in {"connect", "loop", "deliver", "housekeep", "recover", "recoverLast", "stop", "emitter",
                   "join", "shutdown", "close", "finalize", "done"}
          /\ UNCHANGED <<wpc, payloadCalls, missionEvents>>
      BY <1>a, <1>19 DEF StateCallback, HostTypeOK
    <3>6. QED
      BY <1>a, <2>0, <3>1, <3>2, <3>3, <3>4, <3>5 DEF HostTypeOK
  <2>2. GuidedInv'
    BY <1>a, <1>c, <1>19 DEF StateCallback, HostTypeOK, GuidedInv, LeavingInv, StartMarks
  <2>3. FailureInv'
    BY <1>a, <1>19 DEF StateCallback, HostTypeOK, FailureInv, LeavingInv, Failed, Completing
  <2>4. LeavingInv'
    BY <1>a, <1>19 DEF StateCallback, HostTypeOK, FailureInv, LeavingInv, Failed, Completing, NoWorker, Leaving
  <2>5. OverIsOver
    BY <1>a, <1>19 DEF StateCallback, HostTypeOK, FailureInv, LeavingInv, Failed, Completing, NoWorker,
        Leaving, OverIsOver
  <2>6. QED
    BY <2>1, <2>2, <2>3, <2>4, <2>5 DEF HostInv
<1>20. CASE ClockCallback
  <2>0. /\ running' \in BOOLEAN /\ inputsDown' \in BOOLEAN /\ emitterDown' \in BOOLEAN
        /\ executor' \in BOOLEAN /\ late' \in BOOLEAN
    BY <1>a, <1>20 DEF ClockCallback, HostTypeOK
  <2>1. HostTypeOK'
    <3>1. /\ failedBy' \in {"nobody", "main", "worker", "ros"}
          /\ failing' \in {"none", "inputs", "emitter", "write", "done"}
          /\ hostFacts' \subseteq {"mission-ready", "delivered", "finished", "failure", "quiescence"}
          /\ recovery' \in {"none", "claimed", "done"}
      BY <1>a, <1>20 DEF ClockCallback, HostTypeOK, Latch
    <3>2. /\ gate' \subseteq StartMarks /\ sensed' \subseteq {"frame", "range", "off"}
          /\ admission' \subseteq {"finalizing", "signal"}
      BY <1>a, <1>20 DEF ClockCallback, HostTypeOK, StartMarks
    <3>3. simClock' \in 0 .. NoStamp /\ guided' \subseteq 0 .. LastStamp
      BY <1>a, <1>c, <1>20 DEF ClockCallback, HostTypeOK
    <3>4. hostMishaps' \in 0 .. MaxHostMishaps
      BY <1>b, <1>20 DEF ClockCallback
    <3>5. hpc' \in {"connect", "loop", "deliver", "housekeep", "recover", "recoverLast", "stop", "emitter",
                   "join", "shutdown", "close", "finalize", "done"}
          /\ UNCHANGED <<wpc, payloadCalls, missionEvents>>
      BY <1>a, <1>20 DEF ClockCallback, HostTypeOK
    <3>6. QED
      BY <1>a, <2>0, <3>1, <3>2, <3>3, <3>4, <3>5 DEF HostTypeOK
  <2>2. GuidedInv'
    BY <1>a, <1>c, <1>20 DEF ClockCallback, HostTypeOK, GuidedInv, LeavingInv, StartMarks
  <2>3. FailureInv'
    BY <1>a, <1>20 DEF ClockCallback, HostTypeOK, FailureInv, LeavingInv, Failed, Completing, Latch
  <2>4. LeavingInv'
    BY <1>a, <1>20 DEF ClockCallback, HostTypeOK, FailureInv, LeavingInv, Failed, Completing, NoWorker, Leaving, Latch
  <2>5. OverIsOver
    BY <1>a, <1>20 DEF ClockCallback, HostTypeOK, FailureInv, LeavingInv, Failed, Completing, NoWorker,
        Leaving, OverIsOver
  <2>6. QED
    BY <2>1, <2>2, <2>3, <2>4, <2>5 DEF HostInv
<1>21. CASE SensorCallback
  <2>0. /\ running' \in BOOLEAN /\ inputsDown' \in BOOLEAN /\ emitterDown' \in BOOLEAN
        /\ executor' \in BOOLEAN /\ late' \in BOOLEAN
    BY <1>a, <1>21 DEF SensorCallback, HostTypeOK
  <2>1. HostTypeOK'
    <3>1. /\ failedBy' \in {"nobody", "main", "worker", "ros"}
          /\ failing' \in {"none", "inputs", "emitter", "write", "done"}
          /\ hostFacts' \subseteq {"mission-ready", "delivered", "finished", "failure", "quiescence"}
          /\ recovery' \in {"none", "claimed", "done"}
      BY <1>a, <1>21 DEF SensorCallback, HostTypeOK, Latch
    <3>2. /\ gate' \subseteq StartMarks /\ sensed' \subseteq {"frame", "range", "off"}
          /\ admission' \subseteq {"finalizing", "signal"}
      BY <1>a, <1>21 DEF SensorCallback, HostTypeOK, StartMarks
    <3>3. simClock' \in 0 .. NoStamp /\ guided' \subseteq 0 .. LastStamp
      BY <1>a, <1>c, <1>21 DEF SensorCallback, HostTypeOK
    <3>4. hostMishaps' \in 0 .. MaxHostMishaps
      BY <1>b, <1>21 DEF SensorCallback
    <3>5. hpc' \in {"connect", "loop", "deliver", "housekeep", "recover", "recoverLast", "stop", "emitter",
                   "join", "shutdown", "close", "finalize", "done"}
          /\ UNCHANGED <<wpc, payloadCalls, missionEvents>>
      BY <1>a, <1>21 DEF SensorCallback, HostTypeOK
    <3>6. QED
      BY <1>a, <2>0, <3>1, <3>2, <3>3, <3>4, <3>5 DEF HostTypeOK
  <2>2. GuidedInv'
    BY <1>a, <1>c, <1>21 DEF SensorCallback, HostTypeOK, GuidedInv, LeavingInv, StartMarks
  <2>3. FailureInv'
    BY <1>a, <1>21 DEF SensorCallback, HostTypeOK, FailureInv, LeavingInv, Failed, Completing, Latch
  <2>4. LeavingInv'
    BY <1>a, <1>21 DEF SensorCallback, HostTypeOK, FailureInv, LeavingInv, Failed, Completing, NoWorker, Leaving, Latch
  <2>5. OverIsOver
    BY <1>a, <1>21 DEF SensorCallback, HostTypeOK, FailureInv, LeavingInv, Failed, Completing, NoWorker,
        Leaving, OverIsOver
  <2>6. QED
    BY <2>1, <2>2, <2>3, <2>4, <2>5 DEF HostInv
<1>22. CASE Signal
  <2>0. /\ running' \in BOOLEAN /\ inputsDown' \in BOOLEAN /\ emitterDown' \in BOOLEAN
        /\ executor' \in BOOLEAN /\ late' \in BOOLEAN
    BY <1>a, <1>22 DEF Signal, HostTypeOK
  <2>1. HostTypeOK'
    BY <1>a, <1>b, <1>c, <1>22, <2>0 DEF Signal, HostTypeOK
  <2>2. GuidedInv'
    BY <1>a, <1>c, <1>22 DEF Signal, HostTypeOK, GuidedInv, LeavingInv, StartMarks
  <2>3. FailureInv'
    BY <1>a, <1>22 DEF Signal, HostTypeOK, FailureInv, LeavingInv, Failed, Completing
  <2>4. LeavingInv'
    BY <1>a, <1>22 DEF Signal, HostTypeOK, FailureInv, LeavingInv, Failed, Completing, NoWorker, Leaving
  <2>5. OverIsOver
    BY <1>a, <1>22 DEF Signal, HostTypeOK, FailureInv, LeavingInv, Failed, Completing, NoWorker,
        Leaving, OverIsOver
  <2>6. QED
    BY <2>1, <2>2, <2>3, <2>4, <2>5 DEF HostInv
<1>23. QED
  BY <1>1, <1>2, <1>3, <1>4, <1>5, <1>6, <1>7, <1>8, <1>9, <1>10, <1>11, <1>12, <1>13, <1>14, <1>15, <1>16, <1>17, <1>18, <1>19, <1>20, <1>21, <1>22
  DEF HostNext, HostMain, HostWorker

LEMMA HostInvStutter ==
    ASSUME HostInv, UNCHANGED hostVars
    PROVE  HostInv'
<1>1. UNCHANGED <<hpc, wpc, simClock, running, gate, sensed, failedBy, failing, inputsDown,
                  emitterDown, admission, executor, guided, payloadCalls, missionEvents, recovery,
                  late, hostFacts, hostMishaps>>
  BY DEF hostVars, threadVars, inputHostVars, failureVars, outputVars
<1>2. HostTypeOK'
  BY <1>1 DEF HostInv, HostTypeOK
<1>3. GuidedInv' /\ FailureInv' /\ LeavingInv'
  BY <1>1 DEF HostInv, GuidedInv, FailureInv, LeavingInv, Failed, Completing, NoWorker
<1>4. QED
  BY <1>2, <1>3 DEF HostInv

LEMMA HostInvCommands ==
    HostInv => OneCommander
<1> SUFFICES ASSUME HostInv PROVE OneCommander
  OBVIOUS
<1>1. Cardinality(guided) <= 1 /\ \A t \in guided : t <= 1
  <2>1. CASE guided = {}
    BY <2>1, FS_EmptySet
  <2>2. CASE \E t \in 0 .. 1 : guided = {t}
    <3>1. PICK t \in 0 .. 1 : guided = {t}
      BY <2>2
    <3>2. Cardinality(guided) = 1
      BY <3>1, FS_Singleton
    <3>3. QED
      BY <3>1, <3>2
  <2>3. QED
    BY <2>1, <2>2 DEF HostInv, GuidedInv
<1>2. QED
  BY <1>1 DEF HostInv, GuidedInv, LeavingInv, NoWorker, Leaving, OneCommander

\* The threads of the host, for any number of stamps, events and failing calls
\* (_complete_failure, _deliver_comp2026_initial_command, recover_once,
\* quiesce_comp2026_runtime): GUIDED goes out once and in its window, the recovery waits for
\* the worker's end, nothing follows the failure on record or the quiescence marker.
THEOREM HostOrderly == EntriesSpec => HostIsOrderly
<1>1. EntriesInit => HostInv
  BY HostInvInit DEF EntriesInit
<1>2. HostInv /\ [EntriesNext]_entryVars => [HostInv' /\ OverIsOver]_hostVars /\ HostInv'
  <2> SUFFICES ASSUME HostInv, [EntriesNext]_entryVars
               PROVE  [HostInv' /\ OverIsOver]_hostVars /\ HostInv'
    OBVIOUS
  <2>1. CASE HostNext
    BY <2>1, HostInvStep
  <2>2. CASE UNCHANGED hostVars
    BY <2>2, HostInvStutter
  <2>3. QED
    BY <2>1, <2>2 DEF EntriesNext, OnlyHost, OnlyListener, entryVars
<1>3. HostInv => HostTypeOK /\ OneCommander
  BY HostInvCommands DEF HostInv
<1>4. QED
  BY <1>1, <1>2, <1>3, PTL DEF EntriesSpec, HostIsOrderly

-----------------------------------------------------------------------------
(* The listener. *)

\* Whoever is down knows nothing.
SessionInv ==
    ~ session.up =>
        /\ sup = NewSup /\ radio = "none" /\ queue = <<>> /\ owner = NewOwner /\ timer = "off"
        /\ acked = "none" /\ home = "none" /\ act = NoAct /\ ~ sites.frozen

\* An attempt that was flown is consumed, and a ledger that cannot be read admits none.
LedgerInv ==
    \A a \in DOMAIN flown :
        flown[a] <= 1 /\ (flown[a] = 1 /\ ledger.whole => a <= ledger.consumed)

\* A command the owner has yet to take; an abort may have taken it from him.
Pending(c) == radio = c \/ queue = <<c>>
Waiting(c) == sup.st[c] = "QUEUED" \/ (c \in Phases /\ sup.st[c] = "ABORTED")

\* The owner has a command in hand.
Holding ==
    owner.pc \in {"begin", "fly", "finish"} \/ (owner.pc = "recover" /\ owner.next = "judge")

\* One command at a time is on its way to the owner, and none while he has one.
QueueInv ==
    /\ queue = <<>> \/ \E c \in Commands : queue = <<c>>
    /\ radio # "none" => queue = <<>>
    /\ \A c \in Commands : Pending(c) => Waiting(c)
    /\ Holding => owner.cmd \in Commands /\ ~ Pending(owner.cmd)
    /\ owner.pc = "begin" => Waiting(owner.cmd)
    /\ Holding /\ owner.pc # "begin" => sup.st[owner.cmd] = "RUNNING"
    /\ sup.st["SET"] \in {"none"} \cup Busy

\* What each command stands on.
PhaseInv ==
    /\ sup.st["FM1"] # "none" => sites.frozen /\ sup.st["SET"] \notin Busy /\ home # "none"
    /\ sup.st["FM2"] # "none" => sup.st["FM1"] = "SUCCEEDED"
    /\ sup.st["FM2"] = "SUCCEEDED" => sup.outcome = "HOME_LANDED"
    /\ timer # "off" => sup.st["FM1"] # "none"
    /\ sup.final = "SUCCEEDED" => sup.st["FM2"] = "SUCCEEDED"
    /\ \A c \in Phases : sup.st[c] \in {"FAILED", "ABORTED"} => sup.final # "none"

\* The one recovery: who has started it does not fly again, and it has an outcome unless it
\* had no home.
RecoveryInv ==
    /\ owner.started => owner.pc \in {"recover", "turn", "finish"} \cup Over
    /\ owner.pc \in {"recover", "raised"} => owner.started
    /\ owner.pc \in {"monitor", "ended"} => sup.final # "none" /\ (owner.started \/ sup.final = "SUCCEEDED")
    /\ owner.pc = "turn" /\ owner.started => sup.latched \/ sup.final # "none"
    /\ owner.pc = "recover" =>
         /\ owner.next \in {"turn", "taken"} => sup.latched \/ sup.final # "none"
         /\ owner.next = "judge" => owner.cmd = "FM2"
         /\ owner.next = "monitor" => sup.final # "none"
         /\ home # "none"
    /\ owner.pc = "finish" /\ owner.started => owner.cmd = "FM2"
    /\ owner.pc # "finish" => owner.result = "FAILED" /\ ~ owner.cancel
    /\ owner.pc = "finish" /\ owner.result = "SUCCEEDED" /\ owner.cmd = "FM2" =>
         sup.outcome = "HOME_LANDED"
    /\ owner.pc = "finish" /\ owner.cancel => owner.cmd \in Phases
    /\ owner.started /\ home = "none" => sup.final # "none"
    /\ owner.started /\ home # "none" /\ owner.pc # "recover" => sup.outcome # "none"
    /\ sup.outcome # "none" => owner.started /\ owner.pc # "recover" /\ home # "none"

\* Orders under way.  An operation of the flight begins when the one before it was answered,
\* so an order to arm or to take off has no other before it.
OrderIn(o) == \E i \in DOMAIN told : told[i] = o

OrdersInv ==
    /\ acked = "yes" => told = <<>>
    /\ act.op = "none" => act = NoAct
    /\ act.step = "order" => act.op # "touchdown"
    /\ session.up /\ owner.pc \notin {"fly", "recover"} => act = NoAct
    /\ owner.pc = "fly" /\ owner.cmd \notin Phases => act = NoAct
    /\ owner.pc = "recover" => act.op \in {"none", "climb", "home", "land", "touchdown", "disarm"}
    /\ session.up /\ owner.pc \in {"idle", "begin"} => told = <<>>
    /\ session.up /\ owner.pc = "turn" /\ ~ owner.started => told = <<>>
    /\ owner.pc = "finish" /\ (owner.cmd = "SET" \/ owner.result = "SUCCEEDED") /\ ~ owner.started
         => told = <<>>
    /\ owner.pc = "fly" /\ act.step # "wait" => told = <<>>
    /\ owner.pc = "fly" /\ act.step = "wait" /\ act.op = "touchdown" => told = <<>>

\* A vehicle that is seen disarmed on the ground is there, late as the telemetry is: it takes
\* off only when it is armed, and an order to arm is not followed by one to take off.
GroundInv ==
    /\ craft.landed # "ground" => craft.armed
    /\ session.up /\ seen.landed = "ground" /\ ~ seen.armed => craft.landed = "ground"
    /\ session.up /\ OrderIn("takeoff") => ~ OrderIn("arm") /\ (~ seen.armed => ~ craft.armed)
    /\ session.up /\ OrderIn("arm") => craft.landed = "ground" /\ seen.landed = "ground"

\* A recovery that has returned is at home, with nothing under way that could move it or arm it.
HomeInv ==
    /\ owner.pc # "recover" => rec = NewRec
    /\ owner.pc = "recover" =>
         /\ rec.stage = "goto" => act.op \in {"home", "none"}
         /\ (rec.stage = "goto" /\ act.op = "none") \/ rec.returned =>
              craft.at = home /\ ~ OrderIn("to H") /\ ~ OrderIn("to L")
         /\ (rec.stage = "goto" /\ (act.op = "none" \/ act.step = "wait")) \/ rec.returned =>
              ~ OrderIn("arm") /\ (seen.armed \/ ~ craft.armed)
         /\ rec.returned => /\ act.op \notin {"home", "climb"}
                            /\ rec.stage \notin {"look", "return", "approach", "goto"}

\* What the supervisor, the owner and its recovery may be.
Sups == [st : [Commands -> {"none"} \cup Busy \cup Results], latched : BOOLEAN,
         final : {"none"} \cup Results, outcome : {"none"} \cup Outcomes]
Pcs == {"idle", "begin", "fly", "finish", "recover", "turn", "monitor", "ended", "raised"}
Nexts == {"turn", "taken", "judge", "monitor", "raised"}
Owners == [pc : Pcs, cmd : {"none"} \cup Commands, k : 1 .. 7, result : Results,
           cancel : BOOLEAN, started : BOOLEAN, next : Nexts]
Recs == [stage : {"look", "return", "approach", "goto", "land", "landing", "preserve", "ground",
                  "disarmed"}, returned : BOOLEAN, again : BOOLEAN]

AttemptInv ==
    /\ AttemptTypeOK
    /\ SessionInv
    /\ LedgerInv
    /\ QueueInv
    /\ PhaseInv
    /\ RecoveryInv
    /\ OrdersInv
    /\ GroundInv
    /\ HomeInv

\* What the supervisor has gone through from s to t, when no command began or finished: an
\* abort may have been latched, and one may have been applied.
Aged(s, t) ==
    /\ t \in Sups /\ t.outcome = s.outcome /\ (s.latched => t.latched)
    /\ \/ t.st = s.st /\ t.final = s.final
       \/ /\ s.final = "none" /\ t.final = "ABORTED"
          /\ \A c \in Commands :
               t.st[c] = s.st[c] \/ (c \in Phases /\ s.st[c] = "QUEUED" /\ t.st[c] = "ABORTED")

\* Where the owner is who was o and needs the recovery on its way to next.
Departs(o, next) ==
    /\ owner' \in Owners /\ owner'.started
    /\ owner'.cmd = o.cmd /\ owner'.k = o.k /\ owner'.result = o.result
    /\ owner'.cancel = o.cancel
    /\ ~ o.started /\ home # "none" => owner'.pc = "recover" /\ owner'.next = next
    /\ ~ o.started /\ home = "none" => owner'.pc = IF next = "taken" THEN "turn" ELSE "raised"
    /\ o.started => owner'.pc = IF next = "taken" THEN "turn" ELSE next

\* An abort is applied to what has not begun.
LEMMA ApplyEffects ==
    ASSUME NEW s \in Sups
    PROVE  /\ Apply(s) \in Sups
           /\ Apply(s).latched = s.latched /\ Apply(s).outcome = s.outcome
           /\ \/ Apply(s) = s
              \/ Apply(s).final = "ABORTED" /\ s.final = "none" /\ s.latched
           /\ s.latched => Apply(s).final # "none"
           /\ \A c \in Commands :
                \/ Apply(s).st[c] = s.st[c]
                \/ c \in Phases /\ s.st[c] = "QUEUED" /\ Apply(s).st[c] = "ABORTED"
<1>1. CASE s.latched /\ s.final = "none"
  <2> DEFINE st == [c \in Commands |-> IF c \in Phases /\ s.st[c] = "QUEUED" THEN "ABORTED" ELSE s.st[c]]
  <2>1. st \in [Commands -> {"none"} \cup Busy \cup Results]
    BY DEF Results, Sups
  <2>2. Apply(s) = [s EXCEPT !.final = "ABORTED", !.st = st]
    BY <1>1 DEF Apply
  <2> HIDE DEF st
  <2>3. Apply(s).final = "ABORTED" /\ Apply(s).st = st /\ Apply(s).latched = s.latched
        /\ Apply(s).outcome = s.outcome
    BY <2>2 DEF Sups
  <2>4. Apply(s) \in Sups
    BY <2>1, <2>2 DEF Results, Sups
  <2>5. \A c \in Commands :
          \/ st[c] = s.st[c]
          \/ c \in Phases /\ s.st[c] = "QUEUED" /\ st[c] = "ABORTED"
    BY DEF st
  <2>6. QED
    BY <1>1, <2>3, <2>4, <2>5
<1>2. CASE ~ (s.latched /\ s.final = "none")
  BY <1>2 DEF Apply
<1>3. QED
  BY <1>1, <1>2

\* Where the owner goes when he needs the recovery.
LEMMA RecoveringEffects ==
    ASSUME NEW o \in Owners, NEW next \in Nexts, o.started => next # "judge",
           owner' = Recovering(o, next)
    PROVE  Departs(o, next)
<1>1. CASE o.started
  BY <1>1 DEF Recovering, Owners, Pcs, Nexts, Departs
<1>2. CASE ~ o.started /\ home = "none"
  BY <1>2 DEF Recovering, Owners, Pcs, Nexts, Departs
<1>3. CASE ~ o.started /\ home # "none"
  BY <1>3 DEF Recovering, Owners, Pcs, Nexts, Departs
<1>4. QED
  BY <1>1, <1>2, <1>3 DEF Owners

\* An abort applied is what ages the supervisor.
LEMMA ApplyAges ==
    ASSUME NEW s \in Sups
    PROVE  /\ Aged(s, Apply(s)) /\ Aged(s, [Apply(s) EXCEPT !.latched = TRUE])
           /\ Apply([s EXCEPT !.latched = TRUE]).final # "none"
           /\ Aged(s, Apply([s EXCEPT !.latched = TRUE])) /\ Aged(s, [s EXCEPT !.latched = TRUE])
           /\ Apply([s EXCEPT !.latched = TRUE]).latched
           /\ s.latched => Apply(s).final # "none"
<1>1. Aged(s, Apply(s)) /\ (s.latched => Apply(s).final # "none")
  BY ApplyEffects DEF Aged
<1>2. DEFINE l == [s EXCEPT !.latched = TRUE]
<1>3. l \in Sups /\ l.latched /\ l.st = s.st /\ l.final = s.final /\ l.outcome = s.outcome
  BY DEF Sups
<1> HIDE DEF l
<1>4. Aged(s, Apply(l)) /\ Apply(l).final # "none" /\ Aged(s, l) /\ Apply(l).latched
  BY <1>3, ApplyEffects DEF Aged
<1>5. Aged(s, [Apply(s) EXCEPT !.latched = TRUE])
  BY <1>1 DEF Aged, Sups
<1>6. QED
  BY <1>1, <1>4, <1>5 DEF l

LEMMA AttemptTypes ==
    AttemptTypeOK =>
      /\ sup \in Sups /\ owner \in Owners /\ rec \in Recs /\ ControlTypeOK
      /\ NewSup \in Sups /\ NewOwner \in Owners /\ NewRec \in Recs
<1>1. AttemptTypeOK => sup \in Sups /\ owner \in Owners /\ rec \in Recs /\ ControlTypeOK
  BY DEF AttemptTypeOK, Sups, Owners, Recs, Pcs, Nexts
<1>2. NewSup \in Sups /\ NewOwner \in Owners /\ NewRec \in Recs
  BY DEF NewSup, NewOwner, NewRec, Sups, Owners, Recs, Pcs, Nexts, Results
<1>3. QED
  BY <1>1, <1>2

\* An order leaves after those before it.
LEMMA OrderEffects ==
    ASSUME ControlTypeOK, OrdersInv, NEW first, OpOrders(first)
    PROVE  /\ ControlTypeOK'
           /\ \/ /\ told' = told /\ UNCHANGED acked
                 /\ \/ act.op = "release" /\ act' = NoAct
                    \/ act.op = "land" /\ act' = Doing("touchdown")
              \/ /\ act.op \in Operations \ {"release", "touchdown"}
                 /\ Needs(act.op) \/ act.op = "guided"
                 /\ act' = [act EXCEPT !.step = "wait"] /\ acked' = "none"
                 /\ \A o : OrderIn(o)' => OrderIn(o) \/ o = Order(act.op)
                 /\ told = <<>> => Len(told') = 1
                 /\ Len(told') >= Len(told)
<1>1. act.op \in Operations \ {"touchdown"} /\ act.step = "order" /\ told \in Seq(Orders) /\ Len(told) <= 2
  BY DEF OpOrders, ControlTypeOK, OrdersInv, NoAct
<1>2. CASE told' = told /\ UNCHANGED acked /\ act' = NoAct /\ act.op = "release"
  BY <1>1, <1>2 DEF OpOrders, ControlTypeOK, NoAct
<1>3. CASE UNCHANGED <<told, acked>> /\ act' = Doing("touchdown") /\ act.op = "land"
  BY <1>1, <1>3 DEF OpOrders, ControlTypeOK, NoAct, Doing, Operations
<1>4. CASE /\ told' = Append(IF Len(told) = 2 THEN Tail(told) ELSE told, Order(act.op))
           /\ Needs(act.op) \/ act.op = "guided"
           /\ act.op # "release"
           /\ acked' = "none" /\ act' = [act EXCEPT !.step = "wait"] /\ newer' = {}
  <2> DEFINE rest == IF Len(told) = 2 THEN Tail(told) ELSE told
             o == Order(act.op)
  <2>1. o \in Orders
    BY <1>1, <1>4 DEF Order, Operations, Orders
  <2>2. /\ rest \in Seq(Orders) /\ Len(rest) <= 1 /\ (told = <<>> => rest = <<>>)
        /\ Len(rest) + 1 >= Len(told)
        /\ \A i \in 1 .. Len(rest) : \E j \in 1 .. Len(told) : rest[i] = told[j]
    <3>1. CASE Len(told) = 2
      <4> DEFINE tail == Tail(told)
      <4>1. told # <<>>
        BY <3>1
      <4>2. tail \in Seq(Orders) /\ Len(tail) = Len(told) - 1
            /\ \A i \in 1 .. Len(tail) : tail[i] = told[i + 1]
        BY <1>1, <4>1, HeadTailProperties
      <4> HIDE DEF tail
      <4>3. Len(tail) = 1
        BY <3>1, <4>2
      <4>4. \A i \in 1 .. Len(tail) : \E j \in 1 .. Len(told) : tail[i] = told[j]
        BY <3>1, <4>2, <4>3
      <4>5. rest = tail
        BY <3>1 DEF tail
      <4>6. QED
        <5> HIDE DEF rest
        <5>1. Len(rest) + 1 >= Len(told)
          BY <3>1, <4>3, <4>5
        <5>5. rest \in Seq(Orders)
          BY <4>2, <4>5
        <5>6. Len(rest) = 1
          BY <4>3, <4>5
        <5>2. Len(rest) <= 1
          BY <5>6
        <5>3. \A i \in 1 .. Len(rest) : \E j \in 1 .. Len(told) : rest[i] = told[j]
          BY <4>4, <4>5
        <5>4. QED
          BY <4>1, <5>1, <5>2, <5>3, <5>5
    <3>2. CASE Len(told) # 2
      <4>1. rest = told
        BY <3>2
      <4>2. Len(told) \in Nat
        BY <1>1, LenProperties
      <4>3. \A n \in Nat : n <= 2 /\ n # 2 => n <= 1 /\ n + 1 >= n
        OBVIOUS
      <4>4. Len(told) <= 1 /\ Len(told) + 1 >= Len(told)
        BY <1>1, <3>2, <4>2, <4>3
      <4>5. QED
        <5> HIDE DEF rest
        <5>1. QED
          BY <1>1, <4>1, <4>4
    <3>3. QED
      BY <3>1, <3>2
  <2>3. told' = Append(rest, o)
    BY <1>4
  <2> HIDE DEF rest, o
  <2>4. /\ told' \in Seq(Orders) /\ Len(told') = Len(rest) + 1
        /\ \A i \in 1 .. Len(rest) : told'[i] = rest[i]
        /\ told'[Len(rest) + 1] = o
    BY <2>1, <2>2, <2>3, AppendProperties
  <2>5. ASSUME NEW p, OrderIn(p)' PROVE OrderIn(p) \/ p = o
    <3>1. PICK i \in DOMAIN told' : told'[i] = p
      BY <2>5 DEF OrderIn
    <3>2. i \in 1 .. Len(rest) + 1
      BY <2>4, <3>1
    <3>3. CASE i = Len(rest) + 1
      BY <2>4, <3>1, <3>3
    <3>4. CASE i \in 1 .. Len(rest)
      BY <1>1, <2>2, <2>4, <3>1, <3>4 DEF OrderIn
    <3>5. QED
      BY <2>2, <3>2, <3>3, <3>4
  <2>6. act'.op = act.op /\ act' \in [op : Operations \cup {"none"}, step : {"begin", "order", "wait"}, was : BOOLEAN]
    BY <1>4 DEF ControlTypeOK
  <2>7. ControlTypeOK'
    BY <1>4, <2>2, <2>4, <2>6 DEF OpOrders, ControlTypeOK
  <2>8. told = <<>> => Len(told') = 1
    BY <2>2, <2>4
  <2>9. Len(told') >= Len(told)
    BY <1>1, <2>2, <2>4
  <2>10. QED
    BY <1>1, <1>4, <2>5, <2>7, <2>8, <2>9 DEF o
<1>5. QED
  BY <1>2, <1>3, <1>4 DEF OpOrders

\* The vehicle handles the oldest order.
LEMMA ObeyEffects ==
    ASSUME ControlTypeOK, Obey
    PROVE  /\ ControlTypeOK' /\ Len(told') < Len(told) /\ OrderIn(Head(told))
           /\ \A o : OrderIn(o)' => OrderIn(o)
           /\ acked' = "yes" => acked = "yes" \/ told' = <<>>
           /\ craft' = craft \/ (craft' = Obeyed(Head(told)) /\ Willing(Head(told)))
<1>1. told \in Seq(Orders) /\ told # <<>> /\ Len(told) <= 2
  BY DEF Obey, ControlTypeOK
<1>2. /\ Head(told) \in Orders /\ Tail(told) \in Seq(Orders) /\ Len(Tail(told)) = Len(told) - 1
      /\ \A i \in 1 .. Len(Tail(told)) : Tail(told)[i] = told[i + 1]
      /\ Head(told) = told[1] /\ Len(told) \in Nat /\ Len(told) >= 1
  BY <1>1, HeadTailProperties
<1>3. told' = Tail(told)
  BY DEF Obey
<1>4. OrderIn(Head(told))
  BY <1>1, <1>2 DEF OrderIn
<1>5. \A o : OrderIn(o)' => OrderIn(o)
  BY <1>1, <1>2, <1>3 DEF OrderIn
<1>6. PICK yes \in {Willing(Head(told)), FALSE} :
        /\ craft' = IF yes THEN Obeyed(Head(told)) ELSE craft
        /\ acked' = IF Len(told) > 1 \/ act.step # "wait" \/ act.op = "touchdown" THEN acked
                    ELSE IF yes THEN "yes" ELSE "no"
  BY DEF Obey
<1>7. acked' = "yes" => acked = "yes" \/ told' = <<>>
  BY <1>1, <1>2, <1>3, <1>6
<1>8. craft' = craft \/ (craft' = Obeyed(Head(told)) /\ Willing(Head(told)))
  BY <1>6
<1>9. craft' \in [mode : Modes, armed : BOOLEAN, landed : LandedStates, at : {"H", "L"}]
  <2> DEFINE C == [mode : Modes, armed : BOOLEAN, landed : LandedStates, at : {"H", "L"}]
  <2>0. craft \in C
    BY DEF ControlTypeOK
  <2>1. Obeyed("guided") \in C /\ Obeyed("land") \in C
    BY <2>0 DEF Obeyed, Modes
  <2>2. Obeyed("arm") \in C /\ Obeyed("disarm") \in C
    BY <2>0 DEF Obeyed
  <2>3. Obeyed("takeoff") \in C /\ Obeyed("climb") \in C
    BY <2>0 DEF Obeyed, LandedStates
  <2>4. Obeyed("to L") \in C /\ Obeyed("to H") \in C
    BY <2>0 DEF Obeyed
  <2> HIDE DEF C
  <2>5. \A o \in Orders : Obeyed(o) \in C
    BY <2>1, <2>2, <2>3, <2>4 DEF Orders
  <2>6. QED
    BY <1>2, <1>8, <2>0, <2>5 DEF C
<1>10. acked' \in {"none", "yes", "no"}
  BY <1>6 DEF ControlTypeOK
<1>11. told' \in Seq(Orders) /\ Len(told') <= 2 /\ Len(told') < Len(told)
  BY <1>1, <1>2, <1>3
<1>12. ControlTypeOK'
  BY <1>9, <1>10, <1>11 DEF ControlTypeOK, Obey
<1>13. QED
  BY <1>4, <1>5, <1>7, <1>8, <1>11, <1>12

\* process_next takes a command, or the interruption it meets.
LEMMA TakeEffects ==
    ASSUME AttemptInv, TakeCommand
    PROVE  \E c \in Commands :
             /\ queue = <<c>> /\ queue' = <<>> /\ radio = "none" /\ Waiting(c)
             /\ Aged(sup, sup')
             /\ \/ sup'.final # "ABORTED" /\ owner' = [owner EXCEPT !.cmd = c, !.pc = "begin"]
                \/ /\ Departs([owner EXCEPT !.cmd = c], "taken") /\ sup'.latched
                   /\ sup'.final = "ABORTED" \/ timer = "due"
<1>1. sup \in Sups /\ owner \in Owners /\ ~ owner.started
  BY AttemptTypes DEF AttemptInv, TakeCommand, OwnerAt, RecoveryInv, Over
<1>2. PICK c \in Commands : queue = <<c>>
  BY DEF AttemptInv, QueueInv, TakeCommand
<1>3. Head(queue) = c /\ queue' = <<>>
  BY <1>2 DEF TakeCommand
<1>4. radio = "none" /\ Waiting(c)
  BY <1>2 DEF AttemptInv, QueueInv, Pending, TakeCommand
<1>5. DEFINE o == [owner EXCEPT !.cmd = c]
<1>6. o \in Owners /\ ~ o.started
  BY <1>1 DEF Owners
<1>7. Aged(sup, Apply(sup)) /\ Aged(sup, [Apply(sup) EXCEPT !.latched = TRUE])
  BY <1>1, ApplyAges
<1>8. CASE Apply(sup).final = "ABORTED" \/ timer = "due"
  <2>1. sup' = [Apply(sup) EXCEPT !.latched = TRUE] /\ owner' = Recovering(o, "taken")
    BY <1>3, <1>8 DEF TakeCommand
  <2>2. Departs(o, "taken")
    BY <1>6, <2>1, RecoveringEffects DEF Nexts
  <2>3. Apply(sup) \in Sups
    BY <1>7 DEF Aged
  <2>4. sup'.latched /\ sup'.final = Apply(sup).final
    BY <2>1, <2>3 DEF Sups
  <2>5. QED
    BY <1>2, <1>3, <1>4, <1>7, <1>8, <2>1, <2>2, <2>4
<1>9. CASE ~ (Apply(sup).final = "ABORTED" \/ timer = "due")
  <2>1. sup' = Apply(sup) /\ owner' = [o EXCEPT !.pc = "begin"]
    BY <1>3, <1>9 DEF TakeCommand
  <2>2. owner' = [owner EXCEPT !.cmd = c, !.pc = "begin"]
    BY <2>1
  <2>3. QED
    BY <1>2, <1>3, <1>4, <1>7, <1>9, <2>1, <2>2
<1>10. QED
  BY <1>8, <1>9

\* begin(): the command runs, or an abort has taken it.
LEMMA BeginEffects ==
    ASSUME AttemptInv, BeginCommand
    PROVE  LET c == owner.cmd IN
           /\ c \in Commands /\ ~ owner.started
           /\ \/ /\ sup.st[c] = "ABORTED" /\ c \in Phases
                 /\ Aged(sup, sup') /\ Departs(owner, "turn") /\ timer' = timer
              \/ /\ sup.st[c] = "QUEUED"
                 /\ sup' \in Sups /\ sup'.st = [sup.st EXCEPT ![c] = "RUNNING"]
                 /\ sup'.final = sup.final /\ sup'.outcome = sup.outcome
                 /\ sup.latched => sup'.latched
                 /\ timer' = IF c = "FM1" THEN "runs" ELSE timer
                 /\ \/ \E pc \in {"finish", "fly"} : owner' = [owner EXCEPT !.pc = pc]
                    \/ c \in Phases /\ owner' = [owner EXCEPT !.pc = "finish", !.cancel = TRUE]
<1> DEFINE c == owner.cmd
<1>1. sup \in Sups /\ owner \in Owners /\ ~ owner.started /\ owner.pc = "begin"
  BY AttemptTypes DEF AttemptInv, BeginCommand, OwnerAt, RecoveryInv, Over
<1>2. c \in Commands /\ Waiting(c)
  BY <1>1 DEF AttemptInv, QueueInv, Holding
<1>3. CASE sup.st[c] # "QUEUED"
  <2>1. sup' = Apply(sup) /\ owner' = Recovering(owner, "turn") /\ timer' = timer
    BY <1>3 DEF BeginCommand
  <2>2. Aged(sup, sup')
    BY <1>1, <2>1, ApplyAges
  <2>3. Departs(owner, "turn")
    BY <1>1, <2>1, RecoveringEffects DEF Nexts
  <2>4. QED
    BY <1>1, <1>2, <1>3, <2>1, <2>2, <2>3 DEF Waiting
<1>4. CASE sup.st[c] = "QUEUED"
  <2> DEFINE due == timer = "due"
  <2>1. /\ sup' = [sup EXCEPT !.st[c] = "RUNNING", !.latched = @ \/ due]
        /\ timer' = IF c = "FM1" THEN "runs" ELSE timer
        /\ \/ owner' = [owner EXCEPT !.pc = IF due THEN "finish" ELSE "fly"]
           \/ c \in Phases /\ owner' = [owner EXCEPT !.pc = "finish", !.cancel = TRUE]
    BY <1>4 DEF BeginCommand
  <2>0. sup.st \in [Commands -> {"none"} \cup Busy \cup Results] /\ sup.latched \in BOOLEAN
    BY <1>1 DEF Sups
  <2>5. [sup.st EXCEPT ![c] = "RUNNING"] \in [Commands -> {"none"} \cup Busy \cup Results]
    BY <2>0 DEF Busy
  <2>2. /\ sup'.st = [sup.st EXCEPT ![c] = "RUNNING"]
        /\ sup'.final = sup.final /\ sup'.outcome = sup.outcome
        /\ sup'.latched = (sup.latched \/ due)
    BY <1>1, <2>1 DEF Sups
  <2>3. sup' \in Sups
    <3> DEFINE b == sup.latched \/ due
               f == [sup.st EXCEPT ![c] = "RUNNING"]
    <3>1. sup' = [sup EXCEPT !.st = f, !.latched = b]
      BY <1>1, <2>1 DEF Sups
    <3>2. b \in BOOLEAN /\ f \in [Commands -> {"none"} \cup Busy \cup Results]
      BY <2>5
    <3> HIDE DEF b, f
    <3>3. QED
      BY <1>1, <3>1, <3>2 DEF Sups
  <2>6. \E pc \in {"finish", "fly"} : [owner EXCEPT !.pc = IF due THEN "finish" ELSE "fly"]
                                        = [owner EXCEPT !.pc = pc]
    OBVIOUS
  <2>4. QED
    BY <1>1, <1>2, <1>4, <2>1, <2>2, <2>3, <2>6
<1>5. QED
  BY <1>3, <1>4

\* fm1 or fm2 raises.
LEMMA FailEffects ==
    ASSUME AttemptInv, FlightFails
    PROVE  /\ Aged(sup, sup')
           /\ \E b \in BOOLEAN : owner' = [owner EXCEPT !.pc = "finish", !.k = 1, !.cancel = b]
<1>1. sup \in Sups /\ owner \in Owners
  BY AttemptTypes DEF AttemptInv
<1>2. PICK why \in {"failed", "clock"} \cup {w \in {"due"} : timer = "due"} :
         /\ sup' = Apply([sup EXCEPT !.latched = @ \/ why = "due"])
         /\ owner' = [owner EXCEPT !.pc = "finish", !.k = 1, !.cancel = why = "clock"]
  BY DEF FlightFails
<1>3. Aged(sup, sup')
  <2>1. CASE why = "due"
    <3>1. [sup EXCEPT !.latched = @ \/ why = "due"] = [sup EXCEPT !.latched = TRUE]
      BY <1>1, <2>1
    <3>2. QED
      BY <1>1, <1>2, <3>1, ApplyAges
  <2>2. CASE why # "due"
    <3>1. [sup EXCEPT !.latched = @ \/ why = "due"] = sup
      BY <1>1, <2>2 DEF Sups
    <3>2. QED
      BY <1>1, <1>2, <3>1, ApplyAges
  <2>3. QED
    BY <2>1, <2>2
<1>4. (why = "clock") \in BOOLEAN
  OBVIOUS
<1>5. QED
  BY <1>2, <1>3, <1>4

\* fm1 or fm2 returns.
LEMMA ReturnEffects ==
    ASSUME AttemptInv, HandlerReturns
    PROVE  /\ Aged(sup, sup') /\ sup'.st = sup.st /\ sup'.final = sup.final
           /\ ~ owner.started /\ home # "none" /\ owner.cmd \in Phases
           /\ \/ owner' = [owner EXCEPT !.k = 1, !.pc = "finish"] /\ sup'.latched
              \/ owner.cmd = "FM2" /\ Departs([owner EXCEPT !.k = 1], "judge")
              \/ /\ owner.cmd = "FM1"
                 /\ owner' = [owner EXCEPT !.k = 1, !.pc = "finish", !.result = "SUCCEEDED"]
<1>1. sup \in Sups /\ owner \in Owners /\ ~ owner.started /\ owner.cmd \in Phases /\ owner.pc = "fly"
  BY AttemptTypes DEF AttemptInv, HandlerReturns, Flying, OwnerAt, RecoveryInv, Over
<1>2. home # "none"
  <2>1. sup.st[owner.cmd] = "RUNNING"
    BY <1>1 DEF AttemptInv, QueueInv, Holding
  <2>2. QED
    BY <1>1, <2>1 DEF AttemptInv, PhaseInv, Phases
<1>3. Aged(sup, sup') /\ sup'.st = sup.st /\ sup'.final = sup.final /\ (timer = "due" => sup'.latched)
  <2>1. sup' = [sup EXCEPT !.latched = sup.latched \/ timer = "due"]
    BY DEF HandlerReturns
  <2> DEFINE b == sup.latched \/ timer = "due"
  <2>2. b \in BOOLEAN /\ (sup.latched => b) /\ (timer = "due" => b)
    BY <1>1
  <2>3. sup' = [sup EXCEPT !.latched = b]
    BY <2>1
  <2> HIDE DEF b
  <2>4. QED
    BY <1>1, <2>2, <2>3 DEF Aged, Sups
<1> DEFINE o == [owner EXCEPT !.k = 1]
<1>4. o \in Owners /\ ~ o.started
  BY <1>1 DEF Owners
<1>5. CASE timer = "due"
  <2>1. owner' = [o EXCEPT !.pc = "finish"]
    BY <1>5 DEF HandlerReturns
  <2>2. QED
    BY <1>1, <1>2, <1>3, <1>5, <2>1
<1>6. CASE timer # "due" /\ owner.cmd = "FM2"
  <2>1. owner' = Recovering(o, "judge")
    BY <1>6 DEF HandlerReturns
  <2>2. Departs(o, "judge")
    BY <1>4, <2>1, RecoveringEffects DEF Nexts
  <2>3. QED
    BY <1>1, <1>2, <1>3, <1>6, <2>2
<1>7. CASE timer # "due" /\ owner.cmd # "FM2"
  <2>1. owner' = [o EXCEPT !.pc = "finish", !.result = "SUCCEEDED"]
    BY <1>7 DEF HandlerReturns
  <2>2. owner.cmd = "FM1"
    BY <1>1, <1>7 DEF Phases
  <2>3. QED
    BY <1>1, <1>2, <1>3, <2>1, <2>2
<1>8. QED
  BY <1>5, <1>6, <1>7

\* finish(), and what process_next makes of the result.
LEMMA FinishEffects ==
    ASSUME AttemptInv, FinishCommand
    PROVE  LET c == owner.cmd IN
           /\ c \in Commands /\ sup.st[c] = "RUNNING"
           /\ sup' \in Sups /\ sup'.outcome = sup.outcome /\ (sup.latched => sup'.latched)
           /\ \A d \in Commands \ {c} : 
                sup'.st[d] = sup.st[d]
                \/ (d \in Phases /\ sup.st[d] = "QUEUED" /\ sup'.st[d] = "ABORTED" /\ sup'.final # "none")
           /\ sup.final # "none" => sup'.final = sup.final
           /\ c = "SET" => sup'.st[c] = "none" /\ sup'.final \in {sup.final, "ABORTED"}
           /\ c # "SET" => /\ sup'.st[c] \in Results
                           /\ sup'.st[c] = "SUCCEEDED" => owner.result = "SUCCEEDED"
                           /\ sup'.st[c] # "SUCCEEDED" \/ c = "FM2" => sup'.final # "none"
           /\ sup.final = "none" /\ sup'.final = "SUCCEEDED" => c = "FM2" /\ sup'.st[c] = "SUCCEEDED"
           /\ LET o == [NewOwner EXCEPT !.started = owner.started] IN
              \/ owner' = [o EXCEPT !.pc = "turn"] /\ (c # "SET" => sup'.st[c] = "SUCCEEDED")
              \/ Departs(o, "turn") /\ c # "SET" /\ sup'.st[c] # "SUCCEEDED"
              \/ Departs(o, "raised") /\ c # "SET"
<1> DEFINE c == owner.cmd
           s == Apply(sup)
           r == IF s.final = "ABORTED" THEN "ABORTED" ELSE owner.result
           f == IF c = "SET" \/ s.final # "none" THEN s.final
                ELSE IF r # "SUCCEEDED" \/ c = "FM2" THEN r ELSE s.final
           o == [NewOwner EXCEPT !.started = owner.started]
<1>1. sup \in Sups /\ owner \in Owners /\ owner.pc = "finish" /\ NewOwner \in Owners
  BY AttemptTypes DEF AttemptInv, FinishCommand, OwnerAt
<1>2. c \in Commands /\ sup.st[c] = "RUNNING"
  BY <1>1 DEF AttemptInv, QueueInv, Holding
<1>3. Aged(sup, s) /\ s \in Sups
  BY <1>1, ApplyAges DEF Aged
<1>4. s.st[c] = "RUNNING"
  BY <1>2, <1>3 DEF Aged
<1>5. sup' = Finished(s, c, owner.result)
  BY DEF FinishCommand
<1>6. sup' = [s EXCEPT !.st[c] = IF c = "SET" THEN "none" ELSE r, !.final = f]
  BY <1>3, <1>5 DEF Finished, Sups
<1>7. o \in Owners /\ o.started = owner.started
  BY <1>1 DEF Owners
<1>8. r \in Results /\ (r = "SUCCEEDED" => owner.result = "SUCCEEDED")
  BY <1>1 DEF Owners, Results
<1>9. f \in {"none"} \cup Results
  BY <1>3, <1>8 DEF Sups
<1>10. DEFINE t == IF c = "SET" THEN "none" ELSE r
              st == [s.st EXCEPT ![c] = t]
<1>11. t \in {"none"} \cup Results /\ (c = "SET" => t = "none") /\ (c # "SET" => t = r)
  BY <1>8
<1>12. sup' = [s EXCEPT !.st = st, !.final = f]
  BY <1>3, <1>6 DEF Sups
<1>13. /\ (c = "SET" => f = s.final) /\ (s.final # "none" => f = s.final)
       /\ (c # "SET" /\ (r # "SUCCEEDED" \/ c = "FM2") => f # "none")
       /\ (s.final = "none" /\ f = "SUCCEEDED" => c = "FM2" /\ r = "SUCCEEDED")
  BY <1>8 DEF Results
<1>14. owner.result = "SUCCEEDED" \/ r # "SUCCEEDED"
  BY <1>8
<1> HIDE DEF s, r, f, t, o
<1>15. st \in [Commands -> {"none"} \cup Busy \cup Results]
  BY <1>3, <1>11 DEF Sups
<1>16. st[c] = t /\ \A d \in Commands \ {c} : st[d] = s.st[d]
  BY <1>2, <1>3 DEF Sups
<1> HIDE DEF st
<1>17. sup' \in Sups /\ sup'.st = st /\ sup'.final = f /\ sup'.outcome = s.outcome
       /\ sup'.latched = s.latched
  BY <1>3, <1>9, <1>12, <1>15 DEF Sups
<1>18. \/ owner' = CASE owner.cancel -> Recovering(o, "raised")
                     [] ~owner.cancel /\ c \in Phases /\ ~(sup'.st[c] = "SUCCEEDED") -> Recovering(o, "turn")
                     [] OTHER -> [o EXCEPT !.pc = "turn"]
       \/ sup'.st[c] = "SUCCEEDED" /\ ~owner.cancel /\ owner' = Recovering(o, "raised")
  BY DEF FinishCommand, o
<1>19. /\ owner' = Recovering(o, "raised") => Departs(o, "raised")
       /\ owner' = Recovering(o, "turn") => Departs(o, "turn")
  BY <1>7, RecoveringEffects DEF Nexts
<1>20. owner.cancel => c # "SET"
  BY <1>1 DEF AttemptInv, RecoveryInv, Phases
<1>21. c # "SET" <=> c \in Phases
  BY <1>2 DEF Commands, Phases
<1>22. sup'.st[c] = "SUCCEEDED" => c # "SET"
  BY <1>11, <1>16, <1>17
<1>23. \/ owner' = [o EXCEPT !.pc = "turn"] /\ (c # "SET" => sup'.st[c] = "SUCCEEDED")
       \/ Departs(o, "turn") /\ c # "SET" /\ sup'.st[c] # "SUCCEEDED"
       \/ Departs(o, "raised") /\ c # "SET"
  <2>1. CASE owner.cancel /\ owner' = Recovering(o, "raised")
    BY <1>19, <1>20, <2>1
  <2>2. CASE ~ owner.cancel /\ c \in Phases /\ sup'.st[c] # "SUCCEEDED" /\ owner' = Recovering(o, "turn")
    BY <1>19, <1>21, <2>2
  <2>3. CASE ~ (c \in Phases /\ sup'.st[c] # "SUCCEEDED") /\ owner' = [o EXCEPT !.pc = "turn"]
    BY <1>21, <2>3
  <2>4. CASE sup'.st[c] = "SUCCEEDED" /\ owner' = Recovering(o, "raised")
    BY <1>19, <1>22, <2>4
  <2>5. QED
    BY <1>18, <2>1, <2>2, <2>3, <2>4
<1>24. sup'.outcome = sup.outcome /\ (sup.latched => sup'.latched)
       /\ (sup.final # "none" => s.final = sup.final) /\ s.final \in {sup.final, "ABORTED"}
       /\ (sup.final = "none" /\ s.final # "none" => s.final = "ABORTED")
  BY <1>3, <1>17 DEF Aged
<1>25. \A d \in Commands \ {c} :
          sup'.st[d] = sup.st[d]
          \/ (d \in Phases /\ sup.st[d] = "QUEUED" /\ sup'.st[d] = "ABORTED" /\ sup'.final # "none")
  <2> TAKE d \in Commands \ {c}
  <2>1. sup'.st[d] = s.st[d]
    BY <1>16, <1>17
  <2>2. CASE s.st = sup.st
    BY <2>1, <2>2
  <2>3. CASE s.final = "ABORTED" /\ (s.st[d] = sup.st[d] \/ (d \in Phases /\ sup.st[d] = "QUEUED" /\ s.st[d] = "ABORTED"))
    BY <1>13, <1>17, <2>1, <2>3
  <2>4. QED
    BY <1>3, <2>2, <2>3 DEF Aged
<1>26. sup.final # "none" => sup'.final = sup.final
  BY <1>13, <1>17, <1>24
<1>27. c = "SET" => sup'.st[c] = "none" /\ sup'.final \in {sup.final, "ABORTED"}
  BY <1>11, <1>13, <1>16, <1>17, <1>24
<1>28. c # "SET" => /\ sup'.st[c] \in Results
                    /\ sup'.st[c] = "SUCCEEDED" => owner.result = "SUCCEEDED"
                    /\ sup'.st[c] # "SUCCEEDED" \/ c = "FM2" => sup'.final # "none"
  BY <1>8, <1>11, <1>13, <1>16, <1>17
<1>29. sup.final = "none" /\ sup'.final = "SUCCEEDED" => c = "FM2" /\ sup'.st[c] = "SUCCEEDED"
  BY <1>11, <1>13, <1>16, <1>17, <1>24
<1> HIDE DEF c
<1>30. QED
  BY <1>2, <1>17, <1>23, <1>24, <1>25, <1>26, <1>27, <1>28, <1>29 DEF o, c

\* _process_idle finds an abort, the deadline or stale evidence.
LEMMA IdleEffects ==
    ASSUME AttemptInv, Idle
    PROVE  /\ Aged(sup, sup') /\ sup'.latched /\ Departs(owner, "turn") /\ ~ owner.started
           /\ sup'.final = "ABORTED" \/ timer # "off"
<1>1. sup \in Sups /\ owner \in Owners /\ ~ owner.started
  BY AttemptTypes DEF AttemptInv, Idle, OwnerAt, RecoveryInv, Over
<1>2. Aged(sup, Apply(sup)) /\ Aged(sup, [Apply(sup) EXCEPT !.latched = TRUE])
  BY <1>1, ApplyAges
<1>3. sup' = [Apply(sup) EXCEPT !.latched = TRUE] /\ owner' = Recovering(owner, "turn")
      /\ (Apply(sup).final = "ABORTED" \/ timer # "off")
  BY DEF Idle
<1>4. Departs(owner, "turn")
  BY <1>1, <1>3, RecoveringEffects DEF Nexts
<1>5. sup'.latched /\ sup'.final = Apply(sup).final
  BY <1>2, <1>3 DEF Aged, Sups
<1>6. QED
  BY <1>1, <1>2, <1>3, <1>4, <1>5

\* The clock fails between two commands.
LEMMA ClockIdleEffects ==
    ASSUME AttemptInv, ClockFailsIdle
    PROVE  Aged(sup, sup') /\ sup'.latched /\ Departs(owner, "raised") /\ ~ owner.started
<1>1. sup \in Sups /\ owner \in Owners /\ ~ owner.started
  BY AttemptTypes DEF AttemptInv, ClockFailsIdle, OwnerAt, RecoveryInv, Over
<1>2. sup' = [sup EXCEPT !.latched = TRUE] /\ owner' = Recovering(owner, "raised")
  BY DEF ClockFailsIdle
<1>3. Aged(sup, sup') /\ sup'.latched
  BY <1>1, <1>2 DEF Aged, Sups
<1>4. Departs(owner, "raised")
  BY <1>1, <1>2, RecoveringEffects DEF Nexts
<1>5. QED
  BY <1>1, <1>3, <1>4

\* The loop of run() goes round, or ends.
LEMMA TurnEffects ==
    ASSUME AttemptInv, Turn
    PROVE  /\ Aged(sup, sup')
           /\ \/ /\ sup'.final = "none" /\ ~ owner.started
                 /\ owner' = [owner EXCEPT !.pc = "idle", !.cmd = "none"]
              \/ sup'.final = "SUCCEEDED" /\ owner' = [owner EXCEPT !.pc = "monitor"]
              \/ sup'.final # "none" /\ Departs(owner, "monitor")
<1>1. sup \in Sups /\ owner \in Owners /\ owner.pc = "turn"
  BY AttemptTypes DEF AttemptInv, Turn, OwnerAt
<1>2. sup' = Apply(sup) /\ Aged(sup, sup') /\ (sup.latched => sup'.final # "none")
  BY <1>1, ApplyAges DEF Turn
<1>3. CASE sup'.final = "none"
  <2>1. owner' = [owner EXCEPT !.pc = "idle", !.cmd = "none"]
    BY <1>3 DEF Turn
  <2>2. sup.final = "none"
    BY <1>2, <1>3 DEF Aged
  <2>3. ~ owner.started
    BY <1>1, <1>2, <1>3, <2>2 DEF AttemptInv, RecoveryInv
  <2>4. QED
    BY <1>2, <1>3, <2>1, <2>3
<1>4. CASE sup'.final = "SUCCEEDED"
  BY <1>2, <1>4 DEF Turn
<1>5. CASE sup'.final \notin {"none", "SUCCEEDED"}
  <2>1. owner' = Recovering(owner, "monitor")
    BY <1>5 DEF Turn
  <2>2. QED
    BY <1>1, <1>2, <1>5, <2>1, RecoveringEffects DEF Nexts
<1>6. QED
  BY <1>3, <1>4, <1>5

\* The recovery is over.
LEMMA RecoveryEffects ==
    ASSUME AttemptInv, NEW outcome \in Outcomes, NEW raises \in BOOLEAN,
           RecoveryEnds(outcome, raises)
    PROVE  /\ sup' = [sup EXCEPT !.outcome = outcome] /\ sup' \in Sups
           /\ owner' \in Owners /\ owner'.cmd = owner.cmd /\ owner'.k = owner.k
           /\ owner'.started = owner.started
           /\ owner.next = "judge" =>
                /\ owner'.pc = "finish" /\ owner'.cancel = raises
                /\ owner'.result = IF outcome = "HOME_LANDED" THEN "SUCCEEDED" ELSE "FAILED"
           /\ owner.next # "judge" =>
                /\ owner'.result = owner.result /\ owner'.cancel = owner.cancel
                /\ owner'.pc = IF raises THEN "raised" ELSE IF owner.next = "taken" THEN "turn"
                               ELSE owner.next
           /\ act' = NoAct /\ newer' = {} /\ acked' = "none" /\ rec' = NewRec
<1>1. sup \in Sups /\ owner \in Owners
  BY AttemptTypes DEF AttemptInv
<1>2. sup' = [sup EXCEPT !.outcome = outcome] /\ sup' \in Sups
  BY <1>1 DEF RecoveryEnds, Sups
<1>3. CASE owner.next = "judge"
  <2> DEFINE r == IF outcome = "HOME_LANDED" THEN "SUCCEEDED" ELSE "FAILED"
  <2>1. owner' = [owner EXCEPT !.pc = "finish", !.cancel = raises, !.result = r]
    BY <1>3 DEF RecoveryEnds
  <2>2. r \in Results
    BY DEF Results
  <2>3. QED
    BY <1>1, <1>2, <1>3, <2>1, <2>2 DEF RecoveryEnds, Owners, Pcs
<1>4. CASE owner.next # "judge" /\ raises
  <2>1. owner' = [owner EXCEPT !.pc = "raised"]
    BY <1>4 DEF RecoveryEnds
  <2>2. QED
    BY <1>1, <1>2, <1>4, <2>1 DEF RecoveryEnds, Owners, Pcs
<1>5. CASE owner.next = "taken" /\ ~ raises
  <2>1. owner' = [owner EXCEPT !.pc = "turn"]
    BY <1>5 DEF RecoveryEnds
  <2>2. QED
    BY <1>1, <1>2, <1>5, <2>1 DEF RecoveryEnds, Owners, Pcs
<1>6. CASE owner.next \notin {"judge", "taken"} /\ ~ raises
  <2>1. owner' = [owner EXCEPT !.pc = owner.next]
    BY <1>6 DEF RecoveryEnds
  <2>2. owner.next \in Pcs
    BY <1>1, <1>6 DEF Owners, Pcs, Nexts
  <2>3. QED
    BY <1>1, <1>2, <1>6, <2>1, <2>2 DEF RecoveryEnds, Owners
<1>7. QED
  BY <1>3, <1>4, <1>5, <1>6

\* What is seen and done keeps the types.
LEMMA ControlTypeStep ==
    ASSUME ControlTypeOK,
           OpBegins \/ OpConfirms \/ SeeHeartbeat \/ SeeLanded \/ LoseAuthority \/ Drift \/ ModeChanges
    PROVE  ControlTypeOK'
<1>1. CASE OpBegins
  <2>1. act' \in [op : Operations \cup {"none"}, step : {"begin", "order", "wait"}, was : BOOLEAN]
    <3>1. CASE act' = NoAct
      BY <3>1 DEF NoAct
    <3>2. CASE act' = [op |-> "touchdown", step |-> "wait", was |-> seen.armed]
      BY <3>2 DEF ControlTypeOK, Operations
    <3>3. CASE act' = [act EXCEPT !.step = "order"]
      BY <3>3 DEF ControlTypeOK
    <3>4. QED
      BY <1>1, <3>1, <3>2, <3>3 DEF OpBegins
  <2>2. newer' \subseteq {"heartbeat", "landed"}
    BY <1>1 DEF OpBegins, ControlTypeOK
  <2>3. QED
    BY <1>1, <2>1, <2>2 DEF OpBegins, ControlTypeOK, craftVars
<1>2. CASE OpConfirms
  <2>1. act' \in [op : Operations \cup {"none"}, step : {"begin", "order", "wait"}, was : BOOLEAN]
    BY <1>2 DEF OpConfirms, ControlTypeOK, NoAct, Operations
  <2>2. QED
    BY <1>2, <2>1 DEF OpConfirms, ControlTypeOK
<1>3. CASE SeeHeartbeat
  <2>1. seen' \in [mode : Modes, armed : BOOLEAN, landed : LandedStates]
    BY <1>3 DEF SeeHeartbeat, ControlTypeOK
  <2>2. newer' \subseteq {"heartbeat", "landed"} /\ authority' \in {"none", "COMPANION", "lost"}
    BY <1>3 DEF SeeHeartbeat, ControlTypeOK
  <2>3. QED
    BY <1>3, <2>1, <2>2 DEF SeeHeartbeat, ControlTypeOK, craftVars
<1>4. CASE SeeLanded
  <2>1. seen' \in [mode : Modes, armed : BOOLEAN, landed : LandedStates]
    BY <1>4 DEF SeeLanded, ControlTypeOK
  <2>2. newer' \subseteq {"heartbeat", "landed"}
    BY <1>4 DEF SeeLanded, ControlTypeOK
  <2>3. QED
    BY <1>4, <2>1, <2>2 DEF SeeLanded, ControlTypeOK, craftVars
<1>5. CASE LoseAuthority
  BY <1>5 DEF LoseAuthority, ControlTypeOK, craftVars
<1>6. CASE Drift
  <2>1. craft' \in [mode : Modes, armed : BOOLEAN, landed : LandedStates, at : {"H", "L"}]
    BY <1>6 DEF Drift, ControlTypeOK, LandedStates
  <2>2. QED
    BY <1>6, <2>1 DEF Drift, ControlTypeOK
<1>7. CASE ModeChanges
  <2>1. craft' \in [mode : Modes, armed : BOOLEAN, landed : LandedStates, at : {"H", "L"}]
    BY <1>7 DEF ModeChanges, ControlTypeOK, Modes
  <2>2. QED
    BY <1>7, <2>1 DEF ModeChanges, ControlTypeOK
<1>8. QED
  BY <1>1, <1>2, <1>3, <1>4, <1>5, <1>6, <1>7

\* Nothing of the vehicle and its operations is touched.
LEMMA ControlKept ==
    UNCHANGED controlVars => (ControlTypeOK => ControlTypeOK')
BY DEF controlVars, craftVars, ControlTypeOK

\* What a stage of the recovery does to the owner's operation.
LEMMA StageEffects ==
    ASSUME AttemptInv, RecoverStage
    PROVE  /\ rec' \in Recs
           /\ act' \in {NoAct, Doing("touchdown"), Doing("climb"), Doing("home"), Doing("land"),
                        Doing("disarm")}
           /\ \/ UNCHANGED <<sup, owner, newer, acked>>
              \/ \E outcome \in {"UNCONFIRMED", "HOME_LANDED", "LOCAL_LANDED"} :
                   /\ RecoveryEnds(outcome, FALSE)
                   /\ outcome # "UNCONFIRMED" =>
                        /\ rec.stage \in {"ground", "disarmed"} /\ OnGround /\ ~ seen.armed
                        /\ (outcome = "HOME_LANDED") = rec.returned
<1>1. rec \in Recs /\ act = NoAct
  BY AttemptTypes DEF AttemptInv, OrdersInv, RecoverStage
<1>2. CASE Interrupted
  <2>1. CASE /\ rec' = [rec EXCEPT !.stage = "ground", !.again = rec.stage \in {"return", "approach"}]
             /\ UNCHANGED <<sup, owner, act, newer, acked>>
    <3> DEFINE b == rec.stage \in {"return", "approach"}
    <3>1. rec' = [rec EXCEPT !.stage = "ground", !.again = b] /\ b \in BOOLEAN
      BY <2>1
    <3> HIDE DEF b
    <3>2. rec' \in Recs
      BY <1>1, <3>1 DEF Recs
    <3>3. QED
      BY <1>1, <2>1, <3>2
  <2>2. CASE act' = Doing("touchdown") /\ Stage("preserve")
    BY <1>1, <2>2 DEF Stage, Recs
  <2>3. CASE Stage("land") /\ UNCHANGED act
    BY <1>1, <2>3 DEF Stage, Recs
  <2>4. CASE RecoveryEnds("UNCONFIRMED", FALSE)
    BY <1>1, <2>4, AttemptTypes DEF RecoveryEnds, AttemptInv
  <2>5. QED
    BY <1>2, <2>1, <2>2, <2>3, <2>4 DEF Interrupted
<1>3. CASE Approach
  <2>1. CASE UNCHANGED act /\ \E stage \in {"return"} : Stage(stage)
    BY <1>1, <2>1 DEF Stage, Recs
  <2>2. CASE act' \in {NoAct, Doing("climb")} /\ Stage("approach")
    BY <1>1, <2>2 DEF Stage, Recs
  <2>3. CASE act' = Doing("home") /\ Stage("goto")
    BY <1>1, <2>3 DEF Stage, Recs
  <2>4. CASE rec' = [rec EXCEPT !.stage = "land", !.returned = TRUE] /\ UNCHANGED <<sup, owner, act, newer, acked>>
    BY <1>1, <2>4 DEF Recs
  <2>5. CASE act' = Doing("land") /\ Stage("landing")
    BY <1>1, <2>5 DEF Stage, Recs
  <2>6. QED
    BY <1>3, <2>1, <2>2, <2>3, <2>4, <2>5 DEF Approach
<1>4. CASE ConfirmGround
  <2>1. CASE Stage("ground") /\ UNCHANGED act
    BY <1>1, <2>1 DEF Stage, Recs
  <2>2. CASE act' = Doing("disarm") /\ Stage("disarmed")
    BY <1>1, <2>2 DEF Stage, Recs
  <2>3. CASE /\ rec.stage \in {"ground", "disarmed"} /\ OnGround /\ ~seen.armed
             /\ RecoveryEnds(IF rec.returned THEN "HOME_LANDED" ELSE "LOCAL_LANDED", FALSE)
    <3> DEFINE outcome == IF rec.returned THEN "HOME_LANDED" ELSE "LOCAL_LANDED"
    <3>1. RecoveryEnds(outcome, FALSE) /\ outcome \in {"HOME_LANDED", "LOCAL_LANDED"}
          /\ (outcome = "HOME_LANDED") = rec.returned
      BY <1>1, <2>3 DEF Recs
    <3>2. act' = NoAct /\ rec' = NewRec
      BY <3>1 DEF RecoveryEnds
    <3> HIDE DEF outcome
    <3>3. QED
      BY <2>3, <3>1, <3>2, AttemptTypes DEF AttemptInv
  <2>4. CASE RecoveryEnds("UNCONFIRMED", FALSE)
    BY <2>4, AttemptTypes DEF RecoveryEnds, AttemptInv
  <2>5. QED
    BY <1>4, <2>1, <2>2, <2>3, <2>4 DEF ConfirmGround
<1>5. QED
  BY <1>2, <1>3, <1>4 DEF RecoverStage

\* The parts of the type invariant.
RestTypeOK ==
    /\ ledger \in [prepared : 0 .. MaxAttempts, consumed : 0 .. MaxAttempts, whole : BOOLEAN]
    /\ session \in [up : BOOLEAN, attempt : 0 .. MaxAttempts, pinned : BOOLEAN]
    /\ radio \in Commands \cup {"none"}
    /\ queue \in Seq(Commands) /\ Len(queue) <= 2
    /\ timer \in {"off", "runs", "due"}
    /\ sites \in [known : BOOLEAN, frozen : BOOLEAN]
    /\ flown \in [1 .. MaxAttempts -> 0 .. 2]

LEMMA TypeParts ==
    /\ AttemptTypeOK => ControlTypeOK /\ RestTypeOK
    /\ ControlTypeOK' /\ RestTypeOK' /\ sup' \in Sups /\ owner' \in Owners /\ rec' \in Recs
         => AttemptTypeOK'
<1>1. AttemptTypeOK => ControlTypeOK /\ RestTypeOK
  BY DEF AttemptTypeOK, RestTypeOK
<1>2. ControlTypeOK' /\ RestTypeOK' /\ sup' \in Sups /\ owner' \in Owners /\ rec' \in Recs
         => AttemptTypeOK'
  BY DEF AttemptTypeOK, RestTypeOK, Sups, Owners, Recs, Pcs, Nexts
<1>3. QED
  BY <1>1, <1>2

\* With the process goes all it knew.
LEMMA ForgetEffects ==
    ASSUME AttemptTypeOK, Forget
    PROVE  /\ ControlTypeOK' /\ sup' = NewSup /\ owner' = NewOwner /\ rec' = NewRec
           /\ radio' = "none" /\ queue' = <<>> /\ timer' = "off" /\ ~ session'.up /\ ~ sites'.frozen
           /\ acked' = "none" /\ home' = "none" /\ act' = NoAct /\ UNCHANGED <<craft, told, flown>>
           /\ ledger' \in [prepared : 0 .. MaxAttempts, consumed : 0 .. MaxAttempts, whole : BOOLEAN]
                => RestTypeOK'
<1>1. View(NewCraft) \in [mode : Modes, armed : BOOLEAN, landed : LandedStates]
  BY DEF View, NewCraft, Modes, LandedStates
<1>2. NoAct \in [op : Operations \cup {"none"}, step : {"begin", "order", "wait"}, was : BOOLEAN]
  BY DEF NoAct
<1>3. ControlTypeOK'
  BY <1>1, <1>2 DEF Forget, AttemptTypeOK, ControlTypeOK
<1>4. /\ session' \in [up : BOOLEAN, attempt : 0 .. MaxAttempts, pinned : BOOLEAN] /\ ~ session'.up
      /\ sites' \in [known : BOOLEAN, frozen : BOOLEAN] /\ ~ sites'.frozen
  BY DEF Forget, AttemptTypeOK
<1>5. queue' \in Seq(Commands) /\ Len(queue') <= 2
  BY DEF Forget
<1>6. ledger' \in [prepared : 0 .. MaxAttempts, consumed : 0 .. MaxAttempts, whole : BOOLEAN]
        => RestTypeOK'
  BY <1>4, <1>5 DEF Forget, RestTypeOK, AttemptTypeOK
<1>7. QED
  BY <1>3, <1>4, <1>6 DEF Forget

\* FM1 is admitted only with an attempt of which nothing was flown.
LEMMA AdmitEffects ==
    ASSUME AttemptInv, FM1Admissible
    PROVE  /\ session.attempt \in 1 .. MaxAttempts /\ ledger.whole
           /\ ledger.consumed < session.attempt /\ flown[session.attempt] = 0
           /\ sup.st["FM1"] = "none" /\ sup.st["SET"] = "none" /\ sup.final = "none"
           /\ radio = "none" /\ session.up
<1>1. /\ session.attempt \in 0 .. MaxAttempts /\ ledger.consumed \in 0 .. MaxAttempts
      /\ flown \in [1 .. MaxAttempts -> 0 .. 2]
  BY DEF AttemptInv, AttemptTypeOK
<1>2. /\ session.attempt > ledger.consumed /\ ledger.whole
      /\ sup.st["FM1"] = "none" /\ sup.st["SET"] \notin Busy /\ sup.final = "none"
      /\ radio = "none" /\ session.up
  BY DEF FM1Admissible, RadioFree
<1>3. session.attempt \in 1 .. MaxAttempts
  BY <1>1, <1>2, AttemptAssumption
<1>4. flown[session.attempt] # 1 /\ flown[session.attempt] <= 1 /\ flown[session.attempt] \in 0 .. 2
  BY <1>1, <1>2, <1>3 DEF AttemptInv, LedgerInv
<1>5. flown[session.attempt] = 0
  BY <1>4
<1>6. sup.st["SET"] = "none"
  BY <1>2 DEF AttemptInv, QueueInv
<1>7. QED
  BY <1>2, <1>3, <1>5, <1>6

LEMMA AttemptTypeStep ==
    ASSUME AttemptInv, AttemptNext
    PROVE  AttemptTypeOK'
<1> USE DEF AttemptInv
<1>a. /\ AttemptTypeOK /\ ControlTypeOK /\ RestTypeOK
      /\ sup \in Sups /\ owner \in Owners /\ rec \in Recs
      /\ NewSup \in Sups /\ NewOwner \in Owners /\ NewRec \in Recs
  BY AttemptTypes, TypeParts
<1>b. ControlTypeOK' /\ RestTypeOK' /\ sup' \in Sups /\ owner' \in Owners /\ rec' \in Recs
         => AttemptTypeOK'
  BY TypeParts
<1>n. NoAct \in [op : Operations \cup {"none"}, step : {"begin", "order", "wait"}, was : BOOLEAN]
  BY DEF NoAct
<1> USE DEF sessionVars
<1>1. CASE Prepare
  <2>1. RestTypeOK'
    <3>1. ledger.prepared + ledger.consumed < MaxAttempts /\ ledger.prepared \in 0 .. MaxAttempts
          /\ ledger.consumed \in 0 .. MaxAttempts
      BY <1>a, <1>1 DEF Prepare, RestTypeOK
    <3>2. ledger.prepared + 1 \in 0 .. MaxAttempts
      BY <3>1, AttemptAssumption
    <3>3. ledger' = [ledger EXCEPT !.prepared = ledger.prepared + 1]
      BY <1>1 DEF Prepare
    <3>4. ledger' \in [prepared : 0 .. MaxAttempts, consumed : 0 .. MaxAttempts, whole : BOOLEAN]
      BY <1>a, <3>2, <3>3 DEF RestTypeOK
    <3>5. QED
      BY <1>a, <1>1, <3>4 DEF Prepare, RestTypeOK
  <2>2. QED
    BY <1>a, <1>b, <1>1, <2>1, ControlKept DEF Prepare
<1>2. CASE StartSession
  <2>1. View(craft) \in [mode : Modes, armed : BOOLEAN, landed : LandedStates]
    BY <1>a DEF View, ControlTypeOK
  <2>2. ControlTypeOK'
    BY <1>a, <1>2, <2>1 DEF StartSession, ControlTypeOK
  <2>3. RestTypeOK'
    BY <1>a, <1>2 DEF StartSession, RestTypeOK
  <2>4. QED
    BY <1>a, <1>b, <1>2, <2>2, <2>3 DEF StartSession
<1>3. CASE SessionEnds
  BY <1>a, <1>b, <1>3, ForgetEffects DEF SessionEnds, RestTypeOK
<1>4. CASE DieConsuming
  <2>1. ledger' \in [prepared : 0 .. MaxAttempts, consumed : 0 .. MaxAttempts, whole : BOOLEAN]
    BY <1>a, <1>4 DEF DieConsuming, RestTypeOK
  <2>2. QED
    BY <1>a, <1>b, <1>4, <2>1, ForgetEffects DEF DieConsuming
<1>5. CASE AdmitSet
  <2>1. sup' \in Sups
    BY <1>a, <1>5 DEF AdmitSet, Sups, Busy, Commands
  <2>2. RestTypeOK'
    BY <1>a, <1>5 DEF AdmitSet, RestTypeOK, Commands
  <2>3. QED
    BY <1>a, <1>b, <1>5, <2>1, <2>2, ControlKept DEF AdmitSet
<1>6. CASE AdmitFM1
  <2>1. sup' \in Sups
    BY <1>a, <1>6 DEF AdmitFM1, Sups, Busy, Commands, Phases
  <2>2. /\ ledger' \in [prepared : 0 .. MaxAttempts, consumed : 0 .. MaxAttempts, whole : BOOLEAN]
        /\ sites' \in [known : BOOLEAN, frozen : BOOLEAN]
    BY <1>a, <1>6 DEF AdmitFM1, RestTypeOK
  <2>3. flown' \in [1 .. MaxAttempts -> 0 .. 2]
    <3>1. session.attempt \in 1 .. MaxAttempts /\ flown[session.attempt] = 0
      BY <1>6, AdmitEffects DEF AdmitFM1
    <3>2. flown[session.attempt] + 1 = 1
      BY <3>1
    <3>3. flown' = flown \/ flown' = [flown EXCEPT ![session.attempt] = flown[session.attempt] + 1]
      BY <1>6 DEF AdmitFM1
    <3>4. flown' = flown \/ flown' = [flown EXCEPT ![session.attempt] = 1]
      BY <3>2, <3>3
    <3>5. QED
      BY <1>a, <3>1, <3>4 DEF RestTypeOK
  <2>4. RestTypeOK'
    BY <1>a, <1>6, <2>2, <2>3 DEF AdmitFM1, RestTypeOK, Commands, Phases
  <2>5. ControlTypeOK'
    BY <1>a, <1>6 DEF AdmitFM1, Acquires, ControlTypeOK, craftVars
  <2>6. QED
    BY <1>a, <1>b, <1>6, <2>1, <2>4, <2>5 DEF AdmitFM1
<1>7. CASE AdmitFM2
  <2>1. sup' \in Sups
    BY <1>a, <1>7 DEF AdmitFM2, Sups, Busy, Commands, Phases
  <2>2. RestTypeOK'
    BY <1>a, <1>7 DEF AdmitFM2, RestTypeOK, Commands, Phases
  <2>3. QED
    BY <1>a, <1>b, <1>7, <2>1, <2>2, ControlKept DEF AdmitFM2
<1>8. CASE Enqueue
  <2>1. queue = <<>> /\ radio \in Commands
    BY <1>8 DEF Enqueue, QueueInv, Commands, Phases
  <2>2. queue' = <<radio>>
    BY <1>8, <2>1 DEF Enqueue
  <2>3. queue' \in Seq(Commands) /\ Len(queue') <= 2
    BY <2>1, <2>2
  <2>4. RestTypeOK'
    BY <1>a, <1>8, <2>3 DEF Enqueue, RestTypeOK
  <2>5. QED
    BY <1>a, <1>b, <1>8, <2>4, ControlKept DEF Enqueue
<1>9. CASE RequestAbort
  <2>1. sup' \in Sups
    <3>1. Aged(sup, sup')
      BY <1>a, <1>9, ApplyAges DEF RequestAbort
    <3>2. QED
      BY <3>1 DEF Aged
  <2>2. QED
    BY <1>a, <1>b, <1>9, <2>1, ControlKept DEF RequestAbort, RestTypeOK
<1>10. CASE Telemetry
  <2>1. ControlTypeOK'
    BY <1>a, <1>10, ControlTypeStep DEF Telemetry
  <2>2. QED
    BY <1>a, <1>b, <1>10, <2>1 DEF Telemetry, RestTypeOK
<1>11. CASE DeadlinePasses
  BY <1>a, <1>b, <1>11, ControlKept DEF DeadlinePasses, RestTypeOK
<1>12. CASE VehicleActs
  <2>1. ControlTypeOK'
    BY <1>a, <1>12, ControlTypeStep, ObeyEffects DEF VehicleActs, Vehicle
  <2>2. QED
    BY <1>a, <1>b, <1>12, <2>1 DEF VehicleActs, RestTypeOK
<1>13. CASE TakeCommand
  <2>1. PICK c \in Commands :
          /\ queue = <<c>> /\ queue' = <<>> /\ Aged(sup, sup')
          /\ \/ owner' = [owner EXCEPT !.cmd = c, !.pc = "begin"]
             \/ Departs([owner EXCEPT !.cmd = c], "taken")
    BY <1>13, TakeEffects
  <2>2. sup' \in Sups /\ owner' \in Owners
    BY <1>a, <2>1 DEF Aged, Departs, Owners, Pcs
  <2>3. queue' \in Seq(Commands) /\ Len(queue') <= 2
    BY <2>1
  <2>4. RestTypeOK'
    BY <1>a, <1>13, <2>3 DEF TakeCommand, RestTypeOK
  <2>5. QED
    BY <1>a, <1>b, <1>13, <2>2, <2>4, ControlKept DEF TakeCommand
<1>14. CASE BeginCommand
  <2>1. sup' \in Sups /\ timer' \in {timer, "runs"}
    BY <1>14, BeginEffects DEF Aged
  <2>2. owner' \in Owners
    BY <1>a, <1>14, BeginEffects DEF Departs, Owners, Pcs
  <2>3. QED
    BY <1>a, <1>b, <1>14, <2>1, <2>2, ControlKept DEF BeginCommand, RestTypeOK
<1>15. CASE Mutate
  <2>1. owner' \in Owners /\ sites' \in [known : BOOLEAN, frozen : BOOLEAN]
    <3>1. owner' \in Owners
      BY <1>a, <1>15 DEF Mutate, Owners, Pcs, Results
    <3>2. sites' \in [known : BOOLEAN, frozen : BOOLEAN]
      <4>1. sites' = [known |-> TRUE, frozen |-> FALSE] \/ sites' = sites
        BY <1>15 DEF Mutate
      <4>2. sites \in [known : BOOLEAN, frozen : BOOLEAN]
        BY <1>a DEF RestTypeOK
      <4>3. [known |-> TRUE, frozen |-> FALSE] \in [known : BOOLEAN, frozen : BOOLEAN]
        OBVIOUS
      <4>4. QED
        BY <4>1, <4>2, <4>3, Zenon
    <3>3. QED
      BY <3>1, <3>2
  <2>2. QED
    BY <1>a, <1>b, <1>15, <2>1, ControlKept DEF Mutate, RestTypeOK
<1>16. CASE NextOperation
  <2>1. owner.cmd \in {"FM1", "FM2"} /\ owner.k <= Len(Plan[owner.cmd]) /\ owner.k \in 1 .. 7
    BY <1>a, <1>16 DEF NextOperation, Flying, Phases, Owners
  <2>2. owner.k \in 1 .. 6 /\ Plan[owner.cmd][owner.k] \in Operations
    <3>1. Len(Plan["FM1"]) = 6 /\ Len(Plan["FM2"]) = 6
      BY DEF Plan
    <3>2. owner.k \in 1 .. 6
      <4>1. Len(Plan[owner.cmd]) = 6
        BY <2>1, <3>1
      <4>2. \A k \in 1 .. 7 : k <= 6 => k \in 1 .. 6
        OBVIOUS
      <4>3. QED
        BY <2>1, <4>1, <4>2
    <3>3. \A k \in 1 .. 6 : Plan["FM1"][k] \in Operations
      BY DEF Plan, Operations
    <3>4. \A k \in 1 .. 6 : Plan["FM2"][k] \in Operations
      BY DEF Plan, Operations
    <3>5. QED
      BY <2>1, <3>2, <3>3, <3>4
  <2>3. owner' \in Owners
    BY <1>a, <1>16, <2>2 DEF NextOperation, Owners
  <2>4. act' \in [op : Operations \cup {"none"}, step : {"begin", "order", "wait"}, was : BOOLEAN]
    BY <1>16, <2>2 DEF NextOperation, Doing, NoAct
  <2>5. ControlTypeOK'
    BY <1>a, <1>16, <2>4 DEF NextOperation, ControlTypeOK, craftVars
  <2>6. QED
    BY <1>a, <1>b, <1>16, <2>3, <2>5 DEF NextOperation, RestTypeOK
<1>17. CASE FlyOperation
  <2>1. ControlTypeOK'
    BY <1>a, <1>17, ControlTypeStep, OrderEffects DEF FlyOperation
  <2>2. QED
    BY <1>a, <1>b, <1>17, <2>1 DEF FlyOperation, RestTypeOK
<1>18. CASE FlightFails
  <2>1. sup' \in Sups /\ owner' \in Owners
    <3>1. sup' \in Sups
      BY <1>18, FailEffects DEF Aged
    <3>2. PICK b \in BOOLEAN : owner' = [owner EXCEPT !.pc = "finish", !.k = 1, !.cancel = b]
      BY <1>18, FailEffects
    <3>3. owner' \in Owners
      <4>1. 1 \in 1 .. 7 /\ "finish" \in Pcs
        BY DEF Pcs
      <4>2. QED
        BY <1>a, <3>2, <4>1 DEF Owners
    <3>4. QED
      BY <3>1, <3>3
  <2>2. ControlTypeOK'
    BY <1>a, <1>n, <1>18 DEF FlightFails, ControlTypeOK
  <2>3. QED
    BY <1>a, <1>b, <1>18, <2>1, <2>2 DEF FlightFails, RestTypeOK
<1>19. CASE HandlerReturns
  <2>1. sup' \in Sups /\ owner' \in Owners
    <3>1. sup' \in Sups
      BY <1>19, ReturnEffects DEF Aged
    <3>2. \/ owner' = [owner EXCEPT !.k = 1, !.pc = "finish"]
          \/ Departs([owner EXCEPT !.k = 1], "judge")
          \/ owner' = [owner EXCEPT !.k = 1, !.pc = "finish", !.result = "SUCCEEDED"]
      BY <1>19, ReturnEffects
    <3>3. owner' \in Owners
      <4>1. 1 \in 1 .. 7 /\ "finish" \in Pcs /\ "SUCCEEDED" \in Results
        BY DEF Pcs, Results
      <4>2. CASE owner' = [owner EXCEPT !.k = 1, !.pc = "finish"]
        BY <1>a, <4>1, <4>2 DEF Owners
      <4>3. CASE owner' = [owner EXCEPT !.k = 1, !.pc = "finish", !.result = "SUCCEEDED"]
        BY <1>a, <4>1, <4>3 DEF Owners
      <4>4. QED
        BY <3>2, <4>2, <4>3 DEF Departs
    <3>4. QED
      BY <3>1, <3>3
  <2>2. QED
    BY <1>a, <1>b, <1>19, <2>1, ControlKept DEF HandlerReturns, RestTypeOK
<1>20. CASE FinishCommand
  <2>1. sup' \in Sups
    BY <1>20, FinishEffects
  <2>2. owner' \in Owners
    BY <1>a, <1>20, FinishEffects DEF Departs, Owners, Pcs
  <2>3. QED
    BY <1>a, <1>b, <1>20, <2>1, <2>2, ControlKept DEF FinishCommand, RestTypeOK
<1>21. CASE Idle
  <2>1. sup' \in Sups /\ owner' \in Owners
    BY <1>21, IdleEffects DEF Aged, Departs
  <2>2. ControlTypeOK'
    BY <1>a, <1>21 DEF Idle, ControlTypeOK, craftVars
  <2>3. QED
    BY <1>a, <1>b, <1>21, <2>1, <2>2 DEF Idle, RestTypeOK
<1>22. CASE ClockFailsIdle
  <2>1. sup' \in Sups /\ owner' \in Owners
    BY <1>22, ClockIdleEffects DEF Aged, Departs
  <2>2. QED
    BY <1>a, <1>b, <1>22, <2>1, ControlKept DEF ClockFailsIdle, RestTypeOK
<1>23. CASE Turn
  <2>1. sup' \in Sups
    BY <1>23, TurnEffects DEF Aged
  <2>2. owner' \in Owners
    BY <1>a, <1>23, TurnEffects DEF Departs, Owners, Pcs
  <2>3. QED
    BY <1>a, <1>b, <1>23, <2>1, <2>2, ControlKept DEF Turn, RestTypeOK
<1>24. CASE Monitor
  <2>1. owner' \in Owners
    BY <1>a, <1>24 DEF Monitor, Owners, Pcs
  <2>2. QED
    BY <1>a, <1>b, <1>24, <2>1, ControlKept DEF Monitor, OwnerRest, RestTypeOK
<1>25. CASE RecoverStage
  <2>1. rec' \in Recs
    BY <1>25, StageEffects
  <2>2. sup' \in Sups /\ owner' \in Owners /\ newer' \in {newer, {}} /\ acked' \in {acked, "none"}
    BY <1>a, <1>25, StageEffects, RecoveryEffects DEF Outcomes
  <2>3. act' \in [op : Operations \cup {"none"}, step : {"begin", "order", "wait"}, was : BOOLEAN]
    <3>1. \A op \in Operations : Doing(op) \in [op : Operations \cup {"none"}, step : {"begin", "order", "wait"},
                                               was : BOOLEAN]
      BY DEF Doing, NoAct
    <3>2. {"touchdown", "climb", "home", "land", "disarm"} \subseteq Operations
      BY DEF Operations
    <3>3. QED
      BY <1>n, <1>25, <3>1, <3>2, StageEffects
  <2>4. ControlTypeOK'
    BY <1>a, <1>25, <2>2, <2>3 DEF RecoverStage, RecoveryRest, ControlTypeOK
  <2>5. QED
    BY <1>a, <1>b, <1>25, <2>1, <2>2, <2>4 DEF RecoverStage, RecoveryRest, RestTypeOK
<1>26. CASE RecoverOperation
  <2>1. ControlTypeOK'
    BY <1>a, <1>26, ControlTypeStep, OrderEffects DEF RecoverOperation
  <2>2. QED
    BY <1>a, <1>b, <1>26, <2>1 DEF RecoverOperation, RestTypeOK
<1>27. CASE RecoverFails
  <2>1. /\ sup' \in Sups /\ owner' \in Owners /\ rec' \in Recs
        /\ act' = NoAct /\ newer' = {} /\ acked' = "none"
    <3>1. CASE RecoveryEnds("UNCONFIRMED", FALSE)
      BY <1>a, <3>1, RecoveryEffects DEF Outcomes
    <3>2. CASE rec' = [NewRec EXCEPT !.stage = "land"]
               /\ act' = NoAct /\ newer' = {} /\ acked' = "none" /\ UNCHANGED <<sup, owner>>
      BY <1>a, <3>2 DEF Recs
    <3>3. QED
      BY <1>27, <3>1, <3>2 DEF RecoverFails
  <2>2. ControlTypeOK'
    BY <1>a, <1>n, <1>27, <2>1 DEF RecoverFails, RecoveryRest, ControlTypeOK
  <2>3. QED
    BY <1>a, <1>b, <1>27, <2>1, <2>2 DEF RecoverFails, RecoveryRest, RestTypeOK
<1>28. CASE RecoverYields \/ RecoveryClockFails
  <2>1. /\ sup' \in Sups /\ owner' \in Owners /\ rec' \in Recs
        /\ act' = NoAct /\ newer' = {} /\ acked' = "none"
    <3>1. PICK outcome \in {"YIELDED", "UNCONFIRMED"}, raises \in BOOLEAN : RecoveryEnds(outcome, raises)
      BY <1>28 DEF RecoverYields, RecoveryClockFails
    <3>2. QED
      BY <1>a, <3>1, RecoveryEffects DEF Outcomes
  <2>2. UNCHANGED RecoveryRest
    BY <1>28 DEF RecoverYields, RecoveryClockFails
  <2>3. ControlTypeOK'
    BY <1>a, <1>n, <2>1, <2>2 DEF RecoveryRest, ControlTypeOK
  <2>4. QED
    BY <1>a, <1>b, <2>1, <2>2, <2>3 DEF RecoveryRest, RestTypeOK
<1>29. QED
  BY <1>1, <1>2, <1>3, <1>4, <1>5, <1>6, <1>7, <1>8, <1>9, <1>10, <1>11, <1>12, <1>13, <1>14,
     <1>15, <1>16, <1>17, <1>18, <1>19, <1>20, <1>21, <1>22, <1>23, <1>24, <1>25, <1>26, <1>27, <1>28
  DEF AttemptNext, Radio, Owner

\* Steps of a session leave the session, and all but AdmitFM1 the ledger, as they are.
LEMMA SessionKept ==
    ASSUME AttemptTypeOK, AttemptNext
    PROVE  \/ Prepare \/ StartSession \/ SessionEnds \/ DieConsuming \/ AdmitFM1 \/ VehicleActs
           \/ session.up /\ UNCHANGED <<session, ledger, flown>>
<1>1. AdmitSet \/ AdmitFM2 \/ Enqueue \/ RequestAbort \/ Telemetry \/ DeadlinePasses =>
        session.up /\ UNCHANGED <<session, ledger, flown>>
  BY DEF AdmitSet, AdmitFM2, Enqueue, RequestAbort, Telemetry, DeadlinePasses, RadioFree, sessionVars
<1>2. TakeCommand \/ BeginCommand \/ Mutate \/ NextOperation \/ FlyOperation \/ FlightFails
      \/ HandlerReturns => session.up /\ UNCHANGED <<session, ledger, flown>>
  BY DEF TakeCommand, BeginCommand, Mutate, NextOperation, FlyOperation, FlightFails,
         HandlerReturns, OwnerAt, Flying, sessionVars
<1>3. FinishCommand \/ Idle \/ ClockFailsIdle \/ Turn \/ Monitor
        => session.up /\ UNCHANGED <<session, ledger, flown>>
  BY DEF FinishCommand, Idle, ClockFailsIdle, Turn, Monitor, OwnerRest, OwnerAt
<1>4. RecoverStage \/ RecoverOperation \/ RecoverFails \/ RecoverYields \/ RecoveryClockFails
        => session.up /\ UNCHANGED <<session, ledger, flown>>
  BY DEF RecoverStage, RecoverOperation, RecoverFails, RecoverYields, RecoveryClockFails,
         RecoveryRest, RecoveringNow, OwnerAt, sessionVars
<1>5. QED
  BY <1>1, <1>2, <1>3, <1>4 DEF AttemptNext, Radio, Owner

LEMMA SessionInvStep ==
    ASSUME AttemptInv, AttemptNext
    PROVE  SessionInv'
<1>1. SessionInv /\ AttemptTypeOK
  BY DEF AttemptInv
<1>2. CASE Prepare
  <2>1. session'.up = session.up
    BY <1>1, <1>2 DEF Prepare, AttemptTypeOK
  <2>2. QED
    BY <1>1, <1>2, <2>1 DEF Prepare, SessionInv, controlVars, craftVars
<1>3. CASE StartSession
  BY <1>3 DEF StartSession, SessionInv
<1>4. CASE SessionEnds \/ DieConsuming
  BY <1>1, <1>4, ForgetEffects DEF SessionEnds, DieConsuming, SessionInv
<1>5. CASE VehicleActs
  <2>1. UNCHANGED <<session, sup, radio, queue, owner, timer, sites>>
    BY <1>5 DEF VehicleActs, sessionVars
  <2>2. UNCHANGED <<home, act>>
    BY <1>5 DEF VehicleActs, Vehicle, Obey, Drift, ModeChanges
  <2>3. act = NoAct => acked' = acked
    BY <1>5 DEF VehicleActs, Vehicle, Obey, Drift, ModeChanges, NoAct
  <2>4. QED
    BY <1>1, <2>1, <2>2, <2>3 DEF SessionInv
<1>6. CASE AdmitFM1
  BY <1>6, AdmitEffects DEF AdmitFM1, SessionInv
<1>7. CASE session.up /\ session' = session
  BY <1>7 DEF SessionInv
<1>8. QED
  BY <1>1, <1>2, <1>3, <1>4, <1>5, <1>6, <1>7, SessionKept

LEMMA LedgerInvStep ==
    ASSUME AttemptInv, AttemptNext
    PROVE  LedgerInv'
<1>1. LedgerInv /\ AttemptTypeOK
  BY DEF AttemptInv
<1>2. /\ ledger \in [prepared : 0 .. MaxAttempts, consumed : 0 .. MaxAttempts, whole : BOOLEAN]
      /\ flown \in [1 .. MaxAttempts -> 0 .. 2]
  BY <1>1 DEF AttemptTypeOK
<1>3. CASE Prepare
  <2>1. ledger'.consumed = ledger.consumed /\ ledger'.whole = ledger.whole /\ flown' = flown
    BY <1>2, <1>3 DEF Prepare
  <2>2. QED
    BY <1>1, <2>1 DEF LedgerInv
<1>4. CASE UNCHANGED <<ledger, flown>>
  BY <1>1, <1>4 DEF LedgerInv
<1>5. CASE DieConsuming
  <2>1. ledger.consumed < session.attempt /\ flown' = flown /\ session.attempt \in 1 .. MaxAttempts
    BY <1>5, AdmitEffects DEF DieConsuming, Forget
  <2>2. CASE ledger' = [ledger EXCEPT !.consumed = session.attempt]
    <3>1. ledger'.consumed = session.attempt /\ ledger'.whole = ledger.whole
      BY <1>2, <2>2
    <3>2. QED
      BY <1>1, <1>2, <2>1, <3>1 DEF LedgerInv
  <2>3. CASE ledger' = [ledger EXCEPT !.whole = FALSE]
    <3>1. ~ ledger'.whole
      BY <1>2, <2>3
    <3>2. QED
      BY <1>1, <2>1, <3>1 DEF LedgerInv
  <2>4. QED
    BY <1>5, <2>2, <2>3 DEF DieConsuming
<1>6. CASE AdmitFM1
  <2> DEFINE a == session.attempt
  <2>1. /\ a \in 1 .. MaxAttempts /\ ledger.whole
        /\ ledger.consumed < a /\ flown[a] = 0
    BY <1>6, AdmitEffects DEF AdmitFM1
  <2>2. ledger'.consumed = a /\ ledger'.whole = ledger.whole
    BY <1>2, <1>6 DEF AdmitFM1
  <2>3. flown' = flown \/ flown' = [flown EXCEPT ![a] = flown[a] + 1]
    BY <1>6 DEF AdmitFM1
  <2>4. DOMAIN flown' = 1 .. MaxAttempts /\ \A b \in 1 .. MaxAttempts : flown'[b] = flown[b] \/ (b = a /\ flown'[b] = 1)
    <3>1. CASE flown' = flown
      BY <1>2, <3>1
    <3>2. CASE flown' = [flown EXCEPT ![a] = flown[a] + 1]
      <4>1. flown' = [flown EXCEPT ![a] = 1]
        BY <2>1, <3>2
      <4>2. QED
        BY <1>2, <2>1, <4>1
    <3>3. QED
      BY <2>3, <3>1, <3>2
  <2> HIDE DEF a
  <2>5. QED
    BY <1>1, <1>2, <2>1, <2>2, <2>4 DEF LedgerInv
<1>7. StartSession \/ SessionEnds \/ VehicleActs => UNCHANGED <<ledger, flown>>
  BY DEF StartSession, SessionEnds, Forget, VehicleActs
<1>8. QED
  BY <1>1, <1>3, <1>4, <1>5, <1>6, <1>7, SessionKept

\* What an abort leaves as it is.
LEMMA AgedKeeps ==
    ASSUME sup \in Sups, Aged(sup, sup')
    PROVE  /\ \A c \in Commands :
                /\ sup'.st[c] = "none" <=> sup.st[c] = "none"
                /\ sup'.st[c] = "RUNNING" <=> sup.st[c] = "RUNNING"
                /\ sup'.st[c] = "SUCCEEDED" <=> sup.st[c] = "SUCCEEDED"
                /\ sup'.st[c] = "FAILED" <=> sup.st[c] = "FAILED"
                /\ sup'.st[c] \in Busy => sup.st[c] \in Busy
                /\ sup'.st[c] = "ABORTED" => sup.st[c] = "ABORTED" \/ sup'.final # "none"
                /\ sup.st[c] \in Results => sup'.st[c] = sup.st[c]
                /\ Waiting(c) => Waiting(c)'
           /\ sup'.st["SET"] = sup.st["SET"]
           /\ sup.final # "none" => sup'.final = sup.final
           /\ sup'.final = "SUCCEEDED" <=> sup.final = "SUCCEEDED"
           /\ sup'.outcome = sup.outcome /\ (sup.latched => sup'.latched)
<1>1. ASSUME NEW c \in Commands
      PROVE  \/ sup'.st[c] = sup.st[c]
             \/ sup'.final # "none" /\ sup.st[c] = "QUEUED" /\ sup'.st[c] = "ABORTED" /\ c \in Phases
  BY DEF Aged
<1>2. sup.final # "none" => sup'.final = sup.final
  BY DEF Aged
<1>3. /\ sup'.final = "SUCCEEDED" <=> sup.final = "SUCCEEDED"
      /\ sup'.outcome = sup.outcome /\ (sup.latched => sup'.latched)
  BY DEF Aged
<1>4. "SET" \in Commands \ Phases
  BY DEF Commands, Phases
<1>5. QED
  BY <1>1, <1>2, <1>3, <1>4 DEF Busy, Results, Waiting

LEMMA AgedPhase ==
    ASSUME sup \in Sups, Aged(sup, sup'), PhaseInv, UNCHANGED <<home, sites, timer>>
    PROVE  PhaseInv'
<1>1. {"FM1", "FM2", "SET"} = Commands /\ Phases \subseteq Commands
  BY DEF Commands, Phases
<1> USE AgedKeeps
<1>2. (sup.st["FM1"] # "none" => sites.frozen /\ sup.st["SET"] \notin Busy /\ home # "none")'
  BY <1>1 DEF PhaseInv
<1>3. (sup.st["FM2"] # "none" => sup.st["FM1"] = "SUCCEEDED")'
  BY <1>1 DEF PhaseInv
<1>4. (sup.st["FM2"] = "SUCCEEDED" => sup.outcome = "HOME_LANDED")'
  BY <1>1 DEF PhaseInv
<1>5. (timer # "off" => sup.st["FM1"] # "none")'
  BY <1>1 DEF PhaseInv
<1>6. (sup.final = "SUCCEEDED" => sup.st["FM2"] = "SUCCEEDED")'
  BY <1>1 DEF PhaseInv
<1>7. (\A c \in Phases : sup.st[c] \in {"FAILED", "ABORTED"} => sup.final # "none")'
  BY <1>1 DEF PhaseInv
<1>8. QED
  BY <1>2, <1>3, <1>4, <1>5, <1>6, <1>7 DEF PhaseInv

LEMMA AgedQueue ==
    ASSUME sup \in Sups, Aged(sup, sup'), QueueInv, UNCHANGED <<radio, queue>>,
           Holding' => Holding /\ owner'.cmd = owner.cmd /\ (owner.pc = "begin" => owner'.pc = "begin"),
           owner'.pc = "begin" => owner.pc = "begin"
    PROVE  QueueInv'
<1> USE AgedKeeps
<1>1. (queue = <<>> \/ \E c \in Commands : queue = <<c>>)' /\ (radio # "none" => queue = <<>>)'
  BY DEF QueueInv
<1>2. \A c : Pending(c)' <=> Pending(c)
  BY DEF Pending
<1>3. (\A c \in Commands : Pending(c) => Waiting(c))'
  BY <1>2 DEF QueueInv
<1>4. (Holding => owner.cmd \in Commands /\ ~ Pending(owner.cmd))'
  BY <1>2 DEF QueueInv
<1>5. (owner.pc = "begin" => Waiting(owner.cmd))'
  BY DEF QueueInv, Holding
<1>6. (Holding /\ owner.pc # "begin" => sup.st[owner.cmd] = "RUNNING")'
  BY DEF QueueInv
<1>7. (sup.st["SET"] \in {"none"} \cup Busy)'
  BY DEF QueueInv
<1>8. QED
  BY <1>1, <1>3, <1>4, <1>5, <1>6, <1>7 DEF QueueInv

\* What the owner and the supervisor are in stays as it is.
LEMMA OrderlyKept ==
    ASSUME QueueInv, PhaseInv, RecoveryInv, UNCHANGED <<sup, radio, queue, owner, timer, sites, home>>
    PROVE  QueueInv' /\ PhaseInv' /\ RecoveryInv'
<1>1. QueueInv'
  BY DEF QueueInv, Pending, Waiting, Holding
<1>2. PhaseInv'
  BY DEF PhaseInv
<1>3. RecoveryInv'
  BY DEF RecoveryInv
<1>4. QED
  BY <1>1, <1>2, <1>3

Orderly == QueueInv /\ PhaseInv /\ RecoveryInv

\* The radio thread: a command is admitted when nothing else is under way.
LEMMA OrderlyRadio ==
    ASSUME AttemptInv, AdmitSet \/ AdmitFM1 \/ AdmitFM2 \/ Enqueue \/ RequestAbort
    PROVE  Orderly'
<1>a. AttemptTypeOK /\ QueueInv /\ PhaseInv /\ RecoveryInv /\ sup \in Sups /\ owner \in Owners
  BY AttemptTypes DEF AttemptInv
<1>b. {"FM1", "FM2", "SET"} = Commands /\ Phases = {"FM1", "FM2"}
  BY DEF Commands, Phases
<1>q. /\ queue = <<>> \/ \E c \in Commands : queue = <<c>>
      /\ \A c \in Commands : Pending(c) => Waiting(c)
      /\ Holding => owner.cmd \in Commands
      /\ Holding => Waiting(owner.cmd) \/ sup.st[owner.cmd] = "RUNNING"
  BY <1>a DEF QueueInv
\* A command that nobody waits for is not on its way and not in hand.
<1>p. ASSUME NEW c \in Commands, sup.st[c] = "none"
      PROVE  ~ Pending(c) /\ ~ (Holding /\ owner.cmd = c)
  BY <1>p, <1>q DEF Waiting
<1>1. CASE AdmitSet
  <2>1. /\ sup' = [sup EXCEPT !.st["SET"] = "QUEUED"] /\ radio' = "SET" /\ radio = "none"
        /\ UNCHANGED <<home, queue, owner, timer, sites>>
        /\ sup.st["SET"] = "none" /\ sup.final = "none" /\ sup.st["FM1"] = "none"
    BY <1>1 DEF AdmitSet, controlVars, RadioFree
  <2>2. sup.st["FM2"] = "none"
    BY <1>a, <2>1 DEF PhaseInv
  <2>3. queue = <<>> /\ ~ Holding
    BY <1>a, <1>b, <1>p, <1>q, <2>1, <2>2 DEF QueueInv, Pending
  <2>4. /\ sup'.st["SET"] = "QUEUED" /\ sup'.st["FM1"] = "none" /\ sup'.st["FM2"] = "none"
        /\ sup'.final = "none" /\ sup'.outcome = sup.outcome /\ sup'.latched = sup.latched
    BY <1>a, <1>b, <2>1, <2>2 DEF Sups
  <2>5. QueueInv'
    BY <1>b, <2>1, <2>3, <2>4 DEF QueueInv, Pending, Waiting, Holding, Busy
  <2>6. PhaseInv'
    BY <1>a, <1>b, <2>1, <2>2, <2>4 DEF PhaseInv
  <2>7. RecoveryInv'
    BY <1>a, <2>1, <2>4 DEF RecoveryInv
  <2>8. QED
    BY <2>5, <2>6, <2>7 DEF Orderly
<1>2. CASE AdmitFM1
  <2>0. /\ sup.st["FM1"] = "none" /\ sup.st["SET"] = "none" /\ sup.final = "none" /\ radio = "none"
        /\ sup.st["FM2"] = "none" /\ timer = "off"
    BY <1>a, <1>2, AdmitEffects DEF AdmitFM1, PhaseInv
  <2>1. queue = <<>> /\ ~ Holding
    BY <1>a, <1>b, <1>p, <1>q, <2>0 DEF QueueInv, Pending
  <2>2. UNCHANGED <<queue, owner, timer>> /\ sites'.frozen
    BY <1>a, <1>2 DEF AdmitFM1, AttemptTypeOK
  <2>3. (home = "none" => ~ owner.started) /\ (home # "none" => home' # "none")
    <3>1. home = "none" => ~ owner.started
      BY <1>a, <2>0 DEF RecoveryInv
    <3>2. home # "none" => home' # "none"
      BY <1>a, <1>2 DEF AdmitFM1, Acquires, AttemptTypeOK, ControlTypeOK
    <3>3. QED
      BY <3>1, <3>2
  <2>4. CASE sup' = [sup EXCEPT !.st["FM1"] = "QUEUED"] /\ radio' = "FM1" /\ Acquires
    <3>1. /\ sup'.st["FM1"] = "QUEUED" /\ sup'.st["SET"] = "none" /\ sup'.st["FM2"] = "none"
          /\ sup'.final = "none" /\ sup'.outcome = sup.outcome /\ sup'.latched = sup.latched
      BY <1>a, <1>b, <2>0, <2>4 DEF Sups
    <3>2. home' # "none"
      BY <1>a, <2>4 DEF Acquires, AttemptTypeOK, ControlTypeOK
    <3>3. QueueInv'
      BY <1>b, <2>1, <2>2, <2>4, <3>1 DEF QueueInv, Pending, Waiting, Holding, Busy
    <3>4. PhaseInv'
      BY <1>b, <2>0, <2>2, <3>1, <3>2 DEF PhaseInv, Busy
    <3>5. RecoveryInv'
      BY <1>a, <2>0, <2>2, <2>3, <3>1 DEF RecoveryInv
    <3>6. QED
      BY <3>3, <3>4, <3>5 DEF Orderly
  <2>5. CASE UNCHANGED <<sup, radio>>
    <3>1. QueueInv'
      BY <1>a, <2>2, <2>5 DEF QueueInv, Pending, Waiting, Holding
    <3>2. PhaseInv'
      BY <1>a, <1>b, <2>0, <2>2, <2>5 DEF PhaseInv
    <3>3. RecoveryInv'
      BY <1>a, <2>0, <2>2, <2>3, <2>5 DEF RecoveryInv
    <3>4. QED
      BY <3>1, <3>2, <3>3 DEF Orderly
  <2>6. QED
    BY <1>2, <2>4, <2>5 DEF AdmitFM1
<1>3. CASE AdmitFM2
  <2>1. /\ sup' = [sup EXCEPT !.st["FM2"] = "QUEUED"] /\ radio' = "FM2" /\ radio = "none"
        /\ UNCHANGED <<home, queue, owner, timer, sites>>
        /\ sup.st["FM1"] = "SUCCEEDED" /\ sup.st["FM2"] = "none" /\ sup.final = "none"
    BY <1>3 DEF AdmitFM2, controlVars, RadioFree
  <2>2. sup.st["SET"] = "none" /\ home # "none" /\ sites.frozen
    BY <1>a, <2>1 DEF PhaseInv, QueueInv
  <2>3. ~ Pending("FM1") /\ ~ Pending("SET") /\ ~ Pending("FM2") /\ ~ Holding
    <3>1. ~ Waiting("FM1") /\ sup.st["FM1"] # "RUNNING"
      BY <2>1 DEF Waiting
    <3>2. ~ Pending("SET") /\ ~ (Holding /\ owner.cmd = "SET")
      BY <1>b, <1>p, <2>2
    <3>3. ~ Pending("FM2") /\ ~ (Holding /\ owner.cmd = "FM2")
      BY <1>b, <1>p, <2>1
    <3>4. ~ Pending("FM1") /\ ~ (Holding /\ owner.cmd = "FM1")
      BY <1>b, <1>q, <3>1
    <3>5. QED
      BY <1>b, <1>q, <3>2, <3>3, <3>4
  <2>4. queue = <<>>
    BY <1>b, <1>q, <2>3 DEF Pending
  <2>5. /\ sup'.st["SET"] = "none" /\ sup'.st["FM1"] = "SUCCEEDED" /\ sup'.st["FM2"] = "QUEUED"
        /\ sup'.final = "none" /\ sup'.outcome = sup.outcome /\ sup'.latched = sup.latched
    BY <1>a, <1>b, <2>1, <2>2 DEF Sups
  <2>6. QueueInv'
    BY <1>b, <2>1, <2>3, <2>4, <2>5 DEF QueueInv, Pending, Waiting, Holding, Busy
  <2>7. PhaseInv'
    BY <1>a, <1>b, <2>1, <2>2, <2>5 DEF PhaseInv, Busy
  <2>8. RecoveryInv'
    BY <1>a, <2>1, <2>5 DEF RecoveryInv
  <2>9. QED
    BY <2>6, <2>7, <2>8 DEF Orderly
<1>4. CASE Enqueue
  <2>1. radio \in Commands /\ queue = <<>>
    BY <1>a, <1>b, <1>4 DEF Enqueue, QueueInv
  <2>2. queue' = <<radio>> /\ radio' = "none" /\ UNCHANGED <<home, sup, owner, timer, sites>>
    BY <1>4, <2>1 DEF Enqueue, controlVars
  <2>3. ASSUME NEW c \in Commands PROVE Pending(c)' => Pending(c)
    BY <1>b, <2>1, <2>2 DEF Pending
  <2>4. UNCHANGED Holding /\ \A c : UNCHANGED Waiting(c)
    BY <2>2 DEF Holding, Waiting
  <2>5. QueueInv'
    BY <1>a, <2>1, <2>2, <2>3, <2>4 DEF QueueInv
  <2>6. PhaseInv' /\ RecoveryInv'
    BY <1>a, <2>2 DEF PhaseInv, RecoveryInv
  <2>7. QED
    BY <2>5, <2>6 DEF Orderly
<1>5. CASE RequestAbort
  <2>1. UNCHANGED <<home, radio, queue, owner, timer, sites>>
    BY <1>5 DEF RequestAbort, controlVars
  <2>2. Aged(sup, sup')
    BY <1>a, <1>5, ApplyAges DEF RequestAbort
  <2>3. QueueInv'
    BY <1>a, <2>1, <2>2, AgedQueue DEF Holding
  <2>4. PhaseInv'
    BY <1>a, <2>1, <2>2, AgedPhase
  <2>5. /\ sup.final # "none" => sup'.final = sup.final
        /\ sup'.final = "SUCCEEDED" <=> sup.final = "SUCCEEDED"
        /\ sup'.outcome = sup.outcome /\ (sup.latched => sup'.latched)
    BY <1>a, <2>2, AgedKeeps
  <2>6. RecoveryInv'
    BY <1>a, <2>1, <2>5 DEF RecoveryInv
  <2>7. QED
    BY <2>3, <2>4, <2>6 DEF Orderly
<1>6. QED
  BY <1>1, <1>2, <1>3, <1>4, <1>5

\* The owner: a command is taken, begun, carried out and finished.
LEMMA OrderlyCommands ==
    ASSUME AttemptInv,
           TakeCommand \/ BeginCommand \/ Mutate \/ NextOperation \/ FlightFails \/ HandlerReturns
    PROVE  Orderly'
<1>a. AttemptTypeOK /\ QueueInv /\ PhaseInv /\ RecoveryInv /\ sup \in Sups /\ owner \in Owners
  BY AttemptTypes DEF AttemptInv
<1>b. {"FM1", "FM2", "SET"} = Commands /\ Phases = {"FM1", "FM2"}
  BY DEF Commands, Phases
<1>f. owner.pc \in {"idle", "begin", "fly"} => ~ owner.started /\ sup.outcome = "none"
  BY <1>a DEF RecoveryInv, Over, Sups, Outcomes
<1>1. CASE TakeCommand
  <2>1. PICK c \in Commands :
             /\ queue = <<c>> /\ queue' = <<>> /\ radio = "none" /\ Waiting(c)
             /\ Aged(sup, sup')
             /\ \/ sup'.final # "ABORTED" /\ owner' = [owner EXCEPT !.cmd = c, !.pc = "begin"]
                \/ /\ Departs([owner EXCEPT !.cmd = c], "taken") /\ sup'.latched
                   /\ sup'.final = "ABORTED" \/ timer = "due"
    BY <1>1, TakeEffects
  <2>2. owner.pc = "idle" /\ ~ owner.started /\ owner.result = "FAILED" /\ ~ owner.cancel
        /\ UNCHANGED <<home, radio, timer, sites>>
    BY <1>a, <1>f, <1>1 DEF TakeCommand, OwnerAt, controlVars, RecoveryInv
  <2>3. PhaseInv'
    BY <1>a, <2>1, <2>2, AgedPhase
  <2>4. \A d : ~ Pending(d)' \/ d \notin Commands
    BY <1>b, <2>1, <2>2 DEF Pending
  <2>5. Waiting(c)' /\ sup'.st["SET"] = sup.st["SET"] /\ sup'.outcome = sup.outcome
    BY <1>a, <2>1, AgedKeeps
  <2>6. CASE owner' = [owner EXCEPT !.cmd = c, !.pc = "begin"]
    <3>1. owner'.cmd = c /\ owner'.pc = "begin" /\ owner'.result = "FAILED" /\ ~ owner'.cancel
          /\ ~ owner'.started
      BY <1>a, <2>2, <2>6 DEF Owners
    <3>2. QueueInv'
      BY <1>a, <2>1, <2>2, <2>4, <2>5, <3>1 DEF QueueInv, Holding
    <3>3. RecoveryInv'
      BY <1>a, <1>f, <2>2, <2>5, <3>1 DEF RecoveryInv, Over
    <3>4. QED
      BY <2>3, <3>2, <3>3 DEF Orderly
  <2>7. CASE /\ Departs([owner EXCEPT !.cmd = c], "taken") /\ sup'.latched
             /\ sup'.final = "ABORTED" \/ timer = "due"
    <3>1. /\ owner'.cmd = c /\ owner'.result = "FAILED" /\ ~ owner'.cancel /\ owner'.started
          /\ home # "none" => owner'.pc = "recover" /\ owner'.next = "taken"
          /\ home = "none" => owner'.pc = "turn"
      BY <1>a, <2>2, <2>7 DEF Departs, Owners
    <3>2. home = "none" => sup'.final = "ABORTED"
      BY <1>a, <2>7 DEF PhaseInv
    <3>3. QueueInv'
      BY <1>a, <2>1, <2>2, <2>4, <2>5, <3>1 DEF QueueInv, Holding
    <3>4. RecoveryInv'
      BY <1>a, <1>f, <2>2, <2>5, <2>7, <3>1, <3>2 DEF RecoveryInv, Over
    <3>5. QED
      BY <2>3, <3>3, <3>4 DEF Orderly
  <2>8. QED
    BY <2>1, <2>6, <2>7
<1>2. CASE BeginCommand
  <2> DEFINE c == owner.cmd
  <2>1. c \in Commands /\ ~ owner.started /\ owner.pc = "begin" /\ UNCHANGED <<home, radio, queue, sites>>
        /\ owner.result = "FAILED" /\ ~ owner.cancel /\ sup.outcome = "none" /\ ~ Pending(c)
    BY <1>a, <1>f, <1>2, BeginEffects DEF BeginCommand, OwnerAt, controlVars, RecoveryInv, QueueInv, Holding
  <2>2. CASE /\ sup.st[c] = "ABORTED" /\ c \in Phases
             /\ Aged(sup, sup') /\ Departs(owner, "turn") /\ timer' = timer
    <3>1. /\ owner'.cmd = c /\ owner'.result = "FAILED" /\ ~ owner'.cancel /\ owner'.started
          /\ home # "none" => owner'.pc = "recover" /\ owner'.next = "turn"
          /\ home = "none" => owner'.pc = "raised"
      BY <2>1, <2>2 DEF Departs
    <3>2. sup.final # "none" /\ sup'.final = sup.final /\ sup'.outcome = "none"
      BY <1>a, <2>1, <2>2, AgedKeeps DEF PhaseInv
    <3>3. PhaseInv'
      BY <1>a, <2>1, <2>2, AgedPhase
    <3>4. QueueInv'
      BY <1>a, <2>1, <2>2, <3>1, AgedQueue DEF Holding
    <3>5. RecoveryInv'
      BY <1>a, <2>1, <3>1, <3>2 DEF RecoveryInv, Over
    <3>6. QED
      BY <3>3, <3>4, <3>5 DEF Orderly
  <2>3. CASE /\ sup.st[c] = "QUEUED"
             /\ sup' \in Sups /\ sup'.st = [sup.st EXCEPT ![c] = "RUNNING"]
             /\ sup'.final = sup.final /\ sup'.outcome = sup.outcome
             /\ sup.latched => sup'.latched
             /\ timer' = IF c = "FM1" THEN "runs" ELSE timer
             /\ \/ \E pc \in {"finish", "fly"} : owner' = [owner EXCEPT !.pc = pc]
                \/ c \in Phases /\ owner' = [owner EXCEPT !.pc = "finish", !.cancel = TRUE]
    <3>1. /\ owner'.cmd = c /\ owner'.pc \in {"finish", "fly"} /\ owner'.result = "FAILED"
          /\ ~ owner'.started /\ (owner'.cancel => owner'.pc = "finish" /\ c \in Phases)
      BY <1>a, <2>1, <2>3 DEF Owners
    <3>2. sup'.st[c] = "RUNNING" /\ \A d \in Commands \ {c} : sup'.st[d] = sup.st[d]
      BY <1>a, <2>1, <2>3 DEF Sups
    <3>3. \A d \in Commands : Pending(d)' => Pending(d) /\ d # c
      BY <2>1 DEF Pending
    <3>4. QueueInv'
      BY <1>a, <1>b, <2>1, <3>1, <3>2, <3>3 DEF QueueInv, Holding, Waiting, Busy
    <3>5. PhaseInv'
      BY <1>a, <1>b, <2>1, <2>3, <3>2 DEF PhaseInv, Busy
    <3>6. RecoveryInv'
      BY <1>a, <2>1, <2>3, <3>1 DEF RecoveryInv, Over
    <3>7. QED
      BY <3>4, <3>5, <3>6 DEF Orderly
  <2>4. QED
    BY <1>2, <2>2, <2>3, BeginEffects
<1>3. CASE Mutate
  <2>1. /\ owner.pc = "fly" /\ owner.cmd = "SET" /\ UNCHANGED <<home, sup, radio, queue, timer>>
        /\ ~ owner.started /\ sup.st["SET"] = "RUNNING" /\ owner.result = "FAILED" /\ ~ owner.cancel
        /\ sup.outcome = "none"
    BY <1>a, <1>f, <1>3 DEF Mutate, OwnerAt, controlVars, QueueInv, Holding, RecoveryInv
  <2>2. /\ owner'.pc = "finish" /\ owner'.cmd = "SET" /\ ~ owner'.started /\ ~ owner'.cancel
    BY <1>a, <1>3, <2>1 DEF Mutate, Owners
  <2>3. sup.st["FM1"] = "none"
    BY <1>a, <2>1 DEF PhaseInv, Busy
  <2>4. QueueInv'
    BY <1>a, <2>1, <2>2 DEF QueueInv, Holding, Pending, Waiting
  <2>5. PhaseInv'
    BY <1>a, <2>1, <2>3 DEF PhaseInv
  <2>6. RecoveryInv'
    BY <1>a, <2>1, <2>2 DEF RecoveryInv, Over
  <2>7. QED
    BY <2>4, <2>5, <2>6 DEF Orderly
<1>4. CASE NextOperation
  <2>1. /\ UNCHANGED <<home, sup, radio, queue, timer, sites>>
        /\ owner' = [owner EXCEPT !.k = owner.k + 1]
    BY <1>4 DEF NextOperation
  <2>2. /\ owner'.pc = owner.pc /\ owner'.cmd = owner.cmd /\ owner'.started = owner.started
        /\ owner'.next = owner.next /\ owner'.result = owner.result /\ owner'.cancel = owner.cancel
    BY <1>a, <2>1 DEF Owners
  <2>3. QueueInv'
    BY <1>a, <2>1, <2>2 DEF QueueInv, Holding, Pending, Waiting
  <2>4. PhaseInv' /\ RecoveryInv'
    BY <1>a, <2>1, <2>2 DEF PhaseInv, RecoveryInv
  <2>5. QED
    BY <2>3, <2>4 DEF Orderly
<1>5. CASE FlightFails
  <2>1. PICK b \in BOOLEAN : owner' = [owner EXCEPT !.pc = "finish", !.k = 1, !.cancel = b]
    BY <1>5, FailEffects
  <2>2. /\ owner.pc = "fly" /\ owner.cmd \in Phases /\ UNCHANGED <<home, radio, queue, timer, sites>>
        /\ ~ owner.started /\ owner.result = "FAILED" /\ sup.outcome = "none"
    BY <1>a, <1>f, <1>5 DEF FlightFails, Flying, OwnerAt, RecoveryInv
  <2>3. /\ owner'.pc = "finish" /\ owner'.cmd = owner.cmd /\ ~ owner'.started
        /\ owner'.result = "FAILED"
    BY <1>a, <2>1, <2>2 DEF Owners
  <2>4. Aged(sup, sup')
    BY <1>5, FailEffects
  <2>5. QueueInv'
    BY <1>a, <2>2, <2>3, <2>4, AgedQueue DEF Holding
  <2>6. PhaseInv'
    BY <1>a, <2>2, <2>4, AgedPhase
  <2>7. sup'.outcome = "none"
    BY <1>a, <2>2, <2>4, AgedKeeps
  <2>8. RecoveryInv'
    BY <2>2, <2>3, <2>7 DEF RecoveryInv, Over
  <2>9. QED
    BY <2>5, <2>6, <2>8 DEF Orderly
<1>6. CASE HandlerReturns
  <2>1. /\ owner.pc = "fly" /\ owner.cmd \in Phases /\ UNCHANGED <<home, radio, queue, timer, sites>>
        /\ ~ owner.started /\ owner.result = "FAILED" /\ ~ owner.cancel /\ sup.outcome = "none"
    BY <1>a, <1>f, <1>6 DEF HandlerReturns, Flying, OwnerAt, RecoveryInv, controlVars
  <2>2. Aged(sup, sup') /\ home # "none"
    BY <1>6, ReturnEffects
  <2>3. /\ owner'.cmd = owner.cmd /\ ~ owner'.cancel
        /\ \/ owner'.pc = "finish" /\ ~ owner'.started
              /\ (owner'.result = "SUCCEEDED" => owner.cmd = "FM1")
           \/ owner'.pc = "recover" /\ owner'.next = "judge" /\ owner.cmd = "FM2"
              /\ owner'.started /\ owner'.result = "FAILED"
    <3>1. CASE owner' = [owner EXCEPT !.k = 1, !.pc = "finish"]
      BY <1>a, <2>1, <3>1 DEF Owners
    <3>2. CASE owner.cmd = "FM2" /\ Departs([owner EXCEPT !.k = 1], "judge")
      BY <1>a, <2>1, <2>2, <3>2 DEF Owners, Departs
    <3>3. CASE owner.cmd = "FM1" /\ owner' = [owner EXCEPT !.k = 1, !.pc = "finish", !.result = "SUCCEEDED"]
      BY <1>a, <2>1, <3>3 DEF Owners
    <3>4. QED
      BY <1>6, <3>1, <3>2, <3>3, ReturnEffects
  <2>5. QueueInv'
    BY <1>a, <2>1, <2>2, <2>3, AgedQueue DEF Holding
  <2>6. PhaseInv'
    BY <1>a, <2>1, <2>2, AgedPhase
  <2>7. sup'.outcome = "none"
    BY <1>a, <2>1, <2>2, AgedKeeps
  <2>8. RecoveryInv'
    BY <2>1, <2>2, <2>3, <2>7 DEF RecoveryInv, Over
  <2>9. QED
    BY <2>5, <2>6, <2>8 DEF Orderly
<1>7. QED
  BY <1>1, <1>2, <1>3, <1>4, <1>5, <1>6

LEMMA OrderlyFinish ==
    ASSUME AttemptInv, FinishCommand
    PROVE  Orderly'
<1>a. AttemptTypeOK /\ QueueInv /\ PhaseInv /\ RecoveryInv /\ sup \in Sups /\ owner \in Owners
  BY AttemptTypes DEF AttemptInv
<1>b. {"FM1", "FM2", "SET"} = Commands /\ Phases = {"FM1", "FM2"} /\ "ABORTED" # "SUCCEEDED"
  BY DEF Commands, Phases
<1> DEFINE c == owner.cmd
<1>1. /\ c \in Commands /\ sup.st[c] = "RUNNING" /\ ~ Pending(c) /\ owner.pc = "finish"
      /\ UNCHANGED <<home, radio, queue, timer, sites>>
      /\ owner.started => c = "FM2"
      /\ owner.result = "SUCCEEDED" /\ c = "FM2" => sup.outcome = "HOME_LANDED"
  BY <1>a DEF FinishCommand, OwnerAt, controlVars, QueueInv, Holding, RecoveryInv
<1>2. /\ sup' \in Sups /\ sup'.outcome = sup.outcome /\ (sup.latched => sup'.latched)
      /\ \A d \in Commands \ {c} : 
           sup'.st[d] = sup.st[d]
           \/ (d \in Phases /\ sup.st[d] = "QUEUED" /\ sup'.st[d] = "ABORTED" /\ sup'.final # "none")
      /\ sup.final # "none" => sup'.final = sup.final
      /\ c = "SET" => sup'.st[c] = "none" /\ sup'.final \in {sup.final, "ABORTED"}
      /\ c # "SET" => /\ sup'.st[c] \in Results
                      /\ sup'.st[c] = "SUCCEEDED" => owner.result = "SUCCEEDED"
                      /\ sup'.st[c] # "SUCCEEDED" \/ c = "FM2" => sup'.final # "none"
      /\ sup.final = "none" /\ sup'.final = "SUCCEEDED" => c = "FM2" /\ sup'.st[c] = "SUCCEEDED"
  BY <1>1, FinishEffects
<1>3. c # "SET" => home # "none"
  BY <1>a, <1>b, <1>1 DEF PhaseInv
<1>4. sup'.st["SET"] \in {sup.st["SET"], "none"}
  BY <1>b, <1>1, <1>2
<1>5. \/ owner'.pc = "turn" /\ owner'.started = owner.started /\ (c # "SET" => sup'.st[c] = "SUCCEEDED")
      \/ /\ c # "SET" /\ owner'.started
         /\ \E next \in {"turn", "raised"} :
              /\ next = "turn" => sup'.st[c] # "SUCCEEDED"
              /\ IF owner.started THEN owner'.pc = next
                 ELSE owner'.pc = "recover" /\ owner'.next = next
  BY <1>3, FinishEffects DEF Departs, NewOwner
<1>6. owner'.result = "FAILED" /\ ~ owner'.cancel /\ owner'.pc # "finish"
  BY <1>5, FinishEffects DEF Departs, NewOwner
<1>7. ~ Holding' /\ owner'.pc # "begin"
  BY <1>5, <1>6 DEF Holding
<1>8. QueueInv'
  <2>1. \A d \in Commands : Pending(d)' => Pending(d) /\ d # c
    BY <1>1 DEF Pending
  <2>2. ASSUME NEW d \in Commands, Pending(d)' PROVE Waiting(d)'
    BY <1>a, <1>2, <2>1, <2>2 DEF QueueInv, Waiting
  <2>3. (sup.st["SET"] \in {"none"} \cup Busy)'
    BY <1>a, <1>4 DEF QueueInv
  <2>4. QED
    BY <1>a, <1>1, <1>7, <2>2, <2>3 DEF QueueInv
<1>9. PhaseInv'
  <2>1. \A d \in Commands : sup'.st[d] # "none" => sup.st[d] # "none"
    BY <1>1, <1>2
  <2>2. \A d \in Commands : sup.st[d] = "SUCCEEDED" => d # c /\ sup'.st[d] = "SUCCEEDED"
    BY <1>1, <1>2
  <2>3. sup'.st["SET"] \in Busy => sup.st["SET"] \in Busy
    BY <1>4 DEF Busy
  <2>4. (sup.st["FM1"] # "none" => sites.frozen /\ sup.st["SET"] \notin Busy /\ home # "none")'
    BY <1>a, <1>b, <1>1, <2>1, <2>3 DEF PhaseInv
  <2>5. (sup.st["FM2"] # "none" => sup.st["FM1"] = "SUCCEEDED")'
    BY <1>a, <1>b, <2>1, <2>2 DEF PhaseInv
  <2>6. (sup.st["FM2"] = "SUCCEEDED" => sup.outcome = "HOME_LANDED")'
    BY <1>a, <1>b, <1>1, <1>2 DEF PhaseInv
  <2>7. (timer # "off" => sup.st["FM1"] # "none")'
    BY <1>a, <1>b, <1>1, <1>2 DEF PhaseInv, Results
  <2>8. (sup.final = "SUCCEEDED" => sup.st["FM2"] = "SUCCEEDED")'
    BY <1>a, <1>b, <1>2, <2>2 DEF PhaseInv
  <2>9. (\A d \in Phases : sup.st[d] \in {"FAILED", "ABORTED"} => sup.final # "none")'
    <3> SUFFICES ASSUME NEW d \in Phases, sup'.st[d] \in {"FAILED", "ABORTED"}
                 PROVE  sup'.final # "none"
      OBVIOUS
    <3>1. CASE d = c
      BY <1>b, <1>2, <3>1
    <3>2. CASE d # c
      BY <1>a, <1>b, <1>2, <3>2 DEF PhaseInv
    <3>3. QED
      BY <3>1, <3>2
  <2>10. QED
    BY <2>4, <2>5, <2>6, <2>7, <2>8, <2>9 DEF PhaseInv
<1>10. RecoveryInv'
  <2>1. /\ owner.started => sup'.final # "none"
        /\ c # "SET" /\ sup'.st[c] # "SUCCEEDED" => sup'.final # "none"
    BY <1>1, <1>2
  <2>2. /\ owner.started /\ home # "none" => sup.outcome # "none"
        /\ sup.outcome # "none" => owner.started /\ home # "none"
    BY <1>a, <1>1 DEF RecoveryInv
  <2>3. CASE owner'.pc = "turn" /\ owner'.started = owner.started
    BY <1>1, <1>2, <1>6, <2>1, <2>2, <2>3 DEF RecoveryInv
  <2>4. CASE /\ c # "SET" /\ owner'.started
             /\ \E next \in {"turn", "raised"} :
                  /\ next = "turn" => sup'.st[c] # "SUCCEEDED"
                  /\ IF owner.started THEN owner'.pc = next
                     ELSE owner'.pc = "recover" /\ owner'.next = next
    <3>1. PICK next \in {"turn", "raised"} :
                  /\ next = "turn" => sup'.st[c] # "SUCCEEDED"
                  /\ IF owner.started THEN owner'.pc = next
                     ELSE owner'.pc = "recover" /\ owner'.next = next
      BY <2>4
    <3>2. CASE owner.started
      BY <1>1, <1>2, <1>6, <2>1, <2>2, <2>4, <3>1, <3>2 DEF RecoveryInv, Over
    <3>3. CASE ~ owner.started
      BY <1>1, <1>2, <1>3, <1>6, <2>1, <2>2, <2>4, <3>1, <3>3 DEF RecoveryInv, Over
    <3>4. QED
      BY <3>2, <3>3
  <2>5. QED
    BY <1>5, <2>3, <2>4
<1>11. QED
  BY <1>8, <1>9, <1>10 DEF Orderly

LEMMA OrderlyLoop ==
    ASSUME AttemptInv, Idle \/ ClockFailsIdle \/ Turn \/ Monitor
    PROVE  Orderly'
<1>a. AttemptTypeOK /\ QueueInv /\ PhaseInv /\ RecoveryInv /\ sup \in Sups /\ owner \in Owners
  BY AttemptTypes DEF AttemptInv
<1>1. CASE Idle \/ ClockFailsIdle
  <2>1. PICK next \in {"turn", "raised"} : Departs(owner, next) /\ Aged(sup, sup') /\ sup'.latched
                                          /\ (sup'.final = "ABORTED" \/ timer # "off")
    BY <1>1, IdleEffects, ClockIdleEffects DEF ClockFailsIdle
  <2>2. /\ owner.pc = "idle" /\ ~ owner.started /\ owner.result = "FAILED" /\ ~ owner.cancel
        /\ UNCHANGED <<home, radio, queue, timer, sites>> /\ sup.outcome = "none"
    BY <1>a, <1>1 DEF Idle, ClockFailsIdle, OwnerAt, controlVars, RecoveryInv, Over
  <2>3. home = "none" => sup'.final = "ABORTED"
    BY <1>a, <2>1 DEF PhaseInv
  <2>4. /\ owner'.result = "FAILED" /\ ~ owner'.cancel /\ owner'.started
        /\ home # "none" => owner'.pc = "recover" /\ owner'.next = next
        /\ home = "none" => owner'.pc = "raised"
    BY <2>1, <2>2 DEF Departs
  <2>5. QueueInv'
    BY <1>a, <2>1, <2>2, <2>4, AgedQueue DEF Holding
  <2>6. PhaseInv'
    BY <1>a, <2>1, <2>2, AgedPhase
  <2>7. sup'.outcome = "none"
    BY <1>a, <2>1, <2>2, AgedKeeps
  <2>8. RecoveryInv'
    BY <2>1, <2>2, <2>3, <2>4, <2>7 DEF RecoveryInv, Over
  <2>9. QED
    BY <2>5, <2>6, <2>8 DEF Orderly
<1>2. CASE Turn
  <2>1. /\ owner.pc = "turn" /\ owner.result = "FAILED" /\ ~ owner.cancel
        /\ UNCHANGED <<home, radio, queue, timer, sites>>
        /\ owner.started /\ home = "none" => sup.final # "none"
        /\ owner.started /\ home # "none" => sup.outcome # "none"
        /\ sup.outcome # "none" => owner.started /\ home # "none"
    BY <1>a, <1>2 DEF Turn, OwnerAt, controlVars, RecoveryInv
  <2>2. Aged(sup, sup')
    BY <1>2, TurnEffects
  <2>3. /\ owner'.result = "FAILED" /\ ~ owner'.cancel
        /\ \/ owner'.pc = "idle" /\ ~ owner'.started /\ ~ owner.started
           \/ owner'.pc = "monitor" /\ owner'.started = owner.started /\ sup'.final = "SUCCEEDED"
           \/ owner'.pc = "monitor" /\ owner'.started /\ owner.started /\ sup'.final # "none"
           \/ owner'.pc = "raised" /\ owner'.started /\ ~ owner.started /\ home = "none" /\ sup'.final # "none"
           \/ owner'.pc = "recover" /\ owner'.started /\ ~ owner.started /\ home # "none" /\ sup'.final # "none"
              /\ owner'.next = "monitor"
    <3>1. CASE sup'.final = "none" /\ ~ owner.started /\ owner' = [owner EXCEPT !.pc = "idle", !.cmd = "none"]
      BY <1>a, <2>1, <3>1 DEF Owners
    <3>2. CASE sup'.final = "SUCCEEDED" /\ owner' = [owner EXCEPT !.pc = "monitor"]
      BY <1>a, <2>1, <3>2 DEF Owners
    <3>3. CASE sup'.final # "none" /\ Departs(owner, "monitor")
      BY <1>a, <2>1, <3>3 DEF Owners, Departs
    <3>4. QED
      BY <1>2, <3>1, <3>2, <3>3, TurnEffects
  <2>4. QueueInv'
    BY <1>a, <2>1, <2>2, <2>3, AgedQueue DEF Holding
  <2>5. PhaseInv'
    BY <1>a, <2>1, <2>2, AgedPhase
  <2>6. sup'.outcome = sup.outcome /\ (sup.latched => sup'.latched) /\ (sup.final # "none" => sup'.final = sup.final)
    BY <1>a, <2>2, AgedKeeps
  <2>7. RecoveryInv'
    BY <2>1, <2>3, <2>6 DEF RecoveryInv, Over
  <2>8. QED
    BY <2>4, <2>5, <2>7 DEF Orderly
<1>3. CASE Monitor
  <2>1. /\ owner.pc = "monitor" /\ UNCHANGED <<home, sup, radio, queue, timer, sites>>
        /\ owner' = [owner EXCEPT !.pc = "ended"]
    BY <1>3 DEF Monitor, OwnerAt, OwnerRest, controlVars
  <2>2. /\ owner'.pc = "ended" /\ owner'.cmd = owner.cmd /\ owner'.started = owner.started
        /\ owner'.result = owner.result /\ owner'.cancel = owner.cancel
    BY <1>a, <2>1 DEF Owners
  <2>3. QueueInv'
    BY <1>a, <2>1, <2>2 DEF QueueInv, Holding, Pending, Waiting
  <2>4. PhaseInv'
    BY <1>a, <2>1 DEF PhaseInv
  <2>5. RecoveryInv'
    BY <1>a, <2>1, <2>2 DEF RecoveryInv, Over
  <2>6. QED
    BY <2>3, <2>4, <2>5 DEF Orderly
<1>4. QED
  BY <1>1, <1>2, <1>3

\* The recovery: its end is told once.
LEMMA OrderlyRecovery ==
    ASSUME AttemptInv, RecoverStage \/ RecoverFails \/ RecoverYields \/ RecoveryClockFails
    PROVE  Orderly'
<1>a. AttemptTypeOK /\ QueueInv /\ PhaseInv /\ RecoveryInv /\ sup \in Sups /\ owner \in Owners
  BY AttemptTypes DEF AttemptInv
<1>1. /\ owner.pc = "recover" /\ UNCHANGED <<home, radio, queue, timer, sites>>
  BY DEF RecoverStage, RecoverFails, RecoverYields, RecoveryClockFails, RecoveryRest,
         RecoveringNow, OwnerAt
<1>2. \/ UNCHANGED <<sup, owner>>
      \/ \E outcome \in Outcomes, raises \in BOOLEAN : RecoveryEnds(outcome, raises)
  <2>1. CASE RecoverStage
    BY <2>1, StageEffects DEF Outcomes
  <2>2. CASE RecoverFails
    BY <2>2 DEF RecoverFails, Outcomes
  <2>3. CASE RecoverYields \/ RecoveryClockFails
    BY <2>3 DEF RecoverYields, RecoveryClockFails, Outcomes
  <2>4. QED
    BY <2>1, <2>2, <2>3
<1>3. CASE UNCHANGED <<sup, owner>>
  BY <1>a, <1>1, <1>3, OrderlyKept DEF Orderly
<1>4. CASE \E outcome \in Outcomes, raises \in BOOLEAN : RecoveryEnds(outcome, raises)
  <2>1. PICK outcome \in Outcomes, raises \in BOOLEAN : RecoveryEnds(outcome, raises)
    BY <1>4
  <2>2. /\ owner.started /\ owner.result = "FAILED" /\ ~ owner.cancel /\ home # "none"
        /\ sup.outcome = "none"
        /\ owner.next \in {"turn", "taken"} => sup.latched \/ sup.final # "none"
        /\ owner.next = "judge" => owner.cmd = "FM2"
        /\ owner.next = "monitor" => sup.final # "none"
    BY <1>a, <1>1 DEF RecoveryInv
  <2>3. /\ sup'.outcome = outcome /\ outcome # "none"
        /\ sup'.st = sup.st /\ sup'.final = sup.final /\ sup'.latched = sup.latched
    BY <1>a, <2>1, RecoveryEffects DEF Sups, Outcomes
  <2>4. /\ owner'.cmd = owner.cmd /\ owner'.started /\ owner.next \in Nexts
        /\ owner.next = "judge" =>
             /\ owner'.pc = "finish"
             /\ owner'.result = "SUCCEEDED" => outcome = "HOME_LANDED"
        /\ owner.next # "judge" =>
             /\ owner'.result = "FAILED" /\ ~ owner'.cancel
             /\ \/ owner'.pc = "raised"
                \/ owner'.pc = "turn" /\ owner.next \in {"turn", "taken"}
                \/ owner'.pc = "monitor" /\ owner.next = "monitor"
    BY <1>a, <2>1, <2>2, RecoveryEffects DEF Owners, Nexts
  <2>5. QueueInv'
    <3>1. \A c \in Commands : (Pending(c)' <=> Pending(c)) /\ (Waiting(c)' <=> Waiting(c))
      BY <1>1, <2>3 DEF Pending, Waiting
    <3>2. Holding' => Holding /\ owner'.pc = "finish"
      BY <1>1, <2>4 DEF Holding
    <3>3. owner'.pc # "begin" /\ owner.pc # "begin"
      BY <1>1, <2>4
    <3>4. QED
      BY <1>a, <1>1, <2>3, <2>4, <3>1, <3>2, <3>3 DEF QueueInv
  <2>6. PhaseInv'
    BY <1>a, <1>1, <2>2, <2>3 DEF PhaseInv
  <2>7. RecoveryInv'
    BY <1>1, <2>2, <2>3, <2>4 DEF RecoveryInv, Over, Phases
  <2>8. QED
    BY <2>5, <2>6, <2>7 DEF Orderly
<1>5. QED
  BY <1>2, <1>3, <1>4

LEMMA OrderlyStep ==
    ASSUME AttemptInv, AttemptNext
    PROVE  Orderly'
<1>a. AttemptTypeOK /\ QueueInv /\ PhaseInv /\ RecoveryInv
  BY DEF AttemptInv
<1>1. CASE Prepare \/ StartSession \/ Telemetry \/ VehicleActs \/ FlyOperation \/ RecoverOperation
  <2>1. UNCHANGED <<sup, radio, queue, owner, timer, sites>>
    BY <1>1 DEF Prepare, StartSession, Telemetry, VehicleActs, FlyOperation, RecoverOperation, sessionVars
  <2>2. home' = home
    <3>1. CASE Prepare \/ StartSession
      BY <3>1 DEF Prepare, StartSession, controlVars
    <3>2. CASE Telemetry
      BY <3>2 DEF Telemetry, SeeHeartbeat, SeeLanded, LoseAuthority
    <3>3. CASE VehicleActs
      BY <3>3 DEF VehicleActs, Vehicle, Obey, Drift, ModeChanges
    <3>4. CASE FlyOperation \/ RecoverOperation
      BY <3>4 DEF FlyOperation, RecoverOperation, OpBegins, OpOrders, OpConfirms
    <3>5. QED
      BY <1>1, <3>1, <3>2, <3>3, <3>4
  <2>3. QED
    BY <1>a, <2>1, <2>2, OrderlyKept DEF Orderly
<1>2. CASE SessionEnds \/ DieConsuming
  <2>1. /\ sup' = NewSup /\ owner' = NewOwner /\ radio' = "none" /\ queue' = <<>>
        /\ timer' = "off" /\ home' = "none"
    BY <1>a, <1>2, ForgetEffects DEF SessionEnds, DieConsuming
  <2>2. QueueInv'
    <3>1. \A c \in Commands : ~ Pending(c)'
      BY <2>1 DEF Pending, Commands, Phases
    <3>2. ~ Holding' /\ owner'.pc = "idle"
      BY <2>1 DEF Holding, NewOwner
    <3>3. sup'.st["SET"] = "none"
      BY <2>1 DEF NewSup, Commands
    <3>4. QED
      BY <2>1, <3>1, <3>2, <3>3 DEF QueueInv
  <2>3. PhaseInv'
    BY <2>1 DEF PhaseInv, NewSup, Commands, Phases
  <2>4. RecoveryInv'
    BY <2>1 DEF RecoveryInv, NewSup, NewOwner
  <2>5. QED
    BY <2>2, <2>3, <2>4 DEF Orderly
<1>3. CASE AdmitSet \/ AdmitFM1 \/ AdmitFM2 \/ Enqueue \/ RequestAbort
  BY <1>3, OrderlyRadio
<1>4. CASE DeadlinePasses
  <2>1. UNCHANGED <<home, sup, radio, queue, owner, sites>> /\ timer = "runs"
    BY <1>4 DEF DeadlinePasses, controlVars
  <2>2. QueueInv' /\ RecoveryInv'
    BY <1>a, <2>1 DEF QueueInv, Pending, Waiting, Holding, RecoveryInv
  <2>3. PhaseInv'
    BY <1>a, <2>1 DEF PhaseInv
  <2>4. QED
    BY <2>2, <2>3 DEF Orderly
<1>5. CASE TakeCommand \/ BeginCommand \/ Mutate \/ NextOperation \/ FlightFails \/ HandlerReturns
  BY <1>5, OrderlyCommands
<1>6. CASE FinishCommand
  BY <1>6, OrderlyFinish
<1>7. CASE Idle \/ ClockFailsIdle \/ Turn \/ Monitor
  BY <1>7, OrderlyLoop
<1>8. CASE RecoverStage \/ RecoverFails \/ RecoverYields \/ RecoveryClockFails
  BY <1>8, OrderlyRecovery
<1>9. QED
  BY <1>1, <1>2, <1>3, <1>4, <1>5, <1>6, <1>7, <1>8 DEF AttemptNext, Radio, Owner

\* Between two commands, and when an operation has ended, nothing is under way.
LEMMA OrdersKept ==
    ASSUME OrdersInv, act = NoAct, UNCHANGED <<told, acked, act>>,
           \/ owner'.pc \in {"idle", "begin", "fly"}
           \/ owner'.pc = "turn" /\ ~ owner'.started
           \/ owner'.pc = "finish" /\ ~ owner'.started
              /\ (owner'.cmd = "SET" \/ owner'.result = "SUCCEEDED")
           => told = <<>>
    PROVE  OrdersInv'
<1>1. act'.op = "none" /\ act'.step = "begin" /\ act' = NoAct
  BY DEF NoAct
<1>2. QED
  BY <1>1 DEF OrdersInv

\* The orders do not mind what the owner is not concerned with.
LEMMA OrdersSame ==
    ASSUME OrdersInv, UNCHANGED <<told, acked, act, owner>>, session'.up => session.up
    PROVE  OrdersInv'
BY DEF OrdersInv

LEMMA OrdersOwner ==
    ASSUME AttemptInv, TakeCommand \/ BeginCommand \/ Mutate \/ HandlerReturns \/ FinishCommand
                       \/ Idle \/ ClockFailsIdle \/ Turn \/ Monitor
    PROVE  OrdersInv'
<1>a. OrdersInv /\ QueueInv /\ RecoveryInv /\ owner \in Owners /\ sup \in Sups
  BY AttemptTypes DEF AttemptInv
<1>b. UNCHANGED <<told, acked, act, session>> /\ session.up
  BY DEF TakeCommand, BeginCommand, Mutate, HandlerReturns, FinishCommand, Idle, ClockFailsIdle,
         Turn, Monitor, OwnerRest, OwnerAt, Flying, controlVars, craftVars
<1>1. CASE TakeCommand \/ BeginCommand \/ Idle \/ ClockFailsIdle
  <2>1. owner.pc \in {"idle", "begin"}
    BY <1>1 DEF TakeCommand, BeginCommand, Idle, ClockFailsIdle, OwnerAt
  <2>2. act = NoAct /\ told = <<>>
    BY <1>a, <1>b, <2>1 DEF OrdersInv
  <2>3. QED
    BY <1>a, <1>b, <2>2, OrdersKept
<1>2. CASE Mutate \/ HandlerReturns
  <2>1. owner.pc = "fly" /\ (owner.cmd = "SET" \/ act.op = "none")
    BY <1>2 DEF Mutate, HandlerReturns, OwnerAt, Flying
  <2>2. act = NoAct
    BY <1>a, <1>b, <2>1 DEF OrdersInv, Phases
  <2>3. told = <<>>
    BY <1>a, <2>1, <2>2 DEF OrdersInv, NoAct
  <2>4. QED
    BY <1>a, <1>b, <2>2, <2>3, OrdersKept
<1>3. CASE FinishCommand
  <2>1. owner.pc = "finish"
    BY <1>3 DEF FinishCommand, OwnerAt
  <2>2. act = NoAct
    BY <1>a, <1>b, <2>1 DEF OrdersInv
  <2>3. \/ /\ owner'.pc = "turn" /\ owner'.started = owner.started
           /\ owner.cmd = "SET" \/ owner.result = "SUCCEEDED"
        \/ owner'.pc \in {"turn", "recover", "raised"} /\ owner'.started
    <3>1. CASE /\ owner' = [NewOwner EXCEPT !.started = owner.started, !.pc = "turn"]
               /\ owner.cmd # "SET" => sup'.st[owner.cmd] = "SUCCEEDED"
      BY <1>3, <3>1, FinishEffects DEF NewOwner
    <3>2. CASE \E next \in {"turn", "raised"} : Departs([NewOwner EXCEPT !.started = owner.started], next)
      BY <3>2 DEF Departs
    <3>3. [[NewOwner EXCEPT !.started = owner.started] EXCEPT !.pc = "turn"]
            = [NewOwner EXCEPT !.started = owner.started, !.pc = "turn"]
      OBVIOUS
    <3>4. QED
      BY <1>3, <3>1, <3>2, <3>3, FinishEffects
  <2>4. owner'.pc = "turn" /\ ~ owner'.started => told = <<>>
    BY <1>a, <2>1, <2>3 DEF OrdersInv
  <2>5. QED
    BY <1>a, <1>b, <2>2, <2>3, <2>4, OrdersKept
<1>4. CASE Turn \/ Monitor
  <2>1. owner.pc \in {"turn", "monitor"} /\ (owner.pc = "turn" /\ ~ owner.started => told = <<>>)
    BY <1>a, <1>b, <1>4 DEF Turn, Monitor, OwnerAt, OrdersInv
  <2>2. act = NoAct
    BY <1>a, <1>b, <2>1 DEF OrdersInv
  <2>3. /\ owner'.pc \in {"idle", "monitor", "ended", "recover", "raised"}
        /\ owner'.pc = "idle" => owner.pc = "turn" /\ ~ owner.started
    <3>1. CASE Turn
      BY <1>a, <3>1, TurnEffects DEF Turn, OwnerAt, Departs, Owners
    <3>2. CASE Monitor
      BY <1>a, <3>2 DEF Monitor, Owners
    <3>3. QED
      BY <1>4, <3>1, <3>2
  <2>4. QED
    BY <1>a, <1>b, <2>1, <2>2, <2>3, OrdersKept
<1>5. QED
  BY <1>1, <1>2, <1>3, <1>4

\* An operation of the flight.
LEMMA OrdersFlight ==
    ASSUME AttemptInv, NextOperation \/ FlyOperation \/ FlightFails
    PROVE  OrdersInv'
<1>a. OrdersInv /\ RecoveryInv /\ owner \in Owners /\ ControlTypeOK
  BY AttemptTypes DEF AttemptInv
<1>b. owner.pc = "fly" /\ owner.cmd \in Phases /\ session' = session /\ session.up
  BY DEF NextOperation, FlyOperation, FlightFails, Flying, OwnerAt, sessionVars
<1>c. act.step # "wait" \/ act.op = "touchdown" => told = <<>>
  BY <1>a, <1>b DEF OrdersInv
<1>1. CASE NextOperation
  <2>1. act.op = "none" /\ owner' = [owner EXCEPT !.k = owner.k + 1] /\ UNCHANGED <<told, acked>>
        /\ act' = Doing(Plan[owner.cmd][owner.k])
    BY <1>1 DEF NextOperation, craftVars
  <2>2. act = NoAct
    BY <1>a, <2>1 DEF OrdersInv
  <2>3. told = <<>>
    BY <1>c, <2>2 DEF NoAct
  <2>4. owner'.pc = "fly" /\ owner'.cmd = owner.cmd
    BY <1>a, <1>b, <2>1 DEF Owners
  <2>5. act'.step = "begin" /\ act'.op = Plan[owner.cmd][owner.k] /\ act' = Doing(act'.op)
    BY <2>1 DEF Doing, NoAct
  <2>6. act'.op = "none" => act' = NoAct
    BY <2>5 DEF Doing, NoAct
  <2>7. QED
    BY <1>a, <1>b, <2>1, <2>3, <2>4, <2>5, <2>6 DEF OrdersInv
<1>2. CASE FlyOperation
  <2>1. owner' = owner
    BY <1>2 DEF FlyOperation, sessionVars
  <2>2. CASE OpBegins
    <3>1. told' = told /\ acked' = acked /\ act.step = "begin"
          /\ \/ act' = NoAct
             \/ act'.op = "touchdown" /\ act'.step = "wait"
             \/ act' = [act EXCEPT !.step = "order"] /\ act.op \notin {"touchdown", "none"}
      BY <2>2 DEF OpBegins, craftVars
    <3>2. told = <<>>
      BY <1>c, <3>1
    <3>3. act'.op = "none" => act' = NoAct
      BY <1>a, <3>1 DEF ControlTypeOK
    <3>4. act'.step = "order" => act'.op # "touchdown"
      BY <1>a, <3>1 DEF ControlTypeOK, NoAct
    <3>5. QED
      BY <1>a, <1>b, <2>1, <3>1, <3>2, <3>3, <3>4 DEF OrdersInv
  <2>3. CASE OpOrders(owner.cmd = "FM1")
    <3>1. act.step = "order"
      BY <2>3 DEF OpOrders
    <3>2. told = <<>>
      BY <1>c, <3>1
    <3>3. CASE told' = told /\ UNCHANGED acked /\ act' \in {NoAct, Doing("touchdown")}
      <4>1. act'.step = "begin" /\ (act'.op = "none" => act' = NoAct)
        BY <3>3 DEF NoAct, Doing
      <4>2. QED
        BY <1>a, <1>b, <2>1, <3>2, <3>3, <4>1 DEF OrdersInv
    <3>4. CASE /\ act.op \in Operations \ {"release", "touchdown"}
               /\ act' = [act EXCEPT !.step = "wait"] /\ acked' = "none"
      <4>1. act'.step = "wait" /\ act'.op = act.op /\ act'.op \notin {"none", "touchdown"}
        BY <1>a, <3>4 DEF ControlTypeOK, Operations
      <4>2. QED
        BY <1>a, <1>b, <2>1, <3>4, <4>1 DEF OrdersInv
    <3>5. QED
      BY <1>a, <2>3, <3>3, <3>4, OrderEffects
  <2>4. CASE OpConfirms
    <3>1. /\ told' = told /\ acked' = "none"
          /\ acked = "yes" \/ act.op = "touchdown"
          /\ act' = NoAct \/ (act'.op = "touchdown" /\ act'.step = "wait")
      BY <2>4 DEF OpConfirms
    <3>2. told = <<>>
      BY <1>a, <1>c, <3>1 DEF OrdersInv
    <3>3. act'.step # "order" /\ (act'.op = "none" => act' = NoAct)
      BY <3>1 DEF NoAct
    <3>4. QED
      BY <1>a, <1>b, <2>1, <3>1, <3>2, <3>3 DEF OrdersInv
  <2>5. QED
    BY <1>2, <2>2, <2>3, <2>4 DEF FlyOperation
<1>3. CASE FlightFails
  <2>1. act' = NoAct /\ acked' = "none" /\ told' = told
    BY <1>3 DEF FlightFails
  <2>2. PICK b \in BOOLEAN : owner' = [owner EXCEPT !.pc = "finish", !.k = 1, !.cancel = b]
    BY <1>3, FailEffects
  <2>3. owner'.pc = "finish" /\ owner'.cmd \in Phases /\ owner'.result = "FAILED"
    BY <1>a, <1>b, <2>2 DEF RecoveryInv, Owners
  <2>4. QED
    BY <1>a, <1>b, <2>1, <2>3 DEF OrdersInv, NoAct, Phases
<1>4. QED
  BY <1>1, <1>2, <1>3

\* The operations of the recovery are those that bring the vehicle down.
LEMMA OrdersRecovery ==
    ASSUME AttemptInv, RecoverStage \/ RecoverOperation \/ RecoverFails \/ RecoverYields
                       \/ RecoveryClockFails
    PROVE  OrdersInv'
<1>a. OrdersInv /\ RecoveryInv /\ owner \in Owners /\ ControlTypeOK
  BY AttemptTypes DEF AttemptInv
<1>b. owner.pc = "recover" /\ session' = session /\ session.up /\ owner.started
  BY <1>a DEF RecoverStage, RecoverOperation, RecoverFails, RecoverYields, RecoveryClockFails,
              RecoveringNow, OwnerAt, sessionVars, RecoveryRest, RecoveryInv
<1>c. act.op \in {"none", "climb", "home", "land", "touchdown", "disarm"}
  BY <1>a, <1>b DEF OrdersInv
<1>1. CASE RecoverOperation
  <2>1. owner' = owner
    BY <1>1 DEF RecoverOperation, sessionVars
  <2>2. CASE OpBegins
    <3>1. told' = told /\ acked' = acked /\ act.step = "begin"
          /\ \/ act' = NoAct
             \/ act'.op = "touchdown" /\ act'.step = "wait"
             \/ act' = [act EXCEPT !.step = "order"] /\ act.op \notin {"touchdown", "none"}
      BY <2>2 DEF OpBegins, craftVars
    <3>2. /\ act'.op = "none" => act' = NoAct
          /\ act'.step = "order" => act'.op # "touchdown"
          /\ act'.op \in {"none", "climb", "home", "land", "touchdown", "disarm"}
      BY <1>a, <1>c, <3>1 DEF ControlTypeOK, NoAct
    <3>3. QED
      BY <1>a, <1>b, <2>1, <3>1, <3>2 DEF OrdersInv
  <2>3. CASE OpOrders(FALSE)
    <3>3. CASE told' = told /\ UNCHANGED acked /\ act' \in {NoAct, Doing("touchdown")}
      <4>1. act'.step = "begin" /\ (act'.op = "none" => act' = NoAct) /\ act'.op \in {"none", "touchdown"}
        BY <3>3 DEF NoAct, Doing
      <4>2. QED
        BY <1>a, <1>b, <2>1, <3>3, <4>1 DEF OrdersInv
    <3>4. CASE /\ act.op \in Operations \ {"release", "touchdown"}
               /\ act' = [act EXCEPT !.step = "wait"] /\ acked' = "none"
      <4>1. act'.step = "wait" /\ act'.op = act.op /\ act'.op \notin {"none", "touchdown"}
        BY <1>a, <3>4 DEF ControlTypeOK, Operations
      <4>2. QED
        BY <1>a, <1>b, <1>c, <2>1, <3>4, <4>1 DEF OrdersInv
    <3>5. QED
      BY <1>a, <2>3, <3>3, <3>4, OrderEffects
  <2>4. CASE OpConfirms
    <3>1. /\ told' = told /\ acked' = "none"
          /\ act' = NoAct \/ (act'.op = "touchdown" /\ act'.step = "wait")
      BY <2>4 DEF OpConfirms
    <3>2. act'.step # "order" /\ (act'.op = "none" => act' = NoAct) /\ act'.op \in {"none", "touchdown"}
      BY <3>1 DEF NoAct
    <3>3. QED
      BY <1>a, <1>b, <2>1, <3>1, <3>2 DEF OrdersInv
  <2>5. QED
    BY <1>1, <2>2, <2>3, <2>4 DEF RecoverOperation
<1>2. CASE RecoverStage \/ RecoverFails \/ RecoverYields \/ RecoveryClockFails
  <2>1. told' = told
    BY <1>2 DEF RecoverStage, RecoverFails, RecoverYields, RecoveryClockFails, RecoveryRest
  <2>2. CASE \E outcome \in Outcomes, raises \in BOOLEAN : RecoveryEnds(outcome, raises)
    <3>1. PICK outcome \in Outcomes, raises \in BOOLEAN : RecoveryEnds(outcome, raises)
      BY <2>2
    <3>2. act' = NoAct /\ acked' = "none" /\ owner'.started
          /\ owner'.pc \in {"finish", "raised", "turn", "monitor"}
      BY <1>a, <1>b, <3>1, RecoveryEffects DEF Owners, Nexts
    <3>3. QED
      BY <1>b, <2>1, <3>2 DEF OrdersInv, NoAct
  <2>3. CASE /\ owner' = owner /\ acked' \in {acked, "none"}
             /\ act' \in {NoAct, Doing("touchdown"), Doing("climb"), Doing("home"), Doing("land"),
                          Doing("disarm")}
    <3>1. /\ act'.step = "begin" /\ (act'.op = "none" => act' = NoAct)
          /\ act'.op \in {"none", "climb", "home", "land", "touchdown", "disarm"}
      BY <2>3 DEF NoAct, Doing
    <3>2. QED
      BY <1>a, <1>b, <2>1, <2>3, <3>1 DEF OrdersInv
  <2>4. QED
    <3>1. CASE RecoverStage
      BY <2>2, <2>3, <3>1, StageEffects DEF Outcomes
    <3>2. CASE RecoverFails
      BY <2>2, <2>3, <3>2 DEF RecoverFails, Outcomes
    <3>3. CASE RecoverYields \/ RecoveryClockFails
      BY <2>2, <3>3 DEF RecoverYields, RecoveryClockFails, Outcomes
    <3>4. QED
      BY <1>2, <3>1, <3>2, <3>3
<1>3. QED
  BY <1>1, <1>2

LEMMA OrdersStep ==
    ASSUME AttemptInv, AttemptNext
    PROVE  OrdersInv'
<1>a. OrdersInv /\ SessionInv /\ AttemptTypeOK /\ ControlTypeOK
  BY AttemptTypes DEF AttemptInv
<1>1. CASE AdmitSet \/ AdmitFM1 \/ AdmitFM2 \/ Enqueue \/ RequestAbort \/ Telemetry \/ DeadlinePasses
  <2>1. UNCHANGED <<session, owner>>
    BY <1>1 DEF AdmitSet, AdmitFM1, AdmitFM2, Enqueue, RequestAbort, Telemetry, DeadlinePasses, sessionVars
  <2>2. UNCHANGED <<told, acked, act>>
    BY <1>1 DEF AdmitSet, AdmitFM1, AdmitFM2, Enqueue, RequestAbort, Telemetry, DeadlinePasses,
                Acquires, SeeHeartbeat, SeeLanded, LoseAuthority, controlVars, craftVars
  <2>3. QED
    BY <1>a, <2>1, <2>2, OrdersSame
<1>2. CASE Prepare
  <2>1. session'.up = session.up /\ UNCHANGED <<told, acked, act, owner>>
    BY <1>a, <1>2 DEF Prepare, AttemptTypeOK, controlVars, craftVars
  <2>2. QED
    BY <1>a, <2>1, OrdersSame
<1>3. CASE StartSession
  <2>1. owner = NewOwner /\ act = NoAct /\ told' = <<>> /\ UNCHANGED <<acked, act, owner>>
    BY <1>a, <1>3 DEF StartSession, SessionInv
  <2>2. QED
    BY <2>1 DEF OrdersInv, NewOwner, NoAct
<1>4. CASE SessionEnds \/ DieConsuming
  <2>1. owner' = NewOwner /\ act' = NoAct /\ acked' = "none" /\ ~ session'.up
    BY <1>a, <1>4, ForgetEffects DEF SessionEnds, DieConsuming
  <2>2. QED
    BY <2>1 DEF OrdersInv, NewOwner, NoAct
<1>5. CASE VehicleActs
  <2>1. UNCHANGED <<session, owner, act>>
    BY <1>5 DEF VehicleActs, sessionVars, Vehicle, Obey, Drift, ModeChanges
  <2>2. CASE Obey
    <3>1. told # <<>> /\ (acked' = "yes" => acked = "yes" \/ told' = <<>>)
      BY <1>a, <2>2, ObeyEffects DEF Obey
    <3>2. QED
      BY <1>a, <2>1, <3>1 DEF OrdersInv
  <2>3. CASE Drift \/ ModeChanges
    BY <1>a, <2>1, <2>3, OrdersSame DEF Drift, ModeChanges
  <2>4. QED
    BY <1>5, <2>2, <2>3 DEF VehicleActs, Vehicle
<1>6. QED
  BY <1>1, <1>2, <1>3, <1>4, <1>5, OrdersOwner, OrdersFlight, OrdersRecovery DEF AttemptNext, Radio, Owner

\* Who acts on the vehicle, and who looks at it.
LEMMA OutwardSteps ==
    ASSUME AttemptTypeOK, AttemptNext
    PROVE  \/ StartSession
           \/ Forget
           \/ VehicleActs
           \/ Telemetry
           \/ AdmitFM1 /\ UNCHANGED <<craft, told, seen, session>>
           \/ (FlyOperation \/ RecoverOperation) /\ UNCHANGED <<craft, seen, session>>
           \/ UNCHANGED <<craft, told, seen, home>> /\ session'.up = session.up
<1>1. SessionEnds \/ DieConsuming => Forget
  BY DEF SessionEnds, DieConsuming
<1>2. Prepare => UNCHANGED <<craft, told, seen, home>> /\ session'.up = session.up
  BY DEF Prepare, controlVars, craftVars, AttemptTypeOK
<1>3. AdmitFM1 => UNCHANGED <<craft, told, seen, session>>
  BY DEF AdmitFM1, craftVars
<1>4. AdmitSet \/ AdmitFM2 \/ Enqueue \/ RequestAbort \/ DeadlinePasses =>
        UNCHANGED <<craft, told, seen, home, session>>
  BY DEF AdmitSet, AdmitFM2, Enqueue, RequestAbort, DeadlinePasses, controlVars, craftVars
<1>5. TakeCommand \/ BeginCommand \/ Mutate \/ NextOperation \/ FlightFails \/ HandlerReturns =>
        UNCHANGED <<craft, told, seen, home, session>>
  BY DEF TakeCommand, BeginCommand, Mutate, NextOperation, FlightFails, HandlerReturns, controlVars,
         craftVars
<1>6. FinishCommand \/ Idle \/ ClockFailsIdle \/ Turn \/ Monitor =>
        UNCHANGED <<craft, told, seen, home, session>>
  BY DEF FinishCommand, Idle, ClockFailsIdle, Turn, Monitor, OwnerRest, controlVars, craftVars
<1>7. RecoverStage \/ RecoverFails \/ RecoverYields \/ RecoveryClockFails =>
        UNCHANGED <<craft, told, seen, home, session>>
  BY DEF RecoverStage, RecoverFails, RecoverYields, RecoveryClockFails, RecoveryRest
<1>8. FlyOperation \/ RecoverOperation => UNCHANGED <<craft, seen, session>>
  <2>1. FlyOperation \/ RecoverOperation => UNCHANGED session
    BY DEF FlyOperation, RecoverOperation, sessionVars
  <2>2. OpBegins \/ OpOrders(owner.cmd = "FM1") \/ OpOrders(FALSE) \/ OpConfirms => UNCHANGED <<craft, seen>>
    BY DEF OpBegins, OpOrders, OpConfirms, craftVars
  <2>3. QED
    BY <2>1, <2>2 DEF FlyOperation, RecoverOperation
<1>9. QED
  BY <1>1, <1>2, <1>3, <1>4, <1>5, <1>6, <1>7, <1>8 DEF AttemptNext, Radio, Owner

\* What the vehicle does of itself and when told.
LEMMA VehicleEffects ==
    ASSUME ControlTypeOK, GroundInv, Vehicle
    PROVE  /\ \A o : OrderIn(o)' => OrderIn(o)
           /\ UNCHANGED <<seen, home>>
           /\ craft'.armed /\ ~ craft.armed => OrderIn("arm")
           /\ craft.landed = "ground" /\ craft'.landed # "ground" => OrderIn("takeoff") /\ craft.armed
           /\ craft'.at # craft.at => OrderIn("to H") \/ OrderIn("to L")
           /\ craft'.landed # "ground" => craft'.armed
<1>1. CASE Obey
  <2>1. /\ \A o : OrderIn(o)' => OrderIn(o)
        /\ OrderIn(Head(told)) /\ UNCHANGED <<seen, home>>
        /\ craft' = craft \/ (craft' = Obeyed(Head(told)) /\ Willing(Head(told)))
    BY <1>1, ObeyEffects DEF Obey
  <2>2. told # <<>> /\ told \in Seq(Orders)
    BY <1>1 DEF Obey, ControlTypeOK
  <2> DEFINE o == Head(told)
  <2>3. o \in Orders
    BY <2>2, HeadTailProperties
  <2> HIDE DEF o
  <2>4. craft \in [mode : Modes, armed : BOOLEAN, landed : LandedStates, at : {"H", "L"}]
    BY DEF ControlTypeOK
  <2>5. CASE craft' = craft
    BY <2>1, <2>5 DEF GroundInv
  <2>6. CASE craft' = Obeyed(o) /\ Willing(o)
    <3>0. OrderIn(o)
      BY <2>1 DEF o
    <3>1. CASE o \in {"guided", "land"}
      <4>1. craft'.armed = craft.armed /\ craft'.landed = craft.landed /\ craft'.at = craft.at
        BY <2>4, <2>6, <3>1 DEF Obeyed
      <4>2. QED
        BY <2>1, <4>1 DEF GroundInv
    <3>2. CASE o = "arm"
      <4>1. craft'.armed /\ craft'.landed = craft.landed /\ craft'.at = craft.at
        BY <2>4, <2>6, <3>2 DEF Obeyed
      <4>2. QED
        BY <2>1, <3>0, <3>2, <4>1
    <3>3. CASE o = "disarm"
      <4>1. ~ craft'.armed /\ craft'.landed = craft.landed /\ craft'.at = craft.at /\ craft.landed = "ground"
        BY <2>4, <2>6, <3>3 DEF Obeyed, Willing
      <4>2. QED
        BY <2>1, <4>1
    <3>4. CASE o = "takeoff"
      <4>1. craft'.armed = craft.armed /\ craft.armed /\ craft'.at = craft.at
        BY <2>4, <2>6, <3>4 DEF Obeyed, Willing
      <4>2. QED
        BY <2>1, <3>0, <3>4, <4>1
    <3>5. CASE o \in {"to L", "to H"}
      <4>1. craft'.armed = craft.armed /\ craft'.landed = craft.landed
        BY <2>4, <2>6, <3>5 DEF Obeyed
      <4>2. QED
        BY <2>1, <3>0, <3>5, <4>1 DEF GroundInv
    <3>6. CASE o = "climb"
      <4>1. craft' = craft
        BY <2>6, <3>6 DEF Obeyed
      <4>2. QED
        BY <2>1, <4>1 DEF GroundInv
    <3>7. QED
      BY <2>3, <3>1, <3>2, <3>3, <3>4, <3>5, <3>6 DEF Orders
  <2>7. QED
    BY <2>1, <2>5, <2>6 DEF o
<1>2. CASE Drift \/ ModeChanges
  <2>0. craft \in [mode : Modes, armed : BOOLEAN, landed : LandedStates, at : {"H", "L"}]
    BY DEF ControlTypeOK
  <2>1. UNCHANGED <<told, seen, home>>
    BY <1>2 DEF Drift, ModeChanges
  <2>2. \A o : OrderIn(o)' => OrderIn(o)
    BY <2>1 DEF OrderIn
  <2>3. /\ craft'.at = craft.at /\ (craft'.armed => craft.armed)
        /\ craft.landed = "ground" => craft'.landed = "ground"
        /\ craft'.landed # "ground" => craft.landed # "ground" /\ craft'.armed = craft.armed
    BY <1>2, <2>0 DEF Drift, ModeChanges
  <2>4. QED
    BY <2>1, <2>2, <2>3 DEF GroundInv
<1>3. QED
  BY <1>1, <1>2 DEF Vehicle

\* An order of the flight finds none before it; one of the recovery does not arm, nor take off.
LEMMA NewOrders ==
    ASSUME AttemptInv, FlyOperation \/ RecoverOperation
    PROVE  /\ session.up /\ authority = "COMPANION" /\ owner' = owner /\ home' = home /\ rec' = rec
           /\ \/ told' = told
              \/ /\ act.op \in Operations \ {"release", "touchdown"} /\ act.step = "order"
                 /\ (Needs(act.op) \/ act.op = "guided") /\ act'.op = act.op
                 /\ \A o : OrderIn(o)' => OrderIn(o) \/ o = Order(act.op)
                 /\ \/ owner.pc = "fly" /\ told = <<>> /\ ~ sup.latched
                    \/ owner.pc = "recover" /\ act.op \in {"climb", "home", "land", "disarm"}
<1>a. OrdersInv /\ ControlTypeOK
  BY AttemptTypes DEF AttemptInv
<1>1. session.up /\ authority = "COMPANION" /\ UNCHANGED <<owner, rec>>
  BY DEF FlyOperation, RecoverOperation, Flying, RecoveringNow, OwnerAt, sessionVars
<1>2. OpBegins \/ OpConfirms => UNCHANGED <<told, home>>
  BY DEF OpBegins, OpConfirms, craftVars
<1>3. ASSUME NEW first, OpOrders(first)
      PROVE  /\ home' = home /\ act.step = "order"
             /\ \/ told' = told
                \/ /\ act.op \in Operations \ {"release", "touchdown"}
                   /\ (Needs(act.op) \/ act.op = "guided") /\ act'.op = act.op
                   /\ \A o : OrderIn(o)' => OrderIn(o) \/ o = Order(act.op)
  <2>1. home' = home /\ act.step = "order"
    BY <1>3 DEF OpOrders
  <2>2. act' = [act EXCEPT !.step = "wait"] => act'.op = act.op
    BY <1>a DEF ControlTypeOK
  <2>3. QED
    BY <1>a, <1>3, <2>1, <2>2, OrderEffects
<1>4. CASE FlyOperation
  <2>1. owner.pc = "fly" /\ ~ sup.latched
    BY <1>4 DEF FlyOperation, Flying, OwnerAt
  <2>2. act.step = "order" => told = <<>>
    BY <1>a, <2>1 DEF OrdersInv
  <2>3. QED
    BY <1>1, <1>2, <1>3, <1>4, <2>1, <2>2 DEF FlyOperation
<1>5. CASE RecoverOperation
  <2>1. owner.pc = "recover"
    BY <1>5 DEF RecoverOperation, RecoveringNow, OwnerAt
  <2>2. act.op \in {"none", "climb", "home", "land", "touchdown", "disarm"}
    BY <1>a, <2>1 DEF OrdersInv
  <2>3. CASE OpBegins \/ OpConfirms
    BY <1>1, <1>2, <2>3
  <2>4. CASE OpOrders(FALSE)
    <3>1. act.op \in Operations \ {"release", "touchdown"} => act.op \in {"climb", "home", "land", "disarm"}
      BY <2>2 DEF Operations
    <3>2. QED
      BY <1>1, <1>3, <2>1, <2>4, <3>1
  <2>5. QED
    BY <1>5, <2>3, <2>4 DEF RecoverOperation
<1>6. QED
  BY <1>4, <1>5

LEMMA GroundStep ==
    ASSUME AttemptInv, AttemptNext
    PROVE  GroundInv'
<1>a. GroundInv /\ OrdersInv /\ AttemptTypeOK /\ ControlTypeOK
  BY AttemptTypes DEF AttemptInv
<1>b. craft \in [mode : Modes, armed : BOOLEAN, landed : LandedStates, at : {"H", "L"}]
      /\ seen \in [mode : Modes, armed : BOOLEAN, landed : LandedStates]
  BY <1>a DEF ControlTypeOK
<1>1. CASE StartSession
  <2>1. told' = <<>> /\ craft' = craft /\ seen' = View(craft)
    BY <1>1 DEF StartSession
  <2>2. \A o : ~ OrderIn(o)'
    BY <2>1 DEF OrderIn
  <2>3. seen'.landed = craft.landed /\ seen'.armed = craft.armed
    BY <2>1 DEF View
  <2>4. QED
    BY <1>a, <2>1, <2>2, <2>3 DEF GroundInv
<1>2. CASE Forget
  <2>1. ~ session'.up /\ craft' = craft
    BY <1>a, <1>2, ForgetEffects
  <2>2. QED
    BY <1>a, <2>1 DEF GroundInv
<1>3. CASE VehicleActs
  <2>1. session' = session /\ Vehicle
    BY <1>3 DEF VehicleActs, sessionVars
  <2>2. /\ \A o : OrderIn(o)' => OrderIn(o)
        /\ UNCHANGED seen
        /\ craft'.armed /\ ~ craft.armed => OrderIn("arm")
        /\ craft.landed = "ground" /\ craft'.landed # "ground" => OrderIn("takeoff") /\ craft.armed
        /\ craft'.landed # "ground" => craft'.armed
    BY <1>a, <2>1, VehicleEffects
  <2>3. QED
    BY <1>a, <2>1, <2>2 DEF GroundInv
<1>4. CASE Telemetry
  <2>1. UNCHANGED <<craft, told, session>>
    BY <1>4 DEF Telemetry, SeeHeartbeat, SeeLanded, LoseAuthority, craftVars, sessionVars
  <2>2. \A o : OrderIn(o)' <=> OrderIn(o)
    BY <2>1 DEF OrderIn
  <2>3. CASE SeeHeartbeat
    <3>1. seen'.armed = craft.armed /\ seen'.landed = seen.landed
      BY <1>b, <2>3 DEF SeeHeartbeat
    <3>2. QED
      BY <1>a, <2>1, <2>2, <3>1 DEF GroundInv
  <2>4. CASE SeeLanded
    <3>1. seen'.armed = seen.armed /\ seen'.landed = craft.landed
      BY <1>b, <2>4 DEF SeeLanded
    <3>2. QED
      BY <1>a, <2>1, <2>2, <3>1 DEF GroundInv
  <2>5. CASE LoseAuthority
    BY <1>a, <2>1, <2>2, <2>5 DEF GroundInv, LoseAuthority
  <2>6. QED
    BY <1>4, <2>3, <2>4, <2>5 DEF Telemetry
<1>5. CASE UNCHANGED <<craft, told, seen>> /\ session'.up = session.up
  BY <1>a, <1>5 DEF GroundInv, OrderIn
<1>6. CASE (FlyOperation \/ RecoverOperation) /\ UNCHANGED <<craft, seen, session>>
  <2>1. CASE told' = told
    BY <1>a, <1>6, <2>1 DEF GroundInv, OrderIn
  <2>2. CASE /\ act.op \in Operations \ {"release", "touchdown"} /\ act.step = "order"
             /\ (Needs(act.op) \/ act.op = "guided") /\ act'.op = act.op
             /\ \A o : OrderIn(o)' => OrderIn(o) \/ o = Order(act.op)
             /\ \/ owner.pc = "fly" /\ told = <<>> /\ ~ sup.latched
                \/ owner.pc = "recover" /\ act.op \in {"climb", "home", "land", "disarm"}
    <3>1. Order(act.op) = "arm" => act.op = "arm"
      BY <2>2 DEF Order
    <3>2. Order(act.op) = "takeoff" => act.op = "takeoff"
      BY <2>2 DEF Order
    <3>3. act.op \in {"arm", "takeoff"} => owner.pc = "fly" /\ \A o : ~ OrderIn(o)
      BY <2>2 DEF OrderIn
    <3>4. act.op = "arm" => seen.landed = "ground" /\ ~ seen.armed
      BY <2>2 DEF Needs, OnGround
    <3>5. act.op = "takeoff" => seen.armed
      BY <2>2 DEF Needs
    <3>6. session.up
      BY <1>6, NewOrders
    <3>7. (session.up /\ OrderIn("takeoff") => ~ OrderIn("arm") /\ (~ seen.armed => ~ craft.armed))'
      BY <1>a, <1>6, <2>2, <3>1, <3>2, <3>3, <3>5, <3>6 DEF GroundInv
    <3>8. (session.up /\ OrderIn("arm") => craft.landed = "ground" /\ seen.landed = "ground")'
      BY <1>a, <1>6, <2>2, <3>1, <3>4, <3>6 DEF GroundInv
    <3>9. QED
      BY <1>a, <1>6, <3>7, <3>8 DEF GroundInv
  <2>3. QED
    BY <1>6, <2>1, <2>2, NewOrders
<1>7. QED
  BY <1>a, <1>1, <1>2, <1>3, <1>4, <1>5, <1>6, OutwardSteps

\* A recovery that has begun knows nothing yet.
LEMMA HomeFresh ==
    ASSUME rec' = NewRec
    PROVE  HomeInv'
BY DEF HomeInv, NewRec

\* A recovery that does not go on from where it is.
LEMMA HomeKept ==
    ASSUME HomeInv, UNCHANGED <<owner, rec, act, home, craft>>,
           \A o : OrderIn(o)' => OrderIn(o), seen'.armed \in {seen.armed, craft.armed}
    PROVE  HomeInv'
BY DEF HomeInv

LEMMA HomeOperation ==
    ASSUME AttemptInv, RecoverOperation
    PROVE  HomeInv'
<1>a. HomeInv /\ OrdersInv /\ GroundInv /\ ControlTypeOK /\ RecoveryInv
  BY AttemptTypes DEF AttemptInv
<1>1. /\ owner.pc = "recover" /\ session.up /\ home # "none"
      /\ UNCHANGED <<owner, rec, craft, seen>>
  BY <1>a DEF RecoverOperation, RecoveringNow, OwnerAt, sessionVars, RecoveryInv,
              OpBegins, OpOrders, OpConfirms, craftVars
<1>c. act.op \in {"none", "climb", "home", "land", "touchdown", "disarm"}
  BY <1>a, <1>1 DEF OrdersInv
<1>h. /\ rec.stage = "goto" => act.op \in {"home", "none"}
      /\ (rec.stage = "goto" /\ act.op = "none") \/ rec.returned =>
           craft.at = home /\ ~ OrderIn("to H") /\ ~ OrderIn("to L")
      /\ (rec.stage = "goto" /\ (act.op = "none" \/ act.step = "wait")) \/ rec.returned =>
           ~ OrderIn("arm") /\ (seen.armed \/ ~ craft.armed)
      /\ rec.returned => /\ act.op \notin {"home", "climb"}
                         /\ rec.stage \notin {"look", "return", "approach", "goto"}
  BY <1>a, <1>1 DEF HomeInv
<1>2. CASE OpBegins
  <2>1. told' = told /\ home' = home /\ act.step = "begin"
        /\ \/ act' = NoAct /\ act.op \notin {"home", "none", "climb"}
           \/ act'.op = "touchdown" /\ act'.step = "wait" /\ act.op \in {"land", "touchdown"}
           \/ act' = [act EXCEPT !.step = "order"] /\ act.op # "none"
    BY <1>2 DEF OpBegins, craftVars, NothingToDo
  <2>2. \A o : OrderIn(o)' <=> OrderIn(o)
    BY <2>1 DEF OrderIn
  <2>3. \/ act'.op = "none" /\ act.op \notin {"home", "none", "climb"}
        \/ act'.op = "touchdown" /\ act.op \in {"land", "touchdown"}
        \/ act'.op = act.op /\ act'.step = "order" /\ act.op # "none"
    BY <1>a, <2>1 DEF ControlTypeOK, NoAct
  <2>4. QED
    BY <1>1, <1>c, <1>h, <2>1, <2>2, <2>3 DEF HomeInv
<1>3. CASE OpConfirms
  <2>1. /\ told' = told /\ home' = home /\ act.step = "wait" /\ Confirmed
        /\ act.op # "touchdown" => acked = "yes"
        /\ \/ act.op # "land" /\ act' = NoAct
           \/ act.op = "land" /\ act'.op = "touchdown"
    BY <1>3 DEF OpConfirms
  <2>2. \A o : OrderIn(o)' <=> OrderIn(o)
    BY <2>1 DEF OrderIn
  <2>3. act'.op \in {"none", "touchdown"} /\ (act'.op = "touchdown" => act.op = "land")
    BY <2>1 DEF NoAct
  <2>4. rec.stage = "goto" => act.op = "home"
    BY <1>h, <2>1 DEF Confirmed
  <2>5. act.op = "home" => craft.at = home /\ \A o : ~ OrderIn(o)
    BY <1>a, <2>1 DEF Confirmed, OrdersInv, OrderIn
  <2>6. QED
    BY <1>1, <1>h, <2>1, <2>2, <2>3, <2>4, <2>5 DEF HomeInv
<1>4. CASE OpOrders(FALSE)
  <2>0. home' = home /\ act.step = "order"
    BY <1>4 DEF OpOrders
  <2>1. CASE told' = told /\ act.op = "land" /\ act' = Doing("touchdown")
    <3>1. act'.op = "touchdown"
      BY <2>1 DEF Doing, NoAct
    <3>2. \A o : OrderIn(o)' <=> OrderIn(o)
      BY <2>1 DEF OrderIn
    <3>3. QED
      BY <1>1, <1>h, <2>0, <2>1, <3>1, <3>2 DEF HomeInv
  <2>2. CASE /\ act.op \in Operations \ {"release", "touchdown"}
             /\ Needs(act.op) \/ act.op = "guided"
             /\ act' = [act EXCEPT !.step = "wait"]
             /\ \A o : OrderIn(o)' => OrderIn(o) \/ o = Order(act.op)
    <3>1. act'.op = act.op /\ act'.step = "wait" /\ act.op \in {"climb", "home", "land", "disarm"}
      BY <1>a, <1>c, <2>2 DEF ControlTypeOK, Operations
    <3>2. act.op # "home" => Order(act.op) = act.op
      BY <3>1 DEF Order
    <3>3. act.op = "home" => Order(act.op) \in {"to H", "to L"}
      BY DEF Order
    <3>4. act.op = "home" => seen.landed = "air" /\ seen.armed
      BY <2>2 DEF Needs
    <3>5. act.op = "home" => ~ OrderIn("arm")
      BY <1>a, <1>1, <3>4 DEF GroundInv
    <3>6. ~ OrderIn("arm") => ~ OrderIn("arm")'
      BY <2>2, <3>1, <3>2, <3>3
    <3>7. CASE rec.stage = "goto"
      <4>1. act.op = "home" /\ ~ rec.returned
        BY <1>h, <3>1, <3>7
      <4>2. QED
        BY <1>1, <2>0, <3>1, <3>4, <3>5, <3>6, <3>7, <4>1 DEF HomeInv
    <3>8. CASE rec.stage # "goto" /\ rec.returned
      <4>1. Order(act.op) \in {"land", "disarm"}
        BY <1>h, <3>1, <3>2, <3>8
      <4>2. ~ OrderIn("to H")' /\ ~ OrderIn("to L")'
        BY <1>h, <2>2, <3>8, <4>1
      <4>3. QED
        BY <1>1, <1>h, <2>0, <3>1, <3>6, <3>8, <4>2 DEF HomeInv
    <3>9. CASE rec.stage # "goto" /\ ~ rec.returned
      BY <1>1, <3>9 DEF HomeInv
    <3>10. QED
      BY <3>7, <3>8, <3>9
  <2>3. CASE told' = told /\ act.op = "release"
    BY <1>c, <2>3
  <2>4. QED
    BY <1>a, <1>4, <2>1, <2>2, <2>3, OrderEffects
<1>5. QED
  BY <1>2, <1>3, <1>4 DEF RecoverOperation

LEMMA HomeStage ==
    ASSUME AttemptInv, RecoverStage
    PROVE  HomeInv'
<1>a. HomeInv /\ OrdersInv /\ rec \in Recs
  BY AttemptTypes DEF AttemptInv
<1>1. /\ owner.pc = "recover" /\ act = NoAct /\ act.op = "none"
      /\ UNCHANGED <<craft, seen, told, home>>
  BY <1>a DEF RecoverStage, RecoveringNow, OwnerAt, RecoveryRest, OrdersInv
<1>2. \A o : OrderIn(o)' <=> OrderIn(o)
  BY <1>1 DEF OrderIn
<1>h. /\ rec.stage = "goto" \/ rec.returned =>
           /\ craft.at = home /\ ~ OrderIn("to H") /\ ~ OrderIn("to L")
           /\ ~ OrderIn("arm") /\ (seen.armed \/ ~ craft.armed)
      /\ rec.returned => rec.stage \notin {"look", "return", "approach", "goto"}
  BY <1>a, <1>1 DEF HomeInv
\* What the stages have in common: the return is remembered, and a new one begins without it.
<1>3. ASSUME owner' = owner, rec'.returned => rec.returned \/ rec.stage = "goto",
             rec'.stage = "goto" => act'.op = "home" /\ act'.step = "begin",
             rec'.returned => /\ act'.op \notin {"home", "climb"}
                              /\ rec'.stage \notin {"look", "return", "approach", "goto"}
      PROVE  HomeInv'
  BY <1>1, <1>2, <1>3, <1>h DEF HomeInv
<1>4. \A op : Doing(op).op = op /\ Doing(op).step = "begin"
  BY DEF Doing, NoAct
<1>5. CASE rec.stage \in {"look", "return", "approach", "land"} /\ Interrupted
  <2>1. CASE rec' = [rec EXCEPT !.stage = "ground", !.again = rec.stage \in {"return", "approach"}]
             /\ UNCHANGED <<owner, act>>
    <3>1. rec'.stage = "ground" /\ rec'.returned = rec.returned
      BY <1>a, <2>1 DEF Recs
    <3>2. QED
      BY <1>1, <1>3, <2>1, <3>1
  <2>2. CASE act' = Doing("touchdown") /\ Stage("preserve")
    <3>1. rec'.stage = "preserve" /\ rec'.returned = rec.returned /\ owner' = owner
      BY <1>a, <2>2 DEF Recs, Stage
    <3>2. QED
      BY <1>3, <1>4, <2>2, <3>1
  <2>3. CASE rec.stage # "land" /\ Stage("land") /\ UNCHANGED act
    <3>1. rec'.stage = "land" /\ rec'.returned = rec.returned /\ owner' = owner
      BY <1>a, <2>3 DEF Recs, Stage
    <3>2. QED
      BY <1>1, <1>3, <2>3, <3>1
  <2>4. CASE RecoveryEnds("UNCONFIRMED", FALSE)
    BY <2>4, HomeFresh DEF RecoveryEnds
  <2>5. QED
    BY <1>5, <2>1, <2>2, <2>3, <2>4 DEF Interrupted
<1>6. CASE Approach
  <2>1. CASE rec.stage = "look" /\ Stage("return") /\ UNCHANGED act
    <3>1. rec'.stage = "return" /\ rec'.returned = rec.returned /\ owner' = owner
      BY <1>a, <2>1 DEF Recs, Stage
    <3>2. QED
      BY <1>1, <1>3, <1>h, <2>1, <3>1
  <2>2. CASE rec.stage = "return" /\ Stage("approach")
    <3>1. rec'.stage = "approach" /\ rec'.returned = rec.returned /\ owner' = owner
      BY <1>a, <2>2 DEF Recs, Stage
    <3>2. QED
      BY <1>3, <1>h, <2>2, <3>1
  <2>3. CASE rec.stage = "approach" /\ act' = Doing("home") /\ Stage("goto")
    <3>1. rec'.stage = "goto" /\ rec'.returned = rec.returned /\ owner' = owner
      BY <1>a, <2>3 DEF Recs, Stage
    <3>2. QED
      BY <1>3, <1>4, <1>h, <2>3, <3>1
  <2>4. CASE rec.stage = "goto" /\ rec' = [rec EXCEPT !.stage = "land", !.returned = TRUE]
             /\ UNCHANGED <<owner, act>>
    <3>1. rec'.stage = "land" /\ rec'.returned
      BY <1>a, <2>4 DEF Recs
    <3>2. QED
      BY <1>1, <1>3, <2>4, <3>1
  <2>5. CASE rec.stage = "land" /\ act' = Doing("land") /\ Stage("landing")
    <3>1. rec'.stage = "landing" /\ rec'.returned = rec.returned /\ owner' = owner
      BY <1>a, <2>5 DEF Recs, Stage
    <3>2. QED
      BY <1>3, <1>4, <2>5, <3>1
  <2>6. QED
    BY <1>6, <2>1, <2>2, <2>3, <2>4, <2>5 DEF Approach
<1>7. CASE ConfirmGround
  <2>1. CASE Stage("ground") /\ UNCHANGED act
    <3>1. rec'.stage = "ground" /\ rec'.returned = rec.returned /\ owner' = owner
      BY <1>a, <2>1 DEF Recs, Stage
    <3>2. QED
      BY <1>1, <1>3, <2>1, <3>1
  <2>2. CASE act' = Doing("disarm") /\ Stage("disarmed")
    <3>1. rec'.stage = "disarmed" /\ rec'.returned = rec.returned /\ owner' = owner
      BY <1>a, <2>2 DEF Recs, Stage
    <3>2. QED
      BY <1>3, <1>4, <2>2, <3>1
  <2>3. CASE \E outcome : RecoveryEnds(outcome, FALSE)
    BY <2>3, HomeFresh DEF RecoveryEnds
  <2>4. QED
    BY <1>7, <2>1, <2>2, <2>3 DEF ConfirmGround
<1>8. QED
  BY <1>5, <1>6, <1>7 DEF RecoverStage

LEMMA HomeStep ==
    ASSUME AttemptInv, AttemptNext
    PROVE  HomeInv'
<1>a. HomeInv /\ RecoveryInv /\ GroundInv /\ AttemptTypeOK /\ ControlTypeOK
  BY AttemptTypes DEF AttemptInv
<1>1. CASE Forget \/ TakeCommand \/ HandlerReturns \/ FinishCommand \/ Idle \/ ClockFailsIdle \/ Turn
           \/ RecoverYields \/ RecoveryClockFails
  <2>1. rec' = NewRec
    BY <1>1 DEF Forget, TakeCommand, HandlerReturns, FinishCommand, Idle, ClockFailsIdle, Turn,
                RecoverYields, RecoveryClockFails, RecoveryEnds
  <2>2. QED
    BY <2>1, HomeFresh
<1>2. CASE BeginCommand \/ Mutate \/ NextOperation \/ FlyOperation \/ FlightFails \/ Monitor
  <2>1. rec = NewRec
    BY <1>a, <1>2 DEF BeginCommand, Mutate, NextOperation, FlyOperation, FlightFails, Monitor,
                      Flying, OwnerAt, HomeInv
  <2>2. rec' = rec
    BY <1>2 DEF BeginCommand, Mutate, NextOperation, FlyOperation, FlightFails, Monitor,
                OwnerRest, sessionVars
  <2>3. QED
    BY <2>1, <2>2, HomeFresh
<1>3. CASE RecoverFails
  <2>1. CASE rec' = [NewRec EXCEPT !.stage = "land"] /\ owner' = owner
    <3>1. rec'.stage = "land" /\ ~ rec'.returned /\ owner'.pc = "recover"
      BY <1>3, <2>1 DEF NewRec, RecoverFails, RecoveringNow, OwnerAt
    <3>2. QED
      BY <3>1 DEF HomeInv
  <2>2. CASE RecoveryEnds("UNCONFIRMED", FALSE)
    BY <2>2, HomeFresh DEF RecoveryEnds
  <2>3. QED
    BY <1>3, <2>1, <2>2 DEF RecoverFails
<1>4. CASE Prepare \/ AdmitSet \/ AdmitFM2 \/ Enqueue \/ RequestAbort \/ DeadlinePasses
  <2>1. UNCHANGED <<owner, rec, act, home, craft, told, seen>>
    BY <1>4 DEF Prepare, AdmitSet, AdmitFM2, Enqueue, RequestAbort, DeadlinePasses, controlVars, craftVars
  <2>2. QED
    BY <1>a, <2>1, HomeKept DEF OrderIn
<1>5. CASE StartSession
  <2>1. UNCHANGED <<owner, rec>> /\ owner.pc = "idle"
    BY <1>5 DEF StartSession, AttemptInv, SessionInv, NewOwner
  <2>2. QED
    BY <1>a, <2>1 DEF HomeInv
<1>6. CASE AdmitFM1
  <2>1. UNCHANGED <<owner, rec, act, craft, told, seen>> /\ home' \in {home, craft.at}
    BY <1>6 DEF AdmitFM1, Acquires, craftVars
  <2>2. \A o : OrderIn(o)' <=> OrderIn(o)
    BY <2>1 DEF OrderIn
  <2>3. QED
    BY <1>a, <2>1, <2>2 DEF HomeInv
<1>7. CASE Telemetry
  <2>1. UNCHANGED <<owner, rec, act, home, craft, told>>
    BY <1>7 DEF Telemetry, SeeHeartbeat, SeeLanded, LoseAuthority, sessionVars, craftVars
  <2>2. seen'.armed \in {seen.armed, craft.armed}
    BY <1>a, <1>7 DEF Telemetry, SeeHeartbeat, SeeLanded, LoseAuthority, ControlTypeOK
  <2>3. QED
    BY <1>a, <2>1, <2>2, HomeKept DEF OrderIn
<1>8. CASE VehicleActs
  <2>1. UNCHANGED <<owner, rec>> /\ Vehicle
    BY <1>8 DEF VehicleActs, sessionVars
  <2>2. act' = act
    BY <2>1 DEF Vehicle, Obey, Drift, ModeChanges
  <2>3. /\ \A o : OrderIn(o)' => OrderIn(o)
        /\ UNCHANGED <<seen, home>>
        /\ craft'.armed /\ ~ craft.armed => OrderIn("arm")
        /\ craft'.at # craft.at => OrderIn("to H") \/ OrderIn("to L")
    BY <1>a, <2>1, VehicleEffects
  <2>4. QED
    BY <1>a, <2>1, <2>2, <2>3 DEF HomeInv
<1>9. QED
  BY <1>1, <1>2, <1>3, <1>4, <1>5, <1>6, <1>7, <1>8, HomeStage, HomeOperation
  DEF AttemptNext, Radio, Owner, SessionEnds, DieConsuming

LEMMA AttemptInvInit ==
    AttemptInit => AttemptInv
<1> SUFFICES ASSUME AttemptInit PROVE AttemptInv
  OBVIOUS
<1>1. /\ craft = NewCraft /\ told = <<>> /\ acked = "none" /\ seen = View(NewCraft) /\ newer = {}
      /\ authority = "none" /\ home = "none" /\ act = NoAct
      /\ ledger = [prepared |-> 0, consumed |-> 0, whole |-> TRUE]
      /\ session = [up |-> FALSE, attempt |-> 0, pinned |-> FALSE]
      /\ sup = NewSup /\ radio = "none" /\ queue = <<>> /\ owner = NewOwner /\ rec = NewRec
      /\ timer = "off" /\ sites \in [known : BOOLEAN, frozen : {FALSE}]
      /\ flown = [a \in 1 .. MaxAttempts |-> 0]
  BY DEF AttemptInit, ControlInit
<1>2. \A o : ~ OrderIn(o)
  BY <1>1 DEF OrderIn
<1>3. AttemptTypeOK
  <2>1. /\ craft \in [mode : Modes, armed : BOOLEAN, landed : LandedStates, at : {"H", "L"}]
        /\ seen \in [mode : Modes, armed : BOOLEAN, landed : LandedStates]
    BY <1>1 DEF NewCraft, View, Modes, LandedStates
  <2>2. act \in [op : Operations \cup {"none"}, step : {"begin", "order", "wait"}, was : BOOLEAN]
    BY <1>1 DEF NoAct
  <2>3. ControlTypeOK
    BY <1>1, <2>1, <2>2 DEF ControlTypeOK
  <2>4. 0 \in 0 .. MaxAttempts /\ 0 \in 0 .. 2
    BY AttemptAssumption
  <2>5. /\ ledger \in [prepared : 0 .. MaxAttempts, consumed : 0 .. MaxAttempts, whole : BOOLEAN]
        /\ session \in [up : BOOLEAN, attempt : 0 .. MaxAttempts, pinned : BOOLEAN]
        /\ flown \in [1 .. MaxAttempts -> 0 .. 2]
    BY <1>1, <2>4
  <2>6. sup \in Sups /\ owner \in Owners /\ rec \in Recs
    BY <1>1 DEF NewSup, NewOwner, NewRec, Sups, Owners, Recs, Pcs, Nexts, Results
  <2>7. sites \in [known : BOOLEAN, frozen : BOOLEAN] /\ queue \in Seq(Commands) /\ Len(queue) <= 2
    <3>1. sites \in [known : BOOLEAN, frozen : BOOLEAN]
      BY <1>1
    <3>2. queue \in Seq(Commands) /\ Len(queue) <= 2
      BY <1>1
    <3>3. QED
      BY <3>1, <3>2
  <2>8. QED
    BY <1>1, <2>3, <2>5, <2>6, <2>7 DEF AttemptTypeOK, Sups, Owners, Recs, Pcs, Nexts
<1>4. SessionInv
  BY <1>1 DEF SessionInv
<1>5. LedgerInv
  BY <1>1 DEF LedgerInv
<1>6. QueueInv
  <2>1. \A c \in Commands : ~ Pending(c)
    BY <1>1 DEF Pending, Commands, Phases
  <2>2. ~ Holding /\ owner.pc = "idle" /\ sup.st["SET"] = "none"
    BY <1>1 DEF Holding, NewOwner, NewSup, Commands
  <2>3. QED
    BY <1>1, <2>1, <2>2 DEF QueueInv
<1>7. PhaseInv
  BY <1>1 DEF PhaseInv, NewSup, Commands, Phases
<1>8. RecoveryInv
  BY <1>1 DEF RecoveryInv, NewSup, NewOwner
<1>9. OrdersInv
  BY <1>1 DEF OrdersInv, NoAct, NewOwner
<1>10. GroundInv
  BY <1>1 DEF GroundInv, NewCraft
<1>11. HomeInv
  BY <1>1 DEF HomeInv, NewOwner
<1>12. QED
  BY <1>3, <1>4, <1>5, <1>6, <1>7, <1>8, <1>9, <1>10, <1>11 DEF AttemptInv

LEMMA AttemptInvStep ==
    ASSUME AttemptInv, AttemptNext
    PROVE  AttemptInv'
BY AttemptTypeStep, SessionInvStep, LedgerInvStep, OrderlyStep, OrdersStep, GroundStep, HomeStep
DEF AttemptInv, Orderly

LEMMA AttemptInvStutter ==
    ASSUME AttemptInv, UNCHANGED attemptVars
    PROVE  AttemptInv'
<1>1. UNCHANGED <<craft, told, acked, seen, newer, authority, home, act, ledger, session, sup, radio,
                  queue, owner, rec, timer, sites, flown>>
  BY DEF attemptVars, controlVars, craftVars, sessionVars
<1>2. AttemptTypeOK'
  BY <1>1 DEF AttemptInv, AttemptTypeOK, ControlTypeOK
<1>3. SessionInv' /\ LedgerInv'
  BY <1>1 DEF AttemptInv, SessionInv, LedgerInv
<1>4. QueueInv' /\ PhaseInv' /\ RecoveryInv'
  BY <1>1, OrderlyKept DEF AttemptInv
<1>5. OrdersInv'
  BY <1>1, OrdersSame DEF AttemptInv
<1>6. GroundInv' /\ HomeInv'
  BY <1>1 DEF AttemptInv, GroundInv, HomeInv, OrderIn
<1>7. QED
  BY <1>2, <1>3, <1>4, <1>5, <1>6 DEF AttemptInv

\* What the invariant says of every state.
LEMMA AttemptInvSafe ==
    AttemptInv => AttemptTypeOK /\ AttemptSafe
<1> SUFFICES ASSUME AttemptInv PROVE AttemptTypeOK /\ AttemptSafe
  OBVIOUS
<1>1. AttemptTypeOK /\ LedgerInv /\ PhaseInv /\ RecoveryInv
  BY DEF AttemptInv
<1>2. ASSUME sup.st["FM1"] # "none", owner.pc \in Over
      PROVE  sup.outcome # "none" /\ (owner.pc = "raised" \/ sup.final # "none")
  <2>1. home # "none"
    BY <1>1, <1>2 DEF PhaseInv
  <2>2. owner.pc = "raised" \/ sup.final # "none"
    BY <1>1, <1>2 DEF RecoveryInv, Over
  <2>3. CASE owner.started
    BY <1>1, <1>2, <2>1, <2>2, <2>3 DEF RecoveryInv, Over
  <2>4. CASE ~ owner.started
    <3>1. sup.final = "SUCCEEDED"
      BY <1>1, <1>2, <2>4 DEF RecoveryInv, Over
    <3>2. sup.outcome = "HOME_LANDED"
      BY <1>1, <3>1 DEF PhaseInv
    <3>3. QED
      BY <2>2, <3>2
  <2>5. QED
    BY <2>3, <2>4
<1>3. QED
  BY <1>1, <1>2 DEF AttemptSafe, LedgerInv, PhaseInv

\* A recovery ends, and reports a landing only of a vehicle it has seen down.
RecoveryTold(outcome, raises) ==
    /\ session.up /\ owner.pc = "recover" /\ RecoveryEnds(outcome, raises)
    /\ outcome \in {"LOCAL_LANDED", "HOME_LANDED"} => OnGround /\ ~ seen.armed
    /\ outcome = "HOME_LANDED" => rec.returned

\* Results are kept, and the outcome too, as long as no recovery ends.
LEMMA ResultsKept ==
    ASSUME AttemptInv, AttemptNext
    PROVE  \/ ~ session'.up
           \/ \E outcome \in Outcomes, raises \in BOOLEAN : RecoveryTold(outcome, raises)
           \/ /\ sup'.outcome = sup.outcome
              /\ \A c \in Phases : sup.st[c] \in Results => sup'.st[c] = sup.st[c]
<1>a. sup \in Sups /\ owner \in Owners /\ AttemptTypeOK
  BY AttemptTypes DEF AttemptInv
<1>b. Phases \subseteq Commands
  BY DEF Commands
<1>1. Aged(sup, sup') => /\ sup'.outcome = sup.outcome
                         /\ \A c \in Phases : sup.st[c] \in Results => sup'.st[c] = sup.st[c]
  BY <1>a, <1>b, AgedKeeps
<1>2. CASE SessionEnds \/ DieConsuming
  BY <1>a, <1>2, ForgetEffects DEF SessionEnds, DieConsuming
<1>3. CASE Prepare \/ StartSession \/ Telemetry \/ VehicleActs \/ FlyOperation \/ RecoverOperation
           \/ Enqueue \/ DeadlinePasses \/ Mutate \/ NextOperation \/ Monitor
  <2>1. sup' = sup
    BY <1>3 DEF Prepare, StartSession, Telemetry, VehicleActs, FlyOperation, RecoverOperation, Enqueue,
                DeadlinePasses, Mutate, NextOperation, Monitor, sessionVars
  <2>2. QED
    BY <2>1
<1>4. CASE AdmitSet \/ AdmitFM1 \/ AdmitFM2
  <2>1. sup' = sup \/ \E c \in Commands : sup.st[c] = "none" /\ sup' = [sup EXCEPT !.st[c] = "QUEUED"]
    BY <1>4 DEF AdmitSet, AdmitFM1, AdmitFM2, FM1Admissible, Commands, Phases
  <2>2. CASE \E c \in Commands : sup.st[c] = "none" /\ sup' = [sup EXCEPT !.st[c] = "QUEUED"]
    <3>1. PICK c \in Commands : sup.st[c] = "none" /\ sup' = [sup EXCEPT !.st[c] = "QUEUED"]
      BY <2>2
    <3>2. sup'.outcome = sup.outcome /\ \A d \in Commands : d # c => sup'.st[d] = sup.st[d]
      BY <1>a, <3>1 DEF Sups
    <3>3. sup.st[c] \notin Results
      BY <3>1 DEF Results
    <3>4. QED
      BY <1>b, <3>2, <3>3
  <2>3. QED
    BY <2>1, <2>2
<1>5. CASE RequestAbort
  BY <1>a, <1>1, <1>5, ApplyAges DEF RequestAbort
<1>6. CASE TakeCommand
  BY <1>1, <1>6, TakeEffects
<1>7. CASE BeginCommand
  <2>1. CASE sup'.st = [sup.st EXCEPT ![owner.cmd] = "RUNNING"] /\ sup'.outcome = sup.outcome
             /\ sup.st[owner.cmd] = "QUEUED"
    <3>1. \A d \in Commands : d # owner.cmd => sup'.st[d] = sup.st[d]
      BY <1>a, <2>1 DEF Sups
    <3>2. sup.st[owner.cmd] \notin Results
      BY <2>1 DEF Results
    <3>3. QED
      BY <1>b, <2>1, <3>1, <3>2
  <2>2. QED
    BY <1>1, <1>7, <2>1, BeginEffects
<1>8. CASE FlightFails \/ HandlerReturns
  BY <1>1, <1>8, FailEffects, ReturnEffects
<1>9. CASE FinishCommand
  <2>1. /\ sup.st[owner.cmd] = "RUNNING" /\ sup'.outcome = sup.outcome
        /\ \A d \in Commands \ {owner.cmd} : 
              sup'.st[d] = sup.st[d] \/ sup.st[d] = "QUEUED"
    BY <1>9, FinishEffects
  <2>2. QED
    BY <1>b, <2>1 DEF Results
<1>10. CASE Idle \/ ClockFailsIdle \/ Turn
  BY <1>1, <1>10, IdleEffects, ClockIdleEffects, TurnEffects
<1>11. CASE RecoverStage \/ RecoverFails \/ RecoverYields \/ RecoveryClockFails
  <2>0. session.up /\ owner.pc = "recover"
    BY <1>11 DEF RecoverStage, RecoverFails, RecoverYields, RecoveryClockFails, RecoveringNow, OwnerAt
  <2>1. \/ sup' = sup
        \/ \E outcome \in Outcomes, raises \in BOOLEAN : RecoveryTold(outcome, raises)
    <3>1. CASE RecoverStage
      <4>1. CASE sup' = sup
        BY <4>1
      <4>2. CASE \E outcome \in {"UNCONFIRMED", "HOME_LANDED", "LOCAL_LANDED"} :
                   /\ RecoveryEnds(outcome, FALSE)
                   /\ outcome # "UNCONFIRMED" =>
                        /\ rec.stage \in {"ground", "disarmed"} /\ OnGround /\ ~ seen.armed
                        /\ (outcome = "HOME_LANDED") = rec.returned
        <5>1. PICK outcome \in {"UNCONFIRMED", "HOME_LANDED", "LOCAL_LANDED"} :
                   /\ RecoveryEnds(outcome, FALSE)
                   /\ outcome # "UNCONFIRMED" =>
                        /\ rec.stage \in {"ground", "disarmed"} /\ OnGround /\ ~ seen.armed
                        /\ (outcome = "HOME_LANDED") = rec.returned
          BY <4>2
        <5>2. RecoveryTold(outcome, FALSE)
          BY <2>0, <5>1 DEF RecoveryTold
        <5>3. QED
          BY <5>2 DEF Outcomes
      <4>3. QED
        BY <3>1, <4>1, <4>2, StageEffects
    <3>2. CASE RecoverFails
      BY <2>0, <3>2 DEF RecoverFails, Outcomes, RecoveryTold
    <3>3. CASE RecoverYields \/ RecoveryClockFails
      BY <2>0, <3>3 DEF RecoverYields, RecoveryClockFails, Outcomes, RecoveryTold
    <3>4. QED
      BY <1>11, <3>1, <3>2, <3>3
  <2>2. QED
    BY <2>1
<1>12. QED
  BY <1>2, <1>3, <1>4, <1>5, <1>6, <1>7, <1>8, <1>9, <1>10, <1>11 DEF AttemptNext, Radio, Owner

\* A recovery that says where the vehicle is.
LEMMA OutcomeTold ==
    ASSUME AttemptInv, NEW outcome \in Outcomes, NEW raises \in BOOLEAN,
           RecoveryTold(outcome, raises)
    PROVE  /\ sup'.st = sup.st /\ sup'.outcome = outcome /\ sup.outcome = "none"
           /\ outcome = "LOCAL_LANDED" => craft.landed = "ground"
           /\ outcome = "HOME_LANDED" => craft.landed = "ground" /\ ~craft.armed /\ craft.at = home
<1>a. sup \in Sups /\ RecoveryInv /\ GroundInv /\ HomeInv
  BY AttemptTypes DEF AttemptInv
<1>1. session.up /\ owner.pc = "recover" /\ RecoveryEnds(outcome, raises)
  BY DEF RecoveryTold
<1>2. sup'.st = sup.st /\ sup'.outcome = outcome
  BY <1>a, <1>1, RecoveryEffects DEF Sups
<1>3. sup.outcome = "none"
  BY <1>a, <1>1 DEF RecoveryInv
<1>4. outcome \in {"LOCAL_LANDED", "HOME_LANDED"} => craft.landed = "ground"
  BY <1>a, <1>1 DEF RecoveryTold, GroundInv, OnGround
<1>5. outcome = "HOME_LANDED" => ~ craft.armed /\ craft.at = home
  BY <1>a, <1>1 DEF RecoveryTold, HomeInv
<1>6. QED
  BY <1>2, <1>3, <1>4, <1>5

\* Who sends orders.
LEMMA OrdersLeave ==
    ASSUME AttemptInv, AttemptNext, told' # told, Len(told') >= Len(told)
    PROVE  /\ authority = "COMPANION" /\ sup.outcome = "none"
           /\ sup.latched => owner.pc = "recover"
<1>a. AttemptTypeOK /\ ControlTypeOK /\ RecoveryInv
  BY AttemptTypes DEF AttemptInv
<1>b. told \in Seq(Orders)
  BY <1>a DEF ControlTypeOK
<1>1. ~ StartSession
  <2> SUFFICES ASSUME StartSession PROVE FALSE
    OBVIOUS
  <2>1. told' = <<>> /\ Len(told') = 0
    BY DEF StartSession
  <2>2. Len(told) \in Nat
    BY <1>b, LenProperties
  <2>3. Len(told) = 0
    BY <2>1, <2>2
  <2>4. QED
    BY <1>b, <2>1, <2>3, EmptySeq
<1>2. ~ Forget
  BY <1>a, ForgetEffects
<1>3. ~ VehicleActs
  <2> SUFFICES ASSUME VehicleActs PROVE FALSE
    OBVIOUS
  <2>1. Obey
    BY DEF VehicleActs, Vehicle, Drift, ModeChanges
  <2>2. Len(told') < Len(told) /\ Len(told) \in Nat /\ Len(told') \in Nat
    <3>1. Len(told') < Len(told) /\ ControlTypeOK'
      BY <1>a, <2>1, ObeyEffects
    <3>2. QED
      BY <1>b, <3>1, LenProperties DEF ControlTypeOK
  <2>3. QED
    BY <2>2
<1>4. ~ Telemetry
  BY DEF Telemetry, SeeHeartbeat, SeeLanded, LoseAuthority, craftVars
<1>5. FlyOperation \/ RecoverOperation
  BY <1>a, <1>1, <1>2, <1>3, <1>4, OutwardSteps
<1>6. /\ authority = "COMPANION"
      /\ \/ owner.pc = "fly" /\ ~ sup.latched
         \/ owner.pc = "recover"
  BY <1>5, NewOrders
<1>7. sup.outcome = "none"
  BY <1>a, <1>6 DEF RecoveryInv, Over
<1>8. QED
  BY <1>6, <1>7

LEMMA AttemptStepsTaken ==
    ASSUME AttemptInv, AttemptNext
    PROVE  AttemptSteps
<1>1. told' # told /\ Len(told') >= Len(told) =>
         /\ authority = "COMPANION" /\ sup.outcome = "none"
         /\ sup.latched => owner.pc = "recover"
  BY OrdersLeave
<1>2. CASE ~ session'.up
  BY <1>1, <1>2 DEF AttemptSteps
<1>3. CASE \E outcome \in Outcomes, raises \in BOOLEAN : RecoveryTold(outcome, raises)
  <2>1. PICK outcome \in Outcomes, raises \in BOOLEAN : RecoveryTold(outcome, raises)
    BY <1>3
  <2>2. /\ sup'.st = sup.st /\ sup'.outcome = outcome /\ sup.outcome = "none"
        /\ outcome = "LOCAL_LANDED" => craft.landed = "ground"
        /\ outcome = "HOME_LANDED" => craft.landed = "ground" /\ ~craft.armed /\ craft.at = home
    BY <2>1, OutcomeTold
  <2>3. QED
    BY <1>1, <2>2 DEF AttemptSteps
<1>4. CASE /\ sup'.outcome = sup.outcome
           /\ \A c \in Phases : sup.st[c] \in Results => sup'.st[c] = sup.st[c]
  BY <1>1, <1>4 DEF AttemptSteps
<1>5. QED
  BY <1>2, <1>3, <1>4, ResultsKept

\* An attempt of the listener, for any number of attempts, sessions and crashes
\* (consume_and_acquire, admit, process_next, _recover_once, _confirm_recovery_ground,
\* execute_command_output): it is flown once, after its ledger entry; results and outcome are
\* not revised; a landing is reported only of a vehicle that has landed; and no order leaves
\* after an abort but those of the one recovery.
THEOREM AttemptFlownSafely == EntriesSpec => AttemptIsSafe
<1>1. EntriesInit => AttemptInv
  BY AttemptInvInit DEF EntriesInit
<1>2. AttemptInv /\ [EntriesNext]_entryVars =>
        [AttemptTypeOK' /\ AttemptSafe' /\ AttemptSteps]_attemptVars /\ AttemptInv'
  <2> SUFFICES ASSUME AttemptInv, [EntriesNext]_entryVars
               PROVE  [AttemptTypeOK' /\ AttemptSafe' /\ AttemptSteps]_attemptVars /\ AttemptInv'
    OBVIOUS
  <2>1. AttemptInv' => AttemptTypeOK' /\ AttemptSafe'
    BY AttemptInvSafe, PTL
  <2>2. CASE AttemptNext
    BY <2>1, <2>2, AttemptInvStep, AttemptStepsTaken
  <2>3. CASE UNCHANGED attemptVars
    BY <2>3, AttemptInvStutter
  <2>4. QED
    BY <2>2, <2>3 DEF EntriesNext, OnlyHost, OnlyListener, entryVars
<1>3. QED
  BY <1>1, <1>2, PTL DEF EntriesSpec, AttemptIsSafe
=============================================================================
