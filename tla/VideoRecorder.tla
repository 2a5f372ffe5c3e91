--------------------------- MODULE VideoRecorder ---------------------------
(***************************************************************************)
(* One camera stream's recorder in the artifacts container: the pairing    *)
(* buffer (FaultAwareRecorder), the FFmpeg process that a worker thread    *)
(* spawns under a deadline, and the finalization that publishes one MP4,   *)
(* or keeps what there is under the .partial name (VideoStreamRecorder).   *)
(*                                                                         *)
(* Frame k carries stamp k (units of 50 ms).  Images and metadata come on  *)
(* two topics, each in order, either one lossy.  The output and the log    *)
(* are anonymous inodes until they are linked; of a name only what it is   *)
(* linked to is kept.  Time is how many of a call's deadlines have passed. *)
(***************************************************************************)
EXTENDS Naturals, Sequences, FiniteSets

CONSTANTS
    Expected,   \* expected_frame_count, also the limit of the pairing buffer
    Sent,       \* frames the camera publishes
    MaxMishaps  \* bound: system calls that fail for reasons of their own

ASSUME VideoAssumption ==
    /\ Expected \in Nat \ {0} /\ Sent \in Nat
    /\ MaxMishaps \in Nat

VARIABLES
    vpc,        \* where the recorder's thread is
    handoff,    \* the status shared with the spawning worker
    worker,     \* where the worker thread is
    ffmpeg,     \* the process: none, alive, killed (SIGKILL sent), zero or bad (its exit)
    eof,        \* FFmpeg's stdin is closed
    startTime,  \* deadlines of start() that passed: the claim deadline, the deadline
    time,       \* deadlines of finalize() that passed: primary, copy, the deadline
    reap,       \* the phase of _reap_within: 0 wait, 1 SIGTERM, 2 SIGKILL
    nextFrame,  \* per topic the next frame it delivers
    images,     \* _images_by_timestamp
    metadata,   \* _metadata_by_frame_id
    accepting,  \* FaultAwareRecorder._accepting
    fed,        \* the pairs <<image, metadata>> written to FFmpeg
    failed,     \* VideoStreamRecorder._failed
    reported,   \* the failure callback was called
    outcome,    \* the outcome finalize() was given
    videoFd,    \* the output inode: writable, readonly or closed
    logFd,      \* the log inode, likewise
    names,      \* what .mp4, .mp4.partial and the log's name link to
    safe,       \* the run's directories are still the ones that were opened
    recovery,   \* a *_recovery_failed diagnostic was recorded
    published,  \* VideoFinalization.published
    mishaps

startVars == <<handoff, worker, startTime>>
frameVars == <<nextFrame, images, metadata, accepting, fed>>
diskVars == <<videoFd, logFd, names, safe>>
videoVars == <<vpc, startVars, ffmpeg, eof, time, reap, frameVars, failed, reported, outcome,
               diskVars, recovery, published, mishaps>>

Topics == {"image", "metadata"}
Outcomes == {"COMPLETED", "FAILED"}
Gone == {"none", "zero", "bad"}

VideoTypeOK ==
    /\ vpc \in {"new", "opened", "spawning", "cancelled", "startFailed", "recording", "closing",
                "reaping", "reaped", "sealLog", "linkLog", "judge", "publish", "preserve",
                "recovering", "done"}
    /\ handoff \in {"spawning", "ready", "claimed", "cancelled", "failed"}
    /\ worker \in {"idle", "spawning", "waiting", "killing", "reaping", "gone"}
    /\ ffmpeg \in Gone \cup {"alive", "killed"}
    /\ eof \in BOOLEAN
    /\ startTime \in 0 .. 2 /\ time \in 0 .. 3 /\ reap \in 0 .. 2
    /\ nextFrame \in [Topics -> 0 .. Sent]
    /\ images \subseteq [frame : 0 .. Sent, ok : BOOLEAN]
    /\ metadata \subseteq 0 .. Sent
    /\ accepting \in BOOLEAN
    /\ fed \in Seq((0 .. Sent) \X (0 .. Sent))
    /\ failed \in BOOLEAN /\ reported \in BOOLEAN /\ recovery \in BOOLEAN
    /\ outcome \in Outcomes
    /\ videoFd \in {"none", "writable", "readonly", "closed"}
    /\ logFd \in {"none", "writable", "readonly", "closed"}
    /\ names \in [{"mp4", "partial", "log"} -> {"none", "inode", "copy"}]
    /\ safe \in BOOLEAN /\ published \in BOOLEAN
    /\ mishaps \in 0 .. MaxMishaps

VideoInit ==
    /\ vpc = "new"
    /\ handoff = "spawning" /\ worker = "idle"
    /\ ffmpeg = "none" /\ eof = FALSE
    /\ startTime = 0 /\ time = 0 /\ reap = 0
    /\ nextFrame = [t \in Topics |-> 0]
    /\ images = {} /\ metadata = {}
    /\ accepting = TRUE
    /\ fed = <<>>
    /\ failed = FALSE /\ reported = FALSE /\ recovery = FALSE
    /\ outcome \in Outcomes
    /\ videoFd = "none" /\ logFd = "none"
    /\ names = [n \in {"mp4", "partial", "log"} |-> "none"]
    /\ safe = TRUE /\ published = FALSE
    /\ mishaps = 0

-----------------------------------------------------------------------------
(* Failing calls and passing time.                                          *)

\* A system call fails for a reason of its own.
Mishap == mishaps < MaxMishaps /\ mishaps' = mishaps + 1

\* A call that succeeds leaves the count alone.
Works == UNCHANGED mishaps

\* Somebody replaces a directory of the run.
Disturb ==
    /\ Mishap /\ safe
    /\ safe' = FALSE
    /\ UNCHANGED <<vpc, startVars, ffmpeg, eof, time, reap, frameVars, failed, reported, outcome,
                   videoFd, logFd, names, recovery, published>>

StartTimePasses ==
    /\ vpc \in {"spawning", "cancelled"} /\ startTime < 2
    /\ startTime' = startTime + 1
    /\ UNCHANGED <<vpc, handoff, worker, ffmpeg, eof, time, reap, frameVars, failed, reported,
                   outcome, diskVars, recovery, published, mishaps>>

\* _recovery_deadlines: the primary deadline, the copy deadline and the caller's.
FinalizeTimePasses ==
    /\ vpc \in {"closing", "reaping", "reaped", "sealLog", "linkLog", "judge", "publish",
                "preserve", "recovering"}
    /\ time < 3
    /\ time' = time + 1
    /\ UNCHANGED <<vpc, startVars, ffmpeg, eof, reap, frameVars, failed, reported, outcome,
                   diskVars, recovery, published, mishaps>>

-----------------------------------------------------------------------------
(* start().                                                                 *)

\* _preflight and _prepare_output: nothing is kept when either fails.
Open ==
    /\ vpc = "new"
    /\ \/ /\ Works /\ safe
          /\ vpc' = "opened"
          /\ videoFd' = "writable" /\ logFd' = "writable"
       \/ /\ Mishap
          /\ vpc' = "startFailed"
          /\ UNCHANGED <<videoFd, logFd>>
    /\ UNCHANGED <<startVars, ffmpeg, eof, time, reap, frameVars, failed, reported, outcome,
                   names, safe, recovery, published>>

\* _open_log_for_append, and _spawn_with_deadline up to the start of its thread.
StartWorker ==
    /\ vpc = "opened"
    /\ vpc' = "spawning" /\ worker' = "spawning"
    /\ UNCHANGED <<handoff, startTime, ffmpeg, eof, time, reap, frameVars, failed, reported,
                   outcome, diskVars, recovery, published, mishaps>>

\* spawn_process: the factory returned, or raised.
WorkerSpawns ==
    /\ worker = "spawning"
    /\ \/ /\ Works
          /\ ffmpeg' = "alive"
          /\ IF handoff = "cancelled"
             THEN worker' = "killing" /\ UNCHANGED handoff
             ELSE worker' = "waiting" /\ handoff' = "ready"
       \/ /\ Mishap
          /\ handoff' = "failed" /\ worker' = "gone"
          /\ UNCHANGED ffmpeg
    /\ UNCHANGED <<vpc, startTime, eof, time, reap, frameVars, failed, reported, outcome,
                   diskVars, recovery, published>>

\* spawn_process wakes up: the process has an owner, or it is its own to kill.
WorkerWakes ==
    /\ worker = "waiting" /\ handoff # "ready"
    /\ worker' = IF handoff = "claimed" THEN "gone" ELSE "killing"
    /\ UNCHANGED <<vpc, handoff, startTime, ffmpeg, eof, time, reap, frameVars, failed, reported,
                   outcome, diskVars, recovery, published, mishaps>>

\* _terminate_worker_process: SIGKILL, through the pid when the handle fails, then a
\* wait that is repeated without a limit.
WorkerKills ==
    /\ worker = "killing"
    /\ ffmpeg' = IF ffmpeg = "alive" THEN "killed" ELSE ffmpeg
    /\ worker' = "reaping"
    /\ UNCHANGED <<vpc, handoff, startTime, eof, time, reap, frameVars, failed, reported, outcome,
                   diskVars, recovery, published, mishaps>>

WorkerReaps ==
    /\ worker = "reaping" /\ ffmpeg \in Gone
    /\ worker' = "gone"
    /\ UNCHANGED <<vpc, handoff, startTime, ffmpeg, eof, time, reap, frameVars, failed, reported,
                   outcome, diskVars, recovery, published, mishaps>>

\* _spawn_with_deadline: claim the process, pass on the worker's failure, or cancel;
\* start() closes what it opened when it raises.
Claim ==
    /\ vpc = "spawning"
    /\ handoff # "spawning" \/ startTime > 0
    /\ \/ /\ handoff = "ready" /\ startTime = 0
          /\ handoff' = "claimed" /\ vpc' = "recording"
          /\ UNCHANGED <<videoFd, logFd>>
       \/ /\ handoff = "failed"
          /\ vpc' = "startFailed" /\ videoFd' = "closed" /\ logFd' = "closed"
          /\ UNCHANGED handoff
       \/ /\ handoff # "failed" /\ startTime > 0
          /\ handoff' = "cancelled" /\ vpc' = "cancelled"
          /\ UNCHANGED <<videoFd, logFd>>
    /\ UNCHANGED <<worker, startTime, ffmpeg, eof, time, reap, frameVars, failed, reported,
                   outcome, names, safe, recovery, published, mishaps>>

\* The wait for the worker's cleanup, up to the caller's deadline.
GiveUpStart ==
    /\ vpc = "cancelled"
    /\ worker = "gone" \/ startTime = 2
    /\ vpc' = "startFailed" /\ videoFd' = "closed" /\ logFd' = "closed"
    /\ UNCHANGED <<startVars, ffmpeg, eof, time, reap, frameVars, failed, reported, outcome,
                   names, safe, recovery, published, mishaps>>

-----------------------------------------------------------------------------
(* The FFmpeg process (external).                                           *)

\* It ends by itself after the end of its input or an error of its own, and surely
\* after SIGKILL.
FfmpegExits ==
    /\ ffmpeg \in {"alive", "killed"}
    /\ \/ ffmpeg = "alive" /\ eof /\ ffmpeg' = "zero" /\ Works
       \/ ffmpeg = "alive" /\ reap > 0 /\ ffmpeg' \in {"zero", "bad"} /\ Works
       \/ ffmpeg = "alive" /\ ffmpeg' = "bad" /\ Mishap
       \/ ffmpeg = "killed" /\ ffmpeg' = "bad" /\ Works
    /\ UNCHANGED <<vpc, startVars, eof, time, reap, frameVars, failed, reported, outcome,
                   diskVars, recovery, published>>

-----------------------------------------------------------------------------
(* Camera callbacks.                                                        *)

\* The consecutive frames, from the next one on, that both buffers hold.
Drainable(ims, mds) ==
    {k \in Len(fed) .. Sent :
        \A j \in Len(fed) .. k : j \in mds /\ \E im \in ims : im.frame = j}

\* The image the buffer holds for a stamp.
ImageOf(ims, k) == CHOOSE im \in ims : im.frame = k

\* _drain_pairs through accept_image, accept_metadata and _pair_if_ready: the pairs go
\* to FFmpeg in frame order until one is rejected or the pipe is gone.  The pair that
\* fails has already left the buffers, and the recorder fails closed.
DrainPairs(ims, mds) ==
    LET ready == Drainable(ims, mds)
    IN  \E n \in 0 .. Cardinality(ready) :
          LET taken == {k \in ready : k <= Len(fed) + n}
              Accepted(k) == ImageOf(ims, k).ok /\ ~failed /\ ffmpeg = "alive"
          IN  /\ \A k \in ready : k < Len(fed) + n => Accepted(k)
              /\ \/ n = Cardinality(ready) /\ Works
                 \/ n < Cardinality(ready) /\ ~Accepted(Len(fed) + n) /\ Works
                 \/ n < Cardinality(ready) /\ Accepted(Len(fed) + n) /\ Mishap
              /\ fed' = fed \o [i \in 1 .. n |-> <<ImageOf(ims, Len(fed) + i - 1).frame,
                                                   Len(fed) + i - 1>>]
              /\ images' = {im \in ims : im.frame \notin taken}
              /\ metadata' = mds \ taken
              /\ failed' = (failed \/ n < Cardinality(ready))

\* A frame's image or metadata arrives (_accept, _buffer); a malformed image is one
\* accept_image will reject.  A full buffer closes the recorder's input.
Deliver(t) ==
    /\ vpc = "recording" /\ nextFrame[t] < Sent
    /\ nextFrame' = [nextFrame EXCEPT ![t] = @ + 1]
    /\ IF ~accepting
       THEN UNCHANGED <<images, metadata, fed, failed, accepting, reported, mishaps>>
       ELSE IF Cardinality(IF t = "image" THEN images ELSE metadata) >= Expected
            THEN /\ accepting' = FALSE /\ reported' = TRUE
                 /\ UNCHANGED <<images, metadata, fed, failed, mishaps>>
            ELSE /\ \/ t = "image" /\ \E ok \in BOOLEAN :
                         DrainPairs(images \cup {[frame |-> nextFrame[t], ok |-> ok]}, metadata)
                    \/ t = "metadata" /\ DrainPairs(images, metadata \cup {nextFrame[t]})
                 /\ UNCHANGED <<accepting, reported>>
    /\ UNCHANGED <<vpc, startVars, ffmpeg, eof, time, reap, outcome, diskVars, recovery, published>>

\* The subscription's history is full and the sample is dropped.
Lose(t) ==
    /\ vpc = "recording" /\ nextFrame[t] < Sent
    /\ nextFrame' = [nextFrame EXCEPT ![t] = @ + 1]
    /\ UNCHANGED <<vpc, startVars, ffmpeg, eof, time, reap, images, metadata, accepting, fed,
                   failed, reported, outcome, diskVars, recovery, published, mishaps>>

-----------------------------------------------------------------------------
(* finalize().                                                              *)

\* freeze(), and the first checks of finalize(): a buffered half is reported to the
\* run and dropped.  (A pair the recorder itself holds is there only after a failure.)
Freeze ==
    /\ vpc = "recording"
    /\ accepting' = FALSE
    /\ reported' = (reported \/ images # {} \/ metadata # {})
    /\ images' = {} /\ metadata' = {}
    /\ vpc' = "closing"
    /\ UNCHANGED <<startVars, ffmpeg, eof, time, reap, nextFrame, fed, failed, outcome, diskVars,
                   recovery, published, mishaps>>

\* _close_stdin_within: a close that blocks past the deadline goes on in its thread.
CloseStdin ==
    /\ vpc = "closing"
    /\ vpc' = "reaping"
    /\ \/ eof' = TRUE /\ failed' = failed /\ Works
       \/ eof' = TRUE /\ failed' = TRUE /\ Mishap
       \/ time > 0 /\ eof' = FALSE /\ failed' = TRUE /\ Works
    /\ UNCHANGED <<startVars, ffmpeg, time, reap, frameVars, reported, outcome, diskVars, recovery,
                   published>>

CloserFinishes ==
    /\ vpc \in {"reaping", "reaped", "sealLog", "linkLog", "preserve", "recovering", "done"}
    /\ ~eof
    /\ eof' = TRUE
    /\ UNCHANGED <<vpc, startVars, ffmpeg, time, reap, frameVars, failed, reported, outcome,
                   diskVars, recovery, published, mishaps>>

\* _reap_within: wait, then SIGTERM and wait, then SIGKILL and wait; each wait has a
\* share of the time left.  When poll, wait or the signal itself fails,
\* _fallback_terminate_and_reap kills by pid.
Reap ==
    /\ vpc = "reaping"
    /\ \/ /\ ffmpeg \in Gone
          /\ vpc' = "reaped" /\ Works
          /\ UNCHANGED <<ffmpeg, reap, failed>>
       \/ /\ ffmpeg \notin Gone /\ reap < 2
          /\ reap' = reap + 1
          /\ ffmpeg' = IF reap = 1 THEN "killed" ELSE ffmpeg
          /\ UNCHANGED <<vpc, failed>> /\ Works
       \/ /\ ffmpeg \notin Gone /\ reap = 2 /\ time > 0
          /\ vpc' = "reaped" /\ Works
          /\ UNCHANGED <<ffmpeg, reap, failed>>
       \/ /\ ffmpeg \notin Gone /\ reap < 2 /\ Mishap
          /\ failed' = TRUE /\ reap' = 2 /\ ffmpeg' = "killed"
          /\ UNCHANGED vpc
    /\ UNCHANGED <<startVars, eof, time, frameVars, reported, outcome, diskVars, recovery,
                   published>>

\* Linking an inode to a free name in a directory that is still the run's.
MayLink(n) == safe /\ names[n] = "none"

\* The descriptor behind each of the names a failed recording may get.
Fd(n) == IF n = "log" THEN logFd ELSE videoFd

\* What finalize() leaves behind on every way out: _close_resources.
Leave ==
    /\ vpc' = "done"
    /\ videoFd' = "closed" /\ logFd' = "closed"

\* Mutant: the inode FFmpeg still writes to is linked itself.
AbandonLinked ==
    /\ vpc = "reaped" /\ ffmpeg \notin Gone
    /\ MayLink("partial") /\ time < 3
    /\ names' = [names EXCEPT !["partial"] = "inode"]
    /\ failed' = TRUE /\ worker' = "killing"
    /\ Leave
    /\ UNCHANGED <<handoff, startTime, ffmpeg, eof, time, reap, frameVars, reported, outcome, safe,
                   recovery, published, mishaps>>

\* Mutant: nobody kills the process finalize() gave up on.
AbandonAlive ==
    /\ vpc = "reaped" /\ ffmpeg \notin Gone
    /\ failed' = TRUE /\ recovery' = TRUE
    /\ ffmpeg' = "alive"
    /\ Leave
    /\ UNCHANGED <<startVars, eof, time, reap, frameVars, reported, outcome, names, safe,
                   published, mishaps>>

\* finalize() when FFmpeg is still there: _snapshot_recovery_artifacts copies whatever
\* the writable descriptors hold into inodes of their own, seals and links them (a copy
\* cut short is linked as far as it came); a background thread kills the process.
AbandonProcess ==
    /\ vpc = "reaped" /\ ffmpeg \notin Gone
    /\ \E kept \in SUBSET {"partial", "log"} :
         LET possible == {n \in {"partial", "log"} : MayLink(n) /\ time < 3}
         IN  /\ kept \subseteq possible
             /\ IF kept = possible THEN Works ELSE Mishap
             /\ names' = [n \in DOMAIN names |-> IF n \in kept THEN "copy" ELSE names[n]]
             /\ recovery' = (recovery \/ kept # {"partial", "log"})
    /\ failed' = TRUE
    /\ worker' = "killing"
    /\ Leave
    /\ UNCHANGED <<handoff, startTime, ffmpeg, eof, time, reap, frameVars, reported, outcome, safe,
                   published>>

\* _reopen_anonymous_readonly: fsync, reopen, chmod and verify within the deadline.
MaySeal == time = 0

\* _seal_output_readonly.
SealOutput ==
    /\ vpc = "reaped" /\ ffmpeg \in Gone
    /\ \/ /\ MaySeal /\ safe /\ Works
          /\ videoFd' = "readonly" /\ vpc' = "sealLog"
          /\ UNCHANGED failed
       \/ /\ IF MaySeal /\ safe THEN Mishap ELSE Works
          /\ vpc' = "recovering" /\ failed' = TRUE
          /\ UNCHANGED videoFd
    /\ UNCHANGED <<startVars, ffmpeg, eof, time, reap, frameVars, reported, outcome, logFd, names,
                   safe, recovery, published>>

SealLog ==
    /\ vpc = "sealLog"
    /\ \/ /\ MaySeal /\ Works
          /\ logFd' = "readonly" /\ vpc' = "linkLog"
          /\ UNCHANGED failed
       \/ /\ IF MaySeal THEN Mishap ELSE Works
          /\ vpc' = "recovering" /\ failed' = TRUE
          /\ UNCHANGED logFd
    /\ UNCHANGED <<startVars, ffmpeg, eof, time, reap, frameVars, reported, outcome, videoFd, names,
                   safe, recovery, published>>

\* _publish_readonly_log, then the tests of the exit code and of _failed.
LinkLog ==
    /\ vpc = "linkLog"
    /\ \/ /\ MayLink("log") /\ Works
          /\ names' = [names EXCEPT !["log"] = "inode"]
          /\ failed' = (failed \/ ffmpeg = "bad")
          /\ vpc' = IF failed' THEN "preserve" ELSE "judge"
       \/ /\ IF MayLink("log") THEN Mishap ELSE Works
          /\ vpc' = "recovering" /\ failed' = TRUE
          /\ UNCHANGED names
    /\ UNCHANGED <<startVars, ffmpeg, eof, time, reap, frameVars, reported, outcome, videoFd, logFd,
                   safe, recovery, published>>

\* VideoValidator.validate and _validate_probe on a stable, well-formed file.
Valid(count) ==
    /\ count > 0 /\ count <= Expected
    /\ outcome = "COMPLETED" => count = Expected

\* The validation and the path watch around it; ffprobe and the full decode may fail.
Judge ==
    /\ vpc = "judge"
    /\ \/ /\ Valid(Len(fed)) /\ time = 0 /\ safe /\ Works
          /\ vpc' = "publish"
          /\ UNCHANGED failed
       \/ /\ IF Valid(Len(fed)) /\ time = 0 /\ safe THEN Mishap ELSE Works
          /\ vpc' = "preserve" /\ failed' = TRUE
    /\ UNCHANGED <<startVars, ffmpeg, eof, time, reap, frameVars, reported, outcome, diskVars,
                   recovery, published>>

\* _publish_readonly_output under the final name.
Publish ==
    /\ vpc = "publish"
    /\ \/ /\ MayLink("mp4") /\ time = 0 /\ Works
          /\ names' = [names EXCEPT !["mp4"] = "inode"]
          /\ published' = TRUE
          /\ Leave
          /\ UNCHANGED failed
       \/ /\ IF MayLink("mp4") /\ time = 0 THEN Mishap ELSE Works
          /\ vpc' = "preserve" /\ failed' = TRUE
          /\ UNCHANGED <<names, published, videoFd, logFd>>
    /\ UNCHANGED <<startVars, ffmpeg, eof, time, reap, frameVars, reported, outcome, safe, recovery>>

\* _preserve_recovery_output: a failed recording keeps its sealed output under the
\* .partial name.
PreserveOutput ==
    /\ vpc = "preserve"
    /\ \/ /\ MayLink("partial") /\ time < 3 /\ Works
          /\ names' = [names EXCEPT !["partial"] = "inode"]
          /\ UNCHANGED recovery
       \/ /\ IF MayLink("partial") /\ time < 3 THEN Mishap ELSE Works
          /\ recovery' = (recovery \/ time < 3)
          /\ UNCHANGED names
    /\ Leave
    /\ UNCHANGED <<startVars, ffmpeg, eof, time, reap, frameVars, failed, reported, outcome, safe,
                   published>>

\* _preserve_confirmed_log seals the log first if it must; an output that was not
\* sealed is copied.
Rescued(n) == IF n = "partial" /\ videoFd = "writable" THEN "copy" ELSE "inode"

\* finalize()'s exception path once FFmpeg is gone.  _preserve_recovery_output links an
\* output that was sealed and _preserve_confirmed_log seals and links the log; what
\* neither could keep is copied from the descriptor that is still writable.
Recover ==
    /\ vpc = "recovering"
    /\ \E kept \in SUBSET {"partial", "log"} :
         LET possible == {n \in {"partial", "log"} : MayLink(n) /\ time < 3}
         IN  /\ kept \subseteq possible
             /\ IF kept = possible THEN Works ELSE Mishap
             /\ names' = [n \in DOMAIN names |->
                            IF n \in kept THEN Rescued(n) ELSE names[n]]
             /\ recovery' = (recovery \/ (kept # {"partial", "log"} /\ time < 3))
    /\ Leave
    /\ UNCHANGED <<startVars, ffmpeg, eof, time, reap, frameVars, failed, reported, outcome, safe,
                   published>>

-----------------------------------------------------------------------------

VideoThread ==
    \/ Open \/ StartWorker \/ Claim \/ GiveUpStart
    \/ CloseStdin \/ Reap \/ AbandonProcess \/ SealOutput \/ SealLog \/ LinkLog \/ Judge
    \/ Publish \/ PreserveOutput \/ Recover

VideoWorker == WorkerSpawns \/ WorkerWakes \/ WorkerKills \/ WorkerReaps

VideoClock == StartTimePasses \/ FinalizeTimePasses

VideoNext ==
    \/ VideoThread \/ VideoWorker \/ VideoClock
    \/ FfmpegExits \/ CloserFinishes \/ Freeze \/ Disturb
    \/ \E t \in Topics : Deliver(t) \/ Lose(t)

-----------------------------------------------------------------------------
(* Properties.                                                              *)

\* The final name exists only for a recording that is whole: FFmpeg ended by itself and
\* well, nothing was rejected, every frame it was fed is an image with its own metadata,
\* in frame order without a gap, and a completed run has all of them (_drain_pairs,
\* finalize, validate).
PublishedIsWhole ==
    names["mp4"] # "none" =>
        /\ published /\ ~failed /\ ffmpeg = "zero"
        /\ \A i \in DOMAIN fed : fed[i] = <<i - 1, i - 1>>
        /\ outcome = "COMPLETED" => Len(fed) = Expected

\* An inode FFmpeg wrote gets a name only when nobody can write to it any more, and
\* only one of the two names (_seal_output_readonly, _snapshot_recovery_artifacts).
NamedIsImmutable ==
    /\ \A n \in DOMAIN names :
         names[n] = "inode" => ffmpeg \in Gone /\ Fd(n) # "writable"
    /\ names["mp4"] = "none" \/ names["partial"] = "none"

\* What FFmpeg wrote is not lost in silence: when finalize() returned there is an MP4
\* or a .partial, or a diagnostic says that recovery failed, or the caller's deadline
\* was over (the recovery reserve of _recovery_deadlines).
NotLostInSilence ==
    vpc = "done" =>
        \/ names["mp4"] # "none" \/ names["partial"] # "none"
        \/ recovery \/ time = 3

\* What a camera stream leaves behind: a final name is a whole recording nobody can write
\* to any more, and whatever else there was is kept or its loss reported.
VideoIsEvidence == PublishedIsWhole /\ NamedIsImmutable /\ NotLostInSilence
=============================================================================
